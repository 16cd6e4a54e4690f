------------------------- MODULE MyClayRepairProofs -------------------------
(***************************************************************************)
(* Theorems about the repair of one lost chunk from parts of d helpers,    *)
(* for every profile, order of the planes, lost chunk and set of available *)
(* chunks.                                                                 *)
(***************************************************************************)
EXTENDS MyClayRepair, FiniteSetTheorems, SequenceTheorems, TLAPS

(* A set of natural numbers that has the predecessor of each of its        *)
(* members, and not 0, is empty: down from any c of them they are finitely *)
(* many, so that the predecessors would be all of them, c included.        *)
LEMMA NoDescent ==
  ASSUME NEW C \in SUBSET Nat, \A x \in C : x # 0 /\ x - 1 \in C
  PROVE  C = {}
<1> SUFFICES ASSUME NEW c \in C PROVE FALSE
  OBVIOUS
<1> DEFINE B == {x \in C : x <= c}
<1> DEFINE f == [x \in B |-> x - 1]
<1>1. IsFiniteSet(B)
  BY FS_BoundedSetOfNaturals
<1>2. \A x \in B : x - 1 \in B
  <2> SUFFICES ASSUME NEW x \in B PROVE x - 1 \in C /\ x - 1 <= c
    OBVIOUS
  <2>1. x \in Nat /\ c \in Nat /\ x <= c
    OBVIOUS
  <2> QED
    BY <2>1
<1>2a. f \in [B -> B]
  BY <1>2
<1>3. \A x, y \in B : f[x] = f[y] => x = y
  OBVIOUS
<1>4. f \in Injection(B, B)
  BY <1>2a, <1>3 DEF Injection, IsInjective
<1>5. f \in Surjection(B, B)
  BY <1>1, <1>4, FS_Injection
<1>6. \E y \in B : f[y] = c
  <2>1. c \in B
    OBVIOUS
  <2> HIDE DEF B, f
  <2> QED
    BY <1>5, <2>1 DEF Surjection
<1> QED
  BY <1>6

(* Induction over the natural numbers, for a set of them.                  *)
LEMMA SetInduction ==
  ASSUME NEW S, 0 \in S, \A n \in Nat : n \in S => n + 1 \in S
  PROVE  Nat \subseteq S
<1> DEFINE C == Nat \ S
<1>1. \A x \in C : x # 0 /\ x - 1 \in C
  <2> SUFFICES ASSUME NEW x \in C PROVE x # 0 /\ x - 1 \in C
    OBVIOUS
  <2>1. x # 0 /\ x - 1 \in Nat
    OBVIOUS
  <2>2. x - 1 \in S => x \in S
    BY <2>1
  <2> QED
    BY <2>1, <2>2
<1>2. C = {}
  BY <1>1, NoDescent
<1> QED
  BY <1>2

(* A set of natural numbers that is not empty has a least member.          *)
LEMMA LeastMember ==
  ASSUME NEW S \in SUBSET Nat, S # {}
  PROVE  \E m \in S : \A x \in S : m <= x
<1> SUFFICES ASSUME \A m \in S : \E x \in S : ~(m <= x) PROVE FALSE
  OBVIOUS
<1> DEFINE B == {n \in Nat : \A x \in S : n <= x}
<1>1. 0 \in B
  OBVIOUS
<1>2. \A n \in Nat : n \in B => n + 1 \in B
  <2> SUFFICES ASSUME NEW n \in Nat, n \in B, NEW x \in S PROVE n + 1 <= x
    OBVIOUS
  <2>1. n \notin S
    OBVIOUS
  <2>2. n <= x /\ n # x /\ x \in Nat
    BY <2>1
  <2> QED
    BY <2>2
<1> HIDE DEF B
<1>3. Nat \subseteq B
  BY <1>1, <1>2, SetInduction
<1>4. PICK x \in S : TRUE
  OBVIOUS
<1>5. x + 1 \in B
  BY <1>3
<1>6. x + 1 <= x
  BY <1>5 DEF B
<1> QED
  BY <1>6

(* A set of natural numbers below a bound has a greatest member.           *)
LEMMA GreatestMember ==
  ASSUME NEW S \in SUBSET Nat, S # {}, NEW b \in Nat, \A x \in S : x <= b
  PROVE  \E m \in S : \A x \in S : x <= m
<1> DEFINE B == {b - x : x \in S}
<1>1. B \in SUBSET Nat /\ B # {}
  <2>1. \A x \in S : b - x \in Nat
    OBVIOUS
  <2> QED
    BY <2>1
<1>2. PICK m \in B : \A x \in B : m <= x
  BY <1>1, LeastMember
<1>3. PICK x \in S : m = b - x
  BY <1>2
<1>4. \A y \in S : y <= x
  <2> SUFFICES ASSUME NEW y \in S PROVE y <= x
    OBVIOUS
  <2>1. m <= b - y
    BY <1>2
  <2> QED
    BY <1>3, <2>1
<1> QED
  BY <1>4

(* Numbers of a finite set by rank: each rank has one member.              *)
Rank(S, p) == Cardinality({s \in S : s < p})

(* Ranks are natural numbers and grow with the members.                    *)
LEMMA RankGrows ==
  ASSUME NEW S \in SUBSET Nat, IsFiniteSet(S)
  PROVE  /\ \A p \in S : Rank(S, p) \in Nat /\ Rank(S, p) < Cardinality(S)
         /\ \A p, r \in S : p < r => Rank(S, p) < Rank(S, r)
<1> DEFINE Below(p) == {s \in S : s < p}
<1>1. ASSUME NEW p \in S PROVE IsFiniteSet(Below(p)) /\ Cardinality(Below(p)) \in Nat
  BY FS_Subset, FS_CardinalityType
<1>2. ASSUME NEW p \in S, NEW B, IsFiniteSet(B), Below(p) \cup {p} \subseteq B
      PROVE  Cardinality(Below(p)) < Cardinality(B)
  <2>1. p \notin Below(p)
    OBVIOUS
  <2>2. /\ IsFiniteSet(Below(p) \cup {p})
        /\ Cardinality(Below(p) \cup {p}) = Cardinality(Below(p)) + 1
    BY <1>1, <2>1, FS_AddElement
  <2>3. Cardinality(Below(p) \cup {p}) <= Cardinality(B) /\ Cardinality(B) \in Nat
    BY <1>2, <2>2, FS_Subset, FS_CardinalityType
  <2> QED
    BY <1>1, <2>2, <2>3
<1>3. ASSUME NEW p \in S PROVE Cardinality(Below(p)) < Cardinality(S)
  BY <1>2
<1>4. ASSUME NEW p \in S, NEW r \in S, p < r
      PROVE  Cardinality(Below(p)) < Cardinality(Below(r))
  <2>0. \A s \in S : s < p => s < r
    BY <1>4
  <2>1. Below(p) \cup {p} \subseteq Below(r)
    BY <1>4, <2>0
  <2>2. IsFiniteSet(Below(r))
    BY <1>1
  <2> HIDE DEF Below
  <2> QED
    BY <1>2, <2>1, <2>2
<1> QED
  BY <1>1, <1>3, <1>4 DEF Rank

(* So there is a member of every rank below the number of members.         *)
LEMMA RankFound ==
  ASSUME NEW S \in SUBSET Nat, IsFiniteSet(S), NEW r \in Nat, r < Cardinality(S)
  PROVE  \E p \in S : Rank(S, p) = r
<1> DEFINE n == Cardinality(S)
<1> DEFINE I == 0 .. n - 1
<1> DEFINE f == [p \in S |-> Rank(S, p)]
<1>0. n \in Nat
  BY FS_CardinalityType
<1>1. f \in [S -> I]
  BY <1>0, RankGrows
<1>2. \A p, t \in S : f[p] = f[t] => p = t
  <2> SUFFICES ASSUME NEW p \in S, NEW t \in S, f[p] = f[t], p # t PROVE FALSE
    OBVIOUS
  <2>1. p < t \/ t < p
    OBVIOUS
  <2> QED
    BY <2>1, RankGrows
<1>3. f \in Injection(S, I)
  BY <1>1, <1>2 DEF Injection, IsInjective
<1>4. IsFiniteSet(I) /\ Cardinality(I) = n
  <2>1. 0 \in Int /\ n - 1 \in Int /\ 0 < n /\ n \in Nat
    BY <1>0
  <2> HIDE DEF n
  <2>2. Cardinality(I) = IF 0 > n - 1 THEN 0 ELSE n - 1 - 0 + 1
    BY <2>1, FS_Interval
  <2> QED
    BY <2>1, <2>2, FS_Interval
<1>5. f \in Surjection(S, I)
  BY <1>3, <1>4, FS_Injection
<1>6. r \in I
  BY <1>0
<1>7. PICK p \in S : f[p] = r
  <2> HIDE DEF f, I
  <2> QED
    BY <1>5, <1>6 DEF Surjection
<1> QED
  BY <1>7

(* As many members have a rank below m as there are ranks below m.         *)
LEMMA LowestCount ==
  ASSUME NEW S \in SUBSET Nat, IsFiniteSet(S), NEW m \in Nat, m <= Cardinality(S)
  PROVE  /\ IsFiniteSet({p \in S : Rank(S, p) < m})
         /\ Cardinality({p \in S : Rank(S, p) < m}) = m
<1> DEFINE L == {p \in S : Rank(S, p) < m}
<1> DEFINE I == 0 .. m - 1
<1> DEFINE f == [p \in L |-> Rank(S, p)]
<1>0. Cardinality(S) \in Nat
  BY FS_CardinalityType
<1>1. f \in [L -> I]
  <2>1. \A p \in L : Rank(S, p) \in Nat /\ Rank(S, p) < m
    BY RankGrows
  <2>2. \A p \in L : Rank(S, p) \in I
    BY <2>1
  <2> QED
    BY <2>2
<1>2. \A p, t \in L : f[p] = f[t] => p = t
  <2> SUFFICES ASSUME NEW p \in L, NEW t \in L, f[p] = f[t], p # t PROVE FALSE
    OBVIOUS
  <2>1. p < t \/ t < p
    OBVIOUS
  <2> QED
    BY <2>1, RankGrows
<1>3. \A r \in I : \E p \in L : f[p] = r
  <2> SUFFICES ASSUME NEW r \in I PROVE \E p \in L : f[p] = r
    OBVIOUS
  <2>1. r \in Nat /\ r < Cardinality(S) /\ r < m
    BY <1>0
  <2>2. PICK p \in S : Rank(S, p) = r
    BY <2>1, RankFound
  <2> QED
    BY <2>1, <2>2
<1>4. f \in Bijection(L, I)
  BY <1>1, <1>2, <1>3 DEF Bijection, Injection, Surjection, IsInjective
<1>5. IsFiniteSet(L)
  BY FS_Subset
<1>6. IsFiniteSet(I) /\ Cardinality(I) = m
  <2>1. 0 \in Int /\ m - 1 \in Int
    OBVIOUS
  <2>2. Cardinality(I) = IF 0 > m - 1 THEN 0 ELSE m - 1 - 0 + 1
    BY <2>1, FS_Interval
  <2> QED
    BY <2>1, <2>2, FS_Interval
<1> HIDE DEF f, L, I
<1>7. Cardinality(L) = Cardinality(I)
  <2>1. ExistsBijection(L, I)
    BY <1>4 DEF ExistsBijection
  <2> QED
    BY <1>5, <2>1, FS_Bijection
<1> QED
  BY <1>5, <1>6, <1>7 DEF L
-----------------------------------------------------------------------------
(* Sequences of runs.                                                      *)

(* The recursive function of FlattenSeq.                                   *)
IsFlatten(e, m, s) ==
  e = [n \in 1 .. m |-> IF n = 1 THEN s[n] ELSE e[n - 1] \o s[n]]

(* There is such a function for every length.                              *)
LEMMA FlattenExists ==
  ASSUME NEW s
  PROVE  \A m \in Nat : \E e : IsFlatten(e, m, s)
<1> DEFINE G(e, m) == e = [n \in 1 .. m |->
                             IF n = 1 THEN s[n] ELSE e[n - 1] \o s[n]]
<1> DEFINE B == {m \in Nat : \E e : G(e, m)}
<1>1. 0 \in B
  <2> DEFINE e0 == [n \in 1 .. 0 |-> s[n]]
  <2>1. G(e0, 0)
    <3>1. \A n \in 1 .. 0 : n = 1
      OBVIOUS
    <3> QED
      BY <3>1
  <2> QED
    BY <2>1
<1>2. \A m \in Nat : m \in B => m + 1 \in B
  <2> SUFFICES ASSUME NEW m \in Nat, m \in B PROVE m + 1 \in B
    OBVIOUS
  <2>0. PICK d : G(d, m)
    <3> HIDE DEF G
    <3> QED
      OBVIOUS
  <2>0a. d = [n \in 1 .. m |-> IF n = 1 THEN s[n] ELSE d[n - 1] \o s[n]]
    BY <2>0
  <2> DEFINE e1 == [n \in 1 .. m + 1 |-> IF n = m + 1
                                         THEN (IF m + 1 = 1 THEN s[n] ELSE d[m] \o s[m + 1])
                                         ELSE d[n]]
  <2>1. \A n \in 1 .. m + 1 :
           e1[n] = IF n = 1 THEN s[n] ELSE e1[n - 1] \o s[n]
    <3> SUFFICES ASSUME NEW n \in 1 .. m + 1
                 PROVE  e1[n] = IF n = 1 THEN s[n] ELSE e1[n - 1] \o s[n]
      OBVIOUS
    <3>1. CASE n = m + 1
      <4>1. CASE n = 1
        BY <3>1, <4>1
      <4>2. CASE n # 1
        <5>1. n - 1 = m /\ m \in 1 .. m + 1 /\ m # m + 1
          BY <3>1, <4>2
        <5>2. e1[n - 1] = d[m]
          BY <5>1
        <5>3. e1[n] = d[m] \o s[m + 1]
          BY <3>1, <4>2
        <5> HIDE DEF e1
        <5> QED
          BY <3>1, <4>2, <5>2, <5>3
      <4> QED
        BY <4>1, <4>2
    <3>2. CASE n # m + 1
      <4>1. n \in 1 .. m
        BY <3>2
      <4>2. e1[n] = d[n]
        BY <3>2
      <4>3. d[n] = IF n = 1 THEN s[n] ELSE d[n - 1] \o s[n]
        BY <2>0a, <4>1
      <4>4. CASE n = 1
        BY <4>2, <4>3, <4>4
      <4>5. CASE n # 1
        <5>1. n - 1 \in 1 .. m + 1 /\ n - 1 # m + 1
          BY <4>1, <4>5
        <5>2. e1[n - 1] = d[n - 1]
          BY <5>1
        <5> QED
          BY <4>2, <4>3, <4>5, <5>2
      <4> QED
        BY <4>4, <4>5
    <3> QED
      BY <3>1, <3>2
  <2>2. G(e1, m + 1)
    <3>1. e1 = [n \in 1 .. m + 1 |-> e1[n]]
      OBVIOUS
    <3> HIDE DEF e1
    <3> QED
      BY <2>1, <3>1
  <2> HIDE DEF G
  <2> QED
    BY <2>2
<1> HIDE DEF B
<1>3. Nat \subseteq B
  BY <1>1, <1>2, SetInduction
<1> QED
  <2> SUFFICES ASSUME NEW m \in Nat PROVE \E e : IsFlatten(e, m, s)
    OBVIOUS
  <2>1. \E e : G(e, m)
    BY <1>3 DEF B
  <2> QED
    BY <2>1, Zenon DEF IsFlatten

(* The recursive function, unfolded.                                       *)
LEMMA FlattenUnfolds ==
  ASSUME NEW s, Len(s) \in Nat, Len(s) # 0
  PROVE  \E e : /\ e[1] = s[1] /\ \A n \in 2 .. Len(s) : e[n] = e[n - 1] \o s[n]
                /\ FlattenSeq(s) = e[Len(s)]
<1> DEFINE m == Len(s)
<1> DEFINE G(e) == e = [n \in 1 .. Len(s) |->
                          IF n = 1 THEN s[n] ELSE e[n - 1] \o s[n]]
<1>1. \E e : G(e)
  <2>1. \E e : IsFlatten(e, Len(s), s)
    BY FlattenExists
  <2>2. PICK e : IsFlatten(e, Len(s), s)
    BY <2>1
  <2>3. G(e)
    BY <2>2, Zenon DEF IsFlatten
  <2> HIDE DEF G
  <2> QED
    BY <2>3
<1> DEFINE e == CHOOSE e : G(e)
<1>2. G(e)
  <2> HIDE DEF G
  <2> QED
    BY <1>1
<1>3. FlattenSeq(s) = e[Len(s)]
  BY Zenon DEF FlattenSeq
<1> HIDE DEF e
<1>4. 1 \in 1 .. Len(s)
  OBVIOUS
<1>5. e[1] = s[1]
  BY <1>2, <1>4
<1>6. \A n \in 2 .. Len(s) : e[n] = e[n - 1] \o s[n]
  <2> SUFFICES ASSUME NEW n \in 2 .. Len(s) PROVE e[n] = e[n - 1] \o s[n]
    OBVIOUS
  <2>1. n \in 1 .. Len(s) /\ n # 1
    OBVIOUS
  <2> QED
    BY <1>2, <2>1
<1> QED
  BY <1>3, <1>5, <1>6

(* Two sequences one after the other.                                      *)
LEMMA ConcatFacts ==
  ASSUME NEW S, NEW s \in Seq(S), NEW t \in Seq(S)
  PROVE  /\ s \o t \in Seq(S) /\ Range(s \o t) = Range(s) \cup Range(t)
         /\ IsInjective(s) /\ IsInjective(t) /\ Range(s) \cap Range(t) = {}
              => IsInjective(s \o t)
<1>1. /\ s \o t \in Seq(S) /\ Len(s \o t) = Len(s) + Len(t)
      /\ Len(s) \in Nat /\ Len(t) \in Nat
      /\ DOMAIN s = 1 .. Len(s) /\ DOMAIN t = 1 .. Len(t)
      /\ DOMAIN (s \o t) = 1 .. Len(s) + Len(t)
  OBVIOUS
<1>2. \A i \in DOMAIN s : i \in DOMAIN (s \o t) /\ (s \o t)[i] = s[i]
  BY <1>1
<1>3. \A i \in DOMAIN t : Len(s) + i \in DOMAIN (s \o t) /\ (s \o t)[Len(s) + i] = t[i]
  BY <1>1
<1>4. \A i \in DOMAIN (s \o t) :
        \/ i \in DOMAIN s
        \/ i - Len(s) \in DOMAIN t /\ i = Len(s) + (i - Len(s))
  BY <1>1
<1> DEFINE c == s \o t
<1>5. /\ \A i \in DOMAIN s : i \in DOMAIN c /\ c[i] = s[i]
      /\ \A i \in DOMAIN t : Len(s) + i \in DOMAIN c /\ c[Len(s) + i] = t[i]
      /\ \A i \in DOMAIN c :
           \/ i \in DOMAIN s
           \/ \E k \in DOMAIN t : i = Len(s) + k
      /\ c \in Seq(S)
  BY <1>1, <1>2, <1>3, <1>4
<1> HIDE DEF c
<1>6. Range(c) = Range(s) \cup Range(t)
  BY <1>5 DEF Range
<1>7. ASSUME IsInjective(s), IsInjective(t), Range(s) \cap Range(t) = {}
      PROVE  IsInjective(c)
  <2> SUFFICES ASSUME NEW i \in DOMAIN c, NEW j \in DOMAIN c, c[i] = c[j] PROVE i = j
    BY DEF IsInjective
  <2>1. CASE i \in DOMAIN s /\ j \in DOMAIN s
    BY <1>5, <1>7, <2>1 DEF IsInjective
  <2>2. ASSUME NEW k \in DOMAIN t, NEW l \in DOMAIN t, i = Len(s) + k, j = Len(s) + l
        PROVE  i = j
    BY <1>5, <1>7, <2>2 DEF IsInjective
  <2>3. ASSUME NEW k \in DOMAIN s, NEW l \in DOMAIN t, s[k] = t[l] PROVE FALSE
    BY <1>7, <2>3 DEF Range
  <2> QED
    BY <1>5, <2>1, <2>2, <2>3
<1> QED
  BY <1>5, <1>6, <1>7 DEF c

(* A list of runs, the positions of a run, and its sequence of positions.  *)
RunList(runs) == runs \in Seq(Nat \X Nat) /\ Len(runs) # 0
Cells(r)      == r[1] .. r[1] + r[2] - 1
Segment(r)    == [j \in 1 .. r[2] |-> r[1] + j - 1]
Apart(runs)   == \A i, j \in DOMAIN runs : i # j => Cells(runs[i]) \cap Cells(runs[j]) = {}

(* A run is the sequence of its positions.                                 *)
LEMMA SegmentFacts ==
  ASSUME NEW r \in Nat \X Nat
  PROVE  Segment(r) \in Seq(Nat) /\ Range(Segment(r)) = Cells(r) /\ IsInjective(Segment(r))
<1>1. r[1] \in Nat /\ r[2] \in Nat
  OBVIOUS
<1>2. \A j \in 1 .. r[2] : r[1] + j - 1 \in Nat
  BY <1>1
<1>3. Segment(r) \in Seq(Nat) /\ DOMAIN Segment(r) = 1 .. r[2]
  BY <1>1, <1>2 DEF Segment
<1>4. Range(Segment(r)) \subseteq Cells(r)
  BY <1>1, <1>3 DEF Segment, Range, Cells
<1>5. ASSUME NEW p \in Cells(r) PROVE p \in Range(Segment(r))
  <2>1. p - r[1] + 1 \in 1 .. r[2] /\ r[1] + (p - r[1] + 1) - 1 = p
    BY <1>1, <1>5 DEF Cells
  <2> QED
    BY <1>3, <2>1 DEF Segment, Range
<1>6. IsInjective(Segment(r))
  BY <1>1, <1>3 DEF Segment, IsInjective
<1> QED
  BY <1>3, <1>4, <1>5, <1>6

(* The positions of a list of runs are those of its runs, and come once    *)
(* each if the runs are apart.                                             *)
LEMMA PositionsFacts ==
  ASSUME NEW runs, RunList(runs)
  PROVE  /\ Positions(runs) \in Seq(Nat)
         /\ Range(Positions(runs)) = UNION {Cells(runs[i]) : i \in DOMAIN runs}
         /\ Apart(runs) => IsInjective(Positions(runs))
<1> DEFINE s == [i \in DOMAIN runs |-> Segment(runs[i])]
<1>1. /\ Len(runs) \in Nat /\ Len(runs) # 0 /\ DOMAIN runs = 1 .. Len(runs)
      /\ \A i \in 1 .. Len(runs) : runs[i] \in Nat \X Nat
  BY DEF RunList
<1>2. \A i \in 1 .. Len(runs) : s[i] = Segment(runs[i]) /\ s[i] \in Seq(Nat)
  BY <1>1, SegmentFacts
<1>3. s \in Seq(Seq(Nat)) /\ Len(s) = Len(runs)
  BY <1>1, <1>2
<1>4. Positions(runs) = FlattenSeq(s)
  BY Zenon DEF Positions, Segment
<1> HIDE DEF s
<1>5. PICK e : /\ e[1] = s[1] /\ \A n \in 2 .. Len(s) : e[n] = e[n - 1] \o s[n]
               /\ FlattenSeq(s) = e[Len(s)]
  BY <1>1, <1>3, FlattenUnfolds
<1> DEFINE First(m) == {i \in DOMAIN runs : i <= m}
<1> DEFINE Good(m) == /\ e[m] \in Seq(Nat)
                      /\ Range(e[m]) = UNION {Cells(runs[i]) : i \in First(m)}
                      /\ Apart(runs) => IsInjective(e[m])
<1> DEFINE B == {n \in Nat : n + 1 \in 1 .. Len(runs) => Good(n + 1)}
<1>6. 0 \in B
  <2>1. 1 \in 1 .. Len(runs) /\ First(1) = {1}
    BY <1>1
  <2>2. e[1] = Segment(runs[1])
    BY <1>2, <1>5, <2>1
  <2>3. Good(1)
    BY <1>1, <2>1, <2>2, SegmentFacts
  <2> QED
    BY <2>3
<1>7. \A n \in Nat : n \in B => n + 1 \in B
  <2> SUFFICES ASSUME NEW n \in Nat, n \in B, (n + 1) + 1 \in 1 .. Len(runs)
               PROVE  Good((n + 1) + 1)
    <3> HIDE DEF Good
    <3> QED
      OBVIOUS
  <2>1. PICK k : k = (n + 1) + 1
    OBVIOUS
  <2>2. /\ k \in 2 .. Len(runs) /\ k \in 1 .. Len(runs) /\ k - 1 = n + 1
        /\ n + 1 \in 1 .. Len(runs) /\ k \in Nat
    BY <1>1, <2>1
  <2>3. Good(n + 1)
    BY <2>2
  <2>4. e[k] = e[n + 1] \o Segment(runs[k])
    BY <1>2, <1>3, <1>5, <2>2
  <2>5. /\ Segment(runs[k]) \in Seq(Nat) /\ Range(Segment(runs[k])) = Cells(runs[k])
        /\ IsInjective(Segment(runs[k]))
    BY <1>1, <2>2, SegmentFacts
  <2>6. First(k) = First(n + 1) \cup {k} /\ k \notin First(n + 1)
    BY <1>1, <2>1, <2>2
  <2>7. /\ e[k] \in Seq(Nat) /\ Range(e[k]) = Range(e[n + 1]) \cup Cells(runs[k])
        /\ IsInjective(e[n + 1]) /\ Range(e[n + 1]) \cap Cells(runs[k]) = {}
             => IsInjective(e[k])
    BY <2>3, <2>4, <2>5, ConcatFacts
  <2>8. Range(e[k]) = UNION {Cells(runs[i]) : i \in First(k)}
    <3> HIDE DEF First
    <3> QED
      BY <2>3, <2>6, <2>7
  <2>9. ASSUME Apart(runs) PROVE IsInjective(e[k])
    <3>1. Range(e[n + 1]) \cap Cells(runs[k]) = {}
      <4>1. \A i \in First(n + 1) : Cells(runs[i]) \cap Cells(runs[k]) = {}
        BY <1>1, <2>2, <2>6, <2>9 DEF Apart
      <4> HIDE DEF First
      <4> QED
        BY <2>3, <4>1
    <3> QED
      BY <2>3, <2>7, <2>9, <3>1
  <2>10. Good(k)
    BY <2>7, <2>8, <2>9
  <2> HIDE DEF Good
  <2> QED
    BY <2>1, <2>10
<1> HIDE DEF Good
<1>8. Nat \subseteq B
  <2> HIDE DEF B
  <2> QED
    BY <1>6, <1>7, SetInduction
<1>9. Good(Len(runs))
  <2>1. Len(runs) - 1 \in Nat /\ (Len(runs) - 1) + 1 = Len(runs)
        /\ Len(runs) \in 1 .. Len(runs)
    BY <1>1
  <2> QED
    BY <1>8, <2>1
<1>10. First(Len(runs)) = DOMAIN runs
  BY <1>1
<1> QED
  BY <1>3, <1>4, <1>5, <1>9, <1>10 DEF Good
-----------------------------------------------------------------------------
(* The geometry: nodes, planes and the order of the planes.                *)

(* q is a positive integer and t a natural number, so coordinates are      *)
(* integers.                                                               *)
LEMMA QTypes == Q \in Nat \ {0} /\ Nu \in Nat /\ T \in Nat /\ X \subseteq Int /\ Y \subseteq Int
<1>1. Q \in Nat \ {0}
  BY ProfileAssumption DEF Q
<1>2. (K + M) % Q \in 0 .. Q - 1
  BY <1>1, ProfileAssumption
<1>3. Nu \in Nat
  BY <1>1, <1>2 DEF Nu
<1>4. T \in Nat
  BY <1>1, <1>3, ProfileAssumption DEF T
<1> QED
  BY <1>1, <1>3, <1>4 DEF X, Y

(* The pair of a cell is a cell (node_sw, z_sw of                          *)
(* get_uncoupled_from_coupled).                                            *)
LEMMA PairTypes ==
  ASSUME NEW n \in Node, NEW z \in Plane
  PROVE  /\ n[1] \in X /\ n[2] \in Y /\ z[n[2]] \in X
         /\ node_sw(n, z) \in Node /\ z_sw(n, z) \in Plane
         /\ n = <<n[1], n[2]>>
  BY DEF Node, Plane, node_sw, z_sw

(* A node is its two coordinates. *)
LEMMA NodeEquality ==
  ASSUME NEW n \in Node, NEW v \in Node, n # v
  PROVE  n[1] # v[1] \/ n[2] # v[2]
  BY DEF Node

(* Pairing twice is the identity. *)
LEMMA PairInvolution ==
  ASSUME NEW n \in Node, NEW z \in Plane
  PROVE  /\ node_sw(node_sw(n, z), z_sw(n, z)) = n
         /\ z_sw(node_sw(n, z), z_sw(n, z)) = z
         /\ z_sw(n, z)[n[2]] = n[1]
         /\ node_sw(n, z)[1] = z[n[2]] /\ node_sw(n, z)[2] = n[2]
<1>1. /\ z_sw(n, z)[n[2]] = n[1]
      /\ node_sw(n, z)[1] = z[n[2]] /\ node_sw(n, z)[2] = n[2]
  BY PairTypes DEF node_sw, z_sw, Plane
<1>2. node_sw(node_sw(n, z), z_sw(n, z)) = n
  BY <1>1, PairTypes DEF node_sw
<1>3. z_sw(node_sw(n, z), z_sw(n, z)) = z
  BY <1>1, PairTypes DEF z_sw, Plane
<1> QED
  BY <1>1, <1>2, <1>3

(* order_ind is the inverse of order, as init fills it. *)
LEMMA OrderInd ==
  ASSUME NEW z \in Plane
  PROVE  order_ind[z] \in Pos /\ Order[order_ind[z]] = z
  BY OrderAssumption DEF order_ind

(* Each position holds one plane, whose order_ind it is. *)
LEMMA OrderIndUnique ==
  ASSUME NEW i \in Pos
  PROVE  /\ Order[i] \in Plane /\ order_ind[Order[i]] = i
         /\ \A w \in Plane : order_ind[w] = i => w = Order[i]
<1>1. Order[i] \in Plane
  BY OrderAssumption
<1>2. order_ind[Order[i]] \in Pos /\ Order[order_ind[Order[i]]] = Order[i]
  BY <1>1, OrderInd
<1>3. order_ind[Order[i]] = i
  BY <1>2, OrderAssumption
<1> QED
  BY <1>1, <1>3, OrderInd

(* The nodes are finitely many. *)
LEMMA NodeFinite == IsFiniteSet(Node)
<1>1. IsFiniteSet(X) /\ IsFiniteSet(Y)
  BY QTypes, FS_Interval DEF X, Y
<1> QED
  BY <1>1, FS_Product DEF Node

(* Real and zero nodes make up the nodes, and k+m nodes are real. *)
LEMMA RealNodes ==
  /\ Data \subseteq Node /\ Parity \subseteq Node /\ Real \subseteq Node
  /\ Data \cap Parity = {} /\ Virtual \cap Real = {}
  /\ Node = Real \cup Virtual
  /\ IsFiniteSet(Real) /\ Cardinality(Real) = K + M
<1>1. ASSUME NEW n \in Node PROVE NodeId(n) \in Int
  <2>0. n[1] \in X /\ n[2] \in Y
    BY <1>1 DEF Node
  <2>1. Q \in Int
    BY QTypes
  <2>2. n[1] \in Int /\ n[2] \in Int
    BY <2>0, QTypes
  <2>3. n[2] * Q \in Int
    BY <2>1, <2>2
  <2> QED
    BY <2>2, <2>3 DEF NodeId
<1>2. /\ Data \subseteq Node /\ Parity \subseteq Node /\ Real \subseteq Node
      /\ Data \cap Parity = {} /\ Virtual \cap Real = {}
      /\ Node = Real \cup Virtual
  BY <1>1, QTypes, ProfileAssumption DEF Data, Parity, Real, Virtual
<1>3. IsFiniteSet(Data) /\ IsFiniteSet(Parity)
  BY <1>2, NodeFinite, FS_Subset
<1>4. /\ IsFiniteSet(Data \cup Parity)
      /\ Cardinality(Data \cup Parity) =
           Cardinality(Data) + Cardinality(Parity) - Cardinality(Data \cap Parity)
  BY <1>3, FS_Union
<1>5. Cardinality(Data \cap Parity) = 0
  BY <1>2, FS_EmptySet
<1> QED
  BY <1>2, <1>4, <1>5, NodeCountAssumption, ProfileAssumption DEF Real

-----------------------------------------------------------------------------
(* The runs of sub-chunks to read.                                         *)

(* A product grows with its factors.                                       *)
LEMMA Products ==
  ASSUME NEW c \in Nat, NEW a \in Nat, NEW b \in Nat, a <= b
  PROVE  c * a \in Nat /\ c * b \in Nat /\ c * a <= c * b
<1>1. PICK e \in Nat : b = a + e
  <2>1. b - a \in Nat /\ b = a + (b - a)
    OBVIOUS
  <2> QED
    BY <2>1
<1>2. c * e \in Nat /\ c * b = c * a + c * e
  BY <1>1
<1> QED
  BY <1>2

(* Quotient and remainder are unique.                                      *)
LEMMA DivMod ==
  ASSUME NEW c \in Nat \ {0}, NEW q \in Nat, NEW r \in 0 .. c - 1
  PROVE  (c * q + r) \div c = q /\ (c * q + r) % c = r
<1>1. PICK a : a = c * q + r
  OBVIOUS
<1>2. PICK d : d = a \div c
  OBVIOUS
<1>3. PICK m : m = a % c
  OBVIOUS
<1>4. a \in Nat /\ d \in Nat /\ m \in 0 .. c - 1 /\ a = c * d + m
  <2>1. c * q \in Nat
    OBVIOUS
  <2>2. a \in Nat
    BY <1>1, <2>1
  <2> QED
    BY <1>2, <1>3, <2>2
<1>5. ~(d < q)
  <2> SUFFICES ASSUME d < q PROVE FALSE
    OBVIOUS
  <2>1. c * (d + 1) <= c * q
    BY <1>4, Products
  <2>2. c * (d + 1) = c * d + c
    BY <1>4
  <2>3. c * d \in Nat /\ c * q \in Nat
    BY <1>4
  <2> QED
    BY <1>1, <1>4, <2>1, <2>2, <2>3
<1>6. ~(q < d)
  <2> SUFFICES ASSUME q < d PROVE FALSE
    OBVIOUS
  <2>1. c * (q + 1) <= c * d
    BY <1>4, Products
  <2>2. c * (q + 1) = c * q + c
    OBVIOUS
  <2>3. c * d \in Nat /\ c * q \in Nat
    BY <1>4
  <2> QED
    BY <1>1, <1>4, <2>1, <2>2, <2>3
<1>7. d = q
  BY <1>4, <1>5, <1>6
<1>8. m = r
  <2>1. c * q \in Nat
    OBVIOUS
  <2> QED
    BY <1>1, <1>4, <1>7, <2>1
<1> QED
  BY <1>1, <1>2, <1>3, <1>7, <1>8

(* The digit of a position in a run, and which run it is in.               *)
LEMMA RunDigit ==
  ASSUME NEW n \in Nat \ {0}, NEW c \in Nat \ {0}, NEW x \in 0 .. n - 1, NEW u \in Nat,
         NEW p \in Nat, x * c + u * n * c <= p, p < x * c + u * n * c + c
  PROVE  /\ (p \div c) % n = x /\ (p \div c) \div n = u
         /\ p < (n * c) * (u + 1)
<1> DEFINE a == n * u + x
<1>1. n * u \in Nat /\ a \in Nat
  OBVIOUS
<1>2. x * c + u * n * c = c * a /\ c * a \in Nat
  OBVIOUS
<1>3. PICK r : r = p - c * a
  OBVIOUS
<1>4. r \in 0 .. c - 1 /\ p = c * a + r
  BY <1>2, <1>3
<1>5. a \div n = u /\ a % n = x
  BY DivMod
<1>6. p \div c = a
  <2> HIDE DEF a
  <2> QED
    BY <1>1, <1>4, DivMod
<1>7. c * (a + 1) <= c * (n * (u + 1))
  <2>1. n * (u + 1) = n * u + n /\ n * (u + 1) \in Nat
    BY <1>1
  <2>2. a + 1 <= n * (u + 1) /\ a + 1 \in Nat
    BY <1>1, <2>1
  <2> HIDE DEF a
  <2> QED
    BY <2>1, <2>2, Products
<1>8. c * (a + 1) = c * a + c
  BY <1>1
<1>9. c * (n * (u + 1)) = (n * c) * (u + 1)
  OBVIOUS
<1>10. p < c * (a + 1)
  BY <1>2, <1>4, <1>8
<1> HIDE DEF a
<1> QED
  BY <1>1, <1>5, <1>6, <1>7, <1>9, <1>10

(* A position whose digit is x is in the run of the rest of its quotient.  *)
LEMMA DigitRun ==
  ASSUME NEW n \in Nat \ {0}, NEW c \in Nat \ {0}, NEW b \in Nat, NEW p \in Nat,
         p < b * (n * c)
  PROVE  \E x \in 0 .. n - 1, u \in 0 .. b - 1 :
           /\ (p \div c) % n = x
           /\ x * c + u * n * c <= p /\ p < x * c + u * n * c + c
<1>1. PICK a : a = p \div c
  OBVIOUS
<1>2. PICK r : r = p % c
  OBVIOUS
<1>3. a \in Nat /\ r \in 0 .. c - 1 /\ p = c * a + r
  BY <1>1, <1>2
<1>4. PICK u : u = a \div n
  OBVIOUS
<1>5. PICK x : x = a % n
  OBVIOUS
<1>6. u \in Nat /\ x \in 0 .. n - 1 /\ a = n * u + x
  BY <1>3, <1>4, <1>5
<1>7. c * a = x * c + u * n * c /\ c * a \in Nat
  BY <1>3, <1>6
<1>8. x * c + u * n * c <= p /\ p < x * c + u * n * c + c
  BY <1>3, <1>7
<1>9. u < b
  <2> SUFFICES ASSUME b <= u PROVE FALSE
    BY <1>6
  <2>1. (n * c) * b <= (n * c) * u /\ (n * c) * u \in Nat
    <3>1. n * c \in Nat
      OBVIOUS
    <3> QED
      BY <1>6, <3>1, Products
  <2>2. (n * c) * b = b * (n * c) /\ (n * c) * u = u * n * c
    BY <1>6
  <2>3. x * c \in Nat
    BY <1>6
  <2>4. u * n * c <= p
    BY <1>8, <2>1, <2>2, <2>3
  <2> QED
    BY <2>1, <2>2, <2>4
<1>10. u \in 0 .. b - 1 /\ (p \div c) % n = x
  BY <1>1, <1>5, <1>6, <1>9
<1> QED
  BY <1>6, <1>8, <1>10

(* The plain runs are apart, and cover the positions whose digit at the    *)
(* lost node's column is the lost node's.                                  *)
LEMMA PlainRunsFacts ==
  ASSUME NEW i \in Node
  PROVE  /\ RunList(PlainRuns(i)) /\ Apart(PlainRuns(i))
         /\ UNION {Cells(PlainRuns(i)[s]) : s \in DOMAIN PlainRuns(i)}
              = {p \in Pos : get_plane_vector(p)[i[2]] = i[1]}
         /\ SubChunkNo \in Nat \ {0}
<1>0. /\ Q \in Nat \ {0} /\ i[2] \in Y /\ i[1] \in 0 .. Q - 1
      /\ Q ^ i[2] \in Nat \ {0} /\ Q ^ (T - 1 - i[2]) \in Nat \ {0}
      /\ SubChunkNo = Q ^ i[2] * (Q * Q ^ (T - 1 - i[2]))
  BY QTypes, PowerAssumption DEF Node, X
<1>1. PICK n : n = Q
  OBVIOUS
<1>2. PICK b : b = Q ^ i[2]
  OBVIOUS
<1>3. PICK c : c = Q ^ (T - 1 - i[2])
  OBVIOUS
<1>4. PICK x : x = i[1]
  OBVIOUS
<1>5. /\ n \in Nat \ {0} /\ b \in Nat \ {0} /\ c \in Nat \ {0} /\ x \in 0 .. n - 1
      /\ SubChunkNo = b * (n * c)
  BY <1>0, <1>1, <1>2, <1>3, <1>4
<1>6. PlainRuns(i) = [s \in 1 .. b |-> <<x * c + (s - 1) * n * c, c>>]
  BY <1>1, <1>2, <1>3, <1>4, Zenon DEF PlainRuns
<1>7. \A s \in 1 .. b : s - 1 \in Nat /\ x * c + (s - 1) * n * c \in Nat
  <2> SUFFICES ASSUME NEW s \in 1 .. b
               PROVE  s - 1 \in Nat /\ x * c + (s - 1) * n * c \in Nat
    OBVIOUS
  <2>1. PICK u \in Nat : u = s - 1
    BY <1>5
  <2>2. x * c \in Nat /\ u * n * c \in Nat
    BY <1>5
  <2> QED
    BY <2>1, <2>2
<1>8. RunList(PlainRuns(i)) /\ DOMAIN PlainRuns(i) = 1 .. b
  <2>1. ASSUME NEW s \in 1 .. b PROVE <<x * c + (s - 1) * n * c, c>> \in Nat \X Nat
    <3>1. PICK w \in Nat : w = x * c + (s - 1) * n * c
      BY <1>7
    <3> QED
      BY <1>5, <3>1
  <2>2. PlainRuns(i) \in [1 .. b -> Nat \X Nat]
    BY <1>6, <2>1, Zenon
  <2> QED
    BY <1>5, <2>2 DEF RunList
<1>9. \A s \in 1 .. b, p \in Int :
         p \in Cells(PlainRuns(i)[s])
           <=> x * c + (s - 1) * n * c <= p /\ p < x * c + (s - 1) * n * c + c
  BY <1>5, <1>6, <1>7 DEF Cells
<1>10. \A s \in 1 .. b : Cells(PlainRuns(i)[s]) \subseteq Nat
  <2> SUFFICES ASSUME NEW s \in 1 .. b PROVE Cells(PlainRuns(i)[s]) \subseteq Nat
    OBVIOUS
  <2>1. PICK w \in Nat : w = x * c + (s - 1) * n * c
    BY <1>7
  <2>2. PlainRuns(i)[s] = <<w, c>>
    BY <1>6, <2>1, Zenon
  <2> QED
    BY <1>5, <2>1, <2>2 DEF Cells
<1>11. ASSUME NEW s \in 1 .. b, NEW p \in Cells(PlainRuns(i)[s])
       PROVE  /\ p \in 0 .. SubChunkNo - 1 /\ (p \div c) % n = x
              /\ (p \div c) \div n = s - 1
  <2>1. PICK u \in Nat : u = s - 1
    BY <1>5
  <2>2. p \in Nat /\ x * c + u * n * c <= p /\ p < x * c + u * n * c + c
    BY <1>9, <1>10, <2>1
  <2>3. /\ (p \div c) % n = x /\ (p \div c) \div n = u
        /\ p < (n * c) * (u + 1)
    BY <1>5, <2>2, RunDigit
  <2>4. (n * c) * (u + 1) <= (n * c) * b
    <3>1. n * c \in Nat /\ u + 1 \in Nat /\ u + 1 <= b /\ b \in Nat
      BY <1>5, <2>1
    <3> QED
      BY <3>1, Products
  <2>5. (n * c) * b = b * (n * c) /\ (n * c) * (u + 1) \in Nat /\ b * (n * c) \in Nat
    BY <1>5
  <2> QED
    BY <1>5, <2>1, <2>2, <2>3, <2>4, <2>5
<1>12. Apart(PlainRuns(i))
  BY <1>8, <1>11 DEF Apart
<1>13. \A p : get_plane_vector(p)[i[2]] = (p \div c) % n
  BY <1>0, <1>1, <1>3 DEF get_plane_vector
<1>14. ASSUME NEW p \in Pos, (p \div c) % n = x
       PROVE  \E s \in 1 .. b : p \in Cells(PlainRuns(i)[s])
  <2>0. SubChunkNo \in Nat
    BY <1>5
  <2>1. p \in Nat /\ p < b * (n * c)
    BY <1>5, <2>0 DEF Pos
  <2>2. PICK v \in 0 .. n - 1, u \in 0 .. b - 1 :
           /\ (p \div c) % n = v
           /\ v * c + u * n * c <= p /\ p < v * c + u * n * c + c
    BY <1>5, <2>1, DigitRun
  <2>3. u + 1 \in 1 .. b /\ (u + 1) - 1 = u /\ p \in Int
    BY <1>5, <2>1
  <2> QED
    BY <1>9, <1>14, <2>2, <2>3
<1>15. SubChunkNo \in Nat \ {0}
  <2>1. PICK e \in Nat \ {0} : e = n * c
    BY <1>5
  <2>2. b * e \in Nat /\ b * e # 0
    BY <1>5, <2>1
  <2> QED
    BY <1>5, <2>1, <2>2
<1>16. \A p : p \in UNION {Cells(PlainRuns(i)[s]) : s \in DOMAIN PlainRuns(i)}
                <=> p \in Pos /\ get_plane_vector(p)[i[2]] = i[1]
  BY <1>4, <1>8, <1>11, <1>13, <1>14, Zenon DEF Pos
<1> QED
  BY <1>8, <1>12, <1>15, <1>16, Zenon

(* The list of the maximal runs of a set S of positions below b: where     *)
(* they start and end, and which is the r-th of the c runs.                *)
ListsRuns(b, S, starts, e, c, nth, runs) ==
  /\ starts = {p \in S : p = 0 \/ p - 1 \notin S}
  /\ \A p \in starts : /\ e[p] \in p + 1 .. b
                       /\ \A l \in p .. e[p] - 1 : l \in S
                       /\ e[p] = b \/ e[p] \notin S
  /\ \A r \in 1 .. c : nth[r] \in starts
  /\ \A r, t \in 1 .. c : nth[r] = nth[t] => r = t
  /\ \A p \in starts : \E r \in 1 .. c : nth[r] = p
  /\ runs = [r \in 1 .. c |-> <<nth[r], e[nth[r]] - nth[r]>>]

(* A run that is given by its first position and its length.               *)
LEMMA RunCells ==
  ASSUME NEW i \in Nat, NEW j \in Nat, NEW run, run = <<i, j - i>>
  PROVE  Cells(run) = i .. j - 1
<1>1. run[1] = i /\ run[2] = j - i /\ i + (j - i) - 1 = j - 1
  OBVIOUS
<1> QED
  BY <1>1, Zenon DEF Cells

(* The maximal runs of a set of positions, listed once each, are apart and *)
(* cover the set.                                                          *)
LEMMA MaximalRuns ==
  ASSUME NEW b \in Nat \ {0}, NEW S \in SUBSET (0 .. b - 1), S # {},
         NEW starts, NEW e, NEW c \in Nat, NEW nth, NEW runs,
         ListsRuns(b, S, starts, e, c, nth, runs)
  PROVE  /\ RunList(runs) /\ Apart(runs)
         /\ UNION {Cells(runs[r]) : r \in DOMAIN runs} = S
<1>0. /\ starts = {p \in S : p = 0 \/ p - 1 \notin S}
      /\ \A p \in starts : /\ e[p] \in p + 1 .. b
                           /\ \A l \in p .. e[p] - 1 : l \in S
                           /\ e[p] = b \/ e[p] \notin S
      /\ \A r \in 1 .. c : nth[r] \in starts
      /\ \A r, t \in 1 .. c : nth[r] = nth[t] => r = t
      /\ \A p \in starts : \E r \in 1 .. c : nth[r] = p
      /\ runs = [r \in 1 .. c |-> <<nth[r], e[nth[r]] - nth[r]>>]
  BY DEF ListsRuns
<1> USE <1>0
<1>1. \A p \in starts : p \in Nat /\ e[p] \in Nat /\ p < e[p] /\ e[p] - p \in Nat
  OBVIOUS
<1>2. ASSUME NEW r \in 1 .. c
      PROVE  /\ nth[r] \in starts /\ runs[r] = <<nth[r], e[nth[r]] - nth[r]>>
             /\ Cells(runs[r]) = nth[r] .. e[nth[r]] - 1
             /\ runs[r] \in Nat \X Nat
  <2>1. PICK p \in starts : p = nth[r]
    BY <1>2
  <2>2. runs[r] = <<p, e[p] - p>>
    BY <2>1
  <2>3. p \in Nat /\ e[p] \in Nat
    BY <1>1
  <2>4. Cells(runs[r]) = p .. e[p] - 1
    BY <2>2, <2>3, RunCells, Zenon
  <2> QED
    BY <1>1, <2>1, <2>2, <2>4
<1>3. ASSUME NEW r \in 1 .. c PROVE Cells(runs[r]) \subseteq S
  <2>1. nth[r] \in starts /\ Cells(runs[r]) = nth[r] .. e[nth[r]] - 1
    BY <1>2
  <2>2. PICK p \in starts : p = nth[r]
    BY <2>1
  <2>3. \A l \in p .. e[p] - 1 : l \in S
    OBVIOUS
  <2> QED
    BY <2>1, <2>2, <2>3, Zenon
<1>4. ASSUME NEW x \in S PROVE \E p \in starts : x \in p .. e[p] - 1
  <2> DEFINE B == {l \in 0 .. x : \A k \in l .. x : k \in S}
  <2>0. x \in Nat
    OBVIOUS
  <2>1. x \in B /\ B \in SUBSET Nat
    <3>1. \A k \in x .. x : k = x
      BY <2>0
    <3> QED
      BY <2>0, <3>1
  <2>2. PICK m \in B : \A y \in B : m <= y
    <3> HIDE DEF B
    <3> QED
      BY <2>1, LeastMember
  <2>3. m \in S /\ m \in Nat /\ m <= x
    BY <2>0
  <2>4. m = 0 \/ m - 1 \notin S
    <3> SUFFICES ASSUME m # 0, m - 1 \in S PROVE FALSE
      OBVIOUS
    <3>1. m - 1 \in 0 .. x /\ \A k \in m - 1 .. x : k = m - 1 \/ k \in m .. x
      BY <2>0, <2>3
    <3>1a. \A k \in m .. x : k \in S
      OBVIOUS
    <3>2. m - 1 \in B
      BY <3>1, <3>1a
    <3>3. m <= m - 1
      <4> HIDE DEF B
      <4> QED
        BY <2>2, <3>2
    <3> QED
      BY <2>3, <3>3
  <2>5. m \in starts
    BY <2>3, <2>4
  <2>6. x < e[m]
    <3> SUFFICES ASSUME ~(x < e[m]) PROVE FALSE
      OBVIOUS
    <3>1. e[m] \in m .. x
      BY <1>1, <2>0, <2>3, <2>5
    <3>2. e[m] \in S
      BY <3>1
    <3> QED
      BY <2>5, <3>2
  <2> QED
    BY <1>1, <2>0, <2>3, <2>5, <2>6
<1>5. ASSUME NEW p \in starts, NEW r \in starts, p < r, NEW x \in p .. e[p] - 1,
             x \in r .. e[r] - 1
      PROVE  FALSE
  <2>1. /\ p \in Nat /\ r \in Nat /\ e[p] \in Nat
        /\ r = 0 \/ r - 1 \notin S
        /\ \A l \in p .. e[p] - 1 : l \in S
    BY <1>1
  <2>2. r - 1 \in p .. e[p] - 1 /\ r # 0
    BY <1>5, <2>1
  <2> QED
    BY <2>1, <2>2
<1>6. ASSUME NEW r \in 1 .. c, NEW t \in 1 .. c, r # t,
             NEW x \in Cells(runs[r]), x \in Cells(runs[t])
      PROVE  FALSE
  <2>1. PICK p \in starts : p = nth[r]
    BY <1>2
  <2>2. PICK w \in starts : w = nth[t]
    BY <1>2
  <2>3. x \in p .. e[p] - 1 /\ x \in w .. e[w] - 1 /\ p # w
    BY <1>2, <1>6, <2>1, <2>2
  <2>4. p < w \/ w < p
    BY <1>1, <2>3
  <2> QED
    BY <1>5, <2>3, <2>4
<1>7. DOMAIN runs = 1 .. c
  OBVIOUS
<1>8. Apart(runs)
  BY <1>6, <1>7 DEF Apart
<1>9. UNION {Cells(runs[r]) : r \in DOMAIN runs} = S
  <2>1. ASSUME NEW x \in S PROVE \E r \in 1 .. c : x \in Cells(runs[r])
    <3>1. PICK p \in starts : x \in p .. e[p] - 1
      BY <1>4
    <3>2. PICK r \in 1 .. c : nth[r] = p
      OBVIOUS
    <3>3. Cells(runs[r]) = p .. e[p] - 1
      BY <1>2, <3>2
    <3> QED
      BY <3>1, <3>3, Zenon
  <2> QED
    BY ONLY <1>3, <1>7, <2>1, Zenon
<1>10. RunList(runs)
  <2>1. PICK x \in S : TRUE
    OBVIOUS
  <2>2. PICK r \in DOMAIN runs : x \in Cells(runs[r])
    BY ONLY <1>9, x \in S, Zenon
  <2>3. c # 0
    BY <1>7, <2>2
  <2>4. runs \in Seq(Nat \X Nat) /\ Len(runs) = c
    BY <1>2, <1>7
  <2> QED
    BY <2>3, <2>4 DEF RunList
<1> QED
  BY <1>8, <1>9, <1>10

(* The planes of the plain runs are those of which the lost node is a dot. *)
LEMMA PlanesToRead ==
  ASSUME NEW i \in Node
  PROVE  {get_plane_vector(p) : p \in UNION {r[1] .. r[1] + r[2] - 1 : r \in Range(PlainRuns(i))}}
           = {z \in Plane : Dot(i, z)}
<1> DEFINE B == UNION {r[1] .. r[1] + r[2] - 1 : r \in Range(PlainRuns(i))}
<1>1. B = {p \in Pos : get_plane_vector(p)[i[2]] = i[1]}
  <2>1. B = UNION {Cells(PlainRuns(i)[s]) : s \in DOMAIN PlainRuns(i)}
    BY Zenon DEF Cells, Range
  <2> QED
    BY <2>1, PlainRunsFacts, Zenon
<1>2. ASSUME NEW p \in Pos PROVE get_plane_vector(p) \in Plane
  <2>1. p \in Nat /\ Q \in Nat \ {0}
    BY QTypes, PlainRunsFacts DEF Pos
  <2>2. ASSUME NEW y \in Y PROVE (p \div Q ^ (T - 1 - y)) % Q \in X
    <3>1. Q ^ (T - 1 - y) \in Nat \ {0}
      BY PowerAssumption
    <3>2. PICK c \in Nat \ {0} : c = Q ^ (T - 1 - y)
      BY <3>1
    <3>3. p \div c \in Nat
      BY <2>1
    <3>4. PICK a \in Nat : a = p \div c
      BY <3>3
    <3>5. a % Q \in 0 .. Q - 1
      BY <2>1
    <3> QED
      BY <3>2, <3>4, <3>5, Zenon DEF X
  <2> QED
    BY <2>2, Zenon DEF get_plane_vector, Plane
<1>3. ASSUME NEW z \in Plane, Dot(i, z)
      PROVE  \E p \in B : get_plane_vector(p) = z
  BY <1>1, <1>3, IndexAssumption DEF Dot
<1> HIDE DEF B
<1>4. \A p \in B : get_plane_vector(p) \in Plane /\ Dot(i, get_plane_vector(p))
  BY <1>1, <1>2 DEF Dot
<1>5. {get_plane_vector(p) : p \in B} = {z \in Plane : Dot(i, z)}
  BY <1>3, <1>4
<1> QED
  BY <1>5 DEF B

(* The walk of OrderedRuns over order, for a set of planes to read.        *)
RunsOver(to_read) ==
  LET start == {p \in Pos : /\ Order[p] \in to_read
                            /\ p = 0 \/ Order[p - 1] \notin to_read}
      end(p) == CHOOSE j \in p + 1 .. SubChunkNo :
                  /\ \A l \in p .. j - 1 : Order[l] \in to_read
                  /\ j = SubChunkNo \/ Order[j] \notin to_read
      nth(r) == CHOOSE p \in start : Cardinality({s \in start : s < p}) = r - 1
  IN  [r \in 1 .. Cardinality(start) |-> LET p == nth(r) IN <<p, end(p) - p>>]

(* OrderedRuns: its runs are apart and cover the positions of the planes   *)
(* of which the lost node is a dot.                                        *)
LEMMA OrderedRunsFacts ==
  ASSUME NEW i \in Node
  PROVE  /\ RunList(OrderedRuns(i)) /\ Apart(OrderedRuns(i))
         /\ UNION {Cells(OrderedRuns(i)[r]) : r \in DOMAIN OrderedRuns(i)}
              = {p \in Pos : Dot(i, Order[p])}
<1> DEFINE B == {z \in Plane : Dot(i, z)}
<1> DEFINE S == {p \in Pos : Order[p] \in B}
<1> DEFINE starts == {p \in Pos : /\ Order[p] \in B
                                  /\ p = 0 \/ Order[p - 1] \notin B}
<1> DEFINE end(p) == CHOOSE j \in p + 1 .. SubChunkNo :
                       /\ \A l \in p .. j - 1 : Order[l] \in B
                       /\ j = SubChunkNo \/ Order[j] \notin B
<1> DEFINE nth(r) == CHOOSE p \in starts : Cardinality({s \in starts : s < p}) = r - 1
<1> DEFINE c == Cardinality(starts)
<1> DEFINE e == [p \in starts |-> end(p)]
<1> DEFINE m == [r \in 1 .. c |-> nth(r)]
<1>1. OrderedRuns(i) = [r \in 1 .. c |-> LET p == nth(r) IN <<p, end(p) - p>>]
  <2> DEFINE P == {get_plane_vector(p) : p \in UNION {r[1] .. r[1] + r[2] - 1 :
                                                        r \in Range(PlainRuns(i))}}
  <2>1. OrderedRuns(i) = RunsOver(P)
    BY Zenon DEF OrderedRuns, RunsOver
  <2>2. P = B
    BY PlanesToRead
  <2> HIDE DEF P
  <2>3. OrderedRuns(i) = RunsOver(B)
    BY <2>1, <2>2, Zenon
  <2> QED
    BY <2>3, Zenon DEF RunsOver
<1>2. PICK b \in Nat \ {0} : b = SubChunkNo
  BY PlainRunsFacts
<1>3. Pos = 0 .. b - 1 /\ IsFiniteSet(Pos)
  BY <1>2, FS_Interval DEF Pos
<1>4. \A p \in Pos : Order[p] \in Plane
  BY OrderAssumption
<1>5. S \in SUBSET (0 .. b - 1) /\ starts \subseteq S /\ S = {p \in Pos : Dot(i, Order[p])}
  BY <1>3, <1>4
<1>6. S # {}
  <2>1. [y \in Y |-> i[1]] \in Plane /\ [y \in Y |-> i[1]][i[2]] = i[1]
    BY DEF Node, Plane
  <2>2. PICK p \in Pos : Order[p] = [y \in Y |-> i[1]]
    BY <2>1, OrderAssumption
  <2> QED
    BY <2>1, <2>2 DEF Dot
<1>7. starts = {p \in S : p = 0 \/ p - 1 \notin S}
  <2>1. \A p \in Pos : p # 0 => p - 1 \in Pos
    BY <1>3
  <2> QED
    BY <2>1
<1>8. ASSUME NEW p \in starts
      PROVE  /\ end(p) \in p + 1 .. b
             /\ \A l \in p .. end(p) - 1 : l \in S
             /\ end(p) = b \/ end(p) \notin S
  <2> DEFINE E == {j \in p + 1 .. b : j = b \/ Order[j] \notin B}
  <2>1. p \in Nat /\ p < b /\ Order[p] \in B
    BY <1>3
  <2>2. b \in E /\ E \in SUBSET Nat
    BY <2>1
  <2>3. PICK j \in E : \A x \in E : j <= x
    <3> HIDE DEF E
    <3> QED
      BY <2>2, LeastMember
  <2>4. \A l \in p .. j - 1 : Order[l] \in B
    <3> SUFFICES ASSUME NEW l \in p .. j - 1, Order[l] \notin B PROVE FALSE
      OBVIOUS
    <3>1. l # p /\ l \in p + 1 .. b /\ l < j
      BY <2>1
    <3>2. l \in E
      BY <3>1
    <3> QED
      BY <2>3, <3>1, <3>2
  <2> DEFINE F(k) == /\ \A l \in p .. k - 1 : Order[l] \in B
                     /\ k = SubChunkNo \/ Order[k] \notin B
  <2>5. j \in p + 1 .. SubChunkNo /\ F(j)
    BY <1>2, <2>4
  <2>6. end(p) = CHOOSE k \in p + 1 .. SubChunkNo : F(k)
    OBVIOUS
  <2> HIDE DEF F, B, end, starts
  <2>7. end(p) \in p + 1 .. SubChunkNo /\ F(end(p))
    BY <2>5, <2>6, Zenon
  <2>8. PICK k : k = end(p)
    OBVIOUS
  <2>9. /\ k \in p + 1 .. b /\ \A l \in p .. k - 1 : Order[l] \in B
        /\ k = b \/ Order[k] \notin B
    BY <1>2, <2>7, <2>8 DEF F
  <2>10. \A l \in p .. k - 1 : l \in Pos
    BY <1>3, <2>1, <2>9
  <2> QED
    BY <2>8, <2>9, <2>10
<1>9. starts \in SUBSET Nat /\ IsFiniteSet(starts) /\ c \in Nat
  BY <1>3, <1>5, FS_Subset, FS_CardinalityType
<1>10. ASSUME NEW r \in 1 .. c PROVE nth(r) \in starts /\ Rank(starts, nth(r)) = r - 1
  <2> HIDE DEF starts
  <2>1. r - 1 \in Nat /\ r - 1 < Cardinality(starts)
    BY <1>9
  <2>2. \E p \in starts : Rank(starts, p) = r - 1
    BY <1>9, <2>1, RankFound
  <2>3. nth(r) = CHOOSE p \in starts : Rank(starts, p) = r - 1
    BY Zenon DEF Rank
  <2> QED
    BY <2>2, <2>3, Zenon
<1>11. ASSUME NEW p \in starts PROVE \E r \in 1 .. c : nth(r) = p
  <2> HIDE DEF starts, nth
  <2>1. Rank(starts, p) \in Nat /\ Rank(starts, p) < Cardinality(starts)
    BY <1>9, RankGrows
  <2>2. PICK r : r = Rank(starts, p) + 1
    OBVIOUS
  <2>3. r \in 1 .. c /\ r - 1 = Rank(starts, p)
    BY <1>9, <2>1, <2>2
  <2>4. nth(r) \in starts /\ Rank(starts, nth(r)) = Rank(starts, p)
    BY <1>10, <2>3
  <2>5. ~(nth(r) < p) /\ ~(p < nth(r)) /\ nth(r) \in Nat /\ p \in Nat
    <3>1. PICK v \in starts : v = nth(r)
      BY <2>4
    <3>2. Rank(starts, v) = Rank(starts, p) /\ Rank(starts, p) \in Nat
      BY <2>1, <2>4, <3>1
    <3>3. ~(v < p) /\ ~(p < v)
      BY <1>9, <3>2, RankGrows
    <3> QED
      BY <1>9, <3>1, <3>3
  <2> QED
    BY <2>3, <2>5
<1>12. \A r, t \in 1 .. c : nth(r) = nth(t) => r = t
  <2> SUFFICES ASSUME NEW r \in 1 .. c, NEW t \in 1 .. c, nth(r) = nth(t) PROVE r = t
    OBVIOUS
  <2>1. r - 1 = t - 1
    <3> HIDE DEF nth, starts
    <3> QED
      BY <1>10
  <2> HIDE DEF c
  <2> QED
    BY <2>1, <1>9
<1> HIDE DEF S, B, nth, end, starts, c
<1>13. \A r \in 1 .. c : m[r] = nth(r) /\ m[r] \in starts
  BY <1>10
<1>14. \A p \in starts : e[p] = end(p)
  OBVIOUS
<1>15. OrderedRuns(i) = [r \in 1 .. c |-> <<m[r], e[m[r]] - m[r]>>]
  BY <1>1, <1>13, <1>14, Zenon
<1>16. \A r, t \in 1 .. c : m[r] = m[t] => r = t
  BY <1>12, <1>13
<1>17. \A p \in starts : \E r \in 1 .. c : m[r] = p
  BY <1>11, <1>13
<1>18. \A p \in starts : /\ e[p] \in p + 1 .. b
                         /\ \A l \in p .. e[p] - 1 : l \in S
                         /\ e[p] = b \/ e[p] \notin S
  BY <1>8, <1>14
<1>19. \A r \in 1 .. c : m[r] \in starts
  BY <1>13
<1> HIDE DEF m, e
<1>20. /\ RunList(OrderedRuns(i)) /\ Apart(OrderedRuns(i))
       /\ UNION {Cells(OrderedRuns(i)[r]) : r \in DOMAIN OrderedRuns(i)} = S
  <2>1. c \in Nat
    BY <1>9
  <2>2. /\ S \in SUBSET (0 .. b - 1) /\ S # {}
        /\ starts = {p \in S : p = 0 \/ p - 1 \notin S}
    BY <1>5, <1>6, <1>7
  <2>3. OrderedRuns(i) = [r \in 1 .. c |-> <<m[r], e[m[r]] - m[r]>>]
    BY <1>15
  <2>4. ListsRuns(b, S, starts, e, c, m, OrderedRuns(i))
    <3>1. starts = {p \in S : p = 0 \/ p - 1 \notin S}
      BY <2>2
    <3>2. OrderedRuns(i) = [r \in 1 .. c |-> <<m[r], e[m[r]] - m[r]>>]
      BY <2>3
    <3> QED
      BY ONLY <1>16, <1>17, <1>18, <1>19, <3>1, <3>2, Zenon DEF ListsRuns
  <2> QED
    BY ONLY b \in Nat \ {0}, <2>1, <2>2, <2>4, MaximalRuns
<1> QED
  BY <1>5, <1>20
-----------------------------------------------------------------------------
(* What minimum_to_repair asks for and what the helpers send.              *)

RepairPlanes(i) == {z \in Plane : Dot(i, z)}
RepairPositions(i) == Positions(get_repair_subchunks(i))

(* The positions read hold the planes of which the lost node is a dot,     *)
(* once each.                                                              *)
LEMMA RepairPositionsFacts ==
  ASSUME NEW i \in Node
  PROVE  /\ RepairPositions(i) \in Seq(Nat) /\ IsInjective(RepairPositions(i))
         /\ Range(RepairPositions(i)) = {p \in Pos : Dot(i, Order[p])}
         /\ {Order[p] : p \in Range(RepairPositions(i))} = RepairPlanes(i)
<1> DEFINE runs == get_repair_subchunks(i)
<1>1. /\ RunList(runs) /\ Apart(runs)
      /\ UNION {Cells(runs[r]) : r \in DOMAIN runs} = {p \in Pos : Dot(i, Order[p])}
  <2>1. CASE MyMode = "myclay"
    <3>1. runs = OrderedRuns(i)
      BY <2>1 DEF get_repair_subchunks
    <3> QED
      BY <3>1, OrderedRunsFacts, Zenon
  <2>2. CASE MyMode # "myclay"
    <3>1. runs = PlainRuns(i)
      BY <2>2 DEF get_repair_subchunks
    <3>2. \A p \in Pos : Order[p] = get_plane_vector(p)
      BY <2>2, OrderAssumption, ProfileAssumption
    <3>3. {p \in Pos : get_plane_vector(p)[i[2]] = i[1]} = {p \in Pos : Dot(i, Order[p])}
      BY <3>2 DEF Dot
    <3> HIDE DEF runs
    <3> QED
      BY <3>1, <3>3, PlainRunsFacts
  <2> QED
    BY <2>1, <2>2
<1> HIDE DEF runs
<1>2. RepairPositions(i) = Positions(runs)
  BY DEF runs, RepairPositions
<1>3. /\ RepairPositions(i) \in Seq(Nat) /\ IsInjective(RepairPositions(i))
      /\ Range(RepairPositions(i)) = {p \in Pos : Dot(i, Order[p])}
  BY <1>1, <1>2, PositionsFacts
<1>4. {Order[p] : p \in {v \in Pos : Dot(i, Order[v])}} = RepairPlanes(i)
  BY OrderAssumption DEF RepairPlanes
<1> QED
  BY <1>3, <1>4

(* A helper's buffer, and where in it the sub-chunk of each plane is.      *)
Reads(i) == [j \in DOMAIN RepairPositions(i) |-> Order[RepairPositions(i)[j]]]
Index(i) == [z \in RepairPlanes(i) |->
               CHOOSE j \in DOMAIN RepairPositions(i) : Order[RepairPositions(i)[j]] = z]

(* The buffer holds the planes to repair, once each, and the index finds   *)
(* them.                                                                   *)
LEMMA ReadsFacts ==
  ASSUME NEW i \in Node
  PROVE  /\ Range(Reads(i)) = RepairPlanes(i) /\ IsInjective(Reads(i))
         /\ \A z \in RepairPlanes(i) : Reads(i)[Index(i)[z]] = z
<1> DEFINE pos == RepairPositions(i)
<1>1. /\ IsInjective(pos) /\ Range(pos) \subseteq Pos
      /\ {Order[p] : p \in Range(pos)} = RepairPlanes(i)
  BY RepairPositionsFacts
<1> HIDE DEF pos
<1>2. Reads(i) = [j \in DOMAIN pos |-> Order[pos[j]]]
  BY DEF Reads, pos
<1>3. \A j \in DOMAIN pos : pos[j] \in Range(pos) /\ pos[j] \in Pos
  BY <1>1 DEF Range
<1>4. IsInjective(Reads(i))
  BY <1>1, <1>2, <1>3, OrderAssumption DEF IsInjective
<1>5. Range(Reads(i)) = RepairPlanes(i)
  BY <1>1, <1>2 DEF Range
<1>6. ASSUME NEW z \in RepairPlanes(i) PROVE Reads(i)[Index(i)[z]] = z
  <2>1. \E j \in DOMAIN pos : Order[pos[j]] = z
    BY <1>1 DEF Range
  <2>2. Index(i)[z] = CHOOSE j \in DOMAIN pos : Order[pos[j]] = z
    BY Zenon DEF Index, pos
  <2>3. Index(i)[z] \in DOMAIN pos /\ Order[pos[Index(i)[z]]] = z
    BY <2>1, <2>2
  <2> QED
    BY <1>2, <2>3
<1> QED
  BY <1>4, <1>5, <1>6

(* NodeId numbers the nodes, and ChunkId the real ones.                    *)
LEMMA NodeIds ==
  /\ \A n \in Node : NodeId(n) \in Nat
  /\ \A n, v \in Node : NodeId(n) = NodeId(v) => n = v
  /\ \A n, v \in Real : ChunkId(n) = ChunkId(v) => n = v
<1>1. ASSUME NEW n \in Node PROVE NodeId(n) \in Nat /\ NodeId(n) \div Q = n[2] /\ NodeId(n) % Q = n[1]
  <2>1. PICK q \in Nat \ {0} : q = Q
    BY QTypes
  <2>2. n[1] \in 0 .. q - 1 /\ n[2] \in Nat
    BY <2>1, QTypes DEF Node, X, Y
  <2>3. PICK x \in 0 .. q - 1 : x = n[1]
    BY <2>2
  <2>4. PICK y \in Nat : y = n[2]
    BY <2>2
  <2>5. NodeId(n) = q * y + x /\ q * y + x \in Nat
    <3>1. NodeId(n) = y * q + x
      BY <2>1, <2>3, <2>4, Zenon DEF NodeId
    <3> QED
      BY <2>1, <2>3, <3>1
  <2>6. (q * y + x) \div q = y /\ (q * y + x) % q = x
    BY DivMod
  <2> QED
    BY <2>1, <2>3, <2>4, <2>5, <2>6, Zenon
<1>2. \A n, v \in Node : NodeId(n) = NodeId(v) => n = v
  <2> SUFFICES ASSUME NEW n \in Node, NEW v \in Node, NodeId(n) = NodeId(v)
               PROVE  n = v
    OBVIOUS
  <2>1. NodeId(n) % Q = n[1] /\ NodeId(n) \div Q = n[2]
    BY <1>1, Zenon
  <2>2. NodeId(n) % Q = v[1] /\ NodeId(n) \div Q = v[2]
    BY <1>1, Zenon
  <2> QED
    BY <2>1, <2>2, NodeEquality, Zenon
<1>3. \A n \in Real : NodeId(n) < K \/ NodeId(n) >= K + Nu
  BY RealNodes DEF Real, Data, Parity
<1>4. ASSUME NEW n \in Real, NEW v \in Real, ChunkId(n) = ChunkId(v) PROVE n = v
  <2>1. NodeId(n) \in Nat /\ NodeId(v) \in Nat /\ n \in Node /\ v \in Node
    BY <1>1, RealNodes
  <2>2. NodeId(n) = NodeId(v)
    BY <1>3, <1>4, <2>1, QTypes, ProfileAssumption DEF ChunkId
  <2> QED
    BY <1>2, <2>1, <2>2
<1> QED
  BY <1>1, <1>2, <1>4

(* As many numbers as nodes.                                               *)
LEMMA NodeIdCount ==
  ASSUME NEW B \in SUBSET Node
  PROVE  /\ IsFiniteSet({NodeId(n) : n \in B})
         /\ Cardinality({NodeId(n) : n \in B}) = Cardinality(B)
<1> DEFINE C == {NodeId(n) : n \in B}
<1> DEFINE f == [n \in B |-> NodeId(n)]
<1>1. f \in [B -> C] /\ \A c \in C : \E n \in B : f[n] = c
  OBVIOUS
<1>2. \A n, v \in B : f[n] = f[v] => n = v
  BY NodeIds
<1>3. f \in Bijection(B, C)
  BY <1>1, <1>2 DEF Bijection, Injection, Surjection, IsInjective
<1>4. IsFiniteSet(B)
  BY NodeFinite, FS_Subset
<1> HIDE DEF f, C
<1>5. ExistsBijection(B, C)
  BY <1>3 DEF ExistsBijection
<1>6. IsFiniteSet(C)
  BY <1>3, <1>4, FS_Surjection DEF Bijection
<1>7. Cardinality(C) = Cardinality(B)
  BY <1>4, <1>5, <1>6, FS_Bijection
<1> QED
  BY <1>6, <1>7 DEF C

(* The nodes of a column, and how many there are.                          *)
Column(y) == {n \in Node : n[2] = y}

(* A column has q nodes, and there are q * t nodes.                        *)
LEMMA NodeCounts ==
  /\ Cardinality(Node) = Q * T
  /\ \A y \in Y : IsFiniteSet(Column(y)) /\ Cardinality(Column(y)) = Q
  /\ Cardinality(X) = Q /\ IsFiniteSet(X)
<1>1. IsFiniteSet(X) /\ Cardinality(X) = Q
  <2>1. 0 \in Int /\ Q - 1 \in Int /\ Q \in Nat /\ 0 < Q
    BY QTypes
  <2>2. Cardinality(0 .. Q - 1) = IF 0 > Q - 1 THEN 0 ELSE Q - 1 - 0 + 1
    BY <2>1, FS_Interval
  <2> QED
    BY <2>1, <2>2, FS_Interval DEF X
<1>2. IsFiniteSet(Y) /\ Cardinality(Y) = T
  <2>1. 0 \in Int /\ T - 1 \in Int /\ T \in Nat
    BY QTypes
  <2>2. Cardinality(0 .. T - 1) = IF 0 > T - 1 THEN 0 ELSE T - 1 - 0 + 1
    BY <2>1, FS_Interval
  <2> QED
    BY <2>1, <2>2, FS_Interval DEF Y
<1>3. Cardinality(Node) = Q * T
  <2>1. Cardinality(X \X Y) = Cardinality(X) * Cardinality(Y)
    BY <1>1, <1>2, FS_Product
  <2> QED
    BY <1>1, <1>2, <2>1 DEF Node
<1>4. ASSUME NEW y \in Y PROVE IsFiniteSet(Column(y)) /\ Cardinality(Column(y)) = Q
  <2> DEFINE f == [x \in X |-> <<x, y>>]
  <2>1. f \in [X -> Column(y)]
    BY DEF Column, Node
  <2>2. \A n \in Column(y) : n[1] \in X /\ f[n[1]] = n
    BY DEF Column, Node
  <2>3. \A x, w \in X : f[x] = f[w] => x = w
    OBVIOUS
  <2>4. f \in Bijection(X, Column(y))
    BY <2>1, <2>2, <2>3 DEF Bijection, Injection, Surjection, IsInjective
  <2> HIDE DEF f
  <2>5. ExistsBijection(X, Column(y))
    BY <2>4 DEF ExistsBijection
  <2> QED
    BY <1>1, <2>5, FS_Bijection
<1> QED
  BY <1>1, <1>3, <1>4

(* The helpers: d of the available chunks, the lost node's column included.*)
LEMMA HelpersFacts ==
  ASSUME NEW i \in Real, NEW available \in SUBSET (Real \ {i}), is_repair(i, available)
  PROVE  /\ Helpers(i, available) \subseteq available
         /\ ColumnMates(i) \subseteq Helpers(i, available)
         /\ Cardinality(Helpers(i, available)) = D
<1> DEFINE C == ColumnMates(i)
<1> DEFINE rest == available \ C
<1> DEFINE B == {n \in rest : Cardinality({p \in rest : NodeId(p) < NodeId(n)})
                                < D - Cardinality(C)}
<1>0. /\ i \in Node /\ i[2] \in Y /\ available \subseteq Node /\ rest \subseteq Node
      /\ C \subseteq Node
  BY RealNodes DEF Node, ColumnMates
<1>1. C \subseteq available
  <2> SUFFICES ASSUME NEW n \in C PROVE n \in available
    OBVIOUS
  <2>1. n \in Real /\ n[2] = i[2] /\ n # i
    BY DEF ColumnMates
  <2>2. n[1] \in X /\ n = <<n[1], i[2]>>
    BY <2>1, RealNodes DEF Node
  <2>3. ChunkId(n) # ChunkId(i)
    BY <2>1, NodeIds
  <2>4. PICK a \in available : ChunkId(a) = ChunkId(n)
    BY <2>2, <2>3 DEF is_repair
  <2> QED
    BY <2>1, <2>4, NodeIds
<1>2. IsFiniteSet(available) /\ IsFiniteSet(C) /\ IsFiniteSet(rest)
  BY <1>0, NodeFinite, FS_Subset
<1>3. Cardinality(C) \in Nat /\ Cardinality(C) <= D
  <2>1. C \cup {i} \subseteq Column(i[2]) /\ i \notin C
    BY <1>0 DEF ColumnMates, Column
  <2>2. IsFiniteSet(Column(i[2])) /\ Cardinality(Column(i[2])) = Q
    BY <1>0, NodeCounts
  <2> HIDE DEF C
  <2>3. Cardinality(C \cup {i}) = Cardinality(C) + 1 /\ Cardinality(C) \in Nat
    BY <1>2, <2>1, FS_AddElement, FS_CardinalityType
  <2>4. Cardinality(C \cup {i}) <= Q
    BY <2>1, <2>2, FS_Subset
  <2> QED
    BY <2>3, <2>4, ProfileAssumption DEF Q
<1>4. /\ Cardinality(available) = Cardinality(C) + Cardinality(rest)
      /\ Cardinality(rest) \in Nat /\ Cardinality(available) >= D
  <2>1. Cardinality(rest) = Cardinality(available) - Cardinality(available \cap C)
    BY <1>2, FS_Difference
  <2>2. available \cap C = C
    BY <1>1
  <2>3. Cardinality(available) \in Nat /\ Cardinality(rest) \in Nat
    BY <1>2, FS_CardinalityType
  <2> HIDE DEF C, rest
  <2> QED
    BY <1>3, <2>1, <2>2, <2>3 DEF is_repair
<1> DEFINE S == {NodeId(n) : n \in rest}
<1> DEFINE m == D - Cardinality(C)
<1>5. S \in SUBSET Nat /\ IsFiniteSet(S) /\ Cardinality(S) = Cardinality(rest)
  BY <1>0, NodeIds, NodeIdCount
<1>6. m \in Nat /\ m <= Cardinality(S)
  <2> HIDE DEF S, C, rest
  <2> QED
    BY <1>3, <1>4, <1>5, ProfileAssumption
<1>7. Cardinality({s \in S : Rank(S, s) < m}) = m
  <2> HIDE DEF S, m
  <2> QED
    BY <1>5, <1>6, LowestCount
<1>8. ASSUME NEW n \in rest
      PROVE  Rank(S, NodeId(n)) = Cardinality({p \in rest : NodeId(p) < NodeId(n)})
  <2> DEFINE L == {p \in rest : NodeId(p) < NodeId(n)}
  <2>1. {s \in S : s < NodeId(n)} = {NodeId(p) : p \in L}
    OBVIOUS
  <2>2. L \in SUBSET Node
    BY <1>0
  <2> HIDE DEF L, S
  <2>3. Cardinality({NodeId(p) : p \in L}) = Cardinality(L)
    BY <2>2, NodeIdCount
  <2> QED
    BY <2>1, <2>3 DEF Rank, L
<1>9. {s \in S : Rank(S, s) < m} = {NodeId(n) : n \in B}
  <2>1. \A n \in rest : Rank(S, NodeId(n)) < m
                          <=> Cardinality({p \in rest : NodeId(p) < NodeId(n)}) < m
    BY <1>8
  <2> QED
    BY <2>1, Zenon
<1>10. B \in SUBSET Node /\ B \subseteq rest
  BY <1>0
<1>11. Cardinality(B) = m /\ IsFiniteSet(B)
  <2> HIDE DEF B, S, m
  <2> QED
    BY <1>7, <1>9, <1>10, NodeIdCount, NodeFinite, FS_Subset
<1>12. Helpers(i, available) = C \cup B
  BY Zenon DEF Helpers
<1>13. C \cap B = {}
  OBVIOUS
<1>14. Cardinality(C \cup B) = D
  <2>1. Cardinality(C \cup B) = Cardinality(C) + Cardinality(B) - Cardinality(C \cap B)
    BY <1>2, <1>11, FS_Union
  <2>2. Cardinality(C \cap B) = 0
    BY <1>13, FS_EmptySet
  <2> QED
    BY <1>3, <1>11, <2>1, <2>2, ProfileAssumption
<1> QED
  BY <1>1, <1>10, <1>12, <1>14

(* One plane in q is read: with each comes those that differ in one digit. *)
LEMMA PlanesReadCount ==
  ASSUME NEW i \in Node
  PROVE  /\ IsFiniteSet(RepairPlanes(i))
         /\ Cardinality(RepairPlanes(i)) = SubChunkNo \div Q
<1> DEFINE f == [v \in X \X RepairPlanes(i) |-> [v[2] EXCEPT ![i[2]] = v[1]]]
<1> DEFINE g == [p \in Pos |-> Order[p]]
<1>0. i[1] \in X /\ i[2] \in Y
  BY DEF Node
<1>1. \A x \in X, z \in Plane : /\ [z EXCEPT ![i[2]] = x] \in Plane
                                /\ [z EXCEPT ![i[2]] = x][i[2]] = x
                                /\ [[z EXCEPT ![i[2]] = x] EXCEPT ![i[2]] = z[i[2]]] = z
  BY <1>0 DEF Plane
<1>2. f \in [X \X RepairPlanes(i) -> Plane]
  BY <1>1 DEF RepairPlanes
<1>3. ASSUME NEW w \in Plane PROVE \E v \in X \X RepairPlanes(i) : f[v] = w
  <2> DEFINE z == [w EXCEPT ![i[2]] = i[1]]
  <2>1. z \in RepairPlanes(i) /\ w[i[2]] \in X /\ [z EXCEPT ![i[2]] = w[i[2]]] = w
    BY <1>0, <1>1 DEF RepairPlanes, Dot, Plane
  <2> HIDE DEF z
  <2>2. f[<<w[i[2]], z>>] = w
    BY <2>1
  <2> QED
    BY <2>1, <2>2
<1>4. ASSUME NEW x \in X, NEW z \in RepairPlanes(i), NEW u \in X, NEW w \in RepairPlanes(i),
             f[<<x, z>>] = f[<<u, w>>]
      PROVE  <<x, z>> = <<u, w>>
  <2>1. /\ z \in Plane /\ w \in Plane /\ z[i[2]] = i[1] /\ w[i[2]] = i[1]
        /\ [z EXCEPT ![i[2]] = x] = [w EXCEPT ![i[2]] = u]
    BY <1>4 DEF RepairPlanes, Dot
  <2>2. x = u
    BY <1>1, <2>1
  <2>3. z = [[z EXCEPT ![i[2]] = x] EXCEPT ![i[2]] = i[1]]
    BY <1>1, <2>1
  <2>4. w = [[w EXCEPT ![i[2]] = u] EXCEPT ![i[2]] = i[1]]
    BY <1>1, <2>1
  <2> QED
    BY <2>1, <2>2, <2>3, <2>4, Zenon
<1>5. f \in Bijection(X \X RepairPlanes(i), Plane)
  <2>1. \A v, t \in X \X RepairPlanes(i) : f[v] = f[t] => v = t
    <3> SUFFICES ASSUME NEW v \in X \X RepairPlanes(i), NEW t \in X \X RepairPlanes(i),
                        f[v] = f[t]
                 PROVE  v = t
      OBVIOUS
    <3>1. PICK x \in X, z \in RepairPlanes(i) : v = <<x, z>>
      OBVIOUS
    <3>2. PICK u \in X, w \in RepairPlanes(i) : t = <<u, w>>
      OBVIOUS
    <3> HIDE DEF f
    <3>3. f[<<x, z>>] = f[<<u, w>>]
      BY <3>1, <3>2
    <3>4. <<x, z>> = <<u, w>>
      BY <1>4, <3>3
    <3> QED
      BY <3>1, <3>2, <3>4
  <2> HIDE DEF f
  <2> QED
    BY <1>2, <1>3, <2>1 DEF Bijection, Injection, Surjection, IsInjective
<1>6. g \in Bijection(Pos, Plane)
  BY OrderAssumption DEF Bijection, Injection, Surjection, IsInjective
<1>7. IsFiniteSet(Pos) /\ Cardinality(Pos) = SubChunkNo /\ SubChunkNo \in Nat
  <2>0. PICK b \in Nat \ {0} : b = SubChunkNo
    BY PlainRunsFacts
  <2>1. 0 \in Int /\ b - 1 \in Int
    BY <2>0
  <2>2. Cardinality(0 .. b - 1) = IF 0 > b - 1 THEN 0 ELSE b - 1 - 0 + 1
    BY <2>1, FS_Interval
  <2> QED
    BY <2>0, <2>1, <2>2, FS_Interval DEF Pos
<1> HIDE DEF f, g
<1>8. IsFiniteSet(Plane) /\ Cardinality(Plane) = SubChunkNo
  <2>1. ExistsBijection(Pos, Plane)
    BY <1>6 DEF ExistsBijection
  <2> QED
    BY <1>7, <2>1, FS_Bijection
<1>9. IsFiniteSet(RepairPlanes(i))
  BY <1>8, FS_Subset DEF RepairPlanes
<1>10. /\ IsFiniteSet(X \X RepairPlanes(i))
       /\ Cardinality(X \X RepairPlanes(i)) = Q * Cardinality(RepairPlanes(i))
  BY <1>9, NodeCounts, FS_Product
<1>11. Cardinality(X \X RepairPlanes(i)) = SubChunkNo
  <2>1. ExistsBijection(X \X RepairPlanes(i), Plane)
    BY <1>5 DEF ExistsBijection
  <2> QED
    BY <1>8, <1>10, <2>1, FS_Bijection
<1>12. PICK c \in Nat : c = Cardinality(RepairPlanes(i))
  BY <1>9, FS_CardinalityType
<1>13. PICK q \in Nat \ {0} : q = Q
  BY QTypes
<1>14. SubChunkNo = q * c + 0
  BY <1>10, <1>11, <1>12, <1>13
<1>15. (q * c + 0) \div q = c
  BY DivMod
<1> QED
  BY <1>9, <1>12, <1>13, <1>14, <1>15, Zenon
-----------------------------------------------------------------------------
(* The invariant.                                                          *)

(* The runs, a helper's buffer and its index, for every lost node.         *)
RunsFor  == [i \in Node |-> get_repair_subchunks(i)]
ReadsFor == [i \in Node |-> Reads(i)]
IndexFor == [i \in Node |-> Index(i)]

(* The call: who is asked for what, what the buffers hold and where the    *)
(* code looks for it.                                                      *)
CallOK ==
  /\ pc \in {"idle", "minimum", "read", "repair", "returned"}
  /\ pc # "idle" =>
       /\ lost \in Real
       /\ minimum = [n \in DOMAIN minimum |-> RunsFor[lost]]
       /\ DOMAIN minimum \subseteq Real \ {lost}
       /\ Cardinality(DOMAIN minimum) = D
       /\ ColumnMates(lost) \subseteq DOMAIN minimum
  /\ pc \in {"idle", "minimum"} => helper = Empty
  /\ pc \in {"read", "repair", "returned"} =>
       helper = [n \in DOMAIN minimum |-> ReadsFor[lost]]
  /\ pc \in {"repair", "returned"} =>
       /\ repair_plane_to_ind = IndexFor[lost]
       /\ order_i \in Nat \ {0}

(* The loop: the planes of the orders already left are repaired, and no    *)
(* others but of this order; a repaired plane is decoded on every node and *)
(* the sub-chunks it yields are right; no other sub-chunk is written.      *)
LoopOK ==
  /\ pc \in {"idle", "minimum", "read"} => repaired = {} /\ R = [p \in Pos |-> Junk]
  /\ pc \in {"repair", "returned"} =>
       /\ repaired \subseteq RepairPlanes(lost)
       /\ \A z \in repaired, n \in Node : <<n, z>> \in U
       /\ \A z \in RepairPlanes(lost) : PlaneOrder(z) < order_i => z \in repaired
       /\ R = [p \in Pos |-> IF \E z \in repaired : Order[p] \in Yields(z)
                             THEN Order[p] ELSE Junk]
  /\ pc = "returned" => ordered_planes(order_i) = {}

RInv == CallOK /\ LoopOK

(* No column but the lost node's consists of aloof nodes only.             *)
NoAloofColumn == \A y \in Y : y # lost[2] => \E x \in X : <<x, y>> \notin aloof_nodes

(* Who is lost, helping, aloof and erased.                                 *)
LEMMA Roles ==
  ASSUME CallOK, pc \in {"read", "repair", "returned"}
  PROVE  /\ lost \in Real /\ lost \in Node /\ lost[1] \in X /\ lost[2] \in Y
         /\ DOMAIN helper = DOMAIN minimum /\ DOMAIN minimum \subseteq Real \ {lost}
         /\ aloof_nodes \subseteq Node /\ IsFiniteSet(aloof_nodes)
         /\ Cardinality(aloof_nodes) = K + M - D - 1
         /\ \A n \in aloof_nodes : n[2] # lost[2] /\ n \in Real /\ n \notin DOMAIN helper
         /\ \A n \in Node : n \in aloof_nodes \/ n = lost \/ n \in DOMAIN helper
                              \/ n \in Virtual
<1>1. lost \in Real /\ lost \in Node /\ lost[1] \in X /\ lost[2] \in Y
  BY RealNodes DEF CallOK, Node
<1>2. DOMAIN helper = DOMAIN minimum /\ DOMAIN minimum \subseteq Real \ {lost}
  BY DEF CallOK
<1>3. Cardinality(DOMAIN minimum) = D
  BY DEF CallOK
<1>4. aloof_nodes \subseteq Real /\ aloof_nodes = Real \ (DOMAIN minimum \cup {lost})
  BY <1>2 DEF aloof_nodes
<1>5. IsFiniteSet(Real) /\ Cardinality(Real) = K + M /\ Real \subseteq Node
      /\ Node = Real \cup Virtual
  BY RealNodes
<1>6. IsFiniteSet(aloof_nodes) /\ IsFiniteSet(DOMAIN minimum)
  BY <1>2, <1>4, <1>5, FS_Subset
<1>7. Cardinality(DOMAIN minimum \cup {lost}) = D + 1 /\ IsFiniteSet(DOMAIN minimum \cup {lost})
  BY <1>2, <1>3, <1>6, FS_AddElement
<1>8. Cardinality(aloof_nodes) = K + M - D - 1
  <2>1. Cardinality(aloof_nodes) =
          Cardinality(Real) - Cardinality(Real \cap (DOMAIN minimum \cup {lost}))
    BY <1>4, <1>5, FS_Difference
  <2>2. Real \cap (DOMAIN minimum \cup {lost}) = DOMAIN minimum \cup {lost}
    BY <1>1, <1>2
  <2>3. Cardinality(aloof_nodes) = (K + M) - (D + 1)
    BY ONLY <1>5, <1>7, <2>1, <2>2
  <2>4. K \in Nat /\ M \in Nat /\ D \in Nat
    BY ProfileAssumption
  <2> QED
    BY ONLY <2>3, <2>4
<1>9. ColumnMates(lost) \subseteq DOMAIN minimum
  BY DEF CallOK
<1>10. \A n \in aloof_nodes : n[2] # lost[2] /\ n \in Real /\ n \notin DOMAIN helper
  BY <1>2, <1>4, <1>9 DEF ColumnMates
<1> QED
  BY <1>1, <1>2, <1>4, <1>5, <1>6, <1>8, <1>10

(* The erased nodes are the lost node's column and the aloof nodes, no     *)
(* more than m; with the helpers and the zero chunks every node is named.  *)
LEMMA ErasedFew ==
  ASSUME CallOK, pc \in {"read", "repair", "returned"}
  PROVE  /\ erasures \subseteq Node /\ IsFiniteSet(erasures)
         /\ Cardinality(erasures) <= M
         /\ Cardinality(HelperData) + Cardinality(aloof_nodes) + 1 = Q * T
<1>1. /\ lost[2] \in Y /\ aloof_nodes \subseteq Node /\ IsFiniteSet(aloof_nodes)
      /\ Cardinality(aloof_nodes) = K + M - D - 1
      /\ DOMAIN helper = DOMAIN minimum /\ DOMAIN minimum \subseteq Real
      /\ Cardinality(DOMAIN minimum) = D
  BY Roles DEF CallOK
<1>2. IsFiniteSet(Column(lost[2])) /\ Cardinality(Column(lost[2])) = Q
  BY <1>1, NodeCounts
<1>3. erasures = Column(lost[2]) \cup aloof_nodes /\ erasures \subseteq Node
  BY <1>1 DEF erasures, Column
<1>4. /\ IsFiniteSet(erasures)
      /\ Cardinality(erasures) = Cardinality(Column(lost[2])) + Cardinality(aloof_nodes)
                                   - Cardinality(Column(lost[2]) \cap aloof_nodes)
  BY <1>1, <1>2, <1>3, FS_Union
<1>5. Cardinality(Column(lost[2]) \cap aloof_nodes) \in Nat
  BY <1>1, <1>2, FS_Intersection, FS_CardinalityType
<1>6. Cardinality(erasures) <= M
  BY <1>1, <1>2, <1>4, <1>5, ProfileAssumption DEF Q
<1>7. /\ IsFiniteSet(Virtual) /\ IsFiniteSet(Real) /\ IsFiniteSet(DOMAIN minimum)
      /\ Virtual \cap Real = {} /\ Node = Real \cup Virtual
      /\ Cardinality(Real) = K + M
  BY <1>1, RealNodes, NodeFinite, FS_Subset
<1>8. Cardinality(Virtual) = Q * T - (K + M)
  <2>1. Cardinality(Real \cup Virtual) =
          Cardinality(Real) + Cardinality(Virtual) - Cardinality(Real \cap Virtual)
    BY <1>7, FS_Union
  <2>2. Cardinality(Real \cap Virtual) = 0
    BY <1>7, FS_EmptySet
  <2>3. Cardinality(Virtual) \in Nat
    BY <1>7, FS_CardinalityType
  <2>4. Cardinality(Node) = Q * T
    BY NodeCounts
  <2> QED
    BY <1>7, <2>1, <2>2, <2>3, <2>4, ProfileAssumption
<1>9. Cardinality(HelperData) = D + Cardinality(Virtual)
  <2>1. HelperData = DOMAIN minimum \cup Virtual /\ DOMAIN minimum \cap Virtual = {}
    BY <1>1, <1>7 DEF HelperData
  <2>2. Cardinality(DOMAIN minimum \cup Virtual) =
          Cardinality(DOMAIN minimum) + Cardinality(Virtual)
            - Cardinality(DOMAIN minimum \cap Virtual)
    BY <1>7, FS_Union
  <2>3. Cardinality(DOMAIN minimum \cap Virtual) = 0
    BY <2>1, FS_EmptySet
  <2>4. Cardinality(Virtual) \in Nat
    BY <1>7, FS_CardinalityType
  <2> QED
    BY <1>1, <2>1, <2>2, <2>3, <2>4, ProfileAssumption
<1>10. Q * T \in Nat
  <2>1. Cardinality(Node) \in Nat
    BY NodeFinite, FS_CardinalityType
  <2> QED
    BY <2>1, NodeCounts
<1> QED
  BY <1>1, <1>3, <1>4, <1>6, <1>8, <1>9, <1>10, ProfileAssumption

(* The order of a plane: its dots among the aloof nodes and the lost one.  *)
OrderDots(z) == {n \in aloof_nodes \cup {lost} : Dot(n, z)}

(* Every plane read has an order, since the lost node is one of its dots.  *)
LEMMA OrderPositive ==
  ASSUME CallOK, pc \in {"read", "repair", "returned"}, NEW z \in RepairPlanes(lost)
  PROVE  PlaneOrder(z) \in Nat \ {0} /\ IsFiniteSet(OrderDots(z))
<1>1. IsFiniteSet(aloof_nodes \cup {lost})
  BY Roles, FS_AddElement
<1>2. IsFiniteSet(OrderDots(z))
  BY <1>1, FS_Subset DEF OrderDots
<1>3. lost \in OrderDots(z)
  BY DEF OrderDots, RepairPlanes
<1>4. Cardinality(OrderDots(z)) \in Nat /\ Cardinality(OrderDots(z)) # 0
  BY <1>2, <1>3, FS_CardinalityType, FS_EmptySet
<1> QED
  BY <1>2, <1>4 DEF PlaneOrder, OrderDots

(* Moving a plane's digit from an aloof node to one that is not lowers its *)
(* order by one.                                                           *)
LEMMA OrderFalls ==
  ASSUME CallOK, pc \in {"read", "repair", "returned"}, NEW z \in RepairPlanes(lost),
         NEW n \in Node, n \notin aloof_nodes, n[2] # lost[2],
         node_sw(n, z) \in aloof_nodes
  PROVE  z_sw(n, z) \in RepairPlanes(lost) /\ PlaneOrder(z_sw(n, z)) = PlaneOrder(z) - 1
<1> DEFINE w == z_sw(n, z)
<1>1. /\ z \in Plane /\ z[lost[2]] = lost[1] /\ lost \in Node /\ lost[2] \in Y
      /\ aloof_nodes \subseteq Node
  BY Roles DEF RepairPlanes, Dot
<1>2. /\ w \in Plane /\ w[n[2]] = n[1] /\ n[2] \in Y
      /\ \A y \in Y : y # n[2] => w[y] = z[y]
  BY <1>1, PairTypes DEF z_sw, Plane
<1>3. w \in RepairPlanes(lost)
  BY <1>1, <1>2 DEF RepairPlanes, Dot
<1> DEFINE s == node_sw(n, z)
<1>4. s \in Node /\ s[1] = z[n[2]] /\ s[2] = n[2] /\ s # lost
  BY <1>1, PairTypes DEF node_sw
<1>5. s \in OrderDots(z)
  BY <1>4 DEF OrderDots, Dot
<1> HIDE DEF w, s
<1>6. ASSUME NEW v \in OrderDots(w) PROVE v \in OrderDots(z) /\ v # s
  <2>1. v \in Node /\ v[2] \in Y /\ w[v[2]] = v[1] /\ v \in aloof_nodes \cup {lost}
    BY <1>1 DEF OrderDots, Dot, Node
  <2>2. v[2] # n[2]
    <3> SUFFICES ASSUME v[2] = n[2] PROVE FALSE
      OBVIOUS
    <3>1. v = n
      BY <1>2, <2>1, NodeEquality
    <3>2. n # lost
      OBVIOUS
    <3> QED
      BY <2>1, <3>1, <3>2
  <2>3. z[v[2]] = v[1]
    BY <1>2, <2>1, <2>2
  <2> QED
    BY <1>4, <2>1, <2>2, <2>3 DEF OrderDots, Dot
<1>7. ASSUME NEW v \in OrderDots(z), v # s PROVE v \in OrderDots(w)
  <2>1. v \in Node /\ v[2] \in Y /\ z[v[2]] = v[1] /\ v \in aloof_nodes \cup {lost}
    BY <1>1 DEF OrderDots, Dot, Node
  <2>2. v[2] # n[2]
    BY <1>4, <1>7, <2>1, NodeEquality
  <2>3. w[v[2]] = v[1]
    BY <1>2, <2>1, <2>2
  <2> QED
    BY <2>1, <2>3 DEF OrderDots, Dot
<1>8. OrderDots(w) = OrderDots(z) \ {s}
  BY <1>6, <1>7
<1>9. Cardinality(OrderDots(z) \ {s}) = Cardinality(OrderDots(z)) - 1
  BY <1>5, OrderPositive, FS_RemoveElement
<1>10. PlaneOrder(w) = PlaneOrder(z) - 1
  BY <1>8, <1>9 DEF PlaneOrder, OrderDots
<1> QED
  BY <1>3, <1>10 DEF w

(* The sub-chunk the code takes from a helper for a plane to repair is the *)
(* right one.                                                              *)
LEMMA HelpersGood ==
  ASSUME CallOK, pc = "repair", NEW z \in RepairPlanes(lost),
         NEW n \in Node, n \notin aloof_nodes, n # lost
  PROVE  HelperGood(n, z)
<1>1. n \in DOMAIN helper \/ n \in Virtual
  BY Roles
<1>2. CASE n \in Virtual
  BY <1>2 DEF HelperGood
<1>3. CASE n \in DOMAIN helper
  <2>1. helper = [v \in DOMAIN minimum |-> ReadsFor[lost]] /\ DOMAIN helper = DOMAIN minimum
    BY DEF CallOK
  <2>2. helper[n] = Reads(lost)
    BY <1>3, <2>1, Roles DEF ReadsFor
  <2>3. repair_plane_to_ind = Index(lost)
    BY Roles DEF CallOK, IndexFor
  <2>4. Reads(lost)[Index(lost)[z]] = z
    BY Roles, ReadsFacts
  <2>5. z \in DOMAIN repair_plane_to_ind
    BY <2>3 DEF Index
  <2> QED
    BY <1>3, <2>2, <2>3, <2>4, <2>5 DEF HelperGood
<1> QED
  BY <1>1, <1>2, <1>3

(* The index is of the planes to repair.                                   *)
LEMMA PlanesIndexed ==
  ASSUME CallOK, pc \in {"repair", "returned"}
  PROVE  DOMAIN repair_plane_to_ind = RepairPlanes(lost)
<1>1. repair_plane_to_ind = IndexFor[lost] /\ lost \in Node
  BY Roles DEF CallOK
<1> QED
  BY <1>1 DEF IndexFor, Index

(* When its turn comes, a plane has every survivor's uncoupled sub-chunk.  *)
LEMMA SurvivorsReady ==
  ASSUME RInv, pc = "repair", NEW z \in ordered_planes(order_i), NEW n \in Node \ erasures
  PROVE  UncoupleReady(n, z)
<1>1. z \in RepairPlanes(lost) /\ PlaneOrder(z) = order_i /\ z \in Plane
  BY PlanesIndexed DEF RInv, ordered_planes, RepairPlanes
<1>2. n \in Node /\ n[2] # lost[2] /\ n \notin aloof_nodes /\ n # lost
  BY DEF erasures
<1>3. HelperGood(n, z)
  BY <1>1, <1>2, HelpersGood DEF RInv
<1>4. ASSUME node_sw(n, z) \in aloof_nodes
      PROVE  <<node_sw(n, z), z_sw(n, z)>> \in U
  <2>1. /\ z_sw(n, z) \in RepairPlanes(lost)
        /\ PlaneOrder(z_sw(n, z)) = PlaneOrder(z) - 1
    BY <1>1, <1>2, <1>4, OrderFalls DEF RInv
  <2>2. order_i \in Nat
    BY DEF RInv, CallOK
  <2>3. PlaneOrder(z_sw(n, z)) < order_i
    BY <1>1, <2>1, <2>2
  <2>4. z_sw(n, z) \in repaired
    BY <2>1, <2>3 DEF RInv, LoopOK
  <2>5. node_sw(n, z) \in Node
    BY <1>1, PairTypes
  <2> QED
    BY <2>4, <2>5 DEF RInv, LoopOK
<1>5. ASSUME node_sw(n, z) \notin aloof_nodes, ~Dot(n, z)
      PROVE  HelperGood(node_sw(n, z), z_sw(n, z))
  <2>1. node_sw(n, z) \in Node /\ node_sw(n, z)[2] = n[2] /\ z_sw(n, z) \in Plane
    BY <1>1, PairTypes DEF node_sw
  <2>2. lost \in Node /\ lost[2] \in Y
    BY Roles DEF RInv
  <2>3. z_sw(n, z)[lost[2]] = z[lost[2]]
    BY <1>1, <1>2, <2>2 DEF z_sw, Plane
  <2>4. z_sw(n, z) \in RepairPlanes(lost)
    BY <1>1, <2>1, <2>3 DEF RepairPlanes, Dot
  <2>5. node_sw(n, z) # lost
    BY <1>2, <2>1
  <2> QED
    BY <1>5, <2>1, <2>4, <2>5, HelpersGood DEF RInv
<1> QED
  BY <1>3, <1>4, <1>5 DEF UncoupleReady

(* The sub-chunks a plane yields come from helpers' right sub-chunks.      *)
LEMMA YieldsGood ==
  ASSUME RInv, pc = "repair", NEW z \in RepairPlanes(lost), NEW w \in Yields(z)
  PROVE  w \in Plane /\ (w = z \/ HelperGood(<<w[lost[2]], lost[2]>>, z))
<1>0. z \in Plane /\ Dot(lost, z) /\ lost \in Node
  BY Roles DEF RepairPlanes, RInv
<1>1. CASE w = z
  BY <1>0, <1>1
<1>2. CASE w # z
  <2>1. PICK n \in erasures \ aloof_nodes : ~Dot(n, z) /\ w = z_sw(n, z)
    BY <1>2, Zenon DEF Yields
  <2>2. n \in Node /\ n[2] = lost[2] /\ n \notin aloof_nodes /\ n # lost
    BY <1>0, <2>1 DEF erasures
  <2>3. w \in Plane /\ w[n[2]] = n[1] /\ n = <<n[1], n[2]>>
    BY <1>0, <2>1, <2>2, PairTypes, PairInvolution
  <2>4. <<w[lost[2]], lost[2]>> = n
    BY <2>2, <2>3
  <2> QED
    BY <2>2, <2>3, <2>4, HelpersGood DEF RInv
<1> QED
  BY <1>1, <1>2

(* A plane's turn decodes it on every node and adds the sub-chunks it      *)
(* yields to the recovered chunk.                                          *)
LEMMA PlaneRepaired ==
  ASSUME RInv, NEW z \in Plane, RepairPlane(z)
  PROVE  /\ z \in RepairPlanes(lost) /\ PlaneOrder(z) = order_i
         /\ \A n \in Node : <<n, z>> \in U'
         /\ \A n \in Node, w \in Plane : w # z /\ <<n, w>> \in U => <<n, w>> \in U'
         /\ R' = [p \in Pos |-> IF Order[p] \in Yields(z) THEN Order[p] ELSE R[p]]
<1> DEFINE survivors == Node \ erasures
<1> DEFINE decoded == /\ Cardinality(erasures) <= M
                      /\ \A n \in survivors : UncoupleReady(n, z)
<1> DEFINE good(w) == decoded /\ (w = z \/ HelperGood(<<w[lost[2]], lost[2]>>, z))
<1>1. /\ pc = "repair" /\ z \in ordered_planes(order_i)
      /\ U' = (U \ {<<n, z>> : n \in Node})
                \cup {<<n, z>> : n \in {v \in survivors : UncoupleReady(v, z)}}
                \cup (IF decoded THEN {<<n, z>> : n \in erasures} ELSE {})
      /\ R' = [p \in Pos |->
                 IF \E w \in Yields(z) : order_ind[w] = p
                 THEN LET w == CHOOSE v \in Yields(z) : order_ind[v] = p
                      IN  IF good(w) THEN w ELSE Junk
                 ELSE R[p]]
  BY Zenon DEF RepairPlane
<1>2. z \in RepairPlanes(lost) /\ PlaneOrder(z) = order_i
  BY <1>1, PlanesIndexed DEF RInv, ordered_planes
<1>3. decoded
  <2>1. Cardinality(erasures) <= M
    BY <1>1, ErasedFew DEF RInv
  <2> QED
    BY <1>1, <2>1, SurvivorsReady
<1>4. \A w \in Yields(z) : w \in Plane /\ good(w)
  BY <1>1, <1>2, <1>3, YieldsGood
<1>5. \A n \in Node : <<n, z>> \in U'
  BY <1>1, <1>3
<1>6. \A n \in Node, w \in Plane : w # z /\ <<n, w>> \in U => <<n, w>> \in U'
  BY <1>1
<1> HIDE DEF good, decoded
<1>7. ASSUME NEW p \in Pos
      PROVE  (IF \E w \in Yields(z) : order_ind[w] = p
              THEN LET w == CHOOSE v \in Yields(z) : order_ind[v] = p
                   IN  IF good(w) THEN w ELSE Junk
              ELSE R[p])
             = IF Order[p] \in Yields(z) THEN Order[p] ELSE R[p]
  <2>1. /\ Order[p] \in Plane /\ order_ind[Order[p]] = p
        /\ \A w \in Plane : order_ind[w] = p => w = Order[p]
    BY OrderIndUnique
  <2>2. CASE Order[p] \in Yields(z)
    <3> DEFINE w == CHOOSE v \in Yields(z) : order_ind[v] = p
    <3>1. \E v \in Yields(z) : order_ind[v] = p
      BY <2>1, <2>2
    <3>2. w \in Yields(z) /\ order_ind[w] = p
      BY <3>1, Zenon
    <3> HIDE DEF w
    <3>3. w = Order[p] /\ good(w)
      BY <1>4, <2>1, <3>2
    <3> QED
      BY <2>2, <3>1, <3>3, Zenon DEF w
  <2>3. CASE Order[p] \notin Yields(z)
    <3>1. ~\E w \in Yields(z) : order_ind[w] = p
      BY <1>4, <2>1, <2>3
    <3> QED
      BY <2>3, <3>1, Zenon
  <2> QED
    BY <2>2, <2>3
<1>8. R' = [p \in Pos |-> IF Order[p] \in Yields(z) THEN Order[p] ELSE R[p]]
  BY <1>1, <1>7, Zenon
<1> QED
  BY <1>2, <1>5, <1>6, <1>8

(* Initially nothing is asked for. *)
LEMMA InitRInv == Init => RInv
  BY DEF Init, RInv, CallOK, LoopOK

(* A new call names d helpers and empties the buffers. *)
LEMMA RequestRInv ==
  ASSUME RInv, NEW i \in Real, NEW available \in SUBSET (Real \ {i}),
         minimum_to_decode(i, available)
  PROVE  RInv'
<1>1. /\ pc' = "minimum" /\ lost' = i /\ helper' = Empty /\ repaired' = {}
      /\ minimum' = [n \in Helpers(i, available) |-> get_repair_subchunks(i)]
      /\ R' = [p \in Pos |-> Junk]
      /\ is_repair(i, available)
  BY DEF minimum_to_decode
<1>2. /\ Helpers(i, available) \subseteq available
      /\ ColumnMates(i) \subseteq Helpers(i, available)
      /\ Cardinality(Helpers(i, available)) = D
  BY <1>1, HelpersFacts
<1>3. DOMAIN minimum' = Helpers(i, available)
  BY <1>1
<1>4. RunsFor[lost]' = get_repair_subchunks(i)
  <2>1. RunsFor[lost]' = RunsFor[i] /\ i \in Node
    BY <1>1, RealNodes
  <2> QED
    BY <2>1, Zenon DEF RunsFor
<1>5. ColumnMates(lost)' = ColumnMates(i)
  BY <1>1 DEF ColumnMates
<1>6. /\ (lost \in Real)'
      /\ (minimum = [n \in DOMAIN minimum |-> RunsFor[lost]])'
      /\ (DOMAIN minimum \subseteq Real \ {lost})'
      /\ (Cardinality(DOMAIN minimum) = D)'
      /\ (ColumnMates(lost) \subseteq DOMAIN minimum)'
  <2>1. (minimum = [n \in DOMAIN minimum |-> RunsFor[lost]])'
    <3>1. minimum' = [n \in Helpers(i, available) |-> RunsFor[lost]']
      BY <1>1, <1>4, Zenon
    <3> QED
      BY <1>3, <3>1, Zenon
  <2> QED
    BY <1>1, <1>2, <1>3, <1>5, <2>1
<1>7. CallOK'
  BY <1>1, <1>6, Zenon DEF CallOK
<1>8. LoopOK'
  BY <1>1 DEF LoopOK
<1> QED
  BY <1>7, <1>8 DEF RInv

(* What the aloof nodes, the orders and the yields depend on.              *)
LEMMA RolesKept ==
  ASSUME lost' = lost, helper' = helper
  PROVE  /\ aloof_nodes' = aloof_nodes /\ RepairPlanes(lost)' = RepairPlanes(lost)
         /\ \A z : PlaneOrder(z)' = PlaneOrder(z) /\ Yields(z)' = Yields(z)
         /\ ReadsFor[lost]' = ReadsFor[lost] /\ IndexFor[lost]' = IndexFor[lost]
         /\ RunsFor[lost]' = RunsFor[lost]
         /\ ColumnMates(lost)' = ColumnMates(lost)
<1>1. aloof_nodes' = aloof_nodes
  BY DEF aloof_nodes
<1>2. \A z : PlaneOrder(z)' = PlaneOrder(z) /\ Yields(z)' = Yields(z)
  BY <1>1, Zenon DEF PlaneOrder, Yields, erasures
<1>3. RepairPlanes(lost)' = RepairPlanes(lost) /\ ColumnMates(lost)' = ColumnMates(lost)
  BY Zenon DEF RepairPlanes, ColumnMates, Dot
<1>4. /\ ReadsFor[lost]' = ReadsFor[lost] /\ IndexFor[lost]' = IndexFor[lost]
      /\ RunsFor[lost]' = RunsFor[lost]
  OBVIOUS
<1> QED
  BY <1>1, <1>2, <1>3, <1>4

(* The buffers are filled with the runs asked for.                         *)
LEMMA ReadRInv ==
  ASSUME RInv, ReadHelpers PROVE RInv'
<1>1. /\ pc = "minimum" /\ pc' = "read"
      /\ helper' = [n \in DOMAIN minimum |->
                      LET pos == Positions(minimum[n])
                      IN  [j \in DOMAIN pos |-> Order[pos[j]]]]
      /\ UNCHANGED <<lost, minimum, repair_plane_to_ind, order_i, repaired, U, R>>
  BY Zenon DEF ReadHelpers
<1>2. \A n \in DOMAIN minimum : minimum[n] = get_repair_subchunks(lost)
  <2>1. minimum = [n \in DOMAIN minimum |-> RunsFor[lost]] /\ lost \in Node
    BY <1>1, RealNodes DEF RInv, CallOK
  <2>2. RunsFor[lost] = get_repair_subchunks(lost)
    BY <2>1, Zenon DEF RunsFor
  <2> QED
    BY <2>1, <2>2, Zenon
<1>3. \A n \in DOMAIN minimum : (LET pos == Positions(minimum[n])
                                 IN  [j \in DOMAIN pos |-> Order[pos[j]]]) = Reads(lost)
  <2> SUFFICES ASSUME NEW n \in DOMAIN minimum
               PROVE  (LET pos == Positions(minimum[n])
                       IN  [j \in DOMAIN pos |-> Order[pos[j]]]) = Reads(lost)
    OBVIOUS
  <2>1. Positions(minimum[n]) = RepairPositions(lost)
    BY <1>2, Zenon DEF RepairPositions
  <2> QED
    BY <2>1, Zenon DEF Reads
<1>4. helper' = [n \in DOMAIN minimum |-> ReadsFor[lost]]
  <2>1. helper' = [n \in DOMAIN minimum |-> Reads(lost)]
    BY <1>1, <1>3, Zenon
  <2>2. ReadsFor[lost] = Reads(lost)
    BY <1>1, RealNodes DEF RInv, CallOK, ReadsFor
  <2> QED
    BY <2>1, <2>2, Zenon
<1>5. /\ RunsFor[lost]' = RunsFor[lost] /\ ReadsFor[lost]' = ReadsFor[lost]
      /\ ColumnMates(lost)' = ColumnMates(lost)
  BY <1>1 DEF ColumnMates
<1>6. CallOK'
  BY <1>1, <1>4, <1>5, Zenon DEF RInv, CallOK
<1>7. LoopOK'
  BY <1>1 DEF RInv, LoopOK
<1> QED
  BY <1>6, <1>7 DEF RInv

(* The planes are numbered by their places in a buffer.                    *)
LEMMA repairRInv ==
  ASSUME RInv, repair PROVE RInv'
<1>1. /\ pc = "read" /\ pc' = "repair" /\ order_i' = 1
      /\ repair_plane_to_ind' =
           LET pos == Positions(get_repair_subchunks(lost))
           IN  [z \in {Order[p] : p \in Range(pos)} |->
                  CHOOSE j \in DOMAIN pos : Order[pos[j]] = z]
      /\ UNCHANGED <<lost, minimum, helper, repaired, U, R>>
  BY Zenon DEF repair
<1>2. {Order[p] : p \in Range(RepairPositions(lost))} = RepairPlanes(lost)
  BY <1>1, Roles, RepairPositionsFacts DEF RInv
<1>3. repair_plane_to_ind' = IndexFor[lost]
  <2>1. repair_plane_to_ind' = [z \in {Order[p] : p \in Range(RepairPositions(lost))} |->
                                  CHOOSE j \in DOMAIN RepairPositions(lost) :
                                    Order[RepairPositions(lost)[j]] = z]
    BY <1>1, Zenon DEF RepairPositions
  <2>2. repair_plane_to_ind' = Index(lost)
    BY <1>2, <2>1, Zenon DEF Index
  <2>3. lost \in Node
    BY <1>1, Roles DEF RInv
  <2> QED
    BY <2>2, <2>3, Zenon DEF IndexFor
<1>4. /\ aloof_nodes' = aloof_nodes /\ RepairPlanes(lost)' = RepairPlanes(lost)
      /\ \A z : PlaneOrder(z)' = PlaneOrder(z) /\ Yields(z)' = Yields(z)
      /\ ReadsFor[lost]' = ReadsFor[lost] /\ IndexFor[lost]' = IndexFor[lost]
      /\ RunsFor[lost]' = RunsFor[lost]
      /\ ColumnMates(lost)' = ColumnMates(lost)
  BY <1>1, RolesKept
<1>5. CallOK'
  <2>1. pc' = "repair" /\ order_i' \in Nat \ {0} /\ lost' = lost /\ minimum' = minimum
        /\ helper' = helper
    BY <1>1
  <2>2. /\ lost \in Real
        /\ minimum = [n \in DOMAIN minimum |-> RunsFor[lost]]
        /\ DOMAIN minimum \subseteq Real \ {lost}
        /\ Cardinality(DOMAIN minimum) = D
        /\ ColumnMates(lost) \subseteq DOMAIN minimum
        /\ helper = [n \in DOMAIN minimum |-> ReadsFor[lost]]
    BY <1>1, Zenon DEF RInv, CallOK
  <2> QED
    BY <1>3, <1>4, <2>1, <2>2 DEF CallOK
<1>6. \A z \in RepairPlanes(lost) : ~(PlaneOrder(z) < 1)
  BY <1>1, OrderPositive DEF RInv
<1>7. repaired' = {} /\ R' = [p \in Pos |-> Junk]
  BY <1>1 DEF RInv, LoopOK
<1>8. LoopOK'
  BY <1>1, <1>4, <1>6, <1>7 DEF LoopOK
<1> QED
  BY <1>5, <1>8 DEF RInv

(* A plane's turn.                                                         *)
LEMMA PlaneRInv ==
  ASSUME RInv, NEW z \in Plane, RepairPlane(z) PROVE RInv'
<1>1. /\ pc = "repair" /\ repaired' = repaired \cup {z}
      /\ UNCHANGED <<pc, lost, minimum, helper, repair_plane_to_ind, order_i>>
  BY Zenon DEF RepairPlane
<1>2. /\ aloof_nodes' = aloof_nodes /\ RepairPlanes(lost)' = RepairPlanes(lost)
      /\ \A w : PlaneOrder(w)' = PlaneOrder(w) /\ Yields(w)' = Yields(w)
      /\ ReadsFor[lost]' = ReadsFor[lost] /\ IndexFor[lost]' = IndexFor[lost]
      /\ RunsFor[lost]' = RunsFor[lost]
      /\ ColumnMates(lost)' = ColumnMates(lost)
  BY <1>1, RolesKept
<1>3. CallOK'
  BY <1>1, <1>2, Zenon DEF RInv, CallOK
<1>4. /\ z \in RepairPlanes(lost) /\ PlaneOrder(z) = order_i
      /\ \A n \in Node : <<n, z>> \in U'
      /\ \A n \in Node, w \in Plane : w # z /\ <<n, w>> \in U => <<n, w>> \in U'
      /\ R' = [p \in Pos |-> IF Order[p] \in Yields(z) THEN Order[p] ELSE R[p]]
  BY PlaneRepaired
<1>5. /\ repaired \subseteq RepairPlanes(lost)
      /\ \A w \in repaired, n \in Node : <<n, w>> \in U
      /\ \A w \in RepairPlanes(lost) : PlaneOrder(w) < order_i => w \in repaired
      /\ R = [p \in Pos |-> IF \E w \in repaired : Order[p] \in Yields(w)
                            THEN Order[p] ELSE Junk]
  BY <1>1, Zenon DEF RInv, LoopOK
<1>6. RepairPlanes(lost) \subseteq Plane
  BY DEF RepairPlanes
<1>7. \A w \in repaired \cup {z}, n \in Node : <<n, w>> \in U'
  BY <1>4, <1>5, <1>6
<1>8. R' = [p \in Pos |-> IF \E w \in repaired \cup {z} : Order[p] \in Yields(w)
                          THEN Order[p] ELSE Junk]
  BY <1>4, <1>5
<1>9. R' = [p \in Pos |-> IF \E w \in repaired' : Order[p] \in Yields(w)'
                          THEN Order[p] ELSE Junk]
  BY <1>1, <1>2, <1>8
<1>10. LoopOK'
  <2>1. pc' = "repair"
    BY <1>1
  <2>2. /\ repaired' \subseteq RepairPlanes(lost)'
        /\ \A w \in repaired', n \in Node : <<n, w>> \in U'
        /\ \A w \in RepairPlanes(lost)' : PlaneOrder(w)' < order_i' => w \in repaired'
    BY <1>1, <1>2, <1>4, <1>5, <1>7
  <2> QED
    BY <1>9, <2>1, <2>2, Zenon DEF LoopOK
<1> QED
  BY <1>3, <1>10 DEF RInv

(* The next order, or the end of the loop.                                 *)
LEMMA OrderRInv ==
  ASSUME RInv, NextOrder PROVE RInv'
<1>1. /\ pc = "repair" /\ ordered_planes(order_i) \subseteq repaired
      /\ IF ordered_planes(order_i) = {}
         THEN pc' = "returned" /\ UNCHANGED order_i
         ELSE order_i' = order_i + 1 /\ UNCHANGED pc
      /\ UNCHANGED <<lost, minimum, helper, repair_plane_to_ind, repaired, U, R>>
  BY Zenon DEF NextOrder
<1>2. /\ aloof_nodes' = aloof_nodes /\ RepairPlanes(lost)' = RepairPlanes(lost)
      /\ \A w : PlaneOrder(w)' = PlaneOrder(w) /\ Yields(w)' = Yields(w)
      /\ ReadsFor[lost]' = ReadsFor[lost] /\ IndexFor[lost]' = IndexFor[lost]
      /\ RunsFor[lost]' = RunsFor[lost]
      /\ ColumnMates(lost)' = ColumnMates(lost)
  BY <1>1, RolesKept
<1>3. /\ pc' \in {"repair", "returned"} /\ order_i' \in Nat \ {0} /\ order_i \in Nat
      /\ (order_i' = order_i \/ order_i' = order_i + 1)
  BY <1>1 DEF RInv, CallOK
<1>4. CallOK'
  BY <1>1, <1>2, <1>3, Zenon DEF RInv, CallOK
<1>5. /\ repaired \subseteq RepairPlanes(lost)
      /\ \A w \in repaired, n \in Node : <<n, w>> \in U
      /\ \A w \in RepairPlanes(lost) : PlaneOrder(w) < order_i => w \in repaired
      /\ R = [p \in Pos |-> IF \E w \in repaired : Order[p] \in Yields(w)
                            THEN Order[p] ELSE Junk]
      /\ DOMAIN repair_plane_to_ind = RepairPlanes(lost)
  BY <1>1, PlanesIndexed DEF RInv, LoopOK
<1>6. \A w \in RepairPlanes(lost) : PlaneOrder(w) < order_i' => w \in repaired
  <2> SUFFICES ASSUME NEW w \in RepairPlanes(lost), PlaneOrder(w) < order_i'
               PROVE  w \in repaired
    OBVIOUS
  <2>1. PlaneOrder(w) \in Nat
    BY <1>1, OrderPositive DEF RInv
  <2>2. CASE PlaneOrder(w) < order_i
    BY <1>5, <2>2
  <2>3. CASE PlaneOrder(w) = order_i
    BY <1>1, <1>5, <2>3 DEF ordered_planes
  <2> QED
    BY <1>3, <2>1, <2>2, <2>3
<1>7. R' = [p \in Pos |-> IF \E w \in repaired' : Order[p] \in Yields(w)'
                          THEN Order[p] ELSE Junk]
  BY <1>1, <1>2, <1>5
<1>8. pc' = "returned" => ordered_planes(order_i)' = {}
  <2> SUFFICES ASSUME pc' = "returned" PROVE ordered_planes(order_i)' = {}
    OBVIOUS
  <2>1. ordered_planes(order_i) = {} /\ order_i' = order_i
    BY <1>1
  <2>2. ordered_planes(order_i)' = ordered_planes(order_i)
    BY <1>1, <1>2, <2>1 DEF ordered_planes
  <2> QED
    BY <2>1, <2>2
<1>9. LoopOK'
  <2>1. /\ repaired' \subseteq RepairPlanes(lost)'
        /\ \A w \in repaired', n \in Node : <<n, w>> \in U'
        /\ \A w \in RepairPlanes(lost)' : PlaneOrder(w)' < order_i' => w \in repaired'
    BY <1>1, <1>2, <1>5, <1>6
  <2>2. pc' # "idle" /\ pc' # "minimum" /\ pc' # "read"
    BY <1>3
  <2> QED
    BY <1>7, <1>8, <2>1, <2>2, Zenon DEF LoopOK
<1> QED
  BY <1>4, <1>9 DEF RInv

(* Nothing happens. *)
LEMMA StutterRInv ==
  ASSUME RInv, UNCHANGED vars PROVE RInv'
<1>1. /\ pc' = pc /\ lost' = lost /\ minimum' = minimum /\ helper' = helper
      /\ repair_plane_to_ind' = repair_plane_to_ind /\ order_i' = order_i
      /\ repaired' = repaired /\ U' = U /\ R' = R
  BY DEF vars
<1>2. /\ aloof_nodes' = aloof_nodes /\ RepairPlanes(lost)' = RepairPlanes(lost)
      /\ \A w : PlaneOrder(w)' = PlaneOrder(w) /\ Yields(w)' = Yields(w)
      /\ ReadsFor[lost]' = ReadsFor[lost] /\ IndexFor[lost]' = IndexFor[lost]
      /\ RunsFor[lost]' = RunsFor[lost]
      /\ ColumnMates(lost)' = ColumnMates(lost)
  BY <1>1, RolesKept
<1>3. ordered_planes(order_i)' = ordered_planes(order_i)
  BY <1>1, <1>2 DEF ordered_planes
<1>4. CallOK'
  BY <1>1, <1>2, Zenon DEF RInv, CallOK
<1>5. LoopOK'
  <2>1. pc \in {"idle", "minimum", "read", "repair", "returned"} /\ LoopOK
    BY DEF RInv, CallOK
  <2> QED
    BY <1>1, <1>2, <1>3, <2>1 DEF LoopOK
<1> QED
  BY <1>4, <1>5 DEF RInv

(* Every step preserves the invariant.                                     *)
LEMMA NextRInv == RInv /\ [Next]_vars => RInv'
<1> SUFFICES ASSUME RInv, [Next]_vars PROVE RInv'
  OBVIOUS
<1>1. CASE Request
  BY <1>1, RequestRInv DEF Request
<1>2. CASE ReadHelpers
  BY <1>2, ReadRInv
<1>3. CASE repair
  BY <1>3, repairRInv
<1>4. CASE \E z \in Plane : RepairPlane(z)
  BY <1>4, PlaneRInv
<1>5. CASE NextOrder
  BY <1>5, OrderRInv
<1>6. CASE UNCHANGED vars
  BY <1>6, StutterRInv
<1> QED
  BY <1>1, <1>2, <1>3, <1>4, <1>5, <1>6 DEF Next, Step

(* The invariant holds in every reachable state.                           *)
LEMMA Invariance == Spec => []RInv
  BY InitRInv, NextRInv, PTL DEF Spec
-----------------------------------------------------------------------------
(* The theorems.                                                           *)

(* The assertions of minimum_to_repair, repair and repair_one_lost_chunk   *)
(* hold in every repair: d helpers whatever is available, of each exactly  *)
(* the sub-chunks of the planes to repair, once; at most m erased nodes;   *)
(* no node forgotten; every plane read in some order.                      *)
THEOREM AssertionsAlwaysHold == Spec => []AssertionsHold
<1>1. RInv => AssertionsHold
  <2> SUFFICES ASSUME RInv, pc # "idle"
               PROVE  /\ Cardinality(DOMAIN minimum) = D
                      /\ \A n \in DOMAIN helper :
                           /\ Range(helper[n]) = {z \in Plane : Dot(lost, z)}
                           /\ IsInjective(helper[n])
                      /\ pc \in {"repair", "returned"} =>
                           /\ Cardinality(erasures) <= M
                           /\ Cardinality(HelperData) + Cardinality(aloof_nodes) + 1 = Q * T
                           /\ Cardinality(DOMAIN repair_plane_to_ind) = SubChunkNo \div Q
                           /\ \A z \in DOMAIN repair_plane_to_ind : PlaneOrder(z) > 0
    BY Zenon DEF AssertionsHold
  <2>1. Cardinality(DOMAIN minimum) = D
    BY DEF RInv, CallOK
  <2>2. ASSUME NEW n \in DOMAIN helper
        PROVE  /\ Range(helper[n]) = {z \in Plane : Dot(lost, z)}
               /\ IsInjective(helper[n])
    <3>1. pc \in {"read", "repair", "returned"}
      BY DEF RInv, CallOK, Empty
    <3>2. helper = [v \in DOMAIN minimum |-> ReadsFor[lost]] /\ lost \in Node
      BY <3>1, Roles DEF RInv, CallOK
    <3>3. helper[n] = Reads(lost)
      BY <3>2 DEF ReadsFor
    <3> QED
      BY <3>2, <3>3, ReadsFacts DEF RepairPlanes
  <2>3. ASSUME pc \in {"repair", "returned"}
        PROVE  /\ Cardinality(erasures) <= M
               /\ Cardinality(HelperData) + Cardinality(aloof_nodes) + 1 = Q * T
               /\ Cardinality(DOMAIN repair_plane_to_ind) = SubChunkNo \div Q
               /\ \A z \in DOMAIN repair_plane_to_ind : PlaneOrder(z) > 0
    <3>1. DOMAIN repair_plane_to_ind = RepairPlanes(lost) /\ lost \in Node
      BY <2>3, PlanesIndexed, Roles DEF RInv
    <3>2. \A z \in RepairPlanes(lost) : PlaneOrder(z) > 0
      BY <2>3, OrderPositive DEF RInv
    <3> QED
      BY <2>3, <3>1, <3>2, ErasedFew, PlanesReadCount DEF RInv
  <2> QED
    BY <2>1, <2>2, <2>3
<1> QED
  BY <1>1, Invariance, PTL

(* No plane of a repair overwrites a sub-chunk another one has recovered   *)
(* with anything else, also where several planes yield it.                 *)
THEOREM RecoveredOnceHolds == Spec => RecoveredOnce
<1>1. RInv /\ [Next]_vars => [RecoveredOnceStep]_vars
  <2> SUFFICES ASSUME RInv, [Next]_vars, pc = "repair", NEW p \in Pos, R[p] # Junk
               PROVE  R'[p] = R[p]
    BY Zenon DEF RecoveredOnceStep
  <2>1. R[p] = Order[p]
    BY DEF RInv, LoopOK
  <2>2. CASE Request
    BY <2>2 DEF Request, minimum_to_decode
  <2>3. CASE ReadHelpers
    BY <2>3 DEF ReadHelpers
  <2>4. CASE repair
    BY <2>4 DEF repair
  <2>5. CASE \E z \in Plane : RepairPlane(z)
    BY <2>1, <2>5, PlaneRepaired
  <2>6. CASE NextOrder
    BY <2>6 DEF NextOrder
  <2>7. CASE UNCHANGED vars
    BY <2>7 DEF vars
  <2> QED
    BY <2>2, <2>3, <2>4, <2>5, <2>6, <2>7 DEF Next, Step
<1> QED
  BY <1>1, Invariance, PTL DEF Spec, RecoveredOnce

(* Where no column but the lost node's is aloof as a whole, the orders of  *)
(* the planes follow each other without a gap: the loop that ends at the   *)
(* first order without planes has repaired them all.                       *)
LEMMA AllRepaired ==
  ASSUME RInv, pc = "returned", NoAloofColumn
  PROVE  repaired = RepairPlanes(lost)
<1> DEFINE C == {c \in Nat : \E z \in RepairPlanes(lost) : PlaneOrder(z) = order_i + c}
<1>1. /\ ordered_planes(order_i) = {} /\ order_i \in Nat \ {0}
      /\ repaired \subseteq RepairPlanes(lost)
      /\ \A z \in RepairPlanes(lost) : PlaneOrder(z) < order_i => z \in repaired
  BY DEF RInv, CallOK, LoopOK
<1>2. \A z \in RepairPlanes(lost) : PlaneOrder(z) \in Nat \ {0} /\ PlaneOrder(z) # order_i
  BY <1>1, OrderPositive, PlanesIndexed DEF RInv, ordered_planes
<1>3. ASSUME NEW c \in C PROVE c # 0 /\ c - 1 \in C
  <2>1. PICK z \in RepairPlanes(lost) : PlaneOrder(z) = order_i + c
    OBVIOUS
  <2>2. c \in Nat /\ c # 0 /\ PlaneOrder(z) # 1
    BY <1>1, <1>2, <2>1
  <2>3. IsFiniteSet(OrderDots(z)) /\ Cardinality(OrderDots(z)) # 1 /\ lost \in OrderDots(z)
    BY <2>2, OrderPositive DEF RInv, PlaneOrder, OrderDots, RepairPlanes
  <2>4. PICK s \in OrderDots(z) : s # lost
    <3>1. OrderDots(z) # {lost}
      BY <2>3, FS_Singleton
    <3> QED
      BY <2>3, <3>1
  <2>5. /\ s \in aloof_nodes /\ s \in Node /\ s[2] # lost[2] /\ s[2] \in Y /\ z[s[2]] = s[1]
        /\ z \in Plane /\ s = <<s[1], s[2]>>
    BY <2>4, Roles DEF RInv, OrderDots, Dot, Node, RepairPlanes
  <2>6. PICK x \in X : <<x, s[2]>> \notin aloof_nodes
    BY <2>5 DEF NoAloofColumn
  <2>7. PICK n : n = <<x, s[2]>>
    OBVIOUS
  <2>8. /\ n \in Node /\ n \notin aloof_nodes /\ n[2] # lost[2]
        /\ node_sw(n, z) = s
    BY <2>5, <2>6, <2>7 DEF Node, node_sw
  <2>9. /\ z_sw(n, z) \in RepairPlanes(lost)
        /\ PlaneOrder(z_sw(n, z)) = PlaneOrder(z) - 1
    BY <2>5, <2>8, OrderFalls DEF RInv
  <2>10. c - 1 \in Nat /\ PlaneOrder(z_sw(n, z)) = order_i + (c - 1)
    BY <1>1, <2>1, <2>2, <2>9
  <2> QED
    BY <2>2, <2>9, <2>10
<1>4. C = {}
  <2>1. C \in SUBSET Nat
    OBVIOUS
  <2> HIDE DEF C
  <2> QED
    BY <1>3, <2>1, NoDescent
<1>5. ASSUME NEW z \in RepairPlanes(lost) PROVE z \in repaired
  <2>1. ~(PlaneOrder(z) > order_i)
    <3> SUFFICES ASSUME PlaneOrder(z) > order_i PROVE FALSE
      OBVIOUS
    <3>1. PICK c \in Nat : PlaneOrder(z) = order_i + c
      <4>1. PlaneOrder(z) - order_i \in Nat
            /\ PlaneOrder(z) = order_i + (PlaneOrder(z) - order_i)
        BY <1>1, <1>2
      <4> QED
        BY <4>1
    <3>2. c \in C
      BY <3>1
    <3> QED
      BY <1>4, <3>2
  <2>2. PlaneOrder(z) < order_i
    BY <1>1, <1>2, <2>1
  <2> QED
    BY <1>1, <2>2
<1> QED
  BY <1>1, <1>5

(* Then the lost chunk is recovered as a whole: every sub-chunk is yielded *)
(* by the plane to repair that differs from it at the lost column's digit. *)
LEMMA RecoveredWhole ==
  ASSUME RInv, pc = "returned", NoAloofColumn, NEW p \in Pos
  PROVE  R[p] = Order[p]
<1>1. PICK w \in Plane : w = Order[p]
  BY OrderAssumption
<1>2. /\ lost \in Node /\ lost[2] \in Y /\ \A n \in aloof_nodes : n[2] # lost[2]
  BY Roles DEF RInv
<1>3. PICK z : z = z_sw(lost, w)
  OBVIOUS
<1>4. PICK n : n = node_sw(lost, w)
  OBVIOUS
<1>5. /\ z \in Plane /\ z[lost[2]] = lost[1] /\ n \in Node /\ n[2] = lost[2]
      /\ n[1] = w[lost[2]] /\ z_sw(n, z) = w
  BY <1>2, <1>3, <1>4, PairTypes, PairInvolution
<1>6. z \in RepairPlanes(lost)
  BY <1>5 DEF RepairPlanes, Dot
<1>7. z \in repaired
  BY <1>6, AllRepaired
<1>8. w \in Yields(z)
  <2>1. CASE w = z
    BY <2>1 DEF Yields
  <2>2. CASE w # z
    <3>1. ~Dot(n, z)
      <4> SUFFICES ASSUME z[n[2]] = n[1] PROVE FALSE
        BY DEF Dot
      <4>1. \A y \in Y : w[y] = z[y]
        BY <1>2, <1>3, <1>5 DEF z_sw, Plane
      <4>2. w = z
        BY <1>5, <4>1 DEF Plane
      <4> QED
        BY <2>2, <4>2
    <3>2. n \in erasures \ aloof_nodes
      BY <1>2, <1>5 DEF erasures
    <3> QED
      BY <1>5, <3>1, <3>2 DEF Yields
  <2> QED
    BY <2>1, <2>2
<1> QED
  BY <1>1, <1>7, <1>8 DEF RInv, LoopOK

(* A repair that returns has recovered the lost chunk, unless a whole      *)
(* column of the grid was left aloof.                                      *)
THEOREM LostChunkRightUnlessAloofColumn == Spec => [](NoAloofColumn => LostChunkRight)
<1>1. RInv => (NoAloofColumn => LostChunkRight)
  BY RecoveredWhole DEF LostChunkRight
<1> QED
  BY <1>1, Invariance, PTL

(* With fewer aloof nodes than a column has, no column is aloof.           *)
LEMMA AloofFewerThanColumn ==
  ASSUME K + M - 1 - D < Q, CallOK, pc = "returned"
  PROVE  NoAloofColumn
<1> SUFFICES ASSUME NEW y \in Y, \A x \in X : <<x, y>> \in aloof_nodes PROVE FALSE
  BY DEF NoAloofColumn
<1>1. Column(y) \subseteq aloof_nodes
  BY DEF Column, Node
<1>2. IsFiniteSet(aloof_nodes) /\ Cardinality(aloof_nodes) = K + M - D - 1
  BY Roles
<1>3. Cardinality(Column(y)) = Q
  BY NodeCounts
<1>4. Cardinality(Column(y)) <= Cardinality(aloof_nodes)
  BY <1>1, <1>2, FS_Subset
<1> QED
  BY <1>2, <1>3, <1>4, QTypes, ProfileAssumption

(* decode's promise for one lost chunk, in every profile in which the      *)
(* chunks that neither help nor are lost are fewer than q: the default     *)
(* d = k + m - 1 leaves none.                                              *)
THEOREM LostChunkIsRight ==
  ASSUME K + M - 1 - D < Q PROVE Spec => []LostChunkRight
<1>1. RInv => LostChunkRight
  BY AloofFewerThanColumn, RecoveredWhole DEF RInv, LostChunkRight
<1> QED
  BY <1>1, Invariance, PTL

(* The recovered chunk holds sub-chunks, or nothing yet.                   *)
RecoveredTyped == R \in [Pos -> Plane \cup {Junk}]

(* It does so in every state.                                              *)
LEMMA RecoveredType == Spec => []RecoveredTyped
<1>1. Init => RecoveredTyped
  BY DEF Init, RecoveredTyped
<1>2. ASSUME RecoveredTyped, NEW z \in Plane, RepairPlane(z) PROVE RecoveredTyped'
  <2>1. Yields(z) \subseteq Plane
    BY PairTypes, RealNodes DEF Yields, erasures, aloof_nodes
  <2> DEFINE yields == Yields(z)
             chosen(p) == CHOOSE v \in yields : order_ind[v] = p
  <2>2. PICK good \in [Plane -> BOOLEAN] :
          R' = [p \in Pos |-> IF \E w \in yields : order_ind[w] = p
                              THEN IF good[chosen(p)] THEN chosen(p) ELSE Junk
                              ELSE R[p]]
    <3> DEFINE decoded == /\ Cardinality(erasures) <= M
                          /\ \A n \in Node \ erasures : UncoupleReady(n, z)
               g == [w \in Plane |->
                      decoded /\ (w = z \/ HelperGood(<<w[lost[2]], lost[2]>>, z))]
    <3>1. g \in [Plane -> BOOLEAN]
      OBVIOUS
    <3>2. ASSUME NEW p \in Pos, \E w \in yields : order_ind[w] = p
          PROVE  chosen(p) \in Plane
      BY <2>1, <3>2
    <3>3. R' = [p \in Pos |-> IF \E w \in yields : order_ind[w] = p
                              THEN IF g[chosen(p)] THEN chosen(p) ELSE Junk
                              ELSE R[p]]
      <4> HIDE DEF decoded
      <4>1. R' = [p \in Pos |-> IF \E w \in yields : order_ind[w] = p
                  THEN IF decoded /\ (chosen(p) = z
                                        \/ HelperGood(<<chosen(p)[lost[2]], lost[2]>>, z))
                       THEN chosen(p) ELSE Junk
                  ELSE R[p]]
        BY <1>2 DEF RepairPlane, decoded
      <4> HIDE DEF chosen, yields
      <4> QED
        BY <3>2, <4>1
    <3> QED
      BY <3>1, <3>3
  <2> HIDE DEF chosen
  <2>3. ASSUME NEW p \in Pos, \E w \in yields : order_ind[w] = p
        PROVE  chosen(p) \in Plane
    BY <2>1, <2>3 DEF chosen
  <2> HIDE DEF yields
  <2> QED
    BY <1>2, <2>2, <2>3 DEF RecoveredTyped
<1>3. RecoveredTyped /\ [Next]_vars => RecoveredTyped'
  <2> SUFFICES ASSUME RecoveredTyped, [Next]_vars PROVE RecoveredTyped'
    OBVIOUS
  <2>1. CASE \E z \in Plane : RepairPlane(z)
    BY <1>2, <2>1
  <2>2. CASE Request \/ ReadHelpers \/ repair \/ NextOrder \/ UNCHANGED vars
    BY <2>2 DEF RecoveredTyped, Request, minimum_to_decode, ReadHelpers, repair, NextOrder, vars
  <2> QED
    BY <2>1, <2>2 DEF Next, Step
<1> QED
  BY <1>1, <1>3, PTL DEF Spec

(* The initial state maps to an initial state of ErasureCodec.             *)
LEMMA InitRefines == Init => Codec!Init
<1> SUFFICES ASSUME Init PROVE Codec!Init
  OBVIOUS
<1>1. R \in [Pos -> Plane \cup {Junk}]
  BY DEF Init
<1>2. Stored \in [Pos -> Plane \cup {Junk}] /\ Garbage \in [Pos -> Plane \cup {Junk}]
  BY OrderAssumption DEF Stored, Garbage
<1> QED
  BY <1>1, <1>2 DEF Init, Codec!Init, phaseMap, wantedMap, chunkMap

(* A request maps to a decode of ErasureCodec: the d helpers determine the *)
(* object.                                                                 *)
LEMMA RequestRefines == RInv /\ RInv' /\ Request => Codec!Decode
<1> SUFFICES ASSUME RInv, RInv', Request PROVE Codec!Decode
  OBVIOUS
<1>1. pc \in {"idle", "returned"} /\ pc' = "minimum" /\ R' = [p \in Pos |-> Junk]
  BY DEF Request, minimum_to_decode
<1>2. /\ lost' \in Real /\ DOMAIN minimum' \subseteq Real
      /\ Cardinality(DOMAIN minimum') = D
  BY <1>1 DEF RInv, CallOK
<1>3. DOMAIN minimum' \subseteq Codec!Intact'
  BY <1>2 DEF Codec!Intact, chunkMap
<1>4. chunkMap' \in [Real -> [Pos -> Plane \cup {Junk}]]
  <2>1. Stored \in [Pos -> Plane \cup {Junk}] /\ Garbage \in [Pos -> Plane \cup {Junk}]
    BY OrderAssumption DEF Stored, Garbage
  <2> QED
    BY <1>1, <2>1 DEF chunkMap
<1>5. phaseMap # "busy" /\ phaseMap' = "busy" /\ wantedMap' \in SUBSET Real
  BY <1>1, <1>2 DEF phaseMap, wantedMap
<1>6. DOMAIN minimum' \in {S \in SUBSET Real : Cardinality(S) >= K}
  BY <1>2, ProfileAssumption
<1> QED
  BY <1>3, <1>4, <1>5, <1>6 DEF Codec!Decode, Codec!Begin

(* A step of the repair damages nothing, and the one that returns does so  *)
(* with the lost chunk recovered.                                          *)
LEMMA StepRefines ==
  RInv /\ RInv' /\ RecoveredTyped /\ RecoveredTyped' /\ LostChunkRight' /\ Step
    => Codec!Work \/ Codec!Return
<1> SUFFICES ASSUME RInv, RInv', RecoveredTyped, RecoveredTyped', LostChunkRight', Step
             PROVE  Codec!Work \/ Codec!Return
  OBVIOUS
<1>1. /\ pc \in {"minimum", "read", "repair"}
      /\ pc' \in {"read", "repair", "returned"}
      /\ lost' = lost /\ minimum' = minimum
      /\ pc # "repair" => R' = R /\ pc' # "returned"
      /\ pc' = "returned" => R' = R
  BY DEF RInv, CallOK, Step, ReadHelpers, repair, RepairPlane, NextOrder
<1>2. ASSUME NEW p \in Pos, R[p] = Order[p] PROVE R'[p] = Order[p]
  <2>1. CASE \E z \in Plane : RepairPlane(z)
    BY <1>2, <2>1, PlaneRepaired
  <2>2. CASE ReadHelpers \/ repair \/ NextOrder
    BY <1>2, <2>2 DEF ReadHelpers, repair, NextOrder
  <2> QED
    BY <2>1, <2>2 DEF Step
<1>3. R \in [Pos -> Plane \cup {Junk}] /\ R' \in [Pos -> Plane \cup {Junk}]
  BY DEF RecoveredTyped
<1>4. R = Stored => R' = Stored
  BY <1>2, <1>3 DEF Stored
<1>5. Codec!Intact \subseteq Codec!Intact'
  BY <1>1, <1>4 DEF Codec!Intact, chunkMap
<1>6. lost \in Real /\ DOMAIN minimum \subseteq Real
  BY <1>1 DEF RInv, CallOK
<1>7. CASE pc' # "returned"
  <2>1. phaseMap = "busy" /\ phaseMap' = "busy" /\ wantedMap' = wantedMap
    BY <1>1, <1>7 DEF phaseMap, wantedMap
  <2>2. chunkMap' \in [Real -> [Pos -> Plane \cup {Junk}]]
    <3>1. Stored \in [Pos -> Plane \cup {Junk}] /\ Garbage \in [Pos -> Plane \cup {Junk}]
      BY OrderAssumption DEF Stored, Garbage
    <3> QED
      BY <1>3, <3>1 DEF chunkMap
  <2> QED
    BY <1>5, <2>1, <2>2 DEF Codec!Work
<1>8. CASE pc' = "returned"
  <2>1. R = Stored /\ R' = R
    BY <1>1, <1>3, <1>8 DEF LostChunkRight, Stored
  <2>2. lost \in Codec!Intact /\ chunkMap' = chunkMap
    BY <1>1, <1>6, <2>1 DEF Codec!Intact, chunkMap
  <2>3. phaseMap = "busy" /\ phaseMap' = "returned" /\ wantedMap = {lost} /\ wantedMap' = {lost}
    BY <1>1, <1>8 DEF phaseMap, wantedMap
  <2> QED
    BY <2>2, <2>3 DEF Codec!Return
<1> QED
  BY <1>7, <1>8

(* In those profiles repair implements decode as ErasureCodec states it,   *)
(* step by step: the helpers of a call determine the object, no intact     *)
(* chunk is damaged, and at the return the chunk that was wanted is as     *)
(* encode had left it.                                                     *)
THEOREM RepairImplementsCodec ==
  ASSUME K + M - 1 - D < Q PROVE Spec => Codec!Safety
<1>1. Init => Codec!Init
  BY InitRefines
<1>2. RInv /\ RInv' /\ RecoveredTyped /\ RecoveredTyped' /\ LostChunkRight' /\ [Next]_vars
        => [Codec!Next]_<<phaseMap, wantedMap, chunkMap>>
  <2> SUFFICES ASSUME RInv, RInv', RecoveredTyped, RecoveredTyped', LostChunkRight', [Next]_vars
               PROVE  Codec!Next \/ UNCHANGED <<phaseMap, wantedMap, chunkMap>>
    OBVIOUS
  <2>1. CASE Request
    BY <2>1, RequestRefines DEF Codec!Next
  <2>2. CASE Step
    BY <2>2, StepRefines DEF Codec!Next
  <2>3. CASE UNCHANGED vars
    BY <2>3 DEF vars, phaseMap, wantedMap, chunkMap
  <2> QED
    BY <2>1, <2>2, <2>3 DEF Next
<1> QED
  BY <1>1, <1>2, Invariance, RecoveredType, LostChunkIsRight, PTL DEF Spec, Codec!Safety
=============================================================================
