---------------------------- MODULE ReadOpsProofs ----------------------------
(***************************************************************************)
(* What the operators of ReadOps return, for every code, every set of      *)
(* shards and any number of objects: the loop of handle_sub_read_reply     *)
(* over the objects of a read (Evaluated) is a recursive function, and     *)
(* what it leaves is proved by induction over the objects.                 *)
(***************************************************************************)
EXTENDS ReadOps, FiniteSetTheorems, FunctionTheorems, TLAPS

USE ReadConstantsAssumption

(* A set of natural numbers that has the predecessor of each of its        *)
(* members, and not 0, is empty: down from any c of them they are finitely *)
(* many, so that the predecessors would be all of them, c included.        *)
LEMMA NoDescent ==
  ASSUME NEW C \in SUBSET Nat, \A x \in C : x # 0 /\ x - 1 \in C
  PROVE  C = {}
<1> SUFFICES ASSUME NEW c \in C PROVE FALSE
  OBVIOUS
<1> DEFINE D == {x \in C : x <= c}
<1> DEFINE f == [x \in D |-> x - 1]
<1>1. IsFiniteSet(D)
  BY FS_BoundedSetOfNaturals
<1>2. \A x \in D : x - 1 \in D
  <2> SUFFICES ASSUME NEW x \in D PROVE x - 1 \in C /\ x - 1 <= c
    OBVIOUS
  <2>1. x \in Nat /\ c \in Nat /\ x <= c
    OBVIOUS
  <2> QED
    BY <2>1
<1>2a. f \in [D -> D]
  BY <1>2
<1>3. \A x, y \in D : f[x] = f[y] => x = y
  OBVIOUS
<1>4. f \in Injection(D, D)
  BY <1>2a, <1>3 DEF Injection, IsInjective
<1>5. f \in Surjection(D, D)
  BY <1>1, <1>4, FS_Injection
<1>6. \E y \in D : f[y] = c
  <2>1. c \in D
    OBVIOUS
  <2> HIDE DEF D, f
  <2> QED
    BY <1>5, <2>1 DEF Surjection
<1> QED
  BY <1>6

(* Induction over the natural numbers, for a set of them.                  *)
LEMMA SetInduction ==
  ASSUME NEW T, 0 \in T, \A n \in Nat : n \in T => n + 1 \in T
  PROVE  Nat \subseteq T
<1> DEFINE C == Nat \ T
<1>1. \A x \in C : x # 0 /\ x - 1 \in C
  <2> SUFFICES ASSUME NEW x \in C PROVE x # 0 /\ x - 1 \in C
    OBVIOUS
  <2>1. x # 0 /\ x - 1 \in Nat
    OBVIOUS
  <2>2. x - 1 \in T => x \in T
    BY <2>1
  <2> QED
    BY <2>1, <2>2
<1>2. C = {}
  BY <1>1, NoDescent
<1> QED
  BY <1>2
-----------------------------------------------------------------------------
(* What the loop starts from, and its function up to object m.             *)
LoopStart(rop) == [rop |-> rop, done |-> 0, assert |-> ""]
IsLoop(e, m, rop, holders) ==
  e = [n \in 0 .. m |-> IF n = 0 THEN LoopStart(rop)
                        ELSE Evaluate(e[n - 1], n, holders)]

(* The recursive function of the loop exists up to every bound; tlapm      *)
(* unfolds it from there.                                                  *)
LEMMA LoopExists ==
  ASSUME NEW rop, NEW holders
  PROVE  \A m \in Nat : \E e : IsLoop(e, m, rop, holders)
<1> DEFINE G(e, m) == e = [n \in 0 .. m |->
                             IF n = 0 THEN LoopStart(rop)
                             ELSE Evaluate(e[n - 1], n, holders)]
<1> DEFINE T == {m \in Nat : \E e : G(e, m)}
<1>1. 0 \in T
  <2> DEFINE e0 == [n \in 0 .. 0 |-> LoopStart(rop)]
  <2>1. G(e0, 0)
    <3>1. \A n \in 0 .. 0 : n = 0
      OBVIOUS
    <3> QED
      BY <3>1
  <2> QED
    BY <2>1
<1>2. \A m \in Nat : m \in T => m + 1 \in T
  <2> SUFFICES ASSUME NEW m \in Nat, NEW d, G(d, m) PROVE \E e : G(e, m + 1)
    OBVIOUS
  <2> DEFINE e1 == [n \in 0 .. m + 1 |-> IF n = m + 1
                                         THEN Evaluate(d[m], m + 1, holders) ELSE d[n]]
  <2>1. \A n \in 0 .. m + 1 :
           e1[n] = IF n = 0 THEN LoopStart(rop) ELSE Evaluate(e1[n - 1], n, holders)
    <3> SUFFICES ASSUME NEW n \in 0 .. m + 1
                 PROVE  e1[n] = IF n = 0 THEN LoopStart(rop)
                                ELSE Evaluate(e1[n - 1], n, holders)
      OBVIOUS
    <3>1. CASE n = m + 1
      <4>1. n # 0 /\ n - 1 = m /\ m \in 0 .. m + 1 /\ m # m + 1
        BY <3>1
      <4>2. e1[n - 1] = d[m]
        BY <4>1
      <4> QED
        BY <3>1, <4>1, <4>2
    <3>2. CASE n # m + 1
      <4>1. n \in 0 .. m
        BY <3>2
      <4>2. e1[n] = d[n]
        BY <3>2
      <4>3. d[n] = IF n = 0 THEN LoopStart(rop) ELSE Evaluate(d[n - 1], n, holders)
        BY <4>1
      <4>4. CASE n = 0
        BY <4>2, <4>3, <4>4
      <4>5. CASE n # 0
        <5>1. n - 1 \in 0 .. m + 1 /\ n - 1 # m + 1
          BY <4>1, <4>5
        <5>2. e1[n - 1] = d[n - 1]
          BY <5>1
        <5> QED
          BY <4>2, <4>3, <4>5, <5>2
      <4> QED
        BY <4>4, <4>5
    <3> QED
      BY <3>1, <3>2
  <2>2. G(e1, m + 1)
    <3>1. e1 = [n \in 0 .. m + 1 |-> e1[n]]
      OBVIOUS
    <3> HIDE DEF e1
    <3> QED
      BY <2>1, <3>1
  <2> QED
    BY <2>2
<1> HIDE DEF T
<1>3. Nat \subseteq T
  BY <1>1, <1>2, SetInduction
<1> QED
  <2> SUFFICES ASSUME NEW m \in Nat PROVE \E e : IsLoop(e, m, rop, holders)
    OBVIOUS
  <2>1. \E e : G(e, m)
    BY <1>3 DEF T
  <2> QED
    BY <2>1, Zenon DEF IsLoop

(* The loop of Evaluated, when there is one.                               *)
LEMMA EvaluatedIsLoop ==
  ASSUME NEW rop, NEW holders, rop.do_redundant_reads \/ rop.in_progress = {}
  PROVE  \E e : /\ e[0] = LoopStart(rop)
                /\ \A n \in 1 .. NObjects : e[n] = Evaluate(e[n - 1], n, holders)
                /\ Evaluated(rop, holders) = e[NObjects]
<1> DEFINE G(e) == e = [n \in 0 .. NObjects |->
                             IF n = 0 THEN LoopStart(rop)
                             ELSE Evaluate(e[n - 1], n, holders)]
<1>1. \E e : G(e)
  <2>1. \E e : IsLoop(e, NObjects, rop, holders)
    BY LoopExists
  <2>2. PICK e : IsLoop(e, NObjects, rop, holders)
    BY <2>1
  <2>3. G(e)
    BY <2>2, Zenon DEF IsLoop
  <2> HIDE DEF G
  <2> QED
    BY <2>3
<1> DEFINE e == CHOOSE e : G(e)
<1>2. G(e)
  BY <1>1
<1>3. Evaluated(rop, holders) = e[NObjects]
  BY DEF Evaluated, LoopStart
<1> HIDE DEF e
<1> QED
  BY <1>2, <1>3
-----------------------------------------------------------------------------
(* Counting shards.                                                        *)

(* A set of natural numbers that is not empty has a least member.          *)
LEMMA LeastMember ==
  ASSUME NEW S \in SUBSET Nat, S # {}
  PROVE  \E m \in S : \A x \in S : m <= x
<1> SUFFICES ASSUME \A m \in S : \E x \in S : ~(m <= x) PROVE FALSE
  OBVIOUS
<1> DEFINE T == {n \in Nat : \A x \in S : n <= x}
<1>1. 0 \in T
  OBVIOUS
<1>2. \A n \in Nat : n \in T => n + 1 \in T
  <2> SUFFICES ASSUME NEW n \in Nat, n \in T, NEW x \in S PROVE n + 1 <= x
    OBVIOUS
  <2>1. n \notin S
    OBVIOUS
  <2>2. n <= x /\ n # x /\ x \in Nat
    BY <2>1
  <2> QED
    BY <2>2
<1> HIDE DEF T
<1>3. Nat \subseteq T
  BY <1>1, <1>2, SetInduction
<1>4. PICK x \in S : TRUE
  OBVIOUS
<1>5. x + 1 \in T
  BY <1>3
<1>6. x + 1 <= x
  BY <1>5 DEF T
<1> QED
  BY <1>6

(* A bigger set, a bigger number.                                          *)
LEMMA CountMonotone ==
  ASSUME NEW S, NEW T, S \subseteq T, IsFiniteSet(T)
  PROVE  /\ IsFiniteSet(S) /\ Cardinality(S) \in Nat /\ Cardinality(T) \in Nat
         /\ Cardinality(S) <= Cardinality(T)
<1>1. IsFiniteSet(S) /\ Cardinality(S) <= Cardinality(T)
  BY FS_Subset
<1>2. Cardinality(S) \in Nat /\ Cardinality(T) \in Nat
  BY <1>1, FS_CardinalityType
<1> QED
  BY <1>1, <1>2

(* Lowest(n, S) has n members if S has as many.                            *)
LEMMA LowestCount ==
  ASSUME NEW n \in Nat, NEW S \in SUBSET Nat, IsFiniteSet(S), Cardinality(S) >= n
  PROVE  Cardinality(Lowest(n, S)) >= n
<1> DEFINE L == Lowest(n, S)
<1>1. L \subseteq S /\ IsFiniteSet(L)
  BY FS_Subset DEF Lowest
<1>2. CASE L = S
  BY <1>2
<1>3. CASE L # S
  <2>1. S \ L # {} /\ S \ L \in SUBSET Nat
    BY <1>1, <1>3
  <2>2. PICK s \in S \ L : \A x \in S \ L : s <= x
    BY <2>1, LeastMember
  <2> DEFINE B == {u \in S : u < s}
  <2>3. ~(Cardinality(B) < n)
    BY DEF Lowest
  <2>4. \A u \in B : u \in L
    <3> SUFFICES ASSUME NEW u \in B, u \notin L PROVE FALSE
      OBVIOUS
    <3>1. u \in S /\ u < s /\ u \in Nat /\ s \in Nat
      OBVIOUS
    <3>2. s <= u
      BY <2>2, <3>1
    <3> QED
      BY <3>1, <3>2
  <2> HIDE DEF B, L
  <2>5. Cardinality(B) \in Nat /\ Cardinality(L) \in Nat /\ Cardinality(B) <= Cardinality(L)
    BY <1>1, <2>4, CountMonotone
  <2>6. Cardinality(L) >= n
    BY <2>3, <2>5
  <2> QED
    BY <2>6 DEF L
<1> QED
  BY <1>2, <1>3

(* The shards of a code are finitely many.                                 *)
LEMMA ShardsFinite ==
  ASSUME NEW S \in SUBSET (0 .. K + M - 1)
  PROVE  IsFiniteSet(S) /\ Cardinality(S) \in Nat
<1>1. K \in Int /\ K + M - 1 \in Int
  OBVIOUS
<1>2. IsFiniteSet(0 .. K + M - 1)
  BY <1>1, FS_Interval
<1> QED
  BY <1>2, CountMonotone

(* Acting shards are as many as their shard numbers.                       *)
LEMMA ActingCount ==
  ASSUME NEW S \in SUBSET Acting
  PROVE  /\ ShardOf(S) \subseteq 0 .. K + M - 1
         /\ IsFiniteSet(S) /\ Cardinality(S) = Cardinality(ShardOf(S))
         /\ Cardinality(S) \in Nat
<1> DEFINE f == [p \in S |-> p[2]]
<1>1. ShardOf(S) \subseteq 0 .. K + M - 1
  BY DEF ShardOf
<1>2. f \in [S -> ShardOf(S)]
  BY DEF ShardOf
<1>3. f \in Injection(S, ShardOf(S))
  BY <1>2 DEF Injection, IsInjective
<1>4. f \in Surjection(S, ShardOf(S))
  BY <1>2 DEF Surjection, ShardOf
<1>5. IsFiniteSet(ShardOf(S)) /\ Cardinality(ShardOf(S)) \in Nat
  BY <1>1, ShardsFinite
<1> HIDE DEF f
<1>6. IsFiniteSet(S) /\ Cardinality(S) = Cardinality(ShardOf(S))
  BY <1>3, <1>4, <1>5, FS_Injection
<1> QED
  BY <1>1, <1>5, <1>6
-----------------------------------------------------------------------------
(* What is enough for the data of an object.                               *)
DataShards == 0 .. K - 1

(* There are K data shards.                                                *)
LEMMA DataCount == /\ IsFiniteSet(DataShards) /\ Cardinality(DataShards) = K
                   /\ DataShards # {}
<1>1. 0 \in Int /\ K - 1 \in Int /\ ~(0 > K - 1) /\ (K - 1) - 0 + 1 = K
  OBVIOUS
<1>2. IsFiniteSet(0 .. K - 1) /\ Cardinality(0 .. K - 1) = (K - 1) - 0 + 1
  BY <1>1, FS_Interval
<1>3. 0 \in DataShards
  BY DEF DataShards
<1> QED
  BY <1>1, <1>2, <1>3 DEF DataShards

(* The data can be decoded from any K shards and from no fewer, and what   *)
(* minimum_to_decode asks for is among what there is and enough.           *)
LEMMA MinimumToDecode ==
  ASSUME NEW have \in SUBSET (0 .. K + M - 1)
  PROVE  /\ Cardinality(have) \in Nat
         /\ minimum_to_decode(DataShards, have) # {} <=> Cardinality(have) >= K
         /\ minimum_to_decode(DataShards, have) # {} =>
              /\ minimum_to_decode(DataShards, have) \subseteq have
              /\ Cardinality(minimum_to_decode(DataShards, have)) >= K
<1> DEFINE min == minimum_to_decode(DataShards, have)
<1>1. IsFiniteSet(have) /\ Cardinality(have) \in Nat
  BY ShardsFinite
<1>2. IsFiniteSet(DataShards) /\ Cardinality(DataShards) = K /\ DataShards # {}
  BY DataCount
<1>3. have # {} \/ Cardinality(have) = 0
  BY FS_EmptySet
<1>4. K \in Nat /\ K > 0 /\ M \in Nat /\ M > 0
  OBVIOUS
<1>5. CASE repairs(DataShards, have)
  <2>1. min = have
    BY <1>5 DEF minimum_to_decode
  <2>2. Cardinality(have) >= K + M - 1
    BY <1>5 DEF repairs
  <2>3. Cardinality(have) >= K /\ have # {}
    BY <1>1, <1>3, <1>4, <2>2
  <2> QED
    BY <1>1, <2>1, <2>3
<1>6. CASE ~repairs(DataShards, have) /\ DataShards \subseteq have
  <2>1. min = DataShards
    BY <1>6 DEF minimum_to_decode
  <2>2. Cardinality(have) >= K
    BY <1>1, <1>2, <1>6, CountMonotone
  <2> QED
    BY <1>1, <1>2, <1>4, <1>6, <2>1, <2>2
<1>7. CASE /\ ~repairs(DataShards, have) /\ ~(DataShards \subseteq have)
           /\ Cardinality(have) >= K
  <2>1. min = Lowest(K, have)
    BY <1>7 DEF minimum_to_decode
  <2>2. min \subseteq have
    BY <2>1 DEF Lowest
  <2>3. Cardinality(min) >= K
    BY <1>1, <1>4, <1>7, <2>1, LowestCount
  <2>4. min # {}
    <3> SUFFICES ASSUME min = {} PROVE FALSE
      OBVIOUS
    <3>1. Cardinality(min) = 0
      BY FS_EmptySet
    <3> QED
      BY <1>4, <2>3, <3>1
  <2> QED
    BY <1>1, <1>7, <2>2, <2>3, <2>4
<1>8. CASE /\ ~repairs(DataShards, have) /\ ~(DataShards \subseteq have)
           /\ ~(Cardinality(have) >= K)
  <2>1. min = {}
    BY <1>8 DEF minimum_to_decode
  <2> QED
    BY <1>1, <1>8, <2>1
<1> QED
  BY <1>5, <1>6, <1>7, <1>8

(* Of acting holders there is one for each shard: those without error can  *)
(* all be read from.                                                       *)
LEMMA AvailableShards ==
  ASSUME NEW H \in SUBSET Acting, NEW E
  PROVE  get_all_avail_shards(H, E, FALSE) = H \ E
<1> DEFINE good == {p \in H \ E : FALSE \/ p \in Acting}
<1>1. good = H \ E
  OBVIOUS
<1>2. \A p, q \in good : q[2] = p[2] => q = p
  OBVIOUS
<1>3. \A p \in good : ~Before(p, p)
  <2> SUFFICES ASSUME NEW p \in good PROVE ~(p[1] < p[1])
    BY DEF Before
  <2>1. p[1] \in Nat
    OBVIOUS
  <2> QED
    BY <2>1
<1>4. {p \in good : \A q \in good : q[2] = p[2] => ~Before(q, p)} = good
  <2> HIDE DEF good
  <2>1. ASSUME NEW p \in good, NEW q \in good, q[2] = p[2] PROVE ~Before(q, p)
    <3>1. q = p
      BY <1>2, <2>1
    <3> QED
      BY <1>3, <3>1
  <2> QED
    BY <2>1
<1>5. get_all_avail_shards(H, E, FALSE) =
        {p \in good : \A q \in good : q[2] = p[2] => ~Before(q, p)}
  BY DEF get_all_avail_shards
<1> QED
  BY <1>1, <1>4, <1>5
-----------------------------------------------------------------------------
(* The objects of a read, the shards they are asked of now, and the shards *)
(* an object was ever asked of.                                            *)
Objs(rop) == DOMAIN rop.to_read
Needed(rop) == UNION {rop.to_read[o].need : o \in Objs(rop)}
Asked(rop, o) == {q \in PgShard : <<o, q>> \in rop.obj_to_source}

(* The type of a read: what is to be read has its result.                  *)
Typed(rop) ==
  /\ rop \in ReadOp
  /\ Objs(rop) \subseteq Object
  /\ DOMAIN rop.complete = Objs(rop)
  /\ Objs(rop) \subseteq DOMAIN rop.want_to_read

(* And what is needed was asked for.                                       *)
Shape(rop) ==
  /\ Typed(rop)
  /\ \A o \in Objs(rop) : rop.to_read[o].need \subseteq Asked(rop, o)

(* Who was asked for an object is known as a source of it, so that its     *)
(* loss cancels the object.                                                *)
Linked(rop) ==
  \A o \in Objs(rop) : \A q \in Asked(rop, o) : <<q, o>> \in rop.source_to_obj

(* The fields of a read have their types.                                  *)
LEMMA TypedFields ==
  ASSUME NEW rop, Typed(rop)
  PROVE  /\ rop.to_read \in [Objs(rop) -> ReadRequest]
         /\ rop.complete \in [Objs(rop) -> Result]
         /\ Objs(rop) \in SUBSET Object
         /\ \A o \in Objs(rop) :
              /\ o \in Object
              /\ rop.to_read[o] \in ReadRequest
              /\ rop.to_read[o].need \in SUBSET PgShard
              /\ rop.complete[o] \in Result
              /\ rop.want_to_read[o] \in SUBSET (0 .. K + M - 1)
         /\ rop.do_redundant_reads \in BOOLEAN
         /\ rop.for_recovery \in BOOLEAN
         /\ rop.in_progress \in SUBSET PgShard
         /\ rop.source_to_obj \in SUBSET (PgShard \X Object)
         /\ rop.obj_to_source \in SUBSET (Object \X PgShard)
<1>1. rop \in ReadOp
  BY DEF Typed
<1>2. PICK S \in SUBSET Object : rop.to_read \in [S -> ReadRequest]
  BY <1>1 DEF ReadOp
<1>3. PICK U \in SUBSET Object : rop.complete \in [U -> Result]
  BY <1>1 DEF ReadOp
<1>4. PICK W \in SUBSET Object : rop.want_to_read \in [W -> SUBSET (0 .. K + M - 1)]
  BY <1>1 DEF ReadOp
<1>5. S = Objs(rop) /\ U = Objs(rop) /\ Objs(rop) \subseteq W
  BY <1>2, <1>3, <1>4 DEF Typed, Objs
<1>6. /\ rop.do_redundant_reads \in BOOLEAN
      /\ rop.for_recovery \in BOOLEAN
      /\ rop.in_progress \in SUBSET PgShard
      /\ rop.source_to_obj \in SUBSET (PgShard \X Object)
      /\ rop.obj_to_source \in SUBSET (Object \X PgShard)
  BY <1>1 DEF ReadOp
<1>7. \A r \in ReadRequest : r.need \in SUBSET PgShard
  BY DEF ReadRequest
<1> QED
  BY <1>2, <1>3, <1>4, <1>5, <1>6, <1>7

(* A read is the record of its fields.                                     *)
LEMMA ReadOpRecord ==
  ASSUME NEW rop \in ReadOp
  PROVE  /\ rop = [want_to_read |-> rop.want_to_read, to_read |-> rop.to_read,
                   complete |-> rop.complete,
                   do_redundant_reads |-> rop.do_redundant_reads,
                   for_recovery |-> rop.for_recovery,
                   in_progress |-> rop.in_progress,
                   source_to_obj |-> rop.source_to_obj,
                   obj_to_source |-> rop.obj_to_source]
         /\ DOMAIN rop = {"want_to_read", "to_read", "complete",
                          "do_redundant_reads", "for_recovery", "in_progress",
                          "source_to_obj", "obj_to_source"}
BY DEF ReadOp

(* What changes with what do_read_op changes, and with its other fields.   *)
Asking(rop, i, s, b) ==
  [rop EXCEPT !.in_progress = i, !.source_to_obj = s, !.obj_to_source = b]

(* A read that asks other shards: its type and its fields.                 *)
LEMMA AskingTyped ==
  ASSUME NEW rop, Typed(rop), NEW i \in SUBSET PgShard,
         NEW s \in SUBSET (PgShard \X Object), NEW b \in SUBSET (Object \X PgShard)
  PROVE  LET S == Asking(rop, i, s, b)
         IN  /\ Typed(S)
             /\ S.want_to_read = rop.want_to_read /\ S.to_read = rop.to_read
             /\ S.complete = rop.complete
             /\ S.do_redundant_reads = rop.do_redundant_reads
             /\ S.for_recovery = rop.for_recovery
             /\ S.in_progress = i /\ S.source_to_obj = s /\ S.obj_to_source = b
<1> DEFINE S == Asking(rop, i, s, b)
<1>1. rop \in ReadOp
  BY DEF Typed
<1>2. S \in ReadOp
  BY <1>1 DEF ReadOp, Asking
<1>3. /\ S.want_to_read = rop.want_to_read /\ S.to_read = rop.to_read
      /\ S.complete = rop.complete
      /\ S.do_redundant_reads = rop.do_redundant_reads
      /\ S.for_recovery = rop.for_recovery
      /\ S.in_progress = i /\ S.source_to_obj = s /\ S.obj_to_source = b
  BY <1>1, ReadOpRecord DEF Asking
<1> HIDE DEF S
<1>4. Typed(S)
  BY <1>2, <1>3 DEF Typed, Objs
<1> QED
  BY <1>3, <1>4 DEF S

(* A read with other requests.                                             *)
LEMMA RequestTyped ==
  ASSUME NEW rop, Typed(rop), NEW t \in [Objs(rop) -> ReadRequest]
  PROVE  LET S == [rop EXCEPT !.to_read = t]
         IN  /\ Typed(S) /\ Objs(S) = Objs(rop)
             /\ S.want_to_read = rop.want_to_read /\ S.to_read = t
             /\ S.complete = rop.complete
             /\ S.do_redundant_reads = rop.do_redundant_reads
             /\ S.for_recovery = rop.for_recovery
             /\ S.in_progress = rop.in_progress
             /\ S.source_to_obj = rop.source_to_obj
             /\ S.obj_to_source = rop.obj_to_source
<1> DEFINE S == [rop EXCEPT !.to_read = t]
<1>1. rop \in ReadOp /\ Objs(rop) \in SUBSET Object
  BY DEF Typed
<1>2. t \in UNION {[X -> ReadRequest] : X \in SUBSET Object}
  BY <1>1
<1>3. S \in ReadOp
  BY <1>1, <1>2 DEF ReadOp
<1>4. /\ S.want_to_read = rop.want_to_read /\ S.to_read = t
      /\ S.complete = rop.complete
      /\ S.do_redundant_reads = rop.do_redundant_reads
      /\ S.for_recovery = rop.for_recovery
      /\ S.in_progress = rop.in_progress
      /\ S.source_to_obj = rop.source_to_obj
      /\ S.obj_to_source = rop.obj_to_source
  BY <1>1, ReadOpRecord
<1> HIDE DEF S
<1>5. Objs(S) = Objs(rop)
  BY <1>4 DEF Objs
<1>6. Typed(S)
  BY <1>3, <1>4, <1>5 DEF Typed
<1> QED
  BY <1>4, <1>5, <1>6 DEF S

(* A read with other results.                                              *)
LEMMA CompleteTyped ==
  ASSUME NEW rop, Typed(rop), NEW c \in [Objs(rop) -> Result]
  PROVE  LET S == [rop EXCEPT !.complete = c]
         IN  /\ Typed(S) /\ Objs(S) = Objs(rop)
             /\ S.want_to_read = rop.want_to_read /\ S.to_read = rop.to_read
             /\ S.complete = c
             /\ S.do_redundant_reads = rop.do_redundant_reads
             /\ S.for_recovery = rop.for_recovery
             /\ S.in_progress = rop.in_progress
             /\ S.source_to_obj = rop.source_to_obj
             /\ S.obj_to_source = rop.obj_to_source
<1> DEFINE S == [rop EXCEPT !.complete = c]
<1>1. rop \in ReadOp /\ Objs(rop) \in SUBSET Object
  BY DEF Typed
<1>2. c \in UNION {[X -> Result] : X \in SUBSET Object}
  BY <1>1
<1>3. S \in ReadOp
  BY <1>1, <1>2 DEF ReadOp
<1>4. /\ S.want_to_read = rop.want_to_read /\ S.to_read = rop.to_read
      /\ S.complete = c
      /\ S.do_redundant_reads = rop.do_redundant_reads
      /\ S.for_recovery = rop.for_recovery
      /\ S.in_progress = rop.in_progress
      /\ S.source_to_obj = rop.source_to_obj
      /\ S.obj_to_source = rop.obj_to_source
  BY <1>1, ReadOpRecord
<1> HIDE DEF S
<1>5. Objs(S) = Objs(rop)
  BY <1>4 DEF Objs
<1>6. Typed(S)
  BY <1>3, <1>4, <1>5 DEF Typed
<1> QED
  BY <1>4, <1>5, <1>6 DEF S

(* do_read_op asks every object of what it needs.                          *)
LEMMA DoReadOp ==
  ASSUME NEW rop, Typed(rop)
  PROVE  LET S == do_read_op(rop)
         IN  /\ Shape(S) /\ Objs(S) = Objs(rop)
             /\ S.want_to_read = rop.want_to_read /\ S.to_read = rop.to_read
             /\ S.complete = rop.complete
             /\ S.do_redundant_reads = rop.do_redundant_reads
             /\ S.for_recovery = rop.for_recovery
             /\ S.in_progress = rop.in_progress \cup Needed(S)
             /\ \A o \in Objs(rop) :
                  Asked(S, o) = Asked(rop, o) \cup S.to_read[o].need
             /\ Linked(rop) => Linked(S)
<1> DEFINE S == do_read_op(rop)
<1> DEFINE D == Objs(rop)
<1> DEFINE i == rop.in_progress \cup UNION {rop.to_read[o].need : o \in D}
<1> DEFINE s == rop.source_to_obj \cup UNION {rop.to_read[o].need \X {o} : o \in D}
<1> DEFINE b == rop.obj_to_source \cup UNION {{o} \X rop.to_read[o].need : o \in D}
<1>1. \A o \in D : rop.to_read[o].need \in SUBSET PgShard /\ o \in Object
  BY TypedFields
<1>2. /\ rop.in_progress \in SUBSET PgShard
      /\ rop.source_to_obj \in SUBSET (PgShard \X Object)
      /\ rop.obj_to_source \in SUBSET (Object \X PgShard)
  BY TypedFields
<1> HIDE DEF D
<1>3. i \in SUBSET PgShard
  BY <1>1, <1>2
<1>4. s \in SUBSET (PgShard \X Object)
  BY <1>1, <1>2
<1>5. b \in SUBSET (Object \X PgShard)
  BY <1>1, <1>2
<1>6. \A o \in D : \A q \in PgShard :
         <<o, q>> \in b <=> <<o, q>> \in rop.obj_to_source \/ q \in rop.to_read[o].need
  OBVIOUS
<1>6a. /\ rop.source_to_obj \subseteq s
       /\ \A o \in D : \A q \in rop.to_read[o].need : <<q, o>> \in s
  OBVIOUS
<1>7. S = [rop EXCEPT !.in_progress = i, !.source_to_obj = s, !.obj_to_source = b]
  <2>1. DOMAIN rop.to_read = D
    BY DEF D, Objs
  <2> QED
    BY <2>1, Zenon DEF do_read_op
<1>8. \A o \in D : Asked(rop, o) = {q \in PgShard : <<o, q>> \in rop.obj_to_source}
  BY DEF Asked
<1> HIDE DEF i, s, b, S
<1>9. /\ Typed(S)
      /\ S.want_to_read = rop.want_to_read /\ S.to_read = rop.to_read
      /\ S.complete = rop.complete
      /\ S.do_redundant_reads = rop.do_redundant_reads
      /\ S.for_recovery = rop.for_recovery
      /\ S.in_progress = i /\ S.source_to_obj = s /\ S.obj_to_source = b
  <2>1. S = Asking(rop, i, s, b)
    BY <1>7 DEF Asking
  <2> QED
    BY <1>3, <1>4, <1>5, <2>1, AskingTyped
<1>10. Objs(S) = D
  BY <1>9 DEF D, Objs
<1>11. Needed(S) = UNION {rop.to_read[o].need : o \in D}
  BY <1>9, <1>10 DEF Needed
<1>12. \A o \in D : Asked(S, o) = Asked(rop, o) \cup S.to_read[o].need
  <2> SUFFICES ASSUME NEW o \in D PROVE Asked(S, o) = Asked(rop, o) \cup S.to_read[o].need
    OBVIOUS
  <2>1. Asked(S, o) = {q \in PgShard : <<o, q>> \in b}
    BY <1>9 DEF Asked
  <2> QED
    BY <1>1, <1>6, <1>8, <1>9, <2>1
<1>13. Shape(S)
  BY <1>9, <1>10, <1>12 DEF Shape
<1>14. S.in_progress = rop.in_progress \cup Needed(S)
  BY <1>9, <1>11 DEF i
<1>15. Linked(rop) => Linked(S)
  <2> SUFFICES ASSUME Linked(rop), NEW o \in D, NEW q \in Asked(S, o)
               PROVE  <<q, o>> \in s
    BY <1>9, <1>10 DEF Linked
  <2>1. q \in Asked(rop, o) => <<q, o>> \in rop.source_to_obj
    BY DEF Linked, D
  <2> QED
    BY <1>6a, <1>9, <1>12, <2>1
<1> QED
  BY <1>9, <1>10, <1>12, <1>13, <1>14, <1>15 DEF S, D

(* send_all_remaining_reads changes what one object needs and asks for     *)
(* everything again.                                                       *)
LEMMA SendAllRemaining ==
  ASSUME NEW rop, Shape(rop), NEW o \in Objs(rop), NEW H \in SUBSET PgShard
  PROVE  LET S == send_all_remaining_reads(rop, o, H)
             R == get_remaining_shards(rop, o, H)
         IN  /\ Shape(S) /\ Objs(S) = Objs(rop)
             /\ S.want_to_read = rop.want_to_read /\ S.complete = rop.complete
             /\ S.do_redundant_reads = rop.do_redundant_reads
             /\ S.for_recovery = rop.for_recovery
             /\ R \in SUBSET H /\ S.to_read[o].need = R /\ S.to_read[o].sub = FALSE
             /\ \A x \in Objs(rop) \ {o} : S.to_read[x] = rop.to_read[x]
             /\ S.in_progress = rop.in_progress \cup Needed(S)
             /\ \A x \in Objs(rop) :
                  Asked(S, x) = Asked(rop, x) \cup S.to_read[x].need
             /\ Linked(rop) => Linked(S)
<1> DEFINE S == send_all_remaining_reads(rop, o, H)
<1> DEFINE R == get_remaining_shards(rop, o, H)
<1> DEFINE req == [need |-> R, sub |-> FALSE,
                   want_attrs |-> rop.to_read[o].want_attrs
                                    /\ ~rop.complete[o].attrs]
<1> DEFINE t == [rop.to_read EXCEPT ![o] = req]
<1> DEFINE base == [rop EXCEPT !.to_read = t]
<1>1. R \in SUBSET H
  BY DEF get_remaining_shards, get_all_avail_shards
<1>2. req \in ReadRequest
  <2>1. (rop.to_read[o].want_attrs /\ ~rop.complete[o].attrs) \in BOOLEAN
    OBVIOUS
  <2> HIDE DEF R
  <2> QED
    BY <1>1, <2>1 DEF ReadRequest
<1>3. Typed(rop) /\ rop.to_read \in [Objs(rop) -> ReadRequest]
  BY TypedFields DEF Shape
<1>4. t \in [Objs(rop) -> ReadRequest]
  <2> HIDE DEF req
  <2> QED
    BY <1>2, <1>3
<1>5. /\ t[o].need = R /\ t[o].sub = FALSE
      /\ \A x \in Objs(rop) \ {o} : t[x] = rop.to_read[x]
  <2> HIDE DEF R
  <2> QED
    BY <1>3
<1>6. S = do_read_op(base)
  BY DEF send_all_remaining_reads
<1> HIDE DEF t, req, R, S
<1>7. /\ Typed(base) /\ Objs(base) = Objs(rop)
      /\ base.want_to_read = rop.want_to_read /\ base.to_read = t
      /\ base.complete = rop.complete
      /\ base.do_redundant_reads = rop.do_redundant_reads
      /\ base.for_recovery = rop.for_recovery
      /\ base.in_progress = rop.in_progress
      /\ base.obj_to_source = rop.obj_to_source
      /\ base.source_to_obj = rop.source_to_obj
  BY <1>3, <1>4, RequestTyped
<1> HIDE DEF base
<1>8. /\ Shape(S) /\ Objs(S) = Objs(base)
      /\ S.want_to_read = base.want_to_read /\ S.to_read = base.to_read
      /\ S.complete = base.complete
      /\ S.do_redundant_reads = base.do_redundant_reads
      /\ S.for_recovery = base.for_recovery
      /\ S.in_progress = base.in_progress \cup Needed(S)
      /\ \A x \in Objs(base) :
           Asked(S, x) = Asked(base, x) \cup S.to_read[x].need
      /\ Linked(base) => Linked(S)
  BY <1>6, <1>7, DoReadOp
<1>9. \A x : Asked(base, x) = Asked(rop, x)
  BY <1>7 DEF Asked
<1>10. Linked(rop) => Linked(base)
  BY <1>7, <1>9 DEF Linked
<1> QED
  BY <1>1, <1>5, <1>7, <1>8, <1>9, <1>10 DEF R, S
-----------------------------------------------------------------------------
(* What the loop of handle_sub_read_reply leaves alone, up to object n.    *)
SameBuffers(a, c) == /\ a.full = c.full /\ a.part = c.part
                     /\ a.attrs = c.attrs /\ a.returned = c.returned
SameAsks(rop, new) ==
  /\ new.in_progress = rop.in_progress /\ new.to_read = rop.to_read
  /\ \A o \in Objs(rop) : Asked(new, o) = Asked(rop, o)
NewAsks(rop, new) ==
  /\ rop.in_progress = {} /\ new.in_progress = Needed(new)
  /\ \A o \in Objs(rop) : Asked(new, o) = Asked(rop, o) \cup new.to_read[o].need

KeptRop(rop, n, new, holders) ==
  /\ Shape(new) /\ Objs(new) = Objs(rop)
  /\ new.want_to_read = rop.want_to_read
  /\ new.do_redundant_reads = rop.do_redundant_reads
  /\ new.for_recovery = rop.for_recovery
  /\ \A o \in Objs(rop) : SameBuffers(rop.complete[o], new.complete[o])
  /\ \A o \in Objs(rop) : o > n => new.complete[o] = rop.complete[o]
  /\ \A o \in Objs(rop) : new.to_read[o].need \subseteq rop.to_read[o].need \cup holders[o]
  /\ SameAsks(rop, new) \/ NewAsks(rop, new)
Kept(rop, n, e, holders) ==
  /\ e = [rop |-> e.rop, done |-> e.done, assert |-> e.assert]
  /\ e.done \in Nat
  /\ KeptRop(rop, n, e.rop, holders)

(* A read with another result, and the result of an object that is given   *)
(* up.                                                                     *)
WithResult(rop, o, res) ==
  [rop EXCEPT !.complete = [rop.complete EXCEPT ![o] = res]]
GivenUpResult(res) == [res EXCEPT !.r = "error"]

(* What is done about errors leaves the buffers alone.                     *)
LEMMA JudgedKeeps ==
  ASSUME NEW res \in Result
  PROVE  /\ Judged(res) \in Result /\ SameBuffers(res, Judged(res))
         /\ GivenUpResult(res) \in Result
         /\ SameBuffers(res, GivenUpResult(res))
<1>1. GivenUpResult(res) \in Result
      /\ SameBuffers(res, GivenUpResult(res))
  BY DEF Result, SameBuffers, GivenUpResult
<1>2. [res EXCEPT !.errors = {}] \in Result
      /\ SameBuffers(res, [res EXCEPT !.errors = {}])
  BY DEF Result, SameBuffers
<1>3. SameBuffers(res, res)
  BY DEF SameBuffers
<1> QED
  BY <1>1, <1>2, <1>3 DEF Judged, GivenUpResult

(* A turn that enters a result for object n + 1.                           *)
LEMMA ResultTurn ==
  ASSUME NEW rop, NEW holders \in [Object -> SUBSET PgShard], NEW n \in Nat,
         NEW new, KeptRop(rop, n, new, holders), n + 1 \in Objs(rop),
         NEW res \in Result, SameBuffers(new.complete[n + 1], res)
  PROVE  KeptRop(rop, n + 1, WithResult(new, n + 1, res), holders)
<1> DEFINE c == [new.complete EXCEPT ![n + 1] = res]
<1> DEFINE S == [new EXCEPT !.complete = c]
<1>0. Shape(new) /\ Typed(new) /\ Objs(new) = Objs(rop)
  BY DEF KeptRop, Shape
<1>1. new.complete \in [Objs(new) -> Result]
  BY <1>0, TypedFields
<1>2. c \in [Objs(new) -> Result]
  BY <1>1
<1>3. c[n + 1] = res /\ \A o \in Objs(rop) \ {n + 1} : c[o] = new.complete[o]
  BY <1>0, <1>1
<1> HIDE DEF c
<1>4. /\ Typed(S) /\ Objs(S) = Objs(new)
      /\ S.want_to_read = new.want_to_read /\ S.to_read = new.to_read
      /\ S.complete = c
      /\ S.do_redundant_reads = new.do_redundant_reads
      /\ S.for_recovery = new.for_recovery
      /\ S.in_progress = new.in_progress
      /\ S.source_to_obj = new.source_to_obj
      /\ S.obj_to_source = new.obj_to_source
  BY <1>0, <1>2, CompleteTyped
<1> HIDE DEF S
<1>5. \A o : Asked(S, o) = Asked(new, o)
  BY <1>4 DEF Asked
<1>6. Shape(S)
  BY <1>0, <1>4, <1>5 DEF Shape
<1>7. \A o \in Objs(rop) : SameBuffers(rop.complete[o], S.complete[o])
  <2>1. \A o \in Objs(rop) : SameBuffers(rop.complete[o], new.complete[o])
    BY DEF KeptRop
  <2>2. SameBuffers(rop.complete[n + 1], res)
    BY <2>1 DEF SameBuffers
  <2> QED
    BY <1>3, <1>4, <2>1, <2>2
<1>8. \A o \in Objs(rop) : o > n + 1 => S.complete[o] = rop.complete[o]
  <2> SUFFICES ASSUME NEW o \in Objs(rop), o > n + 1 PROVE c[o] = rop.complete[o]
    BY <1>4
  <2>1. o \in Nat
    BY <1>0 DEF Typed, Object
  <2>2. o > n /\ o # n + 1
    BY <2>1
  <2> QED
    BY <1>3, <2>2 DEF KeptRop
<1>9. Needed(S) = Needed(new)
  BY <1>4 DEF Needed
<1>10. SameAsks(rop, S) \/ NewAsks(rop, S)
  <2>1. SameAsks(rop, new) \/ NewAsks(rop, new)
    BY DEF KeptRop
  <2>2. CASE SameAsks(rop, new)
    BY <1>4, <1>5, <2>2 DEF SameAsks
  <2>3. CASE NewAsks(rop, new)
    BY <1>4, <1>5, <1>9, <2>3 DEF NewAsks
  <2> QED
    BY <2>1, <2>2, <2>3
<1>11. KeptRop(rop, n + 1, S, holders)
  BY <1>0, <1>4, <1>6, <1>7, <1>8, <1>10 DEF KeptRop
<1> QED
  BY <1>11 DEF S, c, WithResult

(* A turn that leaves the read alone.                                      *)
LEMMA IdleTurn ==
  ASSUME NEW rop, NEW holders, NEW n \in Nat, NEW new, KeptRop(rop, n, new, holders)
  PROVE  KeptRop(rop, n + 1, new, holders)
<1>1. \A o \in Objs(rop) : o > n + 1 => new.complete[o] = rop.complete[o]
  <2> SUFFICES ASSUME NEW o \in Objs(rop), o > n + 1
               PROVE  new.complete[o] = rop.complete[o]
    OBVIOUS
  <2>1. o \in Nat
    BY DEF KeptRop, Shape, Typed, Object
  <2>2. o > n
    BY <2>1
  <2> QED
    BY <2>2 DEF KeptRop
<1> QED
  BY <1>1 DEF KeptRop

(* A turn that asks for what object n + 1 still needs.                     *)
LEMMA SendTurn ==
  ASSUME NEW rop, NEW holders \in [Object -> SUBSET PgShard], NEW n \in Nat,
         NEW new, KeptRop(rop, n, new, holders), n + 1 \in Objs(rop),
         new.in_progress = {}
  PROVE  KeptRop(rop, n + 1, send_all_remaining_reads(new, n + 1, holders[n + 1]), holders)
<1> SUFFICES ASSUME NEW o, o = n + 1, NEW H, H = holders[n + 1]
             PROVE  KeptRop(rop, n + 1, send_all_remaining_reads(new, o, H), holders)
  OBVIOUS
<1> DEFINE S == send_all_remaining_reads(new, o, H)
<1> DEFINE R == get_remaining_shards(new, o, H)
<1>0. Shape(new) /\ Objs(new) = Objs(rop) /\ o \in Object /\ o \in Objs(new)
  BY DEF KeptRop, Shape, Typed
<1>1. H \in SUBSET PgShard
  BY <1>0
<1>2. /\ Shape(S) /\ Objs(S) = Objs(new)
      /\ S.want_to_read = new.want_to_read /\ S.complete = new.complete
      /\ S.do_redundant_reads = new.do_redundant_reads
      /\ S.for_recovery = new.for_recovery
      /\ R \in SUBSET H /\ S.to_read[o].need = R /\ S.to_read[o].sub = FALSE
      /\ \A x \in Objs(new) \ {o} : S.to_read[x] = new.to_read[x]
      /\ S.in_progress = new.in_progress \cup Needed(S)
      /\ \A x \in Objs(new) :
           Asked(S, x) = Asked(new, x) \cup S.to_read[x].need
      /\ Linked(new) => Linked(S)
  BY ONLY <1>0, <1>1, SendAllRemaining
<1> HIDE DEF S, R
<1>3. KeptRop(rop, n + 1, new, holders)
  BY IdleTurn
<1>4. \A x \in Objs(rop) : S.to_read[x].need \subseteq rop.to_read[x].need \cup holders[x]
  BY <1>0, <1>2 DEF KeptRop
<1>5. NewAsks(rop, S)
  <2>1. CASE SameAsks(rop, new)
    BY <1>0, <1>2, <2>1 DEF NewAsks, SameAsks
  <2>2. CASE NewAsks(rop, new)
    <3>1. \A x \in Objs(rop) : new.to_read[x].need = {}
      BY <1>0, <2>2 DEF NewAsks, Needed
    <3>2. \A x \in Objs(rop) : Asked(new, x) = Asked(rop, x)
      BY <2>2, <3>1 DEF NewAsks
    <3> QED
      BY <1>0, <1>2, <2>2, <3>2 DEF NewAsks
  <2> QED
    BY <2>1, <2>2 DEF KeptRop
<1>6. KeptRop(rop, n + 1, S, holders)
  BY <1>0, <1>2, <1>3, <1>4, <1>5 DEF KeptRop
<1> QED
  BY <1>6 DEF S
(* What a turn of the loop may come to, o the object and holders its       *)
(* holders: nothing, an assertion, a judged result, a new request, the     *)
(* error that gives the object up.                                         *)
TurnIdle(e, o) ==
  /\ \/ o \notin DOMAIN e.rop.complete
     \/ e.assert # ""
     \/ ~Enough(e.rop, o) /\ e.rop.in_progress # {}
TurnJudges(e, o) ==
  /\ o \in DOMAIN e.rop.complete /\ Enough(e.rop, o)
TurnSends(e, o, H) ==
  /\ o \in DOMAIN e.rop.complete /\ ~Enough(e.rop, o) /\ e.rop.in_progress = {}
  /\ ~e.rop.do_redundant_reads /\ RemainingMinimum(e.rop, o, H) # {}
TurnGivesUp(e, o, H) ==
  /\ o \in DOMAIN e.rop.complete /\ ~Enough(e.rop, o) /\ e.rop.in_progress = {}
  /\ e.rop.do_redundant_reads \/ RemainingMinimum(e.rop, o, H) = {}
TurnAsserts(e, o, H, x) ==
  /\ o \in DOMAIN e.rop.complete
  /\ \/ x = "returned.front()" /\ ~e.rop.complete[o].returned
     \/ x = "complete.r == 0" /\ Enough(e.rop, o) /\ e.rop.complete[o].r # "ok"
     \/ x = "!need_attrs" /\ TurnSends(e, o, H) /\ NobodyToAsk(e.rop, o, H)
LoopAsserts == {"returned.front()", "complete.r == 0", "!need_attrs"}

(* One turn of the loop does nothing, asserts, judges the object, sends for*)
(* the rest of it or gives it up.                                          *)
LEMMA EvaluateCases ==
  ASSUME NEW e, NEW o, NEW holders
  PROVE  LET new == Evaluate(e, o, holders)
         IN  \/ TurnIdle(e, o) /\ new = e
             \/ \E x \in LoopAsserts : /\ TurnAsserts(e, o, holders[o], x)
                                       /\ new = [e EXCEPT !.assert = x]
             \/ /\ TurnJudges(e, o) /\ e.rop.complete[o].r = "ok"
                /\ new = [e EXCEPT !.rop = WithResult(e.rop, o, Judged(e.rop.complete[o])),
                                   !.done = @ + 1]
             \/ /\ TurnSends(e, o, holders[o])
                /\ new = [e EXCEPT !.rop = send_all_remaining_reads(e.rop, o, holders[o])]
             \/ /\ TurnGivesUp(e, o, holders[o])
                /\ new = [e EXCEPT !.rop = WithResult(e.rop, o, GivenUpResult(e.rop.complete[o])),
                                   !.done = @ + 1]
<1>1. CASE o \notin DOMAIN e.rop.complete \/ e.assert # ""
  BY <1>1 DEF Evaluate, TurnIdle
<1>2. CASE /\ o \in DOMAIN e.rop.complete /\ e.assert = ""
           /\ ~e.rop.complete[o].returned
  <2>1. Evaluate(e, o, holders) = [e EXCEPT !.assert = "returned.front()"]
    BY <1>2 DEF Evaluate
  <2>2. TurnAsserts(e, o, holders[o], "returned.front()")
    BY <1>2, Zenon DEF TurnAsserts
  <2>3. "returned.front()" \in LoopAsserts
    BY DEF LoopAsserts
  <2> QED
    BY <2>1, <2>2, <2>3, Zenon
<1>3. CASE /\ o \in DOMAIN e.rop.complete /\ e.assert = ""
           /\ e.rop.complete[o].returned
           /\ Enough(e.rop, o) /\ e.rop.complete[o].r # "ok"
  <2>1. Evaluate(e, o, holders) = [e EXCEPT !.assert = "complete.r == 0"]
    BY <1>3 DEF Evaluate
  <2>2. TurnAsserts(e, o, holders[o], "complete.r == 0")
    BY <1>3, Zenon DEF TurnAsserts
  <2>3. "complete.r == 0" \in LoopAsserts
    BY DEF LoopAsserts
  <2> QED
    BY <2>1, <2>2, <2>3, Zenon
<1>4. CASE /\ o \in DOMAIN e.rop.complete /\ e.assert = ""
           /\ e.rop.complete[o].returned
           /\ Enough(e.rop, o) /\ e.rop.complete[o].r = "ok"
  BY <1>4 DEF Evaluate, TurnJudges, WithResult
<1>5. CASE /\ o \in DOMAIN e.rop.complete /\ e.assert = ""
           /\ e.rop.complete[o].returned
           /\ ~Enough(e.rop, o) /\ e.rop.in_progress # {}
  BY <1>5 DEF Evaluate, TurnIdle
<1>6. CASE /\ o \in DOMAIN e.rop.complete /\ e.assert = ""
           /\ e.rop.complete[o].returned
           /\ ~Enough(e.rop, o) /\ e.rop.in_progress = {}
           /\ ~e.rop.do_redundant_reads /\ RemainingMinimum(e.rop, o, holders[o]) # {}
  <2>1. TurnSends(e, o, holders[o])
    BY <1>6, Zenon DEF TurnSends
  <2>2. CASE NobodyToAsk(e.rop, o, holders[o])
    <3>1. Evaluate(e, o, holders) = [e EXCEPT !.assert = "!need_attrs"]
      BY <1>6, <2>2, Zenon DEF Evaluate
    <3>2. TurnAsserts(e, o, holders[o], "!need_attrs")
      BY <1>6, <2>1, <2>2, Zenon DEF TurnAsserts
    <3>3. "!need_attrs" \in LoopAsserts
      BY DEF LoopAsserts
    <3> QED
      BY <3>1, <3>2, <3>3, Zenon
  <2>3. CASE ~NobodyToAsk(e.rop, o, holders[o])
    <3>1. Evaluate(e, o, holders) =
            [e EXCEPT !.rop = send_all_remaining_reads(e.rop, o, holders[o])]
      BY <1>6, <2>3, Zenon DEF Evaluate
    <3> QED
      BY <2>1, <3>1
  <2> QED
    BY <2>2, <2>3
<1>7. CASE /\ o \in DOMAIN e.rop.complete /\ e.assert = ""
           /\ e.rop.complete[o].returned
           /\ ~Enough(e.rop, o) /\ e.rop.in_progress = {}
           /\ e.rop.do_redundant_reads \/ RemainingMinimum(e.rop, o, holders[o]) = {}
  <2>1. Evaluate(e, o, holders) = [e EXCEPT !.rop.complete[o].r = "error", !.done = @ + 1]
    BY <1>7, Zenon DEF Evaluate
  <2>2. Evaluate(e, o, holders) =
          [e EXCEPT !.rop = WithResult(e.rop, o, GivenUpResult(e.rop.complete[o])),
                    !.done = @ + 1]
    BY <2>1 DEF WithResult, GivenUpResult
  <2>3. TurnGivesUp(e, o, holders[o])
    BY <1>7, Zenon DEF TurnGivesUp
  <2> QED
    BY <2>2, <2>3
<1> QED
  BY <1>1, <1>2, <1>3, <1>4, <1>5, <1>6, <1>7
(* A turn keeps what the loop has to keep: buffers, what was asked, objects*)
(* not yet seen.                                                           *)
LEMMA EvaluateKeeps ==
  ASSUME NEW rop, NEW holders \in [Object -> SUBSET PgShard], NEW n \in Nat,
         NEW e, Kept(rop, n, e, holders)
  PROVE  Kept(rop, n + 1, Evaluate(e, n + 1, holders), holders)
<1> SUFFICES ASSUME NEW o, o = n + 1
             PROVE  Kept(rop, n + 1, Evaluate(e, o, holders), holders)
  OBVIOUS
<1> DEFINE new == Evaluate(e, o, holders)
<1>1. /\ e = [rop |-> e.rop, done |-> e.done, assert |-> e.assert]
      /\ e.done \in Nat /\ e.done + 1 \in Nat /\ KeptRop(rop, n, e.rop, holders)
  BY DEF Kept
<1>2. Objs(e.rop) = Objs(rop) /\ DOMAIN e.rop.complete = Objs(rop)
      /\ Typed(e.rop)
  BY <1>1 DEF KeptRop, Shape, Typed
<1>3. \A x \in Objs(rop) : e.rop.complete[x] \in Result
  BY <1>2, TypedFields
<1>4. KeptRop(rop, n + 1, e.rop, holders)
  BY <1>1, IdleTurn
<1>5. ASSUME NEW r, KeptRop(rop, n + 1, r, holders), NEW d \in Nat, NEW x,
             new = [rop |-> r, done |-> d, assert |-> x]
      PROVE  Kept(rop, n + 1, new, holders)
  <2> HIDE DEF new
  <2>1. new.rop = r /\ new.done = d /\ new.assert = x
    BY <1>5
  <2> QED
    BY <1>5, <2>1 DEF Kept
<1>6. CASE TurnIdle(e, o) /\ new = e
  BY <1>1, <1>4, <1>5, <1>6
<1>7. CASE \E x \in LoopAsserts : /\ TurnAsserts(e, o, holders[o], x)
                                  /\ new = [e EXCEPT !.assert = x]
  <2>1. PICK x : new = [e EXCEPT !.assert = x]
    BY <1>7
  <2> HIDE DEF new
  <2>2. new = [rop |-> e.rop, done |-> e.done, assert |-> x]
    BY <1>1, <2>1
  <2> QED
    BY <1>1, <1>4, <1>5, <2>2 DEF new
<1>8. ASSUME NEW res \in Result, o \in DOMAIN e.rop.complete,
             SameBuffers(e.rop.complete[o], res),
             new = [e EXCEPT !.rop = WithResult(e.rop, o, res), !.done = @ + 1]
      PROVE  Kept(rop, n + 1, new, holders)
  <2>1. n + 1 \in Objs(rop) /\ SameBuffers(e.rop.complete[n + 1], res)
    BY <1>2, <1>8
  <2>2. KeptRop(rop, n + 1, WithResult(e.rop, n + 1, res), holders)
    BY <1>1, <2>1, ResultTurn
  <2> HIDE DEF new
  <2>3. new = [rop |-> WithResult(e.rop, o, res), done |-> e.done + 1,
               assert |-> e.assert]
    BY <1>1, <1>8
  <2> QED
    BY <1>1, <1>5, <2>2, <2>3 DEF new
<1>9. CASE /\ TurnJudges(e, o) /\ e.rop.complete[o].r = "ok"
           /\ new = [e EXCEPT !.rop = WithResult(e.rop, o, Judged(e.rop.complete[o])),
                              !.done = @ + 1]
  <2>1. o \in DOMAIN e.rop.complete
    BY <1>9 DEF TurnJudges
  <2>2. Judged(e.rop.complete[o]) \in Result
        /\ SameBuffers(e.rop.complete[o], Judged(e.rop.complete[o]))
    BY <1>2, <1>3, <2>1, JudgedKeeps
  <2> QED
    BY <1>8, <1>9, <2>1, <2>2
<1>10. CASE /\ TurnSends(e, o, holders[o])
            /\ new = [e EXCEPT !.rop = send_all_remaining_reads(e.rop, o, holders[o])]
  <2>1. n + 1 \in Objs(rop) /\ e.rop.in_progress = {}
    BY <1>2, <1>10 DEF TurnSends
  <2>2. KeptRop(rop, n + 1, send_all_remaining_reads(e.rop, n + 1, holders[n + 1]), holders)
    BY <1>1, <2>1, SendTurn
  <2> HIDE DEF new
  <2>3. new = [rop |-> send_all_remaining_reads(e.rop, o, holders[o]),
               done |-> e.done, assert |-> e.assert]
    BY <1>1, <1>10
  <2> QED
    BY <1>1, <1>5, <2>2, <2>3 DEF new
<1>11. CASE /\ TurnGivesUp(e, o, holders[o])
            /\ new = [e EXCEPT !.rop = WithResult(e.rop, o, GivenUpResult(e.rop.complete[o])),
                               !.done = @ + 1]
  <2>1. o \in DOMAIN e.rop.complete
    BY <1>11 DEF TurnGivesUp
  <2>2. GivenUpResult(e.rop.complete[o]) \in Result
        /\ SameBuffers(e.rop.complete[o], GivenUpResult(e.rop.complete[o]))
    BY <1>2, <1>3, <2>1, JudgedKeeps
  <2> QED
    BY <1>8, <1>11, <2>1, <2>2
<1> QED
  BY <1>6, <1>7, <1>9, <1>10, <1>11, EvaluateCases

(* The loop leaves the read one of the same objects, with the same buffers *)
(* and its requests either as they were or all sent again.                 *)
LEMMA EvaluatedKeeps ==
  ASSUME NEW rop, Shape(rop), NEW holders \in [Object -> SUBSET PgShard]
  PROVE  Kept(rop, NObjects, Evaluated(rop, holders), holders)
<1> DEFINE start == LoopStart(rop)
<1>1. Kept(rop, 0, start, holders)
  <2>1. /\ start = [rop |-> rop, done |-> 0, assert |-> ""]
        /\ start.rop = rop /\ start.done = 0 /\ start.assert = ""
    BY DEF LoopStart
  <2>2. KeptRop(rop, 0, rop, holders)
    BY DEF KeptRop, SameAsks, SameBuffers
  <2> HIDE DEF start
  <2> QED
    BY <2>1, <2>2 DEF Kept
<1>2. CASE ~(rop.do_redundant_reads \/ rop.in_progress = {})
  <2>1. Evaluated(rop, holders) = start
    BY <1>2, Zenon DEF Evaluated, LoopStart
  <2>2. \A n : KeptRop(rop, n, rop, holders)
    BY DEF KeptRop, SameAsks, SameBuffers
  <2>3. Kept(rop, NObjects, start, holders)
    <3>1. start.rop = rop
      BY DEF LoopStart
    <3> HIDE DEF start
    <3> QED
      BY <1>1, <2>2, <3>1 DEF Kept
  <2> QED
    BY <2>1, <2>3
<1>3. CASE rop.do_redundant_reads \/ rop.in_progress = {}
  <2>1. PICK e : /\ e[0] = LoopStart(rop)
                 /\ \A n \in 1 .. NObjects : e[n] = Evaluate(e[n - 1], n, holders)
                 /\ Evaluated(rop, holders) = e[NObjects]
    BY <1>3, EvaluatedIsLoop
  <2> DEFINE T == {n \in Nat : n <= NObjects => Kept(rop, n, e[n], holders)}
  <2>2. 0 \in T
    BY <1>1, <2>1
  <2>3. \A n \in Nat : n \in T => n + 1 \in T
    <3> SUFFICES ASSUME NEW n \in Nat, n \in T, n + 1 <= NObjects
                 PROVE  Kept(rop, n + 1, e[n + 1], holders)
      OBVIOUS
    <3>1. n <= NObjects /\ n + 1 \in 1 .. NObjects /\ (n + 1) - 1 = n
      OBVIOUS
    <3>2. Kept(rop, n, e[n], holders)
      BY <3>1
    <3>3. e[n + 1] = Evaluate(e[n], n + 1, holders)
      BY <2>1, <3>1
    <3>4. Kept(rop, n + 1, Evaluate(e[n], n + 1, holders), holders)
      BY <3>2, EvaluateKeeps
    <3> QED
      BY <3>3, <3>4
  <2> HIDE DEF T
  <2>4. NObjects \in T
    BY <2>2, <2>3, SetInduction
  <2>5. Kept(rop, NObjects, e[NObjects], holders)
    BY <2>4 DEF T
  <2> QED
    BY <2>1, <2>5
<1> QED
  BY <1>2, <1>3
-----------------------------------------------------------------------------
(* Reads of data, from acting shards: what the loop concludes is right.    *)
Buffers(res) == res.full \cup res.part
HeardAll(rop, o) ==
  Asked(rop, o) \subseteq Buffers(rop.complete[o]) \cup rop.complete[o].errors

DataRead(rop) ==
  /\ Shape(rop) /\ rop.for_recovery = FALSE
  /\ \A o \in Objs(rop) :
       /\ rop.want_to_read[o] = DataShards
       /\ rop.complete[o].returned
       /\ Asked(rop, o) \subseteq Acting

(* An object that is given up cannot be read from what came, its shards    *)
(* were all heard, and without those that gave errors they are too few.    *)
GivenUp(rop, o, H) ==
  rop.complete[o].r # "ok" =>
    /\ ~Enough(rop, o) /\ HeardAll(rop, o)
    /\ Cardinality(H \ rop.complete[o].errors) < K

(* What is answered for an object that is done.                            *)
Processed(rop, o, H) ==
  IF rop.complete[o].r = "ok"
  THEN Enough(rop, o) /\ rop.complete[o].errors = {}
  ELSE Cardinality(H \ rop.complete[o].errors) < K

(* A data read has enough of an object when K shards have sent theirs.     *)
LEMMA EnoughIsK ==
  ASSUME NEW rop, DataRead(rop), NEW o \in Objs(rop)
  PROVE  /\ Have(rop.complete[o]) \subseteq 0 .. K + M - 1
         /\ IsFiniteSet(Have(rop.complete[o]))
         /\ Cardinality(Have(rop.complete[o])) \in Nat
         /\ Enough(rop, o) <=> Cardinality(Have(rop.complete[o])) >= K
<1>1. rop.complete[o] \in Result
  BY TypedFields DEF DataRead, Shape
<1>2. Have(rop.complete[o]) \subseteq 0 .. K + M - 1
  BY <1>1 DEF Result, Have, ShardOf
<1>3. IsFiniteSet(Have(rop.complete[o])) /\ Cardinality(Have(rop.complete[o])) \in Nat
  BY <1>2, ShardsFinite
<1>4. rop.want_to_read[o] = DataShards
  BY DEF DataRead
<1>5. Enough(rop, o) <=> minimum_to_decode(DataShards, Have(rop.complete[o])) # {}
  BY <1>4 DEF Enough
<1> QED
  BY <1>2, <1>3, <1>5, MinimumToDecode

(* More can be asked for when K shards without an error have the object.   *)
LEMMA RemainingIsK ==
  ASSUME NEW rop, DataRead(rop), NEW o \in Objs(rop), NEW H \in SUBSET Acting
  PROVE  LET min == RemainingMinimum(rop, o, H)
             good == H \ rop.complete[o].errors
         IN  /\ Cardinality(good) \in Nat
             /\ min # {} <=> Cardinality(good) >= K
             /\ min # {} => min \subseteq ShardOf(good) /\ Cardinality(min) >= K
<1> DEFINE good == H \ rop.complete[o].errors
<1>1. good \in SUBSET Acting
  OBVIOUS
<1>2. get_all_avail_shards(H, rop.complete[o].errors, FALSE) = good
  BY AvailableShards
<1>3. rop.for_recovery = FALSE /\ rop.want_to_read[o] = DataShards
  BY DEF DataRead
<1> HIDE DEF good
<1>4. RemainingMinimum(rop, o, H) = minimum_to_decode(DataShards, ShardOf(good))
  BY <1>2, <1>3 DEF RemainingMinimum
<1>5. /\ ShardOf(good) \subseteq 0 .. K + M - 1
      /\ Cardinality(good) = Cardinality(ShardOf(good))
      /\ Cardinality(good) \in Nat
  BY <1>1, ActingCount
<1>6. /\ minimum_to_decode(DataShards, ShardOf(good)) # {}
           <=> Cardinality(ShardOf(good)) >= K
      /\ minimum_to_decode(DataShards, ShardOf(good)) # {} =>
           /\ minimum_to_decode(DataShards, ShardOf(good)) \subseteq ShardOf(good)
           /\ Cardinality(minimum_to_decode(DataShards, ShardOf(good))) >= K
  BY <1>5, MinimumToDecode
<1> QED
  BY <1>4, <1>5, <1>6 DEF good

(* When all that was asked has been heard, and it is not enough, there is  *)
(* somebody left to ask or there are too few holders without error.        *)
LEMMA SomebodyLeft ==
  ASSUME NEW rop, DataRead(rop), NEW o \in Objs(rop), NEW H \in SUBSET Acting,
         HeardAll(rop, o), ~Enough(rop, o), RemainingMinimum(rop, o, H) # {}
  PROVE  get_remaining_shards(rop, o, H) # {}
<1> SUFFICES ASSUME get_remaining_shards(rop, o, H) = {} PROVE FALSE
  OBVIOUS
<1> DEFINE min == RemainingMinimum(rop, o, H)
<1> DEFINE good == H \ rop.complete[o].errors
<1> DEFINE have == Have(rop.complete[o])
<1>1. min \subseteq ShardOf(good) /\ Cardinality(min) >= K
  BY RemainingIsK
<1>2. get_all_avail_shards(H, rop.complete[o].errors, rop.for_recovery) = good
  BY AvailableShards DEF DataRead
<1>3. get_remaining_shards(rop, o, H) =
        {p \in good : p[2] \in min \ already_read(rop, o)}
  BY <1>2 DEF get_remaining_shards
<1>4. Asked(rop, o) \subseteq Acting
  BY DEF DataRead
<1>5. min \subseteq have
  <2> SUFFICES ASSUME NEW s \in min PROVE s \in have
    OBVIOUS
  <2>1. PICK p \in good : p[2] = s
    BY <1>1 DEF ShardOf
  <2>2. s \in already_read(rop, o)
    BY <1>3, <2>1
  <2>3. PICK q \in Asked(rop, o) : q[2] = s
    BY <2>2 DEF already_read, Asked
  <2>4. q = p
    BY <1>4, <2>1, <2>3
  <2>5. q \in Buffers(rop.complete[o])
    BY <2>1, <2>4 DEF HeardAll
  <2> QED
    BY <2>3, <2>5 DEF Buffers, Have, ShardOf
<1>6. IsFiniteSet(have) /\ Cardinality(have) \in Nat /\ ~(Cardinality(have) >= K)
  BY EnoughIsK
<1> HIDE DEF min, have
<1>7. Cardinality(min) \in Nat /\ Cardinality(min) <= Cardinality(have)
  BY <1>5, <1>6, CountMonotone
<1> QED
  BY <1>1, <1>6, <1>7
(* What holds of a read that can be looked at, and what the loop keeps of  *)
(* it up to object n.                                                      *)
Sound(rop, holders) ==
  /\ DataRead(rop) /\ holders \in [Object -> SUBSET Acting]
  /\ \A o \in Objs(rop) :
       /\ GivenUp(rop, o, holders[o])
       /\ rop.do_redundant_reads => holders[o] \subseteq Asked(rop, o)
       /\ rop.in_progress = {} => Enough(rop, o) \/ HeardAll(rop, o)

(* The errors of an object are as they were, or ignored as there is enough.*)
ErrorsLeft(rop, new, o) ==
  \/ new.complete[o].errors = rop.complete[o].errors
  \/ Enough(new, o) /\ new.complete[o].errors = {}

Seen(rop, n) == {o \in Objs(rop) : o <= n}
SoundLoop(rop, n, e, holders) ==
  /\ Kept(rop, n, e, holders) /\ e.assert = ""
  /\ \A o \in Objs(rop) : GivenUp(e.rop, o, holders[o])
  /\ \A o \in Objs(rop) : ErrorsLeft(rop, e.rop, o)
  /\ e.rop.in_progress = {} => SameAsks(rop, e.rop)
  /\ e.rop.in_progress = {} => \A o \in Seen(rop, n) : Processed(e.rop, o, holders[o])
  /\ e.done <= Cardinality(Seen(rop, n))
  /\ e.done = Cardinality(Seen(rop, n)) =>
       \A o \in Seen(rop, n) : Processed(e.rop, o, holders[o])

(* Each turn sees one more object, if the read has it.                     *)
LEMMA SeenCount ==
  ASSUME NEW rop, Shape(rop), NEW n \in Nat
  PROVE  /\ Cardinality(Seen(rop, n)) \in Nat
         /\ Seen(rop, n + 1) = Seen(rop, n) \cup ({n + 1} \cap Objs(rop))
         /\ n + 1 \in Objs(rop) =>
              Cardinality(Seen(rop, n + 1)) = Cardinality(Seen(rop, n)) + 1
         /\ Seen(rop, NObjects) = Objs(rop)
<1>1. Objs(rop) \subseteq Object /\ Object \subseteq Nat
  BY DEF Shape, Typed, Object
<1>2. IsFiniteSet(Seen(rop, n))
  BY <1>1, FS_BoundedSetOfNaturals DEF Seen
<1>3. Seen(rop, n + 1) = Seen(rop, n) \cup ({n + 1} \cap Objs(rop))
  <2>1. \A o \in Objs(rop) : o <= n + 1 <=> o <= n \/ o = n + 1
    <3> SUFFICES ASSUME NEW o \in Objs(rop)
                 PROVE  o <= n + 1 <=> o <= n \/ o = n + 1
      OBVIOUS
    <3>1. o \in Nat
      BY <1>1
    <3> QED
      BY <3>1
  <2> QED
    BY <2>1 DEF Seen
<1>4. n + 1 \notin Seen(rop, n)
  BY DEF Seen
<1>5. ASSUME n + 1 \in Objs(rop)
      PROVE  Cardinality(Seen(rop, n + 1)) = Cardinality(Seen(rop, n)) + 1
  <2>1. Seen(rop, n + 1) = Seen(rop, n) \cup {n + 1}
    BY <1>3, <1>5
  <2> QED
    BY <1>2, <1>4, <2>1, FS_AddElement
<1>6. Seen(rop, NObjects) = Objs(rop)
  BY <1>1 DEF Seen, Object
<1>7. Cardinality(Seen(rop, n)) \in Nat
  BY <1>2, FS_CardinalityType
<1> QED
  BY <1>3, <1>5, <1>6, <1>7

(* The loop has not touched what it keeps of a read of data.               *)
LEMMA KeptDataRead ==
  ASSUME NEW rop, NEW holders, NEW n, NEW new, DataRead(rop),
         holders \in [Object -> SUBSET Acting], KeptRop(rop, n, new, holders)
  PROVE  DataRead(new)
<1>1. /\ Shape(new) /\ Objs(new) = Objs(rop)
      /\ new.want_to_read = rop.want_to_read
      /\ new.for_recovery = rop.for_recovery
      /\ \A o \in Objs(rop) : SameBuffers(rop.complete[o], new.complete[o])
      /\ \A o \in Objs(rop) : new.to_read[o].need \subseteq rop.to_read[o].need \cup holders[o]
      /\ SameAsks(rop, new) \/ NewAsks(rop, new)
  BY DEF KeptRop
<1>2. \A o \in Objs(rop) : Asked(rop, o) \subseteq Acting /\ o \in Object
                           /\ rop.to_read[o].need \subseteq Asked(rop, o)
  BY DEF DataRead, Shape, Typed
<1>3. \A o \in Objs(rop) : Asked(new, o) \subseteq Acting
  <2> SUFFICES ASSUME NEW o \in Objs(rop) PROVE Asked(new, o) \subseteq Acting
    OBVIOUS
  <2>1. holders[o] \subseteq Acting
    BY <1>2
  <2>2. new.to_read[o].need \subseteq Acting
    BY <1>1, <1>2, <2>1
  <2>3. Asked(new, o) = Asked(rop, o) \/ Asked(new, o) = Asked(rop, o) \cup new.to_read[o].need
    BY <1>1 DEF SameAsks, NewAsks
  <2> QED
    BY <1>2, <2>2, <2>3
<1>4. \A o \in Objs(rop) : new.complete[o].returned
  BY <1>1 DEF DataRead, SameBuffers
<1> QED
  BY <1>1, <1>3, <1>4 DEF DataRead

(* Enough, or heard, depends on the buffers of the object, its errors and  *)
(* what it was asked of.                                                   *)
LEMMA SameEnough ==
  ASSUME NEW rop, NEW new, NEW o, new.want_to_read = rop.want_to_read,
         SameBuffers(rop.complete[o], new.complete[o])
  PROVE  /\ Enough(new, o) <=> Enough(rop, o)
         /\ Buffers(new.complete[o]) = Buffers(rop.complete[o])
         /\ Have(new.complete[o]) = Have(rop.complete[o])
BY DEF SameBuffers, Enough, Buffers, Have

(* A result that is entered for o changes nothing of another object.       *)
LEMMA WithResultFields ==
  ASSUME NEW rop, Typed(rop), NEW o \in Objs(rop), NEW res \in Result
  PROVE  LET new == WithResult(rop, o, res)
         IN  /\ new.complete[o] = res
             /\ \A x \in Objs(rop) \ {o} : new.complete[x] = rop.complete[x]
             /\ new.want_to_read = rop.want_to_read
             /\ new.in_progress = rop.in_progress
             /\ new.to_read = rop.to_read
             /\ \A x : Asked(new, x) = Asked(rop, x)
             /\ new.source_to_obj = rop.source_to_obj
<1> DEFINE new == WithResult(rop, o, res)
<1>1. rop \in ReadOp /\ rop.complete \in [Objs(rop) -> Result]
  BY TypedFields DEF Typed
<1> DEFINE c == [rop.complete EXCEPT ![o] = res]
<1>2. c[o] = res /\ \A x \in Objs(rop) \ {o} : c[x] = rop.complete[x]
  BY <1>1
<1>3. new = [rop EXCEPT !.complete = c]
  BY DEF WithResult
<1> HIDE DEF c, new
<1>4. /\ new.complete = c /\ new.want_to_read = rop.want_to_read
      /\ new.in_progress = rop.in_progress /\ new.to_read = rop.to_read
      /\ new.obj_to_source = rop.obj_to_source
      /\ new.source_to_obj = rop.source_to_obj
  BY <1>1, <1>3, ReadOpRecord
<1> QED
  BY <1>2, <1>4 DEF Asked, new
(* A turn that enters a result: the object is done, the others are as they *)
(* were.                                                                   *)
LEMMA SoundResultTurn ==
  ASSUME NEW rop, NEW holders, NEW n \in Nat, NEW e, NEW o, o = n + 1,
         Sound(rop, holders), SoundLoop(rop, n, e, holders), o \in Objs(rop),
         NEW res \in Result, SameBuffers(e.rop.complete[o], res),
         NEW new, new = [e EXCEPT !.rop = WithResult(e.rop, o, res), !.done = @ + 1],
         Kept(rop, n + 1, new, holders),
         res.r = "ok" => Enough(e.rop, o) /\ res.errors = {},
         res.r # "ok" => /\ ~Enough(e.rop, o)
                         /\ res.errors = e.rop.complete[o].errors
                         /\ Asked(e.rop, o) \subseteq Buffers(res) \cup res.errors
                         /\ Cardinality(holders[o] \ res.errors) < K
  PROVE  SoundLoop(rop, n + 1, new, holders)
<1> DEFINE S == WithResult(e.rop, o, res)
<1>1. /\ Kept(rop, n, e, holders) /\ KeptRop(rop, n, e.rop, holders)
      /\ e = [rop |-> e.rop, done |-> e.done, assert |-> e.assert]
      /\ e.assert = "" /\ e.done \in Nat
  BY DEF SoundLoop, Kept
<1>2. Typed(e.rop) /\ Objs(e.rop) = Objs(rop)
  BY <1>1 DEF KeptRop, Shape
<1>3. new = [rop |-> S, done |-> e.done + 1, assert |-> ""]
  <2> HIDE DEF S
  <2>1. new = [e EXCEPT !.rop = S, !.done = @ + 1]
    BY DEF S
  <2> QED
    BY <1>1, <2>1
<1>4. /\ S.complete[o] = res
      /\ \A x \in Objs(rop) \ {o} : S.complete[x] = e.rop.complete[x]
      /\ S.want_to_read = e.rop.want_to_read
      /\ S.in_progress = e.rop.in_progress
      /\ S.to_read = e.rop.to_read
      /\ \A x : Asked(S, x) = Asked(e.rop, x)
  BY <1>2, WithResultFields
<1> HIDE DEF S
<1>5. new.rop = S /\ new.done = e.done + 1 /\ new.assert = ""
  BY ONLY <1>3
<1>6. \A x \in Objs(rop) : Enough(S, x) <=> Enough(e.rop, x)
  <2> SUFFICES ASSUME NEW x \in Objs(rop) PROVE Enough(S, x) <=> Enough(e.rop, x)
    OBVIOUS
  <2>1. SameBuffers(e.rop.complete[x], S.complete[x])
    BY <1>4 DEF SameBuffers
  <2> QED
    BY <1>4, <2>1, SameEnough
<1>7. GivenUp(S, o, holders[o]) /\ Processed(S, o, holders[o])
  BY <1>4, <1>6 DEF GivenUp, Processed, HeardAll
<1>8. \A x \in Objs(rop) \ {o} :
         /\ GivenUp(e.rop, x, holders[x]) => GivenUp(S, x, holders[x])
         /\ Processed(e.rop, x, holders[x]) => Processed(S, x, holders[x])
  BY <1>4, <1>6 DEF GivenUp, Processed, HeardAll
<1>9. \A x \in Objs(rop) : GivenUp(S, x, holders[x])
  BY <1>7, <1>8 DEF SoundLoop
<1>9a. \A x \in Objs(rop) : ErrorsLeft(rop, S, x)
  <2>1. \A x \in Objs(rop) : ErrorsLeft(rop, e.rop, x)
    BY DEF SoundLoop
  <2>2. ErrorsLeft(rop, S, o)
    BY <1>4, <1>6, <2>1 DEF ErrorsLeft
  <2>3. \A x \in Objs(rop) \ {o} : ErrorsLeft(rop, S, x)
    BY <1>4, <1>6, <2>1 DEF ErrorsLeft
  <2> QED
    BY <2>2, <2>3
<1>10. Shape(rop)
  BY DEF Sound, DataRead
<1>11. /\ Cardinality(Seen(rop, n)) \in Nat
       /\ Seen(rop, n + 1) = Seen(rop, n) \cup ({n + 1} \cap Objs(rop))
       /\ Cardinality(Seen(rop, n + 1)) = Cardinality(Seen(rop, n)) + 1
  BY <1>10, SeenCount
<1>12. ASSUME \A x \in Seen(rop, n) : Processed(e.rop, x, holders[x])
       PROVE  \A x \in Seen(rop, n + 1) : Processed(S, x, holders[x])
  <2> SUFFICES ASSUME NEW x \in Seen(rop, n + 1) PROVE Processed(S, x, holders[x])
    OBVIOUS
  <2>1. CASE x = o
    BY <1>7, <2>1
  <2>2. CASE x # o
    <3>1. x \in Seen(rop, n) /\ x \in Objs(rop)
      BY <1>11, <2>2 DEF Seen
    <3> QED
      BY <1>8, <1>12, <2>2, <3>1
  <2> QED
    BY <2>1, <2>2
<1>13. e.rop.in_progress = {} => SameAsks(rop, e.rop)
  BY DEF SoundLoop
<1>14. S.in_progress = {} => SameAsks(rop, S)
  BY <1>4, <1>13 DEF SameAsks
<1>15. S.in_progress = {} => \A x \in Seen(rop, n + 1) : Processed(S, x, holders[x])
  BY <1>4, <1>12 DEF SoundLoop
<1>16. /\ e.done + 1 <= Cardinality(Seen(rop, n + 1))
       /\ e.done + 1 = Cardinality(Seen(rop, n + 1)) =>
            e.done = Cardinality(Seen(rop, n))
  <2>1. e.done <= Cardinality(Seen(rop, n))
    BY DEF SoundLoop
  <2>2. e.done \in Nat
    BY <1>1
  <2> QED
    BY ONLY <1>11, <2>1, <2>2
<1>17. e.done + 1 = Cardinality(Seen(rop, n + 1)) =>
          \A x \in Seen(rop, n + 1) : Processed(S, x, holders[x])
  BY <1>12, <1>16 DEF SoundLoop
<1> QED
  BY <1>5, <1>9, <1>9a, <1>14, <1>15, <1>16, <1>17 DEF SoundLoop

(* A turn that leaves the object for later: it is not counted.             *)
LEMMA SoundIdleTurn ==
  ASSUME NEW rop, NEW holders, NEW n \in Nat, NEW e, NEW o, o = n + 1,
         Sound(rop, holders), SoundLoop(rop, n, e, holders),
         Kept(rop, n + 1, e, holders),
         o \notin Objs(rop) \/ e.rop.in_progress # {}
  PROVE  SoundLoop(rop, n + 1, e, holders)
<1>1. Shape(rop) /\ e.done \in Nat
  BY DEF Sound, DataRead, Kept
<1>2. /\ Cardinality(Seen(rop, n)) \in Nat
      /\ Seen(rop, n + 1) = Seen(rop, n) \cup ({n + 1} \cap Objs(rop))
      /\ n + 1 \in Objs(rop) =>
              Cardinality(Seen(rop, n + 1)) = Cardinality(Seen(rop, n)) + 1
  BY <1>1, SeenCount
<1>3. e.done <= Cardinality(Seen(rop, n))
  BY DEF SoundLoop
<1>4. CASE o \notin Objs(rop)
  <2>1. Seen(rop, n + 1) = Seen(rop, n)
    BY <1>2, <1>4
  <2> QED
    BY <2>1 DEF SoundLoop
<1>5. CASE o \in Objs(rop) /\ e.rop.in_progress # {}
  <2>1. Cardinality(Seen(rop, n + 1)) = Cardinality(Seen(rop, n)) + 1
    BY <1>2, <1>5
  <2>2. /\ e.done <= Cardinality(Seen(rop, n + 1))
        /\ e.done # Cardinality(Seen(rop, n + 1))
    BY <1>1, <1>2, <1>3, <2>1
  <2> QED
    BY <1>5, <2>2 DEF SoundLoop
<1> QED
  BY <1>4, <1>5
(* There is somebody to ask in a turn that asks more shards.               *)
LEMMA SoundRemains ==
  ASSUME NEW rop, NEW holders, NEW n \in Nat, NEW e, NEW o, o = n + 1,
         Sound(rop, holders), SoundLoop(rop, n, e, holders), o \in Objs(rop),
         TurnSends(e, o, holders[o])
  PROVE  get_remaining_shards(e.rop, o, holders[o]) # {}
<1>1. /\ Kept(rop, n, e, holders) /\ KeptRop(rop, n, e.rop, holders)
      /\ e = [rop |-> e.rop, done |-> e.done, assert |-> e.assert]
      /\ e.assert = "" /\ e.done \in Nat
  BY DEF SoundLoop, Kept
<1>2. /\ DataRead(rop) /\ holders \in [Object -> SUBSET Acting]
      /\ o \in Object /\ holders[o] \in SUBSET Acting /\ holders[o] \in SUBSET PgShard
  <2>1. DataRead(rop) /\ holders \in [Object -> SUBSET Acting]
    BY DEF Sound
  <2>2. o \in Object
    BY <2>1 DEF DataRead, Shape, Typed
  <2>3. holders[o] \in SUBSET Acting
    BY <2>1, <2>2
  <2> QED
    BY <2>1, <2>2, <2>3
<1>3. DataRead(e.rop) /\ Shape(e.rop) /\ Objs(e.rop) = Objs(rop)
  <2>1. DataRead(e.rop)
    BY <1>1, <1>2, KeptDataRead
  <2> QED
    BY <1>1, <2>1 DEF KeptRop
<1>4. o > n
  BY DEF Sound
<1>5. SameAsks(rop, e.rop) /\ rop.in_progress = {}
  BY DEF SoundLoop, TurnSends, SameAsks
<1>6. HeardAll(e.rop, o)
  <2>1. e.rop.complete[o] = rop.complete[o]
    BY <1>1, <1>4 DEF KeptRop
  <2>2. Enough(rop, o) \/ HeardAll(rop, o)
    BY <1>5 DEF Sound
  <2>3. e.rop.want_to_read = rop.want_to_read
    BY <1>1 DEF KeptRop
  <2>4. ~Enough(rop, o)
    BY <2>1, <2>3 DEF TurnSends, Enough
  <2>5. Asked(e.rop, o) = Asked(rop, o)
    BY <1>5 DEF SameAsks
  <2> QED
    BY <2>1, <2>2, <2>4, <2>5 DEF HeardAll
<1> QED
  BY <1>2, <1>3, <1>6, SomebodyLeft DEF TurnSends
(* A turn that asks more shards for the object: there is one to ask, so    *)
(* that the read goes on.                                                  *)
LEMMA SoundSendTurn ==
  ASSUME NEW rop, NEW holders, NEW n \in Nat, NEW e, NEW o, o = n + 1,
         Sound(rop, holders), SoundLoop(rop, n, e, holders), o \in Objs(rop),
         TurnSends(e, o, holders[o]),
         NEW new, new = [e EXCEPT !.rop = send_all_remaining_reads(e.rop, o, holders[o])],
         Kept(rop, n + 1, new, holders)
  PROVE  SoundLoop(rop, n + 1, new, holders)
<1> DEFINE S == send_all_remaining_reads(e.rop, o, holders[o])
<1> DEFINE R == get_remaining_shards(e.rop, o, holders[o])
<1>1. /\ Kept(rop, n, e, holders) /\ KeptRop(rop, n, e.rop, holders)
      /\ e = [rop |-> e.rop, done |-> e.done, assert |-> e.assert]
      /\ e.assert = "" /\ e.done \in Nat
  BY DEF SoundLoop, Kept
<1>2. /\ DataRead(rop) /\ holders \in [Object -> SUBSET Acting]
      /\ o \in Object /\ holders[o] \in SUBSET Acting /\ holders[o] \in SUBSET PgShard
  <2>1. DataRead(rop) /\ holders \in [Object -> SUBSET Acting]
    BY DEF Sound
  <2>2. o \in Object
    BY <2>1 DEF DataRead, Shape, Typed
  <2>3. holders[o] \in SUBSET Acting
    BY <2>1, <2>2
  <2> QED
    BY <2>1, <2>2, <2>3
<1>3. DataRead(e.rop) /\ Shape(e.rop) /\ Objs(e.rop) = Objs(rop)
  <2>1. DataRead(e.rop)
    BY <1>1, <1>2, KeptDataRead
  <2> QED
    BY <1>1, <2>1 DEF KeptRop
<1>4. o > n
  BY DEF Sound
<1>5. SameAsks(rop, e.rop) /\ rop.in_progress = {}
  BY DEF SoundLoop, TurnSends, SameAsks
<1>6. HeardAll(e.rop, o)
  <2>1. e.rop.complete[o] = rop.complete[o]
    BY <1>1, <1>4 DEF KeptRop
  <2>2. Enough(rop, o) \/ HeardAll(rop, o)
    BY <1>5 DEF Sound
  <2>3. e.rop.want_to_read = rop.want_to_read
    BY <1>1 DEF KeptRop
  <2>4. ~Enough(rop, o)
    BY <2>1, <2>3 DEF TurnSends, Enough
  <2>5. Asked(e.rop, o) = Asked(rop, o)
    BY <1>5 DEF SameAsks
  <2> QED
    BY <2>1, <2>2, <2>4, <2>5 DEF HeardAll
<1>7. R # {}
  BY SoundRemains
<1>8. /\ Shape(S) /\ Objs(S) = Objs(e.rop)
      /\ S.want_to_read = e.rop.want_to_read /\ S.complete = e.rop.complete
      /\ S.do_redundant_reads = e.rop.do_redundant_reads
      /\ S.for_recovery = e.rop.for_recovery
      /\ R \in SUBSET holders[o] /\ S.to_read[o].need = R /\ S.to_read[o].sub = FALSE
      /\ \A x \in Objs(e.rop) \ {o} : S.to_read[x] = e.rop.to_read[x]
      /\ S.in_progress = e.rop.in_progress \cup Needed(S)
      /\ \A x \in Objs(e.rop) :
           Asked(S, x) = Asked(e.rop, x) \cup S.to_read[x].need
      /\ Linked(e.rop) => Linked(S)
  <2>1. o \in Objs(e.rop)
    BY <1>3
  <2> QED
    BY ONLY <1>2, <1>3, <2>1, SendAllRemaining
<1>9. new = [rop |-> S, done |-> e.done, assert |-> ""]
  <2> HIDE DEF S
  <2>1. new = [e EXCEPT !.rop = S]
    BY DEF S
  <2> QED
    BY <1>1, <2>1
<1> HIDE DEF S, R
<1>10. new.rop = S /\ new.done = e.done /\ new.assert = ""
  BY ONLY <1>9
<1>11. S.in_progress # {}
  BY <1>3, <1>7, <1>8 DEF Needed
<1>12. \A x \in Objs(rop) : Enough(S, x) <=> Enough(e.rop, x)
  <2> SUFFICES ASSUME NEW x \in Objs(rop) PROVE Enough(S, x) <=> Enough(e.rop, x)
    OBVIOUS
  <2>1. SameBuffers(e.rop.complete[x], S.complete[x])
    BY <1>8 DEF SameBuffers
  <2> QED
    BY <1>8, <2>1, SameEnough
<1>13. \A x \in Objs(rop) : GivenUp(S, x, holders[x])
  <2> SUFFICES ASSUME NEW x \in Objs(rop), S.complete[x].r # "ok"
               PROVE  /\ ~Enough(S, x) /\ HeardAll(S, x)
                      /\ Cardinality(holders[x] \ S.complete[x].errors) < K
    BY DEF GivenUp
  <2>1. GivenUp(e.rop, x, holders[x]) /\ e.rop.complete[x].r # "ok"
    BY <1>8 DEF SoundLoop
  <2>2. /\ ~Enough(e.rop, x) /\ HeardAll(e.rop, x)
        /\ Cardinality(holders[x] \ e.rop.complete[x].errors) < K
    BY <2>1 DEF GivenUp
  <2>3. x # o
    <3> SUFFICES ASSUME x = o PROVE FALSE
      OBVIOUS
    <3>1. RemainingMinimum(e.rop, o, holders[o]) # {}
      BY DEF TurnSends
    <3>2. /\ Cardinality(holders[o] \ e.rop.complete[o].errors) \in Nat
          /\ Cardinality(holders[o] \ e.rop.complete[o].errors) >= K
      BY <1>2, <1>3, <3>1, RemainingIsK
    <3> QED
      BY <2>2, <3>2
  <2>4. Asked(S, x) = Asked(e.rop, x)
    <3>1. S.to_read[x].need = e.rop.to_read[x].need
      BY <1>3, <1>8, <2>3
    <3>2. e.rop.to_read[x].need \subseteq Asked(e.rop, x)
      BY <1>3 DEF Shape
    <3>3. Asked(S, x) = Asked(e.rop, x) \cup S.to_read[x].need
      BY <1>3, <1>8
    <3> QED
      BY <3>1, <3>2, <3>3, Zenon
  <2> QED
    BY <1>8, <1>12, <2>2, <2>4 DEF HeardAll
<1>13a. \A x \in Objs(rop) : ErrorsLeft(rop, S, x)
  <2>1. \A x \in Objs(rop) : ErrorsLeft(rop, e.rop, x)
    BY DEF SoundLoop
  <2> QED
    BY <1>8, <1>12, <2>1 DEF ErrorsLeft
<1>14. /\ Cardinality(Seen(rop, n)) \in Nat
       /\ Cardinality(Seen(rop, n + 1)) = Cardinality(Seen(rop, n)) + 1
  <2>1. Shape(rop)
    BY <1>2 DEF DataRead
  <2> QED
    BY <2>1, SeenCount
<1>15. e.done <= Cardinality(Seen(rop, n))
  BY DEF SoundLoop
<1>16. /\ e.done <= Cardinality(Seen(rop, n + 1))
       /\ e.done # Cardinality(Seen(rop, n + 1))
  <2>1. e.done \in Nat
    BY <1>1
  <2> QED
    BY ONLY <1>14, <1>15, <2>1
<1> QED
  BY <1>10, <1>11, <1>13, <1>13a, <1>16 DEF SoundLoop

(* A turn of the loop over a sound read.  Errors are not checked, as is    *)
(* the default of osd_read_ec_check_for_errors.                            *)
LEMMA SoundTurn ==
  ASSUME ~CheckForErrors,
         NEW rop, NEW holders, NEW n \in Nat, NEW e, Sound(rop, holders),
         SoundLoop(rop, n, e, holders)
  PROVE  SoundLoop(rop, n + 1, Evaluate(e, n + 1, holders), holders)
<1> SUFFICES ASSUME NEW o, o = n + 1
             PROVE  SoundLoop(rop, n + 1, Evaluate(e, o, holders), holders)
  OBVIOUS
<1> DEFINE new == Evaluate(e, o, holders)
<1>1. /\ Kept(rop, n, e, holders) /\ KeptRop(rop, n, e.rop, holders)
      /\ e.assert = ""
  BY DEF SoundLoop, Kept
<1>2. DataRead(rop) /\ holders \in [Object -> SUBSET Acting]
  BY DEF Sound
<1>3. holders \in [Object -> SUBSET PgShard]
  BY <1>2
<1>4. Kept(rop, n + 1, new, holders)
  <2>1. Kept(rop, n + 1, Evaluate(e, n + 1, holders), holders)
    BY <1>1, <1>3, EvaluateKeeps
  <2> QED
    BY <2>1
<1>5. DataRead(e.rop) /\ Shape(e.rop) /\ Objs(e.rop) = Objs(rop)
  <2>1. DataRead(e.rop)
    BY <1>1, <1>2, KeptDataRead
  <2> QED
    BY <1>1, <2>1 DEF KeptRop
<1>6. DOMAIN e.rop.complete = Objs(rop)
      /\ \A x \in Objs(rop) : e.rop.complete[x] \in Result /\ x \in Object
  BY <1>5, TypedFields DEF Shape, Typed
<1>7. CASE TurnIdle(e, o) /\ new = e
  <2>1. o \notin Objs(rop) \/ e.rop.in_progress # {}
    BY <1>1, <1>6, <1>7 DEF TurnIdle
  <2> QED
    BY <1>4, <1>7, <2>1, SoundIdleTurn
<1>8. CASE \E x \in LoopAsserts : TurnAsserts(e, o, holders[o], x)
  <2>1. o \in Objs(rop)
    BY <1>6, <1>8 DEF TurnAsserts
  <2>2. e.rop.complete[o].returned
    BY <1>5, <2>1 DEF DataRead
  <2>3. GivenUp(e.rop, o, holders[o])
    BY <2>1 DEF SoundLoop
  <2>4. ~(TurnSends(e, o, holders[o]) /\ NobodyToAsk(e.rop, o, holders[o]))
    BY <2>1, SoundRemains DEF NobodyToAsk
  <2> QED
    BY <1>8, <2>2, <2>3, <2>4 DEF TurnAsserts, GivenUp
<1>9. CASE /\ TurnJudges(e, o) /\ e.rop.complete[o].r = "ok"
           /\ new = [e EXCEPT !.rop = WithResult(e.rop, o, Judged(e.rop.complete[o])),
                              !.done = @ + 1]
  <2>1. o \in Objs(rop) /\ Enough(e.rop, o)
    BY <1>6, <1>9 DEF TurnJudges
  <2> DEFINE res == Judged(e.rop.complete[o])
  <2>2. res \in Result /\ SameBuffers(e.rop.complete[o], res)
    BY <1>6, <2>1, JudgedKeeps
  <2>3. res.r = "ok" /\ res.errors = {}
    <3>1. e.rop.complete[o] \in Result
      BY <1>6, <2>1
    <3>2. [e.rop.complete[o] EXCEPT !.errors = {}].errors = {}
          /\ [e.rop.complete[o] EXCEPT !.errors = {}].r = "ok"
      BY <1>9, <3>1 DEF Result
    <3> QED
      BY <1>9, <3>2 DEF Judged
  <2> HIDE DEF res, new
  <2>4. new = [e EXCEPT !.rop = WithResult(e.rop, o, res), !.done = @ + 1]
    BY <1>9 DEF res
  <2>5. /\ res.r = "ok" => Enough(e.rop, o) /\ res.errors = {}
        /\ res.r # "ok" => /\ ~Enough(e.rop, o)
                           /\ res.errors = e.rop.complete[o].errors
                           /\ Asked(e.rop, o) \subseteq Buffers(res) \cup res.errors
                           /\ Cardinality(holders[o] \ res.errors) < K
    BY <2>1, <2>3
  <2>6. Kept(rop, n + 1, new, holders)
    BY <1>4
  <2>7. SoundLoop(rop, n + 1, new, holders)
    BY <2>1, <2>2, <2>4, <2>5, <2>6, SoundResultTurn
  <2> QED
    BY <2>7 DEF new
<1>10. CASE /\ TurnSends(e, o, holders[o])
            /\ new = [e EXCEPT !.rop = send_all_remaining_reads(e.rop, o, holders[o])]
  <2>1. o \in Objs(rop)
    BY <1>6, <1>10 DEF TurnSends
  <2> HIDE DEF new
  <2> QED
    BY <1>4, <1>10, <2>1, SoundSendTurn DEF new
<1>11. CASE /\ TurnGivesUp(e, o, holders[o])
            /\ new = [e EXCEPT !.rop = WithResult(e.rop, o, GivenUpResult(e.rop.complete[o])),
                               !.done = @ + 1]
  <2>1. o \in Objs(rop) /\ ~Enough(e.rop, o) /\ e.rop.in_progress = {}
    BY <1>6, <1>11 DEF TurnGivesUp
  <2> DEFINE res == GivenUpResult(e.rop.complete[o])
  <2>2. res \in Result /\ SameBuffers(e.rop.complete[o], res)
    BY <1>6, <2>1, JudgedKeeps
  <2>3. res.r = "error" /\ res.errors = e.rop.complete[o].errors
        /\ Buffers(res) = Buffers(e.rop.complete[o])
    BY <1>6, <2>1 DEF Result, GivenUpResult, Buffers
  <2>4. HeardAll(e.rop, o)
    <3>1. SameAsks(rop, e.rop) /\ rop.in_progress = {}
      BY <2>1 DEF SoundLoop, SameAsks
    <3>2. o > n
      OBVIOUS
    <3>3. e.rop.complete[o] = rop.complete[o]
      BY <1>1, <2>1, <3>2 DEF KeptRop
    <3>4. Enough(rop, o) \/ HeardAll(rop, o)
      BY <2>1, <3>1 DEF Sound
    <3>5. e.rop.want_to_read = rop.want_to_read
      BY <1>1 DEF KeptRop
    <3>6. ~Enough(rop, o)
      BY <2>1, <3>3, <3>5 DEF Enough
    <3>7. Asked(e.rop, o) = Asked(rop, o)
      BY <2>1, <3>1 DEF SameAsks
    <3> QED
      BY <3>3, <3>4, <3>6, <3>7 DEF HeardAll
  <2> DEFINE good == holders[o] \ e.rop.complete[o].errors
  <2>5. holders[o] \in SUBSET Acting
    BY <1>2, <1>6, <2>1
  <2>6. Cardinality(good) < K
    <3>1. CASE RemainingMinimum(e.rop, o, holders[o]) = {}
      <4>1. Cardinality(good) \in Nat /\ ~(Cardinality(good) >= K)
        BY <1>5, <2>1, <2>5, <3>1, RemainingIsK
      <4> QED
        BY <4>1
    <3>2. CASE e.rop.do_redundant_reads
      <4>1. rop.do_redundant_reads
        BY <1>1, <3>2 DEF KeptRop
      <4>2. holders[o] \subseteq Asked(rop, o)
        BY <2>1, <4>1 DEF Sound
      <4>3. Asked(e.rop, o) = Asked(rop, o)
        BY <2>1 DEF SoundLoop, SameAsks
      <4>4. good \subseteq Buffers(e.rop.complete[o])
        BY <2>4, <4>2, <4>3 DEF HeardAll
      <4>5. ShardOf(good) \subseteq Have(e.rop.complete[o])
        BY <4>4 DEF ShardOf, Buffers, Have
      <4>6. good \in SUBSET Acting
        BY <2>5
      <4>7. /\ IsFiniteSet(Have(e.rop.complete[o]))
            /\ Cardinality(Have(e.rop.complete[o])) \in Nat
            /\ ~(Cardinality(Have(e.rop.complete[o])) >= K)
        BY <1>5, <2>1, EnoughIsK
      <4> HIDE DEF good
      <4>8. Cardinality(good) = Cardinality(ShardOf(good)) /\ Cardinality(good) \in Nat
        BY <4>6, ActingCount
      <4>9. Cardinality(ShardOf(good)) <= Cardinality(Have(e.rop.complete[o]))
        BY <4>5, <4>7, CountMonotone
      <4> QED
        BY <4>7, <4>8, <4>9
    <3> QED
      BY <1>11, <3>1, <3>2 DEF TurnGivesUp
  <2>7. /\ Asked(e.rop, o) \subseteq Buffers(res) \cup res.errors
        /\ Cardinality(holders[o] \ res.errors) < K
    BY <2>3, <2>4, <2>6 DEF HeardAll
  <2> HIDE DEF res, new
  <2>8. new = [e EXCEPT !.rop = WithResult(e.rop, o, res), !.done = @ + 1]
    BY <1>11 DEF res
  <2> QED
    BY <1>4, <2>1, <2>2, <2>3, <2>7, <2>8, SoundResultTurn DEF new
<1> QED
  BY <1>7, <1>8, <1>9, <1>10, <1>11, EvaluateCases
(* The loop starts from the read as it is.                                 *)
LEMMA StartFields ==
  ASSUME NEW rop
  PROVE  /\ LoopStart(rop) = [rop |-> rop, done |-> 0, assert |-> ""]
         /\ LoopStart(rop).rop = rop /\ LoopStart(rop).done = 0
         /\ LoopStart(rop).assert = ""
BY DEF LoopStart

(* A sound read is sound before the first turn.                            *)
LEMMA SoundStart ==
  ASSUME NEW rop, NEW holders, Sound(rop, holders)
  PROVE  SoundLoop(rop, 0, LoopStart(rop), holders)
<1> DEFINE s == LoopStart(rop)
<1>1. /\ s = [rop |-> s.rop, done |-> s.done, assert |-> s.assert]
      /\ s.rop = rop /\ s.done = 0 /\ s.assert = ""
  <2>1. /\ s = [rop |-> rop, done |-> 0, assert |-> ""]
        /\ s.rop = rop /\ s.done = 0 /\ s.assert = ""
    BY StartFields
  <2> HIDE DEF s
  <2> QED
    BY ONLY <2>1
<1> HIDE DEF s
<1>2. Shape(rop) /\ DataRead(rop)
  BY DEF Sound, DataRead
<1>3. KeptRop(rop, 0, rop, holders)
  BY <1>2 DEF KeptRop, SameAsks, SameBuffers
<1>4. Kept(rop, 0, s, holders)
  <2>1. KeptRop(rop, 0, s.rop, holders)
    BY <1>1, <1>3
  <2>2. s = [rop |-> s.rop, done |-> s.done, assert |-> s.assert]
    BY <1>1
  <2>3. s.done \in Nat
    <3>1. s.done = 0
      BY <1>1
    <3> QED
      BY ONLY <3>1
  <2> QED
    BY ONLY <2>1, <2>2, <2>3 DEF Kept
<1>5. Seen(rop, 0) = {}
  <2> SUFFICES ASSUME NEW o \in Objs(rop), o <= 0 PROVE FALSE
    BY DEF Seen
  <2>1. o \in Nat /\ o >= 1
    BY <1>2 DEF Shape, Typed, Object
  <2> QED
    BY <2>1
<1>6. Cardinality(Seen(rop, 0)) = 0
  BY <1>5, FS_EmptySet
<1>7. \A o \in Objs(rop) : GivenUp(rop, o, holders[o])
  BY DEF Sound
<1>8. SameAsks(rop, rop)
  BY DEF SameAsks
<1>9. \A o \in Objs(rop) : GivenUp(s.rop, o, holders[o])
  BY <1>1, <1>7
<1>10. /\ SameAsks(rop, s.rop)
       /\ \A o \in Objs(rop) : ErrorsLeft(rop, s.rop, o)
  <2>1. \A o \in Objs(rop) : ErrorsLeft(rop, rop, o)
    BY DEF ErrorsLeft
  <2> QED
    BY <1>1, <1>8, <2>1
<1>11. s.done = Cardinality(Seen(rop, 0)) /\ s.done <= Cardinality(Seen(rop, 0))
  <2>1. s.done = 0
    BY <1>1
  <2> QED
    BY ONLY <1>6, <2>1
<1>12. s.assert = ""
  BY <1>1
<1>13. SoundLoop(rop, 0, s, holders)
  BY ONLY <1>4, <1>5, <1>9, <1>10, <1>11, <1>12 DEF SoundLoop
<1> QED
  BY <1>13 DEF s

(* The loop over a sound read.                                             *)
LEMMA EvaluatedSound ==
  ASSUME ~CheckForErrors, NEW rop, NEW holders, Sound(rop, holders),
         rop.do_redundant_reads \/ rop.in_progress = {}
  PROVE  SoundLoop(rop, NObjects, Evaluated(rop, holders), holders)
<1>1. PICK e : /\ e[0] = LoopStart(rop)
               /\ \A n \in 1 .. NObjects : e[n] = Evaluate(e[n - 1], n, holders)
               /\ Evaluated(rop, holders) = e[NObjects]
  BY EvaluatedIsLoop
<1> DEFINE T == {n \in Nat : n <= NObjects => SoundLoop(rop, n, e[n], holders)}
<1>2. 0 \in T
  BY <1>1, SoundStart
<1>3. \A n \in Nat : n \in T => n + 1 \in T
  <2> SUFFICES ASSUME NEW n \in Nat, n \in T, n + 1 <= NObjects
               PROVE  SoundLoop(rop, n + 1, e[n + 1], holders)
    OBVIOUS
  <2>1. n <= NObjects /\ n + 1 \in 1 .. NObjects /\ (n + 1) - 1 = n
    OBVIOUS
  <2>2. SoundLoop(rop, n, e[n], holders)
    BY <2>1
  <2>3. e[n + 1] = Evaluate(e[n], n + 1, holders)
    BY <1>1, <2>1
  <2>4. SoundLoop(rop, n + 1, Evaluate(e[n], n + 1, holders), holders)
    BY <2>2, SoundTurn
  <2> QED
    BY <2>3, <2>4
<1> HIDE DEF T
<1>4. NObjects \in T
  BY <1>2, <1>3, SetInduction
<1>5. SoundLoop(rop, NObjects, e[NObjects], holders)
  BY <1>4 DEF T
<1> QED
  BY <1>1, <1>5

(* What handle_sub_read_reply leaves of a sound read: no assertion fails,  *)
(* an object that is given up is so for good reason, and when the read is  *)
(* finished every object is either decodable without error left or cannot  *)
(* be read from the shards that are left.                                  *)
LEMMA EvaluatedRead ==
  ASSUME ~CheckForErrors, NEW rop, NEW holders, Sound(rop, holders)
  PROVE  LET e == Evaluated(rop, holders)
         IN  /\ KeptRop(rop, NObjects, e.rop, holders)
             /\ e.assert = "" /\ DataRead(e.rop) /\ Objs(e.rop) = Objs(rop)
             /\ \A o \in Objs(rop) : GivenUp(e.rop, o, holders[o])
             /\ \A o \in Objs(rop) : ErrorsLeft(rop, e.rop, o)
             /\ Finished(e) => \A o \in Objs(rop) : Processed(e.rop, o, holders[o])
<1> DEFINE e == Evaluated(rop, holders)
<1>1. /\ DataRead(rop) /\ Shape(rop) /\ holders \in [Object -> SUBSET Acting]
      /\ holders \in [Object -> SUBSET PgShard]
  BY DEF Sound, DataRead
<1>2. CASE ~(rop.do_redundant_reads \/ rop.in_progress = {})
  <2>1. e = LoopStart(rop)
    BY <1>2, Zenon DEF Evaluated, LoopStart
  <2> HIDE DEF e
  <2>2. e.rop = rop /\ e.assert = "" /\ e.done = 0
    BY <2>1, StartFields
  <2>3. \A o \in Objs(rop) : GivenUp(rop, o, holders[o])
    BY DEF Sound
  <2>4. KeptRop(rop, NObjects, rop, holders)
    BY <1>1 DEF KeptRop, SameAsks, SameBuffers
  <2>5. \A o \in Objs(rop) : ErrorsLeft(rop, rop, o)
    BY DEF ErrorsLeft
  <2>6. ASSUME Finished(e) PROVE Objs(rop) = {}
    <3>1. DOMAIN rop.complete = Objs(rop) /\ Objs(rop) \subseteq Object
      BY <1>1 DEF Shape, Typed
    <3>2. Cardinality(Objs(rop)) = 0
      BY <1>2, <2>2, <2>6, <3>1 DEF Finished
    <3>3. IsFiniteSet(Objs(rop))
      <4>1. 1 \in Int /\ NObjects \in Int
        OBVIOUS
      <4>2. IsFiniteSet(1 .. NObjects)
        BY <4>1, FS_Interval
      <4> QED
        BY <3>1, <4>2, FS_Subset DEF Object
    <3> QED
      BY <3>2, <3>3, FS_EmptySet
  <2> QED
    BY <1>1, <2>2, <2>3, <2>4, <2>5, <2>6 DEF e
<1>3. CASE rop.do_redundant_reads \/ rop.in_progress = {}
  <2>1. SoundLoop(rop, NObjects, e, holders)
    BY <1>3, EvaluatedSound
  <2> HIDE DEF e
  <2>2. KeptRop(rop, NObjects, e.rop, holders)
    BY <2>1 DEF SoundLoop, Kept
  <2>3. DataRead(e.rop)
    BY <1>1, <2>2, KeptDataRead
  <2>4. Objs(e.rop) = Objs(rop) /\ DOMAIN e.rop.complete = Objs(rop)
    BY <2>2, <2>3 DEF KeptRop, DataRead, Shape, Typed
  <2>5. Seen(rop, NObjects) = Objs(rop)
    BY <1>1, SeenCount
  <2>6. ASSUME Finished(e)
        PROVE  \A o \in Objs(rop) : Processed(e.rop, o, holders[o])
    BY <2>1, <2>4, <2>5, <2>6 DEF Finished, SoundLoop
  <2>7. /\ e.assert = "" /\ \A o \in Objs(rop) : GivenUp(e.rop, o, holders[o])
        /\ \A o \in Objs(rop) : ErrorsLeft(rop, e.rop, o)
    BY <2>1 DEF SoundLoop
  <2> QED
    BY <2>2, <2>3, <2>4, <2>6, <2>7 DEF e
<1> QED
  BY <1>2, <1>3
-----------------------------------------------------------------------------
(* How a read starts, and how it takes a reply.                            *)

(* The request for the data of an object asks holders of it, and a fast    *)
(* read all of them.                                                       *)
LEMMA RequestFor ==
  ASSUME NEW H \in SUBSET Acting, NEW redundant \in BOOLEAN
  PROVE  LET req == get_min_avail_to_read_shards(H, DataShards, FALSE, redundant, FALSE)
         IN  /\ req \in ReadRequest /\ req.need \subseteq H
             /\ redundant /\ req.need # {} => req.need = H
<1> DEFINE req == get_min_avail_to_read_shards(H, DataShards, FALSE, redundant, FALSE)
<1> DEFINE min == minimum_to_decode(DataShards, ShardOf(H))
<1> DEFINE b == ~redundant /\ repairs(DataShards, ShardOf(H))
<1> DEFINE N == {p \in H : min # {} /\ (redundant \/ p[2] \in min)}
<1>1. get_all_avail_shards(H, {}, FALSE) = H
  <2>1. get_all_avail_shards(H, {}, FALSE) = H \ {}
    BY AvailableShards
  <2> QED
    BY <2>1
<1>2. req = [need |-> N, sub |-> b, want_attrs |-> FALSE]
  BY <1>1 DEF get_min_avail_to_read_shards
<1>3. b \in BOOLEAN
  BY DEF repairs
<1>4. N \subseteq H /\ N \in SUBSET PgShard
  OBVIOUS
<1>5. redundant /\ N # {} => N = H
  OBVIOUS
<1> HIDE DEF b, N, req
<1>6. req \in ReadRequest /\ req.need = N
  BY <1>2, <1>3, <1>4 DEF ReadRequest
<1> QED
  BY <1>4, <1>5, <1>6 DEF req

(* A read starts with nothing heard and the shards it needs asked.         *)
Started(rop, want, t) ==
  /\ Shape(rop) /\ Objs(rop) = DOMAIN t
  /\ rop.want_to_read = want /\ rop.to_read = t
  /\ rop.complete = [o \in DOMAIN t |-> NewResult]
  /\ rop.in_progress = Needed(rop)
  /\ \A o \in DOMAIN t : Asked(rop, o) = t[o].need
  /\ Linked(rop)

(* start_read_op: a read that waits for every shard it needs.              *)
LEMMA StartReadOp ==
  ASSUME NEW S \in SUBSET Object, NEW want \in [S -> SUBSET (0 .. K + M - 1)],
         NEW t \in [S -> ReadRequest], NEW redundant \in BOOLEAN, NEW rec \in BOOLEAN,
         NEW new, new = start_read_op(want, t, redundant, rec)
  PROVE  /\ Started(new, want, t)
         /\ new.do_redundant_reads = redundant /\ new.for_recovery = rec
<1> DEFINE base == [want_to_read |-> want, to_read |-> t,
                    complete |-> [o \in S |-> NewResult],
                    do_redundant_reads |-> redundant,
                    for_recovery |-> rec, in_progress |-> {},
                    source_to_obj |-> {}, obj_to_source |-> {}]
<1> DEFINE rop == start_read_op(want, t, redundant, rec)
<1>1. DOMAIN t = S
  OBVIOUS
<1>2. rop = do_read_op(base)
  BY <1>1 DEF start_read_op
<1>3. NewResult \in Result
  BY DEF NewResult, Result
<1>4. base \in ReadOp
  BY <1>3 DEF ReadOp
<1>5. /\ base.want_to_read = want /\ base.to_read = t
      /\ base.complete = [o \in S |-> NewResult]
      /\ base.do_redundant_reads = redundant /\ base.for_recovery = rec
      /\ base.in_progress = {} /\ base.obj_to_source = {}
  OBVIOUS
<1> HIDE DEF base, rop
<1>6. Objs(base) = S
  BY <1>1, <1>5 DEF Objs
<1>7. Typed(base)
  BY <1>4, <1>5, <1>6 DEF Typed
<1>8. /\ Shape(rop) /\ Objs(rop) = Objs(base)
      /\ rop.want_to_read = base.want_to_read /\ rop.to_read = base.to_read
      /\ rop.complete = base.complete
      /\ rop.do_redundant_reads = base.do_redundant_reads
      /\ rop.for_recovery = base.for_recovery
      /\ rop.in_progress = base.in_progress \cup Needed(rop)
      /\ \A o \in Objs(base) : Asked(rop, o) = Asked(base, o) \cup rop.to_read[o].need
      /\ Linked(base) => Linked(rop)
  BY <1>2, <1>7, DoReadOp
<1>9. /\ \A o : Asked(base, o) = {}
      /\ Linked(base)
  BY <1>5 DEF Asked, Linked
<1>10. \A o \in S : Asked(rop, o) = t[o].need
  <2> SUFFICES ASSUME NEW o \in S PROVE Asked(rop, o) = t[o].need
    OBVIOUS
  <2>1. Asked(rop, o) = Asked(base, o) \cup rop.to_read[o].need
    BY <1>6, <1>8
  <2>2. rop.to_read = t /\ Asked(base, o) = {}
    BY <1>5, <1>8, <1>9
  <2> QED
    BY <2>1, <2>2
<1>11. /\ Shape(rop) /\ Objs(rop) = S
       /\ rop.want_to_read = want /\ rop.to_read = t
       /\ rop.complete = [o \in S |-> NewResult]
       /\ rop.in_progress = Needed(rop) /\ Linked(rop)
  BY <1>5, <1>6, <1>8, <1>9
<1>12. rop.do_redundant_reads = redundant /\ rop.for_recovery = rec
  BY <1>5, <1>8, Zenon
<1> QED
  BY <1>1, <1>10, <1>11, <1>12, Zenon DEF rop, Started

(* One message to every shard that is needed, for the objects it is needed *)
(* for.                                                                    *)
LEMMA MessagesSent ==
  ASSUME NEW tid, NEW rop
  PROVE  /\ \A x \in Messages(tid, rop) :
              /\ x.tid = tid /\ x.to \in Needed(rop)
              /\ x.objects = {o \in Objs(rop) : x.to \in rop.to_read[o].need}
              /\ x.sub = {o \in x.objects : rop.to_read[o].sub}
         /\ \A q \in Needed(rop) : \E x \in Messages(tid, rop) : x.to = q
         /\ \A x, y \in Messages(tid, rop) : x.to = y.to => x = y
<1> DEFINE obj(q) == {o \in Objs(rop) : q \in rop.to_read[o].need}
<1> DEFINE sub(q) == {o \in Objs(rop) : q \in rop.to_read[o].need /\ rop.to_read[o].sub}
<1> DEFINE att(q) == {o \in Objs(rop) :
                        /\ rop.to_read[o].want_attrs
                        /\ rop.to_read[o].need # {}
                        /\ q = FirstOf(rop.to_read[o].need)}
<1> DEFINE f(q) == [tid |-> tid, to |-> q, objects |-> obj(q), sub |-> sub(q),
                    attrs |-> att(q)]
<1>1. Messages(tid, rop) = {f(q) : q \in Needed(rop)}
  BY DEF Messages, Needed, Objs
<1> HIDE DEF obj, sub, att
<1>2. \A q : f(q).tid = tid /\ f(q).to = q /\ f(q).objects = obj(q) /\ f(q).sub = sub(q)
  OBVIOUS
<1> HIDE DEF f
<1>3. \A x \in Messages(tid, rop) :
         /\ x = f(x.to) /\ x.tid = tid /\ x.to \in Needed(rop)
         /\ x.objects = obj(x.to) /\ x.sub = sub(x.to)
  BY <1>1, <1>2
<1>4. \A q \in Needed(rop) : f(q) \in Messages(tid, rop) /\ f(q).to = q
  BY <1>1, <1>2
<1>5. \A x, y \in Messages(tid, rop) : x.to = y.to => x = y
  BY <1>3
<1>6. \A x \in Messages(tid, rop) :
         /\ x.objects = {o \in Objs(rop) : x.to \in rop.to_read[o].need}
         /\ x.sub = {o \in x.objects : rop.to_read[o].sub}
  BY <1>3 DEF obj, sub
<1> QED
  BY <1>3, <1>4, <1>5, <1>6

(* What a reply does to the result of one object.                          *)
HeardResult(res, o, m, read, bad) ==
  [res EXCEPT !.full = IF o \in read \ m.sub THEN @ \cup {m.to}
                       ELSE IF o \in read THEN @ \ {m.to} ELSE @,
              !.part = IF o \in read \cap m.sub THEN @ \cup {m.to}
                       ELSE IF o \in read THEN @ \ {m.to} ELSE @,
              !.attrs = @ \/ o \in read \cap m.attrs,
              !.errors = IF o \in bad THEN @ \cup {m.to} ELSE @]

(* The shard a reply came from, if it was for object o.                    *)
From(q, o, S) == IF o \in S THEN {q} ELSE {}

Heard(res, new, o, q, read, sub, bad) ==
  /\ new \in Result /\ new.returned = res.returned /\ new.r = res.r
  /\ new.errors = res.errors \cup From(q, o, bad)
  /\ Buffers(new) = Buffers(res) \cup From(q, o, read)
  /\ new.full \subseteq res.full \cup From(q, o, read \ sub)
  /\ new.part \subseteq res.part \cup From(q, o, sub)

(* What one reply changes in the result of an object.                      *)
LEMMA HeardResultFields ==
  ASSUME NEW res \in Result, NEW o, NEW m, m.to \in PgShard, NEW read, NEW bad
  PROVE  Heard(res, HeardResult(res, o, m, read, bad), o, m.to, read, m.sub, bad)
<1> DEFINE new == HeardResult(res, o, m, read, bad)
<1> DEFINE full == IF o \in read \ m.sub THEN res.full \cup {m.to}
                   ELSE IF o \in read THEN res.full \ {m.to} ELSE res.full
<1> DEFINE prt == IF o \in read \cap m.sub THEN res.part \cup {m.to}
                  ELSE IF o \in read THEN res.part \ {m.to} ELSE res.part
<1> DEFINE err == IF o \in bad THEN res.errors \cup {m.to} ELSE res.errors
<1> DEFINE att == res.attrs \/ o \in read \cap m.attrs
<1>1. /\ res = [returned |-> res.returned, full |-> res.full, part |-> res.part,
                errors |-> res.errors, attrs |-> res.attrs, r |-> res.r]
      /\ res.full \in SUBSET PgShard /\ res.part \in SUBSET PgShard
      /\ res.errors \in SUBSET PgShard /\ res.r \in {"ok", "error"}
  BY DEF Result
<1>2. res.returned \in BOOLEAN /\ res.attrs \in BOOLEAN
  BY DEF Result
<1>3. full \in SUBSET PgShard /\ prt \in SUBSET PgShard /\ err \in SUBSET PgShard
  BY <1>1
<1>4. att \in BOOLEAN
  OBVIOUS
<1>5. err = res.errors \cup From(m.to, o, bad)
  BY DEF From
<1>6. full \cup prt = res.full \cup res.part \cup From(m.to, o, read)
  BY DEF From
<1>6a. /\ full \subseteq res.full \cup From(m.to, o, read \ m.sub)
       /\ prt \subseteq res.part \cup From(m.to, o, m.sub)
  BY DEF From
<1>7. new = [res EXCEPT !.full = full, !.part = prt, !.attrs = att, !.errors = err]
  BY DEF HeardResult
<1> HIDE DEF full, prt, err, att, new
<1>8. new = [returned |-> res.returned, full |-> full, part |-> prt,
             errors |-> err, attrs |-> att, r |-> res.r]
  BY <1>1, <1>7
<1>9. new \in Result
  BY <1>1, <1>2, <1>3, <1>4, <1>8 DEF Result
<1>10. /\ new.full = full /\ new.part = prt /\ new.errors = err /\ new.r = res.r
       /\ new.returned = res.returned
  BY <1>8
<1> QED
  BY <1>5, <1>6, <1>6a, <1>9, <1>10 DEF Buffers, Heard, new
(* A reply for objects of the read: the shard is not waited for any more,  *)
(* and every object that was asked has its buffer or its error.            *)
Took(rop, new, m, bad) ==
  /\ Typed(new) /\ Objs(new) = Objs(rop)
  /\ new.want_to_read = rop.want_to_read /\ new.to_read = rop.to_read
  /\ new.do_redundant_reads = rop.do_redundant_reads
  /\ new.for_recovery = rop.for_recovery
  /\ new.in_progress = rop.in_progress \ {m.to}
  /\ new.source_to_obj = rop.source_to_obj
  /\ \A o : Asked(new, o) = Asked(rop, o)
  /\ \A o \in Objs(rop) :
       /\ new.complete[o].returned = rop.complete[o].returned
       /\ new.complete[o].r = rop.complete[o].r
       /\ new.complete[o].errors = rop.complete[o].errors \cup From(m.to, o, bad)
       /\ Buffers(new.complete[o]) =
            Buffers(rop.complete[o]) \cup From(m.to, o, m.objects \ bad)
       /\ new.complete[o].full \subseteq
            rop.complete[o].full \cup From(m.to, o, m.objects \ m.sub)
       /\ new.complete[o].part \subseteq
            rop.complete[o].part \cup From(m.to, o, m.sub)

(* What a reply changes in the read.                                       *)
LEMMA ReceivedFields ==
  ASSUME NEW rop, Typed(rop), NEW m, m.to \in PgShard,
         NEW bad \in SUBSET m.objects, bad \subseteq Objs(rop)
  PROVE  Took(rop, Received(rop, m, bad), m, bad)
<1> DEFINE read == (m.objects \ bad) \cap Objs(rop)
<1> DEFINE R(o) == HeardResult(rop.complete[o], o, m, read, bad)
<1> DEFINE c == [o \in Objs(rop) |-> R(o)]
<1> DEFINE i == rop.in_progress \ {m.to}
<1> DEFINE new == Received(rop, m, bad)
<1>1. DOMAIN rop.complete = Objs(rop) /\ DOMAIN rop.complete \cup bad = Objs(rop)
  BY DEF Typed
<1>2. new = [rop EXCEPT !.complete = c, !.in_progress = i]
  BY <1>1 DEF Received, HeardResult, Objs
<1>3. \A o \in Objs(rop) : Heard(rop.complete[o], R(o), o, m.to, read, m.sub, bad)
  <2> SUFFICES ASSUME NEW o \in Objs(rop)
               PROVE  Heard(rop.complete[o], R(o), o, m.to, read, m.sub, bad)
    OBVIOUS
  <2>1. rop.complete[o] \in Result
    BY TypedFields
  <2> HIDE DEF read
  <2> QED
    BY <2>1, HeardResultFields
<1>4. \A o \in Objs(rop) :
         /\ From(m.to, o, read) = From(m.to, o, m.objects \ bad)
         /\ From(m.to, o, read \ m.sub) \subseteq From(m.to, o, m.objects \ m.sub)
  BY DEF From
<1> HIDE DEF R, read, new
<1>5. c \in [Objs(rop) -> Result] /\ \A o \in Objs(rop) : c[o] = R(o)
  BY <1>3 DEF Heard
<1>6. i \in SUBSET PgShard
  BY TypedFields
<1>7. rop \in ReadOp /\ Objs(rop) \in SUBSET Object
  BY DEF Typed
<1>8. c \in UNION {[X -> Result] : X \in SUBSET Object}
  BY <1>5, <1>7
<1> HIDE DEF c, i
<1>9. new \in ReadOp
  BY <1>2, <1>6, <1>7, <1>8 DEF ReadOp
<1>10. /\ new.want_to_read = rop.want_to_read /\ new.to_read = rop.to_read
       /\ new.complete = c
       /\ new.do_redundant_reads = rop.do_redundant_reads
       /\ new.for_recovery = rop.for_recovery
       /\ new.in_progress = i
       /\ new.obj_to_source = rop.obj_to_source
       /\ new.source_to_obj = rop.source_to_obj
  BY <1>2, <1>7, ReadOpRecord
<1>11. Objs(new) = Objs(rop)
  BY <1>10 DEF Objs
<1>12. Typed(new)
  BY <1>5, <1>9, <1>10, <1>11 DEF Typed
<1>13. \A o : Asked(new, o) = Asked(rop, o)
  BY <1>10 DEF Asked
<1>14. \A o \in Objs(rop) :
         /\ new.complete[o].returned = rop.complete[o].returned
         /\ new.complete[o].r = rop.complete[o].r
         /\ new.complete[o].errors =
              rop.complete[o].errors \cup From(m.to, o, bad)
         /\ Buffers(new.complete[o]) =
              Buffers(rop.complete[o]) \cup From(m.to, o, m.objects \ bad)
         /\ new.complete[o].full \subseteq
              rop.complete[o].full \cup From(m.to, o, m.objects \ m.sub)
         /\ new.complete[o].part \subseteq
              rop.complete[o].part \cup From(m.to, o, m.sub)
  <2> SUFFICES ASSUME NEW o \in Objs(rop)
               PROVE  /\ new.complete[o].returned = rop.complete[o].returned
                      /\ new.complete[o].r = rop.complete[o].r
                      /\ new.complete[o].errors =
                           rop.complete[o].errors \cup From(m.to, o, bad)
                      /\ Buffers(new.complete[o]) =
                           Buffers(rop.complete[o]) \cup From(m.to, o, m.objects \ bad)
                      /\ new.complete[o].full \subseteq
                           rop.complete[o].full \cup From(m.to, o, m.objects \ m.sub)
                      /\ new.complete[o].part \subseteq
                           rop.complete[o].part \cup From(m.to, o, m.sub)
    BY Zenon
  <2>1. new.complete[o] = R(o)
    BY <1>5, <1>10
  <2>2. Heard(rop.complete[o], R(o), o, m.to, read, m.sub, bad)
    BY <1>3
  <2> QED
    BY <1>4, <2>1, <2>2 DEF Heard
<1> QED
  BY <1>10, <1>11, <1>12, <1>13, <1>14 DEF new, i, Took
=============================================================================
