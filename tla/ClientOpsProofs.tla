--------------------------- MODULE ClientOpsProofs ---------------------------
(***************************************************************************)
(* What a client is told of its operations, for any number of objects and  *)
(* clients, any operations, scrubs, lost leases and new intervals: an      *)
(* answer to a write is in the committed log for good (AnswersAreDurable), *)
(* a read sees a committed version and no older one than its client was    *)
(* entitled to (ReadsCurrent), and the assertions on the lists hold        *)
(* (NoAssertFails).                                                        *)
(*                                                                         *)
(* The argument: what the primary has logged behind the committed end is   *)
(* what stands in the repop queue, entry by entry (PendingInv); the locks  *)
(* keep a read apart from every repop that changes its object (LockInv),   *)
(* so that the version it finds is committed; and between two intervals    *)
(* nothing is in progress (QuietInv).                                      *)
(***************************************************************************)
EXTENDS ClientOps, FiniteSetTheorems, SequenceTheorems, TLAPS

(* Operations that were sent, and what the lists of a call hold of them.   *)
Sent == {op \in Op : floor[op] # {}}
Outcome == {"ok", "EEXIST", "ENOENT"}
RepopType(S) == [op : S, v : Nat, o : Object, lock : {"write", "excl", None}]
DupType(S) == [op : S, v : Nat]
EntryType == [op : Op, o : Object, r : Outcome]
ReplyType == [op : Op, r : Outcome, v : Nat]

Lists(C, S) ==
  /\ C = [queue |-> C.queue, waiting |-> C.waiting, rw |-> C.rw,
          async |-> C.async, repops |-> C.repops, ondisk |-> C.ondisk,
          scrub |-> C.scrub, laggy |-> C.laggy]
  /\ C.queue \in Seq(S) /\ C.waiting \in [ListName -> Seq(S)]
  /\ C.rw \in [Object -> Seq(S)] /\ C.async \in Seq(S)
  /\ C.repops \in Seq(RepopType(S)) /\ C.ondisk \subseteq DupType(S)

PgRecord(p) ==
  /\ p = [st |-> p.st, flush |-> p.flush, late |-> p.late, laggy |-> p.laggy,
          scrub |-> p.scrub]
  /\ p.st \in {"peering", "peered", "active"}

TypeInv ==
  /\ begin \in Begin /\ Lists(Call, Sent)
  /\ unreadable \in [Object -> Seq(Sent)] /\ degraded \in [Object -> Seq(Sent)]
  /\ toSend \in [Client -> SUBSET Op]
  /\ log \in Seq(EntryType) /\ stable \in Nat /\ stable <= Len(log)
  /\ replies \subseteq ReplyType /\ answered \in [Op -> ReplyType \cup {NoReply}]
  /\ \A op \in Op : answered[op] # NoReply => answered[op].op = op
  /\ floor \in [Op -> SUBSET Nat]
  /\ PgRecord(pg)

(* Between two intervals nothing is in progress.                           *)
QuietInv ==
  /\ pg.st # "active" => async = <<>> /\ repops = <<>> /\ ondisk = {}
  /\ pg.st = "peering" => waiting["flush"] = <<>>

LogInv == \A i \in DOMAIN log : log[i].o = Obj(log[i].op) /\ may_write(log[i].op)

(* The repops p are the entries of the log l behind the committed ones, and *)
(* each dup of d is one of an entry behind them.                            *)
Behind(p, d, l, s) ==
  /\ Len(l) = s + Len(p)
  /\ \A i \in DOMAIN p :
       /\ p[i].v = s + i /\ p[i].op = l[s + i].op /\ p[i].o = l[s + i].o
       /\ l[s + i].r = "ok" => p[i].lock # None
  /\ \A w \in d : s < w.v /\ w.v <= Len(l) /\ l[w.v].op = w.op

PendingInv == pg.st # "peering" => Behind(repops, ondisk, log, stable)

(* A read in progress (a) shares its object with reads only, a guarded     *)
(* operation with nothing.                                                 *)
Locked(a, p) ==
  /\ \A i \in DOMAIN a : kind(a[i]) \in {"read", "guarded"}
  /\ \A i, j \in DOMAIN a : Obj(a[i]) = Obj(a[j]) /\ i # j =>
       kind(a[i]) = "read" /\ kind(a[j]) = "read"
  /\ \A i \in DOMAIN a, j \in DOMAIN p :
       p[j].lock # None => p[j].o # Obj(a[i])

LockInv == Locked(async, repops)

(* What the clients were told when an operation was sent, and since.       *)
FloorInv ==
  \A op \in Op : \A v \in floor[op] :
    v # 0 => v <= stable /\ log[v].o = Obj(op) /\ log[v].r = "ok"

RightReply(m) ==
  /\ m.op \in Sent
  /\ may_write(m.op) => m.v \in 1 .. stable /\ log[m.v].op = m.op /\ log[m.v].r = m.r
  /\ ~may_write(m.op) => m.v <= stable /\ \A v \in floor[m.op] : m.v >= v

ReplyInv == \A m \in Given : RightReply(m)

ClientInv == /\ TypeInv /\ QuietInv /\ LogInv /\ PendingInv /\ LockInv
             /\ FloorInv /\ ReplyInv /\ NoAssertFails
-----------------------------------------------------------------------------
(* A set of natural numbers that has the predecessor of each of its        *)
(* members, and not 0, is empty: down from any c of them they are finitely *)
(* many, so that the predecessors would be all of them, c included.        *)
LEMMA NoDescent ==
  ASSUME NEW C \in SUBSET Nat, \A x \in C : x # 0 /\ x - 1 \in C
  PROVE  C = {}
<1> SUFFICES ASSUME NEW c \in C PROVE FALSE
  OBVIOUS
<1> DEFINE D == {x \in C : x <= c}
<1> DEFINE f == [x \in D |-> x - 1]
<1>1. IsFiniteSet(D)
  BY FS_BoundedSetOfNaturals
<1>2. \A x \in D : x - 1 \in D
  <2> SUFFICES ASSUME NEW x \in D PROVE x - 1 \in C /\ x - 1 <= c
    OBVIOUS
  <2>1. x \in Nat /\ c \in Nat /\ x <= c
    OBVIOUS
  <2> QED
    BY <2>1
<1>2a. f \in [D -> D]
  BY <1>2
<1>3. \A x, y \in D : f[x] = f[y] => x = y
  OBVIOUS
<1>4. f \in Injection(D, D)
  BY <1>2a, <1>3 DEF Injection, IsInjective
<1>5. f \in Surjection(D, D)
  BY <1>1, <1>4, FS_Injection
<1>6. \E y \in D : f[y] = c
  <2>1. c \in D
    OBVIOUS
  <2> HIDE DEF D, f
  <2> QED
    BY <1>5, <2>1 DEF Surjection
<1> QED
  BY <1>6

(* Induction over the natural numbers, for a set of them.                  *)
LEMMA SetInduction ==
  ASSUME NEW T, 0 \in T, \A n \in Nat : n \in T => n + 1 \in T
  PROVE  Nat \subseteq T
<1> DEFINE C == Nat \ T
<1>1. \A x \in C : x # 0 /\ x - 1 \in C
  <2> SUFFICES ASSUME NEW x \in C PROVE x # 0 /\ x - 1 \in C
    OBVIOUS
  <2>1. x # 0 /\ x - 1 \in Nat
    OBVIOUS
  <2>2. x - 1 \in T => x \in T
    BY <2>1
  <2> QED
    BY <2>1, <2>2
<1>2. C = {}
  BY <1>1, NoDescent
<1> QED
  BY <1>2

(* A set of natural numbers that is not empty has a least member.          *)
LEMMA LeastMember ==
  ASSUME NEW S \in SUBSET Nat, S # {}
  PROVE  \E m \in S : \A x \in S : m <= x
<1> SUFFICES ASSUME \A m \in S : \E x \in S : ~(m <= x) PROVE FALSE
  OBVIOUS
<1> DEFINE T == {n \in Nat : \A x \in S : n <= x}
<1>1. 0 \in T
  OBVIOUS
<1>2. \A n \in Nat : n \in T => n + 1 \in T
  <2> SUFFICES ASSUME NEW n \in Nat, n \in T, NEW x \in S PROVE n + 1 <= x
    OBVIOUS
  <2>1. n \notin S
    OBVIOUS
  <2>2. n <= x /\ n # x /\ x \in Nat
    BY <2>1
  <2> QED
    BY <2>2
<1> HIDE DEF T
<1>3. Nat \subseteq T
  BY <1>1, <1>2, SetInduction
<1>4. PICK x \in S : TRUE
  OBVIOUS
<1>5. x + 1 \in T
  BY <1>3
<1>6. x + 1 <= x
  BY <1>5 DEF T
<1> QED
  BY <1>6


(* The recursive function of FlattenSeq, and those of the two loops.       *)
IsFlatten(e, m, s) ==
  e = [n \in 1 .. m |-> IF n = 1 THEN s[n] ELSE e[n - 1] \o s[n]]

(* There is such a function for every length.                              *)
LEMMA FlattenExists ==
  ASSUME NEW s
  PROVE  \A m \in Nat : \E e : IsFlatten(e, m, s)
<1> DEFINE G(e, m) == e = [n \in 1 .. m |->
                             IF n = 1 THEN s[n] ELSE e[n - 1] \o s[n]]
<1> DEFINE T == {m \in Nat : \E e : G(e, m)}
<1>1. 0 \in T
  <2> DEFINE e0 == [n \in 1 .. 0 |-> s[n]]
  <2>1. G(e0, 0)
    <3>1. \A n \in 1 .. 0 : n = 1
      OBVIOUS
    <3> QED
      BY <3>1
  <2> QED
    BY <2>1
<1>2. \A m \in Nat : m \in T => m + 1 \in T
  <2> SUFFICES ASSUME NEW m \in Nat, m \in T PROVE m + 1 \in T
    OBVIOUS
  <2>0. PICK d : G(d, m)
    <3> HIDE DEF G
    <3> QED
      OBVIOUS
  <2>0a. d = [n \in 1 .. m |-> IF n = 1 THEN s[n] ELSE d[n - 1] \o s[n]]
    BY <2>0
  <2> DEFINE e1 == [n \in 1 .. m + 1 |-> IF n = m + 1
                                         THEN (IF m + 1 = 1 THEN s[n] ELSE d[m] \o s[m + 1])
                                         ELSE d[n]]
  <2>1. \A n \in 1 .. m + 1 :
           e1[n] = IF n = 1 THEN s[n] ELSE e1[n - 1] \o s[n]
    <3> SUFFICES ASSUME NEW n \in 1 .. m + 1
                 PROVE  e1[n] = IF n = 1 THEN s[n] ELSE e1[n - 1] \o s[n]
      OBVIOUS
    <3>1. CASE n = m + 1
      <4>1. CASE n = 1
        BY <3>1, <4>1
      <4>2. CASE n # 1
        <5>1. n - 1 = m /\ m \in 1 .. m + 1 /\ m # m + 1
          BY <3>1, <4>2
        <5>2. e1[n - 1] = d[m]
          BY <5>1
        <5>3. e1[n] = d[m] \o s[m + 1]
          BY <3>1, <4>2
        <5> HIDE DEF e1
        <5> QED
          BY <3>1, <4>2, <5>2, <5>3
      <4> QED
        BY <4>1, <4>2
    <3>2. CASE n # m + 1
      <4>1. n \in 1 .. m
        BY <3>2
      <4>2. e1[n] = d[n]
        BY <3>2
      <4>3. d[n] = IF n = 1 THEN s[n] ELSE d[n - 1] \o s[n]
        BY <2>0a, <4>1
      <4>4. CASE n = 1
        BY <4>2, <4>3, <4>4
      <4>5. CASE n # 1
        <5>1. n - 1 \in 1 .. m + 1 /\ n - 1 # m + 1
          BY <4>1, <4>5
        <5>2. e1[n - 1] = d[n - 1]
          BY <5>1
        <5> QED
          BY <4>2, <4>3, <4>5, <5>2
      <4> QED
        BY <4>4, <4>5
    <3> QED
      BY <3>1, <3>2
  <2>2. G(e1, m + 1)
    <3>1. e1 = [n \in 1 .. m + 1 |-> e1[n]]
      OBVIOUS
    <3> HIDE DEF e1
    <3> QED
      BY <2>1, <3>1
  <2> HIDE DEF G
  <2> QED
    BY <2>2
<1> HIDE DEF T
<1>3. Nat \subseteq T
  BY <1>1, <1>2, SetInduction
<1> QED
  <2> SUFFICES ASSUME NEW m \in Nat PROVE \E e : IsFlatten(e, m, s)
    OBVIOUS
  <2>1. \E e : G(e, m)
    BY <1>3 DEF T
  <2> QED
    BY <2>1, Zenon DEF IsFlatten

(* Reads dropped one by one.                                               *)
IsDrops(e, m, C) ==
  e = [n \in 0 .. m |-> IF n = 0 THEN C ELSE drop_read(e[n - 1])]

(* There is such a function for every number of reads.                     *)
LEMMA DropsExist ==
  ASSUME NEW C
  PROVE  \A m \in Nat : \E e : IsDrops(e, m, C)
<1> DEFINE G(e, m) == e = [n \in 0 .. m |->
                             IF n = 0 THEN C ELSE drop_read(e[n - 1])]
<1> DEFINE T == {m \in Nat : \E e : G(e, m)}
<1>1. 0 \in T
  <2> DEFINE e0 == [n \in 0 .. 0 |-> C]
  <2>1. G(e0, 0)
    <3>1. \A n \in 0 .. 0 : n = 0
      OBVIOUS
    <3> QED
      BY <3>1
  <2> QED
    BY <2>1
<1>2. \A m \in Nat : m \in T => m + 1 \in T
  <2> SUFFICES ASSUME NEW m \in Nat, NEW d, G(d, m) PROVE \E e : G(e, m + 1)
    OBVIOUS
  <2> DEFINE e1 == [n \in 0 .. m + 1 |-> IF n = m + 1
                                         THEN (IF m + 1 = 0 THEN C ELSE drop_read(d[m]))
                                         ELSE d[n]]
  <2>1. \A n \in 0 .. m + 1 :
           e1[n] = IF n = 0 THEN C ELSE drop_read(e1[n - 1])
    <3> SUFFICES ASSUME NEW n \in 0 .. m + 1
                 PROVE  e1[n] = IF n = 0 THEN C ELSE drop_read(e1[n - 1])
      OBVIOUS
    <3>1. CASE n = m + 1
      <4>1. CASE n = 0
        BY <3>1, <4>1
      <4>2. CASE n # 0
        <5>1. n - 1 = m /\ m \in 0 .. m + 1 /\ m # m + 1
          BY <3>1, <4>2
        <5>2. e1[n - 1] = d[m]
          BY <5>1
        <5>3. e1[n] = drop_read(d[m])
          BY <3>1, <4>2
        <5> HIDE DEF e1
        <5> QED
          BY <3>1, <4>2, <5>2, <5>3
      <4> QED
        BY <4>1, <4>2
    <3>2. CASE n # m + 1
      <4>1. n \in 0 .. m
        BY <3>2
      <4>2. e1[n] = d[n]
        BY <3>2
      <4>3. d[n] = IF n = 0 THEN C ELSE drop_read(d[n - 1])
        BY <4>1
      <4>4. CASE n = 0
        BY <4>2, <4>3, <4>4
      <4>5. CASE n # 0
        <5>1. n - 1 \in 0 .. m + 1 /\ n - 1 # m + 1
          BY <4>1, <4>5
        <5>2. e1[n - 1] = d[n - 1]
          BY <5>1
        <5> QED
          BY <4>2, <4>3, <4>5, <5>2
      <4> QED
        BY <4>4, <4>5
    <3> QED
      BY <3>1, <3>2
  <2>2. G(e1, m + 1)
    <3>1. e1 = [n \in 0 .. m + 1 |-> e1[n]]
      OBVIOUS
    <3> HIDE DEF e1
    <3> QED
      BY <2>1, <3>1
  <2> QED
    BY <2>2
<1> HIDE DEF T
<1>3. Nat \subseteq T
  BY <1>1, <1>2, SetInduction
<1> QED
  <2> SUFFICES ASSUME NEW m \in Nat PROVE \E e : IsDrops(e, m, C)
    OBVIOUS
  <2>1. \E e : G(e, m)
    BY <1>3 DEF T
  <2> QED
    BY <2>1, Zenon DEF IsDrops

(* Repops removed one by one.                                              *)
IsRemoves(e, m, C) ==
  e = [n \in 0 .. m |-> IF n = 0 THEN C ELSE remove_repop(e[n - 1])]

(* There is such a function for every number of repops.                    *)
LEMMA RemovesExist ==
  ASSUME NEW C
  PROVE  \A m \in Nat : \E e : IsRemoves(e, m, C)
<1> DEFINE G(e, m) == e = [n \in 0 .. m |->
                             IF n = 0 THEN C ELSE remove_repop(e[n - 1])]
<1> DEFINE T == {m \in Nat : \E e : G(e, m)}
<1>1. 0 \in T
  <2> DEFINE e0 == [n \in 0 .. 0 |-> C]
  <2>1. G(e0, 0)
    <3>1. \A n \in 0 .. 0 : n = 0
      OBVIOUS
    <3> QED
      BY <3>1
  <2> QED
    BY <2>1
<1>2. \A m \in Nat : m \in T => m + 1 \in T
  <2> SUFFICES ASSUME NEW m \in Nat, NEW d, G(d, m) PROVE \E e : G(e, m + 1)
    OBVIOUS
  <2> DEFINE e1 == [n \in 0 .. m + 1 |-> IF n = m + 1
                                         THEN (IF m + 1 = 0 THEN C ELSE remove_repop(d[m]))
                                         ELSE d[n]]
  <2>1. \A n \in 0 .. m + 1 :
           e1[n] = IF n = 0 THEN C ELSE remove_repop(e1[n - 1])
    <3> SUFFICES ASSUME NEW n \in 0 .. m + 1
                 PROVE  e1[n] = IF n = 0 THEN C ELSE remove_repop(e1[n - 1])
      OBVIOUS
    <3>1. CASE n = m + 1
      <4>1. CASE n = 0
        BY <3>1, <4>1
      <4>2. CASE n # 0
        <5>1. n - 1 = m /\ m \in 0 .. m + 1 /\ m # m + 1
          BY <3>1, <4>2
        <5>2. e1[n - 1] = d[m]
          BY <5>1
        <5>3. e1[n] = remove_repop(d[m])
          BY <3>1, <4>2
        <5> HIDE DEF e1
        <5> QED
          BY <3>1, <4>2, <5>2, <5>3
      <4> QED
        BY <4>1, <4>2
    <3>2. CASE n # m + 1
      <4>1. n \in 0 .. m
        BY <3>2
      <4>2. e1[n] = d[n]
        BY <3>2
      <4>3. d[n] = IF n = 0 THEN C ELSE remove_repop(d[n - 1])
        BY <4>1
      <4>4. CASE n = 0
        BY <4>2, <4>3, <4>4
      <4>5. CASE n # 0
        <5>1. n - 1 \in 0 .. m + 1 /\ n - 1 # m + 1
          BY <4>1, <4>5
        <5>2. e1[n - 1] = d[n - 1]
          BY <5>1
        <5> QED
          BY <4>2, <4>3, <4>5, <5>2
      <4> QED
        BY <4>4, <4>5
    <3> QED
      BY <3>1, <3>2
  <2>2. G(e1, m + 1)
    <3>1. e1 = [n \in 0 .. m + 1 |-> e1[n]]
      OBVIOUS
    <3> HIDE DEF e1
    <3> QED
      BY <2>1, <3>1
  <2> QED
    BY <2>2
<1> HIDE DEF T
<1>3. Nat \subseteq T
  BY <1>1, <1>2, SetInduction
<1> QED
  <2> SUFFICES ASSUME NEW m \in Nat PROVE \E e : IsRemoves(e, m, C)
    OBVIOUS
  <2>1. \E e : G(e, m)
    BY <1>3 DEF T
  <2> QED
    BY <2>1, Zenon DEF IsRemoves
-----------------------------------------------------------------------------
(* The recursive functions, unfolded.                                      *)
LEMMA FlattenUnfolds ==
  ASSUME NEW s, Len(s) \in Nat, Len(s) # 0
  PROVE  \E e : /\ e[1] = s[1] /\ \A n \in 2 .. Len(s) : e[n] = e[n - 1] \o s[n]
                /\ FlattenSeq(s) = e[Len(s)]
<1> DEFINE m == Len(s)
<1> DEFINE G(e) == e = [n \in 1 .. Len(s) |->
                          IF n = 1 THEN s[n] ELSE e[n - 1] \o s[n]]
<1>1. \E e : G(e)
  <2>1. \E e : IsFlatten(e, Len(s), s)
    BY FlattenExists
  <2>2. PICK e : IsFlatten(e, Len(s), s)
    BY <2>1
  <2>3. G(e)
    BY <2>2, Zenon DEF IsFlatten
  <2> HIDE DEF G
  <2> QED
    BY <2>3
<1> DEFINE e == CHOOSE e : G(e)
<1>2. G(e)
  <2> HIDE DEF G
  <2> QED
    BY <1>1
<1>3. FlattenSeq(s) = e[Len(s)]
  BY Zenon DEF FlattenSeq
<1> HIDE DEF e
<1>4. 1 \in 1 .. Len(s)
  OBVIOUS
<1>5. e[1] = s[1]
  BY <1>2, <1>4
<1>6. \A n \in 2 .. Len(s) : e[n] = e[n - 1] \o s[n]
  <2> SUFFICES ASSUME NEW n \in 2 .. Len(s) PROVE e[n] = e[n - 1] \o s[n]
    OBVIOUS
  <2>1. n \in 1 .. Len(s) /\ n # 1
    OBVIOUS
  <2> QED
    BY <1>2, <2>1
<1> QED
  BY <1>3, <1>5, <1>6

(* clear_async_reads is the last of the states that dropping the reads one *)
(* by one goes through.                                                    *)
LEMMA DropsUnfold ==
  ASSUME NEW C, Len(C.async) \in Nat
  PROVE  \E e : /\ e[0] = C /\ \A n \in 1 .. Len(C.async) : e[n] = drop_read(e[n - 1])
                /\ clear_async_reads(C) = e[Len(C.async)]
<1> DEFINE G(e) == e = [n \in 0 .. Len(C.async) |->
                          IF n = 0 THEN C ELSE drop_read(e[n - 1])]
<1>1. \E e : G(e)
  <2>1. \E e : IsDrops(e, Len(C.async), C)
    BY DropsExist
  <2>2. PICK e : IsDrops(e, Len(C.async), C)
    BY <2>1
  <2>3. G(e)
    BY <2>2, Zenon DEF IsDrops
  <2> HIDE DEF G
  <2> QED
    BY <2>3
<1> DEFINE e == CHOOSE e : G(e)
<1>2. G(e)
  <2> HIDE DEF G
  <2> QED
    BY <1>1
<1>3. clear_async_reads(C) = e[Len(C.async)]
  BY Zenon DEF clear_async_reads
<1> HIDE DEF e
<1>4. e[0] = C
  BY <1>2
<1>5. \A n \in 1 .. Len(C.async) : e[n] = drop_read(e[n - 1])
  BY <1>2
<1> QED
  BY <1>3, <1>4, <1>5

(* What is requeued of the repops: each with its dups.                     *)
RequeuedRepops(C) ==
  FlattenSeq([i \in DOMAIN C.repops |->
    <<C.repops[i].op>> \o SetToSeq(DupsOf(C.repops[i].v))])

(* apply_and_flush_repops takes the last of the states that removing the   *)
(* repops one by one goes through.                                         *)
LEMMA RemovesUnfold ==
  ASSUME NEW C, Len(C.repops) \in Nat
  PROVE  \E e : /\ e[0] = C /\ \A n \in 1 .. Len(C.repops) : e[n] = remove_repop(e[n - 1])
                /\ apply_and_flush_repops(C) =
                     requeue_ops([e[Len(C.repops)] EXCEPT !.ondisk = {}],
                                 RequeuedRepops(C))
<1> DEFINE G(e) == e = [n \in 0 .. Len(C.repops) |->
                          IF n = 0 THEN C ELSE remove_repop(e[n - 1])]
<1>1. \E e : G(e)
  <2>1. \E e : IsRemoves(e, Len(C.repops), C)
    BY RemovesExist
  <2>2. PICK e : IsRemoves(e, Len(C.repops), C)
    BY <2>1
  <2>3. G(e)
    BY <2>2, Zenon DEF IsRemoves
  <2> HIDE DEF G
  <2> QED
    BY <2>3
<1> DEFINE e == CHOOSE e : G(e)
<1>2. G(e)
  <2> HIDE DEF G
  <2> QED
    BY <1>1
<1>3. apply_and_flush_repops(C) =
        requeue_ops([e[Len(C.repops)] EXCEPT !.ondisk = {}], RequeuedRepops(C))
  BY Zenon DEF apply_and_flush_repops, RequeuedRepops
<1> HIDE DEF e
<1>4. e[0] = C
  BY <1>2
<1>5. \A n \in 1 .. Len(C.repops) : e[n] = remove_repop(e[n - 1])
  BY <1>2
<1> QED
  BY <1>3, <1>4, <1>5

(* FlattenSeq of sequences of operations is a sequence of operations.      *)
LEMMA FlattenTyped ==
  ASSUME NEW S, NEW s \in Seq(Seq(S))
  PROVE  FlattenSeq(s) \in Seq(S)
<1>1. CASE Len(s) = 0
  <2>1. s = <<>> /\ <<>> \in Seq(S)
    BY <1>1
  <2> QED
    BY <1>1, <2>1 DEF FlattenSeq
<1>2. CASE Len(s) # 0
  <2>1. Len(s) \in Nat /\ \A i \in 1 .. Len(s) : s[i] \in Seq(S)
    OBVIOUS
  <2>2. PICK e : /\ e[1] = s[1] /\ \A n \in 2 .. Len(s) : e[n] = e[n - 1] \o s[n]
                 /\ FlattenSeq(s) = e[Len(s)]
    BY <1>2, <2>1, FlattenUnfolds
  <2> DEFINE T == {n \in Nat : n + 1 \in 1 .. Len(s) => e[n + 1] \in Seq(S)}
  <2>3. 0 \in T
    <3>1. 1 \in 1 .. Len(s)
      BY <1>2, <2>1
    <3>2. e[1] \in Seq(S)
      BY <2>1, <2>2, <3>1
    <3> QED
      BY <3>2
  <2>4. \A n \in Nat : n \in T => n + 1 \in T
    <3> SUFFICES ASSUME NEW n \in Nat, n \in T, (n + 1) + 1 \in 1 .. Len(s)
                 PROVE  e[(n + 1) + 1] \in Seq(S)
      OBVIOUS
    <3> DEFINE k == (n + 1) + 1
    <3>1. k \in 2 .. Len(s) /\ k \in 1 .. Len(s) /\ k - 1 = n + 1 /\ n + 1 \in 1 .. Len(s)
      BY <2>1
    <3>2. e[n + 1] \in Seq(S)
      BY <3>1
    <3>3. s[k] \in Seq(S)
      BY <2>1, <3>1
    <3> HIDE DEF k
    <3>4. e[k] = e[n + 1] \o s[k]
      BY <2>2, <3>1
    <3>5. e[k] \in Seq(S)
      BY <3>2, <3>3, <3>4, ConcatProperties
    <3> QED
      BY <3>5 DEF k
  <2> HIDE DEF T
  <2>5. Nat \subseteq T
    BY <2>3, <2>4, SetInduction
  <2>6. Len(s) - 1 \in Nat /\ (Len(s) - 1) + 1 = Len(s) /\ Len(s) \in 1 .. Len(s)
    BY <1>2, <2>1
  <2>7. e[(Len(s) - 1) + 1] \in Seq(S)
    BY <2>5, <2>6 DEF T
  <2> QED
    BY <2>2, <2>6, <2>7
<1> QED
  BY <1>1, <1>2
-----------------------------------------------------------------------------
(* The record of lists, field by field.                                    *)
ListsIs(q, w, r, a, p, d, sc, la) ==
  [queue |-> q, waiting |-> w, rw |-> r, async |-> a, repops |-> p,
   ondisk |-> d, scrub |-> sc, laggy |-> la]

(* Its fields are what it was made of.                                     *)
LEMMA ListsFields ==
  ASSUME NEW q, NEW w, NEW r, NEW a, NEW p, NEW d, NEW sc, NEW la, NEW C,
         C = ListsIs(q, w, r, a, p, d, sc, la)
  PROVE  /\ C.queue = q /\ C.waiting = w /\ C.rw = r /\ C.async = a /\ C.repops = p
         /\ C.ondisk = d /\ C.scrub = sc /\ C.laggy = la
BY DEF ListsIs

(* Made of well-typed lists it is well-typed.                              *)
LEMMA ListsTyped ==
  ASSUME NEW S, NEW q \in Seq(S), NEW w \in [ListName -> Seq(S)],
         NEW r \in [Object -> Seq(S)], NEW a \in Seq(S), NEW p \in Seq(RepopType(S)),
         NEW d \in SUBSET DupType(S), NEW sc, NEW la, NEW C,
         C = ListsIs(q, w, r, a, p, d, sc, la)
  PROVE  Lists(C, S)
<1>1. /\ C.queue = q /\ C.waiting = w /\ C.rw = r /\ C.async = a /\ C.repops = p
      /\ C.ondisk = d /\ C.scrub = sc /\ C.laggy = la
  BY ListsFields
<1>2. C = ListsIs(C.queue, C.waiting, C.rw, C.async, C.repops, C.ondisk, C.scrub, C.laggy)
  BY <1>1
<1> QED
  BY <1>1, <1>2 DEF Lists, ListsIs

(* The parts of well-typed lists.                                          *)
LEMMA ListsAre ==
  ASSUME NEW C, NEW S, Lists(C, S)
  PROVE  /\ C = ListsIs(C.queue, C.waiting, C.rw, C.async, C.repops, C.ondisk,
                        C.scrub, C.laggy)
         /\ C.queue \in Seq(S) /\ C.waiting \in [ListName -> Seq(S)]
         /\ C.rw \in [Object -> Seq(S)] /\ C.async \in Seq(S)
         /\ C.repops \in Seq(RepopType(S)) /\ C.ondisk \in SUBSET DupType(S)
BY DEF Lists, ListsIs

(* What each of the changes makes of it.                                   *)
LEMMA ListsChange ==
  ASSUME NEW C, NEW S, Lists(C, S), NEW x
  PROVE  /\ [C EXCEPT !.async = x] =
              ListsIs(C.queue, C.waiting, C.rw, x, C.repops, C.ondisk, C.scrub, C.laggy)
         /\ [C EXCEPT !.repops = x] =
              ListsIs(C.queue, C.waiting, C.rw, C.async, x, C.ondisk, C.scrub, C.laggy)
         /\ [C EXCEPT !.ondisk = x] =
              ListsIs(C.queue, C.waiting, C.rw, C.async, C.repops, x, C.scrub, C.laggy)
         /\ [C EXCEPT !.rw = x] =
              ListsIs(C.queue, C.waiting, x, C.async, C.repops, C.ondisk, C.scrub, C.laggy)
         /\ [C EXCEPT !.waiting = x] =
              ListsIs(C.queue, x, C.rw, C.async, C.repops, C.ondisk, C.scrub, C.laggy)
         /\ [C EXCEPT !.queue = x] =
              ListsIs(x, C.waiting, C.rw, C.async, C.repops, C.ondisk, C.scrub, C.laggy)
<1>1. C = ListsIs(C.queue, C.waiting, C.rw, C.async, C.repops, C.ondisk, C.scrub, C.laggy)
  BY ListsAre
<1> QED
  BY <1>1 DEF ListsIs

(* What a change leaves alone: work in progress and what decides where the *)
(* waiters of a lock go.                                                   *)
SameWork(C, D) ==
  /\ D.async = C.async /\ D.repops = C.repops /\ D.ondisk = C.ondisk
  /\ D.scrub = C.scrub /\ D.laggy = C.laggy

(* Operations put back in the queue: nothing else changes.                 *)
LEMMA RequeueOps ==
  ASSUME NEW C, NEW S, Lists(C, S), NEW ls \in Seq(S), NEW D, D = requeue_ops(C, ls)
  PROVE  /\ Lists(D, S) /\ SameWork(C, D) /\ D.waiting = C.waiting /\ D.rw = C.rw
<1>0. /\ C.queue \in Seq(S) /\ C.waiting \in [ListName -> Seq(S)]
      /\ C.rw \in [Object -> Seq(S)] /\ C.async \in Seq(S)
      /\ C.repops \in Seq(RepopType(S)) /\ C.ondisk \in SUBSET DupType(S)
  BY ListsAre
<1> DEFINE q == ls \o C.queue
<1>1. q \in Seq(S)
  BY <1>0, ConcatProperties
<1>2. D = [C EXCEPT !.queue = q]
  BY DEF requeue_ops
<1> HIDE DEF q
<1>3. D = ListsIs(q, C.waiting, C.rw, C.async, C.repops, C.ondisk, C.scrub, C.laggy)
  BY <1>2, ListsChange
<1>4. Lists(D, S)
  BY <1>0, <1>1, <1>3, ListsTyped
<1>5. SameWork(C, D) /\ D.waiting = C.waiting /\ D.rw = C.rw
  BY <1>3, ListsFields DEF SameWork
<1> QED
  BY <1>4, <1>5

(* One of the lists of do_request is set: nothing else changes.            *)
LEMMA SetOneList ==
  ASSUME NEW C, NEW S, Lists(C, S), NEW l \in ListName, NEW ls \in Seq(S),
         NEW D, D = SetList(C, l, ls)
  PROVE  /\ Lists(D, S) /\ SameWork(C, D) /\ D.queue = C.queue /\ D.rw = C.rw
         /\ D.waiting[l] = ls
         /\ \A k \in ListName \ {l} : D.waiting[k] = C.waiting[k]
<1>0. /\ C.queue \in Seq(S) /\ C.waiting \in [ListName -> Seq(S)]
      /\ C.rw \in [Object -> Seq(S)] /\ C.async \in Seq(S)
      /\ C.repops \in Seq(RepopType(S)) /\ C.ondisk \in SUBSET DupType(S)
  BY ListsAre
<1> DEFINE w == [C.waiting EXCEPT ![l] = ls]
<1>1. /\ w \in [ListName -> Seq(S)] /\ w[l] = ls
      /\ \A k \in ListName \ {l} : w[k] = C.waiting[k]
  BY <1>0
<1>2. D = [C EXCEPT !.waiting = w]
  BY DEF SetList
<1> HIDE DEF w
<1>3. D = ListsIs(C.queue, w, C.rw, C.async, C.repops, C.ondisk, C.scrub, C.laggy)
  BY <1>2, ListsChange
<1>4. Lists(D, S)
  BY <1>0, <1>1, <1>3, ListsTyped
<1>5. SameWork(C, D) /\ D.waiting = w /\ D.queue = C.queue /\ D.rw = C.rw
  BY <1>3, ListsFields DEF SameWork
<1> QED
  BY <1>1, <1>4, <1>5

(* The waiters of a lock are let go into one of the lists; what is in      *)
(* progress stays, and without scrub and lease they go to the queue.       *)
LEMMA ReleaseLocks ==
  ASSUME NEW C, NEW S, Lists(C, S), NEW x \in Object,
         NEW D, D = release_object_locks(C, x)
  PROVE  /\ Lists(D, S) /\ SameWork(C, D)
         /\ D.waiting["flush"] = C.waiting["flush"]
         /\ C.scrub # x /\ ~C.laggy => D.waiting = C.waiting
<1>0. /\ C.queue \in Seq(S) /\ C.waiting \in [ListName -> Seq(S)]
      /\ C.rw \in [Object -> Seq(S)] /\ C.async \in Seq(S)
      /\ C.repops \in Seq(RepopType(S)) /\ C.ondisk \in SUBSET DupType(S)
  BY ListsAre
<1> DEFINE r == [C.rw EXCEPT ![x] = <<>>]
           E == [C EXCEPT !.rw = r]
           w == C.rw[x]
<1>1. r \in [Object -> Seq(S)] /\ w \in Seq(S)
  BY <1>0
<1>2. D = IF Holders(C, x) # {} THEN C
          ELSE IF C.scrub = x THEN PutFirst(E, "scrub", w)
          ELSE IF C.laggy THEN PutFirst(E, "readable", w)
          ELSE requeue_ops(E, w)
  BY DEF release_object_locks
<1>3. E = ListsIs(C.queue, C.waiting, r, C.async, C.repops, C.ondisk, C.scrub, C.laggy)
  <2> HIDE DEF r
  <2> QED
    BY ListsChange
<1> HIDE DEF r, E, w
<1>4. Lists(E, S) /\ SameWork(C, E) /\ E.waiting = C.waiting
  <2>1. Lists(E, S)
    BY <1>0, <1>1, <1>3, ListsTyped
  <2>2. SameWork(C, E) /\ E.waiting = C.waiting
    BY <1>3, ListsFields DEF SameWork
  <2> QED
    BY <2>1, <2>2
<1>5. ASSUME NEW l \in {"scrub", "readable"}, D = PutFirst(E, l, w)
      PROVE  Lists(D, S) /\ SameWork(E, D) /\ D.waiting["flush"] = E.waiting["flush"]
  <2>1. l \in ListName /\ "flush" \in ListName \ {l}
    BY DEF ListName
  <2> DEFINE ls == w \o E.waiting[l]
  <2>2. ls \in Seq(S)
    BY <1>0, <1>1, <1>4, <2>1, ConcatProperties
  <2>3. D = SetList(E, l, ls)
    BY <1>5 DEF PutFirst
  <2> HIDE DEF ls
  <2> QED
    BY <1>4, <2>1, <2>2, <2>3, SetOneList
<1>6. ASSUME D = requeue_ops(E, w)
      PROVE  Lists(D, S) /\ SameWork(E, D) /\ D.waiting = E.waiting
  BY <1>1, <1>4, <1>6, RequeueOps
<1>7. CASE Holders(C, x) # {}
  BY <1>2, <1>7 DEF SameWork
<1>8. CASE Holders(C, x) = {} /\ C.scrub = x
  BY <1>2, <1>4, <1>5, <1>8 DEF SameWork
<1>9. CASE Holders(C, x) = {} /\ C.scrub # x /\ C.laggy
  BY <1>2, <1>4, <1>5, <1>9 DEF SameWork
<1>10. CASE Holders(C, x) = {} /\ C.scrub # x /\ ~C.laggy
  BY <1>2, <1>4, <1>6, <1>10 DEF SameWork
<1> QED
  BY <1>7, <1>8, <1>9, <1>10
-----------------------------------------------------------------------------
(* on_change.                                                              *)
LEMMA OpTyped ==
  ASSUME begin \in Begin, NEW op \in Op
  PROVE  Obj(op) \in Object /\ kind(op) \in Kind
BY ClientOpsAssumption DEF Op, Obj, kind

(* One read is dropped.                                                    *)
LEMMA DropRead ==
  ASSUME begin \in Begin, NEW S \in SUBSET Op, NEW C, Lists(C, S), C.async # <<>>,
         C.scrub = 0, ~C.laggy, NEW D, D = drop_read(C)
  PROVE  /\ Lists(D, S) /\ D.async = Tail(C.async) /\ D.repops = C.repops
         /\ D.ondisk = C.ondisk /\ D.scrub = 0 /\ ~D.laggy /\ D.waiting = C.waiting
<1>0. /\ C.queue \in Seq(S) /\ C.waiting \in [ListName -> Seq(S)]
      /\ C.rw \in [Object -> Seq(S)] /\ C.async \in Seq(S)
      /\ C.repops \in Seq(RepopType(S)) /\ C.ondisk \in SUBSET DupType(S)
  BY ListsAre
<1> DEFINE op == Head(C.async)
           t == Tail(C.async)
           E == [C EXCEPT !.async = t]
           F == release_object_locks(E, Obj(op))
<1>1. op \in S /\ t \in Seq(S) /\ Obj(op) \in Object /\ Obj(op) # 0
  <2>1. op \in S /\ t \in Seq(S)
    BY <1>0
  <2>2. Obj(op) \in Object
    BY <2>1, OpTyped
  <2> QED
    BY <2>1, <2>2 DEF Object
<1> DEFINE ls == <<op>>
<1>2. D = requeue_ops(F, ls)
  BY DEF drop_read
<1>3. E = ListsIs(C.queue, C.waiting, C.rw, t, C.repops, C.ondisk, C.scrub, C.laggy)
  <2> HIDE DEF t
  <2> QED
    BY ListsChange
<1>7. ls \in Seq(S)
  BY <1>1
<1> HIDE DEF op, t, E, F, ls
<1>4. Lists(E, S)
  BY <1>0, <1>1, <1>3, ListsTyped
<1>5. /\ E.async = t /\ E.repops = C.repops /\ E.ondisk = C.ondisk /\ E.scrub = 0
      /\ ~E.laggy /\ E.waiting = C.waiting
  BY <1>3, ListsFields
<1>6. Lists(F, S) /\ SameWork(E, F) /\ F.waiting = E.waiting
  BY <1>1, <1>4, <1>5, ReleaseLocks DEF F
<1>8. Lists(D, S) /\ SameWork(F, D) /\ D.waiting = F.waiting
  BY <1>2, <1>6, <1>7, RequeueOps
<1> QED
  BY <1>5, <1>6, <1>8 DEF SameWork, t

(* One repop is removed.                                                   *)
LEMMA RemoveRepop ==
  ASSUME NEW S \in SUBSET Op, NEW C, Lists(C, S), C.repops # <<>>,
         C.scrub = 0, ~C.laggy, NEW D, D = remove_repop(C)
  PROVE  /\ Lists(D, S) /\ D.async = C.async /\ D.repops = Tail(C.repops)
         /\ D.ondisk = C.ondisk /\ D.scrub = 0 /\ ~D.laggy /\ D.waiting = C.waiting
<1>0. /\ C.queue \in Seq(S) /\ C.waiting \in [ListName -> Seq(S)]
      /\ C.rw \in [Object -> Seq(S)] /\ C.async \in Seq(S)
      /\ C.repops \in Seq(RepopType(S)) /\ C.ondisk \in SUBSET DupType(S)
  BY ListsAre
<1> DEFINE p == Head(C.repops)
           t == Tail(C.repops)
           E == [C EXCEPT !.repops = t]
<1>1. p \in RepopType(S) /\ t \in Seq(RepopType(S))
  <2> HIDE DEF RepopType
  <2> QED
    BY <1>0
<1>2. D = IF p.lock = None THEN E ELSE release_object_locks(E, p.o)
  BY DEF remove_repop
<1>3. E = ListsIs(C.queue, C.waiting, C.rw, C.async, t, C.ondisk, C.scrub, C.laggy)
  <2> HIDE DEF t
  <2> QED
    BY ListsChange
<1>3a. p.o \in Object /\ p.o # 0
  BY <1>1 DEF RepopType, Object
<1> HIDE DEF p, t, E
<1>4. Lists(E, S)
  BY <1>0, <1>1, <1>3, ListsTyped
<1>5. /\ E.async = C.async /\ E.repops = t /\ E.ondisk = C.ondisk /\ E.scrub = 0
      /\ ~E.laggy /\ E.waiting = C.waiting
  BY <1>3, ListsFields
<1>6. CASE p.lock = None
  BY <1>2, <1>4, <1>5, <1>6 DEF t
<1>7. CASE p.lock # None
  <2>1. D = release_object_locks(E, p.o)
    BY <1>2, <1>7
  <2>2. Lists(D, S) /\ SameWork(E, D) /\ D.waiting = E.waiting
    BY <2>1, <1>3a, <1>4, <1>5, ReleaseLocks
  <2> QED
    BY <2>2, <1>5 DEF SameWork, t
<1> QED
  BY <1>6, <1>7

(* All of them.                                                            *)
ReadsLeft(C, D, S, n) ==
  /\ Lists(D, S) /\ Len(D.async) = n /\ D.repops = C.repops
  /\ D.ondisk = C.ondisk /\ D.scrub = 0 /\ ~D.laggy /\ D.waiting = C.waiting

(* Dropping a read leaves one less.                                        *)
LEMMA ReadsLeftLess ==
  ASSUME begin \in Begin, NEW S \in SUBSET Op, NEW C, NEW n \in Nat, n # 0, NEW E,
         ReadsLeft(C, E, S, n), NEW D, D = drop_read(E)
  PROVE  ReadsLeft(C, D, S, n - 1)
<1>1. /\ Lists(E, S) /\ Len(E.async) = n /\ E.repops = C.repops
      /\ E.ondisk = C.ondisk /\ E.scrub = 0 /\ ~E.laggy /\ E.waiting = C.waiting
  BY DEF ReadsLeft
<1>2. E.async \in Seq(S)
  BY <1>1, ListsAre
<1>3. E.async # <<>> /\ Len(Tail(E.async)) = n - 1
  BY <1>1, <1>2
<1>4. /\ Lists(D, S) /\ D.async = Tail(E.async) /\ D.repops = E.repops
      /\ D.ondisk = E.ondisk /\ D.scrub = 0 /\ ~D.laggy /\ D.waiting = E.waiting
  BY <1>1, <1>3, DropRead, ZenonT(60)
<1> QED
  BY <1>1, <1>3, <1>4 DEF ReadsLeft

(* clear_async_reads drops all reads in progress and nothing else.         *)
LEMMA ClearAsyncReads ==
  ASSUME begin \in Begin, NEW S \in SUBSET Op, NEW C, Lists(C, S), C.scrub = 0, ~C.laggy,
         NEW D, D = clear_async_reads(C)
  PROVE  ReadsLeft(C, D, S, 0) /\ D.async = <<>>
<1> DEFINE m == Len(C.async)
<1>0. C.async \in Seq(S) /\ m \in Nat
  BY ListsAre
<1>1. PICK e : /\ e[0] = C /\ \A n \in 1 .. m : e[n] = drop_read(e[n - 1])
               /\ clear_async_reads(C) = e[m]
  BY <1>0, DropsUnfold
<1> DEFINE T == {n \in Nat : n <= m => ReadsLeft(C, e[n], S, m - n)}
<1>2. 0 \in T
  <2>1. ReadsLeft(C, e[0], S, m)
    BY <1>0, <1>1 DEF ReadsLeft
  <2>2. m - 0 = m
    BY <1>0
  <2> QED
    BY <2>1, <2>2
<1> HIDE DEF m
<1>3. \A n \in Nat : n \in T => n + 1 \in T
  <2> SUFFICES ASSUME NEW n \in Nat, n \in T, n + 1 <= m
               PROVE  ReadsLeft(C, e[n + 1], S, m - (n + 1))
    OBVIOUS
  <2> DEFINE k == m - n
  <2>1. /\ n <= m /\ n + 1 \in 1 .. m /\ (n + 1) - 1 = n
        /\ k \in Nat /\ k # 0 /\ k - 1 = m - (n + 1)
    BY <1>0
  <2>2. ReadsLeft(C, e[n], S, k)
    BY <2>1
  <2>3. e[n + 1] = drop_read(e[n])
    BY <1>1, <2>1
  <2> HIDE DEF k
  <2>4. ReadsLeft(C, e[n + 1], S, k - 1)
    BY <2>1, <2>2, <2>3, ReadsLeftLess
  <2> QED
    BY <2>1, <2>4
<1> HIDE DEF T
<1>4. Nat \subseteq T
  BY <1>2, <1>3, SetInduction
<1>5. m - m = 0 /\ m <= m /\ m \in T
  BY <1>0, <1>4
<1>6. ReadsLeft(C, D, S, 0)
  BY <1>0, <1>1, <1>5 DEF T
<1>7. D.async \in Seq(S) /\ Len(D.async) = 0
  BY <1>6, ListsAre DEF ReadsLeft
<1> QED
  BY <1>6, <1>7

(* The sequence of a set of at most one element.                           *)
LEMMA SetToSeqOfOne ==
  ASSUME NEW x, NEW T \in SUBSET {x}
  PROVE  SetToSeq(T) \in Seq({x})
<1> DEFINE F == [1 .. Cardinality(T) -> T]
<1>1. \E f \in F : IsInjective(f)
  <2>1. CASE T = {}
    <3>1. Cardinality(T) = 0
      BY <2>1, FS_EmptySet
    <3> DEFINE f == [i \in 1 .. 0 |-> x]
    <3>2. f \in F /\ IsInjective(f)
      BY <2>1, <3>1 DEF IsInjective
    <3> QED
      BY <3>2
  <2>2. CASE T = {x}
    <3>1. Cardinality(T) = 1
      BY <2>2, FS_Singleton
    <3> DEFINE f == [i \in 1 .. 1 |-> x]
    <3>2. f \in F /\ IsInjective(f)
      BY <2>2, <3>1 DEF IsInjective
    <3> QED
      BY <3>2
  <2> QED
    BY <2>1, <2>2
<1>2. SetToSeq(T) \in F
  BY <1>1 DEF SetToSeq
<1>3. Cardinality(T) \in Nat
  <2>1. T = {} \/ T = {x}
    OBVIOUS
  <2> QED
    BY <2>1, FS_EmptySet, FS_Singleton
<1>4. SetToSeq(T) \in [1 .. Cardinality(T) -> {x}]
  BY <1>2
<1> HIDE DEF F
<1> QED
  BY <1>3, <1>4
RepopsLeft(C, D, S, n) ==
  /\ Lists(D, S) /\ D.async = C.async /\ Len(D.repops) = n
  /\ D.ondisk = C.ondisk /\ D.scrub = 0 /\ ~D.laggy /\ D.waiting = C.waiting

(* Removing a repop leaves one less.                                       *)
LEMMA RepopsLeftLess ==
  ASSUME NEW S \in SUBSET Op, NEW C, NEW n \in Nat, n # 0, NEW E,
         RepopsLeft(C, E, S, n), NEW D, D = remove_repop(E)
  PROVE  RepopsLeft(C, D, S, n - 1)
<1>1. /\ Lists(E, S) /\ Len(E.repops) = n /\ E.async = C.async
      /\ E.ondisk = C.ondisk /\ E.scrub = 0 /\ ~E.laggy /\ E.waiting = C.waiting
  BY DEF RepopsLeft
<1>2. E.repops \in Seq(RepopType(S))
  BY <1>1, ListsAre
<1>3. E.repops # <<>> /\ Len(Tail(E.repops)) = n - 1
  <2> DEFINE X == RepopType(S)
  <2>1. E.repops \in Seq(X)
    BY <1>2
  <2> HIDE DEF X
  <2> QED
    BY <1>1, <2>1
<1>4. /\ Lists(D, S) /\ D.async = E.async /\ D.repops = Tail(E.repops)
      /\ D.ondisk = E.ondisk /\ D.scrub = 0 /\ ~D.laggy /\ D.waiting = E.waiting
  BY <1>1, <1>3, RemoveRepop, ZenonT(60)
<1> QED
  BY <1>1, <1>3, <1>4 DEF RepopsLeft

(* What apply_and_flush_repops puts back are operations that were sent:    *)
(* the operation of each repop, and its dups, which are the same.          *)
LEMMA RequeuedTyped ==
  ASSUME NEW S, NEW C, Lists(C, S),
         \A i \in DOMAIN C.repops : DupsOf(C.repops[i].v) \subseteq {C.repops[i].op}
  PROVE  RequeuedRepops(C) \in Seq(S)
<1> DEFINE n == Len(C.repops)
<1>1. /\ n \in Nat /\ DOMAIN C.repops = 1 .. n
      /\ \A i \in 1 .. n : C.repops[i].op \in S
  <2>1. C.repops \in Seq(RepopType(S))
    BY ListsAre
  <2>2. n \in Nat /\ DOMAIN C.repops = 1 .. n /\ \A i \in 1 .. n : C.repops[i] \in RepopType(S)
    <3> DEFINE X == RepopType(S)
    <3>1. C.repops \in Seq(X)
      BY <2>1
    <3> HIDE DEF X
    <3>2. n \in Nat /\ DOMAIN C.repops = 1 .. n /\ \A i \in 1 .. n : C.repops[i] \in X
      BY <3>1
    <3> QED
      BY <3>2 DEF X
  <2> QED
    BY <2>2 DEF RepopType
<1> DEFINE f(i) == <<C.repops[i].op>> \o SetToSeq(DupsOf(C.repops[i].v))
<1>2. \A i \in 1 .. n : f(i) \in Seq(S)
  <2> SUFFICES ASSUME NEW i \in 1 .. n PROVE f(i) \in Seq(S)
    OBVIOUS
  <2> DEFINE x == C.repops[i].op
             q == SetToSeq(DupsOf(C.repops[i].v))
             o == <<x>>
  <2>1. x \in S /\ DupsOf(C.repops[i].v) \in SUBSET {x}
    BY <1>1
  <2>2. q \in Seq({x})
    <3> HIDE DEF x
    <3> QED
      BY <2>1, SetToSeqOfOne
  <2> HIDE DEF x, q
  <2>3. q \in Seq(S) /\ o \in Seq(S)
    BY <2>1, <2>2
  <2> HIDE DEF o
  <2>4. o \o q \in Seq(S)
    BY <2>3, ConcatProperties
  <2> QED
    BY <2>4 DEF o, q, x
<1> DEFINE s == [i \in DOMAIN C.repops |-> f(i)]
<1>3. s \in Seq(Seq(S))
  <2>1. s = [i \in 1 .. n |-> f(i)]
    BY <1>1
  <2> HIDE DEF f, n
  <2>2. s \in [1 .. n -> Seq(S)]
    BY <1>2, <2>1
  <2> HIDE DEF s
  <2> QED
    BY <1>1, <2>2
<1>4. RequeuedRepops(C) = FlattenSeq(s)
  BY Zenon DEF RequeuedRepops
<1> HIDE DEF s
<1> QED
  BY <1>3, <1>4, FlattenTyped

(* apply_and_flush_repops leaves no repop and no dup, and the reads and    *)
(* the waiting lists alone.                                                *)
LEMMA ApplyAndFlush ==
  ASSUME NEW S \in SUBSET Op, NEW C, Lists(C, S), C.scrub = 0, ~C.laggy,
         \A i \in DOMAIN C.repops : DupsOf(C.repops[i].v) \subseteq {C.repops[i].op},
         NEW D, D = apply_and_flush_repops(C)
  PROVE  /\ Lists(D, S) /\ D.async = C.async /\ D.repops = <<>> /\ D.ondisk = {}
         /\ D.waiting = C.waiting
<1> DEFINE m == Len(C.repops)
<1>0. m \in Nat
  <2> DEFINE X == RepopType(S)
  <2>1. C.repops \in Seq(X)
    BY ListsAre
  <2> HIDE DEF X
  <2> QED
    BY <2>1
<1>1. PICK e : /\ e[0] = C /\ \A n \in 1 .. m : e[n] = remove_repop(e[n - 1])
               /\ apply_and_flush_repops(C) =
                    requeue_ops([e[m] EXCEPT !.ondisk = {}], RequeuedRepops(C))
  BY <1>0, RemovesUnfold
<1> DEFINE T == {n \in Nat : n <= m => RepopsLeft(C, e[n], S, m - n)}
<1>2. 0 \in T
  <2>1. RepopsLeft(C, e[0], S, m)
    BY <1>0, <1>1 DEF RepopsLeft
  <2>2. m - 0 = m
    BY <1>0
  <2> QED
    BY <2>1, <2>2
<1> HIDE DEF m
<1>3. \A n \in Nat : n \in T => n + 1 \in T
  <2> SUFFICES ASSUME NEW n \in Nat, n \in T, n + 1 <= m
               PROVE  RepopsLeft(C, e[n + 1], S, m - (n + 1))
    OBVIOUS
  <2> DEFINE k == m - n
  <2>1. /\ n <= m /\ n + 1 \in 1 .. m /\ (n + 1) - 1 = n
        /\ k \in Nat /\ k # 0 /\ k - 1 = m - (n + 1)
    BY <1>0
  <2>2. RepopsLeft(C, e[n], S, k)
    BY <2>1
  <2>3. e[n + 1] = remove_repop(e[n])
    BY <1>1, <2>1
  <2> HIDE DEF k
  <2>4. RepopsLeft(C, e[n + 1], S, k - 1)
    BY <2>1, <2>2, <2>3, RepopsLeftLess
  <2> QED
    BY <2>1, <2>4
<1> HIDE DEF T
<1>4. Nat \subseteq T
  BY <1>2, <1>3, SetInduction
<1>5. m - m = 0 /\ m <= m /\ m \in T
  BY <1>0, <1>4
<1> DEFINE E == e[m]
           rq == RequeuedRepops(C)
           F == [E EXCEPT !.ondisk = {}]
<1>6. RepopsLeft(C, E, S, 0)
  BY <1>0, <1>5 DEF T
<1>7. rq \in Seq(S)
  BY RequeuedTyped
<1>7a. D = requeue_ops(F, rq)
  BY <1>1
<1> HIDE DEF E, rq
<1>8. /\ E.queue \in Seq(S) /\ E.waiting \in [ListName -> Seq(S)]
      /\ E.rw \in [Object -> Seq(S)] /\ E.async \in Seq(S)
      /\ E.repops \in Seq(RepopType(S)) /\ Lists(E, S)
  BY <1>6, ListsAre DEF RepopsLeft
<1>9. F = ListsIs(E.queue, E.waiting, E.rw, E.async, E.repops, {}, E.scrub, E.laggy)
  BY <1>8, ListsChange
<1> HIDE DEF F
<1>10. {} \in SUBSET DupType(S)
  OBVIOUS
<1>11. Lists(F, S)
  BY <1>8, <1>9, <1>10, ListsTyped
<1>12. F.async = E.async /\ F.repops = E.repops /\ F.ondisk = {} /\ F.waiting = E.waiting
  BY <1>9, ListsFields
<1>13. Lists(D, S) /\ SameWork(F, D) /\ D.waiting = F.waiting
  BY <1>7, <1>7a, <1>11, RequeueOps
<1>14. E.repops = <<>>
  <2> DEFINE X == RepopType(S)
  <2>1. E.repops \in Seq(X) /\ Len(E.repops) = 0
    BY <1>6, <1>8 DEF RepopsLeft
  <2> HIDE DEF X
  <2> QED
    BY <2>1
<1> QED
  BY <1>6, <1>12, <1>13, <1>14 DEF SameWork, RepopsLeft

(* The waiters of all objects.                                             *)
LEMMA RequeueWaiters ==
  ASSUME NEW S, NEW C, Lists(C, S), NEW w \in [Object -> Seq(S)],
         NEW D, D = requeue_object_waiters(C, w)
  PROVE  Lists(D, S) /\ SameWork(C, D) /\ D.waiting = C.waiting
<1> DEFINE s == [x \in Object |-> w[x]]
           ls == FlattenSeq(s)
<1>1. s \in Seq(Seq(S))
  <2>1. NObjects \in Nat /\ Object = 1 .. NObjects
    BY ClientOpsAssumption DEF Object
  <2>2. s \in [1 .. NObjects -> Seq(S)]
    BY <2>1
  <2> HIDE DEF s
  <2> QED
    BY <2>1, <2>2
<1>2. ls \in Seq(S)
  <2> HIDE DEF s
  <2> QED
    BY <1>1, FlattenTyped
<1>3. D = requeue_ops(C, ls)
  BY Zenon DEF requeue_object_waiters
<1> HIDE DEF ls
<1> QED
  BY <1>2, <1>3, RequeueOps

(* on_change empties what was in progress and puts everything in the queue. *)
LEMMA OnChange ==
  ASSUME begin \in Begin, NEW S \in SUBSET Op, Lists(Call, S),
         unreadable \in [Object -> Seq(S)], degraded \in [Object -> Seq(S)],
         \A i \in DOMAIN repops : DupsOf(repops[i].v) \subseteq {repops[i].op},
         NEW D, D = on_change
  PROVE  /\ Lists(D, S) /\ D.async = <<>> /\ D.repops = <<>> /\ D.ondisk = {}
         /\ D.waiting = NoLists
<1> DEFINE staged == waiting["readable"] \o waiting["active"] \o waiting["flush"]
                     \o waiting["peered"]
           Z == ListsIs(queue, NoLists, rw, async, repops, ondisk, 0, FALSE)
           A == requeue_ops(Z, staged)
           B == requeue_object_waiters(A, unreadable)
           C == requeue_object_waiters(B, degraded)
           E == requeue_ops(C, waiting["scrub"])
           F == clear_async_reads(E)
<1>1. D = apply_and_flush_repops(F)
  <2> DEFINE Y == Unstaged
  <2>1. Y = Z
    BY DEF ListsIs, Unstaged
  <2>2. D = apply_and_flush_repops(clear_async_reads(requeue_ops(
              requeue_object_waiters(requeue_object_waiters(
                requeue_ops(Y, staged), unreadable), degraded), waiting["scrub"])))
    BY Zenon DEF on_change
  <2> HIDE DEF Y, Z, staged
  <2> QED
    BY <2>1, <2>2
<1>2. /\ queue \in Seq(S) /\ waiting \in [ListName -> Seq(S)]
      /\ rw \in [Object -> Seq(S)] /\ async \in Seq(S)
      /\ repops \in Seq(RepopType(S)) /\ ondisk \in SUBSET DupType(S)
  BY DEF Lists, Call
<1>3. /\ staged \in Seq(S) /\ waiting["scrub"] \in Seq(S)
      /\ NoLists \in [ListName -> Seq(S)]
  <2>1. /\ waiting["readable"] \in Seq(S) /\ waiting["active"] \in Seq(S)
        /\ waiting["flush"] \in Seq(S) /\ waiting["peered"] \in Seq(S)
        /\ waiting["scrub"] \in Seq(S)
    BY <1>2 DEF ListName
  <2>2. staged \in Seq(S)
    BY <2>1
  <2>3. NoLists \in [ListName -> Seq(S)]
    BY DEF NoLists
  <2> QED
    BY <2>1, <2>2, <2>3
<1> HIDE DEF staged, A, B, C, E, F
<1>4. Lists(Z, S)
  <2> HIDE DEF Z
  <2>1. Z = ListsIs(queue, NoLists, rw, async, repops, ondisk, 0, FALSE)
    BY DEF Z
  <2> QED
    BY <1>2, <1>3, <2>1, ListsTyped
<1>5. /\ Z.async = async /\ Z.repops = repops /\ Z.ondisk = ondisk /\ Z.scrub = 0
      /\ ~Z.laggy /\ Z.waiting = NoLists
  BY DEF ListsIs
<1> HIDE DEF Z
<1>6. Lists(A, S) /\ SameWork(Z, A) /\ A.waiting = Z.waiting
  BY <1>3, <1>4, RequeueOps DEF A
<1>7. Lists(B, S) /\ SameWork(A, B) /\ B.waiting = A.waiting
  BY <1>6, RequeueWaiters DEF B
<1>8. Lists(C, S) /\ SameWork(B, C) /\ C.waiting = B.waiting
  BY <1>7, RequeueWaiters DEF C
<1>9. Lists(E, S) /\ SameWork(C, E) /\ E.waiting = C.waiting
  BY <1>3, <1>8, RequeueOps DEF E
<1>10. /\ E.async = async /\ E.repops = repops /\ E.ondisk = ondisk /\ E.scrub = 0
       /\ ~E.laggy /\ E.waiting = NoLists
  BY <1>5, <1>6, <1>7, <1>8, <1>9 DEF SameWork
<1>11. ReadsLeft(E, F, S, 0) /\ F.async = <<>>
  BY <1>9, <1>10, ClearAsyncReads DEF F
<1>12. /\ Lists(F, S) /\ F.repops = repops /\ F.scrub = 0 /\ ~F.laggy
       /\ F.waiting = NoLists
  BY <1>10, <1>11 DEF ReadsLeft
<1>13. \A i \in DOMAIN F.repops : DupsOf(F.repops[i].v) \subseteq {F.repops[i].op}
  BY <1>12, Zenon
<1>14. /\ Lists(D, S) /\ D.async = F.async /\ D.repops = <<>> /\ D.ondisk = {}
       /\ D.waiting = F.waiting
  BY <1>1, <1>12, <1>13, ApplyAndFlush, ZenonT(60)
<1> QED
  BY <1>11, <1>12, <1>14, Zenon
-----------------------------------------------------------------------------
(* Sequences that lose their head or get one more.                         *)
LEMMA TailIndex ==
  ASSUME NEW S, NEW q \in Seq(S), q # <<>>
  PROVE  /\ Head(q) = q[1] /\ 1 \in DOMAIN q /\ Tail(q) \in Seq(S) /\ Head(q) \in S
         /\ Len(Tail(q)) = Len(q) - 1
         /\ \A i \in DOMAIN Tail(q) : /\ i \in Nat /\ i + 1 \in DOMAIN q /\ i + 1 # 1
                                      /\ Tail(q)[i] = q[i + 1]
OBVIOUS

(* The elements of a sequence with one more at its end.                    *)
LEMMA AppendIndex ==
  ASSUME NEW S, NEW q \in Seq(S), NEW x \in S
  PROVE  /\ Append(q, x) \in Seq(S) /\ Len(Append(q, x)) = Len(q) + 1
         /\ Append(q, x)[Len(q) + 1] = x
         /\ \A i \in DOMAIN q : Append(q, x)[i] = q[i]
         /\ \A i \in DOMAIN Append(q, x) : i \in DOMAIN q \/ i = Len(q) + 1
OBVIOUS

(* The locks when a read or a repop ends or begins.                        *)
LEMMA LockedTail ==
  ASSUME NEW S, NEW a \in Seq(S), a # <<>>, NEW p, Locked(a, p)
  PROVE  Locked(Tail(a), p)
<1> DEFINE t == Tail(a)
<1>1. \A i \in DOMAIN t : i \in Nat /\ i + 1 \in DOMAIN a /\ t[i] = a[i + 1]
  BY TailIndex
<1> HIDE DEF t
<1>2. \A i \in DOMAIN t : kind(t[i]) \in {"read", "guarded"}
  BY <1>1 DEF Locked
<1>3. \A i, j \in DOMAIN t : Obj(t[i]) = Obj(t[j]) /\ i # j =>
        kind(t[i]) = "read" /\ kind(t[j]) = "read"
  <2> SUFFICES ASSUME NEW i \in DOMAIN t, NEW j \in DOMAIN t,
                      Obj(t[i]) = Obj(t[j]), i # j
               PROVE  kind(t[i]) = "read" /\ kind(t[j]) = "read"
    OBVIOUS
  <2>1. i + 1 # j + 1 /\ Obj(a[i + 1]) = Obj(a[j + 1])
    BY <1>1
  <2> QED
    BY <1>1, <2>1 DEF Locked
<1>4. \A i \in DOMAIN t, j \in DOMAIN p : p[j].lock # None => p[j].o # Obj(t[i])
  BY <1>1 DEF Locked
<1> QED
  BY <1>2, <1>3, <1>4 DEF Locked, t

(* A repop is removed: the locks of the others are as good as before.      *)
LEMMA LockedTailRepop ==
  ASSUME NEW S, NEW p \in Seq(S), p # <<>>, NEW a, Locked(a, p)
  PROVE  Locked(a, Tail(p))
<1> DEFINE t == Tail(p)
<1>1. \A i \in DOMAIN t : i + 1 \in DOMAIN p /\ t[i] = p[i + 1]
  BY TailIndex
<1> HIDE DEF t
<1>2. Locked(a, t)
  BY <1>1 DEF Locked
<1> QED
  BY <1>2 DEF t

(* A read takes its lock.                                                  *)
LEMMA LockedRead ==
  ASSUME NEW S, NEW a \in Seq(S), NEW op \in S, NEW p, Locked(a, p),
         kind(op) \in {"read", "guarded"},
         \A i \in DOMAIN a : Obj(a[i]) = Obj(op) => kind(a[i]) = "read" /\ kind(op) = "read",
         \A j \in DOMAIN p : p[j].lock # None => p[j].o # Obj(op)
  PROVE  Locked(Append(a, op), p)
<1> DEFINE t == Append(a, op)
           n == Len(a) + 1
<1>1. /\ t[n] = op /\ \A i \in DOMAIN a : t[i] = a[i]
      /\ \A i \in DOMAIN t : i \in DOMAIN a \/ i = n
  BY AppendIndex
<1> HIDE DEF t, n
<1>2. \A i \in DOMAIN t : kind(t[i]) \in {"read", "guarded"}
  BY <1>1 DEF Locked
<1>3. \A i, j \in DOMAIN t : Obj(t[i]) = Obj(t[j]) /\ i # j =>
        kind(t[i]) = "read" /\ kind(t[j]) = "read"
  <2> SUFFICES ASSUME NEW i \in DOMAIN t, NEW j \in DOMAIN t,
                      Obj(t[i]) = Obj(t[j]), i # j
               PROVE  kind(t[i]) = "read" /\ kind(t[j]) = "read"
    OBVIOUS
  <2>1. CASE i \in DOMAIN a /\ j \in DOMAIN a
    <3>1. t[i] = a[i] /\ t[j] = a[j]
      BY <1>1, <2>1
    <3> QED
      BY <2>1, <3>1 DEF Locked
  <2>2. CASE i = n /\ j \in DOMAIN a
    BY <1>1, <2>2
  <2>3. CASE i \in DOMAIN a /\ j = n
    BY <1>1, <2>3
  <2> QED
    BY <1>1, <2>1, <2>2, <2>3
<1>4. \A i \in DOMAIN t, j \in DOMAIN p : p[j].lock # None => p[j].o # Obj(t[i])
  <2> SUFFICES ASSUME NEW i \in DOMAIN t, NEW j \in DOMAIN p, p[j].lock # None
               PROVE  p[j].o # Obj(t[i])
    OBVIOUS
  <2>1. CASE i \in DOMAIN a
    BY <1>1, <2>1 DEF Locked
  <2>2. CASE i = n
    BY <1>1, <2>2
  <2> QED
    BY <1>1, <2>1, <2>2
<1> QED
  BY <1>2, <1>3, <1>4 DEF Locked, t

(* A write takes its lock, or enters without one.                          *)
LEMMA LockedRepop ==
  ASSUME NEW S, NEW p \in Seq(S), NEW r \in S, NEW a, Locked(a, p),
         r.lock = None \/ \A i \in DOMAIN a : r.o # Obj(a[i])
  PROVE  Locked(a, Append(p, r))
<1> DEFINE t == Append(p, r)
           n == Len(p) + 1
<1>1. /\ t[n] = r /\ \A i \in DOMAIN p : t[i] = p[i]
      /\ \A i \in DOMAIN t : i \in DOMAIN p \/ i = n
  BY AppendIndex
<1> HIDE DEF t, n
<1>2. \A i \in DOMAIN a, j \in DOMAIN t : t[j].lock # None => t[j].o # Obj(a[i])
  <2> SUFFICES ASSUME NEW i \in DOMAIN a, NEW j \in DOMAIN t, t[j].lock # None
               PROVE  t[j].o # Obj(a[i])
    OBVIOUS
  <2>1. CASE j \in DOMAIN p
    BY <1>1, <2>1 DEF Locked
  <2>2. CASE j = n
    BY <1>1, <2>2
  <2> QED
    BY <1>1, <2>1, <2>2
<1> QED
  BY <1>2 DEF Locked, t

(* The repop queue when an entry is logged or committed.                   *)
LEMMA BehindAppend ==
  ASSUME NEW S, NEW p \in Seq(S), NEW r \in S, NEW T, NEW l \in Seq(T), NEW e \in T,
         NEW d, NEW s \in Nat, Behind(p, d, l, s),
         r.v = Len(l) + 1, r.op = e.op, r.o = e.o, e.r = "ok" => r.lock # None,
         \A w \in d : w.v \in Nat
  PROVE  Behind(Append(p, r), d, Append(l, e), s)
<1> DEFINE q == Append(p, r)
           k == Append(l, e)
           n == Len(p) + 1
           m == Len(l) + 1
<1>1. /\ q \in Seq(S) /\ Len(q) = n /\ q[n] = r /\ \A i \in DOMAIN p : q[i] = p[i]
      /\ \A i \in DOMAIN q : i \in DOMAIN p \/ i = n
  BY AppendIndex
<1>2. /\ Len(k) = m /\ k[m] = e /\ \A i \in DOMAIN l : k[i] = l[i]
  BY AppendIndex
<1>3. /\ Len(p) \in Nat /\ DOMAIN p = 1 .. Len(p) /\ Len(l) \in Nat
      /\ DOMAIN l = 1 .. Len(l) /\ Len(l) = s + Len(p) /\ m = s + n
  BY DEF Behind
<1>4. r.v = m
  OBVIOUS
<1>5. m = Len(l) + 1
  OBVIOUS
<1> HIDE DEF q, k, n, m
<1>6. \A i \in DOMAIN p : s + i \in DOMAIN l
  BY <1>3
<1>7. \A w \in d : w.v \in DOMAIN l
  BY <1>3 DEF Behind
<1>8. \A i \in DOMAIN q :
        /\ q[i].v = s + i /\ q[i].op = k[s + i].op /\ q[i].o = k[s + i].o
        /\ k[s + i].r = "ok" => q[i].lock # None
  <2> SUFFICES ASSUME NEW i \in DOMAIN q
               PROVE  /\ q[i].v = s + i /\ q[i].op = k[s + i].op /\ q[i].o = k[s + i].o
                      /\ k[s + i].r = "ok" => q[i].lock # None
    OBVIOUS
  <2>1. CASE i \in DOMAIN p
    <3>1. q[i] = p[i] /\ k[s + i] = l[s + i]
      BY <1>1, <1>2, <1>6, <2>1
    <3> QED
      BY <2>1, <3>1 DEF Behind
  <2>2. CASE i = n
    <3>1. q[i] = r /\ k[s + i] = e /\ s + i = m
      BY <1>1, <1>2, <1>3, <2>2
    <3> QED
      BY <1>4, <3>1
  <2> QED
    BY <1>1, <2>1, <2>2
<1>9. \A w \in d : s < w.v /\ w.v <= Len(k) /\ k[w.v].op = w.op
  <2> SUFFICES ASSUME NEW w \in d
               PROVE  s < w.v /\ w.v <= Len(k) /\ k[w.v].op = w.op
    OBVIOUS
  <2>1. k[w.v] = l[w.v]
    BY <1>2, <1>7
  <2>2. s < w.v /\ w.v <= Len(l) /\ l[w.v].op = w.op /\ w.v \in Nat
    BY DEF Behind
  <2> QED
    BY <1>2, <1>3, <1>5, <2>1, <2>2
<1>10. Len(k) = s + Len(q)
  BY <1>1, <1>2, <1>3
<1> QED
  BY <1>8, <1>9, <1>10 DEF Behind, q, k

(* The oldest repop is on disk: its entry is committed, its dups go.       *)
LEMMA BehindTail ==
  ASSUME NEW S, NEW p \in Seq(S), p # <<>>, NEW l, NEW d, NEW s \in Nat,
         Behind(p, d, l, s), \A w \in d : w.v \in Nat, NEW c, c \subseteq d,
         \A w \in c : w.v # s + 1
  PROVE  Behind(Tail(p), c, l, s + 1)
<1> DEFINE t == Tail(p)
<1>1. /\ Len(p) \in Nat /\ Len(t) = Len(p) - 1
      /\ \A i \in DOMAIN t : i \in Nat /\ i + 1 \in DOMAIN p /\ t[i] = p[i + 1]
  BY TailIndex
<1> HIDE DEF t
<1>2. \A i \in DOMAIN t :
        /\ t[i].v = (s + 1) + i /\ t[i].op = l[(s + 1) + i].op
        /\ t[i].o = l[(s + 1) + i].o
        /\ l[(s + 1) + i].r = "ok" => t[i].lock # None
  <2> SUFFICES ASSUME NEW i \in DOMAIN t
               PROVE  /\ t[i].v = (s + 1) + i /\ t[i].op = l[(s + 1) + i].op
                      /\ t[i].o = l[(s + 1) + i].o
                      /\ l[(s + 1) + i].r = "ok" => t[i].lock # None
    OBVIOUS
  <2> DEFINE k == i + 1
  <2>1. k \in DOMAIN p /\ t[i] = p[k] /\ s + k = (s + 1) + i
    BY <1>1
  <2> HIDE DEF k
  <2>2. /\ p[k].v = s + k /\ p[k].op = l[s + k].op /\ p[k].o = l[s + k].o
        /\ l[s + k].r = "ok" => p[k].lock # None
    BY <2>1 DEF Behind
  <2> QED
    BY <2>1, <2>2
<1>3. \A w \in c : s + 1 < w.v /\ w.v <= Len(l) /\ l[w.v].op = w.op
  BY DEF Behind
<1>4. Len(l) = (s + 1) + Len(t)
  BY <1>1 DEF Behind
<1> QED
  BY <1>2, <1>3, <1>4 DEF Behind, t
-----------------------------------------------------------------------------
(* The greatest of a bounded set of numbers.                               *)
LEMMA GreatestMember ==
  ASSUME NEW T \in SUBSET Nat, T # {}, NEW n \in Nat, \A t \in T : t <= n
  PROVE  Max(T) \in T /\ \A t \in T : t <= Max(T)
<1> DEFINE C == {u \in Nat : \A t \in T : t <= u}
<1>1. C # {}
  OBVIOUS
<1>2. PICK x \in C : \A u \in C : x <= u
  BY <1>1, LeastMember
<1>3. x \in T
  <2> SUFFICES ASSUME x \notin T PROVE FALSE
    OBVIOUS
  <2>1. \A t \in T : t <= x - 1 /\ x - 1 \in Nat
    <3> SUFFICES ASSUME NEW t \in T PROVE t <= x - 1 /\ x - 1 \in Nat
      OBVIOUS
    <3>1. t \in Nat /\ x \in Nat /\ t <= x /\ t # x
      OBVIOUS
    <3> QED
      BY <3>1
  <2>2. x - 1 \in Nat
    <3>1. PICK t \in T : TRUE
      OBVIOUS
    <3> QED
      BY <2>1, <3>1
  <2>3. x - 1 \in C
    BY <2>1, <2>2
  <2> QED
    BY <1>2, <2>2, <2>3
<1>4. \A t \in T : x >= t
  OBVIOUS
<1>5. Max(T) \in T /\ \A t \in T : Max(T) >= t
  BY <1>3, <1>4 DEF Max
<1> QED
  BY <1>5

(* The version of an object that no repop changes is committed, and no     *)
(* older than what was answered when an operation on it was sent.          *)
CommittedVersion(x) ==
  /\ VersionOf(x) \in Nat /\ VersionOf(x) <= stable
  /\ \A op \in Op : Obj(op) = x => \A v \in floor[op] : VersionOf(x) >= v

(* It is so: an uncommitted change of the object would have a repop.       *)
LEMMA VersionCommitted ==
  ASSUME TypeInv, PendingInv, FloorInv, pg.st = "active", NEW x,
         \A j \in DOMAIN repops : repops[j].lock # None => repops[j].o # x
  PROVE  CommittedVersion(x)
<1> DEFINE T == Changes(x) \cup {0}
<1>1. /\ log \in Seq(EntryType) /\ stable \in Nat /\ stable <= Len(log)
      /\ floor \in [Op -> SUBSET Nat]
  BY DEF TypeInv
<1>2. DOMAIN log = 1 .. Len(log) /\ Len(log) \in Nat
  <2> DEFINE X == EntryType
  <2>1. log \in Seq(X)
    BY <1>1
  <2> HIDE DEF X
  <2> QED
    BY <2>1
<1>3. \A i \in Changes(x) : i \in Nat /\ i <= stable
  <2> SUFFICES ASSUME NEW i \in Changes(x), ~(i <= stable) PROVE FALSE
    BY <1>2 DEF Changes
  <2>1. i \in 1 .. Len(log) /\ log[i].o = x /\ log[i].r = "ok"
    BY <1>2 DEF Changes
  <2>2. Behind(repops, ondisk, log, stable)
    BY DEF PendingInv
  <2> DEFINE k == i - stable
  <2>3. k \in DOMAIN repops /\ stable + k = i
    <3>1. Len(repops) \in Nat /\ DOMAIN repops = 1 .. Len(repops)
      <4>1. repops \in Seq(RepopType(Sent))
        BY DEF TypeInv, Lists, Call
      <4> DEFINE X == RepopType(Sent)
      <4>2. repops \in Seq(X)
        BY <4>1
      <4> HIDE DEF X
      <4> QED
        BY <4>2
    <3>2. Len(log) = stable + Len(repops)
      BY <2>2 DEF Behind
    <3> QED
      BY <1>1, <1>2, <2>1, <3>1, <3>2
  <2> HIDE DEF k
  <2>4. repops[k].o = x /\ repops[k].lock # None
    BY <2>1, <2>2, <2>3 DEF Behind
  <2> QED
    BY <2>3, <2>4
<1>4. T \in SUBSET Nat /\ T # {} /\ \A t \in T : t <= stable
  BY <1>1, <1>3
<1>5. VersionOf(x) = Max(T)
  BY DEF VersionOf
<1>6. \A op \in Op : Obj(op) = x => floor[op] \subseteq T
  <2> SUFFICES ASSUME NEW op \in Op, Obj(op) = x, NEW v \in floor[op], v # 0
               PROVE  v \in Changes(x)
    OBVIOUS
  <2>1. v \in Nat /\ v <= stable /\ log[v].o = x /\ log[v].r = "ok"
    BY <1>1 DEF FloorInv
  <2> QED
    BY <1>1, <1>2, <2>1 DEF Changes
<1> HIDE DEF T
<1>7. Max(T) \in T /\ \A t \in T : t <= Max(T)
  BY <1>1, <1>4, GreatestMember
<1>8. VersionOf(x) \in Nat /\ VersionOf(x) <= stable
  BY <1>4, <1>5, <1>7
<1>9. ASSUME NEW op \in Op, Obj(op) = x, NEW v \in floor[op]
      PROVE  VersionOf(x) >= v
  BY <1>4, <1>5, <1>6, <1>7, <1>8, <1>9
<1> QED
  BY <1>8, <1>9 DEF CommittedVersion

(* What a step may do to the log and to the floors: what is committed      *)
(* stays, and a floor is set once.                                         *)
Extends ==
  /\ begin' = begin /\ stable' \in Nat /\ stable <= stable'
  /\ \A i \in 1 .. stable : log'[i] = log[i]
  /\ \A op \in Sent : floor'[op] = floor[op]
  /\ Sent \subseteq Sent'

(* An answer that is right stays right.                                    *)
LEMMA ReplyKept ==
  ASSUME TypeInv, Extends, NEW m, RightReply(m), m.v \in Nat
  PROVE  RightReply(m)'
<1>1. stable \in Nat /\ stable' \in Nat /\ stable <= stable' /\ m.op \in Sent
  BY DEF TypeInv, Extends, RightReply
<1>2. m.op \in Sent' /\ floor'[m.op] = floor[m.op]
  BY <1>1 DEF Extends
<1>3. may_write(m.op)' = may_write(m.op)
  BY DEF Extends, may_write, kind
<1>4. CASE may_write(m.op)
  <2>1. m.v \in 1 .. stable /\ log[m.v].op = m.op /\ log[m.v].r = m.r
    BY <1>4 DEF RightReply
  <2>2. m.v \in 1 .. stable' /\ log'[m.v] = log[m.v]
    BY <1>1, <2>1 DEF Extends
  <2> QED
    BY <1>2, <1>3, <1>4, <2>1, <2>2 DEF RightReply
<1>5. CASE ~may_write(m.op)
  <2>1. m.v <= stable /\ \A v \in floor[m.op] : m.v >= v
    BY <1>5 DEF RightReply
  <2>2. m.v <= stable'
    BY <1>1, <2>1
  <2> QED
    BY <1>2, <1>3, <1>5, <2>1, <2>2 DEF RightReply
<1> QED
  BY <1>4, <1>5

(* What was answered before an operation was sent stays committed.         *)
LEMMA FloorKept ==
  ASSUME TypeInv, Extends, FloorInv, UNCHANGED floor
  PROVE  FloorInv'
<1> SUFFICES ASSUME NEW op \in Op, NEW v \in floor[op], v # 0
             PROVE  v <= stable' /\ log'[v].o = Obj(op) /\ log'[v].r = "ok"
  BY DEF FloorInv, Extends, Op, Obj
<1>1. v \in Nat /\ v <= stable /\ log[v].o = Obj(op) /\ log[v].r = "ok"
  BY DEF FloorInv, TypeInv
<1>2. stable \in Nat /\ stable' \in Nat /\ stable <= stable'
  BY DEF TypeInv, Extends
<1>3. log'[v] = log[v]
  BY <1>1, <1>2 DEF Extends
<1> QED
  BY <1>1, <1>2, <1>3
(* The lists after a step that moves operations about.                     *)
LEMMA CallPrimed ==
  ASSUME NEW D, Lists(D, Sent), Becomes(D), UNCHANGED <<begin, floor>>
  PROVE  Lists(Call, Sent)' /\ Sent' = Sent
<1>1. Sent' = Sent
  BY DEF Sent, Op
<1>2. /\ D.queue \in Seq(Sent) /\ D.waiting \in [ListName -> Seq(Sent)]
      /\ D.rw \in [Object -> Seq(Sent)] /\ D.async \in Seq(Sent)
      /\ D.repops \in Seq(RepopType(Sent)) /\ D.ondisk \in SUBSET DupType(Sent)
  BY ListsAre
<1>3. Call' = ListsIs(D.queue, D.waiting, D.rw, D.async, D.repops, D.ondisk,
                      pg'.scrub, pg'.laggy)
  BY DEF Call, Becomes, ListsIs
<1>4. Lists(Call', Sent)
  BY <1>2, <1>3, ListsTyped
<1>5. Lists(Call', Sent')
  BY <1>1, <1>4
<1> QED
  BY <1>1, <1>5 DEF Lists, RepopType, DupType

(* The locks depend on the operations, which never change.                 *)
LEMMA LockedSame ==
  ASSUME NEW a, NEW p, Locked(a, p), begin' = begin, async' = a, repops' = p
  PROVE  Locked(async, repops)'
<1>1. \A i \in DOMAIN async' : kind(async[i])' \in {"read", "guarded"}
  BY DEF Locked, kind
<1>2. \A i, j \in DOMAIN async' : Obj(async[i])' = Obj(async[j])' /\ i # j =>
        kind(async[i])' = "read" /\ kind(async[j])' = "read"
  BY DEF Locked, kind, Obj
<1>3. \A i \in DOMAIN async', j \in DOMAIN repops' :
        repops'[j].lock # None => repops'[j].o # Obj(async[i])'
  BY DEF Locked, Obj
<1> QED
  BY <1>1, <1>2, <1>3 DEF Locked

(* The invariant after a step, but for the replies: they are those of      *)
(* before, and right ones.                                                 *)
LEMMA StepKeeps ==
  ASSUME ClientInv, Extends, TypeInv', QuietInv', LogInv', PendingInv', LockInv',
         FloorInv', asserted' = "",
         \A m \in replies' : m \in replies \/ RightReply(m)',
         \A op \in Op : answered'[op] \in {answered[op]} \cup replies
  PROVE  ClientInv'
<1>1. replies \subseteq ReplyType /\ answered \in [Op -> ReplyType \cup {NoReply}]
  BY DEF ClientInv, TypeInv
<1>2. Op' = Op
  BY DEF Extends, Op
<1>3. \A m \in Given : RightReply(m)' 
  <2> SUFFICES ASSUME NEW m \in Given PROVE RightReply(m)'
    OBVIOUS
  <2>1. m.v \in Nat
    BY <1>1 DEF Given, ReplyType
  <2> QED
    BY <2>1, ReplyKept DEF ClientInv, ReplyInv
<1>4. NoReply' = NoReply
  BY DEF NoReply, Reply
<1>5. \A m \in Given' : m \in Given \/ RightReply(m)'
  BY <1>2, <1>4 DEF Given
<1>6. ReplyInv'
  BY <1>3, <1>5 DEF ReplyInv
<1> QED
  BY <1>6 DEF ClientInv, NoAssertFails, Running

(* The committed end and the replies, as the type says.                    *)
LEMMA StableTyped ==
  ASSUME TypeInv
  PROVE  stable \in Nat /\ stable <= stable /\ replies \subseteq ReplyType
BY DEF TypeInv

(* A step that moves operations about and leaves alone what is in          *)
(* progress and the log.                                                   *)
LEMMA MoveKeeps ==
  ASSUME ClientInv, NEW D, Lists(D, Sent), D.async = async, D.repops = repops,
         D.ondisk = ondisk, Becomes(D), UNCHANGED <<begin, clientVars, log, stable>>,
         unreadable' \in [Object -> Seq(Sent)], degraded' \in [Object -> Seq(Sent)],
         PgRecord(pg'), pg'.st = pg.st,
         pg.st = "peering" => D.waiting["flush"] = <<>>,
         asserted' = "",
         \A m \in replies' : m \in replies \/ (m \in ReplyType /\ RightReply(m))
  PROVE  ClientInv'
<1>1. TypeInv /\ QuietInv /\ LogInv /\ PendingInv /\ LockInv /\ FloorInv /\ ReplyInv
  BY DEF ClientInv
<1>2. UNCHANGED <<begin, toSend, answered, floor, log, stable, async, repops, ondisk>>
  BY DEF clientVars, Becomes
<1>3. Lists(Call, Sent)' /\ Sent' = Sent
  BY <1>2, CallPrimed
<1>4. stable \in Nat /\ stable <= stable /\ replies \subseteq ReplyType
  BY <1>1, StableTyped
<1>5. Extends
  <2>1. stable' \in Nat /\ stable <= stable'
    BY <1>2, <1>4, Zenon
  <2>2. \A i \in 1 .. stable : log'[i] = log[i]
    BY <1>2
  <2>3. \A op \in Sent : floor'[op] = floor[op]
    BY <1>2
  <2> QED
    BY <1>2, <1>3, <2>1, <2>2, <2>3 DEF Extends
<1>6. Op' = Op /\ Client' = Client /\ EntryType' = EntryType /\ ReplyType' = ReplyType
  BY <1>2 DEF Op, Client, EntryType, ReplyType
<1>7. TypeInv'
  <2>1. replies' \subseteq ReplyType'
    BY <1>4, <1>6
  <2>2. NoReply' = NoReply
    BY DEF NoReply, Reply
  <2>3. /\ unreadable' \in [Object -> Seq(Sent')] /\ degraded' \in [Object -> Seq(Sent')]
    BY <1>3
  <2>4. PgRecord(pg)'
    BY DEF PgRecord
  <2>5. /\ begin' \in Begin' /\ toSend' \in [Client' -> SUBSET Op']
        /\ log' \in Seq(EntryType') /\ stable' \in Nat /\ stable' <= Len(log')
        /\ answered' \in [Op' -> ReplyType' \cup {NoReply'}]
        /\ \A op \in Op' : answered'[op] # NoReply' => answered'[op].op = op
        /\ floor' \in [Op' -> SUBSET Nat]
    BY <1>1, <1>2, <1>6, <2>2 DEF TypeInv
  <2> QED
    BY <1>3, <2>1, <2>3, <2>4, <2>5 DEF TypeInv
<1>8. QuietInv'
  <2>1. waiting' = D.waiting
    BY DEF Becomes
  <2>2. pg.st = "peering" => waiting'["flush"] = <<>>
    BY <2>1, Zenon
  <2>3. pg.st # "active" => async' = <<>> /\ repops' = <<>> /\ ondisk' = {}
    <3>1. async' = async /\ repops' = repops /\ ondisk' = ondisk
      BY <1>2
    <3> QED
      BY <1>1, <3>1, Zenon DEF QuietInv
  <2> QED
    BY <2>2, <2>3, Zenon DEF QuietInv
<1>9. LogInv'
  BY <1>1, <1>2 DEF LogInv, Obj, may_write, kind
<1>10. PendingInv'
  BY <1>1, <1>2, ZenonT(60) DEF PendingInv, Behind
<1>11. LockInv'
  <2>1. async' = async /\ repops' = repops /\ begin' = begin /\ Locked(async, repops)
    BY <1>1, <1>2 DEF LockInv
  <2> QED
    BY <2>1, LockedSame DEF LockInv
<1>12. FloorInv'
  BY <1>1, <1>2, <1>5, FloorKept
<1>13. \A m \in replies' : m \in replies \/ RightReply(m)'
  <2> SUFFICES ASSUME NEW m \in replies', m \notin replies PROVE RightReply(m)'
    OBVIOUS
  <2>1. m.v \in Nat /\ RightReply(m)
    BY DEF ReplyType
  <2> QED
    BY <1>1, <1>5, <2>1, ReplyKept
<1>14. \A op \in Op : answered'[op] \in {answered[op]} \cup replies
  BY <1>2
<1> QED
  BY <1>5, <1>7, <1>8, <1>9, <1>10, <1>11, <1>12, <1>13, <1>14, StepKeeps

(* A step of an active PG that changes what is in progress or the log.     *)
LEMMA WorkKeeps ==
  ASSUME ClientInv, pg.st = "active", NEW D, Lists(D, Sent), Becomes(D),
         UNCHANGED <<begin, clientVars, pg, unreadable, degraded>>, asserted' = "",
         log' \in Seq(EntryType), stable' \in Nat, stable <= stable',
         stable' <= Len(log'), \A i \in 1 .. stable : log'[i] = log[i],
         \A i \in DOMAIN log' : log'[i].o = Obj(log'[i].op) /\ may_write(log'[i].op),
         Behind(D.repops, D.ondisk, log', stable'), Locked(D.async, D.repops),
         \A m \in replies' : m \in replies \/ (m \in ReplyType /\ RightReply(m)')
  PROVE  ClientInv'
<1>1. TypeInv /\ QuietInv /\ LogInv /\ PendingInv /\ LockInv /\ FloorInv /\ ReplyInv
  BY DEF ClientInv
<1>2. UNCHANGED <<begin, toSend, answered, floor>> /\ async' = D.async
      /\ repops' = D.repops /\ ondisk' = D.ondisk
  BY DEF clientVars, Becomes
<1>3. Lists(Call, Sent)' /\ Sent' = Sent
  BY <1>2, CallPrimed
<1>4. replies \subseteq ReplyType
  BY <1>1 DEF TypeInv
<1>5. Extends
  BY <1>2, <1>3 DEF Extends
<1>6. Op' = Op /\ Client' = Client /\ EntryType' = EntryType /\ ReplyType' = ReplyType
  BY <1>2 DEF Op, Client, EntryType, ReplyType
<1>7. TypeInv'
  <2>1. replies' \subseteq ReplyType'
    BY <1>4, <1>6
  <2>2. NoReply' = NoReply
    BY DEF NoReply, Reply
  <2>3. /\ unreadable' \in [Object -> Seq(Sent')] /\ degraded' \in [Object -> Seq(Sent')]
    BY <1>1, <1>3 DEF TypeInv
  <2>4. PgRecord(pg)'
    <3>1. PgRecord(pg)
      BY <1>1 DEF TypeInv
    <3> QED
      BY <3>1 DEF PgRecord
  <2>5. /\ begin' \in Begin' /\ toSend' \in [Client' -> SUBSET Op']
        /\ answered' \in [Op' -> ReplyType' \cup {NoReply'}]
        /\ \A op \in Op' : answered'[op] # NoReply' => answered'[op].op = op
        /\ floor' \in [Op' -> SUBSET Nat]
    BY <1>1, <1>2, <1>6, <2>2 DEF TypeInv
  <2>6. log' \in Seq(EntryType') /\ stable' \in Nat /\ stable' <= Len(log')
    BY <1>6
  <2> QED
    BY <1>3, <2>1, <2>3, <2>4, <2>5, <2>6 DEF TypeInv
<1>8. QuietInv'
  BY DEF QuietInv
<1>9. LogInv'
  BY <1>2 DEF LogInv, Obj, may_write, kind
<1>10. PendingInv'
  BY <1>2 DEF PendingInv, Behind
<1>11. LockInv'
  <2>1. async' = D.async /\ repops' = D.repops /\ begin' = begin
    BY <1>2
  <2> QED
    BY <2>1, LockedSame DEF LockInv
<1>12. FloorInv'
  BY <1>1, <1>2, <1>5, FloorKept
<1>13. \A op \in Op : answered'[op] \in {answered[op]} \cup replies
  BY <1>2
<1> QED
  BY <1>5, <1>7, <1>8, <1>9, <1>10, <1>11, <1>12, <1>13, StepKeeps
-----------------------------------------------------------------------------
(* The operations are moved about: the lists before and after the head of  *)
(* the queue is taken.                                                     *)
LEMMA CallFields ==
  /\ Call.queue = queue /\ Call.waiting = waiting /\ Call.rw = rw
  /\ Call.async = async /\ Call.repops = repops /\ Call.ondisk = ondisk
  /\ Call.scrub = pg.scrub /\ Call.laggy = pg.laggy
BY DEF Call

(* The head of the queue is taken off.                                     *)
LEMMA TakenIs ==
  ASSUME TypeInv, queue # <<>>, NEW D, D = Taken
  PROVE  /\ Lists(D, Sent) /\ D.waiting = waiting /\ D.rw = rw /\ D.async = async
         /\ D.repops = repops /\ D.ondisk = ondisk /\ Head(queue) \in Sent
<1>1. Lists(Call, Sent)
  BY DEF TypeInv
<1>2. /\ Call.queue \in Seq(Sent) /\ Call.waiting \in [ListName -> Seq(Sent)]
      /\ Call.rw \in [Object -> Seq(Sent)] /\ Call.async \in Seq(Sent)
      /\ Call.repops \in Seq(RepopType(Sent)) /\ Call.ondisk \in SUBSET DupType(Sent)
  BY <1>1, ListsAre
<1>3. PICK q : q = Tail(Call.queue)
  OBVIOUS
<1>4. q \in Seq(Sent) /\ Head(queue) \in Sent
  BY <1>2, <1>3, CallFields, TailIndex
<1>5. D = [Call EXCEPT !.queue = q]
  BY <1>3 DEF Taken
<1>6. D = ListsIs(q, Call.waiting, Call.rw, Call.async, Call.repops, Call.ondisk,
                  Call.scrub, Call.laggy)
  BY <1>1, <1>5, ListsChange
<1>7. Lists(D, Sent)
  BY <1>2, <1>4, <1>6, ListsTyped
<1> QED
  BY <1>4, <1>6, <1>7, ListsFields, CallFields

(* The state of the PG, one field changed.                                 *)
LEMMA PgChange ==
  ASSUME NEW p, PgRecord(p), NEW x
  PROVE  /\ PgRecord([p EXCEPT !.laggy = x]) /\ [p EXCEPT !.laggy = x].st = p.st
         /\ PgRecord([p EXCEPT !.late = x]) /\ [p EXCEPT !.late = x].st = p.st
         /\ PgRecord([p EXCEPT !.flush = x]) /\ [p EXCEPT !.flush = x].st = p.st
         /\ PgRecord([p EXCEPT !.scrub = x]) /\ [p EXCEPT !.scrub = x].st = p.st
<1> DEFINE R(f, l, g, s) == [st |-> p.st, flush |-> f, late |-> l, laggy |-> g,
                             scrub |-> s]
<1>1. p = R(p.flush, p.late, p.laggy, p.scrub) /\ p.st \in {"peering", "peered", "active"}
  BY DEF PgRecord
<1>2. /\ [p EXCEPT !.laggy = x] = R(p.flush, p.late, x, p.scrub)
      /\ [p EXCEPT !.late = x] = R(p.flush, x, p.laggy, p.scrub)
      /\ [p EXCEPT !.flush = x] = R(x, p.late, p.laggy, p.scrub)
      /\ [p EXCEPT !.scrub = x] = R(p.flush, p.late, p.laggy, x)
  BY <1>1
<1>3. ASSUME NEW f, NEW l, NEW g, NEW s, NEW r, r = R(f, l, g, s)
      PROVE  PgRecord(r) /\ r.st = p.st
  <2>1. r.st = p.st /\ r.flush = f /\ r.late = l /\ r.laggy = g /\ r.scrub = s
    BY <1>3
  <2>2. r = [st |-> r.st, flush |-> r.flush, late |-> r.late, laggy |-> r.laggy,
             scrub |-> r.scrub]
    BY <1>3, <2>1
  <2> QED
    BY <1>1, <2>1, <2>2 DEF PgRecord
<1> HIDE DEF R
<1> QED
  BY <1>2, <1>3

(* An operation put last on one of the lists of do_request.                *)
LEMMA PutLastTaken ==
  ASSUME TypeInv, queue # <<>>, NEW l \in ListName, NEW op, op = Head(queue),
         NEW D, D = PutLast(Taken, l, op)
  PROVE  /\ Lists(D, Sent) /\ D.async = async /\ D.repops = repops /\ D.ondisk = ondisk
         /\ \A k \in ListName \ {l} : D.waiting[k] = waiting[k]
<1>1. PICK C : C = Taken
  OBVIOUS
<1>2. /\ Lists(C, Sent) /\ C.waiting = waiting /\ C.rw = rw /\ C.async = async
      /\ C.repops = repops /\ C.ondisk = ondisk /\ op \in Sent
  BY <1>1, TakenIs
<1>3. PICK ls : ls = Append(C.waiting[l], op)
  OBVIOUS
<1>4. ls \in Seq(Sent)
  <2>1. C.waiting[l] \in Seq(Sent)
    BY <1>2, ListsAre
  <2> QED
    BY <1>2, <1>3, <2>1, AppendIndex
<1>5. D = SetList(C, l, ls)
  BY <1>1, <1>3 DEF PutLast
<1>6. /\ Lists(D, Sent) /\ SameWork(C, D)
      /\ \A k \in ListName \ {l} : D.waiting[k] = C.waiting[k]
  BY <1>2, <1>4, <1>5, SetOneList
<1> QED
  BY <1>2, <1>6 DEF SameWork

(* What the steps of this kind share.                                      *)
LEMMA MoveFacts ==
  ASSUME ClientInv
  PROVE  /\ TypeInv /\ QuietInv /\ LogInv /\ PendingInv /\ LockInv /\ FloorInv
         /\ ReplyInv /\ asserted = "" /\ Lists(Call, Sent) /\ PgRecord(pg)
         /\ unreadable \in [Object -> Seq(Sent)] /\ degraded \in [Object -> Seq(Sent)]
         /\ begin \in Begin /\ <<>> \in Seq(Sent)
         /\ \A l \in ListName : waiting[l] \in Seq(Sent)
<1>1. <<>> \in Seq(Sent)
  OBVIOUS
<1>2. waiting \in [ListName -> Seq(Sent)]
  BY CallFields, ListsAre DEF ClientInv, TypeInv
<1>3. \A l \in ListName : waiting[l] \in Seq(Sent)
  BY <1>2
<1> QED
  BY <1>1, <1>3 DEF ClientInv, TypeInv, NoAssertFails, Running

(* An operation waits for peering, a flush or the activation.              *)
LEMMA RequestStep ==
  ASSUME ClientInv, NEW op \in Op, do_request(op)
  PROVE  ClientInv'
<1>1. queue # <<>> /\ op = Head(queue) /\ Stage # None
  BY DEF do_request, Arrives
<1>2. PICK D : D = PutLast(Taken, Stage, op)
  OBVIOUS
<1>3. /\ Becomes(D) /\ UNCHANGED <<begin, clientVars, log, stable>>
      /\ unreadable' = unreadable /\ degraded' = degraded /\ pg' = pg
      /\ asserted' = asserted /\ replies' = replies
  BY <1>2 DEF do_request
<1>4. Stage \in ListName /\ (pg.st = "peering" => Stage = "peered")
  BY <1>1 DEF Stage, Peered, ListName
<1>5. /\ Lists(D, Sent) /\ D.async = async /\ D.repops = repops /\ D.ondisk = ondisk
      /\ \A k \in ListName \ {Stage} : D.waiting[k] = waiting[k]
  BY <1>1, <1>2, <1>4, MoveFacts, PutLastTaken, ZenonT(60)
<1>6. pg.st = "peering" => D.waiting["flush"] = <<>>
  <2> SUFFICES ASSUME pg.st = "peering" PROVE D.waiting["flush"] = <<>>
    OBVIOUS
  <2>1. "flush" \in ListName \ {Stage}
    BY <1>4 DEF ListName
  <2>2. waiting["flush"] = <<>>
    BY MoveFacts DEF QuietInv
  <2> QED
    BY <1>5, <2>1, <2>2, Zenon
<1> QED
  BY <1>3, <1>5, <1>6, MoveFacts, MoveKeeps

(* An operation waits until the object is readable.                        *)
LEMMA ReadableStep ==
  ASSUME ClientInv, NEW op \in Op, WaitReadable(op)
  PROVE  ClientInv'
<1>1. queue # <<>> /\ op = Head(queue) /\ Stage = None
  BY DEF WaitReadable, Arrives
<1>2. PICK D : D = PutLast(Taken, "readable", op)
  OBVIOUS
<1>3. /\ Becomes(D) /\ UNCHANGED <<begin, clientVars, log, stable>>
      /\ unreadable' = unreadable /\ degraded' = degraded
      /\ pg' = [pg EXCEPT !.laggy = TRUE] /\ asserted' = asserted /\ replies' = replies
  BY <1>2 DEF WaitReadable
<1>4. pg.st = "active"
  BY <1>1 DEF Stage, Peered, None
<1>5. /\ Lists(D, Sent) /\ D.async = async /\ D.repops = repops /\ D.ondisk = ondisk
  BY <1>1, <1>2, MoveFacts, PutLastTaken DEF ListName
<1>6. PgRecord(pg') /\ pg'.st = pg.st
  BY <1>3, MoveFacts, PgChange
<1> QED
  BY <1>3, <1>4, <1>5, <1>6, MoveFacts, MoveKeeps

(* What do_op has found out of the operation by then.                      *)
LEMMA PastFacts ==
  ASSUME ClientInv, NEW op \in Op, Past(op)
  PROVE  /\ queue # <<>> /\ op = Head(queue) /\ pg.st = "active" /\ op \in Sent
         /\ Obj(op) \in Object /\ kind(op) \in Kind
<1>1. queue # <<>> /\ op = Head(queue) /\ pg.st = "active"
  BY DEF Past, Arrives, Stage, Peered, None
<1> QED
  BY <1>1, MoveFacts, TakenIs, OpTyped

(* An operation waits for recovery of its object.                          *)
LEMMA ObjectStep ==
  ASSUME ClientInv, NEW op \in Op, WaitObject(op)
  PROVE  ClientInv'
<1>1. Past(op)
  BY DEF WaitObject
<1>2. /\ queue # <<>> /\ op = Head(queue) /\ pg.st = "active" /\ op \in Sent
      /\ Obj(op) \in Object
  BY <1>1, PastFacts
<1>3. PICK D : D = Taken
  OBVIOUS
<1>4. /\ Becomes(D) /\ UNCHANGED <<begin, clientVars, log, stable>> /\ pg' = pg
      /\ asserted' = asserted /\ replies' = replies
  BY <1>3 DEF WaitObject
<1>5. /\ Lists(D, Sent) /\ D.async = async /\ D.repops = repops /\ D.ondisk = ondisk
  BY <1>2, <1>3, MoveFacts, TakenIs
<1>6. ASSUME NEW w \in [Object -> Seq(Sent)]
      PROVE  [w EXCEPT ![Obj(op)] = Append(@, op)] \in [Object -> Seq(Sent)]
  <2>1. PICK ls : ls = Append(w[Obj(op)], op)
    OBVIOUS
  <2>2. ls \in Seq(Sent)
    BY <1>2, <2>1, AppendIndex
  <2> QED
    BY <1>2, <2>1, <2>2
<1>7. unreadable' \in [Object -> Seq(Sent)] /\ degraded' \in [Object -> Seq(Sent)]
  BY <1>6, MoveFacts DEF WaitObject
<1> QED
  BY <1>2, <1>4, <1>5, <1>7, MoveFacts, MoveKeeps

(* A write waits for the scrub of its object.                              *)
LEMMA ScrubStep ==
  ASSUME ClientInv, NEW op \in Op, WaitScrub(op)
  PROVE  ClientInv'
<1>1. Past(op)
  BY DEF WaitScrub
<1>2. queue # <<>> /\ op = Head(queue) /\ pg.st = "active"
  BY <1>1, PastFacts
<1>3. PICK D : D = PutLast(Taken, "scrub", op)
  OBVIOUS
<1>4. /\ Becomes(D) /\ UNCHANGED <<begin, clientVars, log, stable>> /\ pg' = pg
      /\ unreadable' = unreadable /\ degraded' = degraded
      /\ asserted' = asserted /\ replies' = replies
  BY <1>3 DEF WaitScrub
<1>5. /\ Lists(D, Sent) /\ D.async = async /\ D.repops = repops /\ D.ondisk = ondisk
  BY <1>2, <1>3, MoveFacts, PutLastTaken, ZenonT(60) DEF ListName
<1> QED
  BY <1>2, <1>4, <1>5, MoveFacts, MoveKeeps

(* An operation waits for the lock of its object.                          *)
LEMMA LockStep ==
  ASSUME ClientInv, NEW op \in Op, WaitLock(op)
  PROVE  ClientInv'
<1>1. Past(op)
  BY DEF WaitLock, Unblocked
<1>2. /\ queue # <<>> /\ op = Head(queue) /\ pg.st = "active" /\ op \in Sent
      /\ Obj(op) \in Object
  BY <1>1, PastFacts
<1>3. PICK C : C = Taken
  OBVIOUS
<1>4. /\ Lists(C, Sent) /\ C.rw = rw /\ C.async = async /\ C.repops = repops
      /\ C.ondisk = ondisk
  BY <1>2, <1>3, MoveFacts, TakenIs
<1>5. PICK ls : ls = Append(rw[Obj(op)], op)
  OBVIOUS
<1>6. PICK r : r = [rw EXCEPT ![Obj(op)] = ls]
  OBVIOUS
<1>7. r \in [Object -> Seq(Sent)]
  <2>1. rw \in [Object -> Seq(Sent)]
    BY <1>4, ListsAre
  <2>2. ls \in Seq(Sent)
    BY <1>2, <1>5, <2>1, AppendIndex
  <2> QED
    BY <1>2, <1>6, <2>1, <2>2
<1>8. PICK D : D = [C EXCEPT !.rw = r]
  OBVIOUS
<1>9. /\ Becomes(D) /\ UNCHANGED <<begin, clientVars, log, stable>> /\ pg' = pg
      /\ unreadable' = unreadable /\ degraded' = degraded
      /\ asserted' = asserted /\ replies' = replies
  BY <1>3, <1>5, <1>6, <1>8 DEF WaitLock
<1>10. D = ListsIs(C.queue, C.waiting, r, C.async, C.repops, C.ondisk, C.scrub, C.laggy)
  BY <1>4, <1>8, ListsChange
<1>11. Lists(D, Sent) /\ D.async = async /\ D.repops = repops /\ D.ondisk = ondisk
  <2>1. Lists(D, Sent)
    BY <1>4, <1>7, <1>10, ListsAre, ListsTyped
  <2> QED
    BY <1>4, <1>10, <2>1, ListsFields
<1> QED
  BY <1>2, <1>9, <1>11, MoveFacts, MoveKeeps
(* One of the lists of do_request is emptied and put in front.             *)
LEMMA ListRequeued ==
  ASSUME ClientInv, NEW l \in ListName, NEW ls \in Seq(Sent),
         NEW D, D = requeue_ops(SetList(Call, l, <<>>), ls)
  PROVE  /\ Lists(D, Sent) /\ D.async = async /\ D.repops = repops /\ D.ondisk = ondisk
         /\ D.waiting[l] = <<>> /\ \A k \in ListName \ {l} : D.waiting[k] = waiting[k]
<1>0. PICK e : e = <<>>
  OBVIOUS
<1>1. PICK C : C = SetList(Call, l, e)
  OBVIOUS
<1>2. Lists(Call, Sent) /\ e \in Seq(Sent)
  BY <1>0, MoveFacts
<1>3. Lists(C, Sent) /\ SameWork(Call, C) /\ C.waiting[l] = e
  BY <1>1, <1>2, SetOneList
<1>4. \A k \in ListName \ {l} : C.waiting[k] = Call.waiting[k]
  BY <1>1, <1>2, SetOneList
<1>5. D = requeue_ops(C, ls)
  BY <1>0, <1>1
<1>6. Lists(D, Sent) /\ SameWork(C, D) /\ D.waiting = C.waiting
  BY <1>3, <1>5, RequeueOps
<1> QED
  BY <1>0, <1>3, <1>4, <1>6, CallFields DEF SameWork

(* An object is recovered here: its waiters look again.                    *)
LEMMA LocalRecoverStep ==
  ASSUME ClientInv, NEW x \in Object, on_local_recover(x)
  PROVE  ClientInv'
<1>1. PICK D : D = requeue_ops(Call, unreadable[x])
  OBVIOUS
<1>2. /\ Becomes(D) /\ UNCHANGED <<begin, clientVars, log, stable>> /\ pg' = pg
      /\ unreadable' = [unreadable EXCEPT ![x] = <<>>] /\ degraded' = degraded
      /\ asserted' = asserted /\ replies' = replies /\ pg.st = "active"
  BY <1>1 DEF on_local_recover
<1>3. unreadable[x] \in Seq(Sent) /\ unreadable' \in [Object -> Seq(Sent)]
  <2>1. unreadable \in [Object -> Seq(Sent)] /\ <<>> \in Seq(Sent)
    BY MoveFacts
  <2> QED
    BY <1>2, <2>1
<1>4. Lists(D, Sent) /\ SameWork(Call, D)
  BY <1>1, <1>3, MoveFacts, RequeueOps
<1>5. D.async = async /\ D.repops = repops /\ D.ondisk = ondisk
  BY <1>4, CallFields DEF SameWork
<1> QED
  BY <1>2, <1>3, <1>4, <1>5, MoveFacts, MoveKeeps

(* An object is recovered everywhere.                                      *)
LEMMA GlobalRecoverStep ==
  ASSUME ClientInv, NEW x \in Object, on_global_recover(x)
  PROVE  ClientInv'
<1>1. PICK C : C = requeue_ops(Call, degraded[x])
  OBVIOUS
<1>2. PICK D : D = requeue_ops(C, unreadable[x])
  OBVIOUS
<1>3. /\ Becomes(D) /\ UNCHANGED <<begin, clientVars, log, stable>> /\ pg' = pg
      /\ unreadable' = [unreadable EXCEPT ![x] = <<>>]
      /\ degraded' = [degraded EXCEPT ![x] = <<>>]
      /\ asserted' = asserted /\ replies' = replies /\ pg.st = "active"
  BY <1>1, <1>2 DEF on_global_recover
<1>4. /\ unreadable[x] \in Seq(Sent) /\ unreadable' \in [Object -> Seq(Sent)]
      /\ degraded[x] \in Seq(Sent) /\ degraded' \in [Object -> Seq(Sent)]
  <2>1. /\ unreadable \in [Object -> Seq(Sent)] /\ degraded \in [Object -> Seq(Sent)]
        /\ <<>> \in Seq(Sent)
    BY MoveFacts
  <2> QED
    BY <1>3, <2>1
<1>5. Lists(C, Sent) /\ SameWork(Call, C)
  BY <1>1, <1>4, MoveFacts, RequeueOps
<1>6. Lists(D, Sent) /\ SameWork(C, D)
  BY <1>2, <1>4, <1>5, RequeueOps
<1>7. D.async = async /\ D.repops = repops /\ D.ondisk = ondisk
  BY <1>5, <1>6, CallFields DEF SameWork
<1> QED
  BY <1>3, <1>4, <1>6, <1>7, MoveFacts, MoveKeeps

(* A scrub starts, or the lease runs out.                                  *)
LEMMA EventStep ==
  ASSUME ClientInv, LeaseExpires \/ \E x \in Object : ScrubStarts(x)
  PROVE  ClientInv'
<1>1. /\ UNCHANGED <<begin, clientVars, queue, waitVars, workVars, log, stable>>
      /\ asserted' = asserted /\ replies' = replies /\ pg.st = "active"
  BY DEF LeaseExpires, ScrubStarts
<1>2. Becomes(Call) /\ unreadable' = unreadable /\ degraded' = degraded
  BY <1>1, CallFields DEF Becomes, waitVars, workVars
<1>3. PgRecord(pg') /\ pg'.st = pg.st
  <2>1. \/ pg' = [pg EXCEPT !.late = TRUE]
        \/ \E x \in Object : pg' = [pg EXCEPT !.scrub = x]
    BY DEF LeaseExpires, ScrubStarts
  <2>2. CASE pg' = [pg EXCEPT !.late = TRUE]
    BY <2>2, MoveFacts, PgChange
  <2>3. CASE \E x \in Object : pg' = [pg EXCEPT !.scrub = x]
    <3>1. PICK x \in Object : pg' = [pg EXCEPT !.scrub = x]
      BY <2>3
    <3> QED
      BY <3>1, MoveFacts, PgChange
  <2> QED
    BY <2>1, <2>2, <2>3
<1> QED
  BY <1>1, <1>2, <1>3, CallFields, MoveFacts, MoveKeeps

(* The scrub ends: the writes that waited for it look again.               *)
LEMMA ScrubEndsStep ==
  ASSUME ClientInv, ScrubEnds
  PROVE  ClientInv'
<1>0. PICK ls : ls = waiting["scrub"]
  OBVIOUS
<1>1. PICK D : D = requeue_ops(SetList(Call, "scrub", <<>>), ls)
  OBVIOUS
<1>2. /\ Becomes(D) /\ UNCHANGED <<begin, clientVars, log, stable>>
      /\ pg' = [pg EXCEPT !.scrub = 0]
      /\ unreadable' = unreadable /\ degraded' = degraded
      /\ asserted' = asserted /\ replies' = replies
  BY <1>0, <1>1 DEF ScrubEnds
<1>3. "scrub" \in ListName /\ "flush" \in ListName \ {"scrub"}
  BY DEF ListName
<1>4. ls \in Seq(Sent)
  BY <1>0, <1>3, MoveFacts
<1>5. /\ Lists(D, Sent) /\ D.async = async /\ D.repops = repops /\ D.ondisk = ondisk
      /\ D.waiting["flush"] = waiting["flush"]
  BY <1>1, <1>3, <1>4, ListRequeued
<1>6. PgRecord(pg') /\ pg'.st = pg.st
  BY <1>2, MoveFacts, PgChange
<1>7. pg.st = "peering" => D.waiting["flush"] = <<>>
  BY <1>5, MoveFacts DEF QuietInv
<1> QED
  BY <1>2, <1>5, <1>6, <1>7, MoveFacts, MoveKeeps

(* The lease is renewed: what waited for it looks again.                   *)
LEMMA RecheckStep ==
  ASSUME ClientInv, recheck_readable
  PROVE  ClientInv'
<1>1. PICK ls : ls = IF pg.laggy THEN waiting["readable"] ELSE <<>>
  OBVIOUS
<1>2. PICK D : D = requeue_ops(SetList(Call, "readable", <<>>), ls)
  OBVIOUS
<1>3. /\ Becomes(D) /\ UNCHANGED <<begin, clientVars, log, stable>>
      /\ pg' = [pg EXCEPT !.late = FALSE, !.laggy = FALSE]
      /\ unreadable' = unreadable /\ degraded' = degraded
      /\ asserted' = asserted /\ replies' = replies /\ pg.st = "active"
  BY <1>1, <1>2 DEF recheck_readable
<1>4. ls \in Seq(Sent)
  <2>1. waiting["readable"] \in Seq(Sent) /\ <<>> \in Seq(Sent)
    BY MoveFacts DEF ListName
  <2> QED
    BY <1>1, <2>1
<1>5. Lists(D, Sent) /\ D.async = async /\ D.repops = repops /\ D.ondisk = ondisk
  BY <1>2, <1>4, ListRequeued DEF ListName
<1>6. PgRecord(pg') /\ pg'.st = pg.st
  <2>1. PICK p : p = [pg EXCEPT !.late = FALSE]
    OBVIOUS
  <2>2. PgRecord(p) /\ p.st = pg.st
    BY <2>1, MoveFacts, PgChange
  <2>3. pg' = [p EXCEPT !.laggy = FALSE]
    BY <1>3, <2>1
  <2> QED
    BY <2>2, <2>3, PgChange
<1> QED
  BY <1>3, <1>5, <1>6, MoveFacts, MoveKeeps

(* The flush of an interval is done: no object context is left from before.*)
LEMMA FlushedStep ==
  ASSUME ClientInv, on_flushed
  PROVE  ClientInv'
<1>0. PICK ls : ls = waiting["flush"]
  OBVIOUS
<1>1. PICK D : D = requeue_ops(SetList(Call, "flush", <<>>), ls)
  OBVIOUS
<1>2. /\ Becomes(D) /\ UNCHANGED <<begin, clientVars, log, stable>>
      /\ pg' = [pg EXCEPT !.flush = FALSE]
      /\ unreadable' = unreadable /\ degraded' = degraded /\ replies' = replies
  BY <1>0, <1>1 DEF on_flushed
<1>3. asserted' = ""
  <2>1. ~Peered => async = <<>> /\ repops = <<>>
    BY MoveFacts DEF Peered, QuietInv
  <2> QED
    BY <2>1 DEF on_flushed
<1>4. "flush" \in ListName
  BY DEF ListName
<1>5. ls \in Seq(Sent)
  BY <1>0, <1>4, MoveFacts
<1>6. /\ Lists(D, Sent) /\ D.async = async /\ D.repops = repops /\ D.ondisk = ondisk
      /\ D.waiting["flush"] = <<>>
  BY <1>1, <1>4, <1>5, ListRequeued
<1>7. PgRecord(pg') /\ pg'.st = pg.st
  BY <1>2, MoveFacts, PgChange
<1> QED
  BY <1>2, <1>3, <1>6, <1>7, MoveFacts, MoveKeeps
-----------------------------------------------------------------------------
(* Members of the lists and of the log have the types of their elements.   *)
LEMMA RepopTyped ==
  ASSUME TypeInv
  PROVE  /\ repops \in Seq(RepopType(Sent)) /\ async \in Seq(Sent)
         /\ ondisk \in SUBSET DupType(Sent)
         /\ \A j \in DOMAIN repops : repops[j] \in RepopType(Sent)
         /\ \A j \in DOMAIN repops : repops[j].lock \in {"write", "excl", None}
<1>1. Lists(Call, Sent)
  BY DEF TypeInv
<1>2. /\ Call.async \in Seq(Sent) /\ Call.repops \in Seq(RepopType(Sent))
      /\ Call.ondisk \in SUBSET DupType(Sent)
  BY <1>1, ListsAre
<1> DEFINE X == RepopType(Sent)
<1>3. repops \in Seq(X)
  BY <1>2, CallFields
<1> HIDE DEF X
<1>4. \A j \in DOMAIN repops : repops[j] \in X
  BY <1>3
<1>5. \A j \in DOMAIN repops : repops[j].lock \in {"write", "excl", None}
  BY <1>4 DEF X, RepopType
<1> QED
  BY <1>2, <1>4, <1>5, CallFields DEF X

(* The log likewise.                                                       *)
LEMMA LogTyped ==
  ASSUME TypeInv
  PROVE  /\ log \in Seq(EntryType) /\ stable \in Nat /\ stable <= Len(log)
         /\ Len(log) \in Nat /\ DOMAIN log = 1 .. Len(log) /\ stable <= stable
<1> DEFINE X == EntryType
<1>1. log \in Seq(X) /\ stable \in Nat /\ stable <= Len(log)
  BY DEF TypeInv
<1> HIDE DEF X
<1>2. Len(log) \in Nat /\ DOMAIN log = 1 .. Len(log) /\ stable <= stable
  BY <1>1
<1> QED
  BY <1>1, <1>2 DEF X

(* Who may take the lock of an object: nobody reads it that would mind,    *)
(* and no repop changes it if the operation reads.                         *)
LEMMA LocksTaken ==
  ASSUME ClientInv, NEW op \in Op, get_rw_locks(op)
  PROVE  /\ \A i \in DOMAIN async : Obj(async[i]) = Obj(op) =>
              kind(async[i]) = "read" /\ kind(op) = "read"
         /\ kind(op) \in {"read", "guarded"} =>
              \A j \in DOMAIN repops : repops[j].lock # None => repops[j].o # Obj(op)
<1>1. Holders(Call, Obj(op)) \subseteq {LockType(op)} \ {"excl"}
  BY DEF get_rw_locks
<1>2. ASSUME NEW i \in DOMAIN async, Obj(async[i]) = Obj(op)
      PROVE  kind(async[i]) = "read" /\ kind(op) = "read"
  <2>1. LockType(async[i]) \in Holders(Call, Obj(op))
    BY <1>2, CallFields DEF Holders
  <2>2. LockType(async[i]) = LockType(op) /\ LockType(op) # "excl"
    BY <1>1, <2>1
  <2>3. kind(async[i]) \in {"read", "guarded"}
    BY MoveFacts DEF LockInv, Locked
  <2>4. kind(async[i]) = "read"
    BY <2>2, <2>3 DEF LockType
  <2>5. LockType(op) = "read"
    BY <2>2, <2>4 DEF LockType
  <2> QED
    BY <2>4, <2>5 DEF LockType
<1>3. ASSUME kind(op) \in {"read", "guarded"}, NEW j \in DOMAIN repops,
             repops[j].lock # None, repops[j].o = Obj(op)
      PROVE  FALSE
  <2>1. repops[j].lock \in Holders(Call, Obj(op))
    BY <1>3, CallFields DEF Holders
  <2>2. repops[j].lock \in {LockType(op)} \ {"excl"}
    BY <1>1, <2>1
  <2>3. LockType(op) \in {"read", "excl"}
    BY <1>3 DEF LockType
  <2>4. repops[j].lock \in {"write", "excl", None}
    BY MoveFacts, CallFields, RepopTyped
  <2> QED
    BY <1>3, <2>2, <2>3, <2>4
<1> QED
  BY <1>2, <1>3

(* What a read is told when no repop changes its object.                   *)
LEMMA ReadReply ==
  ASSUME ClientInv, pg.st = "active", NEW op \in Sent, ~may_write(op),
         \A j \in DOMAIN repops : repops[j].lock # None => repops[j].o # Obj(op),
         NEW r \in Outcome, NEW m, m = Reply(op, r, VersionOf(Obj(op)))
  PROVE  m \in ReplyType /\ RightReply(m)
<1>1. CommittedVersion(Obj(op))
  BY MoveFacts, VersionCommitted
<1>2. op \in Op
  BY DEF Sent
<1>3. m.op = op /\ m.r = r /\ m.v = VersionOf(Obj(op)) /\ VersionOf(Obj(op)) \in Nat
  BY <1>1 DEF Reply, CommittedVersion
<1>4. m \in ReplyType
  BY <1>2, <1>3 DEF ReplyType, Reply
<1>5. VersionOf(Obj(op)) <= stable /\ \A v \in floor[op] : VersionOf(Obj(op)) >= v
  BY <1>1, <1>2 DEF CommittedVersion
<1> QED
  BY <1>3, <1>4, <1>5 DEF RightReply

(* What a write is told of the committed entry that is its own.            *)
LEMMA WriteReply ==
  ASSUME NEW op \in Sent, NEW v \in 1 .. stable, stable \in Nat, stable <= Len(log),
         log \in Seq(EntryType), log[v].op = op, LogInv, NEW m, m = Reply(op, log[v].r, v)
  PROVE  m \in ReplyType /\ RightReply(m)
<1>1. v \in DOMAIN log /\ v \in Nat
  <2> DEFINE X == EntryType
  <2>1. log \in Seq(X)
    OBVIOUS
  <2> HIDE DEF X
  <2> QED
    BY <2>1
<1>2. log[v] \in EntryType
  <2> DEFINE X == EntryType
  <2>1. log \in Seq(X)
    OBVIOUS
  <2> HIDE DEF X
  <2>2. log[v] \in X
    BY <1>1, <2>1
  <2> QED
    BY <2>2 DEF X
<1>3. m.op = op /\ m.r = log[v].r /\ m.v = v
  BY DEF Reply
<1>4. m \in ReplyType
  BY <1>1, <1>2 DEF ReplyType, EntryType, Reply, Sent
<1>5. may_write(op)
  BY <1>1 DEF LogInv
<1> QED
  BY <1>3, <1>4, <1>5 DEF RightReply

(* A write enters the log and the queue of repops.                         *)
LEMMA IssueKeeps ==
  ASSUME ClientInv, pg.st = "active", NEW op \in Sent, may_write(op),
         NEW C, Lists(C, Sent), C.repops = repops, C.ondisk = ondisk,
         Locked(C.async, repops), \A i \in DOMAIN C.async : Obj(C.async[i]) # Obj(op),
         issue_repop(C, op),
         UNCHANGED <<begin, clientVars, pg, unreadable, degraded, stable, asserted>>
  PROVE  ClientInv'
<1>1. /\ log \in Seq(EntryType) /\ stable \in Nat /\ stable <= Len(log)
      /\ Len(log) \in Nat
  BY LogTyped, MoveFacts
<1>2. op \in Op /\ Obj(op) \in Object /\ kind(op) \in Kind /\ kind(op) # "read"
  BY MoveFacts, OpTyped DEF Sent, may_write
<1>3. PICK r : r = do_osd_ops(op)
  OBVIOUS
<1>4. r \in Outcome
  BY <1>3 DEF do_osd_ops, Outcome
<1>5. PICK v : v = Len(log) + 1
  OBVIOUS
<1>6. PICK p : p = [op |-> op, v |-> v, o |-> Obj(op),
                    lock |-> IF r = "ok" THEN LockType(op) ELSE None]
  OBVIOUS
<1>7. /\ p \in RepopType(Sent) /\ p.op = op /\ p.v = v /\ p.o = Obj(op)
      /\ r = "ok" => p.lock # None
  <2>1. LockType(op) \in {"write", "excl"}
    BY <1>2 DEF LockType, Kind
  <2>2. v \in Nat
    BY <1>1, <1>5
  <2> QED
    BY <1>2, <1>6, <2>1, <2>2 DEF RepopType, None
<1>8. PICK e : e = [op |-> op, o |-> Obj(op), r |-> r]
  OBVIOUS
<1>9. e \in EntryType /\ e.op = op /\ e.o = Obj(op) /\ e.r = r
  BY <1>2, <1>4, <1>8 DEF EntryType
<1>10. PICK ps : ps = Append(repops, p)
  OBVIOUS
<1>11. C.repops \in Seq(RepopType(Sent))
  BY ListsAre
<1>12. ps \in Seq(RepopType(Sent))
  BY <1>7, <1>10, <1>11, AppendIndex
<1>13. PICK E : E = [C EXCEPT !.repops = ps]
  OBVIOUS
<1>14. E = ListsIs(C.queue, C.waiting, C.rw, C.async, ps, C.ondisk, C.scrub, C.laggy)
  BY <1>13, ListsChange
<1>15. Lists(E, Sent) /\ E.repops = ps /\ E.async = C.async /\ E.ondisk = ondisk
  <2>1. Lists(E, Sent)
    BY <1>12, <1>14, ListsAre, ListsTyped
  <2> QED
    BY <1>14, <2>1, ListsFields
<1>16. PICK D : D = IF r = "ok" THEN E ELSE release_object_locks(E, Obj(op))
  OBVIOUS
<1>17. Lists(D, Sent) /\ D.repops = ps /\ D.async = C.async /\ D.ondisk = ondisk
  <2>1. CASE r = "ok"
    BY <1>15, <1>16, <2>1
  <2>2. CASE r # "ok"
    <3>1. Lists(D, Sent) /\ SameWork(E, D)
      BY <1>2, <1>15, <1>16, <2>2, ReleaseLocks
    <3> QED
      BY <1>15, <3>1 DEF SameWork
  <2> QED
    BY <2>1, <2>2
<1>18. log' = Append(log, e) /\ Becomes(D) /\ replies' = replies
  BY <1>3, <1>5, <1>6, <1>8, <1>10, <1>13, <1>16 DEF issue_repop
<1>19. /\ log' \in Seq(EntryType) /\ Len(log') = Len(log) + 1 /\ log'[Len(log) + 1] = e
       /\ \A i \in DOMAIN log : log'[i] = log[i]
       /\ \A i \in DOMAIN log' : i \in DOMAIN log \/ i = Len(log) + 1
  BY <1>1, <1>9, <1>18, AppendIndex
<1>20. DOMAIN log = 1 .. Len(log)
  BY LogTyped, MoveFacts
<1>21. stable' \in Nat /\ stable <= stable' /\ stable' <= Len(log') /\ stable' = stable
  BY <1>1, <1>19
<1>22. \A i \in 1 .. stable : log'[i] = log[i]
  BY <1>1, <1>19, <1>20
<1>23. \A i \in DOMAIN log' : log'[i].o = Obj(log'[i].op) /\ may_write(log'[i].op)
  BY <1>9, <1>19, MoveFacts DEF LogInv
<1>24. Behind(D.repops, D.ondisk, log', stable')
  <2>1. Behind(C.repops, ondisk, log, stable)
    BY MoveFacts DEF PendingInv
  <2>2. \A w \in ondisk : w.v \in Nat
    BY ListsAre DEF DupType
  <2>3. Behind(Append(C.repops, p), ondisk, Append(log, e), stable)
    BY <1>1, <1>5, <1>7, <1>9, <1>11, <2>1, <2>2, BehindAppend
  <2> QED
    BY <1>10, <1>17, <1>18, <1>21, <2>3
<1>25. Locked(D.async, D.repops)
  <2>1. p.lock = None \/ \A i \in DOMAIN C.async : p.o # Obj(C.async[i])
    BY <1>7
  <2>2. Locked(C.async, Append(C.repops, p))
    BY <1>7, <1>11, <2>1, LockedRepop
  <2> QED
    BY <1>10, <1>17, <2>2
<1>26. asserted' = ""
  BY MoveFacts
<1> QED
  BY <1>17, <1>18, <1>19, <1>21, <1>22, <1>23, <1>24, <1>25, <1>26, WorkKeeps
(* A right reply stays right when the log and the floors stay.             *)
LEMMA SameReply ==
  ASSUME NEW m, RightReply(m), UNCHANGED <<begin, floor, log, stable>>
  PROVE  RightReply(m)'
<1>1. Sent' = Sent
  BY DEF Sent, Op
<1>2. may_write(m.op)' = may_write(m.op)
  BY DEF may_write, kind
<1>3. /\ m.op \in Sent
      /\ may_write(m.op) => m.v \in 1 .. stable /\ log[m.v].op = m.op /\ log[m.v].r = m.r
      /\ ~may_write(m.op) => m.v <= stable /\ \A v \in floor[m.op] : m.v >= v
  BY DEF RightReply
<1>4. begin' = begin /\ floor' = floor /\ log' = log /\ stable' = stable
  OBVIOUS
<1> QED
  BY <1>1, <1>2, <1>3, <1>4 DEF RightReply

(* A read in progress is put last.                                         *)
LEMMA StartKeeps ==
  ASSUME ClientInv, pg.st = "active", NEW op \in Sent, kind(op) \in {"read", "guarded"},
         NEW C, Lists(C, Sent), C.async = async, C.repops = repops, C.ondisk = ondisk,
         get_rw_locks(op), start_async_reads(C, op),
         UNCHANGED <<begin, clientVars, pg, unreadable, degraded, stable, asserted>>
  PROVE  ClientInv'
<1>1. op \in Op
  BY DEF Sent
<1>2. PICK a : a = Append(C.async, op)
  OBVIOUS
<1>3. C.async \in Seq(Sent) /\ a \in Seq(Sent)
  BY <1>2, ListsAre, AppendIndex
<1>4. PICK D : D = [C EXCEPT !.async = a]
  OBVIOUS
<1>5. D = ListsIs(C.queue, C.waiting, C.rw, a, C.repops, C.ondisk, C.scrub, C.laggy)
  BY <1>4, ListsChange
<1>6. Lists(D, Sent) /\ D.async = a /\ D.repops = repops /\ D.ondisk = ondisk
  <2>1. Lists(D, Sent)
    BY <1>3, <1>5, ListsAre, ListsTyped
  <2> QED
    BY <1>5, <2>1, ListsFields
<1>7. Becomes(D) /\ log' = log /\ replies' = replies /\ stable' = stable
  BY <1>2, <1>4 DEF start_async_reads
<1>8. log' \in Seq(EntryType) /\ stable' \in Nat /\ stable <= stable' /\ stable' <= Len(log')
  BY <1>7, MoveFacts, LogTyped
<1>9. Behind(D.repops, D.ondisk, log', stable')
  BY <1>6, <1>7, MoveFacts DEF PendingInv
<1>10. Locked(D.async, D.repops)
  <2>1. /\ \A i \in DOMAIN async : Obj(async[i]) = Obj(op) =>
             kind(async[i]) = "read" /\ kind(op) = "read"
        /\ \A j \in DOMAIN repops : repops[j].lock # None => repops[j].o # Obj(op)
    BY <1>1, LocksTaken
  <2>2. Locked(async, repops) /\ async \in Seq(Sent)
    BY <1>3, MoveFacts DEF LockInv
  <2>3. Locked(Append(async, op), repops)
    BY <2>1, <2>2, LockedRead
  <2> QED
    BY <1>2, <1>6, <2>3
<1>11. \A i \in DOMAIN log' : log'[i].o = Obj(log'[i].op) /\ may_write(log'[i].op)
  BY <1>7, MoveFacts DEF LogInv
<1>12. \A i \in 1 .. stable : log'[i] = log[i]
  BY <1>7
<1>13. asserted' = ""
  BY MoveFacts
<1> QED
  BY <1>6, <1>7, <1>8, <1>9, <1>10, <1>11, <1>12, <1>13, WorkKeeps

(* A read is answered, and its lock released.                              *)
LEMMA CompleteKeeps ==
  ASSUME ClientInv, pg.st = "active", NEW op \in Sent, ~may_write(op),
         NEW C, Lists(C, Sent), C.repops = repops, C.ondisk = ondisk,
         Locked(C.async, repops),
         \A j \in DOMAIN repops : repops[j].lock # None => repops[j].o # Obj(op),
         complete_read_ctx(C, op),
         UNCHANGED <<begin, clientVars, pg, unreadable, degraded, stable, asserted>>
  PROVE  ClientInv'
<1>1. op \in Op /\ Obj(op) \in Object
  BY MoveFacts, OpTyped DEF Sent
<1>2. PICK D : D = release_object_locks(C, Obj(op))
  OBVIOUS
<1>3. Lists(D, Sent) /\ SameWork(C, D)
  BY <1>1, <1>2, ReleaseLocks
<1>4. D.async = C.async /\ D.repops = repops /\ D.ondisk = ondisk
  BY <1>3 DEF SameWork
<1>5. PICK m : m = Reply(op, "ok", VersionOf(Obj(op)))
  OBVIOUS
<1>6. Becomes(D) /\ log' = log /\ replies' = replies \cup {m} /\ stable' = stable
  BY <1>2, <1>5 DEF complete_read_ctx
<1>7. m \in ReplyType /\ RightReply(m)
  BY <1>5, ReadReply DEF Outcome
<1>8. RightReply(m)'
  BY <1>6, <1>7, SameReply DEF clientVars
<1>9. log' \in Seq(EntryType) /\ stable' \in Nat /\ stable <= stable' /\ stable' <= Len(log')
  BY <1>6, MoveFacts, LogTyped
<1>10. Behind(D.repops, D.ondisk, log', stable')
  BY <1>4, <1>6, MoveFacts DEF PendingInv
<1>11. Locked(D.async, D.repops)
  BY <1>4
<1>12. \A i \in DOMAIN log' : log'[i].o = Obj(log'[i].op) /\ may_write(log'[i].op)
  BY <1>6, MoveFacts DEF LogInv
<1>13. \A i \in 1 .. stable : log'[i] = log[i]
  BY <1>6
<1>14. asserted' = ""
  BY MoveFacts
<1>15. \A n \in replies' : n \in replies \/ (n \in ReplyType /\ RightReply(n)')
  BY <1>6, <1>7, <1>8
<1> QED
  BY <1>3, <1>6, <1>9, <1>10, <1>11, <1>12, <1>13, <1>14, <1>15, WorkKeeps

(* do_op, once the object is free of what blocks the operation.            *)
LEMMA DoOpStep ==
  ASSUME ClientInv, NEW op \in Op, do_op(op)
  PROVE  ClientInv'
<1>1. Past(op) /\ get_rw_locks(op)
  BY DEF do_op, Unblocked
<1>2. /\ queue # <<>> /\ op = Head(queue) /\ pg.st = "active" /\ op \in Sent
      /\ Obj(op) \in Object /\ kind(op) \in Kind
  BY <1>1, PastFacts
<1>3. PICK C : C = Taken
  OBVIOUS
<1>4. /\ Lists(C, Sent) /\ C.async = async /\ C.repops = repops /\ C.ondisk = ondisk
  BY <1>2, <1>3, MoveFacts, TakenIs
<1>5. /\ \A i \in DOMAIN async : Obj(async[i]) = Obj(op) =>
           kind(async[i]) = "read" /\ kind(op) = "read"
      /\ kind(op) \in {"read", "guarded"} =>
           \A j \in DOMAIN repops : repops[j].lock # None => repops[j].o # Obj(op)
  BY <1>1, LocksTaken
<1>6. CASE ~(may_write(op) \/ Exists(Obj(op)))
  <2>1. PICK m : m = Reply(op, "ENOENT", VersionOf(Obj(op)))
    OBVIOUS
  <2>2. m \in ReplyType /\ RightReply(m)
    BY <1>2, <1>5, <1>6, <2>1, ReadReply DEF Outcome, may_write
  <2>3. /\ Becomes(C) /\ UNCHANGED <<begin, clientVars, log, stable>> /\ pg' = pg
        /\ unreadable' = unreadable /\ degraded' = degraded
        /\ asserted' = asserted /\ replies' = replies \cup {m}
    BY <1>3, <1>6, <2>1 DEF do_op
  <2>4. \A n \in replies' : n \in replies \/ (n \in ReplyType /\ RightReply(n))
    BY <2>2, <2>3
  <2> QED
    BY <1>2, <1>4, <2>3, <2>4, MoveFacts, MoveKeeps
<1>7. CASE may_write(op) \/ Exists(Obj(op))
  <2>1. execute_ctx(C, op, TRUE)
    BY <1>3, <1>7 DEF do_op
  <2>2. UNCHANGED <<begin, clientVars, pg, unreadable, degraded, stable, asserted>>
    BY <2>1 DEF execute_ctx
  <2>3. CASE Reads(op, TRUE)
    <3>1. start_async_reads(C, op)
      BY <2>1, <2>3 DEF execute_ctx
    <3>2. kind(op) \in {"read", "guarded"}
      BY <2>3 DEF Reads
    <3> QED
      BY <1>1, <1>2, <1>4, <2>2, <3>1, <3>2, StartKeeps
  <2>4. CASE ~Reads(op, TRUE)
    <3>1. may_write(op)
      BY <1>7, <2>4 DEF Reads, may_write
    <3>2. issue_repop(C, op)
      BY <2>1, <2>4, <3>1 DEF execute_ctx
    <3>3. Locked(C.async, repops)
      BY <1>4, MoveFacts DEF LockInv
    <3>4. \A i \in DOMAIN C.async : Obj(C.async[i]) # Obj(op)
      BY <1>4, <1>5, <3>1 DEF may_write
    <3> QED
      BY <1>2, <1>4, <2>2, <3>1, <3>2, <3>3, <3>4, IssueKeeps
  <2> QED
    BY <2>3, <2>4
<1> QED
  BY <1>6, <1>7

(* The backend answers a read.                                             *)
LEMMA FinishReadStep ==
  ASSUME ClientInv, finish_read
  PROVE  ClientInv'
<1>1. async # <<>> /\ async \in Seq(Sent)
  BY MoveFacts, RepopTyped DEF finish_read
<1>2. pg.st = "active"
  BY <1>1, MoveFacts DEF QuietInv
<1>3. PICK a : a = Tail(async)
  OBVIOUS
<1>4. PICK op : op = Head(async)
  OBVIOUS
<1>5. /\ a \in Seq(Sent) /\ op \in Sent /\ op = async[1] /\ 1 \in DOMAIN async
      /\ \A i \in DOMAIN a : i + 1 \in DOMAIN async /\ i + 1 # 1 /\ a[i] = async[i + 1]
  BY <1>1, <1>3, <1>4, TailIndex
<1>6. PICK C : C = [Call EXCEPT !.async = a]
  OBVIOUS
<1>7. C = ListsIs(Call.queue, Call.waiting, Call.rw, a, Call.repops, Call.ondisk,
                  Call.scrub, Call.laggy)
  BY <1>6, MoveFacts, ListsChange
<1>8. Lists(C, Sent) /\ C.async = a /\ C.repops = repops /\ C.ondisk = ondisk
  <2>1. Lists(C, Sent)
    BY <1>5, <1>7, MoveFacts, ListsAre, ListsTyped
  <2> QED
    BY <1>7, <2>1, ListsFields, CallFields
<1>9. execute_ctx(C, op, FALSE)
  <2>1. [Call EXCEPT !.async = Tail(@)] = [Call EXCEPT !.async = Tail(async)]
    BY CallFields
  <2> QED
    BY <1>3, <1>4, <1>6, <2>1 DEF finish_read
<1>10. UNCHANGED <<begin, clientVars, pg, unreadable, degraded, stable, asserted>>
  BY <1>9 DEF execute_ctx
<1>11. Locked(async, repops)
  BY MoveFacts DEF LockInv
<1>12. Locked(C.async, repops)
  BY <1>1, <1>3, <1>8, <1>11, LockedTail
<1>13. ~Reads(op, FALSE)
  BY DEF Reads
<1>14. CASE may_write(op)
  <2>1. issue_repop(C, op)
    BY <1>9, <1>13, <1>14 DEF execute_ctx
  <2>2. \A i \in DOMAIN C.async : Obj(C.async[i]) # Obj(op)
    <3> SUFFICES ASSUME NEW i \in DOMAIN a, Obj(a[i]) = Obj(op) PROVE FALSE
      BY <1>8
    <3>1. i + 1 \in DOMAIN async /\ i + 1 # 1 /\ a[i] = async[i + 1]
      BY <1>5
    <3>2. kind(async[1]) = "read"
      BY <1>5, <1>11, <3>1 DEF Locked
    <3> QED
      BY <1>5, <1>14, <3>2 DEF may_write
  <2> QED
    BY <1>2, <1>5, <1>8, <1>10, <1>12, <1>14, <2>1, <2>2, IssueKeeps
<1>15. CASE ~may_write(op)
  <2>1. complete_read_ctx(C, op)
    BY <1>9, <1>13, <1>15 DEF execute_ctx
  <2>2. \A j \in DOMAIN repops : repops[j].lock # None => repops[j].o # Obj(op)
    BY <1>5, <1>11 DEF Locked
  <2> QED
    BY <1>2, <1>5, <1>8, <1>10, <1>12, <1>15, <2>1, <2>2, CompleteKeeps
<1> QED
  BY <1>14, <1>15
(* A resent operation finds its entry in the log.                          *)
LEMMA DupStep ==
  ASSUME ClientInv, NEW op \in Op, DoDup(op)
  PROVE  ClientInv'
<1>1. Past(op) /\ Dup(op)
  BY DEF DoDup, Unblocked
<1>2. queue # <<>> /\ op = Head(queue) /\ pg.st = "active" /\ op \in Sent
  BY <1>1, PastFacts
<1>3. PICK C : C = Taken
  OBVIOUS
<1>4. Lists(C, Sent) /\ C.async = async /\ C.repops = repops /\ C.ondisk = ondisk
  BY <1>2, <1>3, MoveFacts, TakenIs
<1>5. PICK v : v = Min(check_in_progress_op(op))
  OBVIOUS
<1>6. /\ log \in Seq(EntryType) /\ stable \in Nat /\ stable <= Len(log)
      /\ Len(log) \in Nat /\ DOMAIN log = 1 .. Len(log) /\ stable <= stable
  BY MoveFacts, LogTyped
<1>7. v \in DOMAIN log /\ log[v].op = op /\ v \in Nat
  <2> DEFINE T == check_in_progress_op(op)
  <2>1. T # {} /\ T \in SUBSET Nat /\ \A i \in T : i \in DOMAIN log /\ log[i].op = op
    BY <1>1, <1>6 DEF Dup, check_in_progress_op
  <2> HIDE DEF T
  <2>2. PICK n \in T : \A x \in T : n <= x
    BY <2>1, LeastMember
  <2>3. Min(T) \in T
    BY <2>2 DEF Min
  <2> QED
    BY <1>5, <2>1, <2>3 DEF T
<1>8. /\ UNCHANGED <<begin, clientVars, pg, unreadable, degraded, log, stable>>
      /\ unreadable' = unreadable /\ degraded' = degraded /\ pg' = pg /\ log' = log
      /\ stable' = stable /\ asserted' = asserted
  BY DEF DoDup
<1>9. Behind(repops, ondisk, log, stable)
  BY <1>2, MoveFacts DEF PendingInv
<1>10. Len(log) = stable + Len(repops) /\ Len(repops) \in Nat
       /\ DOMAIN repops = 1 .. Len(repops) /\ \A i \in DOMAIN repops : repops[i].v = stable + i
  <2> DEFINE X == RepopType(Sent)
  <2>1. repops \in Seq(X)
    BY MoveFacts, RepopTyped
  <2> HIDE DEF X
  <2> QED
    BY <1>9, <2>1 DEF Behind
<1>11. CASE already_complete(v)
  <2>1. v \in 1 .. stable
    <3> SUFFICES ASSUME stable < v PROVE FALSE
      BY <1>6, <1>7
    <3>1. PICK i : i = v - stable
      OBVIOUS
    <3>2. i \in DOMAIN repops /\ stable + i = v
      BY <1>6, <1>7, <1>10, <3>1
    <3>3. repops[i].v = v
      BY <1>10, <3>2
    <3>4. v > v
      BY <1>11, <3>2, <3>3 DEF already_complete
    <3> QED
      BY <1>7, <3>4
  <2>2. PICK m : m = Reply(op, log[v].r, v)
    OBVIOUS
  <2>3. m \in ReplyType /\ RightReply(m)
    BY <1>2, <1>6, <1>7, <2>1, <2>2, MoveFacts, WriteReply
  <2>4. Becomes(C) /\ replies' = replies \cup {m}
    BY <1>3, <1>5, <1>11, <2>2 DEF DoDup
  <2>5. \A n \in replies' : n \in replies \/ (n \in ReplyType /\ RightReply(n))
    BY <2>3, <2>4
  <2> QED
    BY <1>2, <1>4, <1>8, <2>4, <2>5, MoveFacts, MoveKeeps
<1>12. CASE ~already_complete(v)
  <2>1. stable < v /\ v <= Len(log)
    <3>1. PICK i \in DOMAIN repops : ~(repops[i].v > v)
      BY <1>12 DEF already_complete
    <3>2. repops[i].v = stable + i /\ i \in Nat /\ i # 0
      BY <1>10
    <3> QED
      BY <1>6, <1>7, <3>1, <3>2
  <2>2. PICK w : w = [op |-> op, v |-> v]
    OBVIOUS
  <2>3. PICK d : d = ondisk \cup {w}
    OBVIOUS
  <2>4. ondisk \in SUBSET DupType(Sent) /\ w \in DupType(Sent) /\ w.op = op /\ w.v = v
    BY <1>2, <1>7, <2>2, MoveFacts, RepopTyped DEF DupType
  <2>5. PICK D : D = [C EXCEPT !.ondisk = d]
    OBVIOUS
  <2>6. D = ListsIs(C.queue, C.waiting, C.rw, C.async, C.repops, d, C.scrub, C.laggy)
    BY <1>4, <2>5, ListsChange
  <2>7. Lists(D, Sent) /\ D.async = async /\ D.repops = repops /\ D.ondisk = d
    <3>0. d \in SUBSET DupType(Sent)
      BY <2>3, <2>4
    <3>1. Lists(D, Sent)
      BY <1>4, <2>6, <3>0, ListsAre, ListsTyped
    <3> QED
      BY <1>4, <2>6, <3>1, ListsFields
  <2>8. Becomes(D) /\ replies' = replies
    <3>1. [Taken EXCEPT !.ondisk = @ \cup {[op |-> op, v |-> v]}] = D
      BY <1>3, <1>4, <2>2, <2>3, <2>5
    <3> QED
      BY <1>5, <1>12, <3>1 DEF DoDup
  <2>9. Behind(D.repops, D.ondisk, log', stable')
    <3>1. \A u \in d : stable < u.v /\ u.v <= Len(log) /\ log[u.v].op = u.op
      BY <1>7, <1>9, <2>1, <2>3, <2>4 DEF Behind
    <3>2. Behind(repops, d, log, stable)
      BY <1>9, <3>1 DEF Behind
    <3> QED
      BY <1>8, <2>7, <3>2
  <2>10. Locked(D.async, D.repops)
    BY <2>7, MoveFacts DEF LockInv
  <2>11. log' \in Seq(EntryType) /\ stable' \in Nat /\ stable <= stable' /\ stable' <= Len(log')
    BY <1>6, <1>8, Zenon
  <2>12. \A i \in DOMAIN log' : log'[i].o = Obj(log'[i].op) /\ may_write(log'[i].op)
    BY <1>8, MoveFacts DEF LogInv
  <2>13. \A i \in 1 .. stable : log'[i] = log[i]
    BY <1>8
  <2>14. asserted' = ""
    BY <1>8, MoveFacts
  <2> QED
    BY <1>2, <1>8, <2>7, <2>8, <2>9, <2>10, <2>11, <2>12, <2>13, <2>14, WorkKeeps
<1> QED
  BY <1>11, <1>12

(* The oldest repop is on disk everywhere.                                 *)
LEMMA RepopStep ==
  ASSUME ClientInv, eval_repop
  PROVE  ClientInv'
<1>1. repops # <<>> /\ repops \in Seq(RepopType(Sent)) /\ ondisk \in SUBSET DupType(Sent)
  BY MoveFacts, RepopTyped DEF eval_repop
<1>2. pg.st = "active"
  BY <1>1, MoveFacts DEF QuietInv
<1>3. PICK p : p = Head(repops)
  OBVIOUS
<1>4. PICK t : t = Tail(repops)
  OBVIOUS
<1>5. /\ p = repops[1] /\ 1 \in DOMAIN repops /\ t \in Seq(RepopType(Sent))
      /\ p \in RepopType(Sent) /\ Len(t) = Len(repops) - 1
  BY <1>1, <1>3, <1>4, TailIndex
<1>6. PICK c : c = {w \in ondisk : w.v # p.v}
  OBVIOUS
<1>7. /\ log \in Seq(EntryType) /\ stable \in Nat /\ stable <= Len(log)
      /\ Len(log) \in Nat /\ DOMAIN log = 1 .. Len(log) /\ stable <= stable
  BY MoveFacts, LogTyped
<1>8. Behind(repops, ondisk, log, stable)
  BY <1>2, MoveFacts DEF PendingInv
<1>9. p.v = stable + 1 /\ p.op = log[stable + 1].op
  BY <1>5, <1>8 DEF Behind
<1>10. p.v \in Nat /\ p.o \in Object /\ p.op \in Sent
  BY <1>5 DEF RepopType
<1>11. stable + 1 <= Len(log)
  <2>1. Len(log) = stable + Len(repops)
    BY <1>8 DEF Behind
  <2>2. Len(repops) \in Nat /\ 1 \in 1 .. Len(repops)
    <3> DEFINE X == RepopType(Sent)
    <3>1. repops \in Seq(X)
      BY <1>1
    <3> HIDE DEF X
    <3> QED
      BY <1>5, <3>1
  <2> QED
    BY <1>7, <2>1, <2>2
<1>12. \A w \in ondisk : w.v \in Nat /\ w.op \in Sent
  BY <1>1 DEF DupType
<1>13. PICK A : A = [Call EXCEPT !.repops = t]
  OBVIOUS
<1>14. PICK C : C = [A EXCEPT !.ondisk = c]
  OBVIOUS
<1>15. A = ListsIs(Call.queue, Call.waiting, Call.rw, Call.async, t, Call.ondisk,
                   Call.scrub, Call.laggy)
  BY <1>13, MoveFacts, ListsChange
<1>16. Lists(A, Sent) /\ A.async = async /\ A.repops = t
  <2>1. Lists(A, Sent)
    BY <1>5, <1>15, MoveFacts, ListsAre, ListsTyped
  <2> QED
    BY <1>15, <2>1, ListsFields, CallFields
<1>17. C = ListsIs(A.queue, A.waiting, A.rw, A.async, A.repops, c, A.scrub, A.laggy)
  BY <1>14, <1>16, ListsChange
<1>18. Lists(C, Sent) /\ C.async = async /\ C.repops = t /\ C.ondisk = c
  <2>1. c \in SUBSET DupType(Sent)
    BY <1>1, <1>6
  <2>2. Lists(C, Sent)
    BY <1>16, <1>17, <2>1, ListsAre, ListsTyped
  <2> QED
    BY <1>16, <1>17, <2>2, ListsFields
<1>19. PICK D : D = IF p.lock = None THEN C ELSE release_object_locks(C, p.o)
  OBVIOUS
<1>20. Lists(D, Sent) /\ D.async = async /\ D.repops = t /\ D.ondisk = c
  <2>1. CASE p.lock = None
    BY <1>18, <1>19, <2>1
  <2>2. CASE p.lock # None
    <3>1. Lists(D, Sent) /\ SameWork(C, D)
      BY <1>10, <1>18, <1>19, <2>2, ReleaseLocks
    <3> QED
      BY <1>18, <3>1 DEF SameWork
  <2> QED
    BY <2>1, <2>2
<1>21. [Call EXCEPT !.repops = Tail(@), !.ondisk = {w \in ondisk : w.v # p.v}] = C
  <2>1. Call.repops = repops
    BY CallFields
  <2> QED
    BY <1>4, <1>6, <1>13, <1>14, <2>1
<1>22. /\ stable' = p.v /\ Becomes(D)
       /\ replies' = replies \cup {Reply(op, log[p.v].r, p.v) : op \in DupsOf(p.v) \cup {p.op}}
       /\ asserted' = IF DupsOf(p.v) # {} /\ Min({w.v : w \in ondisk}) # p.v
                      THEN "waiting_for_ondisk.begin() == v" ELSE ""
       /\ UNCHANGED <<begin, clientVars, pg, unreadable, degraded>> /\ log' = log
  BY <1>3, <1>19, <1>21 DEF eval_repop
<1>23. asserted' = ""
  <2> SUFFICES ASSUME DupsOf(p.v) # {} PROVE Min({w.v : w \in ondisk}) = p.v
    BY <1>22
  <2> DEFINE T == {w.v : w \in ondisk}
  <2>1. p.v \in T
    BY DEF DupsOf
  <2>2. \A x \in T : x \in Nat /\ p.v <= x
    BY <1>7, <1>8, <1>9, <1>12 DEF Behind
  <2> HIDE DEF T
  <2>3. Min(T) \in T /\ Min(T) <= p.v
    BY <2>1, <2>2 DEF Min
  <2>4. Min(T) = p.v
    BY <1>10, <2>2, <2>3
  <2> QED
    BY <2>4 DEF T
<1>24. /\ log' \in Seq(EntryType) /\ stable' \in Nat /\ stable <= stable'
       /\ stable' <= Len(log')
  <2>1. stable + 1 \in Nat /\ stable <= stable + 1
    BY <1>7
  <2>2. stable' = stable + 1 /\ log' = log
    BY <1>9, <1>22
  <2> QED
    BY <1>7, <1>11, <2>1, <2>2, Zenon
<1>25. \A i \in DOMAIN log' : log'[i].o = Obj(log'[i].op) /\ may_write(log'[i].op)
  BY <1>22, MoveFacts DEF LogInv
<1>26. \A i \in 1 .. stable : log'[i] = log[i]
  BY <1>22
<1>27. Behind(D.repops, D.ondisk, log', stable')
  <2>1. c \subseteq ondisk /\ \A w \in c : w.v # stable + 1
    BY <1>6, <1>9
  <2>2. Behind(t, c, log, stable + 1)
    BY <1>1, <1>4, <1>7, <1>8, <1>12, <2>1, BehindTail
  <2> QED
    BY <1>9, <1>20, <1>22, <2>2
<1>28. Locked(D.async, D.repops)
  <2>1. Locked(async, Tail(repops))
    BY <1>1, MoveFacts, LockedTailRepop DEF LockInv
  <2> QED
    BY <1>4, <1>20, <2>1
<1>29. \A m \in replies' : m \in replies \/ (m \in ReplyType /\ RightReply(m)')
  <2> SUFFICES ASSUME NEW op \in DupsOf(p.v) \cup {p.op}, NEW m,
                      m = Reply(op, log[p.v].r, p.v)
               PROVE  m \in ReplyType /\ RightReply(m)'
    BY <1>22
  <2>1. op \in Sent /\ log[p.v].op = op
    BY <1>8, <1>9, <1>10, <1>12 DEF DupsOf, Behind
  <2>2. p.v \in DOMAIN log /\ p.v \in 1 .. p.v
    BY <1>7, <1>9, <1>10, <1>11
  <2>3. m.op = op /\ m.r = log[p.v].r /\ m.v = p.v
    BY DEF Reply
  <2>4. log[p.v] \in EntryType
    <3> DEFINE X == EntryType
    <3>1. log \in Seq(X)
      BY <1>7
    <3> HIDE DEF X
    <3>2. log[p.v] \in X
      BY <2>2, <3>1
    <3> QED
      BY <3>2 DEF X
  <2>5. m \in ReplyType
    BY <1>10, <2>1, <2>4 DEF ReplyType, EntryType, Reply, Sent
  <2>6. may_write(op)
    BY <2>1, <2>2, MoveFacts DEF LogInv
  <2>7. Sent' = Sent
    BY <1>22 DEF Sent, Op, clientVars
  <2>8. may_write(m.op)' 
    BY <1>22, <2>3, <2>6 DEF may_write, kind
  <2> QED
    BY <1>22, <2>1, <2>2, <2>3, <2>5, <2>7, <2>8 DEF RightReply
<1> QED
  BY <1>2, <1>20, <1>22, <1>23, <1>24, <1>25, <1>26, <1>27, <1>28, <1>29, WorkKeeps
-----------------------------------------------------------------------------
(* Sequences over a set are sequences over a larger one.                   *)
LEMMA SeqGrows ==
  ASSUME NEW S, NEW T, S \subseteq T
  PROVE  Seq(S) \subseteq Seq(T)
<1> SUFFICES ASSUME NEW s \in Seq(S) PROVE s \in Seq(T)
  OBVIOUS
<1>1. PICK n \in Nat : s \in [1 .. n -> S]
  BY SeqDef
<1>2. s \in [1 .. n -> T]
  BY <1>1
<1> QED
  BY <1>2, SeqDef

(* The lists hold what was sent, and more may be sent.                     *)
LEMMA ListsGrow ==
  ASSUME NEW C, NEW S, NEW T, S \subseteq T, Lists(C, S)
  PROVE  Lists(C, T)
<1>1. /\ C = ListsIs(C.queue, C.waiting, C.rw, C.async, C.repops, C.ondisk,
                     C.scrub, C.laggy)
      /\ C.queue \in Seq(S) /\ C.waiting \in [ListName -> Seq(S)]
      /\ C.rw \in [Object -> Seq(S)] /\ C.async \in Seq(S)
      /\ C.repops \in Seq(RepopType(S)) /\ C.ondisk \in SUBSET DupType(S)
  BY ListsAre
<1>2. Seq(S) \subseteq Seq(T)
  BY SeqGrows
<1>3. C.queue \in Seq(T) /\ C.async \in Seq(T)
  BY <1>1, <1>2
<1>4. C.waiting \in [ListName -> Seq(T)] /\ C.rw \in [Object -> Seq(T)]
  BY <1>1, <1>2
<1>5. RepopType(S) \subseteq RepopType(T) /\ DupType(S) \subseteq DupType(T)
  BY DEF RepopType, DupType
<1>6. C.repops \in Seq(RepopType(T))
  <2>1. Seq(RepopType(S)) \subseteq Seq(RepopType(T))
    BY <1>5, SeqGrows
  <2> QED
    BY <1>1, <2>1
<1>7. C.ondisk \in SUBSET DupType(T)
  BY <1>1, <1>5
<1> QED
  BY <1>1, <1>3, <1>4, <1>6, <1>7, ListsTyped

(* With nothing in progress nothing is behind and nothing is locked.       *)
LEMMA NothingLeft ==
  /\ Locked(<<>>, <<>>)
  /\ \A l, s : s \in Nat /\ Len(l) = s => Behind(<<>>, {}, l, s)
<1>1. Len(<<>>) = 0 /\ \A i \in DOMAIN <<>> : FALSE
  OBVIOUS
<1>2. Locked(<<>>, <<>>)
  BY <1>1 DEF Locked
<1>3. ASSUME NEW l, NEW s, s \in Nat, Len(l) = s PROVE Behind(<<>>, {}, l, s)
  <2>1. Len(l) = s + Len(<<>>)
    BY <1>1, <1>3
  <2> QED
    BY <1>1, <2>1 DEF Behind
<1> QED
  BY <1>2, <1>3

(* A step after which nothing is in progress: an interval ends or starts.  *)
LEMMA IntervalKeeps ==
  ASSUME ClientInv, NEW D, Lists(D, Sent), D.async = <<>>, D.repops = <<>>,
         D.ondisk = {}, Becomes(D), UNCHANGED <<begin, answered, floor>>,
         toSend' \in [Client -> SUBSET Op],
         unreadable' \in [Object -> Seq(Sent)], degraded' \in [Object -> Seq(Sent)],
         PgRecord(pg'), pg'.st = "peering" => D.waiting["flush"] = <<>>,
         log' \in Seq(EntryType), stable' \in Nat, stable <= stable',
         stable' <= Len(log'), pg'.st # "peering" => Len(log') = stable',
         \A i \in 1 .. stable : log'[i] = log[i],
         \A i \in DOMAIN log' : log'[i].o = Obj(log'[i].op) /\ may_write(log'[i].op),
         asserted' = "", replies' \subseteq replies
  PROVE  ClientInv'
<1>1. UNCHANGED <<begin, answered, floor>> /\ async' = D.async
      /\ repops' = D.repops /\ ondisk' = D.ondisk /\ waiting' = D.waiting
  BY DEF Becomes
<1>2. Lists(Call, Sent)' /\ Sent' = Sent
  BY <1>1, CallPrimed
<1>3. Extends
  BY <1>1, <1>2 DEF Extends
<1>4. Op' = Op /\ Client' = Client /\ EntryType' = EntryType /\ ReplyType' = ReplyType
  BY <1>1 DEF Op, Client, EntryType, ReplyType
<1>5. TypeInv'
  <2>1. replies' \subseteq ReplyType'
    BY <1>4, MoveFacts, StableTyped
  <2>2. NoReply' = NoReply
    BY DEF NoReply, Reply
  <2>3. /\ unreadable' \in [Object -> Seq(Sent')] /\ degraded' \in [Object -> Seq(Sent')]
    BY <1>2
  <2>4. PgRecord(pg)'
    BY DEF PgRecord
  <2>5. /\ begin' \in Begin' /\ toSend' \in [Client' -> SUBSET Op']
        /\ answered' \in [Op' -> ReplyType' \cup {NoReply'}]
        /\ \A op \in Op' : answered'[op] # NoReply' => answered'[op].op = op
        /\ floor' \in [Op' -> SUBSET Nat]
    BY <1>1, <1>4, <2>2, MoveFacts DEF TypeInv
  <2>6. log' \in Seq(EntryType') /\ stable' \in Nat /\ stable' <= Len(log')
    BY <1>4
  <2> QED
    BY <1>2, <2>1, <2>3, <2>4, <2>5, <2>6 DEF TypeInv
<1>6. QuietInv'
  BY <1>1 DEF QuietInv
<1>7. LogInv'
  BY <1>1 DEF LogInv, Obj, may_write, kind
<1>8. PendingInv'
  <2> SUFFICES ASSUME pg'.st # "peering" PROVE Behind(repops, ondisk, log, stable)'
    BY DEF PendingInv
  <2>1. Behind(<<>>, {}, log', stable')
    BY NothingLeft
  <2>2. Behind(repops', ondisk', log', stable')
    BY <1>1, <2>1
  <2> QED
    BY <2>2 DEF Behind
<1>9. LockInv'
  <2>1. Locked(D.async, D.repops)
    BY NothingLeft
  <2> QED
    BY <1>1, <2>1, LockedSame DEF LockInv
<1>10. FloorInv'
  BY <1>1, <1>3, MoveFacts, FloorKept
<1>11. \A op \in Op : answered'[op] \in {answered[op]} \cup replies
  BY <1>1
<1>12. \A m \in replies' : m \in replies \/ RightReply(m)'
  OBVIOUS
<1> QED
  BY <1>3, <1>5, <1>6, <1>7, <1>8, <1>9, <1>10, <1>11, <1>12, StepKeeps

(* The acting set has the log of the new interval.                         *)
LEMMA ActivateStep ==
  ASSUME ClientInv, NEW st \in {"peered", "active"}, on_activate_complete(st)
  PROVE  ClientInv'
<1>1. /\ pg.st = "peering" /\ pg' = [pg EXCEPT !.st = st] /\ stable' = Len(log)
      /\ UNCHANGED <<begin, answered, floor>> /\ toSend' = toSend /\ log' = log
      /\ unreadable' = unreadable /\ degraded' = degraded /\ replies' = replies
  BY DEF on_activate_complete, clientVars
<1>2. async = <<>> /\ repops = <<>> /\ ondisk = {} /\ waiting["flush"] = <<>>
  BY <1>1, MoveFacts DEF QuietInv
<1>3. asserted' = ""
  BY <1>2 DEF on_activate_complete
<1>4. PICK ls : ls = waiting["peered"]
  OBVIOUS
<1>5. PICK e : e = <<>>
  OBVIOUS
<1>6. ls \in Seq(Sent) /\ e \in Seq(Sent) /\ "peered" \in ListName /\ "flush" \in ListName
      /\ waiting["flush"] \in Seq(Sent)
  BY <1>4, <1>5, MoveFacts DEF ListName
<1>7. PICK C : C = SetList(Call, "peered", e)
  OBVIOUS
<1>8. Lists(C, Sent) /\ SameWork(Call, C)
  BY <1>6, <1>7, MoveFacts, SetOneList
<1>9. PICK f : f = IF ls = <<>> THEN waiting["flush"] ELSE ls
  OBVIOUS
<1>10. f \in Seq(Sent)
  BY <1>6, <1>9
<1>11. PICK D : D = IF pg.flush THEN SetList(C, "flush", f) ELSE requeue_ops(C, ls)
  OBVIOUS
<1>12. Lists(D, Sent) /\ SameWork(C, D)
  <2>1. CASE pg.flush
    BY <1>6, <1>8, <1>10, <1>11, <2>1, SetOneList
  <2>2. CASE ~pg.flush
    BY <1>6, <1>8, <1>11, <2>2, RequeueOps
  <2> QED
    BY <2>1, <2>2
<1>13. D.async = <<>> /\ D.repops = <<>> /\ D.ondisk = {}
  BY <1>2, <1>8, <1>12, CallFields DEF SameWork
<1>14. Becomes(D)
  BY <1>4, <1>5, <1>7, <1>9, <1>11 DEF on_activate_complete
<1>15. PgRecord(pg') /\ pg'.st = st
  <2>1. pg = [st |-> pg.st, flush |-> pg.flush, late |-> pg.late, laggy |-> pg.laggy,
              scrub |-> pg.scrub]
    BY MoveFacts DEF PgRecord
  <2>2. pg' = [st |-> st, flush |-> pg.flush, late |-> pg.late, laggy |-> pg.laggy,
               scrub |-> pg.scrub]
    BY <1>1, <2>1
  <2>3. pg'.st = st /\ pg'.flush = pg.flush /\ pg'.late = pg.late
        /\ pg'.laggy = pg.laggy /\ pg'.scrub = pg.scrub
    BY <2>2
  <2> QED
    BY <2>2, <2>3 DEF PgRecord
<1>16. /\ log \in Seq(EntryType) /\ stable \in Nat /\ stable <= Len(log)
       /\ Len(log) \in Nat /\ Len(log) <= Len(log)
  <2>1. Len(log) \in Nat
    BY MoveFacts, LogTyped
  <2>2. Len(log) <= Len(log)
    BY <2>1
  <2> QED
    BY <2>1, <2>2, MoveFacts, LogTyped
<1>17. /\ log' \in Seq(EntryType) /\ stable' \in Nat /\ stable <= stable'
       /\ stable' <= Len(log') /\ Len(log') = stable'
  BY <1>1, <1>16, Zenon
<1>18. \A i \in DOMAIN log' : log'[i].o = Obj(log'[i].op) /\ may_write(log'[i].op)
  BY <1>1, MoveFacts DEF LogInv
<1>19. toSend' \in [Client -> SUBSET Op]
  BY <1>1, MoveFacts DEF TypeInv
<1>20. unreadable' \in [Object -> Seq(Sent)] /\ degraded' \in [Object -> Seq(Sent)]
  BY <1>1, MoveFacts
<1>21. pg'.st # "peering" /\ replies' \subseteq replies
       /\ \A i \in 1 .. stable : log'[i] = log[i]
  BY <1>1, <1>15
<1> QED
  BY <1>1, <1>3, <1>12, <1>13, <1>14, <1>15, <1>17, <1>18, <1>19, <1>20, <1>21,
     IntervalKeeps
(* Each resent operation that waits for a version waits for a repop that   *)
(* is in the queue, and it is the operation of that repop.                 *)
LEMMA DupsHaveRepops ==
  ASSUME ClientInv
  PROVE  /\ \A i \in DOMAIN repops : DupsOf(repops[i].v) \subseteq {repops[i].op}
         /\ \A w \in ondisk : \E i \in DOMAIN repops : repops[i].v = w.v
<1>1. CASE pg.st = "peering"
  <2>1. repops = <<>> /\ ondisk = {}
    BY <1>1, MoveFacts DEF QuietInv
  <2>2. \A i \in DOMAIN repops : FALSE
    BY <2>1
  <2> QED
    BY <2>1, <2>2
<1>2. CASE pg.st # "peering"
  <2>1. Behind(repops, ondisk, log, stable)
    BY <1>2, MoveFacts DEF PendingInv
  <2>2. Len(log) = stable + Len(repops) /\ Len(repops) \in Nat
        /\ DOMAIN repops = 1 .. Len(repops)
    <3> DEFINE X == RepopType(Sent)
    <3>1. repops \in Seq(X)
      BY MoveFacts, RepopTyped
    <3> HIDE DEF X
    <3> QED
      BY <2>1, <3>1 DEF Behind
  <2>3. \A i \in DOMAIN repops : repops[i].v = stable + i /\ repops[i].op = log[stable + i].op
    BY <2>1 DEF Behind
  <2>4. \A w \in ondisk : /\ stable < w.v /\ w.v <= Len(log) /\ log[w.v].op = w.op
                          /\ w.v \in Nat
    BY <2>1, MoveFacts, RepopTyped DEF Behind, DupType
  <2>5. ASSUME NEW i \in DOMAIN repops, NEW w \in ondisk, w.v = repops[i].v
        PROVE  w.op = repops[i].op
    BY <2>3, <2>4, <2>5
  <2>6. ASSUME NEW w \in ondisk
        PROVE  \E i \in DOMAIN repops : repops[i].v = w.v
    <3>1. PICK i : i = w.v - stable
      OBVIOUS
    <3>2. stable \in Nat /\ w.v \in Nat /\ stable < w.v /\ w.v <= Len(log)
      BY <2>4, MoveFacts, LogTyped
    <3>3. i \in DOMAIN repops /\ stable + i = w.v
      BY <2>2, <3>1, <3>2
    <3> QED
      BY <2>3, <3>3
  <2> QED
    BY <2>5, <2>6 DEF DupsOf
<1> QED
  BY <1>1, <1>2

(* The first part of the log.                                              *)
LEMMA LogCut ==
  ASSUME ClientInv, NEW n \in stable .. Len(log), NEW l, l = SubSeq(log, 1, n)
  PROVE  /\ l \in Seq(EntryType) /\ stable <= Len(l)
         /\ \A i \in 1 .. stable : l[i] = log[i]
         /\ \A i \in DOMAIN l : l[i].o = Obj(l[i].op) /\ may_write(l[i].op)
<1>1. /\ log \in Seq(EntryType) /\ stable \in Nat /\ Len(log) \in Nat
      /\ DOMAIN log = 1 .. Len(log)
  BY MoveFacts, LogTyped
<1>2. n \in Nat /\ stable <= n /\ n <= Len(log)
  BY <1>1
<1> DEFINE X == EntryType
<1>3. log \in Seq(X)
  BY <1>1
<1> HIDE DEF X
<1>4. /\ l \in Seq(X) /\ Len(l) = n /\ DOMAIN l = 1 .. n
      /\ \A i \in 1 .. n : l[i] = log[i]
  BY <1>1, <1>2, <1>3
<1>5. \A i \in DOMAIN l : i \in DOMAIN log /\ l[i] = log[i]
  BY <1>1, <1>2, <1>4
<1>6. \A i \in 1 .. stable : l[i] = log[i]
  BY <1>1, <1>2, <1>4
<1> QED
  BY <1>2, <1>4, <1>5, <1>6, MoveFacts DEF X, LogInv

(* A new interval, on this primary or on another one.                      *)
LEMMA IntervalStep ==
  ASSUME ClientInv, NEW same, NEW resend, NEW keep, NewInterval(same, resend, keep)
  PROVE  ClientInv'
<1>1. /\ keep \in stable .. Len(log) /\ log' = SubSeq(log, 1, keep)
      /\ UNCHANGED <<begin, answered, floor>> /\ stable' = stable
      /\ unreadable' = NoWaiters /\ degraded' = NoWaiters
      /\ pg' = [st |-> "peering", flush |-> TRUE, late |-> FALSE, laggy |-> FALSE,
                scrub |-> 0]
  BY DEF NewInterval
<1>2. NoWaiters \in [Object -> Seq(Sent)] /\ NoLists \in [ListName -> Seq(Sent)]
      /\ NoLists["flush"] = <<>>
  <2>1. <<>> \in Seq(Sent)
    BY MoveFacts
  <2> QED
    BY <2>1 DEF NoWaiters, NoLists, ListName
<1>3. PICK D : D = IF same THEN on_change ELSE Dropped
  OBVIOUS
<1>4. Becomes(D) /\ replies' \subseteq replies
  BY <1>3 DEF NewInterval
<1>5. asserted' = ""
  <2>1. ~\E w \in ondisk : \A i \in DOMAIN repops : repops[i].v # w.v
    BY DupsHaveRepops
  <2> QED
    BY <2>1 DEF NewInterval
<1>0. PICK e, d : e = <<>> /\ d = {}
  OBVIOUS
<1>6. PICK E : IF same THEN E = D
               ELSE E = ListsIs(e, NoLists, NoWaiters, e, e, d, 0, 0)
  OBVIOUS
<1>7. /\ Lists(E, Sent) /\ E.async = <<>> /\ E.repops = <<>> /\ E.ondisk = {}
      /\ E.waiting = NoLists
  <2>1. CASE same
    <3>1. E = on_change
      BY <1>3, <1>6, <2>1
    <3>2. Sent \in SUBSET Op
      BY DEF Sent
    <3> QED
      BY <3>1, <3>2, MoveFacts, DupsHaveRepops, OnChange
  <2>2. CASE ~same
    <3>1. E = ListsIs(e, NoLists, NoWaiters, e, e, d, 0, 0)
      BY <1>6, <2>2
    <3>2. e \in Seq(Sent) /\ e \in Seq(RepopType(Sent)) /\ d \in SUBSET DupType(Sent)
      BY <1>0
    <3>3. Lists(E, Sent)
      BY <1>2, <3>1, <3>2, ListsTyped
    <3>4. /\ E.async = e /\ E.repops = e /\ E.ondisk = d /\ E.waiting = NoLists
      BY <3>1, ListsFields
    <3> QED
      BY <1>0, <3>3, <3>4
  <2> QED
    BY <2>1, <2>2
<1>8. Becomes(E)
  <2>1. CASE same
    BY <1>4, <1>6, <2>1
  <2>2. CASE ~same
    <3>1. /\ E.queue = <<>> /\ E.waiting = NoLists /\ E.rw = NoWaiters /\ E.async = <<>>
          /\ E.repops = <<>> /\ E.ondisk = {}
      <4>1. E = ListsIs(e, NoLists, NoWaiters, e, e, d, 0, 0)
        BY <1>6, <2>2
      <4>2. /\ E.queue = e /\ E.waiting = NoLists /\ E.rw = NoWaiters /\ E.async = e
            /\ E.repops = e /\ E.ondisk = d
        BY <4>1, ListsFields
      <4> QED
        BY <1>0, <4>2
    <3>2. /\ D.queue = <<>> /\ D.waiting = NoLists /\ D.rw = NoWaiters /\ D.async = <<>>
          /\ D.repops = <<>> /\ D.ondisk = {}
      BY <1>3, <2>2 DEF Dropped
    <3> QED
      BY <1>4, <3>1, <3>2 DEF Becomes
  <2> QED
    BY <2>1, <2>2
<1>9. toSend' \in [Client -> SUBSET Op]
  <2>1. toSend \in [Client -> SUBSET Op]
    BY MoveFacts DEF TypeInv
  <2>2. \A c \in Client : Resend(c) \subseteq Op
    BY <2>1 DEF Resend, OpsOf
  <2>3. toSend' = IF resend THEN [c \in Client |-> Resend(c)] ELSE toSend
    BY DEF NewInterval
  <2> QED
    BY <2>1, <2>2, <2>3
<1>10. unreadable' \in [Object -> Seq(Sent)] /\ degraded' \in [Object -> Seq(Sent)]
  BY <1>1, <1>2
<1>11. PgRecord(pg') /\ pg'.st = "peering"
  BY <1>1 DEF PgRecord
<1>12. /\ log' \in Seq(EntryType) /\ stable <= Len(log')
       /\ \A i \in 1 .. stable : log'[i] = log[i]
       /\ \A i \in DOMAIN log' : log'[i].o = Obj(log'[i].op) /\ may_write(log'[i].op)
  BY <1>1, LogCut
<1>13. stable' \in Nat /\ stable <= stable' /\ stable' <= Len(log')
  BY <1>1, <1>12, MoveFacts, LogTyped, Zenon
<1>14. E.waiting["flush"] = <<>>
  BY <1>2, <1>7
<1> QED
  BY <1>1, <1>4, <1>5, <1>7, <1>8, <1>9, <1>10, <1>11, <1>12, <1>13, <1>14, IntervalKeeps

(* A client sends an operation, for the first time or again.               *)
LEMMA SendStep ==
  ASSUME ClientInv, NEW c \in Client, Send(c)
  PROVE  ClientInv'
<1>1. PICK op \in toSend[c] :
        /\ toSend' = [toSend EXCEPT ![c] = @ \ {op}]
        /\ queue' = Append(queue, op)
        /\ floor' = [floor EXCEPT ![op] = IF @ = {}
                       THEN {Max(Answered(Obj(op)) \cup {0})} ELSE @]
  BY DEF Send
<1>2. /\ UNCHANGED <<begin, answered, pg, unreadable, degraded, waiting, rw, async,
                     repops, ondisk, log, stable, replies>>
      /\ asserted' = asserted
  BY DEF Send, waitVars, workVars
<1>3. /\ toSend \in [Client -> SUBSET Op] /\ floor \in [Op -> SUBSET Nat]
      /\ answered \in [Op -> ReplyType \cup {NoReply}] /\ replies \subseteq ReplyType
      /\ \A p \in Op : answered[p] # NoReply => answered[p].op = p
  BY MoveFacts DEF TypeInv
<1>4. op \in Op
  BY <1>3
<1>5. PICK x : x = Obj(op)
  OBVIOUS
<1>6. PICK n : n = Max(Answered(x) \cup {0})
  OBVIOUS
<1>7. /\ log \in Seq(EntryType) /\ stable \in Nat /\ stable <= Len(log) /\ stable <= stable
      /\ DOMAIN log = 1 .. Len(log) /\ Len(log) \in Nat
  BY MoveFacts, LogTyped
<1>8. \A v \in Answered(x) : v \in 1 .. stable /\ log[v].o = x /\ log[v].r = "ok"
  <2> SUFFICES ASSUME NEW p \in Op, Obj(p) = x, answered[p] # NoReply, may_write(p),
                      answered[p].r = "ok", NEW v, v = answered[p].v
               PROVE  v \in 1 .. stable /\ log[v].o = x /\ log[v].r = "ok"
    BY DEF Answered
  <2>1. answered[p] \in Given /\ answered[p].op = p
    BY <1>3 DEF Given
  <2>2. v \in 1 .. stable /\ log[v].op = p /\ log[v].r = "ok"
    BY <2>1, MoveFacts DEF ReplyInv, RightReply
  <2>3. v \in DOMAIN log
    BY <1>7, <2>2
  <2>4. log[v].o = Obj(log[v].op)
    BY <2>3, MoveFacts DEF LogInv
  <2> QED
    BY <2>2, <2>4
<1>9. n \in Nat /\ (n # 0 => n <= stable /\ log[n].o = x /\ log[n].r = "ok")
  <2> DEFINE T == Answered(x) \cup {0}
  <2>1. T \in SUBSET Nat /\ T # {} /\ \A t \in T : t <= stable
    BY <1>7, <1>8
  <2>2. \A t \in T : t # 0 => t <= stable /\ log[t].o = x /\ log[t].r = "ok"
    BY <1>7, <1>8
  <2> HIDE DEF T
  <2>3. Max(T) \in T
    BY <1>7, <2>1, GreatestMember
  <2>4. n = Max(T)
    BY <1>6 DEF T
  <2> QED
    BY <2>1, <2>2, <2>3, <2>4
<1>10. /\ floor' \in [Op -> SUBSET Nat] /\ floor'[op] = IF floor[op] = {} THEN {n} ELSE floor[op]
       /\ \A p \in Op \ {op} : floor'[p] = floor[p]
  <2>1. floor' = [floor EXCEPT ![op] = IF floor[op] = {} THEN {n} ELSE floor[op]]
    BY <1>1, <1>3, <1>4, <1>5, <1>6
  <2> QED
    BY <1>3, <1>4, <1>9, <2>1
<1>11. Op' = Op /\ Client' = Client /\ EntryType' = EntryType /\ ReplyType' = ReplyType
  BY <1>2 DEF Op, Client, EntryType, ReplyType
<1>12. Sent \subseteq Sent' /\ op \in Sent' /\ \A p \in Sent : floor'[p] = floor[p]
  BY <1>4, <1>10, <1>11 DEF Sent
<1>13. Extends
  <2>1. stable' \in Nat /\ stable <= stable'
    BY <1>2, <1>7, Zenon
  <2>2. \A i \in 1 .. stable : log'[i] = log[i]
    BY <1>2
  <2> QED
    BY <1>2, <1>12, <2>1, <2>2 DEF Extends
<1>14. PICK T : T = Sent'
  OBVIOUS
<1>15. Lists(Call, Sent)'
  <2>1. Lists(Call, T)
    BY <1>12, <1>14, MoveFacts, ListsGrow
  <2>2. PICK q : q = Append(queue, op)
    OBVIOUS
  <2>3. q \in Seq(T)
    BY <1>12, <1>14, <2>1, <2>2, CallFields, ListsAre, AppendIndex
  <2>4. Call' = ListsIs(q, waiting, rw, async, repops, ondisk, pg.scrub, pg.laggy)
    BY <1>1, <1>2, <2>2 DEF Call, ListsIs
  <2>5. /\ waiting \in [ListName -> Seq(T)] /\ rw \in [Object -> Seq(T)]
        /\ async \in Seq(T) /\ repops \in Seq(RepopType(T)) /\ ondisk \in SUBSET DupType(T)
    BY <2>1, CallFields, ListsAre
  <2>6. Lists(Call', T)
    BY <2>3, <2>4, <2>5, ListsTyped
  <2> QED
    BY <1>14, <2>6 DEF Lists, RepopType, DupType
<1>16. TypeInv'
  <2>1. NoReply' = NoReply
    BY DEF NoReply, Reply
  <2>2. unreadable' \in [Object -> Seq(Sent')] /\ degraded' \in [Object -> Seq(Sent')]
    <3>1. Seq(Sent) \subseteq Seq(T)
      BY <1>12, <1>14, SeqGrows
    <3>2. unreadable \in [Object -> Seq(Sent)] /\ degraded \in [Object -> Seq(Sent)]
      BY MoveFacts
    <3>3. unreadable \in [Object -> Seq(T)] /\ degraded \in [Object -> Seq(T)]
      BY <3>1, <3>2
    <3> QED
      BY <1>2, <1>14, <3>3
  <2>3. PgRecord(pg)'
    BY <1>2, MoveFacts DEF PgRecord
  <2>4. toSend' \in [Client -> SUBSET Op]
    BY <1>1, <1>3
  <2>5. begin \in Begin
    BY MoveFacts
  <2> QED
    BY <1>2, <1>3, <1>7, <1>10, <1>11, <1>15, <2>1, <2>2, <2>3, <2>4, <2>5 DEF TypeInv
<1>17. QuietInv'
  BY <1>2, MoveFacts DEF QuietInv
<1>18. LogInv'
  BY <1>2, MoveFacts DEF LogInv, Obj, may_write, kind
<1>19. PendingInv'
  BY <1>2, MoveFacts DEF PendingInv, Behind
<1>20. LockInv'
  <2>1. Locked(async, repops) /\ async' = async /\ repops' = repops /\ begin' = begin
    BY <1>2, MoveFacts DEF LockInv
  <2> QED
    BY <2>1, LockedSame DEF LockInv
<1>21. FloorInv'
  <2> SUFFICES ASSUME NEW p \in Op, NEW v \in floor'[p], v # 0
               PROVE  v <= stable /\ log[v].o = Obj(p) /\ log[v].r = "ok"
    BY <1>2, <1>11 DEF FloorInv, Obj
  <2>1. CASE v \in floor[p]
    BY <2>1, MoveFacts DEF FloorInv
  <2>2. CASE v \notin floor[p]
    <3>1. p = op /\ v = n
      BY <1>10, <2>2
    <3> QED
      BY <1>5, <1>9, <3>1
  <2> QED
    BY <2>1, <2>2
<1>22. \A m \in replies' : m \in replies \/ RightReply(m)'
  BY <1>2
<1>23. \A p \in Op : answered'[p] \in {answered[p]} \cup replies
  BY <1>2
<1>24. asserted' = ""
  BY <1>2, MoveFacts
<1> QED
  BY <1>13, <1>16, <1>17, <1>18, <1>19, <1>20, <1>21, <1>22, <1>23, <1>24, StepKeeps

(* A client gets a reply.                                                  *)
LEMMA ReceiveStep ==
  ASSUME ClientInv, Receive
  PROVE  ClientInv'
<1>1. PICK m \in replies :
        /\ replies' = replies \ {m}
        /\ answered' = [answered EXCEPT ![m.op] = IF @ = NoReply THEN m ELSE @]
  BY DEF Receive
<1>2. /\ UNCHANGED <<begin, toSend, floor, pg, unreadable, degraded, log, stable>>
      /\ queue' = queue /\ waiting' = waiting /\ rw' = rw /\ async' = async
      /\ repops' = repops /\ ondisk' = ondisk /\ asserted' = asserted
  BY DEF Receive, waitVars, workVars
<1>3. /\ toSend \in [Client -> SUBSET Op] /\ floor \in [Op -> SUBSET Nat]
      /\ answered \in [Op -> ReplyType \cup {NoReply}] /\ replies \subseteq ReplyType
      /\ \A p \in Op : answered[p] # NoReply => answered[p].op = p
      /\ begin \in Begin
  BY MoveFacts DEF TypeInv
<1>4. m.op \in Op /\ m \in ReplyType
  BY <1>3 DEF ReplyType
<1>5. /\ log \in Seq(EntryType) /\ stable \in Nat /\ stable <= Len(log) /\ stable <= stable
  BY MoveFacts, LogTyped
<1>6. Op' = Op /\ Client' = Client /\ EntryType' = EntryType /\ ReplyType' = ReplyType
      /\ Sent' = Sent
  BY <1>2 DEF Op, Client, EntryType, ReplyType, Sent
<1>7. Extends
  <2>1. stable' \in Nat /\ stable <= stable'
    BY <1>2, <1>5, Zenon
  <2>2. \A i \in 1 .. stable : log'[i] = log[i]
    BY <1>2
  <2>3. \A p \in Sent : floor'[p] = floor[p]
    BY <1>2
  <2> QED
    BY <1>2, <1>6, <2>1, <2>2, <2>3 DEF Extends
<1>8. Lists(Call, Sent)'
  <2>1. Becomes(Call)
    BY <1>2, CallFields DEF Becomes
  <2> QED
    BY <1>2, <2>1, MoveFacts, CallPrimed
<1>9. /\ answered' \in [Op -> ReplyType \cup {NoReply}]
      /\ \A p \in Op : answered'[p] # NoReply => answered'[p].op = p
      /\ \A p \in Op : answered'[p] \in {answered[p]} \cup replies
  <2>1. answered' = [answered EXCEPT ![m.op] = IF answered[m.op] = NoReply THEN m
                                                ELSE answered[m.op]]
    BY <1>1
  <2>2. \A p \in Op : answered'[p] = IF p = m.op /\ answered[p] = NoReply THEN m
                                     ELSE answered[p]
    BY <1>3, <1>4, <2>1
  <2> QED
    BY <1>3, <1>4, <2>1, <2>2
<1>10. TypeInv'
  <2>1. NoReply' = NoReply
    BY DEF NoReply, Reply
  <2>2. unreadable' \in [Object -> Seq(Sent')] /\ degraded' \in [Object -> Seq(Sent')]
    BY <1>2, <1>6, MoveFacts
  <2>3. PgRecord(pg)'
    BY <1>2, MoveFacts DEF PgRecord
  <2>4. replies' \subseteq ReplyType
    BY <1>1, <1>3
  <2> QED
    BY <1>2, <1>3, <1>5, <1>6, <1>8, <1>9, <2>1, <2>2, <2>3, <2>4 DEF TypeInv
<1>11. QuietInv'
  BY <1>2, MoveFacts DEF QuietInv
<1>12. LogInv'
  BY <1>2, MoveFacts DEF LogInv, Obj, may_write, kind
<1>13. PendingInv'
  BY <1>2, MoveFacts DEF PendingInv, Behind
<1>14. LockInv'
  <2>1. Locked(async, repops) /\ async' = async /\ repops' = repops /\ begin' = begin
    BY <1>2, MoveFacts DEF LockInv
  <2> QED
    BY <2>1, LockedSame DEF LockInv
<1>15. FloorInv'
  BY <1>2, <1>7, MoveFacts, FloorKept
<1>16. \A n \in replies' : n \in replies \/ RightReply(n)'
  BY <1>1
<1>17. asserted' = ""
  BY <1>2, MoveFacts
<1> QED
  BY <1>7, <1>9, <1>10, <1>11, <1>12, <1>13, <1>14, <1>15, <1>16, <1>17, StepKeeps
-----------------------------------------------------------------------------
(* Nothing was sent, nothing is logged, and the PG is peering.             *)
LEMMA InitHolds ==
  ASSUME Init
  PROVE  ClientInv
<1>1. /\ begin \in Begin /\ toSend = [c \in Client |-> OpsOf(c)]
      /\ queue = <<>> /\ rw = NoWaiters /\ async = <<>> /\ repops = <<>>
      /\ ondisk = {} /\ waiting = NoLists /\ unreadable = NoWaiters
      /\ degraded = NoWaiters /\ log = <<>> /\ stable = 0 /\ replies = {}
      /\ answered = [op \in Op |-> NoReply] /\ floor = [op \in Op |-> {}]
      /\ asserted = ""
  BY DEF Init
<1>2. pg = [st |-> "peering", flush |-> TRUE, late |-> FALSE, laggy |-> FALSE,
            scrub |-> 0]
  BY DEF Init
<1>3. NoWaiters \in [Object -> Seq(Sent)] /\ NoLists \in [ListName -> Seq(Sent)]
      /\ NoLists["flush"] = <<>>
  <2>1. <<>> \in Seq(Sent)
    OBVIOUS
  <2> QED
    BY <2>1 DEF NoWaiters, NoLists, ListName
<1>4. Lists(Call, Sent)
  <2>0. \A S : <<>> \in Seq(S) /\ {} \in SUBSET S
    OBVIOUS
  <2>1. /\ queue \in Seq(Sent) /\ async \in Seq(Sent) /\ repops \in Seq(RepopType(Sent))
        /\ ondisk \in SUBSET DupType(Sent)
    BY <1>1, <2>0, Zenon
  <2>2. waiting \in [ListName -> Seq(Sent)] /\ rw \in [Object -> Seq(Sent)]
    BY <1>1, <1>3
  <2>3. Call = ListsIs(queue, waiting, rw, async, repops, ondisk, pg.scrub, pg.laggy)
    BY DEF Call, ListsIs
  <2> QED
    BY <2>1, <2>2, <2>3, ListsTyped
<1>5. PgRecord(pg) /\ pg.st = "peering"
  BY <1>2 DEF PgRecord
<1>6. log \in Seq(EntryType) /\ stable \in Nat /\ stable <= Len(log)
      /\ \A i \in DOMAIN log : FALSE
  <2>1. log = <<>> /\ stable = 0
    BY <1>1
  <2>2. <<>> \in Seq(EntryType)
    OBVIOUS
  <2>3. 0 \in Nat /\ 0 <= Len(<<>>) /\ \A i \in DOMAIN <<>> : FALSE
    OBVIOUS
  <2> QED
    BY <2>1, <2>2, <2>3, Zenon
<1>7. TypeInv
  <2>1. toSend \in [Client -> SUBSET Op]
    BY <1>1 DEF OpsOf
  <2>2. replies \subseteq ReplyType /\ answered \in [Op -> ReplyType \cup {NoReply}]
        /\ \A op \in Op : answered[op] # NoReply => answered[op].op = op
    BY <1>1
  <2>3. floor \in [Op -> SUBSET Nat]
    BY <1>1
  <2>4. unreadable \in [Object -> Seq(Sent)] /\ degraded \in [Object -> Seq(Sent)]
    BY <1>1, <1>3
  <2> QED
    BY <1>1, <1>4, <1>5, <1>6, <2>1, <2>2, <2>3, <2>4 DEF TypeInv
<1>8. QuietInv
  BY <1>1, <1>3 DEF QuietInv
<1>9. LogInv
  BY <1>6 DEF LogInv
<1>10. PendingInv
  BY <1>5 DEF PendingInv
<1>11. LockInv
  BY <1>1, NothingLeft DEF LockInv
<1>12. FloorInv
  BY <1>1 DEF FloorInv
<1>13. ReplyInv
  BY <1>1 DEF ReplyInv, Given
<1> QED
  BY <1>1, <1>7, <1>8, <1>9, <1>10, <1>11, <1>12, <1>13 DEF ClientInv, NoAssertFails,
     Running

(* Nothing happens.                                                        *)
LEMMA StutterStep ==
  ASSUME ClientInv, UNCHANGED vars
  PROVE  ClientInv'
<1>1. /\ UNCHANGED <<begin, clientVars, log, stable>> /\ pg' = pg
      /\ unreadable' = unreadable /\ degraded' = degraded
      /\ asserted' = asserted /\ replies' = replies /\ queue' = queue
      /\ waiting' = waiting /\ rw' = rw /\ async' = async /\ repops' = repops
      /\ ondisk' = ondisk
  BY DEF vars, waitVars, workVars
<1>2. Becomes(Call)
  BY <1>1, CallFields DEF Becomes
<1>3. pg.st = "peering" => Call.waiting["flush"] = <<>>
  BY MoveFacts, CallFields DEF QuietInv
<1> QED
  BY <1>1, <1>2, <1>3, CallFields, MoveFacts, MoveKeeps

(* Every step keeps the invariant.                                         *)
LEMMA StepHolds ==
  ASSUME ClientInv, [Next]_vars
  PROVE  ClientInv'
<1>1. CASE UNCHANGED vars
  BY <1>1, StutterStep
<1>2. ASSUME NEW op \in Op, Dequeue(op) PROVE ClientInv'
  BY <1>2, RequestStep, ReadableStep, ObjectStep, ScrubStep, DupStep, LockStep, DoOpStep
     DEF Dequeue
<1>3. CASE finish_read
  BY <1>3, FinishReadStep
<1>4. CASE eval_repop
  BY <1>4, RepopStep
<1>5. ASSUME NEW x \in Object, on_local_recover(x) \/ on_global_recover(x) \/ ScrubStarts(x)
      PROVE  ClientInv'
  BY <1>5, LocalRecoverStep, GlobalRecoverStep, EventStep
<1>6. CASE ScrubEnds
  BY <1>6, ScrubEndsStep
<1>7. CASE LeaseExpires
  BY <1>7, EventStep
<1>8. CASE recheck_readable
  BY <1>8, RecheckStep
<1>9. ASSUME NEW st \in {"peered", "active"}, on_activate_complete(st) PROVE ClientInv'
  BY <1>9, ActivateStep
<1>10. CASE on_flushed
  BY <1>10, FlushedStep
<1>11. CASE LeavePeered
  <2>1. NewInterval(TRUE, FALSE, Len(log))
    BY <1>11 DEF LeavePeered
  <2> QED
    BY <2>1, IntervalStep
<1>12. ASSUME NEW same \in BOOLEAN, NEW resend \in BOOLEAN, NEW keep \in 0 .. Len(log),
              NewInterval(same, resend, keep)
       PROVE  ClientInv'
  BY <1>12, IntervalStep
<1>13. ASSUME NEW c \in Client, Send(c) PROVE ClientInv'
  BY <1>13, SendStep
<1>14. CASE Receive
  BY <1>14, ReceiveStep
<1> QED
  BY <1>1, <1>2, <1>3, <1>4, <1>5, <1>6, <1>7, <1>8, <1>9, <1>10, <1>11, <1>12, <1>13,
     <1>14 DEF Next

(* What the primary knows of its lists, its log and its clients.           *)
THEOREM ClientInvariant == Spec => []ClientInv
<1>1. Init => ClientInv
  BY InitHolds
<1>2. ClientInv /\ [Next]_vars => ClientInv'
  BY StepHolds
<1> QED
  BY <1>1, <1>2, PTL DEF Spec

(* What a client is told of a write or of its error is in the committed    *)
(* log, with that result and as that operation, and stays there: through   *)
(* new intervals, rolled back entries and resent operations, for any       *)
(* number of clients and objects.                                          *)
THEOREM AnswersStayDurable == Spec => []AnswersAreDurable
<1>1. ClientInv => AnswersAreDurable
  BY DEF ClientInv, ReplyInv, RightReply, AnswersAreDurable
<1> QED
  BY <1>1, ClientInvariant, PTL

(* A read sees a committed version, and nothing older than a write that    *)
(* was answered before the read was first sent.                            *)
THEOREM ReadsStayCurrent == Spec => []ReadsCurrent
<1>1. ClientInv => ReadsCurrent
  BY DEF ClientInv, ReplyInv, RightReply, ReadsCurrent
<1> QED
  BY <1>1, ClientInvariant, PTL

(* No assertion on the lists and the object contexts fails.                *)
THEOREM ClientsNeverAssert == Spec => []NoAssertFails
<1>1. ClientInv => NoAssertFails
  BY DEF ClientInv
<1> QED
  BY <1>1, ClientInvariant, PTL
=============================================================================
