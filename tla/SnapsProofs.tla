----------------------------- MODULE SnapsProofs -----------------------------
(***************************************************************************)
(* What a snapshot reads as, what clones share with their neighbours and   *)
(* the assertions of make_writeable and the snap trimmer, for any number   *)
(* of objects, operations, snapshots and events.                           *)
(*                                                                         *)
(* The invariant describes one object at a time (GoodObject) and holds of  *)
(* the committed state and after every repop in flight, so that it does    *)
(* not matter which of them survive a new interval.  One lemma says what   *)
(* each operation of a client does to the head and to the ranges it        *)
(* reports as modified; make_writeable, trim_object and the loss of a      *)
(* cached context each map good objects to good objects.                   *)
(***************************************************************************)
EXTENDS Snaps, FiniteSetTheorems, SequenceTheorems, TLAPS

(* A set of natural numbers that has the predecessor of each of its        *)
(* members, and not 0, is empty: down from any c of them they are finitely *)
(* many, so that the predecessors would be all of them, c included.        *)
LEMMA NoDescent ==
  ASSUME NEW C \in SUBSET Nat, \A x \in C : x # 0 /\ x - 1 \in C
  PROVE  C = {}
<1> SUFFICES ASSUME NEW c \in C PROVE FALSE
  OBVIOUS
<1> DEFINE B == {x \in C : x <= c}
<1> DEFINE f == [x \in B |-> x - 1]
<1>1. IsFiniteSet(B)
  BY FS_BoundedSetOfNaturals
<1>2. \A x \in B : x - 1 \in B
  <2> SUFFICES ASSUME NEW x \in B PROVE x - 1 \in C /\ x - 1 <= c
    OBVIOUS
  <2>1. x \in Nat /\ c \in Nat /\ x <= c
    OBVIOUS
  <2> QED
    BY <2>1
<1>2a. f \in [B -> B]
  BY <1>2
<1>3. \A x, y \in B : f[x] = f[y] => x = y
  OBVIOUS
<1>4. f \in Injection(B, B)
  BY <1>2a, <1>3 DEF Injection, IsInjective
<1>5. f \in Surjection(B, B)
  BY <1>1, <1>4, FS_Injection
<1>6. \E y \in B : f[y] = c
  <2>1. c \in B
    OBVIOUS
  <2> HIDE DEF B, f
  <2> QED
    BY <1>5, <2>1 DEF Surjection
<1> QED
  BY <1>6

(* Induction over the natural numbers, for a set of them.                  *)
LEMMA SetInduction ==
  ASSUME NEW S, 0 \in S, \A n \in Nat : n \in S => n + 1 \in S
  PROVE  Nat \subseteq S
<1> DEFINE C == Nat \ S
<1>1. \A x \in C : x # 0 /\ x - 1 \in C
  <2> SUFFICES ASSUME NEW x \in C PROVE x # 0 /\ x - 1 \in C
    OBVIOUS
  <2>1. x # 0 /\ x - 1 \in Nat
    OBVIOUS
  <2>2. x - 1 \in S => x \in S
    BY <2>1
  <2> QED
    BY <2>1, <2>2
<1>2. C = {}
  BY <1>1, NoDescent
<1> QED
  BY <1>2

(* A set of natural numbers that is not empty has a least member.          *)
LEMMA LeastMember ==
  ASSUME NEW S \in SUBSET Nat, S # {}
  PROVE  \E m \in S : \A x \in S : m <= x
<1> SUFFICES ASSUME \A m \in S : \E x \in S : ~(m <= x) PROVE FALSE
  OBVIOUS
<1> DEFINE B == {n \in Nat : \A x \in S : n <= x}
<1>1. 0 \in B
  OBVIOUS
<1>2. \A n \in Nat : n \in B => n + 1 \in B
  <2> SUFFICES ASSUME NEW n \in Nat, n \in B, NEW x \in S PROVE n + 1 <= x
    OBVIOUS
  <2>1. n \notin S
    OBVIOUS
  <2>2. n <= x /\ n # x /\ x \in Nat
    BY <2>1
  <2> QED
    BY <2>2
<1> HIDE DEF B
<1>3. Nat \subseteq B
  BY <1>1, <1>2, SetInduction
<1>4. PICK x \in S : TRUE
  OBVIOUS
<1>5. x + 1 \in B
  BY <1>3
<1>6. x + 1 <= x
  BY <1>5 DEF B
<1> QED
  BY <1>6

-----------------------------------------------------------------------------
(* The heads of objects; the snapshots of pool p that are not removed.     *)
Heads == {"none", "whiteout", "there"}
LiveOf(p) == 1 .. p.seq \ p.removed

(* The shape of a SnapSet, and of an object in pool p: the store has the   *)
(* clones that the SnapSet names, and an object that does not exist has    *)
(* none.                                                                   *)
SnapSetOK(p, ss) ==
  /\ DOMAIN ss = {"seq", "clone"}
  /\ ss.seq \in 0 .. p.seq
  /\ Clones(ss) \subseteq 1 .. ss.seq
  /\ \A c \in Clones(ss) : DOMAIN ss.clone[c] = {"snaps", "size", "overlap"}

ObjectOK(p, ob) ==
  /\ DOMAIN ob = {"head", "data", "dirty", "ss", "disk"}
  /\ ob.head \in Heads
  /\ ob.data \in Seq(Nat)
  /\ SnapSetOK(p, ob.ss)
  /\ DOMAIN ob.disk = Clones(ob.ss)
  /\ \A c \in Clones(ob.ss) : ob.disk[c].data \in Seq(Nat)
  /\ ob.head = "none" => Clones(ob.ss) = {}

(* The data of what is next newer than clone c.                            *)
Newer(ss, c) == {k \in Clones(ss) : k > c}
NextData(ob, c) == IF Newer(ob.ss, c) = {} THEN ob.data
                   ELSE ob.disk[Min(Newer(ob.ss, c))].data

(* What clone_overlap of clone c names is there and the same in both.      *)
Shares(data, next, overlap) ==
  \A i \in overlap : /\ i \in DOMAIN data \cap DOMAIN next
                     /\ data[i] = next[i]

OverlapOK(ob) ==
  \A c \in Clones(ob.ss) :
    Shares(ob.disk[c].data, NextData(ob, c), ob.ss.clone[c].overlap)

(* A clone serves snapshots that are not newer than it and newer than the  *)
(* next older clone.                                                       *)
SnapsApart(ss) ==
  \A c \in Clones(ss) : \A s \in ss.clone[c].snaps :
    /\ s \in Nat /\ s <= c
    /\ \A k \in Clones(ss) : k < c => k < s

(* What the clones show of snapshot s, and that it is what was frozen: a   *)
(* snapshot has been frozen when the SnapSet has reached it.               *)
Served(ss, s) == /\ \E c \in Clones(ss) : c >= s
                 /\ s \in ss.clone[WhichClone(ss, s)].snaps
Shown(ob, s) == IF Served(ob.ss, s) THEN ob.disk[WhichClone(ob.ss, s)].data
                ELSE DNE

FrozenOK(p, ob, fr) ==
  /\ DOMAIN fr \subseteq 1 .. p.seq
  /\ \A s \in LiveOf(p) :
       /\ s \in DOMAIN fr <=> s <= ob.ss.seq
       /\ s <= ob.ss.seq => fr[s] = Shown(ob, s)

GoodObject(p, ob, fr) ==
  /\ ObjectOK(p, ob) /\ OverlapOK(ob) /\ SnapsApart(ob.ss)
  /\ FrozenOK(p, ob, fr)

GoodState(p, st) ==
  /\ DOMAIN st.obs = Object /\ DOMAIN st.frozen = Object
  /\ \A o \in Object : GoodObject(p, st.obs[o], st.frozen[o])

(* The repops q on the committed state d.                                  *)
Stage(d, q, i) == IF i = 0 THEN d ELSE q[i].after
ClonesAt(st) == {oc \in Object \X Nat : oc[2] \in Clones(st.obs[oc[1]].ss)}

(* A clone stays until a repop that trims it, and no two of them trim the  *)
(* same.                                                                   *)
RepopOK(p, r) ==
  /\ DOMAIN r = {"after", "o", "d", "locks", "trims", "passed"}
  /\ GoodState(p, r.after)

Kept(d, q) ==
  \A i, j \in 0 .. Len(q) : i <= j =>
    \A oc \in ClonesAt(Stage(d, q, i)) :
      \/ oc \in ClonesAt(Stage(d, q, j))
      \/ \E k \in i + 1 .. j : oc \in q[k].trims

TrimsApart(q) ==
  \A i, j \in 1 .. Len(q) : i # j => q[i].trims \cap q[j].trims = {}

FlightOK(p, d, q) ==
  /\ \E S : q \in Seq(S)
  /\ GoodState(p, d)
  /\ \A i \in 1 .. Len(q) : RepopOK(p, q[i])
  /\ Kept(d, q) /\ TrimsApart(q)

(* The clients, the pool and the trimmer: what is trimmed or purged is     *)
(* removed, and trims are in flight only while the machine waits for them. *)
ClientsOK == begin \in Begin /\ left \in [Events -> Nat]

PoolOK ==
  /\ pool \in [seq : Nat, removed : SUBSET Nat]
  /\ pool.removed \subseteq 1 .. pool.seq

MachineOK(p, t) ==
  /\ DOMAIN t = {"st", "snap", "trimq", "repeat", "purged"}
  /\ t.snap \in p.removed \cup {0}
  /\ t.trimq \subseteq p.removed
  /\ t.purged \subseteq p.removed \cup {0}

TrimmerOK ==
  /\ MachineOK(pool, T)
  /\ in_flight # {} => trimmer.st = "WaitRepops"

(* A clone that is read is there.                                          *)
ReadersOK ==
  \A oc \in readers : oc[2] # NoHead => oc \in ClonesAt(Now)

IInv ==
  /\ ClientsOK /\ PoolOK /\ FlightOK(pool, durable, flight)
  /\ TrimmerOK /\ ReadersOK /\ asserted = None
-----------------------------------------------------------------------------
(* Min and Max of the community modules on sets of natural numbers.        *)
LEMMA MinMember ==
  ASSUME NEW S \in SUBSET Nat, S # {}
  PROVE  Min(S) \in S /\ \A x \in S : Min(S) <= x
<1>1. \E m \in S : \A x \in S : m <= x
  BY LeastMember
<1> QED
  BY <1>1, Zenon DEF Min

(* A member that is not above any other is the minimum.                    *)
LEMMA MinIs ==
  ASSUME NEW S \in SUBSET Nat, NEW m \in S, \A x \in S : m <= x
  PROVE  Min(S) = m
<1>1. Min(S) \in S /\ \A x \in S : Min(S) <= x
  BY MinMember
<1>2. Min(S) <= m /\ m <= Min(S) /\ m \in Nat /\ Min(S) \in Nat
  BY <1>1
<1> QED
  BY <1>2

(* The greatest member of a set that is bounded by n.                      *)
LEMMA MaxMember ==
  ASSUME NEW n \in Nat, NEW S \in SUBSET (0 .. n), S # {}
  PROVE  Max(S) \in S /\ \A x \in S : Max(S) >= x
<1> DEFINE R == {n - x : x \in S}
<1>0. \A x \in S : n - x \in Nat
  OBVIOUS
<1>1. R \in SUBSET Nat /\ R # {}
  BY <1>0
<1>2. PICK m \in R : \A y \in R : m <= y
  BY <1>1, LeastMember
<1>3. PICK z \in S : m = n - z
  OBVIOUS
<1>4. \A x \in S : z >= x
  <2> SUFFICES ASSUME NEW x \in S PROVE z >= x
    OBVIOUS
  <2>1. n - x \in R
    OBVIOUS
  <2>2. n - z <= n - x
    BY <1>2, <1>3, <2>1
  <2> QED
    BY <2>2
<1>5. \E x \in S : \A y \in S : x >= y
  BY <1>4
<1> QED
  BY <1>5, Zenon DEF Max

(* The greater of two numbers.                                             *)
LEMMA MaxPair ==
  ASSUME NEW a \in Nat, NEW b \in Nat
  PROVE  /\ Max({a, b}) \in {a, b} /\ Max({a, b}) \in Nat
         /\ Max({a, b}) >= a /\ Max({a, b}) >= b
<1>1. a + b \in Nat /\ {a, b} \in SUBSET (0 .. a + b) /\ {a, b} # {}
  OBVIOUS
<1>2. Max({a, b}) \in {a, b} /\ \A x \in {a, b} : Max({a, b}) >= x
  BY <1>1, MaxMember
<1> QED
  BY <1>2

(* A sequence of numbers given by its members.                             *)
LEMMA NatSeq ==
  ASSUME NEW n \in Nat, NEW f, DOMAIN f = 1 .. n, f = [i \in 1 .. n |-> f[i]],
         \A i \in 1 .. n : f[i] \in Nat
  PROVE  f \in Seq(Nat) /\ Len(f) = n
  OBVIOUS
-----------------------------------------------------------------------------
(* The context x of an operation on ob: it still has the SnapSet of ob,    *)
(* the data of the head may have changed only in the ranges that are       *)
(* modified, and a head that is gone had no clone and gets none.           *)
ContextOK(ob, snapc, x) ==
  /\ DOMAIN x = {"head", "data", "ss", "ranges", "d", "modify", "undirty",
                 "r"}
  /\ x.head \in Heads /\ x.data \in Seq(Nat) /\ x.ss = ob.ss
  /\ \A i \in DOMAIN ob.data \ x.ranges :
       i \in DOMAIN x.data /\ x.data[i] = ob.data[i]
  /\ x.head = "none" =>
       Clones(ob.ss) = {} /\ (ob.head # "there" \/ \A s \in snapc.snaps : ~(s > ob.ss.seq))

(* The data is replaced, and all that changes is reported.                 *)
LEMMA UpdateKeeps ==
  ASSUME NEW ob, NEW snapc, NEW x, ContextOK(ob, snapc, x),
         NEW data \in Seq(Nat), NEW ranges,
         \A i \in DOMAIN ob.data \ (x.ranges \cup ranges) :
           i \in DOMAIN data /\ data[i] = ob.data[i]
  PROVE  /\ ContextOK(ob, snapc, Update(x, data, ranges))
         /\ Update(x, data, ranges).head = x.head
         /\ Update(x, data, ranges).r = x.r
  BY DEF ContextOK, Update

(* The head is created, or a whiteout becomes an object again.             *)
LEMMA CreateKeeps ==
  ASSUME NEW ob, NEW snapc, NEW x, ContextOK(ob, snapc, x)
  PROVE  LET y == maybe_create_new_object(x)
         IN  /\ ContextOK(ob, snapc, y)
             /\ y.data = x.data /\ y.ranges = x.ranges /\ y.head = "there"
  BY DEF ContextOK, maybe_create_new_object, Heads

(* The data with n bytes: what was there, and zeros.                       *)
LEMMA ResizeFacts ==
  ASSUME NEW data \in Seq(Nat), NEW n \in Nat
  PROVE  /\ Resize(data, n) \in Seq(Nat)
         /\ DOMAIN Resize(data, n) = 1 .. n
         /\ \A i \in 1 .. n : Resize(data, n)[i] \in Nat
         /\ \A i \in 1 .. n : i \in DOMAIN data => Resize(data, n)[i] = data[i]
<1>1. \A i \in 1 .. n : i \in DOMAIN data => data[i] \in Nat
  OBVIOUS
<1> QED
  BY <1>1 DEF Resize

(* A write changes the bytes it writes, and may extend the object.         *)
LEMMA WriteKeeps ==
  ASSUME NEW ob, NEW snapc, NEW x, ContextOK(ob, snapc, x),
         NEW off \in Nat, NEW len \in Nat, NEW v \in Nat
  PROVE  ContextOK(ob, snapc, write(x, off, len, v))
<1> DEFINE n == IF len > 0 \/ off > Len(x.data) THEN Max({off + len, Len(x.data)})
                ELSE Len(x.data)
           bytes == off + 1 .. off + len
           old == Resize(x.data, n)
           new == [i \in 1 .. n |-> IF i \in bytes THEN v ELSE old[i]]
           y == maybe_create_new_object(x)
<1>1. x.data \in Seq(Nat) /\ Len(x.data) \in Nat
  BY DEF ContextOK
<1>2. Max({off + len, Len(x.data)}) \in Nat /\ Max({off + len, Len(x.data)}) >= Len(x.data)
  BY <1>1, MaxPair
<1>3. n \in Nat /\ n >= Len(x.data)
  BY <1>1, <1>2
<1> HIDE DEF n
<1>4. /\ old \in Seq(Nat) /\ DOMAIN old = 1 .. n
      /\ \A i \in 1 .. n : old[i] \in Nat
      /\ \A i \in 1 .. n : i \in DOMAIN x.data => old[i] = x.data[i]
  BY <1>1, <1>3, ResizeFacts
<1> HIDE DEF old
<1>5. new \in Seq(Nat)
  BY <1>3, <1>4
<1>6. ContextOK(ob, snapc, y) /\ y.data = x.data /\ y.ranges = x.ranges
  BY CreateKeeps
<1>7. \A i \in DOMAIN ob.data \ (y.ranges \cup bytes) :
        i \in DOMAIN new /\ new[i] = ob.data[i]
  <2> SUFFICES ASSUME NEW i \in DOMAIN ob.data, i \notin y.ranges, i \notin bytes
               PROVE  i \in DOMAIN new /\ new[i] = ob.data[i]
    OBVIOUS
  <2>1. i \in DOMAIN x.data /\ x.data[i] = ob.data[i]
    BY <1>6 DEF ContextOK
  <2>2. i \in 1 .. n
    BY <1>1, <1>3, <2>1
  <2> QED
    BY <1>4, <2>1, <2>2
<1> HIDE DEF new, bytes, y
<1>8. ContextOK(ob, snapc, Update(y, new, bytes))
  BY <1>5, <1>6, <1>7, UpdateKeeps
<1> QED
  BY <1>8, Zenon DEF write, n, bytes, old, new, y

(* A full write reports all there was.                                     *)
LEMMA WriteFullKeeps ==
  ASSUME NEW ob, NEW snapc, NEW x, ContextOK(ob, snapc, x),
         NEW len \in Nat, NEW v \in Nat
  PROVE  ContextOK(ob, snapc, write_full(x, len, v))
<1> DEFINE y == maybe_create_new_object(x)
           new == [i \in 1 .. len |-> v]
<1>1. ContextOK(ob, snapc, y) /\ y.data = x.data /\ y.ranges = x.ranges
  BY CreateKeeps
<1>2. new \in Seq(Nat)
  OBVIOUS
<1>3. \A i \in DOMAIN ob.data \ (y.ranges \cup DOMAIN x.data) :
        i \in DOMAIN new /\ new[i] = ob.data[i]
  BY <1>1 DEF ContextOK
<1> HIDE DEF new, y
<1>4. ContextOK(ob, snapc, Update(y, new, DOMAIN x.data))
  BY <1>1, <1>2, <1>3, UpdateKeeps
<1> QED
  BY <1>4, Zenon DEF write_full, new, y

(* What is cut off is reported.                                            *)
LEMMA TruncateKeeps ==
  ASSUME NEW ob, NEW snapc, NEW x, ContextOK(ob, snapc, x), NEW size \in Nat
  PROVE  ContextOK(ob, snapc, truncate(x, size))
<1> DEFINE new == Resize(x.data, size)
           cut == size + 1 .. Len(x.data)
<1>1. x.data \in Seq(Nat) /\ Len(x.data) \in Nat
  BY DEF ContextOK
<1>2. /\ new \in Seq(Nat) /\ DOMAIN new = 1 .. size
      /\ \A i \in 1 .. size : i \in DOMAIN x.data => new[i] = x.data[i]
  BY <1>1, ResizeFacts
<1> HIDE DEF new
<1>3. \A i \in DOMAIN ob.data \ (x.ranges \cup cut) :
        i \in DOMAIN new /\ new[i] = ob.data[i]
  <2> SUFFICES ASSUME NEW i \in DOMAIN ob.data, i \notin x.ranges, i \notin cut
               PROVE  i \in DOMAIN new /\ new[i] = ob.data[i]
    OBVIOUS
  <2>1. i \in DOMAIN x.data /\ x.data[i] = ob.data[i]
    BY DEF ContextOK
  <2>2. i \in 1 .. size
    BY <1>1, <2>1
  <2> QED
    BY <1>2, <2>1, <2>2
<1> HIDE DEF cut
<1>4. ContextOK(ob, snapc, Update(x, new, cut))
  BY <1>2, <1>3, UpdateKeeps
<1> QED
  BY <1>4, Zenon DEF truncate, new, cut

(* Numbers stay a sequence of numbers when some of them become zero.       *)
LEMMA ZeroedSeq ==
  ASSUME NEW data \in Seq(Nat), NEW bytes
  PROVE  [i \in DOMAIN data |-> IF i \in bytes THEN 0 ELSE data[i]] \in Seq(Nat)
<1> DEFINE new == [i \in DOMAIN data |-> IF i \in bytes THEN 0 ELSE data[i]]
<1>1. data \in UNION {[1 .. n -> Nat] : n \in Nat}
  BY SeqDef, Zenon
<1>2. PICK size \in Nat : data \in [1 .. size -> Nat]
  BY <1>1
<1>3. DOMAIN data = 1 .. size /\ \A i \in 1 .. size : data[i] \in Nat
  BY <1>2
<1>4. new \in [1 .. size -> Nat]
  BY <1>3
<1> HIDE DEF new
<1>5. new \in UNION {[1 .. n -> Nat] : n \in Nat}
  BY <1>4
<1> QED
  BY <1>5, SeqDef, Zenon DEF new

(* Zeros that are written are reported; past the end zero truncates.       *)
LEMMA ZeroKeeps ==
  ASSUME NEW ob, NEW snapc, NEW x, ContextOK(ob, snapc, x),
         NEW off \in Nat, NEW len \in Nat
  PROVE  ContextOK(ob, snapc, zero(x, off, len))
<1> DEFINE new == [i \in DOMAIN x.data |->
                     IF i \in off + 1 .. off + len THEN 0 ELSE x.data[i]]
           bytes == off + 1 .. off + len
<1>1. x.data \in Seq(Nat)
  BY DEF ContextOK
<1>2. new \in Seq(Nat)
  BY <1>1, ZeroedSeq, Zenon
<1>3. \A i \in DOMAIN ob.data \ (x.ranges \cup bytes) :
        i \in DOMAIN new /\ new[i] = ob.data[i]
  BY DEF ContextOK
<1> HIDE DEF new, bytes
<1>4. ContextOK(ob, snapc, Update(x, new, bytes))
  BY <1>2, <1>3, UpdateKeeps
<1>5. ContextOK(ob, snapc, truncate(x, off))
  BY TruncateKeeps
<1> QED
  BY <1>4, <1>5, Zenon DEF zero, new, bytes

(* Creating the object leaves its data.                                    *)
LEMMA MakeKeeps ==
  ASSUME NEW ob, NEW snapc, NEW x, ContextOK(ob, snapc, x)
  PROVE  ContextOK(ob, snapc, create(x))
<1> DEFINE y == maybe_create_new_object(x)
<1>1. ContextOK(ob, snapc, y)
  BY CreateKeeps
<1> HIDE DEF y
<1>2. ContextOK(ob, snapc, [y EXCEPT !.modify = TRUE])
  BY <1>1 DEF ContextOK
<1> QED
  BY <1>2, Zenon DEF create, y

(* A deletion leaves a whiteout as long as there are clones, or there will *)
(* be one.                                                                 *)
LEMMA DeleteKeeps ==
  ASSUME NEW ob, NEW snapc, NEW x, ContextOK(ob, snapc, x)
  PROVE  /\ ContextOK(ob, snapc, delete_oid(x, snapc))
         /\ ContextOK(ob, snapc, [delete_oid(x, snapc) EXCEPT !.r = "ok"])
<1> DEFINE whiteout == Clones(x.ss) # {} \/ \E s \in snapc.snaps : s > x.ss.seq
           y == Update(x, <<>>, DOMAIN x.data)
           head == IF whiteout THEN "whiteout" ELSE "none"
<1>1. <<>> \in Seq(Nat)
  OBVIOUS
<1>2. \A i \in DOMAIN ob.data \ (x.ranges \cup DOMAIN x.data) :
        i \in DOMAIN <<>> /\ <<>>[i] = ob.data[i]
  BY DEF ContextOK
<1>3. ContextOK(ob, snapc, y)
  BY <1>1, <1>2, UpdateKeeps
<1> HIDE DEF y
<1>4. x.ss = ob.ss
  BY DEF ContextOK
<1> DEFINE z == [y EXCEPT !.head = head,
                          !.d.whiteouts = @ + One(whiteout)
                                            - One(x.head = "whiteout"),
                          !.d.objects = @ - One(~whiteout)]
<1>5. ContextOK(ob, snapc, z) /\ ContextOK(ob, snapc, [z EXCEPT !.r = "ok"])
  BY <1>3, <1>4 DEF ContextOK, Heads
<1>6. ContextOK(ob, snapc, [x EXCEPT !.r = "ENOENT"])
  BY DEF ContextOK
<1>7. ContextOK(ob, snapc, [[x EXCEPT !.r = "ENOENT"] EXCEPT !.r = "ok"])
  BY DEF ContextOK
<1> QED
  <2> DEFINE gone == x.head = "none" \/ (x.head = "whiteout" /\ whiteout)
  <2>1. delete_oid(x, snapc) = IF gone THEN [x EXCEPT !.r = "ENOENT"] ELSE z
    BY Zenon DEF delete_oid, y
  <2> HIDE DEF z, gone
  <2>2. CASE gone
    BY <1>6, <1>7, <2>1, <2>2, Zenon
  <2>3. CASE ~gone
    BY <1>5, <2>1, <2>3, Zenon
  <2> QED
    BY <2>2, <2>3

(* What all clones from c on share with their next newer neighbours, the   *)
(* head has as clone c has it.                                             *)
LEMMA SharedWithHead ==
  ASSUME NEW p, NEW ob, ObjectOK(p, ob), OverlapOK(ob),
         NEW c \in Clones(ob.ss), NEW i,
         \A k \in Clones(ob.ss) : k >= c => i \in ob.ss.clone[k].overlap
  PROVE  i \in DOMAIN ob.data /\ ob.disk[c].data[i] = ob.data[i]
<1> DEFINE Same(k) == i \in DOMAIN ob.data /\ ob.disk[k].data[i] = ob.data[i]
           B == {k \in Clones(ob.ss) : k >= c /\ ~Same(k)}
<1>1. ob.ss.seq \in Nat /\ Clones(ob.ss) \subseteq 1 .. ob.ss.seq
  BY DEF ObjectOK, SnapSetOK
<1>2. ASSUME B # {} PROVE FALSE
  <2> DEFINE m == Max(B)
  <2>1. B \in SUBSET (0 .. ob.ss.seq)
    BY <1>1
  <2> HIDE DEF B
  <2>2. m \in B /\ \A x \in B : m >= x
    BY <1>1, <1>2, <2>1, MaxMember
  <2> HIDE DEF m
  <2>3. m \in Clones(ob.ss) /\ m >= c /\ ~Same(m)
    BY <2>2 DEF B
  <2>4. Shares(ob.disk[m].data, NextData(ob, m), ob.ss.clone[m].overlap)
    BY <2>3 DEF OverlapOK
  <2>5. i \in DOMAIN NextData(ob, m) /\ ob.disk[m].data[i] = NextData(ob, m)[i]
    BY <2>3, <2>4 DEF Shares
  <2>6. CASE Newer(ob.ss, m) = {}
    BY <2>3, <2>5, <2>6 DEF NextData
  <2>7. CASE Newer(ob.ss, m) # {}
    <3> DEFINE n == Min(Newer(ob.ss, m))
    <3>1. Newer(ob.ss, m) \in SUBSET Nat
      BY <1>1 DEF Newer
    <3>2. n \in Newer(ob.ss, m)
      BY <2>7, <3>1, MinMember
    <3>3. NextData(ob, m) = ob.disk[n].data
      BY <2>7 DEF NextData
    <3> HIDE DEF n
    <3>4. n \in Clones(ob.ss) /\ n > m
      BY <3>2 DEF Newer
    <3>5. n \notin B
      BY <1>1, <2>2, <2>3, <3>4
    <3>6. n >= c
      BY <1>1, <2>3, <3>4
    <3>7. Same(n)
      BY <3>4, <3>5, <3>6 DEF B
    <3> QED
      BY <2>3, <2>5, <3>3, <3>7
  <2> QED
    BY <2>6, <2>7
<1>3. c >= c
  BY <1>1
<1> HIDE DEF Same
<1>4. Same(c)
  BY <1>2, <1>3
<1> QED
  BY <1>4 DEF Same

(* The clone that is the first not older than s.                           *)
LEMMA WhichCloneFacts ==
  ASSUME NEW p, NEW ss, SnapSetOK(p, ss), NEW s,
         \E c \in Clones(ss) : c >= s
  PROVE  /\ WhichClone(ss, s) \in Clones(ss) /\ WhichClone(ss, s) >= s
         /\ \A c \in Clones(ss) : c >= s => WhichClone(ss, s) <= c
<1> DEFINE S == {c \in Clones(ss) : c >= s}
<1>1. S \in SUBSET Nat /\ S # {}
  BY DEF SnapSetOK
<1> HIDE DEF S
<1>2. Min(S) \in S /\ \A c \in S : Min(S) <= c
  BY <1>1, MinMember
<1>3. WhichClone(ss, s) = Min(S)
  BY DEF WhichClone, S
<1> QED
  BY <1>2, <1>3 DEF S

(* The first clone that is not older than s serves s.                      *)
LEMMA WhichCloneIs ==
  ASSUME NEW p, NEW ss, SnapSetOK(p, ss), NEW s, NEW c \in Clones(ss),
         c >= s, \A k \in Clones(ss) : k >= s => c <= k
  PROVE  WhichClone(ss, s) = c
<1> DEFINE S == {k \in Clones(ss) : k >= s}
<1>1. S \in SUBSET Nat /\ c \in S /\ \A k \in S : c <= k
  BY DEF SnapSetOK
<1> HIDE DEF S
<1>2. Min(S) = c
  BY <1>1, MinIs
<1> QED
  BY <1>2 DEF WhichClone, S

(* A rollback takes the data of the clone, and reports what the clones     *)
(* since have not shared.                                                  *)
LEMMA RollbackKeeps ==
  ASSUME NEW p, NEW ob, ObjectOK(p, ob), OverlapOK(ob), NEW snapc,
         NEW x, ContextOK(ob, snapc, x), NEW s \in Nat
  PROVE  ContextOK(ob, snapc, rollback_to(x, ob, snapc, s))
<1> DEFINE found == find_object_context(ob, s)
           y == maybe_create_new_object(x)
           c == WhichClone(ob.ss, s)
           ranges == DOMAIN x.data \ SharedSince(x.ss, s)
<1>1. ContextOK(ob, snapc, [delete_oid(x, snapc) EXCEPT !.r = "ok"])
  BY DeleteKeeps
<1>2. ContextOK(ob, snapc, [x EXCEPT !.modify = TRUE])
  BY DEF ContextOK
<1>3. \/ found.what \in {"none", "whiteout", "there"}
      \/ /\ \E k \in Clones(ob.ss) : k >= s
         /\ found = Found("clone", ob.disk[c].data)
  <2>1. ob.head \in Heads
    BY DEF ObjectOK
  <2>2. (~\A k \in Clones(ob.ss) : k < s) => \E k \in Clones(ob.ss) : k >= s
    BY DEF ObjectOK, SnapSetOK
  <2> QED
    BY <2>1, <2>2 DEF find_object_context, Found, NotFound, Heads
<1>4. ASSUME \E k \in Clones(ob.ss) : k >= s,
             found = Found("clone", ob.disk[c].data)
      PROVE  ContextOK(ob, snapc, Update(y, found.data, ranges))
  <2>1. found.data = ob.disk[c].data
    BY <1>4 DEF Found
  <2>2. SnapSetOK(p, ob.ss)
    BY DEF ObjectOK
  <2>3. c \in Clones(ob.ss) /\ c >= s /\ \A k \in Clones(ob.ss) : k >= s => c <= k
    BY <1>4, <2>2, WhichCloneFacts
  <2>4. ContextOK(ob, snapc, y) /\ y.data = x.data /\ y.ranges = x.ranges
    BY CreateKeeps
  <2>5. ob.disk[c].data \in Seq(Nat)
    BY <2>3 DEF ObjectOK
  <2>6. x.ss = ob.ss
    BY DEF ContextOK
  <2> HIDE DEF y, found, c
  <2>7. ASSUME NEW i \in DOMAIN ob.data, i \notin y.ranges, i \notin ranges
        PROVE  i \in DOMAIN ob.disk[c].data /\ ob.disk[c].data[i] = ob.data[i]
    <3>1. i \in DOMAIN x.data
      BY <2>4, <2>7 DEF ContextOK
    <3>2. i \in SharedSince(ob.ss, s)
      BY <2>6, <2>7, <3>1
    <3>3. \A k \in Clones(ob.ss) : k >= s => i \in ob.ss.clone[k].overlap
      BY <3>2 DEF SharedSince
    <3>4. \A k \in Clones(ob.ss) : k >= c => k >= s
      BY <2>2, <2>3 DEF SnapSetOK
    <3>5. ob.disk[c].data[i] = ob.data[i]
      BY <2>3, <3>3, <3>4, SharedWithHead
    <3>6. Shares(ob.disk[c].data, NextData(ob, c), ob.ss.clone[c].overlap)
      BY <2>3 DEF OverlapOK
    <3>7. i \in DOMAIN ob.disk[c].data
      BY <2>3, <3>3, <3>6 DEF Shares
    <3> QED
      BY <3>5, <3>7
  <2> HIDE DEF ranges
  <2> QED
    BY <2>1, <2>4, <2>5, <2>7, UpdateKeeps
<1>5. CASE found.what \in {"none", "whiteout"}
  BY <1>1, <1>5, Zenon DEF rollback_to
<1>6. CASE found.what = "there"
  BY <1>2, <1>6 DEF rollback_to
<1>7. CASE found.what \notin {"none", "whiteout", "there"}
  <2>1. ContextOK(ob, snapc, Update(y, found.data, ranges))
    BY <1>3, <1>4, <1>7
  <2> QED
    BY <1>7, <2>1, Zenon DEF rollback_to
<1> QED
  BY <1>5, <1>6, <1>7

(* Every operation of a client keeps the context as it should be.          *)
LEMMA OperationKeeps ==
  ASSUME NEW p, NEW ob, ObjectOK(p, ob), OverlapOK(ob), NEW snapc,
         NEW x, ContextOK(ob, snapc, x), NEW v \in Nat,
         NEW op \in [k : Kinds, a : Nat, b : Nat]
  PROVE  ContextOK(ob, snapc, do_osd_op(x, ob, snapc, op, v))
<1>1. op.a \in Nat /\ op.b \in Nat
  OBVIOUS
<1>2. Len(x.data) \in Nat
  BY DEF ContextOK
<1>3. /\ ContextOK(ob, snapc, write(x, op.a, op.b, v))
      /\ ContextOK(ob, snapc, write(x, Len(x.data), op.a, v))
  BY <1>1, <1>2, WriteKeeps
<1>4. ContextOK(ob, snapc, write_full(x, op.a, v))
  BY <1>1, WriteFullKeeps
<1>5. ContextOK(ob, snapc, truncate(x, op.a))
  BY <1>1, TruncateKeeps
<1>6. ContextOK(ob, snapc, zero(x, op.a, op.b))
  BY <1>1, ZeroKeeps
<1>7. ContextOK(ob, snapc, create(x))
  BY MakeKeeps
<1>8. ContextOK(ob, snapc, delete_oid(x, snapc))
  BY DeleteKeeps
<1>9. ContextOK(ob, snapc, rollback_to(x, ob, snapc, op.a))
  BY <1>1, RollbackKeeps
<1>10. ContextOK(ob, snapc,
                 [x EXCEPT !.undirty = ob.dirty, !.modify = @ \/ ob.dirty])
  BY DEF ContextOK
<1> QED
  BY <1>3, <1>4, <1>5, <1>6, <1>7, <1>8, <1>9, <1>10, Zenon DEF do_osd_op

(* One operation of a vector after another.                                *)
OpStep(x, ob, snapc, op, v) ==
  IF x.r # "ok" THEN x ELSE do_osd_op(x, ob, snapc, op, v)

IsRun(e, m, ob, snapc, ops, v) ==
  e = [n \in 0 .. m |-> IF n = 0 THEN Context(ob)
                        ELSE OpStep(e[n - 1], ob, snapc, ops[n], v)]

(* There is such a function for every length.                              *)
LEMMA RunsExist ==
  ASSUME NEW ob, NEW snapc, NEW ops, NEW v
  PROVE  \A m \in Nat : \E e : IsRun(e, m, ob, snapc, ops, v)
<1> DEFINE St(x, n) == OpStep(x, ob, snapc, ops[n], v)
           C == Context(ob)
           G(e, m) == e = [n \in 0 .. m |-> IF n = 0 THEN C
                                            ELSE St(e[n - 1], n)]
           B == {m \in Nat : \E e : G(e, m)}
<1>0. \A e, m : G(e, m) <=> IsRun(e, m, ob, snapc, ops, v)
  BY Zenon DEF IsRun
<1> HIDE DEF St, C
<1>1. 0 \in B
  <2> DEFINE e0 == [n \in 0 .. 0 |-> C]
  <2>1. G(e0, 0)
    <3>1. \A n \in 0 .. 0 : n = 0
      OBVIOUS
    <3> QED
      BY <3>1
  <2> QED
    BY <2>1
<1>2. \A m \in Nat : m \in B => m + 1 \in B
  <2> SUFFICES ASSUME NEW m \in Nat, NEW d, G(d, m) PROVE \E e : G(e, m + 1)
    OBVIOUS
  <2> DEFINE e1 == [n \in 0 .. m + 1 |-> IF n = m + 1
                                         THEN (IF m + 1 = 0 THEN C ELSE St(d[m], m + 1))
                                         ELSE d[n]]
  <2>1. \A n \in 0 .. m + 1 :
           e1[n] = IF n = 0 THEN C ELSE St(e1[n - 1], n)
    <3> SUFFICES ASSUME NEW n \in 0 .. m + 1
                 PROVE  e1[n] = IF n = 0 THEN C ELSE St(e1[n - 1], n)
      OBVIOUS
    <3>1. CASE n = m + 1
      <4>1. CASE n = 0
        BY <3>1, <4>1
      <4>2. CASE n # 0
        <5>1. n - 1 = m /\ m \in 0 .. m + 1 /\ m # m + 1
          BY <3>1, <4>2
        <5>2. e1[n - 1] = d[m]
          BY <5>1
        <5>3. e1[n] = St(d[m], m + 1)
          BY <3>1, <4>2
        <5> HIDE DEF e1
        <5> QED
          BY <3>1, <4>2, <5>2, <5>3
      <4> QED
        BY <4>1, <4>2
    <3>2. CASE n # m + 1
      <4>1. n \in 0 .. m
        BY <3>2
      <4>2. e1[n] = d[n]
        BY <3>2
      <4>3. d[n] = IF n = 0 THEN C ELSE St(d[n - 1], n)
        BY <4>1
      <4>4. CASE n = 0
        BY <4>2, <4>3, <4>4
      <4>5. CASE n # 0
        <5>1. n - 1 \in 0 .. m + 1 /\ n - 1 # m + 1
          BY <4>1, <4>5
        <5>2. e1[n - 1] = d[n - 1]
          BY <5>1
        <5> QED
          BY <4>2, <4>3, <4>5, <5>2
      <4> QED
        BY <4>4, <4>5
    <3> QED
      BY <3>1, <3>2
  <2>2. G(e1, m + 1)
    <3>1. e1 = [n \in 0 .. m + 1 |-> e1[n]]
      OBVIOUS
    <3> HIDE DEF e1
    <3> QED
      BY <2>1, <3>1
  <2> QED
    BY <2>2
<1> HIDE DEF B
<1>3. Nat \subseteq B
  BY <1>1, <1>2, SetInduction
<1> QED
  <2> SUFFICES ASSUME NEW m \in Nat PROVE \E e : IsRun(e, m, ob, snapc, ops, v)
    OBVIOUS
  <2>1. \E e : G(e, m)
    BY <1>3 DEF B
  <2> HIDE DEF G
  <2> QED
    BY <1>0, <2>1

(* do_osd_ops is the last context that the operations go through.          *)
LEMMA OpsUnfold ==
  ASSUME NEW ob, NEW snapc, NEW ops, NEW v, Len(ops) \in Nat
  PROVE  \E e : /\ e[0] = Context(ob)
                /\ \A n \in 1 .. Len(ops) :
                     e[n] = OpStep(e[n - 1], ob, snapc, ops[n], v)
                /\ do_osd_ops(ob, snapc, ops, v) = e[Len(ops)]
<1> DEFINE G(e) == e = [n \in 0 .. Len(ops) |->
                          IF n = 0 THEN Context(ob)
                          ELSE IF e[n - 1].r # "ok" THEN e[n - 1]
                          ELSE do_osd_op(e[n - 1], ob, snapc, ops[n], v)]
<1>1. \E e : G(e)
  <2>1. PICK e : IsRun(e, Len(ops), ob, snapc, ops, v)
    BY RunsExist
  <2>2. G(e)
    BY <2>1, Zenon DEF IsRun, OpStep
  <2> HIDE DEF G
  <2> QED
    BY <2>2
<1> DEFINE e == CHOOSE e : G(e)
<1>2. G(e)
  <2> HIDE DEF G
  <2> QED
    BY <1>1
<1>3. do_osd_ops(ob, snapc, ops, v) = e[Len(ops)]
  BY Zenon DEF do_osd_ops
<1> HIDE DEF e
<1>4. IsRun(e, Len(ops), ob, snapc, ops, v)
  BY <1>2, Zenon DEF IsRun, OpStep
<1>5. e[0] = Context(ob)
  BY <1>4 DEF IsRun
<1>6. \A n \in 1 .. Len(ops) : e[n] = OpStep(e[n - 1], ob, snapc, ops[n], v)
  BY <1>4 DEF IsRun
<1> QED
  BY <1>3, <1>5, <1>6

(* So do the operations of a vector.                                       *)
LEMMA OperationsKeep ==
  ASSUME NEW p, NEW ob, ObjectOK(p, ob), OverlapOK(ob), NEW snapc,
         NEW v \in Nat, NEW ops \in Seq([k : Kinds, a : Nat, b : Nat])
  PROVE  ContextOK(ob, snapc, do_osd_ops(ob, snapc, ops, v))
<1> DEFINE Op == [k : Kinds, a : Nat, b : Nat]
<1>0. ops \in Seq(Op)
  OBVIOUS
<1> HIDE DEF Op
<1>1. Len(ops) \in Nat /\ \A n \in 1 .. Len(ops) : ops[n] \in Op
  BY <1>0
<1>2. PICK e : /\ e[0] = Context(ob)
               /\ \A n \in 1 .. Len(ops) :
                    e[n] = OpStep(e[n - 1], ob, snapc, ops[n], v)
               /\ do_osd_ops(ob, snapc, ops, v) = e[Len(ops)]
  BY <1>1, OpsUnfold
<1> DEFINE B == {n \in Nat : n <= Len(ops) => ContextOK(ob, snapc, e[n])}
<1>3. 0 \in B
  <2>1. ContextOK(ob, snapc, Context(ob))
    BY DEF ContextOK, Context, ObjectOK
  <2> QED
    BY <1>2, <2>1
<1>4. \A n \in Nat : n \in B => n + 1 \in B
  <2> SUFFICES ASSUME NEW n \in Nat, n \in B, n + 1 <= Len(ops)
               PROVE  ContextOK(ob, snapc, e[n + 1])
    OBVIOUS
  <2>1. n + 1 \in 1 .. Len(ops) /\ (n + 1) - 1 = n /\ n <= Len(ops)
    BY <1>1
  <2>2. ContextOK(ob, snapc, e[n])
    BY <2>1
  <2>3. e[n + 1] = OpStep(e[n], ob, snapc, ops[n + 1], v)
    BY <1>2, <2>1
  <2>4. ContextOK(ob, snapc, do_osd_op(e[n], ob, snapc, ops[n + 1], v))
    BY <1>1, <2>1, <2>2, OperationKeeps DEF Op
  <2> QED
    BY <2>2, <2>3, <2>4, Zenon DEF OpStep
<1> HIDE DEF B
<1>5. Nat \subseteq B
  BY <1>3, <1>4, SetInduction
<1>6. Len(ops) \in B
  BY <1>1, <1>5
<1> QED
  BY <1>1, <1>2, <1>6 DEF B
-----------------------------------------------------------------------------
(* A snapshot that is taken or removed changes no object.                  *)
LEMMA PoolGrows ==
  ASSUME NEW p, NEW q, p.seq \in Nat, q.seq \in Nat, p.seq <= q.seq,
         p.removed \subseteq q.removed, NEW ob, NEW fr, GoodObject(p, ob, fr)
  PROVE  GoodObject(q, ob, fr)
<1>1. ObjectOK(q, ob)
  BY DEF GoodObject, ObjectOK, SnapSetOK
<1>2. ob.ss.seq \in 0 .. p.seq
  BY DEF GoodObject, ObjectOK, SnapSetOK
<1>3. FrozenOK(q, ob, fr)
  <2>1. DOMAIN fr \subseteq 1 .. q.seq
    BY DEF GoodObject, FrozenOK
  <2>2. ASSUME NEW s \in LiveOf(q)
        PROVE  /\ s \in DOMAIN fr <=> s <= ob.ss.seq
               /\ s <= ob.ss.seq => fr[s] = Shown(ob, s)
    <3>1. CASE s <= p.seq
      <4>1. s \in LiveOf(p)
        BY <3>1 DEF LiveOf
      <4> QED
        BY <4>1 DEF GoodObject, FrozenOK
    <3>2. CASE ~(s <= p.seq)
      BY <1>2, <3>2 DEF GoodObject, FrozenOK, LiveOf
    <3> QED
      BY <3>1, <3>2
  <2> QED
    BY <2>1, <2>2 DEF FrozenOK
<1> QED
  BY <1>1, <1>3 DEF GoodObject

(* What is forgotten with a SnapSet is nothing that a live snapshot shows. *)
LEMMA ForgetKeeps ==
  ASSUME NEW p, NEW ob, NEW fr, GoodObject(p, ob, fr)
  PROVE  GoodObject(p, ob, Forget(fr, ob))
<1>1. CASE ob.head # "none" \/ ob.ss # NoSnapSet
  BY <1>1 DEF Forget
<1>2. CASE ~(ob.head # "none" \/ ob.ss # NoSnapSet)
  <2> DEFINE fn == Forget(fr, ob)
  <2>1. ob.ss.seq = 0
    BY <1>2 DEF NoSnapSet
  <2>2. DOMAIN fn \subseteq DOMAIN fr
    BY <1>2 DEF Forget
  <2> HIDE DEF fn
  <2>3. FrozenOK(p, ob, fn)
    BY <2>1, <2>2 DEF GoodObject, FrozenOK, LiveOf
  <2> QED
    BY <2>3 DEF GoodObject, fn
<1> QED
  BY <1>1, <1>2

(* An object that is gone loses its SnapSet: no live snapshot shows it.    *)
LEMMA GoneKeeps ==
  ASSUME NEW p, p.seq \in Nat, NEW ob, NEW fr, GoodObject(p, ob, fr),
         ob.head = "none", NEW new,
         DOMAIN new = {"head", "data", "dirty", "ss", "disk"},
         new.head = "none", new.data \in Seq(Nat), new.ss = NoSnapSet,
         DOMAIN new.disk = {}
  PROVE  GoodObject(p, new, Forget(fr, new))
<1> DEFINE fn == Forget(fr, new)
<1>1. Clones(NoSnapSet) = {} /\ NoSnapSet.seq = 0 /\ DOMAIN NoSnapSet = {"seq", "clone"}
  BY DEF Clones, NoSnapSet
<1>2. ObjectOK(p, new) /\ OverlapOK(new) /\ SnapsApart(new.ss)
  BY <1>1 DEF ObjectOK, OverlapOK, SnapsApart, SnapSetOK, Heads
<1>3. Clones(ob.ss) = {}
  BY DEF GoodObject, ObjectOK
<1>4. fn = [s \in {t \in DOMAIN fr : fr[t] # DNE} |-> fr[s]]
  BY DEF Forget
<1> HIDE DEF fn
<1>5. ASSUME NEW s \in LiveOf(p) PROVE s \notin DOMAIN fn
  <2>1. Shown(ob, s) = DNE
    BY <1>3 DEF Shown, Served
  <2>2. s \in DOMAIN fr => fr[s] = DNE
    BY <2>1 DEF GoodObject, FrozenOK
  <2> QED
    BY <1>4, <2>2
<1>6. DOMAIN fn \subseteq 1 .. p.seq
  BY <1>4 DEF GoodObject, FrozenOK
<1>7. FrozenOK(p, new, fn)
  BY <1>1, <1>5, <1>6 DEF FrozenOK, LiveOf
<1> QED
  BY <1>2, <1>7 DEF GoodObject, fn
-----------------------------------------------------------------------------
(* A snap context in pool p: all live snapshots up to some point.          *)
SnapContextOK(p, snapc) ==
  /\ snapc.seq \in 0 .. p.seq
  /\ snapc.snaps = 1 .. snapc.seq \ p.removed

(* What make_writeable makes of the context x: the head and its data stay; *)
(* the clones are the same, but for the new one, and only the newest loses *)
(* overlap.                                                                *)
MadeWriteable(x, y, ob, snapc, new) ==
  LET n == IF new THEN snapc.seq ELSE Max(Clones(ob.ss))
  IN  /\ y.head = x.head /\ y.data = x.data
      /\ DOMAIN y.ss = {"seq", "clone"}
      /\ y.ss.seq = Max({ob.ss.seq, snapc.seq})
      /\ Clones(y.ss) = IF new THEN Clones(ob.ss) \cup {snapc.seq}
                        ELSE Clones(ob.ss)
      /\ new => snapc.seq > ob.ss.seq
      /\ \A c \in Clones(y.ss) :
           /\ DOMAIN y.ss.clone[c] = {"snaps", "size", "overlap"}
           /\ y.ss.clone[c].snaps =
                IF new /\ c = n THEN SnapsOfClone(ob.ss, snapc)
                ELSE ob.ss.clone[c].snaps
           /\ y.ss.clone[c].overlap =
                LET old == IF new /\ c = n THEN DOMAIN ob.data
                           ELSE ob.ss.clone[c].overlap
                IN  IF c = n THEN old \ x.ranges ELSE old

(* make_writeable leaves the data, adds the new clone if there is one and  *)
(* takes what was modified out of the overlap of the newest.               *)
LEMMA MakeWriteableFacts ==
  ASSUME NEW p, p.seq \in Nat, NEW ob, ObjectOK(p, ob), NEW snapc,
         SnapContextOK(p, snapc), NEW x, ContextOK(ob, snapc, x)
  PROVE  MadeWriteable(x, make_writeable(x, ob, snapc), ob, snapc,
                       Cloned(x, ob, snapc))
<1> DEFINE new == Cloned(x, ob, snapc)
           cl == IF new THEN With(ob.ss.clone, snapc.seq, NewClone(x, ob, snapc))
                 ELSE ob.ss.clone
           n == IF new THEN snapc.seq ELSE Max(Clones(ob.ss))
           w == [x EXCEPT
                  !.d.dirty = One(Dirty(x)) - One(ob.dirty) + One(new /\ ob.dirty),
                  !.d.objects = @ + One(new), !.d.clones = @ + One(new),
                  !.ss.clone = IF new
                               THEN With(@, snapc.seq, NewClone(x, ob, snapc))
                               ELSE @]
           u == Unshare(w)
           y == make_writeable(x, ob, snapc)
<1>1. /\ DOMAIN x = {"head", "data", "ss", "ranges", "d", "modify", "undirty", "r"}
      /\ x.ss = ob.ss
  BY DEF ContextOK
<1>2. /\ DOMAIN ob.ss = {"seq", "clone"} /\ ob.ss.seq \in 0 .. p.seq
      /\ Clones(ob.ss) \subseteq 1 .. ob.ss.seq
      /\ \A c \in Clones(ob.ss) : DOMAIN ob.ss.clone[c] = {"snaps", "size", "overlap"}
  BY DEF ObjectOK, SnapSetOK
<1>3. new => snapc.seq > ob.ss.seq
  BY <1>1, <1>2 DEF Cloned, SnapContextOK
<1>4. /\ DOMAIN cl = IF new THEN Clones(ob.ss) \cup {snapc.seq} ELSE Clones(ob.ss)
      /\ \A c \in DOMAIN cl :
           cl[c] = IF new /\ c = snapc.seq THEN NewClone(x, ob, snapc)
                   ELSE ob.ss.clone[c]
  BY DEF With, Clones
<1>5. /\ DOMAIN NewClone(x, ob, snapc) = {"snaps", "size", "overlap"}
      /\ NewClone(x, ob, snapc).snaps = SnapsOfClone(ob.ss, snapc)
      /\ NewClone(x, ob, snapc).overlap = DOMAIN ob.data
  BY <1>1 DEF NewClone
<1>6. /\ DOMAIN w = DOMAIN x /\ w.head = x.head /\ w.data = x.data
      /\ w.ranges = x.ranges /\ DOMAIN w.ss = {"seq", "clone"}
      /\ w.ss.seq = ob.ss.seq /\ w.ss.clone = cl
  <2> HIDE DEF new
  <2> QED
    BY <1>1, <1>2
<1>7. y = [u EXCEPT !.ss.seq = Max({@, snapc.seq})]
  BY Zenon DEF make_writeable
<1> HIDE DEF w, y
<1>8. DOMAIN cl # {} => Max(DOMAIN cl) = n /\ n \in DOMAIN cl
  <2>1. CASE new
    <3>1. DOMAIN cl \in SUBSET (0 .. snapc.seq) /\ snapc.seq \in Nat /\ snapc.seq \in DOMAIN cl
      BY <1>2, <1>3, <1>4, <2>1 DEF SnapContextOK
    <3>2. Max(DOMAIN cl) \in DOMAIN cl /\ \A c \in DOMAIN cl : Max(DOMAIN cl) >= c
      <4> HIDE DEF cl
      <4> QED
        BY <3>1, MaxMember
    <3>3. Max(DOMAIN cl) \in 0 .. snapc.seq /\ Max(DOMAIN cl) >= snapc.seq
      BY <3>1, <3>2
    <3>4. Max(DOMAIN cl) = snapc.seq
      <4> HIDE DEF cl
      <4> QED
        BY <3>1, <3>3
    <3> QED
      BY <2>1, <3>1, <3>4
  <2>2. CASE ~new
    <3>1. DOMAIN cl = Clones(ob.ss) /\ n = Max(Clones(ob.ss))
      BY <1>4, <2>2
    <3>2. Clones(ob.ss) \in SUBSET (0 .. ob.ss.seq) /\ ob.ss.seq \in Nat
      BY <1>2
    <3>3. Clones(ob.ss) # {} => Max(Clones(ob.ss)) \in Clones(ob.ss)
      BY <3>2, MaxMember
    <3> QED
      BY <3>1, <3>3
  <2> QED
    BY <2>1, <2>2
<1>9. /\ DOMAIN u = DOMAIN x /\ u.head = x.head /\ u.data = x.data
      /\ DOMAIN u.ss = {"seq", "clone"} /\ u.ss.seq = ob.ss.seq
      /\ DOMAIN u.ss.clone = DOMAIN cl
      /\ \A c \in DOMAIN cl :
           u.ss.clone[c] = IF c = n
                           THEN [cl[c] EXCEPT !.overlap =
                                   @ \ (x.ranges \cap cl[c].overlap)]
                           ELSE cl[c]
  <2>0. Clones(w.ss) = DOMAIN cl
    BY <1>6 DEF Clones
  <2>1. CASE DOMAIN cl = {}
    <3>1. u = w
      BY <2>0, <2>1 DEF Unshare
    <3> HIDE DEF u, cl, n
    <3> QED
      BY <1>6, <2>1, <3>1
  <2>2. CASE DOMAIN cl # {}
    <3>1. Max(Clones(w.ss)) = n /\ n \in DOMAIN cl
      BY <1>8, <2>0, <2>2
    <3> HIDE DEF cl, n
    <3> DEFINE m == w.ranges \cap w.ss.clone[n].overlap
    <3>2. u = [w EXCEPT !.d.bytes = @ + Cardinality(m),
                        !.ss.clone[n].overlap = @ \ m]
      BY <2>0, <2>2, <3>1, Zenon DEF Unshare
    <3>3. m = x.ranges \cap cl[n].overlap
      BY <1>6
    <3> HIDE DEF m, u
    <3>4. /\ DOMAIN u = DOMAIN x /\ u.head = x.head /\ u.data = x.data
          /\ u.ss = [w.ss EXCEPT !.clone[n].overlap = @ \ m]
      BY <1>1, <1>6, <3>2
    <3>5. /\ DOMAIN u.ss = {"seq", "clone"} /\ u.ss.seq = ob.ss.seq
          /\ u.ss.clone = [cl EXCEPT ![n].overlap = @ \ m]
      BY <1>6, <3>4
    <3> QED
      BY <3>1, <3>3, <3>4, <3>5
  <2> QED
    BY <2>1, <2>2
<1> HIDE DEF u, cl
<1>10. /\ y.head = x.head /\ y.data = x.data
       /\ DOMAIN y.ss = {"seq", "clone"}
       /\ y.ss.seq = Max({ob.ss.seq, snapc.seq})
       /\ y.ss.clone = u.ss.clone
  BY <1>1, <1>7, <1>9
<1>11. Clones(y.ss) = DOMAIN cl
  BY <1>9, <1>10 DEF Clones
<1>12. ASSUME NEW c \in DOMAIN cl
       PROVE  /\ DOMAIN y.ss.clone[c] = {"snaps", "size", "overlap"}
              /\ y.ss.clone[c].snaps =
                   IF new /\ c = n THEN SnapsOfClone(ob.ss, snapc)
                   ELSE ob.ss.clone[c].snaps
              /\ y.ss.clone[c].overlap =
                   LET old == IF new /\ c = n THEN DOMAIN ob.data
                              ELSE ob.ss.clone[c].overlap
                   IN  IF c = n THEN old \ x.ranges ELSE old
  <2>1. cl[c] = IF new /\ c = n THEN NewClone(x, ob, snapc) ELSE ob.ss.clone[c]
    BY <1>4, <1>12
  <2>2. /\ DOMAIN cl[c] = {"snaps", "size", "overlap"}
        /\ cl[c].snaps = IF new /\ c = n THEN SnapsOfClone(ob.ss, snapc)
                         ELSE ob.ss.clone[c].snaps
        /\ cl[c].overlap = IF new /\ c = n THEN DOMAIN ob.data
                           ELSE ob.ss.clone[c].overlap
    <3> HIDE DEF n
    <3>1. CASE new /\ c = n
      BY <1>5, <2>1, <3>1
    <3>2. CASE ~(new /\ c = n)
      <4>1. c \in Clones(ob.ss)
        BY <1>4, <1>12, <3>2 DEF n
      <4> QED
        BY <1>2, <2>1, <3>2, <4>1
    <3> QED
      BY <3>1, <3>2
  <2>3. y.ss.clone[c] = IF c = n
                        THEN [cl[c] EXCEPT !.overlap =
                                @ \ (x.ranges \cap cl[c].overlap)]
                        ELSE cl[c]
    BY <1>9, <1>10, <1>12
  <2> HIDE DEF n, new
  <2>4. CASE c = n
    BY <2>2, <2>3, <2>4
  <2>5. CASE c # n
    BY <2>2, <2>3, <2>5
  <2> QED
    BY <2>4, <2>5
<1> HIDE DEF n, new
<1> QED
  BY <1>3, <1>4, <1>10, <1>11, <1>12 DEF y, n, new, MadeWriteable

(* The object that a write leaves, before the SnapSet of one that is gone  *)
(* is dropped.                                                             *)
Written(y, ob, snapc) ==
  [head |-> y.head, data |-> y.data, dirty |-> Dirty(y), ss |-> y.ss,
   disk |-> IF Cloned([y EXCEPT !.ss = ob.ss], ob, snapc)
            THEN With(ob.disk, snapc.seq,
                      [data |-> ob.data, dirty |-> ob.dirty])
            ELSE ob.disk]

(* The snapshots that freeze what the head holds before a write.           *)
FrozenBy(p, fr, ob, snapc) ==
  Freeze(fr, ob, {s \in LiveOf(p) : s <= snapc.seq /\ s > ob.ss.seq})

(* A write makes good objects: the clone has what the head had, for the    *)
(* snapshots since the last one, and the newest clone shares with the head *)
(* what was not modified.                                                  *)
LEMMA WrittenGood ==
  ASSUME NEW p, p.seq \in Nat, NEW ob, NEW fr, GoodObject(p, ob, fr),
         NEW snapc, SnapContextOK(p, snapc), NEW x, ContextOK(ob, snapc, x)
  PROVE  LET new == Written(make_writeable(x, ob, snapc), ob, snapc)
         IN  /\ GoodObject(p, new, FrozenBy(p, fr, ob, snapc))
             /\ Clones(ob.ss) \subseteq Clones(new.ss)
             /\ Cloned(x, ob, snapc) => snapc.seq \notin Clones(ob.ss)
<1> DEFINE y == make_writeable(x, ob, snapc)
           cl == Cloned(x, ob, snapc)
           n == IF cl THEN snapc.seq ELSE Max(Clones(ob.ss))
           new == Written(y, ob, snapc)
           seq == Max({ob.ss.seq, snapc.seq})
           fn == FrozenBy(p, fr, ob, snapc)
<1>1. ObjectOK(p, ob) /\ OverlapOK(ob) /\ SnapsApart(ob.ss) /\ FrozenOK(p, ob, fr)
  BY DEF GoodObject
<1>2. /\ DOMAIN ob.ss = {"seq", "clone"} /\ ob.ss.seq \in 0 .. p.seq
      /\ Clones(ob.ss) \subseteq 1 .. ob.ss.seq /\ DOMAIN ob.disk = Clones(ob.ss)
      /\ \A c \in Clones(ob.ss) : ob.disk[c].data \in Seq(Nat)
      /\ ob.data \in Seq(Nat) /\ ob.head \in Heads
      /\ ob.head = "none" => Clones(ob.ss) = {}
  BY <1>1 DEF ObjectOK, SnapSetOK
<1>3. snapc.seq \in 0 .. p.seq /\ snapc.snaps = 1 .. snapc.seq \ p.removed
  BY DEF SnapContextOK
<1>4. /\ DOMAIN x = {"head", "data", "ss", "ranges", "d", "modify", "undirty", "r"}
      /\ x.head \in Heads /\ x.data \in Seq(Nat) /\ x.ss = ob.ss
      /\ \A i \in DOMAIN ob.data \ x.ranges :
           i \in DOMAIN x.data /\ x.data[i] = ob.data[i]
      /\ x.head = "none" =>
           Clones(ob.ss) = {} /\ (ob.head # "there" \/ \A s \in snapc.snaps : ~(s > ob.ss.seq))
  BY DEF ContextOK
<1>5. /\ y.head = x.head /\ y.data = x.data
      /\ DOMAIN y.ss = {"seq", "clone"}
      /\ y.ss.seq = seq
      /\ Clones(y.ss) = IF cl THEN Clones(ob.ss) \cup {snapc.seq} ELSE Clones(ob.ss)
      /\ cl => snapc.seq > ob.ss.seq
      /\ \A c \in Clones(y.ss) :
           /\ DOMAIN y.ss.clone[c] = {"snaps", "size", "overlap"}
           /\ y.ss.clone[c].snaps =
                IF cl /\ c = n THEN SnapsOfClone(ob.ss, snapc)
                ELSE ob.ss.clone[c].snaps
           /\ y.ss.clone[c].overlap =
                LET old == IF cl /\ c = n THEN DOMAIN ob.data
                           ELSE ob.ss.clone[c].overlap
                IN  IF c = n THEN old \ x.ranges ELSE old
  <2>1. MadeWriteable(x, y, ob, snapc, cl)
    BY <1>1, MakeWriteableFacts
  <2> HIDE DEF y, cl
  <2> QED
    BY <2>1, Zenon DEF MadeWriteable
<1>6. /\ seq \in Nat /\ seq \in {ob.ss.seq, snapc.seq} /\ seq >= ob.ss.seq
      /\ seq >= snapc.seq /\ seq \in 0 .. p.seq
  <2>1. ob.ss.seq \in Nat /\ snapc.seq \in Nat
    BY <1>2, <1>3
  <2>2. /\ seq \in {ob.ss.seq, snapc.seq} /\ seq \in Nat
        /\ seq >= ob.ss.seq /\ seq >= snapc.seq
    BY <2>1, MaxPair, Zenon
  <2> HIDE DEF seq
  <2> QED
    BY <1>2, <1>3, <2>2
<1>7. cl <=> ob.head = "there" /\ \E s \in snapc.snaps : s > ob.ss.seq
  BY <1>4 DEF Cloned
<1>8. Cloned([y EXCEPT !.ss = ob.ss], ob, snapc) = cl
  <2>1. "ss" \in DOMAIN y
    BY <1>4 DEF make_writeable, Unshare
  <2>2. x.ss = ob.ss
    BY <1>4
  <2> HIDE DEF y
  <2>3. [y EXCEPT !.ss = ob.ss].ss = ob.ss
    BY <2>1
  <2> QED
    BY <2>2, <2>3, Zenon DEF Cloned, cl
<1> HIDE DEF y, cl, seq
<1>9. /\ new.head = x.head /\ new.data = x.data /\ new.ss = y.ss
      /\ DOMAIN new = {"head", "data", "dirty", "ss", "disk"}
      /\ new.disk = IF cl THEN With(ob.disk, snapc.seq,
                                    [data |-> ob.data, dirty |-> ob.dirty])
                    ELSE ob.disk
  BY <1>5, <1>8 DEF Written
<1>10. /\ DOMAIN new.disk = Clones(new.ss)
       /\ \A c \in Clones(ob.ss) : c \in Clones(new.ss) /\ new.disk[c] = ob.disk[c]
       /\ cl => /\ snapc.seq \in Clones(new.ss) /\ snapc.seq \notin Clones(ob.ss)
                /\ new.disk[snapc.seq].data = ob.data
       /\ \A c \in Clones(new.ss) : c \in Clones(ob.ss) \/ (cl /\ c = snapc.seq)
  <2> HIDE DEF new
  <2>1. cl => snapc.seq \notin Clones(ob.ss)
    BY <1>2, <1>3, <1>5
  <2> QED
    BY <1>2, <1>5, <1>9, <2>1 DEF With
<1> HIDE DEF new
<1>11. SnapSetOK(p, new.ss)
  <2>1. Clones(new.ss) \subseteq 1 .. new.ss.seq
    <3>1. \A c \in Clones(ob.ss) : c \in 1 .. seq
      BY <1>2, <1>6
    <3>2. cl => snapc.seq \in 1 .. seq
      BY <1>2, <1>3, <1>5, <1>6
    <3> QED
      BY <1>5, <1>9, <1>10, <3>1, <3>2
  <2> QED
    BY <1>5, <1>6, <1>9, <2>1 DEF SnapSetOK
<1>12. ObjectOK(p, new)
  <2>1. \A c \in Clones(new.ss) : new.disk[c].data \in Seq(Nat)
    BY <1>2, <1>10
  <2>2. new.head = "none" => Clones(new.ss) = {}
    BY <1>4, <1>5, <1>7, <1>9
  <2> QED
    BY <1>4, <1>9, <1>10, <1>11, <2>1, <2>2 DEF ObjectOK
<1>13. SnapsApart(new.ss)
  <2> SUFFICES ASSUME NEW c \in Clones(new.ss), NEW s \in new.ss.clone[c].snaps
               PROVE  /\ s \in Nat /\ s <= c
                      /\ \A k \in Clones(new.ss) : k < c => k < s
    BY DEF SnapsApart
  <2>1. CASE cl /\ c = snapc.seq
    <3>1. new.ss.clone[c].snaps = SnapsOfClone(ob.ss, snapc)
      BY <1>5, <1>9, <2>1
    <3>2. s \in 1 .. snapc.seq /\ s > ob.ss.seq
      BY <1>3, <3>1 DEF SnapsOfClone
    <3>3. \A k \in Clones(new.ss) : k < c => k \in Clones(ob.ss)
      BY <1>3, <1>10, <2>1
    <3>4. \A k \in Clones(ob.ss) : k < s
      BY <1>2, <3>2
    <3> QED
      BY <1>3, <2>1, <3>2, <3>3, <3>4
  <2>2. CASE ~(cl /\ c = snapc.seq)
    <3>1. c \in Clones(ob.ss)
      BY <1>10, <2>2
    <3>2. new.ss.clone[c].snaps = ob.ss.clone[c].snaps
      BY <1>5, <1>9, <2>2
    <3>3. /\ s \in Nat /\ s <= c
          /\ \A k \in Clones(ob.ss) : k < c => k < s
      BY <1>1, <3>1, <3>2 DEF SnapsApart
    <3>4. \A k \in Clones(new.ss) : k < c => k \in Clones(ob.ss)
      BY <1>2, <1>3, <1>5, <1>10, <3>1
    <3> QED
      BY <3>3, <3>4
  <2> QED
    BY <2>1, <2>2
<1>14. OverlapOK(new)
  <2> SUFFICES ASSUME NEW c \in Clones(new.ss)
               PROVE  Shares(new.disk[c].data, NextData(new, c),
                             new.ss.clone[c].overlap)
    BY DEF OverlapOK
  <2>1. CASE cl /\ c = snapc.seq
    <3>1. Newer(new.ss, c) = {}
      BY <1>2, <1>3, <1>5, <1>10, <2>1 DEF Newer
    <3>2. NextData(new, c) = x.data
      BY <1>9, <3>1 DEF NextData
    <3>3. new.ss.clone[c].overlap = DOMAIN ob.data \ x.ranges
      BY <1>5, <1>9, <2>1
    <3> QED
      BY <1>4, <1>10, <2>1, <3>2, <3>3 DEF Shares
  <2>2. CASE ~(cl /\ c = snapc.seq)
    <3>1. c \in Clones(ob.ss) /\ new.disk[c] = ob.disk[c]
      BY <1>10, <2>2
    <3>2. Shares(ob.disk[c].data, NextData(ob, c), ob.ss.clone[c].overlap)
      BY <1>1, <3>1 DEF OverlapOK
    <3>3. new.ss.clone[c].overlap \subseteq ob.ss.clone[c].overlap
      BY <1>5, <1>9, <2>2
    <3>4. CASE Newer(ob.ss, c) # {}
      <4> DEFINE m == Min(Newer(ob.ss, c))
      <4>1. Newer(ob.ss, c) \in SUBSET Nat
        BY <1>2 DEF Newer
      <4>2. m \in Newer(ob.ss, c) /\ \A k \in Newer(ob.ss, c) : m <= k
        BY <3>4, <4>1, MinMember
      <4> HIDE DEF m
      <4>3. m \in Clones(ob.ss) /\ m > c
        BY <4>2 DEF Newer
      <4>4. Newer(new.ss, c) \in SUBSET Nat /\ m \in Newer(new.ss, c)
        BY <1>10, <1>11, <4>3 DEF Newer, SnapSetOK
      <4>5. \A k \in Newer(new.ss, c) : m <= k
        BY <1>2, <1>3, <1>5, <1>10, <4>2, <4>3 DEF Newer
      <4>6. Min(Newer(new.ss, c)) = m
        BY <4>4, <4>5, MinIs
      <4>7. NextData(new, c) = ob.disk[m].data
        BY <1>10, <4>3, <4>4, <4>6 DEF NextData
      <4>8. NextData(ob, c) = ob.disk[m].data
        BY <3>4 DEF NextData, m
      <4> QED
        BY <3>1, <3>2, <3>3, <4>7, <4>8 DEF Shares
    <3>5. CASE Newer(ob.ss, c) = {} /\ cl
      <4>1. Newer(new.ss, c) = {snapc.seq}
        BY <1>2, <1>3, <1>5, <1>10, <3>1, <3>5 DEF Newer
      <4>2. Min({snapc.seq}) = snapc.seq
        BY <1>3, MinIs
      <4>3. NextData(new, c) = ob.data /\ NextData(ob, c) = ob.data
        BY <1>10, <3>5, <4>1, <4>2 DEF NextData
      <4> QED
        BY <3>1, <3>2, <3>3, <4>3 DEF Shares
    <3>6. CASE Newer(ob.ss, c) = {} /\ ~cl
      <4>1. NextData(ob, c) = ob.data
        BY <3>6 DEF NextData
      <4>2. Newer(new.ss, c) = {}
        BY <1>5, <1>9, <3>6 DEF Newer
      <4>3. NextData(new, c) = x.data
        BY <1>9, <4>2 DEF NextData
      <4>4. Clones(ob.ss) \in SUBSET (0 .. ob.ss.seq) /\ ob.ss.seq \in Nat
        BY <1>2
      <4>5. /\ Max(Clones(ob.ss)) \in Clones(ob.ss)
            /\ \A k \in Clones(ob.ss) : Max(Clones(ob.ss)) >= k
        BY <3>1, <4>4, MaxMember
      <4>6. ~(Max(Clones(ob.ss)) > c) /\ Max(Clones(ob.ss)) >= c
        BY <3>1, <3>6, <4>5 DEF Newer
      <4>7. Max(Clones(ob.ss)) \in Nat /\ c \in Nat
        BY <1>2, <3>1, <4>5
      <4>8. c = n
        BY <3>6, <4>6, <4>7
      <4>9. new.ss.clone[c].overlap = ob.ss.clone[c].overlap \ x.ranges
        BY <1>5, <1>9, <3>6, <4>8
      <4> QED
        BY <1>4, <3>1, <3>2, <4>1, <4>3, <4>9 DEF Shares
    <3> QED
      BY <3>4, <3>5, <3>6
  <2> QED
    BY <2>1, <2>2
<1>15. /\ DOMAIN fn = DOMAIN fr \cup {s \in LiveOf(p) : s <= snapc.seq /\ s > ob.ss.seq}
       /\ \A s \in DOMAIN fn : fn[s] = IF s \in DOMAIN fr THEN fr[s] ELSE Content(ob)
  BY DEF FrozenBy, Freeze
<1> HIDE DEF fn
<1>16. ASSUME NEW s \in LiveOf(p)
       PROVE  /\ s \in DOMAIN fn <=> s <= new.ss.seq
              /\ s <= new.ss.seq => fn[s] = Shown(new, s)
  <2>1. s \in 1 .. p.seq /\ s \notin p.removed
    BY DEF LiveOf
  <2>2. s \in DOMAIN fr <=> s <= ob.ss.seq
    BY <1>1 DEF FrozenOK
  <2>3. s \in DOMAIN fn <=> s <= new.ss.seq
    BY <1>2, <1>3, <1>5, <1>6, <1>9, <1>15, <2>1, <2>2
  <2>4. CASE s <= ob.ss.seq
    <3>1. fn[s] = Shown(ob, s)
      BY <1>1, <1>15, <2>2, <2>4 DEF FrozenOK
    <3>2. CASE \E c \in Clones(ob.ss) : c >= s
      <4> DEFINE c == WhichClone(ob.ss, s)
      <4>1. SnapSetOK(p, ob.ss)
        BY <1>1 DEF ObjectOK
      <4>2. c \in Clones(ob.ss) /\ c >= s /\ \A k \in Clones(ob.ss) : k >= s => c <= k
        BY <3>2, <4>1, WhichCloneFacts
      <4> HIDE DEF c
      <4>3. \A k \in Clones(new.ss) : k >= s => c <= k
        BY <1>2, <1>3, <1>5, <1>10, <4>2
      <4>4. c \in Clones(new.ss)
        BY <1>10, <4>2
      <4>5. WhichClone(new.ss, s) = c
        BY <1>11, <4>2, <4>3, <4>4, WhichCloneIs
      <4>6. c # snapc.seq \/ ~cl
        BY <1>10, <4>2
      <4>7. new.ss.clone[c].snaps = ob.ss.clone[c].snaps /\ new.disk[c] = ob.disk[c]
        BY <1>5, <1>9, <1>10, <4>2, <4>4, <4>6
      <4>8. WhichClone(ob.ss, s) = c
        BY DEF c
      <4>9. Served(new.ss, s) <=> Served(ob.ss, s)
        BY <3>2, <4>2, <4>4, <4>5, <4>7, <4>8 DEF Served
      <4>10. fn[s] = Shown(new, s)
        BY <3>1, <4>5, <4>7, <4>8, <4>9 DEF Shown
      <4> QED
        BY <2>3, <4>10
    <3>3. CASE ~\E c \in Clones(ob.ss) : c >= s
      <4>1. Shown(ob, s) = DNE
        BY <3>3 DEF Shown, Served
      <4>2. ASSUME Served(new.ss, s) PROVE FALSE
        <5>1. \E c \in Clones(new.ss) : c >= s
          BY <4>2 DEF Served
        <5>2. cl /\ snapc.seq >= s
          BY <1>10, <3>3, <5>1
        <5>3. \A k \in Clones(new.ss) : k >= s => snapc.seq <= k
          BY <1>3, <1>10, <3>3
        <5>4. WhichClone(new.ss, s) = snapc.seq
          BY <1>10, <1>11, <5>2, <5>3, WhichCloneIs
        <5>5. new.ss.clone[snapc.seq].snaps = SnapsOfClone(ob.ss, snapc)
          BY <1>5, <1>9, <1>10, <5>2
        <5>6. s > ob.ss.seq
          BY <4>2, <5>4, <5>5 DEF Served, SnapsOfClone
        <5> QED
          BY <1>2, <2>1, <2>4, <5>6
      <4>3. fn[s] = Shown(new, s)
        BY <3>1, <4>1, <4>2 DEF Shown
      <4> QED
        BY <2>3, <4>3
    <3> QED
      BY <2>3, <3>2, <3>3
  <2>5. CASE s > ob.ss.seq /\ s <= snapc.seq
    <3>1. s \notin DOMAIN fr /\ s \in DOMAIN fn
      BY <1>2, <1>15, <2>1, <2>2, <2>5
    <3>2. fn[s] = Content(ob)
      BY <1>15, <3>1
    <3>3. s \in snapc.snaps
      BY <1>3, <2>1, <2>5
    <3>4. \A k \in Clones(ob.ss) : ~(k >= s)
      BY <1>2, <2>1, <2>5
    <3>5. CASE cl
      <4>1. \A k \in Clones(new.ss) : k >= s => snapc.seq <= k
        BY <1>3, <1>10, <3>4
      <4>2. WhichClone(new.ss, s) = snapc.seq
        BY <1>10, <1>11, <2>5, <3>5, <4>1, WhichCloneIs
      <4>3. new.ss.clone[snapc.seq].snaps = SnapsOfClone(ob.ss, snapc)
        BY <1>5, <1>9, <1>10, <3>5
      <4>4. Served(new.ss, s)
        BY <1>10, <2>5, <3>3, <3>5, <4>2, <4>3 DEF Served, SnapsOfClone
      <4>5. Content(ob) = ob.data
        BY <1>7, <3>5 DEF Content
      <4>6. Shown(new, s) = new.disk[snapc.seq].data
        BY <4>2, <4>4 DEF Shown
      <4>7. fn[s] = Shown(new, s)
        BY <1>10, <3>2, <3>5, <4>5, <4>6
      <4> QED
        BY <2>3, <4>7
    <3>6. CASE ~cl
      <4>1. ob.head # "there"
        BY <1>7, <2>5, <3>3, <3>6
      <4>2. Content(ob) = DNE
        BY <4>1 DEF Content
      <4>3. ~Served(new.ss, s)
        BY <1>10, <3>4, <3>6 DEF Served
      <4>4. fn[s] = Shown(new, s)
        BY <3>2, <4>2, <4>3 DEF Shown
      <4> QED
        BY <2>3, <4>4
    <3> QED
      BY <3>5, <3>6
  <2>6. CASE ~(s <= ob.ss.seq) /\ ~(s > ob.ss.seq /\ s <= snapc.seq)
    <3>1. ~(s <= new.ss.seq)
      BY <1>2, <1>3, <1>5, <1>6, <1>9, <2>1, <2>6
    <3> QED
      BY <2>3, <3>1
  <2> QED
    BY <2>4, <2>5, <2>6
<1>17. DOMAIN fn \subseteq 1 .. p.seq
  BY <1>1, <1>15 DEF FrozenOK, LiveOf
<1>18. FrozenOK(p, new, fn)
  BY <1>16, <1>17 DEF FrozenOK
<1>19. cl => snapc.seq \notin Clones(ob.ss)
  BY <1>10
<1>20. Clones(ob.ss) \subseteq Clones(new.ss)
  BY <1>10
<1>21. GoodObject(p, new, fn)
  BY <1>12, <1>13, <1>14, <1>18 DEF GoodObject
<1> QED
  BY <1>19, <1>20, <1>21, Zenon DEF new, fn, y, cl
-----------------------------------------------------------------------------
(* r is ob without clone c: the next older clone shares with the next      *)
(* newer object what it and clone c did.                                   *)
Removed(r, ob, c) ==
  LET older == {k \in Clones(ob.ss) : k < c}
  IN  /\ DOMAIN r = {"head", "data", "dirty", "ss", "disk"}
      /\ r.head = ob.head /\ r.data = ob.data
      /\ DOMAIN r.ss = {"seq", "clone"} /\ r.ss.seq = ob.ss.seq
      /\ Clones(r.ss) = Clones(ob.ss) \ {c}
      /\ DOMAIN r.disk = Clones(ob.ss) \ {c}
      /\ \A k \in Clones(ob.ss) \ {c} :
           /\ r.disk[k] = ob.disk[k]
           /\ DOMAIN r.ss.clone[k] = {"snaps", "size", "overlap"}
           /\ r.ss.clone[k].snaps = ob.ss.clone[k].snaps
           /\ r.ss.clone[k].overlap =
                IF older # {} /\ k = Max(older)
                THEN ob.ss.clone[k].overlap \cap ob.ss.clone[c].overlap
                ELSE ob.ss.clone[k].overlap

(* The clone is gone, and the next older one shares with what comes after  *)
(* it only what both shared.                                               *)
LEMMA RemoveFacts ==
  ASSUME NEW p, NEW ob, ObjectOK(p, ob), NEW c \in Clones(ob.ss)
  PROVE  Removed(RemoveClone(ob, c).ob, ob, c)
<1> DEFINE r == RemoveClone(ob, c).ob
           older == {k \in Clones(ob.ss) : k < c}
           ss == MergeOverlap(ob.ss, c)
<1>1. /\ DOMAIN ob = {"head", "data", "dirty", "ss", "disk"}
      /\ DOMAIN ob.disk = Clones(ob.ss)
      /\ DOMAIN ob.ss = {"seq", "clone"}
      /\ Clones(ob.ss) \subseteq 1 .. ob.ss.seq
      /\ \A k \in Clones(ob.ss) : DOMAIN ob.ss.clone[k] = {"snaps", "size", "overlap"}
  BY DEF ObjectOK, SnapSetOK
<1>2. older # {} => Max(older) \in older
  <2>1. older \in SUBSET (0 .. ob.ss.seq) /\ ob.ss.seq \in Nat
    BY DEF ObjectOK, SnapSetOK
  <2> HIDE DEF older
  <2> QED
    BY <2>1, MaxMember
<1>3. /\ DOMAIN ss = {"seq", "clone"} /\ ss.seq = ob.ss.seq
      /\ DOMAIN ss.clone = Clones(ob.ss)
      /\ \A k \in Clones(ob.ss) :
           /\ DOMAIN ss.clone[k] = {"snaps", "size", "overlap"}
           /\ ss.clone[k].snaps = ob.ss.clone[k].snaps
           /\ ss.clone[k].overlap =
                IF older # {} /\ k = Max(older)
                THEN ob.ss.clone[k].overlap \cap ob.ss.clone[c].overlap
                ELSE ob.ss.clone[k].overlap
  <2>1. CASE older = {}
    <3>1. ss = ob.ss
      BY <2>1 DEF MergeOverlap
    <3> HIDE DEF ss, older
    <3> QED
      BY <1>1, <2>1, <3>1 DEF Clones
  <2>2. CASE older # {}
    <3> DEFINE m == Max(older)
    <3>1. ss = [ob.ss EXCEPT !.clone[m].overlap = @ \cap ob.ss.clone[c].overlap]
      BY <2>2, Zenon DEF MergeOverlap
    <3>2. m \in Clones(ob.ss)
      BY <1>2, <2>2
    <3> HIDE DEF ss, older, m
    <3>3. /\ DOMAIN ss = {"seq", "clone"} /\ ss.seq = ob.ss.seq
          /\ ss.clone = [ob.ss.clone EXCEPT ![m].overlap =
                           @ \cap ob.ss.clone[c].overlap]
      BY <1>1, <3>1
    <3>4. /\ DOMAIN ss.clone = Clones(ob.ss)
          /\ \A k \in Clones(ob.ss) :
               ss.clone[k] = IF k = m
                             THEN [ob.ss.clone[m] EXCEPT !.overlap =
                                     @ \cap ob.ss.clone[c].overlap]
                             ELSE ob.ss.clone[k]
      BY <3>2, <3>3 DEF Clones
    <3>5. \A k \in Clones(ob.ss) :
            /\ DOMAIN ss.clone[k] = {"snaps", "size", "overlap"}
            /\ ss.clone[k].snaps = ob.ss.clone[k].snaps
            /\ ss.clone[k].overlap =
                 IF k = m THEN ob.ss.clone[k].overlap \cap ob.ss.clone[c].overlap
                 ELSE ob.ss.clone[k].overlap
      <4> SUFFICES ASSUME NEW k \in Clones(ob.ss)
                   PROVE  /\ DOMAIN ss.clone[k] = {"snaps", "size", "overlap"}
                          /\ ss.clone[k].snaps = ob.ss.clone[k].snaps
                          /\ ss.clone[k].overlap =
                               IF k = m THEN ob.ss.clone[k].overlap \cap ob.ss.clone[c].overlap
                               ELSE ob.ss.clone[k].overlap
        OBVIOUS
      <4>1. CASE k = m
        BY <1>1, <3>2, <3>4, <4>1
      <4>2. CASE k # m
        BY <1>1, <3>4, <4>2
      <4> QED
        BY <4>1, <4>2
    <3>6. older # {} /\ m = Max(older)
      BY <2>2 DEF m
    <3> QED
      BY <3>3, <3>4, <3>5, <3>6
  <2> QED
    BY <2>1, <2>2
<1> HIDE DEF ss
<1>4. r = [ob EXCEPT !.ss = [ss EXCEPT !.clone = Without(@, c)],
                     !.disk = Without(@, c)]
  <2> DEFINE grown == {k \in Clones(ss) \ {c} : ss.clone[k] # ob.ss.clone[k]}
             more(k) == get_clone_bytes(ss.clone[k]) - get_clone_bytes(ob.ss.clone[k])
             new == [ob EXCEPT !.ss = [ss EXCEPT !.clone = Without(@, c)],
                               !.disk = Without(@, c)]
             d == [ZeroStats EXCEPT
                !.objects = -1, !.clones = -1,
                !.dirty = -One(ob.disk[c].dirty),
                !.bytes = FoldSet(LAMBDA k, n : n + more(k),
                                  -get_clone_bytes(ob.ss.clone[c]), grown)]
  <2>1. RemoveClone(ob, c) = [ob |-> new, d |-> d]
    BY Zenon DEF RemoveClone, ss
  <2> HIDE DEF new, d
  <2>2. r = new
    BY <2>1
  <2> QED
    BY <2>2 DEF new
<1> HIDE DEF r, older
<1>5. /\ DOMAIN r = {"head", "data", "dirty", "ss", "disk"}
      /\ r.head = ob.head /\ r.data = ob.data
      /\ r.ss = [ss EXCEPT !.clone = Without(@, c)]
      /\ r.disk = Without(ob.disk, c)
  BY <1>1, <1>4
<1>6. /\ DOMAIN r.ss = {"seq", "clone"} /\ r.ss.seq = ob.ss.seq
      /\ r.ss.clone = Without(ss.clone, c)
  BY <1>3, <1>5
<1>7. /\ Clones(r.ss) = Clones(ob.ss) \ {c}
      /\ DOMAIN r.disk = Clones(ob.ss) \ {c}
      /\ \A k \in Clones(ob.ss) \ {c} :
           r.disk[k] = ob.disk[k] /\ r.ss.clone[k] = ss.clone[k]
  BY <1>1, <1>3, <1>5, <1>6 DEF Without, Clones
<1> QED
  BY <1>3, <1>5, <1>6, <1>7 DEF r, older, Removed

(* A clone that serves no live snapshot can go.                            *)
LEMMA RemovedGood ==
  ASSUME NEW p, p.seq \in Nat, NEW ob, NEW fr, GoodObject(p, ob, fr),
         NEW c \in Clones(ob.ss),
         \A s \in ob.ss.clone[c].snaps : s \notin LiveOf(p),
         NEW r, Removed(r, ob, c)
  PROVE  GoodObject(p, r, fr)
<1> DEFINE older == {k \in Clones(ob.ss) : k < c}
           m == Max(older)
<1>1. ObjectOK(p, ob) /\ OverlapOK(ob) /\ SnapsApart(ob.ss) /\ FrozenOK(p, ob, fr)
  BY DEF GoodObject
<1>2. /\ ob.ss.seq \in 0 .. p.seq /\ Clones(ob.ss) \subseteq 1 .. ob.ss.seq
      /\ DOMAIN ob.disk = Clones(ob.ss)
      /\ \A k \in Clones(ob.ss) : ob.disk[k].data \in Seq(Nat)
      /\ ob.data \in Seq(Nat) /\ ob.head \in Heads
      /\ ob.head = "none" => Clones(ob.ss) = {}
  BY <1>1 DEF ObjectOK, SnapSetOK
<1>3. /\ DOMAIN r = {"head", "data", "dirty", "ss", "disk"}
      /\ r.head = ob.head /\ r.data = ob.data
      /\ DOMAIN r.ss = {"seq", "clone"} /\ r.ss.seq = ob.ss.seq
      /\ Clones(r.ss) = Clones(ob.ss) \ {c}
      /\ DOMAIN r.disk = Clones(ob.ss) \ {c}
      /\ \A k \in Clones(ob.ss) \ {c} :
           /\ r.disk[k] = ob.disk[k]
           /\ DOMAIN r.ss.clone[k] = {"snaps", "size", "overlap"}
           /\ r.ss.clone[k].snaps = ob.ss.clone[k].snaps
           /\ r.ss.clone[k].overlap =
                IF older # {} /\ k = m
                THEN ob.ss.clone[k].overlap \cap ob.ss.clone[c].overlap
                ELSE ob.ss.clone[k].overlap
  BY Zenon DEF Removed
<1>4. older # {} => m \in older /\ \A k \in older : m >= k
  <2>1. older \in SUBSET (0 .. ob.ss.seq) /\ ob.ss.seq \in Nat
    BY <1>2
  <2> HIDE DEF older
  <2> QED
    BY <2>1, MaxMember
<1> HIDE DEF m
<1>5. SnapSetOK(p, r.ss)
  BY <1>2, <1>3 DEF SnapSetOK
<1>6. ObjectOK(p, r)
  BY <1>2, <1>3, <1>5 DEF ObjectOK
<1>7. SnapsApart(r.ss)
  BY <1>1, <1>3 DEF SnapsApart
<1>8. OverlapOK(r)
  <2> SUFFICES ASSUME NEW k \in Clones(r.ss)
               PROVE  Shares(r.disk[k].data, NextData(r, k), r.ss.clone[k].overlap)
    BY DEF OverlapOK
  <2>1. k \in Clones(ob.ss) /\ k # c /\ r.disk[k] = ob.disk[k]
    BY <1>3
  <2>2. /\ Shares(ob.disk[k].data, NextData(ob, k), ob.ss.clone[k].overlap)
        /\ Shares(ob.disk[c].data, NextData(ob, c), ob.ss.clone[c].overlap)
    BY <1>1, <2>1 DEF OverlapOK
  <2>3. ASSUME NEW a \in Clones(ob.ss), NEW b \in Clones(ob.ss),
               Newer(r.ss, b) = Newer(ob.ss, a), c \notin Newer(ob.ss, a)
        PROVE  NextData(r, b) = NextData(ob, a)
    <3>1. CASE Newer(ob.ss, a) = {}
      BY <1>3, <2>3, <3>1 DEF NextData
    <3>2. CASE Newer(ob.ss, a) # {}
      <4>1. Newer(ob.ss, a) \in SUBSET Nat
        BY <1>2 DEF Newer
      <4>2. Min(Newer(ob.ss, a)) \in Newer(ob.ss, a)
        BY <3>2, <4>1, MinMember
      <4>3. Min(Newer(ob.ss, a)) \in Clones(ob.ss) \ {c}
        BY <2>3, <4>2 DEF Newer
      <4> QED
        BY <1>3, <2>3, <3>2, <4>3 DEF NextData
    <3> QED
      BY <3>1, <3>2
  <2>4. CASE k > c
    <3>1. Newer(r.ss, k) = Newer(ob.ss, k) /\ c \notin Newer(ob.ss, k)
      BY <1>2, <1>3, <2>1, <2>4 DEF Newer
    <3>2. NextData(r, k) = NextData(ob, k)
      BY <2>1, <2>3, <3>1
    <3>3. ~(older # {} /\ k = m)
      BY <1>2, <1>4, <2>1, <2>4
    <3>4. r.ss.clone[k].overlap = ob.ss.clone[k].overlap
      BY <1>3, <3>3
    <3> QED
      BY <2>1, <2>2, <3>2, <3>4
  <2>5. CASE k < c /\ k = m
    <3>1. older # {} /\ \A j \in older : k >= j
      BY <1>4, <2>1, <2>5
    <3>2. Newer(ob.ss, k) \in SUBSET Nat /\ c \in Newer(ob.ss, k)
      BY <1>2, <2>5 DEF Newer
    <3>3. \A j \in Newer(ob.ss, k) : c <= j
      <4> SUFFICES ASSUME NEW j \in Clones(ob.ss), j > k PROVE c <= j
        BY DEF Newer
      <4>1. j \notin older
        BY <1>2, <2>1, <3>1
      <4> QED
        BY <1>2, <4>1
    <3>4. Min(Newer(ob.ss, k)) = c
      BY <3>2, <3>3, MinIs
    <3>5. NextData(ob, k) = ob.disk[c].data
      BY <3>2, <3>4 DEF NextData
    <3>6. Newer(r.ss, k) = Newer(ob.ss, c)
      <4>1. \A j : j \in Newer(r.ss, k) <=> j \in Clones(ob.ss) /\ j # c /\ j > k
        BY <1>3 DEF Newer
      <4>2. ASSUME NEW j \in Clones(ob.ss) PROVE (j # c /\ j > k) <=> j > c
        <5>1. j > k => c <= j
          BY <3>3 DEF Newer
        <5> QED
          BY <1>2, <2>1, <2>5, <5>1
      <4>3. \A j : j \in Newer(r.ss, k) <=> j \in Newer(ob.ss, c)
        BY <4>1, <4>2 DEF Newer
      <4> QED
        BY <4>3
    <3>7. c \notin Newer(ob.ss, c)
      BY <1>2 DEF Newer
    <3>8. NextData(r, k) = NextData(ob, c)
      BY <2>1, <2>3, <3>6, <3>7
    <3>9. r.ss.clone[k].overlap = ob.ss.clone[k].overlap \cap ob.ss.clone[c].overlap
      BY <1>3, <2>5, <3>1
    <3> QED
      BY <2>1, <2>2, <3>5, <3>8, <3>9 DEF Shares
  <2>6. CASE k < c /\ k # m
    <3>1. k \in older
      BY <2>1, <2>6
    <3>2. m \in Clones(ob.ss) /\ m < c /\ m > k
      BY <1>2, <1>4, <2>1, <2>6, <3>1
    <3>3. Newer(ob.ss, k) \in SUBSET Nat /\ m \in Newer(ob.ss, k)
      BY <1>2, <3>2 DEF Newer
    <3> DEFINE n == Min(Newer(ob.ss, k))
    <3>4. n \in Newer(ob.ss, k) /\ \A j \in Newer(ob.ss, k) : n <= j
      BY <3>3, MinMember
    <3>5. NextData(ob, k) = ob.disk[n].data
      BY <3>3 DEF NextData
    <3> HIDE DEF n
    <3>6. n \in Clones(ob.ss) /\ n > k /\ n <= m
      BY <3>3, <3>4 DEF Newer
    <3>7. n # c
      BY <1>2, <3>2, <3>6
    <3>8. /\ Newer(r.ss, k) \in SUBSET Nat /\ n \in Newer(r.ss, k)
          /\ \A j \in Newer(r.ss, k) : n <= j
      BY <1>2, <1>3, <3>4, <3>6, <3>7 DEF Newer
    <3>9. Min(Newer(r.ss, k)) = n
      BY <3>8, MinIs
    <3>10. NextData(r, k) = ob.disk[n].data
      BY <1>3, <3>6, <3>7, <3>8, <3>9 DEF NextData
    <3>11. r.ss.clone[k].overlap = ob.ss.clone[k].overlap
      BY <1>3, <2>6
    <3> QED
      BY <2>1, <2>2, <3>5, <3>10, <3>11
  <2> QED
    BY <1>2, <2>1, <2>4, <2>5, <2>6
<1>9. ASSUME NEW s \in LiveOf(p) PROVE Shown(r, s) = Shown(ob, s)
  <2>0. s \in Nat /\ SnapSetOK(p, ob.ss)
    BY <1>1 DEF LiveOf, ObjectOK
  <2>1. CASE ~\E k \in Clones(ob.ss) : k >= s
    BY <1>3, <2>1 DEF Shown, Served
  <2>2. CASE \E k \in Clones(ob.ss) : k >= s
    <3> DEFINE w == WhichClone(ob.ss, s)
    <3>1. w \in Clones(ob.ss) /\ w >= s /\ \A k \in Clones(ob.ss) : k >= s => w <= k
      BY <2>0, <2>2, WhichCloneFacts
    <3>2. WhichClone(ob.ss, s) = w
      OBVIOUS
    <3> HIDE DEF w
    <3>3. CASE w # c
      <4>1. w \in Clones(r.ss) /\ \A k \in Clones(r.ss) : k >= s => w <= k
        BY <1>3, <3>1, <3>3
      <4>2. WhichClone(r.ss, s) = w
        BY <1>5, <3>1, <4>1, WhichCloneIs
      <4>3. r.disk[w] = ob.disk[w] /\ r.ss.clone[w].snaps = ob.ss.clone[w].snaps
        BY <1>3, <3>1, <3>3
      <4>4. Served(r.ss, s) <=> Served(ob.ss, s)
        BY <2>2, <3>1, <3>2, <4>1, <4>2, <4>3 DEF Served
      <4> QED
        BY <3>2, <4>2, <4>3, <4>4 DEF Shown
    <3>4. CASE w = c
      <4>1. ~Served(ob.ss, s)
        BY <3>2, <3>4 DEF Served
      <4>2. ASSUME Served(r.ss, s) PROVE FALSE
        <5> DEFINE v == WhichClone(r.ss, s)
        <5>1. \E k \in Clones(r.ss) : k >= s
          BY <4>2 DEF Served
        <5>2. v \in Clones(r.ss) /\ v >= s
          BY <1>5, <5>1, WhichCloneFacts
        <5>3. s \in r.ss.clone[v].snaps
          BY <4>2 DEF Served
        <5> HIDE DEF v
        <5>4. v \in Clones(ob.ss) /\ v # c /\ s \in ob.ss.clone[v].snaps
          BY <1>3, <5>2, <5>3
        <5>5. c <= v /\ c >= s
          BY <3>1, <3>4, <5>2, <5>4
        <5>6. \A k \in Clones(ob.ss) : k < v => k < s
          BY <1>1, <5>4 DEF SnapsApart
        <5>7. c \in Nat /\ v \in Nat
          BY <1>2, <5>4
        <5>8. c < s
          BY <5>4, <5>5, <5>6, <5>7
        <5> QED
          BY <2>0, <5>5, <5>7, <5>8
      <4> QED
        BY <4>1, <4>2 DEF Shown
    <3> QED
      BY <3>3, <3>4
  <2> QED
    BY <2>1, <2>2
<1>10. FrozenOK(p, r, fr)
  BY <1>1, <1>3, <1>9 DEF FrozenOK
<1> QED
  BY <1>6, <1>7, <1>8, <1>10 DEF GoodObject

(* A clone may lose the snapshots that are not live.                       *)
LEMMA KeptGood ==
  ASSUME NEW p, p.seq \in Nat, NEW ob, NEW fr, GoodObject(p, ob, fr),
         NEW c \in Clones(ob.ss), NEW keep,
         keep \subseteq ob.ss.clone[c].snaps,
         \A s \in ob.ss.clone[c].snaps : s \in LiveOf(p) => s \in keep
  PROVE  LET r == KeepClone(ob, c, keep).ob
         IN  /\ GoodObject(p, r, fr)
             /\ Clones(r.ss) = Clones(ob.ss)
<1> DEFINE r == KeepClone(ob, c, keep).ob
<1>1. ObjectOK(p, ob) /\ OverlapOK(ob) /\ SnapsApart(ob.ss) /\ FrozenOK(p, ob, fr)
  BY DEF GoodObject
<1>2. /\ DOMAIN ob = {"head", "data", "dirty", "ss", "disk"}
      /\ DOMAIN ob.ss = {"seq", "clone"}
      /\ ob.ss.seq \in 0 .. p.seq /\ Clones(ob.ss) \subseteq 1 .. ob.ss.seq
      /\ DOMAIN ob.disk = Clones(ob.ss)
      /\ \A k \in Clones(ob.ss) : ob.disk[k].data \in Seq(Nat)
      /\ \A k \in Clones(ob.ss) : DOMAIN ob.ss.clone[k] = {"snaps", "size", "overlap"}
      /\ ob.data \in Seq(Nat) /\ ob.head \in Heads
      /\ ob.head = "none" => Clones(ob.ss) = {}
  BY <1>1 DEF ObjectOK, SnapSetOK
<1>3. r = [ob EXCEPT !.ss.clone[c].snaps = keep]
  BY DEF KeepClone
<1> HIDE DEF r
<1>4. /\ DOMAIN r = {"head", "data", "dirty", "ss", "disk"}
      /\ r.head = ob.head /\ r.data = ob.data /\ r.disk = ob.disk
      /\ r.ss = [ob.ss EXCEPT !.clone[c].snaps = keep]
  BY <1>2, <1>3
<1>5. /\ DOMAIN r.ss = {"seq", "clone"} /\ r.ss.seq = ob.ss.seq
      /\ r.ss.clone = [ob.ss.clone EXCEPT ![c].snaps = keep]
  BY <1>2, <1>4
<1>6. /\ Clones(r.ss) = Clones(ob.ss)
      /\ \A k \in Clones(ob.ss) :
           r.ss.clone[k] = IF k = c THEN [ob.ss.clone[c] EXCEPT !.snaps = keep]
                           ELSE ob.ss.clone[k]
  BY <1>5 DEF Clones
<1>7. ASSUME NEW k \in Clones(ob.ss)
      PROVE  /\ DOMAIN r.ss.clone[k] = {"snaps", "size", "overlap"}
             /\ r.ss.clone[k].overlap = ob.ss.clone[k].overlap
             /\ r.ss.clone[k].snaps \subseteq ob.ss.clone[k].snaps
             /\ \A s \in LiveOf(p) : s \in ob.ss.clone[k].snaps =>
                                     s \in r.ss.clone[k].snaps
  <2>1. CASE k = c
    BY <1>2, <1>6, <2>1
  <2>2. CASE k # c
    BY <1>2, <1>6, <2>2
  <2> QED
    BY <2>1, <2>2
<1>8. ObjectOK(p, r)
  BY <1>2, <1>4, <1>5, <1>6, <1>7 DEF ObjectOK, SnapSetOK
<1>9. OverlapOK(r)
  <2>1. \A k : Newer(r.ss, k) = Newer(ob.ss, k)
    BY <1>6 DEF Newer
  <2>2. \A k : NextData(r, k) = NextData(ob, k)
    BY <1>4, <2>1 DEF NextData
  <2> QED
    BY <1>1, <1>4, <1>6, <1>7, <2>2 DEF OverlapOK
<1>10. SnapsApart(r.ss)
  BY <1>1, <1>6, <1>7 DEF SnapsApart
<1>11. ASSUME NEW s \in LiveOf(p) PROVE Shown(r, s) = Shown(ob, s)
  <2>1. WhichClone(r.ss, s) = WhichClone(ob.ss, s)
    BY <1>6 DEF WhichClone
  <2>2. CASE ~\E k \in Clones(ob.ss) : k >= s
    BY <1>6, <2>2 DEF Shown, Served
  <2>3. CASE \E k \in Clones(ob.ss) : k >= s
    <3>1. WhichClone(ob.ss, s) \in Clones(ob.ss)
      BY <1>1, <2>3, WhichCloneFacts DEF ObjectOK
    <3>2. s \in r.ss.clone[WhichClone(ob.ss, s)].snaps <=>
            s \in ob.ss.clone[WhichClone(ob.ss, s)].snaps
      BY <1>7, <3>1
    <3>3. Served(r.ss, s) <=> Served(ob.ss, s)
      BY <1>6, <2>1, <3>2 DEF Served
    <3> QED
      BY <1>4, <2>1, <3>3 DEF Shown
  <2> QED
    BY <2>2, <2>3
<1>12. FrozenOK(p, r, fr)
  BY <1>1, <1>5, <1>11 DEF FrozenOK
<1>13. GoodObject(p, r, fr)
  BY <1>8, <1>9, <1>10, <1>12 DEF GoodObject
<1> QED
  BY <1>6, <1>13 DEF r

(* A whiteout without clones may go.                                       *)
LEMMA WhiteoutGood ==
  ASSUME NEW p, NEW t, NEW fr, GoodObject(p, t.ob, fr)
  PROVE  /\ GoodObject(p, RemoveWhiteout(t).ob, fr)
         /\ RemoveWhiteout(t).ob.ss = t.ob.ss
<1> DEFINE r == [t.ob EXCEPT !.head = "none", !.dirty = FALSE]
           u == RemoveWhiteout(t)
<1>1. CASE ~(Clones(t.ob.ss) = {} /\ t.ob.head = "whiteout")
  <2>1. u = t
    BY <1>1, Zenon DEF RemoveWhiteout
  <2> QED
    BY <2>1
<1>2. CASE Clones(t.ob.ss) = {} /\ t.ob.head = "whiteout"
  <2>1. u.ob = r
    BY <1>2 DEF RemoveWhiteout
  <2>2. DOMAIN t.ob = {"head", "data", "dirty", "ss", "disk"}
    BY DEF GoodObject, ObjectOK
  <2>3. /\ DOMAIN r = {"head", "data", "dirty", "ss", "disk"}
        /\ r.head = "none" /\ r.data = t.ob.data /\ r.ss = t.ob.ss
        /\ r.disk = t.ob.disk
    BY <2>2
  <2> HIDE DEF r
  <2>4. ObjectOK(p, r)
    BY <1>2, <2>3 DEF GoodObject, ObjectOK, Heads
  <2>5. OverlapOK(r) /\ SnapsApart(r.ss)
    BY <1>2, <2>3 DEF OverlapOK, SnapsApart
  <2>6. \A s : Shown(r, s) = Shown(t.ob, s)
    BY <2>3 DEF Shown
  <2>7. FrozenOK(p, r, fr)
    BY <2>3, <2>6 DEF GoodObject, FrozenOK
  <2>8. GoodObject(p, r, fr)
    BY <2>4, <2>5, <2>7 DEF GoodObject
  <2> QED
    BY <2>1, <2>3, <2>8
<1> QED
  BY <1>1, <1>2
-----------------------------------------------------------------------------
(* A repop leaves a good state, and keeps the clones it does not trim.     *)
StepOK(p, st, r) ==
  /\ RepopOK(p, r)
  /\ \A oc \in ClonesAt(st) : oc \in ClonesAt(r.after) \/ oc \in r.trims

(* A repop that changes one object into a good one leaves a good state.    *)
LEMMA RepopGood ==
  ASSUME NEW p, NEW st, GoodState(p, st), NEW o \in Object, NEW ob, NEW fr,
         GoodObject(p, ob, Forget(fr, ob)), NEW d, NEW locks, NEW trims,
         \A c \in Clones(st.obs[o].ss) : c \in Clones(ob.ss) \/ <<o, c>> \in trims
  PROVE  /\ StepOK(p, st, Repop(st, o, ob, fr, d, locks, trims))
         /\ Repop(st, o, ob, fr, d, locks, trims).trims = trims
<1> DEFINE r == Repop(st, o, ob, fr, d, locks, trims)
           fn == Forget(fr, ob)
<1>1. /\ DOMAIN r = {"after", "o", "d", "locks", "trims", "passed"}
      /\ r.trims = trims
      /\ r.after.obs = [st.obs EXCEPT ![o] = ob]
      /\ r.after.frozen = [st.frozen EXCEPT ![o] = fn]
  BY DEF Repop
<1> HIDE DEF r, fn
<1>2. DOMAIN st.obs = Object /\ DOMAIN st.frozen = Object
  BY DEF GoodState
<1>3. /\ DOMAIN r.after.obs = Object /\ DOMAIN r.after.frozen = Object
      /\ r.after.obs[o] = ob /\ r.after.frozen[o] = fn
      /\ \A k \in Object : k # o => /\ r.after.obs[k] = st.obs[k]
                                    /\ r.after.frozen[k] = st.frozen[k]
  BY <1>1, <1>2
<1>4. GoodObject(p, ob, fn)
  BY DEF fn
<1>5. ASSUME NEW k \in Object
      PROVE  GoodObject(p, r.after.obs[k], r.after.frozen[k])
  <2>1. CASE k = o
    BY <1>3, <1>4, <2>1
  <2>2. CASE k # o
    BY <1>3, <2>2 DEF GoodState
  <2> QED
    BY <2>1, <2>2
<1>6. RepopOK(p, r)
  BY <1>1, <1>3, <1>5 DEF RepopOK, GoodState
<1>7. ASSUME NEW oc \in ClonesAt(st)
      PROVE  oc \in ClonesAt(r.after) \/ oc \in r.trims
  <2>1. /\ oc \in Object \X Nat /\ oc[2] \in Clones(st.obs[oc[1]].ss)
        /\ oc = <<oc[1], oc[2]>> /\ oc[1] \in Object
    BY DEF ClonesAt
  <2>2. CASE oc[1] = o
    <3>1. oc[2] \in Clones(ob.ss) \/ oc \in trims
      BY <2>1, <2>2
    <3>2. r.after.obs[oc[1]] = ob
      BY <1>3, <2>2
    <3> QED
      BY <1>1, <2>1, <3>1, <3>2 DEF ClonesAt
  <2>3. CASE oc[1] # o
    <3>1. r.after.obs[oc[1]] = st.obs[oc[1]]
      BY <1>3, <2>1, <2>3
    <3> QED
      BY <2>1, <3>1 DEF ClonesAt
  <2> QED
    BY <2>2, <2>3
<1> QED
  BY <1>1, <1>6, <1>7 DEF StepOK, r

(* A trim of a clone that is there, for a snapshot that is removed.        *)
LEMMA TrimGood ==
  ASSUME PoolOK, NEW st, GoodState(pool, st), NEW o \in Object, NEW c,
         <<o, c>> \in ClonesAt(st), NEW s \in pool.removed \cup {0}
  PROVE  /\ StepOK(pool, st, trim_object(st, o, c, s))
         /\ trim_object(st, o, c, s).trims = {<<o, c>>}
<1> DEFINE ob == st.obs[o]
           fr == st.frozen[o]
           keep == SnapsLeft(ob, c, s)
           t == IF keep = {} THEN RemoveClone(ob, c) ELSE KeepClone(ob, c, keep)
           u == RemoveWhiteout(t)
<1>1. pool.seq \in Nat
  BY DEF PoolOK
<1>2. GoodObject(pool, ob, fr) /\ ObjectOK(pool, ob) /\ c \in Clones(ob.ss)
  BY DEF GoodState, GoodObject, ClonesAt
<1>3. keep = ob.ss.clone[c].snaps \ (pool.removed \cup {s})
  BY DEF SnapsLeft
<1>4. \A z \in ob.ss.clone[c].snaps : z \in LiveOf(pool) => z \in keep
  BY <1>3 DEF LiveOf
<1> HIDE DEF ob, fr, keep
<1>5. /\ GoodObject(pool, t.ob, fr)
      /\ \A k \in Clones(ob.ss) : k \in Clones(t.ob.ss) \/ k = c
  <2>1. CASE keep = {}
    <3> DEFINE r == RemoveClone(ob, c).ob
    <3>1. Removed(r, ob, c)
      BY <1>2, RemoveFacts
    <3>2. \A z \in ob.ss.clone[c].snaps : z \notin LiveOf(pool)
      BY <1>4, <2>1
    <3>3. t.ob = r
      BY <2>1
    <3> HIDE DEF r, t
    <3>4. GoodObject(pool, r, fr)
      BY <1>1, <1>2, <3>1, <3>2, RemovedGood
    <3>5. Clones(r.ss) = Clones(ob.ss) \ {c}
      BY <3>1, Zenon DEF Removed
    <3> QED
      BY <3>3, <3>4, <3>5
  <2>2. CASE keep # {}
    <3> DEFINE r == KeepClone(ob, c, keep).ob
    <3>1. keep \subseteq ob.ss.clone[c].snaps
      BY <1>3
    <3>2. GoodObject(pool, r, fr) /\ Clones(r.ss) = Clones(ob.ss)
      BY <1>1, <1>2, <1>4, <3>1, KeptGood
    <3>3. t.ob = r
      BY <2>2
    <3> QED
      BY <3>2, <3>3
  <2> QED
    BY <2>1, <2>2
<1> HIDE DEF t
<1>6. GoodObject(pool, u.ob, fr) /\ u.ob.ss = t.ob.ss
  BY <1>5, WhiteoutGood
<1> HIDE DEF u
<1>7. GoodObject(pool, u.ob, Forget(fr, u.ob))
  BY <1>6, ForgetKeeps
<1>8. \A k \in Clones(ob.ss) : k \in Clones(u.ob.ss) \/ <<o, k>> \in {<<o, c>>}
  BY <1>5, <1>6
<1>9. \A k \in Clones(st.obs[o].ss) : k \in Clones(u.ob.ss) \/ <<o, k>> \in {<<o, c>>}
  BY <1>8 DEF ob
<1> DEFINE r == Repop(st, o, u.ob, fr, u.d, {<<o, c>>, <<o, NoHead>>}, {<<o, c>>})
<1>10. StepOK(pool, st, r) /\ r.trims = {<<o, c>>}
  BY <1>7, <1>9, RepopGood
<1>11. trim_object(st, o, c, s) = r
  BY Zenon DEF trim_object, u, t, keep, fr, ob
<1> QED
  BY <1>10, <1>11

(* A write: the repop is good, trims nothing, and no reader holds the      *)
(* clone that it makes.                                                    *)
LEMMA WriteGood ==
  ASSUME PoolOK, GoodState(pool, Now), ReadersOK, NEW o \in Object,
         NEW ops \in Seq([k : Kinds, a : Nat, b : Nat]),
         NEW snapc \in SnapContext, NEW v \in Nat
  PROVE  LET w == PrepareWrite(o, ops, snapc, v)
         IN  /\ StepOK(pool, Now, w.repop) /\ w.repop.trims = {}
             /\ w.got
<1> DEFINE ob == Now.obs[o]
           fr == Now.frozen[o]
           x == do_osd_ops(ob, snapc, ops, v)
           y == make_writeable(x, ob, snapc)
           cl == Cloned(x, ob, snapc)
           coid == IF cl THEN {<<o, snapc.seq>>} ELSE {}
           fz == FrozenBy(pool, fr, ob, snapc)
           old == Written(y, ob, snapc)
           new == finish_ctx(y, ob, snapc)
           locks == {<<o, NoHead>>} \cup coid
           w == PrepareWrite(o, ops, snapc, v)
<1>1. pool.seq \in Nat /\ pool \in [seq : Nat, removed : SUBSET Nat]
  BY DEF PoolOK
<1>2. GoodObject(pool, ob, fr) /\ ObjectOK(pool, ob) /\ OverlapOK(ob)
  BY DEF GoodState, GoodObject
<1>3. SnapContextOK(pool, snapc)
  BY <1>1 DEF SnapContext, SnapContextOK
<1>4. /\ w.got = (coid \cap readers = {})
      /\ w.repop = Repop(Now, o, new, fz, y.d, locks, {})
  BY DEF PrepareWrite, FrozenBy, LiveOf, Live
<1> HIDE DEF w, ob, fr, x
<1>5. ContextOK(ob, snapc, x)
  BY <1>2, OperationsKeep DEF x
<1>6. /\ GoodObject(pool, old, fz) /\ Clones(ob.ss) \subseteq Clones(old.ss)
      /\ cl => snapc.seq \notin Clones(ob.ss)
  BY <1>1, <1>2, <1>3, <1>5, WrittenGood
<1>7. /\ old.head = y.head /\ new.head = y.head /\ new.data = y.data
      /\ DOMAIN new = {"head", "data", "dirty", "ss", "disk"}
      /\ new.ss = IF y.head = "none" THEN NoSnapSet ELSE y.ss
      /\ new.disk = old.disk /\ old.data = y.data
      /\ y.head # "none" => new = old
  <2> HIDE DEF y
  <2> QED
    BY DEF Written, finish_ctx
<1> HIDE DEF y, cl, fz, old, new, locks
<1>8. ASSUME y.head = "none"
      PROVE  /\ GoodObject(pool, new, Forget(fz, new))
             /\ \A c \in Clones(Now.obs[o].ss) : c \in Clones(new.ss) \/ <<o, c>> \in {}
  <2>1. Clones(old.ss) = {} /\ DOMAIN old.disk = {} /\ old.data \in Seq(Nat)
    BY <1>6, <1>7, <1>8 DEF GoodObject, ObjectOK
  <2>2. GoodObject(pool, new, Forget(fz, new))
    BY <1>1, <1>6, <1>7, <1>8, <2>1, GoneKeeps
  <2>3. \A c \in Clones(ob.ss) : c \in Clones(new.ss) \/ <<o, c>> \in {}
    BY <1>6, <2>1
  <2>4. \A c \in Clones(Now.obs[o].ss) : c \in Clones(new.ss) \/ <<o, c>> \in {}
    BY <2>3 DEF ob
  <2> QED
    BY <2>2, <2>4
<1>9. ASSUME y.head # "none"
      PROVE  /\ GoodObject(pool, new, Forget(fz, new))
             /\ \A c \in Clones(Now.obs[o].ss) : c \in Clones(new.ss) \/ <<o, c>> \in {}
  <2>1. new = old
    BY <1>7, <1>9
  <2>2. GoodObject(pool, new, Forget(fz, new))
    BY <1>6, <2>1, ForgetKeeps
  <2>3. \A c \in Clones(Now.obs[o].ss) : c \in Clones(new.ss) \/ <<o, c>> \in {}
    BY <1>6, <2>1 DEF ob
  <2> QED
    BY <2>2, <2>3
<1> DEFINE r == Repop(Now, o, new, fz, y.d, locks, {})
<1>10. StepOK(pool, Now, r) /\ r.trims = {}
  <2>1. /\ GoodObject(pool, new, Forget(fz, new))
        /\ \A c \in Clones(Now.obs[o].ss) : c \in Clones(new.ss) \/ <<o, c>> \in {}
    BY <1>8, <1>9
  <2> QED
    BY <2>1, RepopGood
<1>11. coid \cap readers = {}
  <2> SUFFICES ASSUME cl, <<o, snapc.seq>> \in readers PROVE FALSE
    OBVIOUS
  <2>1. snapc.seq \in 0 .. pool.seq /\ snapc.snaps = 1 .. snapc.seq \ pool.removed
    BY <1>3 DEF SnapContextOK
  <2>2. \E s \in snapc.snaps : TRUE
    BY DEF cl, Cloned
  <2>3. snapc.seq # NoHead
    BY <2>1, <2>2 DEF NoHead
  <2>4. <<o, snapc.seq>> \in ClonesAt(Now)
    BY <2>3 DEF ReadersOK
  <2>5. snapc.seq \in Clones(ob.ss)
    BY <2>4 DEF ClonesAt, ob
  <2> QED
    BY <1>6, <2>5
<1> QED
  BY <1>4, <1>10, <1>11 DEF w

(* The contexts of objects that are gone are dropped.                      *)
LEMMA UncachedGood ==
  ASSUME NEW p, p.seq \in Nat, NEW st, GoodState(p, st)
  PROVE  /\ GoodState(p, Uncached(st))
         /\ ClonesAt(st) \subseteq ClonesAt(Uncached(st))
<1> DEFINE u == Uncached(st)
<1>1. /\ DOMAIN u.obs = Object /\ DOMAIN u.frozen = Object
      /\ \A o \in Object :
           /\ u.obs[o] = IF st.obs[o].head = "none" THEN NoObject ELSE st.obs[o]
           /\ u.frozen[o] = IF st.obs[o].head = "none"
                            THEN Forget(st.frozen[o], NoObject)
                            ELSE st.frozen[o]
  BY DEF Uncached
<1> HIDE DEF u
<1>2. /\ DOMAIN NoObject = {"head", "data", "dirty", "ss", "disk"}
      /\ NoObject.head = "none" /\ NoObject.data \in Seq(Nat)
      /\ NoObject.ss = NoSnapSet /\ DOMAIN NoObject.disk = {}
  BY DEF NoObject
<1>3. ASSUME NEW o \in Object
      PROVE  /\ GoodObject(p, u.obs[o], u.frozen[o])
             /\ Clones(st.obs[o].ss) \subseteq Clones(u.obs[o].ss)
  <2>1. GoodObject(p, st.obs[o], st.frozen[o])
    BY DEF GoodState
  <2>2. CASE st.obs[o].head = "none"
    <3>1. GoodObject(p, NoObject, Forget(st.frozen[o], NoObject))
      BY <1>2, <2>1, <2>2, GoneKeeps
    <3>2. Clones(st.obs[o].ss) = {}
      BY <2>1, <2>2 DEF GoodObject, ObjectOK
    <3> QED
      BY <1>1, <2>2, <3>1, <3>2
  <2>3. CASE st.obs[o].head # "none"
    BY <1>1, <2>1, <2>3
  <2> QED
    BY <2>2, <2>3
<1>4. GoodState(p, u)
  BY <1>1, <1>3 DEF GoodState
<1>5. ClonesAt(st) \subseteq ClonesAt(u)
  BY <1>3 DEF ClonesAt
<1> QED
  BY <1>4, <1>5 DEF u
-----------------------------------------------------------------------------
(* Sequences of repops: one more, one less, one that is passed on.         *)
LEMMA AppendFacts ==
  ASSUME NEW S, NEW q \in Seq(S), NEW r
  PROVE  /\ \E V : Append(q, r) \in Seq(V)
         /\ Len(q) \in Nat
         /\ Len(Append(q, r)) = Len(q) + 1
         /\ \A i \in 1 .. Len(q) : Append(q, r)[i] = q[i]
         /\ Append(q, r)[Len(q) + 1] = r
<1> DEFINE V == S \cup {r}
<1>1. q \in Seq(V) /\ r \in V
  BY SeqMonotonic
<1> HIDE DEF V
<1> QED
  BY <1>1, AppendProperties

(* Nothing is in flight.                                                   *)
LEMMA EmptyFlight ==
  ASSUME NEW p, NEW d, GoodState(p, d)
  PROVE  FlightOK(p, d, <<>>)
<1>1. Len(<<>>) = 0 /\ <<>> \in Seq({})
  OBVIOUS
<1>2. \A i \in 1 .. 0 : FALSE
  OBVIOUS
<1>3. Kept(d, <<>>)
  <2>1. \A i, j \in 0 .. 0 : i = j
    OBVIOUS
  <2> QED
    BY <1>1, <2>1 DEF Kept
<1> QED
  BY <1>1, <1>2, <1>3 DEF FlightOK, TrimsApart

(* The state after the last repop is a good one.                           *)
LEMMA LastGood ==
  ASSUME NEW p, NEW d, NEW q, FlightOK(p, d, q)
  PROVE  /\ Len(q) \in Nat
         /\ \A i \in 0 .. Len(q) : GoodState(p, Stage(d, q, i))
<1>1. Len(q) \in Nat
  <2>1. PICK S : q \in Seq(S)
    BY DEF FlightOK
  <2> QED
    BY <2>1
<1>2. ASSUME NEW i \in 0 .. Len(q) PROVE GoodState(p, Stage(d, q, i))
  <2>1. CASE i = 0
    BY <2>1 DEF FlightOK, Stage
  <2>2. CASE i # 0
    <3>1. i \in 1 .. Len(q)
      BY <1>1, <2>2
    <3> QED
      BY <2>2, <3>1 DEF FlightOK, Stage, RepopOK
  <2> QED
    BY <2>1, <2>2
<1> QED
  BY <1>1, <1>2

(* What the object contexts hold is the last stage.                        *)
LEMMA AfterIsStage ==
  ASSUME NEW q, \E S : q \in Seq(S)
  PROVE  After(q) = Stage(durable, q, Len(q))
<1>1. PICK S : q \in Seq(S)
  OBVIOUS
<1>2. q = <<>> <=> Len(q) = 0
  BY <1>1
<1> QED
  BY <1>1, <1>2 DEF After, Stage, Last

(* A good step at the end, of what no repop in flight trims.               *)
Grown(p, d, q, r, a) ==
  /\ FlightOK(p, d, a) /\ Len(a) = Len(q) + 1
  /\ \A i \in 1 .. Len(q) : a[i] = q[i]
  /\ a[Len(q) + 1] = r

(* One more repop on the last stage.                                       *)
LEMMA FlightGrows ==
  ASSUME NEW p, NEW d, NEW q, FlightOK(p, d, q), NEW r,
         StepOK(p, Stage(d, q, Len(q)), r),
         \A i \in 1 .. Len(q) : q[i].trims \cap r.trims = {}
  PROVE  Grown(p, d, q, r, Append(q, r))
<1>1. PICK S : q \in Seq(S)
  BY DEF FlightOK
<1>1a. /\ \E V : Append(q, r) \in Seq(V)
       /\ Len(q) \in Nat
       /\ Len(Append(q, r)) = Len(q) + 1
       /\ \A i \in 1 .. Len(q) : Append(q, r)[i] = q[i]
       /\ Append(q, r)[Len(q) + 1] = r
  BY <1>1, AppendFacts, Zenon
<1> DEFINE a == Append(q, r)
           n == Len(q)
<1>2. /\ \E V : a \in Seq(V)
      /\ n \in Nat /\ Len(a) = n + 1
      /\ \A i \in 1 .. n : a[i] = q[i]
      /\ a[n + 1] = r
  BY <1>1a
<1> HIDE DEF a, n
<1>3. \A i \in 1 .. n + 1 : i \in 1 .. n \/ i = n + 1
  BY <1>2
<1>4. \A i \in 1 .. n + 1 : RepopOK(p, a[i])
  BY <1>2, <1>3 DEF FlightOK, StepOK, n
<1>5. /\ \A i \in 0 .. n : Stage(d, a, i) = Stage(d, q, i)
      /\ Stage(d, a, n + 1) = r.after
  <2>1. \A i \in 0 .. n : i # 0 => i \in 1 .. n
    BY <1>2
  <2>2. n + 1 # 0
    BY <1>2
  <2> QED
    BY <1>2, <2>1, <2>2 DEF Stage
<1>6. Kept(d, a)
  <2> SUFFICES ASSUME NEW i \in 0 .. n + 1, NEW j \in 0 .. n + 1, i <= j,
                      NEW oc \in ClonesAt(Stage(d, a, i)),
                      oc \notin ClonesAt(Stage(d, a, j))
               PROVE  \E k \in i + 1 .. j : oc \in a[k].trims
    BY <1>2 DEF Kept
  <2>1. CASE j # n + 1
    <3>1. i \in 0 .. n /\ j \in 0 .. n
      BY <1>2, <2>1
    <3>2. \E k \in i + 1 .. j : oc \in q[k].trims
      BY <1>5, <3>1 DEF FlightOK, Kept, n
    <3>3. \A k \in i + 1 .. j : k \in 1 .. n
      BY <1>2, <3>1
    <3> QED
      BY <1>2, <3>2, <3>3
  <2>2. CASE j = n + 1 /\ i # n + 1
    <3>1. i \in 0 .. n /\ n \in 0 .. n /\ i <= n
      BY <1>2, <2>2
    <3>2. CASE oc \in ClonesAt(Stage(d, q, n))
      <4>1. oc \in r.trims
        BY <1>5, <2>2, <3>2 DEF StepOK, n
      <4>2. n + 1 \in i + 1 .. j
        BY <1>2, <2>2, <3>1
      <4> QED
        BY <1>2, <4>1, <4>2
    <3>3. CASE oc \notin ClonesAt(Stage(d, q, n))
      <4>1. \E k \in i + 1 .. n : oc \in q[k].trims
        BY <1>5, <3>1, <3>3 DEF FlightOK, Kept, n
      <4>2. \A k \in i + 1 .. n : k \in 1 .. n /\ k \in i + 1 .. j
        BY <1>2, <2>2, <3>1
      <4> QED
        BY <1>2, <4>1, <4>2
    <3> QED
      BY <3>2, <3>3
  <2>3. CASE j = n + 1 /\ i = n + 1
    BY <2>3
  <2> QED
    BY <2>1, <2>2, <2>3
<1>7. TrimsApart(a)
  <2> SUFFICES ASSUME NEW i \in 1 .. n + 1, NEW j \in 1 .. n + 1, i # j
               PROVE  a[i].trims \cap a[j].trims = {}
    BY <1>2 DEF TrimsApart
  <2>1. CASE i \in 1 .. n /\ j \in 1 .. n
    BY <1>2, <2>1 DEF FlightOK, TrimsApart, n
  <2>2. CASE i = n + 1 /\ j \in 1 .. n
    BY <1>2, <2>2 DEF n
  <2>3. CASE i \in 1 .. n /\ j = n + 1
    BY <1>2, <2>3 DEF n
  <2> QED
    BY <1>3, <2>1, <2>2, <2>3
<1>8. FlightOK(p, d, a)
  BY <1>2, <1>4, <1>6, <1>7 DEF FlightOK
<1> QED
  BY <1>2, <1>8 DEF a, n, Grown

(* The first repop is committed.                                           *)
LEMMA FlightCommits ==
  ASSUME NEW p, NEW d, NEW q, FlightOK(p, d, q), q # <<>>,
         NEW e, e.obs = q[1].after.obs, e.frozen = q[1].after.frozen
  PROVE  /\ FlightOK(p, e, Tail(q))
         /\ Len(q) \in Nat \ {0} /\ Len(Tail(q)) = Len(q) - 1
         /\ \A i \in 1 .. Len(q) - 1 : Tail(q)[i] = q[i + 1]
         /\ ClonesAt(Stage(e, Tail(q), Len(Tail(q)))) = ClonesAt(Stage(d, q, Len(q)))
<1> DEFINE t == Tail(q)
           n == Len(q)
<1>1. PICK S : q \in Seq(S)
  BY DEF FlightOK
<1>2. /\ n \in Nat \ {0} /\ t \in Seq(S) /\ Len(t) = n - 1
      /\ \A i \in 1 .. n - 1 : t[i] = q[i + 1]
  BY <1>1
<1> HIDE DEF t, n
<1>3. \A i \in 1 .. n - 1 : i + 1 \in 1 .. n
  BY <1>2
<1>4. \A i \in 1 .. n - 1 : RepopOK(p, t[i])
  BY <1>2, <1>3 DEF FlightOK, n
<1>5. \A i \in 0 .. n - 1 :
        /\ Stage(e, t, i).obs = Stage(d, q, i + 1).obs
        /\ i + 1 \in 0 .. n
  <2> SUFFICES ASSUME NEW i \in 0 .. n - 1
               PROVE  /\ Stage(e, t, i).obs = Stage(d, q, i + 1).obs
                      /\ i + 1 \in 0 .. n
    OBVIOUS
  <2>1. i + 1 # 0 /\ i + 1 \in 0 .. n
    BY <1>2
  <2>2. CASE i = 0
    BY <2>1, <2>2 DEF Stage
  <2>3. CASE i # 0
    <3>1. i \in 1 .. n - 1
      BY <1>2, <2>3
    <3> QED
      BY <1>2, <2>1, <2>3, <3>1 DEF Stage
  <2> QED
    BY <2>1, <2>2, <2>3
<1>6. \A i \in 0 .. n - 1 : ClonesAt(Stage(e, t, i)) = ClonesAt(Stage(d, q, i + 1))
  BY <1>5 DEF ClonesAt
<1>7. Kept(e, t)
  <2> SUFFICES ASSUME NEW i \in 0 .. n - 1, NEW j \in 0 .. n - 1, i <= j,
                      NEW oc \in ClonesAt(Stage(e, t, i)),
                      oc \notin ClonesAt(Stage(e, t, j))
               PROVE  \E k \in i + 1 .. j : oc \in t[k].trims
    BY <1>2 DEF Kept
  <2>1. /\ oc \in ClonesAt(Stage(d, q, i + 1))
        /\ oc \notin ClonesAt(Stage(d, q, j + 1))
    BY <1>6
  <2>2. i + 1 \in 0 .. n /\ j + 1 \in 0 .. n /\ i + 1 <= j + 1
    BY <1>2
  <2>3. PICK k \in (i + 1) + 1 .. j + 1 : oc \in q[k].trims
    BY <2>1, <2>2 DEF FlightOK, Kept, n
  <2>4. k - 1 \in i + 1 .. j /\ k - 1 \in 1 .. n - 1 /\ (k - 1) + 1 = k
    BY <1>2
  <2> QED
    BY <1>2, <2>3, <2>4
<1>8. TrimsApart(t)
  <2> SUFFICES ASSUME NEW i \in 1 .. n - 1, NEW j \in 1 .. n - 1, i # j
               PROVE  t[i].trims \cap t[j].trims = {}
    BY <1>2 DEF TrimsApart
  <2>1. i + 1 \in 1 .. n /\ j + 1 \in 1 .. n /\ i + 1 # j + 1
    BY <1>2
  <2> QED
    BY <1>2, <2>1 DEF FlightOK, TrimsApart, n
<1>9. GoodState(p, e)
  <2>1. 1 \in 1 .. n
    BY <1>2
  <2> QED
    BY <2>1 DEF FlightOK, RepopOK, GoodState, n
<1>10. FlightOK(p, e, t)
  BY <1>2, <1>4, <1>7, <1>8, <1>9 DEF FlightOK
<1>11. n - 1 \in 0 .. n - 1 /\ (n - 1) + 1 = n
  BY <1>2
<1> QED
  BY <1>2, <1>6, <1>10, <1>11 DEF t, n

(* What a repop leaves when it is passed on: the flight becomes a.         *)
SameStages(p, d, q, a) ==
  /\ FlightOK(p, d, a) /\ Len(a) = Len(q)
  /\ \A j \in 1 .. Len(q) : a[j].trims = q[j].trims
  /\ Stage(d, a, Len(a)) = Stage(d, q, Len(q))

(* A repop is passed on.                                                   *)
LEMMA FlightPasses ==
  ASSUME NEW p, NEW d, NEW q, FlightOK(p, d, q), NEW i
  PROVE  SameStages(p, d, q, [q EXCEPT ![i].passed = TRUE])
<1> DEFINE a == [q EXCEPT ![i].passed = TRUE]
           n == Len(q)
           r == [q[i] EXCEPT !.passed = TRUE]
<1>1. PICK S : q \in Seq(S)
  BY DEF FlightOK
<1>2. /\ n \in Nat /\ DOMAIN q = 1 .. n
      /\ q \in Seq(S \cup {r}) /\ r \in S \cup {r}
  <2>1. q \in Seq(S \cup {r})
    BY <1>1, SeqMonotonic
  <2> QED
    BY <1>1, <2>1
<1>3. /\ a \in Seq(S \cup {r}) /\ Len(a) = n
      /\ \A j \in 1 .. n : a[j] = IF j = i THEN r ELSE q[j]
  <2>1. a = [q EXCEPT ![i] = r]
    OBVIOUS
  <2> HIDE DEF a, r
  <2>2. CASE i \in 1 .. n
    BY <1>2, <2>1, <2>2, ExceptSeq
  <2>3. CASE i \notin 1 .. n
    <3>1. a = [j \in 1 .. n |-> IF j = i THEN r ELSE q[j]]
      BY <1>2, <2>1
    <3>2. a = [j \in 1 .. n |-> q[j]]
      BY <2>3, <3>1
    <3>3. q = [j \in 1 .. n |-> q[j]]
      BY <1>2
    <3>4. a = q
      BY <3>2, <3>3
    <3> QED
      BY <1>2, <2>3, <3>4
  <2> QED
    BY <2>2, <2>3
<1> HIDE DEF a, r, n
<1>4. \A j \in 1 .. n : RepopOK(p, a[j]) /\ a[j].trims = q[j].trims /\ a[j].after = q[j].after
  <2> SUFFICES ASSUME NEW j \in 1 .. n
               PROVE  RepopOK(p, a[j]) /\ a[j].trims = q[j].trims /\ a[j].after = q[j].after
    OBVIOUS
  <2>1. RepopOK(p, q[j])
    BY DEF FlightOK, n
  <2>2. CASE j # i
    BY <1>3, <2>1, <2>2
  <2>3. CASE j = i
    <3>1. a[j] = r
      BY <1>3, <2>3
    <3>2. DOMAIN q[i] = {"after", "o", "d", "locks", "trims", "passed"}
      BY <2>1, <2>3 DEF RepopOK
    <3>3. /\ DOMAIN r = {"after", "o", "d", "locks", "trims", "passed"}
          /\ r.after = q[i].after /\ r.trims = q[i].trims
      BY <3>2 DEF r
    <3> QED
      BY <2>1, <2>3, <3>1, <3>3 DEF RepopOK
  <2> QED
    BY <2>2, <2>3
<1>5. \A j \in 0 .. n : Stage(d, a, j) = Stage(d, q, j)
  <2> SUFFICES ASSUME NEW j \in 0 .. n PROVE Stage(d, a, j) = Stage(d, q, j)
    OBVIOUS
  <2>1. j = 0 \/ j \in 1 .. n
    BY <1>2
  <2> QED
    BY <1>4, <2>1 DEF Stage
<1>6. Kept(d, a)
  <2> SUFFICES ASSUME NEW k \in 0 .. n, NEW j \in 0 .. n, k <= j,
                      NEW oc \in ClonesAt(Stage(d, a, k)),
                      oc \notin ClonesAt(Stage(d, a, j))
               PROVE  \E l \in k + 1 .. j : oc \in a[l].trims
    BY <1>3 DEF Kept
  <2>1. \E l \in k + 1 .. j : oc \in q[l].trims
    BY <1>5 DEF FlightOK, Kept, n
  <2>2. \A l \in k + 1 .. j : l \in 1 .. n
    BY <1>2
  <2> QED
    BY <1>4, <2>1, <2>2
<1>7. TrimsApart(a)
  BY <1>3, <1>4 DEF FlightOK, TrimsApart, n
<1>8. FlightOK(p, d, a)
  BY <1>3, <1>4, <1>6, <1>7 DEF FlightOK
<1>9. n \in 0 .. n
  BY <1>2
<1>10. SameStages(p, d, q, a)
  BY <1>3, <1>4, <1>5, <1>8, <1>9 DEF SameStages, n
<1> QED
  BY <1>10, Zenon DEF a

(* The pool changes: snapshots are taken or removed.                       *)
LEMMA FlightInPool ==
  ASSUME NEW p, NEW q, p.seq \in Nat, q.seq \in Nat, p.seq <= q.seq,
         p.removed \subseteq q.removed, NEW d, NEW f, FlightOK(p, d, f)
  PROVE  FlightOK(q, d, f)
<1>1. \A st : GoodState(p, st) => GoodState(q, st)
  BY PoolGrows DEF GoodState
<1> QED
  BY <1>1 DEF FlightOK, RepopOK
-----------------------------------------------------------------------------
(* One trim after another.                                                 *)
TrimStep(q, todo, k) ==
  Append(q, trim_object(After(flight \o q), todo[k][1], todo[k][2],
                        trimmer.snap))

IsTrims(e, m, todo) ==
  e = [n \in 0 .. m |-> IF n = 0 THEN <<>> ELSE TrimStep(e[n - 1], todo, n)]

(* There is such a function for every number of trims.                     *)
LEMMA TrimsExist ==
  ASSUME NEW todo
  PROVE  \A m \in Nat : \E e : IsTrims(e, m, todo)
<1> DEFINE St(q, n) == TrimStep(q, todo, n)
           C == <<>>
           G(e, m) == e = [n \in 0 .. m |-> IF n = 0 THEN C
                                            ELSE St(e[n - 1], n)]
           B == {m \in Nat : \E e : G(e, m)}
<1>0. \A e, m : G(e, m) <=> IsTrims(e, m, todo)
  BY Zenon DEF IsTrims
<1> HIDE DEF St, C
<1>1. 0 \in B
  <2> DEFINE e0 == [n \in 0 .. 0 |-> C]
  <2>1. G(e0, 0)
    <3>1. \A n \in 0 .. 0 : n = 0
      OBVIOUS
    <3> QED
      BY <3>1
  <2> QED
    BY <2>1
<1>2. \A m \in Nat : m \in B => m + 1 \in B
  <2> SUFFICES ASSUME NEW m \in Nat, NEW d, G(d, m) PROVE \E e : G(e, m + 1)
    OBVIOUS
  <2> DEFINE e1 == [n \in 0 .. m + 1 |-> IF n = m + 1
                                         THEN (IF m + 1 = 0 THEN C ELSE St(d[m], m + 1))
                                         ELSE d[n]]
  <2>1. \A n \in 0 .. m + 1 :
           e1[n] = IF n = 0 THEN C ELSE St(e1[n - 1], n)
    <3> SUFFICES ASSUME NEW n \in 0 .. m + 1
                 PROVE  e1[n] = IF n = 0 THEN C ELSE St(e1[n - 1], n)
      OBVIOUS
    <3>1. CASE n = m + 1
      <4>1. CASE n = 0
        BY <3>1, <4>1
      <4>2. CASE n # 0
        <5>1. n - 1 = m /\ m \in 0 .. m + 1 /\ m # m + 1
          BY <3>1, <4>2
        <5>2. e1[n - 1] = d[m]
          BY <5>1
        <5>3. e1[n] = St(d[m], m + 1)
          BY <3>1, <4>2
        <5> HIDE DEF e1
        <5> QED
          BY <3>1, <4>2, <5>2, <5>3
      <4> QED
        BY <4>1, <4>2
    <3>2. CASE n # m + 1
      <4>1. n \in 0 .. m
        BY <3>2
      <4>2. e1[n] = d[n]
        BY <3>2
      <4>3. d[n] = IF n = 0 THEN C ELSE St(d[n - 1], n)
        BY <4>1
      <4>4. CASE n = 0
        BY <4>2, <4>3, <4>4
      <4>5. CASE n # 0
        <5>1. n - 1 \in 0 .. m + 1 /\ n - 1 # m + 1
          BY <4>1, <4>5
        <5>2. e1[n - 1] = d[n - 1]
          BY <5>1
        <5> QED
          BY <4>2, <4>3, <4>5, <5>2
      <4> QED
        BY <4>4, <4>5
    <3> QED
      BY <3>1, <3>2
  <2>2. G(e1, m + 1)
    <3>1. e1 = [n \in 0 .. m + 1 |-> e1[n]]
      OBVIOUS
    <3> HIDE DEF e1
    <3> QED
      BY <2>1, <3>1
  <2> QED
    BY <2>2
<1> HIDE DEF B
<1>3. Nat \subseteq B
  BY <1>1, <1>2, SetInduction
<1> QED
  <2> SUFFICES ASSUME NEW m \in Nat PROVE \E e : IsTrims(e, m, todo)
    OBVIOUS
  <2>1. \E e : G(e, m)
    BY <1>3 DEF B
  <2> HIDE DEF G
  <2> QED
    BY <1>0, <2>1

(* TrimFirst is the last of the sequences that the trims go through.       *)
LEMMA TrimsUnfold ==
  ASSUME NEW todo, NEW m \in Nat
  PROVE  \E e : /\ e[0] = <<>>
                /\ \A n \in 1 .. m : e[n] = TrimStep(e[n - 1], todo, n)
                /\ TrimFirst(m, todo) = e[m]
<1> DEFINE G(e) == e = [k \in 0 .. m |->
                          IF k = 0 THEN <<>>
                          ELSE Append(e[k - 1],
                                      trim_object(After(flight \o e[k - 1]),
                                                  todo[k][1], todo[k][2],
                                                  trimmer.snap))]
<1>1. \E e : G(e)
  <2>1. PICK e : IsTrims(e, m, todo)
    BY TrimsExist
  <2>2. G(e)
    BY <2>1, Zenon DEF IsTrims, TrimStep
  <2> HIDE DEF G
  <2> QED
    BY <2>2
<1> DEFINE e == CHOOSE e : G(e)
<1>2. G(e)
  <2> HIDE DEF G
  <2> QED
    BY <1>1
<1>3. TrimFirst(m, todo) = e[m]
  BY Zenon DEF TrimFirst
<1> HIDE DEF e
<1>4. IsTrims(e, m, todo)
  BY <1>2, Zenon DEF IsTrims, TrimStep
<1>5. e[0] = <<>>
  BY <1>4 DEF IsTrims
<1>6. \A n \in 1 .. m : e[n] = TrimStep(e[n - 1], todo, n)
  BY <1>4 DEF IsTrims
<1> QED
  BY <1>3, <1>5, <1>6

(* What is there when the trims t of the first k of todo follow what is in *)
(* flight, which trims nothing.                                            *)
TrimsOK(t, k, todo) ==
  LET q == flight \o t
      m == Len(flight)
  IN  /\ \E S : t \in Seq(S)
      /\ FlightOK(pool, durable, q) /\ Len(q) = m + k
      /\ \A i \in 1 .. m : q[i].trims = {}
      /\ \A i \in m + 1 .. m + k : q[i].trims = {todo[i - m]}
      /\ \A oc \in ClonesAt(Now) : \/ oc \in ClonesAt(After(q))
                                   \/ \E j \in 1 .. k : oc = todo[j]

(* The trims of clones that are there and distinct.                        *)
LEMMA TrimsGood ==
  ASSUME PoolOK, FlightOK(pool, durable, flight), trimmer.snap \in pool.removed \cup {0},
         \A i \in 1 .. Len(flight) : flight[i].trims = {},
         NEW todo, NEW m \in Nat,
         \A j \in 1 .. m : todo[j] \in ClonesAt(Now),
         \A j, k \in 1 .. m : j # k => todo[j] # todo[k]
  PROVE  TrimsOK(TrimFirst(m, todo), m, todo)
<1>1. PICK e : /\ e[0] = <<>>
               /\ \A n \in 1 .. m : e[n] = TrimStep(e[n - 1], todo, n)
               /\ TrimFirst(m, todo) = e[m]
  BY TrimsUnfold
<1>2. PICK F : flight \in Seq(F)
  BY DEF FlightOK
<1> DEFINE B == {k \in Nat : k <= m => TrimsOK(e[k], k, todo)}
<1>3. 0 \in B
  <2>1. flight \o <<>> = flight /\ Len(flight) \in Nat /\ <<>> \in Seq({})
    BY <1>2
  <2>2. \A i \in Len(flight) + 1 .. Len(flight) + 0 : FALSE
    BY <2>1
  <2>3. After(flight) = Now
    BY DEF Now
  <2>4. TrimsOK(<<>>, 0, todo)
    BY <2>1, <2>2, <2>3 DEF TrimsOK
  <2> QED
    BY <1>1, <2>4
<1>4. \A k \in Nat : k \in B => k + 1 \in B
  <2> SUFFICES ASSUME NEW k \in Nat, k \in B, k + 1 <= m
               PROVE  TrimsOK(e[k + 1], k + 1, todo)
    OBVIOUS
  <2> DEFINE t == e[k]
             q == flight \o t
             n == Len(flight)
             oc == todo[k + 1]
             r == trim_object(After(q), oc[1], oc[2], trimmer.snap)
  <2>1. k + 1 \in 1 .. m /\ (k + 1) - 1 = k /\ n \in Nat
    BY <1>2
  <2>2. TrimsOK(t, k, todo)
    BY <2>1
  <2>3. PICK S : t \in Seq(S)
    BY <2>2 DEF TrimsOK
  <2>4. e[k + 1] = Append(t, r)
    BY <1>1, <2>1 DEF TrimStep
  <2>5. /\ flight \o Append(t, r) = Append(q, r)
        /\ \E V : Append(t, r) \in Seq(V)
        /\ \E V : q \in Seq(V)
    <3> DEFINE W == F \cup S \cup {r}
    <3> HIDE DEF r, t
    <3>1. flight \in Seq(W) /\ t \in Seq(W) /\ r \in W
      BY <1>2, <2>3, SeqMonotonic
    <3> HIDE DEF W
    <3>2. <<r>> \in Seq(W) /\ Append(t, r) = t \o <<r>> /\ Append(t, r) \in Seq(W)
      BY <3>1, AppendIsConcat, AppendProperties
    <3>3. flight \o (t \o <<r>>) = (flight \o t) \o <<r>>
      BY <3>1, <3>2, ConcatAssociative
    <3>4. flight \o t \in Seq(W)
      BY <3>1, ConcatProperties
    <3>5. Append(flight \o t, r) = (flight \o t) \o <<r>>
      BY <3>1, <3>4, AppendIsConcat
    <3> QED
      BY <3>2, <3>3, <3>4, <3>5
  <2>6. /\ FlightOK(pool, durable, q) /\ Len(q) = n + k
        /\ \A i \in 1 .. n : q[i].trims = {}
        /\ \A i \in n + 1 .. n + k : q[i].trims = {todo[i - n]}
        /\ \A pd \in ClonesAt(Now) : \/ pd \in ClonesAt(After(q))
                                     \/ \E j \in 1 .. k : pd = todo[j]
    BY <2>2, Zenon DEF TrimsOK
  <2> DEFINE st == Stage(durable, q, Len(q))
  <2>7. After(q) = st
    BY <2>5, AfterIsStage
  <2>8. GoodState(pool, st)
    <3>1. Len(q) \in Nat /\ \A i \in 0 .. Len(q) : GoodState(pool, Stage(durable, q, i))
      BY <2>6, LastGood
    <3> QED
      BY <3>1
  <2>9. oc \in ClonesAt(st)
    <3>1. oc \in ClonesAt(Now) /\ \A j \in 1 .. k : oc # todo[j]
      <4>1. \A j \in 1 .. k : j \in 1 .. m /\ j # k + 1
        BY <2>1
      <4> QED
        BY <2>1, <4>1
    <3> QED
      BY <2>6, <2>7, <3>1
  <2>10. oc = <<oc[1], oc[2]>> /\ oc[1] \in Object
    BY <2>9 DEF ClonesAt
  <2>11. StepOK(pool, st, r) /\ r.trims = {oc}
    <3> HIDE DEF st, q, oc
    <3>1. <<oc[1], oc[2]>> \in ClonesAt(st)
      BY <2>9, <2>10
    <3>2. /\ StepOK(pool, st, trim_object(st, oc[1], oc[2], trimmer.snap))
          /\ trim_object(st, oc[1], oc[2], trimmer.snap).trims = {<<oc[1], oc[2]>>}
      BY <2>8, <2>10, <3>1, TrimGood
    <3> QED
      BY <2>7, <2>10, <3>2
  <2> HIDE DEF r, q, t
  <2>12. \A i \in 1 .. Len(q) : q[i].trims \cap r.trims = {}
    <3> SUFFICES ASSUME NEW i \in 1 .. n + k PROVE q[i].trims \cap {oc} = {}
      BY <2>6, <2>11
    <3>1. CASE i \in 1 .. n
      BY <2>6, <3>1
    <3>2. CASE i \in n + 1 .. n + k
      <4>1. i - n \in 1 .. m /\ i - n # k + 1
        BY <2>1, <3>2
      <4>2. todo[i - n] # oc
        BY <2>1, <4>1
      <4> QED
        BY <2>6, <3>2, <4>2
    <3> QED
      BY <2>1, <3>1, <3>2
  <2>12a. Grown(pool, durable, q, r, Append(q, r))
    BY <2>6, <2>11, <2>12, FlightGrows
  <2> DEFINE a == Append(q, r)
  <2>13. /\ FlightOK(pool, durable, a)
         /\ Len(a) = Len(q) + 1
         /\ \A i \in 1 .. Len(q) : a[i] = q[i]
         /\ a[Len(q) + 1] = r
    BY <2>12a DEF Grown
  <2> HIDE DEF a, oc, n
  <2>14. Len(a) = n + (k + 1) /\ n \in Nat /\ Len(q) = n + k
    BY <2>1, <2>6, <2>13
  <2>15. \A i \in 1 .. n : a[i].trims = {}
    <3>1. \A i \in 1 .. n : i \in 1 .. Len(q)
      BY <2>14
    <3> QED
      BY <2>6, <2>13, <3>1
  <2>16. ASSUME NEW i \in n + 1 .. n + (k + 1) PROVE a[i].trims = {todo[i - n]}
    <3>1. CASE i = n + (k + 1)
      <4>1. i - n = k + 1 /\ i = Len(q) + 1
        BY <2>14, <3>1
      <4> QED
        BY <2>11, <2>13, <4>1 DEF oc
    <3>2. CASE i # n + (k + 1)
      <4>1. i \in n + 1 .. n + k /\ i \in 1 .. Len(q)
        BY <2>14, <3>2
      <4> QED
        BY <2>6, <2>13, <4>1
    <3> QED
      BY <3>1, <3>2
  <2>17. After(a) = r.after
    <3>1. After(a) = Stage(durable, a, Len(a))
      <4>1. \E V : a \in Seq(V)
        BY <2>13 DEF FlightOK
      <4> QED
        BY <4>1, AfterIsStage
    <3>2. Len(a) = Len(q) + 1 /\ Len(a) # 0
      BY <2>13, <2>14
    <3> QED
      BY <2>13, <3>1, <3>2 DEF Stage
  <2>18. ASSUME NEW pd \in ClonesAt(Now), pd \notin ClonesAt(After(a))
         PROVE  \E j \in 1 .. k + 1 : pd = todo[j]
    <3>1. CASE \E j \in 1 .. k : pd = todo[j]
      BY <3>1
    <3>2. CASE pd \in ClonesAt(st)
      <4>1. pd = oc
        BY <2>11, <2>17, <2>18, <3>2 DEF StepOK
      <4> QED
        BY <4>1 DEF oc
    <3> QED
      BY <2>6, <2>7, <2>18, <3>1, <3>2
  <2>19. flight \o e[k + 1] = a /\ \E V : e[k + 1] \in Seq(V)
    BY <2>4, <2>5 DEF a
  <2> QED
    BY <2>13, <2>14, <2>15, <2>16, <2>18, <2>19 DEF TrimsOK, n
<1> HIDE DEF B
<1>5. Nat \subseteq B
  BY <1>3, <1>4, SetInduction
<1>6. m \in B
  BY <1>5
<1> QED
  BY <1>1, <1>6 DEF B
-----------------------------------------------------------------------------
(* The moves of the machine.                                               *)
LEMMA NotTrimmingKeeps ==
  ASSUME NEW p, NEW t, MachineOK(p, t)
  PROVE  MachineOK(p, NotTrimming(t))
  BY DEF MachineOK, NotTrimming

(* KickTrim moves the machine only out of NotTrimming.                     *)
LEMMA KickKeeps ==
  ASSUME NEW p, NEW t, MachineOK(p, t), NEW a, NEW b
  PROVE  /\ MachineOK(p, KickTrim(t, a, b))
         /\ t.st = "WaitRepops" => KickTrim(t, a, b).st = "WaitRepops"
<1>1. /\ MachineOK(p, [t EXCEPT !.st = "WaitScrub"])
      /\ MachineOK(p, [t EXCEPT !.st = "WaitReservation"])
  BY DEF MachineOK
<1> QED
  BY <1>1 DEF KickTrim

(* The machine goes on, or stops and is kicked.                            *)
LEMMA AgainKeeps ==
  ASSUME NEW p, NEW t, MachineOK(p, t), NEW st
  PROVE  MachineOK(p, Again(t, st))
<1>1. MachineOK(p, [t EXCEPT !.st = st])
  BY DEF MachineOK
<1>2. MachineOK(p, KickTrim(NotTrimming(t), clean, scrubber.active))
  BY NotTrimmingKeeps, KickKeeps
<1> QED
  BY <1>1, <1>2, Zenon DEF Again, Kicked

(* The snapshot is purged: it leaves the queue.                            *)
LEMMA DonePurgingKeeps ==
  ASSUME NEW p, NEW t, MachineOK(p, t)
  PROVE  MachineOK(p, DonePurging(t))
<1> DEFINE s == t.snap
           u == [t EXCEPT !.trimq = @ \ {s}, !.repeat = @ \ {s},
                          !.purged = IF s \in t.repeat THEN @ ELSE @ \cup {s}]
<1>1. MachineOK(p, u)
  BY DEF MachineOK
<1> HIDE DEF u
<1>2. MachineOK(p, KickTrim(NotTrimming(u), clean, scrubber.active))
  BY <1>1, NotTrimmingKeeps, KickKeeps
<1> QED
  BY <1>2, Zenon DEF DonePurging, Kicked, u

(* What Trims(t) makes of the machine.                                     *)
LEMMA TrimsKeep ==
  ASSUME NEW t, Trims(t), MachineOK(pool', t)
  PROVE  MachineOK(pool, T)' /\ trimmer'.st = t.st
  BY DEF Trims, MachineOK, T

(* The trims in flight, by the places of their repops.                     *)
LEMMA InFlightIs ==
  ASSUME NEW q, \E S : q \in Seq(S)
  PROVE  /\ Len(q) \in Nat /\ DOMAIN q = 1 .. Len(q)
         /\ UNION {q[i].trims : i \in DOMAIN q} # {} <=>
              \E i \in 1 .. Len(q) : q[i].trims # {}
<1>1. PICK S : q \in Seq(S)
  OBVIOUS
<1>2. Len(q) \in Nat /\ DOMAIN q = 1 .. Len(q)
  BY <1>1
<1> QED
  BY <1>2

(* The invariant at first.                                                 *)
LEMMA InitHolds ==
  ASSUME Init PROVE IInv
<1>1. ClientsOK
  BY SnapsAssumption DEF Init, ClientsOK
<1>2. PoolOK
  BY DEF Init, PoolOK
<1>3. GoodObject(pool, NoObject, <<>>)
  <2>1. /\ DOMAIN NoObject = {"head", "data", "dirty", "ss", "disk"}
        /\ NoObject.head = "none" /\ NoObject.data = <<>>
        /\ NoObject.ss = NoSnapSet /\ DOMAIN NoObject.disk = {}
    BY DEF NoObject
  <2>2. /\ DOMAIN NoSnapSet = {"seq", "clone"} /\ NoSnapSet.seq = 0
        /\ Clones(NoSnapSet) = {}
    BY DEF NoSnapSet, Clones
  <2>3. pool.seq = 0
    BY DEF Init
  <2>4. ObjectOK(pool, NoObject)
    BY <2>1, <2>2, <2>3 DEF ObjectOK, SnapSetOK, Heads
  <2>5. OverlapOK(NoObject) /\ SnapsApart(NoObject.ss)
    BY <2>1, <2>2 DEF OverlapOK, SnapsApart
  <2>6. FrozenOK(pool, NoObject, <<>>)
    BY <2>3 DEF FrozenOK, LiveOf
  <2> QED
    BY <2>4, <2>5, <2>6 DEF GoodObject
<1>4. GoodState(pool, durable)
  BY <1>3 DEF Init, GoodState
<1>5. FlightOK(pool, durable, <<>>)
  BY <1>4, EmptyFlight
<1>6. flight = <<>> /\ readers = {} /\ asserted = None
  BY DEF Init
<1>7. FlightOK(pool, durable, flight)
  BY <1>5, <1>6
<1>8. TrimmerOK
  <2>1. MachineOK(pool, T)
    BY DEF Init, MachineOK, T
  <2>2. in_flight = {}
    BY <1>6 DEF in_flight
  <2> QED
    BY <2>1, <2>2 DEF TrimmerOK
<1>9. ReadersOK
  BY <1>6 DEF ReadersOK
<1> QED
  BY <1>1, <1>2, <1>6, <1>7, <1>8, <1>9 DEF IInv
-----------------------------------------------------------------------------
(* The state of the machine in a pool p that may have grown.               *)
LEMMA MachineInPool ==
  ASSUME NEW p, NEW t, MachineOK(p, t), NEW q, p.removed \subseteq q.removed
  PROVE  MachineOK(q, t)
  BY DEF MachineOK

(* The trimmer stays where it is, or moves to t.                           *)
Moves(t) == Trims(t) \/ (UNCHANGED snapVars /\ t = T)

(* The machine is as t says after the step.                                *)
LEMMA MovesKeep ==
  ASSUME NEW t, Moves(t), MachineOK(pool', t)
  PROVE  MachineOK(pool, T)' /\ trimmer'.st = t.st
<1>1. CASE Trims(t)
  BY <1>1, TrimsKeep
<1>2. CASE UNCHANGED snapVars /\ t = T
  <2>1. T' = T /\ trimmer'.st = t.st
    BY <1>2 DEF snapVars, T
  <2> QED
    BY <1>2, <2>1
<1> QED
  BY <1>1, <1>2 DEF Moves

(* Steps that leave the objects and the repops alone: the pool may grow,   *)
(* the trimmer moves to t, and only clones that are there get locked.      *)
LEMMA QuietStep ==
  ASSUME IInv, UNCHANGED <<begin, durable, flight, asserted>>,
         left' \in [Events -> Nat],
         PoolOK', pool.seq <= pool'.seq, pool.removed \subseteq pool'.removed,
         NEW t, Moves(t), MachineOK(pool', t),
         in_flight # {} => t.st = "WaitRepops",
         \A oc \in readers' : oc[2] # NoHead => oc \in ClonesAt(Now)
  PROVE  IInv'
<1>1. ClientsOK'
  BY DEF IInv, ClientsOK
<1>2. pool.seq \in Nat /\ pool'.seq \in Nat
  BY DEF IInv, PoolOK
<1>3. FlightOK(pool', durable, flight)
  BY <1>2, FlightInPool DEF IInv
<1>4. FlightOK(pool, durable, flight)'
  BY <1>3
<1>5. Now' = Now /\ in_flight' = in_flight
  BY DEF Now, After, in_flight
<1>6. TrimmerOK'
  BY <1>5, MovesKeep DEF TrimmerOK
<1>7. ReadersOK'
  BY <1>5 DEF ReadersOK, ClonesAt
<1> QED
  BY <1>1, <1>4, <1>6, <1>7 DEF IInv

(* A step of an actor that leaves the pool alone, too, and locks nothing.  *)
LEMMA TrimmerStep ==
  ASSUME IInv, UNCHANGED <<begin, pool, durable, flight, asserted>>,
         left' \in [Events -> Nat], readers' \subseteq readers,
         NEW t, Moves(t), MachineOK(pool, t),
         in_flight # {} => t.st = "WaitRepops"
  PROVE  IInv'
<1>1. PoolOK' /\ MachineOK(pool', t)
  BY DEF IInv, PoolOK
<1>2. pool.seq <= pool'.seq /\ pool.removed \subseteq pool'.removed
  BY DEF IInv, PoolOK
<1>3. \A oc \in readers' : oc[2] # NoHead => oc \in ClonesAt(Now)
  BY DEF IInv, ReadersOK
<1> QED
  BY <1>1, <1>2, <1>3, QuietStep

(* One of a kind of event is spent.                                        *)
LEMMA SpendKeeps ==
  ASSUME ClientsOK, NEW e \in Events, Spend(e)
  PROVE  left' \in [Events -> Nat] /\ left[e] \in Nat
<1>1. left[e] - 1 \in Nat
  BY DEF ClientsOK, Spend
<1> QED
  BY <1>1 DEF ClientsOK, Spend

(* While repops with trims are in flight, the machine waits for them.      *)
LEMMA OnlyWaiting ==
  ASSUME IInv, trimmer.st # "WaitRepops"
  PROVE  in_flight = {}
  BY DEF IInv, TrimmerOK

(* A slot for trimming: the first snapshot of the queue is trimmed.        *)
LEMMA ReservedKeeps ==
  ASSUME IInv, Reserved PROVE IInv'
<1> DEFINE t == Again(T, "AwaitAsyncWork")
           u == IF can_trim(T) THEN [t EXCEPT !.snap = Min(trimq)] ELSE t
<1>1. in_flight = {} /\ Trims(u)
  BY OnlyWaiting DEF Reserved
<1>2. MachineOK(pool, T) /\ PoolOK
  BY DEF IInv, TrimmerOK
<1>3. MachineOK(pool, t)
  BY <1>2, AgainKeeps
<1>4. ASSUME can_trim(T) PROVE Min(trimq) \in pool.removed
  <2>1. trimq # {} /\ trimq \subseteq pool.removed /\ pool.removed \subseteq Nat
    BY <1>2, <1>4 DEF can_trim, T, MachineOK, PoolOK
  <2> QED
    BY <2>1, MinMember
<1>5. MachineOK(pool, u)
  <2> HIDE DEF t
  <2> QED
    BY <1>3, <1>4 DEF MachineOK
<1>6. UNCHANGED <<begin, left, pool, durable, flight, readers, asserted>>
  BY DEF Reserved
<1>7. left' \in [Events -> Nat]
  BY <1>6 DEF IInv, ClientsOK
<1> HIDE DEF u
<1> QED
  BY <1>1, <1>5, <1>6, <1>7, TrimmerStep DEF Moves

(* A read lets its lock go, and may wake the trimmer.                      *)
LEMMA EndReadKeeps ==
  ASSUME IInv, NEW oc, EndRead(oc) PROVE IInv'
<1>1. MachineOK(pool, T)
  BY DEF IInv, TrimmerOK
<1>2. UNCHANGED <<begin, left, pool, durable, flight, asserted>> /\ readers' \subseteq readers
  BY DEF EndRead
<1>3. left' \in [Events -> Nat]
  BY <1>2 DEF IInv, ClientsOK
<1>4. CASE oc \in marked /\ trimmer.st = "WaitRWLock"
  <2>1. in_flight = {} /\ Trims(Again(T, "AwaitAsyncWork"))
    BY <1>4, OnlyWaiting DEF EndRead
  <2>2. MachineOK(pool, Again(T, "AwaitAsyncWork"))
    BY <1>1, AgainKeeps
  <2> QED
    BY <1>2, <1>3, <2>1, <2>2, TrimmerStep DEF Moves
<1>5. CASE ~(oc \in marked /\ trimmer.st = "WaitRWLock")
  <2>1. Moves(T) /\ T.st = trimmer.st
    BY <1>5 DEF EndRead, Moves, T
  <2>2. in_flight # {} => T.st = "WaitRepops"
    BY <2>1 DEF IInv, TrimmerOK
  <2> QED
    BY <1>1, <1>2, <1>3, <2>1, <2>2, TrimmerStep
<1> QED
  BY <1>4, <1>5

(* The PG is clean again.                                                  *)
LEMMA RecoveredKeeps ==
  ASSUME IInv, Recovered PROVE IInv'
<1>1. MachineOK(pool, T) /\ T.st = trimmer.st
  BY DEF IInv, TrimmerOK, T
<1>2. UNCHANGED <<begin, left, pool, durable, flight, readers, asserted>>
      /\ Trims(KickTrim(T, TRUE, FALSE))
  BY DEF Recovered
<1>3. left' \in [Events -> Nat]
  BY <1>2 DEF IInv, ClientsOK
<1>4. /\ MachineOK(pool, KickTrim(T, TRUE, FALSE))
      /\ in_flight # {} => KickTrim(T, TRUE, FALSE).st = "WaitRepops"
  BY <1>1, KickKeeps DEF IInv, TrimmerOK
<1> QED
  BY <1>2, <1>3, <1>4, TrimmerStep DEF Moves

(* The scrub goes on, and at its end kicks the trimmer.                    *)
LEMMA ScrubChunkKeeps ==
  ASSUME IInv, ScrubChunk PROVE IInv'
<1>1. MachineOK(pool, T) /\ T.st = trimmer.st
  BY DEF IInv, TrimmerOK, T
<1>2. UNCHANGED <<begin, left, pool, durable, flight, readers, asserted>>
  BY DEF ScrubChunk
<1>3. left' \in [Events -> Nat]
  BY <1>2 DEF IInv, ClientsOK
<1>4. in_flight # {} => T.st = "WaitRepops"
  BY <1>1 DEF IInv, TrimmerOK
<1>5. CASE scrubber.start < NObjects
  <2>1. Moves(T)
    BY <1>5 DEF ScrubChunk, Moves
  <2> QED
    BY <1>1, <1>2, <1>3, <1>4, <2>1, TrimmerStep
<1>6. CASE ~(scrubber.start < NObjects)
  <2>1. snap_trimmer_scrub_complete
    BY <1>6 DEF ScrubChunk
  <2>2. CASE trimmer.st = "WaitScrub" /\ clean /\ trimq # {}
    <3>1. in_flight = {} /\ Trims(KickTrim(NotTrimming(T), clean, FALSE))
      BY <2>1, <2>2, OnlyWaiting DEF snap_trimmer_scrub_complete
    <3>2. MachineOK(pool, KickTrim(NotTrimming(T), clean, FALSE))
      BY <1>1, NotTrimmingKeeps, KickKeeps
    <3> QED
      BY <1>2, <1>3, <3>1, <3>2, TrimmerStep DEF Moves
  <2>3. CASE ~(trimmer.st = "WaitScrub" /\ clean /\ trimq # {})
    <3>1. Moves(T)
      BY <2>1, <2>3 DEF snap_trimmer_scrub_complete, Moves
    <3> QED
      BY <1>1, <1>2, <1>3, <1>4, <3>1, TrimmerStep
  <2> QED
    BY <2>2, <2>3
<1> QED
  BY <1>5, <1>6

(* A purged snapshot is queued again.                                      *)
LEMMA RetrimKeeps ==
  ASSUME IInv, NEW s \in 1 .. pool.seq, queue_snap_retrim(s) PROVE IInv'
<1> DEFINE t == [T EXCEPT !.trimq = @ \cup {s}, !.repeat = @ \cup {s}]
<1>1. MachineOK(pool, T) /\ T.st = trimmer.st
  BY DEF IInv, TrimmerOK, T
<1>2. UNCHANGED <<begin, pool, durable, flight, readers, asserted>>
      /\ Trims(Kicked(t)) /\ Spend("retrims") /\ s \in purged
  BY DEF queue_snap_retrim
<1>3. left' \in [Events -> Nat]
  BY <1>2, SpendKeeps DEF IInv, Events
<1>4. s # 0 /\ s \in pool.removed
  BY <1>1, <1>2 DEF IInv, PoolOK, MachineOK, T
<1>5. MachineOK(pool, t) /\ t.st = trimmer.st
  BY <1>1, <1>4 DEF MachineOK
<1> HIDE DEF t
<1>6. /\ MachineOK(pool, Kicked(t))
      /\ in_flight # {} => Kicked(t).st = "WaitRepops"
  BY <1>5, KickKeeps DEF IInv, TrimmerOK, Kicked
<1> QED
  BY <1>2, <1>3, <1>6, TrimmerStep DEF Moves

(* A snapshot is removed from the pool.                                    *)
LEMMA RemoveSnapKeeps ==
  ASSUME IInv, NEW s \in 1 .. pool.seq, RemoveSnap(s) PROVE IInv'
<1> DEFINE t == [T EXCEPT !.trimq = @ \cup {s}]
<1>1. MachineOK(pool, T) /\ T.st = trimmer.st /\ PoolOK
  BY DEF IInv, TrimmerOK, T
<1>2. UNCHANGED <<begin, durable, flight, readers, asserted>>
      /\ Trims(Kicked(t)) /\ Spend("removals")
  BY DEF RemoveSnap
<1>3. left' \in [Events -> Nat]
  BY <1>2, SpendKeeps DEF IInv, Events
<1>4. pool' = [pool EXCEPT !.removed = @ \cup {s}]
  BY DEF RemoveSnap
<1>5. /\ PoolOK' /\ pool.seq <= pool'.seq
      /\ pool.removed \subseteq pool'.removed /\ s \in pool'.removed
  BY <1>1, <1>4 DEF PoolOK
<1>6. MachineOK(pool', T)
  BY <1>1, <1>5, MachineInPool
<1>7. MachineOK(pool', t) /\ t.st = trimmer.st
  BY <1>1, <1>5, <1>6 DEF MachineOK
<1> HIDE DEF t
<1>8. /\ MachineOK(pool', Kicked(t))
      /\ in_flight # {} => Kicked(t).st = "WaitRepops"
  BY <1>7, KickKeeps DEF IInv, TrimmerOK, Kicked
<1>9. \A oc \in readers' : oc[2] # NoHead => oc \in ClonesAt(Now)
  BY <1>2 DEF IInv, ReadersOK
<1> QED
  BY <1>2, <1>3, <1>5, <1>8, <1>9, QuietStep DEF Moves

(* A snapshot is taken.                                                    *)
LEMMA CreateSnapKeeps ==
  ASSUME IInv, CreateSnap PROVE IInv'
<1>1. MachineOK(pool, T) /\ T.st = trimmer.st /\ PoolOK
  BY DEF IInv, TrimmerOK, T
<1>2. UNCHANGED <<begin, durable, flight, readers, snapVars, asserted>>
      /\ Spend("snaps")
  BY DEF CreateSnap
<1>3. left' \in [Events -> Nat]
  BY <1>2, SpendKeeps DEF IInv, Events
<1>4. pool' = [pool EXCEPT !.seq = @ + 1]
  BY DEF CreateSnap
<1>5. /\ PoolOK' /\ pool.seq <= pool'.seq
      /\ pool.removed \subseteq pool'.removed
  BY <1>1, <1>4 DEF PoolOK
<1>6. MachineOK(pool', T)
  BY <1>1, <1>5, MachineInPool
<1>7. in_flight # {} => T.st = "WaitRepops"
  BY <1>1 DEF IInv, TrimmerOK
<1>8. Moves(T)
  BY <1>2 DEF Moves
<1>9. \A oc \in readers' : oc[2] # NoHead => oc \in ClonesAt(Now)
  BY <1>2 DEF IInv, ReadersOK
<1> QED
  BY <1>2, <1>3, <1>5, <1>6, <1>7, <1>8, <1>9, QuietStep

(* A read locks the head or a clone that is there.                         *)
LEMMA StartReadKeeps ==
  ASSUME IInv, NEW oc \in Targets, StartRead(oc) PROVE IInv'
<1>1. MachineOK(pool, T) /\ T.st = trimmer.st /\ PoolOK
  BY DEF IInv, TrimmerOK, T
<1>2. UNCHANGED <<begin, pool, durable, flight, snapVars, asserted>>
      /\ Spend("reads") /\ readers' = readers \cup {oc}
  BY DEF StartRead
<1>3. left' \in [Events -> Nat]
  BY <1>2, SpendKeeps DEF IInv, Events
<1>4. /\ PoolOK' /\ pool.seq <= pool'.seq
      /\ pool.removed \subseteq pool'.removed /\ MachineOK(pool', T)
  BY <1>1, <1>2 DEF PoolOK
<1>5. in_flight # {} => T.st = "WaitRepops"
  BY <1>1 DEF IInv, TrimmerOK
<1>6. Moves(T)
  BY <1>2 DEF Moves
<1>7. oc[2] # NoHead => oc \in ClonesAt(Now)
  <2>1. oc[1] \in Object /\ oc[2] \in 0 .. pool.seq /\ oc = <<oc[1], oc[2]>>
        /\ pool.seq \in Nat
    BY <1>1 DEF Targets, PoolOK
  <2>2. DOMAIN Now.obs[oc[1]].disk = Clones(Now.obs[oc[1]].ss)
    <3>1. GoodState(pool, Now)
      BY LastGood, AfterIsStage DEF IInv, FlightOK, Now
    <3> QED
      BY <2>1, <3>1 DEF GoodState, GoodObject, ObjectOK
  <2>3. oc[2] # NoHead => oc[2] \in Clones(Now.obs[oc[1]].ss)
    BY <2>2 DEF StartRead
  <2> QED
    BY <2>1, <2>3 DEF ClonesAt
<1>8. \A rd \in readers' : rd[2] # NoHead => rd \in ClonesAt(Now)
  BY <1>2, <1>7 DEF IInv, ReadersOK
<1> QED
  BY <1>2, <1>3, <1>4, <1>5, <1>6, <1>8, QuietStep

(* A scrub starts.                                                         *)
LEMMA StartScrubKeeps ==
  ASSUME IInv, StartScrub PROVE IInv'
<1>1. MachineOK(pool, T) /\ T.st = trimmer.st
  BY DEF IInv, TrimmerOK, T
<1>2. UNCHANGED <<begin, pool, durable, flight, readers, snapVars, asserted>>
      /\ Spend("scrubs")
  BY DEF StartScrub
<1>3. left' \in [Events -> Nat]
  BY <1>2, SpendKeeps DEF IInv, Events
<1>4. Moves(T) /\ (in_flight # {} => T.st = "WaitRepops")
  BY <1>1, <1>2 DEF Moves, IInv, TrimmerOK
<1> QED
  BY <1>1, <1>2, <1>3, <1>4, TrimmerStep
-----------------------------------------------------------------------------
(* Steps that change the repops or what is committed.                      *)
LEMMA FlightStep ==
  ASSUME IInv, UNCHANGED <<begin, pool, asserted>>,
         left' \in [Events -> Nat], FlightOK(pool, durable', flight'),
         NEW t, Moves(t), MachineOK(pool, t),
         (\E i \in 1 .. Len(flight') : flight'[i].trims # {}) =>
            t.st = "WaitRepops",
         \A oc \in readers' : oc[2] # NoHead =>
            oc \in ClonesAt(Stage(durable', flight', Len(flight')))
  PROVE  IInv'
<1>1. ClientsOK'
  BY DEF IInv, ClientsOK
<1>2. PoolOK' /\ FlightOK(pool, durable, flight)' /\ MachineOK(pool', t)
  BY DEF IInv, PoolOK
<1>3. \E S : flight' \in Seq(S)
  BY DEF FlightOK
<1>4. in_flight' # {} => t.st = "WaitRepops"
  BY <1>3, InFlightIs DEF in_flight
<1>5. TrimmerOK'
  BY <1>2, <1>4, MovesKeep DEF TrimmerOK
<1>6. Now' = Stage(durable', flight', Len(flight'))
  <2>1. (\E S : flight \in Seq(S))'
    BY <1>3
  <2>2. (\E S : flight \in Seq(S)) => After(flight) = Stage(durable, flight, Len(flight))
    BY AfterIsStage
  <2>3. flight' # <<>> => Last(flight') = flight'[Len(flight')]
    BY DEF Last
  <2>4. Len(flight') = 0 <=> flight' = <<>>
    BY <1>3
  <2> QED
    BY <2>3, <2>4 DEF Now, After, Stage
<1>7. ReadersOK'
  BY <1>6 DEF ReadersOK, ClonesAt
<1> QED
  BY <1>1, <1>2, <1>5, <1>7 DEF IInv

(* What the invariant says of the objects now.                             *)
LEMMA NowFacts ==
  ASSUME IInv
  PROVE  /\ Len(flight) \in Nat /\ Now = Stage(durable, flight, Len(flight))
         /\ GoodState(pool, Now)
         /\ (\E i \in 1 .. Len(flight) : flight[i].trims # {}) <=> in_flight # {}
<1>1. FlightOK(pool, durable, flight)
  BY DEF IInv
<1>2. \E S : flight \in Seq(S)
  BY <1>1 DEF FlightOK
<1>3. Len(flight) \in Nat /\ GoodState(pool, Stage(durable, flight, Len(flight)))
  BY <1>1, LastGood
<1>4. Now = Stage(durable, flight, Len(flight))
  BY <1>2, AfterIsStage DEF Now
<1> QED
  BY <1>2, <1>3, <1>4, InFlightIs DEF in_flight

(* The repops that are passed on are the first ones.                       *)
LEMMA PassedFacts ==
  ASSUME FlightOK(pool, durable, flight)
  PROVE  \E m \in 0 .. Len(flight) :
           /\ Passed = SubSeq(flight, 1, m) /\ Len(Passed) = m
           /\ \A i \in 1 .. m : Passed[i] = flight[i]
           /\ \E S : Passed \in Seq(S)
           /\ Stored = Stage(durable, flight, m)
<1> DEFINE waiting == {i \in DOMAIN flight : ~flight[i].passed}
           W == waiting \cup {Len(flight) + 1}
           m == Min(W) - 1
<1>1. PICK S : flight \in Seq(S)
  BY DEF FlightOK
<1>2. W \in SUBSET Nat /\ W # {} /\ \A x \in W : x \in 1 .. Len(flight) + 1
  BY <1>1
<1>3. Min(W) \in W
  BY <1>2, MinMember
<1>4. m \in 0 .. Len(flight)
  BY <1>1, <1>2, <1>3
<1>5. Passed = SubSeq(flight, 1, m)
  BY DEF Passed
<1> HIDE DEF m
<1>6. /\ Len(Passed) = m /\ \A i \in 1 .. m : Passed[i] = flight[i]
      /\ Passed \in Seq(S)
  BY <1>1, <1>4, <1>5
<1>7. Stored = Stage(durable, Passed, m)
  BY <1>6, AfterIsStage DEF Stored
<1>8. Stage(durable, Passed, m) = Stage(durable, flight, m)
  BY <1>4, <1>6 DEF Stage
<1> QED
  BY <1>4, <1>5, <1>6, <1>7, <1>8

(* The backend passes a repop on: no stage changes.                        *)
LEMMA PassOnKeeps ==
  ASSUME IInv, PassOn PROVE IInv'
<1> DEFINE i == Len(Passed) + 1
           a == [flight EXCEPT ![i].passed = TRUE]
<1>1. /\ UNCHANGED <<begin, left, pool, durable, readers, snapVars, asserted>>
      /\ flight' = a
  BY DEF PassOn
<1>2. FlightOK(pool, durable, flight) /\ left' \in [Events -> Nat]
  BY <1>1 DEF IInv, ClientsOK
<1>3. /\ FlightOK(pool, durable, a) /\ Len(a) = Len(flight)
      /\ \A j \in 1 .. Len(flight) : a[j].trims = flight[j].trims
      /\ Stage(durable, a, Len(a)) = Stage(durable, flight, Len(flight))
  <2>1. SameStages(pool, durable, flight, a)
    BY <1>2, FlightPasses, Zenon
  <2> HIDE DEF a
  <2> QED
    BY <2>1, Zenon DEF SameStages
<1> HIDE DEF a
<1>4. Moves(T) /\ MachineOK(pool, T) /\ T.st = trimmer.st
  BY <1>1 DEF IInv, TrimmerOK, Moves, T
<1>5. (\E j \in 1 .. Len(flight') : flight'[j].trims # {}) => T.st = "WaitRepops"
  BY <1>1, <1>3, <1>4, NowFacts DEF IInv, TrimmerOK
<1>6. \A oc \in readers' : oc[2] # NoHead =>
         oc \in ClonesAt(Stage(durable', flight', Len(flight')))
  BY <1>1, <1>3, NowFacts DEF IInv, ReadersOK
<1>7. FlightOK(pool, durable', flight')
  BY <1>1, <1>3
<1> QED
  BY <1>1, <1>2, <1>4, <1>5, <1>6, <1>7, FlightStep

(* The first repop is committed; after the last trim the machine goes on.  *)
LEMMA CommitKeeps ==
  ASSUME IInv, Commit PROVE IInv'
<1> DEFINE e == Commits(Head(flight))
           n == Len(flight)
<1>1. /\ UNCHANGED <<begin, left, pool, readers, asserted>>
      /\ durable' = e /\ flight' = Tail(flight)
  BY DEF Commit
<1>2. FlightOK(pool, durable, flight) /\ left' \in [Events -> Nat]
  BY <1>1 DEF IInv, ClientsOK
<1>3. PICK S : flight \in Seq(S)
  BY <1>2 DEF FlightOK
<1>4. flight # <<>>
  <2>1. PICK m \in 0 .. Len(flight) : Len(Passed) = m /\ \E V : Passed \in Seq(V)
    BY <1>2, PassedFacts
  <2>2. Passed # <<>>
    BY DEF Commit
  <2> QED
    BY <1>3, <2>1, <2>2
<1>5. e.obs = flight[1].after.obs /\ e.frozen = flight[1].after.frozen
      /\ Head(flight) = flight[1]
  BY <1>3, <1>4 DEF Commits
<1>6. /\ FlightOK(pool, e, Tail(flight))
      /\ n \in Nat \ {0} /\ Len(Tail(flight)) = n - 1
      /\ \A i \in 1 .. n - 1 : Tail(flight)[i] = flight[i + 1]
      /\ ClonesAt(Stage(e, Tail(flight), Len(Tail(flight)))) =
           ClonesAt(Stage(durable, flight, n))
  <2> HIDE DEF e
  <2> QED
    BY <1>2, <1>4, <1>5, FlightCommits
<1> HIDE DEF e
<1>7. FlightOK(pool, durable', flight')
  BY <1>1, <1>6
<1>8. \A oc \in readers' : oc[2] # NoHead =>
         oc \in ClonesAt(Stage(durable', flight', Len(flight')))
  BY <1>1, <1>6, NowFacts DEF IInv, ReadersOK
<1>9. MachineOK(pool, T) /\ T.st = trimmer.st
  BY DEF IInv, TrimmerOK, T
<1>10. \A i \in 1 .. Len(flight') :
         i + 1 \in 1 .. n /\ i + 1 # 1 /\ flight'[i].trims = flight[i + 1].trims
  BY <1>1, <1>6
<1>11. CASE in_flight # {} /\ in_flight = Head(flight).trims
  <2>1. Moves(Again(T, "AwaitAsyncWork"))
    BY <1>11 DEF Commit, Moves
  <2>2. MachineOK(pool, Again(T, "AwaitAsyncWork"))
    BY <1>9, AgainKeeps
  <2>3. \A i \in 1 .. Len(flight') : flight'[i].trims = {}
    <3> SUFFICES ASSUME NEW i \in 1 .. Len(flight') PROVE flight'[i].trims = {}
      OBVIOUS
    <3> DEFINE j == i + 1
    <3>1. j \in 1 .. n /\ j # 1 /\ 1 \in 1 .. n /\ flight'[i].trims = flight[j].trims
      BY <1>6, <1>10
    <3> HIDE DEF j
    <3>2. flight[j].trims \cap flight[1].trims = {}
      BY <1>2, <3>1 DEF FlightOK, TrimsApart
    <3>3. flight[j].trims \subseteq in_flight
      BY <1>3, <3>1 DEF in_flight
    <3> QED
      BY <1>5, <1>11, <3>1, <3>2, <3>3
  <2> QED
    BY <1>1, <1>2, <1>7, <1>8, <2>1, <2>2, <2>3, FlightStep
<1>12. CASE ~(in_flight # {} /\ in_flight = Head(flight).trims)
  <2>1. Moves(T)
    BY <1>12 DEF Commit, Moves
  <2>2. (\E i \in 1 .. Len(flight') : flight'[i].trims # {}) => T.st = "WaitRepops"
    <3>1. ASSUME NEW i \in 1 .. Len(flight'), flight'[i].trims # {}
          PROVE  \E j \in 1 .. n : flight[j].trims # {}
      BY <1>10, <3>1
    <3> QED
      BY <1>9, <3>1, NowFacts DEF IInv, TrimmerOK
  <2> QED
    BY <1>1, <1>2, <1>7, <1>8, <1>9, <2>1, <2>2, FlightStep
<1> QED
  BY <1>11, <1>12

(* A write is a repop on the state of the contexts, without trims.         *)
LEMMA WriteKeepsInv ==
  ASSUME IInv, NEW o \in begin.objects, Write(o) PROVE IInv'
<1>1. /\ UNCHANGED <<begin, pool, durable, readers, snapVars>>
      /\ Spend("writes")
  BY DEF Write
<1>2. FlightOK(pool, durable, flight) /\ PoolOK /\ ReadersOK /\ ClientsOK
  BY DEF IInv
<1>3. left' \in [Events -> Nat] /\ left["writes"] \in Nat
  BY <1>1, <1>2, SpendKeeps DEF Events
<1>4. o \in Object /\ begin.ops \subseteq Seq([k : Kinds, a : Nat, b : Nat])
  BY <1>2, SnapsAssumption DEF ClientsOK
<1>5. PICK ops \in begin.ops, snapc \in SnapContext :
        \E w \in {PrepareWrite(o, ops, snapc, left["writes"])} :
          /\ w.ok
          /\ IF w.got THEN Submits(<<w.repop>>) /\ UNCHANGED asserted
             ELSE /\ asserted' = "make_writeable: got"
                  /\ UNCHANGED <<flight, scrubber>>
  BY DEF Write
<1> DEFINE w == PrepareWrite(o, ops, snapc, left["writes"])
           r == w.repop
<1>6. StepOK(pool, Now, r) /\ r.trims = {} /\ w.got
  BY <1>2, <1>3, <1>4, NowFacts, WriteGood
<1> HIDE DEF w
<1>7. Submits(<<r>>) /\ UNCHANGED asserted
  BY <1>5, <1>6 DEF w
<1> HIDE DEF r
<1>8. flight' = Append(flight, r)
  <2>1. PICK S : flight \in Seq(S)
    BY <1>2 DEF FlightOK
  <2>2. flight \o <<r>> = Append(flight, r)
    BY <2>1
  <2> QED
    BY <1>7, <2>2 DEF Submits
<1>9. Grown(pool, durable, flight, r, Append(flight, r))
  BY <1>2, <1>6, NowFacts, FlightGrows
<1>10. /\ FlightOK(pool, durable', flight') /\ Len(flight') = Len(flight) + 1
       /\ \A i \in 1 .. Len(flight) : flight'[i] = flight[i]
       /\ flight'[Len(flight) + 1] = r
  BY <1>1, <1>8, <1>9 DEF Grown
<1>11. Moves(T) /\ MachineOK(pool, T) /\ T.st = trimmer.st
  BY <1>1 DEF IInv, TrimmerOK, Moves, T
<1>12. (\E i \in 1 .. Len(flight') : flight'[i].trims # {}) => T.st = "WaitRepops"
  <2>1. ASSUME NEW i \in 1 .. Len(flight'), flight'[i].trims # {}
        PROVE  \E j \in 1 .. Len(flight) : flight[j].trims # {}
    <3>1. i # Len(flight) + 1
      BY <1>6, <1>10, <2>1
    <3>2. i \in 1 .. Len(flight)
      BY <1>10, <3>1, NowFacts
    <3> QED
      BY <1>10, <2>1, <3>2
  <2> QED
    BY <1>11, <2>1, NowFacts DEF IInv, TrimmerOK
<1>13. Stage(durable', flight', Len(flight')) = r.after
  BY <1>10, NowFacts DEF Stage
<1>14. \A oc \in readers' : oc[2] # NoHead =>
         oc \in ClonesAt(Stage(durable', flight', Len(flight')))
  BY <1>1, <1>2, <1>6, <1>13 DEF ReadersOK, StepOK
<1> QED
  BY <1>1, <1>3, <1>7, <1>10, <1>11, <1>12, <1>14, FlightStep

(* The contexts of objects that do not exist are dropped.                  *)
LEMMA ForgetContextsKeeps ==
  ASSUME IInv, ForgetContexts PROVE IInv'
<1>1. /\ UNCHANGED <<begin, left, pool, flight, readers, snapVars, asserted>>
      /\ durable' = Uncached(durable) /\ flight = <<>>
  BY DEF ForgetContexts
<1>2. FlightOK(pool, durable, flight) /\ pool.seq \in Nat /\ left' \in [Events -> Nat]
  BY <1>1 DEF IInv, PoolOK, ClientsOK
<1>3. GoodState(pool, durable)
  BY <1>2 DEF FlightOK
<1>4. /\ GoodState(pool, Uncached(durable))
      /\ ClonesAt(durable) \subseteq ClonesAt(Uncached(durable))
  BY <1>2, <1>3, UncachedGood
<1>5. FlightOK(pool, durable', flight')
  BY <1>1, <1>4, EmptyFlight
<1>6. Now = durable /\ Stage(durable', flight', Len(flight')) = durable'
  BY <1>1 DEF Now, After, Stage
<1>7. \A oc \in readers' : oc[2] # NoHead =>
         oc \in ClonesAt(Stage(durable', flight', Len(flight')))
  BY <1>1, <1>4, <1>6 DEF IInv, ReadersOK
<1>8. Moves(T) /\ MachineOK(pool, T)
  BY <1>1 DEF IInv, TrimmerOK, Moves
<1>9. ~ \E i \in 1 .. Len(flight') : flight'[i].trims # {}
  BY <1>1
<1> QED
  BY <1>1, <1>2, <1>5, <1>7, <1>8, <1>9, FlightStep

(* A new interval keeps some stage of the flight, and stops the trimmer.   *)
LEMMA NewIntervalKeeps ==
  ASSUME IInv, NewInterval PROVE IInv'
<1>1. /\ UNCHANGED <<begin, pool, asserted>> /\ Spend("intervals")
      /\ flight' = <<>> /\ readers' = {}
  BY DEF NewInterval
<1>2. FlightOK(pool, durable, flight) /\ PoolOK /\ ClientsOK
  BY DEF IInv
<1>3. left' \in [Events -> Nat]
  BY <1>1, <1>2, SpendKeeps DEF Events
<1>4. PICK n \in 0 .. Len(Passed), lost \in SUBSET purged :
        LET kept == SubSeq(Passed, 1, n)
            st == After(kept)
        IN  /\ durable' = Uncached([obs |-> st.obs, frozen |-> st.frozen,
                                    stats |-> AddStats(durable.stats, kept)])
            /\ Trims([NotTrimming(T) EXCEPT
                        !.purged = @ \ lost, !.repeat = {},
                        !.trimq = pool.removed \ (purged \ lost)])
  BY DEF NewInterval
<1> DEFINE kept == SubSeq(Passed, 1, n)
           st == After(kept)
           rec == [obs |-> st.obs, frozen |-> st.frozen,
                   stats |-> AddStats(durable.stats, kept)]
           t == [NotTrimming(T) EXCEPT
                   !.purged = @ \ lost, !.repeat = {},
                   !.trimq = pool.removed \ (purged \ lost)]
<1>5. durable' = Uncached(rec) /\ Trims(t)
  BY <1>4
<1>6. GoodState(pool, st)
  <2>1. PICK m \in 0 .. Len(flight) :
          /\ Len(Passed) = m /\ \A i \in 1 .. m : Passed[i] = flight[i]
          /\ \E S : Passed \in Seq(S)
    BY <1>2, PassedFacts
  <2>2. PICK S : Passed \in Seq(S)
    BY <2>1
  <2>3. n \in Nat /\ n <= m /\ m <= Len(flight) /\ Len(flight) \in Nat
    BY <1>2, <2>1, LastGood
  <2>4. kept \in Seq(S) /\ Len(kept) = n /\ \A i \in 1 .. n : kept[i] = Passed[i]
    BY <2>1, <2>2, <2>3
  <2> HIDE DEF kept
  <2>5. st = Stage(durable, kept, n)
    BY <2>4, AfterIsStage
  <2>6. Stage(durable, kept, n) = Stage(durable, flight, n)
    BY <2>1, <2>3, <2>4 DEF Stage
  <2>7. n \in 0 .. Len(flight)
    BY <2>3
  <2> QED
    BY <1>2, <2>5, <2>6, <2>7, LastGood
<1> HIDE DEF st
<1>7. GoodState(pool, rec)
  BY <1>6 DEF GoodState
<1> HIDE DEF rec
<1>8. GoodState(pool, durable')
  BY <1>2, <1>5, <1>7, UncachedGood DEF PoolOK
<1>9. FlightOK(pool, durable', flight')
  BY <1>1, <1>8, EmptyFlight
<1>10. MachineOK(pool, t)
  BY DEF IInv, TrimmerOK, MachineOK, NotTrimming, T
<1> HIDE DEF t
<1>11. ~ \E i \in 1 .. Len(flight') : flight'[i].trims # {}
  BY <1>1
<1> QED
  BY <1>1, <1>3, <1>5, <1>9, <1>10, <1>11, FlightStep DEF Moves
-----------------------------------------------------------------------------
(* What the SnapMapper names is there when no trim is in flight.           *)
LEMMA MappedIsThere ==
  ASSUME IInv, in_flight = {}, NEW s, NEW oc \in Mapped(s)
  PROVE  /\ oc \in ClonesAt(Now)
         /\ oc[2] \in DOMAIN Now.obs[oc[1]].disk
<1>1. FlightOK(pool, durable, flight) /\ pool.seq \in Nat
  BY DEF IInv, PoolOK
<1>2. PICK m \in 0 .. Len(flight) : Stored = Stage(durable, flight, m)
  BY <1>1, PassedFacts
<1>3. /\ Len(flight) \in Nat /\ Now = Stage(durable, flight, Len(flight))
      /\ GoodState(pool, Now)
      /\ ~ \E i \in 1 .. Len(flight) : flight[i].trims # {}
  BY NowFacts
<1>4. oc \in ClonesAt(Stored)
  BY <1>1 DEF Mapped, ClonesAt
<1>5. Len(flight) \in 0 .. Len(flight) /\ m <= Len(flight)
  BY <1>3
<1>6. \/ oc \in ClonesAt(Stage(durable, flight, Len(flight)))
      \/ \E k \in m + 1 .. Len(flight) : oc \in flight[k].trims
  BY <1>1, <1>2, <1>4, <1>5 DEF FlightOK, Kept
<1>7. \A k \in m + 1 .. Len(flight) : k \in 1 .. Len(flight)
  BY <1>3
<1>8. oc \in ClonesAt(Now)
  BY <1>3, <1>6, <1>7
<1>9. DOMAIN Now.obs[oc[1]].disk = Clones(Now.obs[oc[1]].ss)
  BY <1>3, <1>8 DEF ClonesAt, GoodState, GoodObject, ObjectOK
<1> QED
  BY <1>8, <1>9 DEF ClonesAt

(* What is looked for next is a sequence of different clones.              *)
LEMMA TodoFacts ==
  ASSUME NEW s, NEW todo \in get_next_objects_to_trim(s), pool.seq \in Nat
  PROVE  /\ Len(todo) \in Nat /\ DOMAIN todo = 1 .. Len(todo)
         /\ \A i \in 1 .. Len(todo) : todo[i] \in Mapped(s)
         /\ \A i, j \in 1 .. Len(todo) : i # j => todo[i] # todo[j]
<1>1. PICK n \in 0 .. MaxTrims : todo \in [1 .. n -> Mapped(s)]
  BY DEF get_next_objects_to_trim
<1>2. n \in Nat /\ Len(todo) = n /\ DOMAIN todo = 1 .. n
  BY <1>1, SnapsAssumption
<1>3. \A i, j \in 1 .. n : i < j => Precedes(todo[i], todo[j])
  BY <1>2 DEF get_next_objects_to_trim
<1>4. ASSUME NEW oc \in Mapped(s) PROVE ~Precedes(oc, oc)
  <2>1. oc[1] \in Int /\ oc[2] \in Int
    BY <1>4, SnapsAssumption DEF Mapped, Object
  <2> QED
    BY <2>1 DEF Precedes
<1>5. ASSUME NEW i \in 1 .. n, NEW j \in 1 .. n, i # j
      PROVE  todo[i] # todo[j]
  <2>1. i < j \/ j < i
    BY <1>5
  <2>2. Precedes(todo[i], todo[j]) \/ Precedes(todo[j], todo[i])
    BY <1>3, <2>1
  <2> QED
    BY <1>1, <1>4, <2>2
<1> QED
  BY <1>1, <1>2, <1>5

(* The trimmer trims the clones that are not locked, and waits for them or *)
(* for the lock.                                                           *)
LEMMA StartTrimsKeeps ==
  ASSUME IInv, trimmer.st = "AwaitAsyncWork",
         NEW todo \in get_next_objects_to_trim(trimmer.snap),
         StartTrims(todo),
         UNCHANGED <<begin, left, pool, durable, readers, asserted>>
  PROVE  IInv'
<1> DEFINE L == {i \in DOMAIN todo : ~Unlocked(todo[i])} \cup {Len(todo) + 1}
           n == Min(L)
           m == n - 1
           q == TrimFirst(m, todo)
           f == flight \o q
           k == Len(flight)
           t == [T EXCEPT !.st = IF n = 1 THEN "WaitRWLock" ELSE "WaitRepops"]
<1>1. FlightOK(pool, durable, flight) /\ PoolOK /\ pool.seq \in Nat
      /\ MachineOK(pool, T) /\ T.snap = trimmer.snap /\ in_flight = {}
  BY OnlyWaiting DEF IInv, PoolOK, TrimmerOK, T
<1>2. trimmer.snap \in pool.removed \cup {0}
  BY <1>1 DEF MachineOK
<1>3. /\ Len(todo) \in Nat /\ DOMAIN todo = 1 .. Len(todo)
      /\ \A i \in 1 .. Len(todo) : todo[i] \in ClonesAt(Now)
      /\ \A i, j \in 1 .. Len(todo) : i # j => todo[i] # todo[j]
  BY <1>1, TodoFacts, MappedIsThere
<1>4. n \in 1 .. Len(todo) + 1 /\ \A x \in L : n <= x
  <2>1. L \in SUBSET Nat /\ L # {} /\ \A x \in L : x \in 1 .. Len(todo) + 1
    BY <1>3
  <2> HIDE DEF L
  <2> QED
    BY <2>1, MinMember
<1>5. m \in Nat /\ m <= Len(todo)
  BY <1>3, <1>4
<1>6. \A i \in 1 .. m : i \in 1 .. Len(todo) /\ Unlocked(todo[i])
  <2> SUFFICES ASSUME NEW i \in 1 .. m PROVE i \in 1 .. Len(todo) /\ Unlocked(todo[i])
    OBVIOUS
  <2>1. i \in 1 .. Len(todo) /\ i < n
    BY <1>3, <1>4, <1>5
  <2>2. ~Unlocked(todo[i]) => i \in L
    BY <1>3, <2>1
  <2>3. ~(n <= i)
    BY <1>3, <1>4, <2>1
  <2> QED
    BY <1>4, <2>1, <2>2, <2>3
<1>7. flight' = f /\ Trims(t)
  BY DEF StartTrims, Submits
<1> HIDE DEF n
<1>8. \A i \in 1 .. k : flight[i].trims = {}
  BY <1>1, NowFacts
<1>9. TrimsOK(q, m, todo)
  <2>1. \A j \in 1 .. m : todo[j] \in ClonesAt(Now)
    BY <1>3, <1>6
  <2>2. \A i, j \in 1 .. m : i # j => todo[i] # todo[j]
    BY <1>3, <1>6
  <2> HIDE DEF m
  <2> QED
    BY <1>1, <1>2, <1>5, <1>8, <2>1, <2>2, TrimsGood
<1> HIDE DEF q
<1>10. /\ FlightOK(pool, durable, f) /\ Len(f) = k + m
       /\ \A i \in 1 .. k : f[i].trims = {}
       /\ \A oc \in ClonesAt(Now) : \/ oc \in ClonesAt(After(f))
                                    \/ \E j \in 1 .. m : oc = todo[j]
  BY <1>9 DEF TrimsOK
<1> HIDE DEF f
<1>11. After(f) = Stage(durable, f, Len(f))
  BY <1>10, AfterIsStage DEF FlightOK
<1>12. \A oc \in readers' : oc[2] # NoHead =>
         oc \in ClonesAt(Stage(durable', flight', Len(flight')))
  <2> SUFFICES ASSUME NEW oc \in readers, oc[2] # NoHead
               PROVE  oc \in ClonesAt(After(f))
    BY <1>7, <1>11
  <2>1. oc \in ClonesAt(Now)
    BY DEF IInv, ReadersOK
  <2>2. ASSUME NEW j \in 1 .. m, oc = todo[j] PROVE FALSE
    BY <1>6, <2>2 DEF Unlocked
  <2> QED
    BY <1>10, <2>1, <2>2
<1>13. MachineOK(pool, t) /\ (n # 1 => t.st = "WaitRepops")
  BY <1>1 DEF MachineOK
<1>14. (\E i \in 1 .. Len(flight') : flight'[i].trims # {}) => t.st = "WaitRepops"
  <2>1. CASE n = 1
    <3>1. Len(f) = k
      BY <1>10, <2>1, NowFacts
    <3> QED
      BY <1>7, <1>10, <3>1
  <2>2. CASE n # 1
    BY <1>13, <2>2
  <2> QED
    BY <2>1, <2>2
<1> HIDE DEF t
<1>15. FlightOK(pool, durable', flight') /\ left' \in [Events -> Nat]
  BY <1>7, <1>10 DEF IInv, ClientsOK
<1> QED
  BY <1>7, <1>12, <1>13, <1>14, <1>15, FlightStep DEF Moves

(* The machine works on nothing but what it finds: the assertion and the   *)
(* error of trim_object are never reached.                                 *)
LEMMA DoSnapWorkKeeps ==
  ASSUME IInv, DoSnapWork PROVE IInv'
<1>1. /\ trimmer.st = "AwaitAsyncWork"
      /\ UNCHANGED <<begin, left, pool, durable, readers>>
  BY DEF DoSnapWork
<1>2. in_flight = {}
  BY <1>1, OnlyWaiting
<1>3. /\ PoolOK /\ pool.seq \in Nat /\ MachineOK(pool, T)
      /\ left' \in [Events -> Nat]
  BY <1>1 DEF IInv, PoolOK, TrimmerOK, ClientsOK
<1>4. PICK todo \in get_next_objects_to_trim(trimmer.snap) :
        LET lost == \E i \in DOMAIN todo :
                      todo[i][2] \notin DOMAIN Now.obs[todo[i][1]].disk
        IN  \/ in_flight # {} \/ (can_trim(T) /\ lost)
            \/ /\ Trims(IF can_trim(T) THEN DonePurging(T)
                        ELSE Kicked(NotTrimming(T)))
               /\ UNCHANGED <<flight, asserted>>
            \/ StartTrims(todo) /\ UNCHANGED asserted
  BY DEF DoSnapWork
<1>5. ~ \E i \in DOMAIN todo :
          todo[i][2] \notin DOMAIN Now.obs[todo[i][1]].disk
  BY <1>2, <1>3, TodoFacts, MappedIsThere
<1> DEFINE t == IF can_trim(T) THEN DonePurging(T) ELSE Kicked(NotTrimming(T))
<1>6. CASE Trims(t) /\ UNCHANGED <<flight, asserted>>
  <2>1. MachineOK(pool, t)
    <3>1. MachineOK(pool, Kicked(NotTrimming(T)))
      BY <1>3, NotTrimmingKeeps, KickKeeps DEF Kicked
    <3>2. MachineOK(pool, DonePurging(T))
      BY <1>3, DonePurgingKeeps
    <3> QED
      BY <3>1, <3>2
  <2> HIDE DEF t
  <2> QED
    BY <1>1, <1>2, <1>3, <1>6, <2>1, TrimmerStep DEF Moves
<1>7. CASE StartTrims(todo) /\ UNCHANGED asserted
  BY <1>1, <1>7, StartTrimsKeeps
<1> QED
  BY <1>2, <1>4, <1>5, <1>6, <1>7

(* Every step keeps the invariant.                                         *)
LEMMA NextKeeps ==
  ASSUME IInv, [Next]_vars PROVE IInv'
<1>1. CASE Reserved
  BY <1>1, ReservedKeeps
<1>2. CASE DoSnapWork
  BY <1>2, DoSnapWorkKeeps
<1>3. CASE PassOn
  BY <1>3, PassOnKeeps
<1>4. CASE Commit
  BY <1>4, CommitKeeps
<1>5. CASE \E oc \in Targets : EndRead(oc)
  BY <1>5, EndReadKeeps
<1>6. CASE ScrubChunk
  BY <1>6, ScrubChunkKeeps
<1>7. CASE Recovered
  BY <1>7, RecoveredKeeps
<1>8. CASE \E o \in begin.objects : Write(o)
  BY <1>8, WriteKeepsInv
<1>9. CASE \E oc \in Targets : StartRead(oc)
  BY <1>9, StartReadKeeps
<1>10. CASE CreateSnap
  BY <1>10, CreateSnapKeeps
<1>11. CASE \E s \in 1 .. pool.seq : RemoveSnap(s)
  BY <1>11, RemoveSnapKeeps
<1>12. CASE \E s \in 1 .. pool.seq : queue_snap_retrim(s)
  BY <1>12, RetrimKeeps
<1>13. CASE StartScrub
  BY <1>13, StartScrubKeeps
<1>14. CASE ForgetContexts
  BY <1>14, ForgetContextsKeeps
<1>15. CASE NewInterval
  BY <1>15, NewIntervalKeeps
<1>16. CASE UNCHANGED vars
  <2>1. UNCHANGED <<begin, left, pool, durable, flight, readers, snapVars, asserted>>
    BY <1>16 DEF vars
  <2>2. MachineOK(pool, T) /\ T.st = trimmer.st /\ left' \in [Events -> Nat]
    BY <2>1 DEF IInv, TrimmerOK, T, ClientsOK
  <2>3. Moves(T) /\ (in_flight # {} => T.st = "WaitRepops")
    BY <2>1, <2>2 DEF Moves, IInv, TrimmerOK
  <2> QED
    BY <2>1, <2>2, <2>3, TrimmerStep
<1> QED
  BY <1>1, <1>2, <1>3, <1>4, <1>5, <1>6, <1>7, <1>8, <1>9, <1>10, <1>11,
     <1>12, <1>13, <1>14, <1>15, <1>16 DEF Next, Work

(* The invariant of the module holds in every behaviour: every stage of    *)
(* every object, committed or in flight, is good.                          *)
THEOREM SnapsInvariant == Spec => []IInv
<1>1. IInv /\ [Next]_vars => IInv'
  BY NextKeeps
<1> QED
  BY <1>1, InitHolds, PTL DEF Spec

(* The snapshots of an object serve as find_object_context says.           *)
LEMMA ShownIsFound ==
  ASSUME IInv, NEW o \in Object, NEW s \in Live
  PROVE  find_object_context(Now.obs[o], s).data =
           IF s \in DOMAIN Now.frozen[o] THEN Now.frozen[o][s]
           ELSE Content(Now.obs[o])
<1> DEFINE ob == Now.obs[o]
           fr == Now.frozen[o]
           c == WhichClone(ob.ss, s)
<1>1. GoodObject(pool, ob, fr) /\ pool.seq \in Nat
  BY NowFacts DEF GoodState, IInv, PoolOK
<1>2. /\ ObjectOK(pool, ob) /\ SnapSetOK(pool, ob.ss)
      /\ (s \in DOMAIN fr <=> s <= ob.ss.seq)
      /\ (s <= ob.ss.seq => fr[s] = Shown(ob, s))
  BY <1>1 DEF GoodObject, ObjectOK, FrozenOK, LiveOf, Live
<1>3. s \in Nat /\ s >= 1 /\ s \notin pool.removed /\ ob.ss.seq \in Nat
  BY <1>1, <1>2 DEF Live, SnapSetOK
<1> HIDE DEF ob, fr
<1>4. CASE ob.head = "none" /\ ob.ss = NoSnapSet
  <2>1. s \notin DOMAIN fr
    BY <1>2, <1>3, <1>4 DEF NoSnapSet
  <2>2. Content(ob) = DNE
    BY <1>4 DEF Content
  <2> QED
    BY <1>4, <2>1, <2>2 DEF find_object_context, NotFound, Found, ob, fr
<1>5. CASE ~(ob.head = "none" /\ ob.ss = NoSnapSet) /\ s > ob.ss.seq
  <2>1. s \notin DOMAIN fr
    BY <1>2, <1>3, <1>5
  <2> QED
    BY <1>5, <2>1 DEF find_object_context, Found, ob, fr
<1>6. CASE ~(ob.head = "none" /\ ob.ss = NoSnapSet) /\ ~(s > ob.ss.seq)
  <2>1. s \in DOMAIN fr /\ fr[s] = Shown(ob, s)
    BY <1>2, <1>3, <1>6
  <2>2. CASE \A k \in Clones(ob.ss) : k < s
    <3>1. ~Served(ob.ss, s)
      <4>1. \A k \in Clones(ob.ss) : k \in Nat
        BY <1>2, <1>3 DEF SnapSetOK
      <4> QED
        BY <1>3, <2>2, <4>1 DEF Served
    <3> QED
      BY <1>6, <2>1, <2>2, <3>1 DEF find_object_context, NotFound, Found, Shown, ob, fr
  <2>3. CASE ~ \A k \in Clones(ob.ss) : k < s
    <3>1. \E k \in Clones(ob.ss) : k >= s
      <4>1. \A k \in Clones(ob.ss) : k \in Nat
        BY <1>2, <1>3 DEF SnapSetOK
      <4> QED
        BY <1>3, <2>3, <4>1
    <3>2. c \in Clones(ob.ss)
      BY <1>2, <1>3, <3>1, WhichCloneFacts
    <3>3. c \in DOMAIN ob.disk
      BY <1>2, <3>2 DEF ObjectOK
    <3>4. Served(ob.ss, s) <=> s \in ob.ss.clone[c].snaps
      BY <3>1 DEF Served
    <3>5. find_object_context(ob, s).data =
            IF s \notin ob.ss.clone[c].snaps THEN DNE ELSE ob.disk[c].data
      BY <1>3, <1>6, <2>3, <3>3 DEF find_object_context, NotFound, Found
    <3>6. Shown(ob, s) = IF s \notin ob.ss.clone[c].snaps THEN DNE ELSE ob.disk[c].data
      BY <3>4 DEF Shown
    <3> QED
      BY <2>1, <3>5, <3>6 DEF ob, fr
  <2> QED
    BY <2>2, <2>3
<1> QED
  BY <1>4, <1>5, <1>6

(* A live snapshot of an object reads as the head did before the first     *)
(* write that named it (find_object_context with make_writeable, rollback, *)
(* trim_object, _delete_oid and the loss of what was not committed).       *)
THEOREM SnapsReadAsFrozen == Spec => []SnapReads
<1>1. IInv => SnapReads
  <2> SUFFICES ASSUME IInv PROVE SnapReads
    OBVIOUS
  <2> QED
    BY ShownIsFound DEF SnapReads
<1> QED
  BY <1>1, SnapsInvariant, PTL

(* A clone shares with its next newer neighbour, or the head, what         *)
(* clone_overlap says (make_writeable, trim_object, the modified ranges of *)
(* every operation and of a rollback).                                     *)
THEOREM OverlapsAlwaysTrue == Spec => []OverlapsTrue
<1>1. IInv => OverlapsTrue
  <2> SUFFICES ASSUME IInv, NEW o \in Object, NEW c \in Clones(Now.obs[o].ss)
               PROVE  Shares(Now.obs[o].disk[c].data, NextData(Now.obs[o], c),
                             Now.obs[o].ss.clone[c].overlap)
    BY DEF OverlapsTrue, Shares, NextData, Newer
  <2>1. OverlapOK(Now.obs[o])
    BY NowFacts DEF GoodState, GoodObject
  <2> QED
    BY <2>1 DEF OverlapOK
<1> QED
  BY <1>1, SnapsInvariant, PTL

(* No assertion of make_writeable or of the snap trimmer fails, and        *)
(* trim_object finds the clones the SnapMapper names, though the           *)
(* SnapMapper knows only what the backend has passed on.                   *)
THEOREM NoAssertionFails == Spec => []NoAssertFails
<1>1. IInv => NoAssertFails
  BY DEF IInv, NoAssertFails
<1> QED
  BY <1>1, SnapsInvariant, PTL
=============================================================================
