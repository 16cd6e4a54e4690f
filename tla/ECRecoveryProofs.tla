--------------------------- MODULE ECRecoveryProofs ---------------------------
(***************************************************************************)
(* Safety of ECBackend's recovery (ECRecovery), for every code, every      *)
(* number of objects, pieces, shards, errors and intervals.                *)
(***************************************************************************)
EXTENDS ECRecovery, ReadOpsProofs

USE ReadConstantsAssumption, RecoveryConstantsAssumption

(* A read is the record of its fields, and the sources it waits for are of *)
(* objects it still is to read.  This is so even of reads whose results    *)
(* are no longer those of their requests.                                  *)
RopRight(rop) ==
  /\ rop = [want_to_read |-> rop.want_to_read, to_read |-> rop.to_read,
            complete |-> rop.complete,
            do_redundant_reads |-> rop.do_redundant_reads,
            for_recovery |-> rop.for_recovery, in_progress |-> rop.in_progress,
            source_to_obj |-> rop.source_to_obj,
            obj_to_source |-> rop.obj_to_source]
  /\ \A s \in rop.source_to_obj : s[2] \in Objs(rop)

RecoveryOpType ==
  [state : {"READING", "WRITING"}, missing_on : SUBSET Acting, progress : Nat,
   obc : BOOLEAN, xattrs : BOOLEAN, waiting_on_pushes : SUBSET Acting]

(* ECBackend and PrimaryLogPG agree on what is being recovered; an object  *)
(* is read by at most one ReadOp, and only while it waits for one.         *)
ReadsRight ==
  /\ DOMAIN recovery_ops \subseteq Object /\ recovering = DOMAIN recovery_ops
  /\ next_tid \in Nat /\ \A t \in DOMAIN tid_to_read_map : t \in Nat /\ t < next_tid
  /\ \A t \in DOMAIN tid_to_read_map :
       /\ RopRight(tid_to_read_map[t])
       /\ \A o \in Objs(tid_to_read_map[t]) :
            o \in DOMAIN recovery_ops /\ recovery_ops[o].state = "READING"
  /\ \A t, u \in DOMAIN tid_to_read_map :
       Objs(tid_to_read_map[t]) \cap Objs(tid_to_read_map[u]) # {} => t = u
  /\ \A t \in finishing : /\ t \in DOMAIN tid_to_read_map
                          /\ tid_to_read_map[t].in_progress = {}

(* A push or its reply is of the piece a recovery waits for, and a shard   *)
(* is waited for because of one of them.                                   *)
PushRight(x, ops) ==
  /\ x = [object |-> x.object, to |-> x.to, before |-> x.before, after |-> x.after]
  /\ x.object \in DOMAIN ops /\ ops[x.object].state = "WRITING"
  /\ x.to \in ops[x.object].waiting_on_pushes
  /\ x.before \in Nat /\ x.after = x.before + 1 /\ x.after = ops[x.object].progress
ReplyRight(r, ops) ==
  /\ r = [object |-> r.object, from |-> r.from]
  /\ r.object \in DOMAIN ops /\ ops[r.object].state = "WRITING"
  /\ r.from \in ops[r.object].waiting_on_pushes
PushesRight ==
  /\ \A x \in pushes : PushRight(x, recovery_ops)
  /\ \A r \in push_replies : ReplyRight(r, recovery_ops)
  /\ \A x \in pushes, r \in push_replies : ~(x.object = r.object /\ x.to = r.from)

(* A shard has the first n pieces of an object that it misses, all of them *)
(* in the object itself and the others in the temporary object.            *)
Got(p, o, n) ==
  IF n = Pieces[o] THEN Whole(p, o) /\ o \notin local_missing[p]
  ELSE o \in missing[p] /\ (n > 0 => store[p][o].temp = 1 .. n)

OpRight(o, op) ==
  /\ op \in RecoveryOpType /\ op.waiting_on_pushes \subseteq op.missing_on
  /\ op.progress <= Pieces[o]
  /\ op.state = "READING" => op.progress < Pieces[o]
  /\ op.state = "WRITING" => op.progress > 0
Holds(o, p) ==
  /\ p # Primary => o \in missing[p]
  /\ IF \E x \in pushes : x.object = o /\ x.to = p
     THEN Got(p, o, recovery_ops[o].progress - 1)
     ELSE Got(p, o, recovery_ops[o].progress)

StoreTyped ==
  /\ store \in [Acting -> [Object -> [temp : SUBSET Nat, final : SUBSET Nat]]]
  /\ missing \in [Acting -> SUBSET Object]
  /\ local_missing \in [Acting -> SUBSET Object]
WholeUnlessMissing ==
  \A p \in Acting, o \in Object :
    /\ o \notin missing[p] => Whole(p, o) /\ (p # Primary => o \notin local_missing[p])
    /\ o \notin local_missing[p] => Whole(p, o)

RecoveryInv ==
  /\ ReadsRight /\ PushesRight /\ StoreTyped /\ WholeUnlessMissing
  /\ \A o \in DOMAIN recovery_ops :
       /\ OpRight(o, recovery_ops[o])
       /\ \A p \in recovery_ops[o].missing_on : Holds(o, p)
-----------------------------------------------------------------------------
(* What is done to a read leaves its objects alone.                        *)
SameObjects(rop, new) == RopRight(new) /\ Objs(new) = Objs(rop)

(* A read is asked for again as a whole, when nothing is in progress, from *)
(* shards that it was asked from before or that hold the object.           *)
Reasked(rop, new, holders) ==
  /\ \/ new.in_progress = rop.in_progress /\ new.to_read = rop.to_read
     \/ rop.in_progress = {} /\ new.in_progress = Needed(new)
  /\ \A o \in Objs(rop) : new.to_read[o].need \subseteq rop.to_read[o].need \cup holders[o]

(* Asking adds sources of the objects that are to be read.                 *)
LEMMA DoReadRight ==
  ASSUME NEW rop, RopRight(rop)
  PROVE  /\ SameObjects(rop, do_read_op(rop))
         /\ do_read_op(rop).to_read = rop.to_read
         /\ do_read_op(rop).in_progress = rop.in_progress \cup Needed(rop)
<1> DEFINE D == DOMAIN rop.to_read
<1> DEFINE i == rop.in_progress \cup UNION {rop.to_read[o].need : o \in D}
<1> DEFINE s == rop.source_to_obj \cup UNION {rop.to_read[o].need \X {o} : o \in D}
<1> DEFINE b == rop.obj_to_source \cup UNION {{o} \X rop.to_read[o].need : o \in D}
<1> DEFINE S == do_read_op(rop)
<1>1. S = [rop EXCEPT !.in_progress = i, !.source_to_obj = s, !.obj_to_source = b]
  BY Zenon DEF do_read_op
<1>2. \A x \in s : x[2] \in D
  BY DEF RopRight, Objs
<1> HIDE DEF i, s, b, S
<1>3. S = [want_to_read |-> rop.want_to_read, to_read |-> rop.to_read,
           complete |-> rop.complete,
           do_redundant_reads |-> rop.do_redundant_reads,
           for_recovery |-> rop.for_recovery, in_progress |-> i,
           source_to_obj |-> s, obj_to_source |-> b]
  BY <1>1 DEF RopRight
<1>4. SameObjects(rop, S) /\ S.to_read = rop.to_read /\ S.in_progress = i
  BY <1>2, <1>3 DEF SameObjects, RopRight, Objs
<1>5. i = rop.in_progress \cup Needed(rop)
  BY DEF i, Needed, Objs
<1> QED
  BY <1>4, <1>5 DEF S

(* So does a read that gets another request for one of its objects.        *)
LEMMA RequestRight ==
  ASSUME NEW rop, RopRight(rop), NEW t, DOMAIN t = Objs(rop)
  PROVE  /\ SameObjects(rop, [rop EXCEPT !.to_read = t])
         /\ [rop EXCEPT !.to_read = t].to_read = t
         /\ [rop EXCEPT !.to_read = t].in_progress = rop.in_progress
<1> DEFINE S == [rop EXCEPT !.to_read = t]
<1>1. S = [want_to_read |-> rop.want_to_read, to_read |-> t,
           complete |-> rop.complete,
           do_redundant_reads |-> rop.do_redundant_reads,
           for_recovery |-> rop.for_recovery, in_progress |-> rop.in_progress,
           source_to_obj |-> rop.source_to_obj,
           obj_to_source |-> rop.obj_to_source]
  BY DEF RopRight
<1> HIDE DEF S
<1>2. SameObjects(rop, S) /\ S.to_read = t /\ S.in_progress = rop.in_progress
  BY <1>1 DEF SameObjects, RopRight, Objs
<1> QED
  BY <1>2 DEF S

(* send_all_remaining_reads leaves the objects of a read alone.            *)
LEMMA SendRight ==
  ASSUME NEW rop, RopRight(rop), NEW o, NEW holders, rop.in_progress = {}
  PROVE  LET S == send_all_remaining_reads(rop, o, holders[o])
         IN  SameObjects(rop, S) /\ Reasked(rop, S, holders)
<1> DEFINE H == holders[o]
<1> DEFINE req == [need |-> get_remaining_shards(rop, o, H), sub |-> FALSE,
                   want_attrs |-> rop.to_read[o].want_attrs
                                    /\ ~rop.complete[o].attrs]
<1> DEFINE t == [rop.to_read EXCEPT ![o] = req]
<1> DEFINE base == [rop EXCEPT !.to_read = t]
<1>1. DOMAIN t = Objs(rop)
  BY DEF Objs
<1>5. \A x \in Objs(rop) : t[x].need \subseteq rop.to_read[x].need \cup holders[x]
  <2>1. req.need \subseteq H
    BY DEF get_remaining_shards, get_all_avail_shards
  <2>2. \A x \in Objs(rop) : t[x] = IF x = o THEN req ELSE rop.to_read[x]
    BY DEF Objs
  <2> QED
    BY <2>1, <2>2
<1>2. send_all_remaining_reads(rop, o, H) = do_read_op(base)
  BY DEF send_all_remaining_reads
<1> HIDE DEF t
<1>3. SameObjects(rop, base) /\ base.to_read = t /\ base.in_progress = {}
  BY <1>1, RequestRight
<1> HIDE DEF base
<1> DEFINE S == do_read_op(base)
<1>4. /\ SameObjects(base, S) /\ S.to_read = t
      /\ S.in_progress = {} \cup Needed(base)
  BY <1>3, DoReadRight DEF SameObjects
<1> HIDE DEF S
<1>6. S.in_progress = Needed(S)
  BY <1>3, <1>4 DEF Needed, Objs
<1>7. SameObjects(rop, S) /\ Reasked(rop, S, holders)
  BY <1>3, <1>4, <1>5, <1>6 DEF SameObjects, Reasked
<1> QED
  BY <1>2, <1>7 DEF S

(* Results that come or change, and a shard that was heard.                *)
LEMMA ResultRight ==
  ASSUME NEW rop, RopRight(rop), NEW c
  PROVE  /\ SameObjects(rop, [rop EXCEPT !.complete = c])
         /\ [rop EXCEPT !.complete = c].to_read = rop.to_read
         /\ [rop EXCEPT !.complete = c].in_progress = rop.in_progress
<1> DEFINE S == [rop EXCEPT !.complete = c]
<1>1. S = [want_to_read |-> rop.want_to_read, to_read |-> rop.to_read,
           complete |-> c, do_redundant_reads |-> rop.do_redundant_reads,
           for_recovery |-> rop.for_recovery, in_progress |-> rop.in_progress,
           source_to_obj |-> rop.source_to_obj,
           obj_to_source |-> rop.obj_to_source]
  BY DEF RopRight
<1> HIDE DEF S
<1>2. /\ SameObjects(rop, S) /\ S.to_read = rop.to_read
      /\ S.in_progress = rop.in_progress
  BY <1>1 DEF SameObjects, RopRight, Objs
<1> QED
  BY <1>2 DEF S

Hears(rop, c, i, S) == S = [rop EXCEPT !.complete = c, !.in_progress = i]

(* So does noting results and who answered.                                *)
LEMMA HeardRight ==
  ASSUME NEW rop, RopRight(rop), NEW c, NEW i, NEW S, Hears(rop, c, i, S)
  PROVE  SameObjects(rop, S) /\ S.to_read = rop.to_read /\ S.in_progress = i
<1>1. S = [want_to_read |-> rop.want_to_read, to_read |-> rop.to_read,
           complete |-> c, do_redundant_reads |-> rop.do_redundant_reads,
           for_recovery |-> rop.for_recovery, in_progress |-> i,
           source_to_obj |-> rop.source_to_obj,
           obj_to_source |-> rop.obj_to_source]
  BY DEF RopRight, Hears
<1> QED
  BY <1>1 DEF SameObjects, RopRight, Objs

(* A turn of the loop over the objects, and the loop.                      *)
LoopRight(rop, e, holders) ==
  /\ e = [rop |-> e.rop, done |-> e.done, assert |-> e.assert]
  /\ SameObjects(rop, e.rop) /\ Reasked(rop, e.rop, holders)
  /\ e.assert \in {""} \cup LoopAsserts

(* Asking again twice is asking again.                                     *)
LEMMA ReaskedTwice ==
  ASSUME NEW a, NEW b, NEW c, NEW holders, SameObjects(a, b),
         Reasked(a, b, holders), Reasked(b, c, holders)
  PROVE  Reasked(a, c, holders)
<1>1. Objs(b) = Objs(a)
  BY DEF SameObjects
<1>2. \A o \in Objs(a) : c.to_read[o].need \subseteq a.to_read[o].need \cup holders[o]
  BY <1>1 DEF Reasked
<1>3. \/ c.in_progress = a.in_progress /\ c.to_read = a.to_read
      \/ a.in_progress = {} /\ c.in_progress = Needed(c)
  <2>1. c.to_read = b.to_read => Needed(c) = Needed(b)
    BY DEF Needed, Objs
  <2> QED
    BY <2>1 DEF Reasked
<1> QED
  BY <1>2, <1>3 DEF Reasked

TurnGives(new, r, d, x) == new = [rop |-> r, done |-> d, assert |-> x]

(* The result of a turn, by what it does to the read.                      *)
LEMMA TurnGivesRight ==
  ASSUME NEW rop, NEW e, NEW holders, LoopRight(rop, e, holders),
         NEW r, SameObjects(e.rop, r), Reasked(e.rop, r, holders),
         NEW d, NEW x \in {""} \cup LoopAsserts, NEW new, TurnGives(new, r, d, x)
  PROVE  LoopRight(rop, new, holders)
<1>1. new = [rop |-> r, done |-> d, assert |-> x]
  BY DEF TurnGives
<1>2. new.rop = r /\ new.done = d /\ new.assert = x
  BY <1>1
<1>3. Objs(e.rop) = Objs(rop) /\ Reasked(rop, r, holders)
  BY ReaskedTwice DEF LoopRight, SameObjects
<1> QED
  BY <1>1, <1>2, <1>3 DEF LoopRight, SameObjects

(* So does one turn of the loop over the objects.                          *)
LEMMA TurnRight ==
  ASSUME NEW rop, NEW e, NEW holders, LoopRight(rop, e, holders), NEW o
  PROVE  LoopRight(rop, Evaluate(e, o, holders), holders)
<1>1. /\ e = [rop |-> e.rop, done |-> e.done, assert |-> e.assert]
      /\ e.assert \in {""} \cup LoopAsserts /\ RopRight(e.rop)
  BY DEF LoopRight, SameObjects
<1>2. SameObjects(e.rop, e.rop) /\ Reasked(e.rop, e.rop, holders)
  BY <1>1 DEF SameObjects, Reasked
<1>3. ASSUME NEW new, NEW x \in LoopAsserts, new = [e EXCEPT !.assert = x]
      PROVE  LoopRight(rop, new, holders)
  <2>1. TurnGives(new, e.rop, e.done, x)
    BY <1>1, <1>3 DEF TurnGives
  <2>2. x \in {""} \cup LoopAsserts
    OBVIOUS
  <2> QED
    BY <1>2, <2>1, <2>2, TurnGivesRight
<1>4. ASSUME NEW new, NEW res,
             new = [e EXCEPT !.rop = WithResult(e.rop, o, res), !.done = @ + 1]
      PROVE  LoopRight(rop, new, holders)
  <2> DEFINE r == WithResult(e.rop, o, res)
  <2>1. SameObjects(e.rop, r) /\ Reasked(e.rop, r, holders)
    BY <1>1, ResultRight DEF WithResult, Reasked
  <2> HIDE DEF r
  <2>2. TurnGives(new, r, e.done + 1, e.assert)
    BY <1>1, <1>4 DEF TurnGives, r
  <2> QED
    BY <1>1, <2>1, <2>2, TurnGivesRight
<1>5. ASSUME NEW new, TurnSends(e, o, holders[o]),
             new = [e EXCEPT !.rop = send_all_remaining_reads(e.rop, o, holders[o])]
      PROVE  LoopRight(rop, new, holders)
  <2> DEFINE r == send_all_remaining_reads(e.rop, o, holders[o])
  <2>1. SameObjects(e.rop, r) /\ Reasked(e.rop, r, holders)
    BY <1>1, <1>5, SendRight DEF TurnSends
  <2> HIDE DEF r
  <2>2. TurnGives(new, r, e.done, e.assert)
    BY <1>1, <1>5 DEF TurnGives, r
  <2> QED
    BY <1>1, <2>1, <2>2, TurnGivesRight
<1>6. PICK new : new = Evaluate(e, o, holders)
  OBVIOUS
<1>7. \/ new = e
      \/ \E x \in LoopAsserts : new = [e EXCEPT !.assert = x]
      \/ \E res : new = [e EXCEPT !.rop = WithResult(e.rop, o, res), !.done = @ + 1]
      \/ /\ TurnSends(e, o, holders[o])
         /\ new = [e EXCEPT !.rop = send_all_remaining_reads(e.rop, o, holders[o])]
  BY <1>6, EvaluateCases, Zenon
<1>8. LoopRight(rop, new, holders)
  BY <1>3, <1>4, <1>5, <1>7, Zenon
<1> QED
  BY <1>6, <1>8

(* So does the whole loop, by induction over its turns.                    *)
LEMMA EvaluatedRight ==
  ASSUME NEW rop, RopRight(rop), NEW holders
  PROVE  /\ SameObjects(rop, Evaluated(rop, holders).rop)
         /\ Reasked(rop, Evaluated(rop, holders).rop, holders)
         /\ Evaluated(rop, holders).assert \in {""} \cup LoopAsserts
<1> DEFINE start == LoopStart(rop)
<1>1. LoopRight(rop, start, holders)
  <2>1. /\ start = [rop |-> rop, done |-> 0, assert |-> ""]
        /\ start.rop = rop /\ start.done = 0 /\ start.assert = ""
    BY DEF LoopStart
  <2> HIDE DEF start
  <2> QED
    BY <2>1 DEF LoopRight, SameObjects, Reasked
<1>2. CASE ~(rop.do_redundant_reads \/ rop.in_progress = {})
  <2>1. Evaluated(rop, holders) = start
    BY <1>2, Zenon DEF Evaluated, LoopStart
  <2> QED
    BY <1>1, <2>1 DEF LoopRight
<1>3. CASE rop.do_redundant_reads \/ rop.in_progress = {}
  <2>1. PICK e : /\ e[0] = LoopStart(rop)
                 /\ \A n \in 1 .. NObjects : e[n] = Evaluate(e[n - 1], n, holders)
                 /\ Evaluated(rop, holders) = e[NObjects]
    BY <1>3, EvaluatedIsLoop
  <2> DEFINE T == {n \in Nat : n <= NObjects => LoopRight(rop, e[n], holders)}
  <2>2. 0 \in T
    BY <1>1, <2>1
  <2>3. \A n \in Nat : n \in T => n + 1 \in T
    <3> SUFFICES ASSUME NEW n \in Nat, n \in T, n + 1 <= NObjects
                 PROVE  LoopRight(rop, e[n + 1], holders)
      OBVIOUS
    <3>1. n <= NObjects /\ n + 1 \in 1 .. NObjects /\ (n + 1) - 1 = n
      OBVIOUS
    <3>2. LoopRight(rop, e[n], holders)
      BY <3>1
    <3>3. e[n + 1] = Evaluate(e[n], n + 1, holders)
      BY <2>1, <3>1
    <3> QED
      BY <3>2, <3>3, TurnRight
  <2> HIDE DEF T
  <2>4. NObjects \in T
    BY <2>2, <2>3, SetInduction
  <2>5. LoopRight(rop, e[NObjects], holders)
    BY <2>4 DEF T
  <2> QED
    BY <2>1, <2>5 DEF LoopRight
<1> QED
  BY <1>2, <1>3

(* A read that starts, a reply, and the loss of a source.                  *)
LEMMA StartRight ==
  ASSUME NEW want, NEW t, NEW red, NEW rec
  PROVE  LET S == start_read_op(want, t, red, rec)
         IN  /\ RopRight(S) /\ Objs(S) = DOMAIN t
             /\ S.to_read = t /\ S.in_progress = Needed(S)
<1> DEFINE base == [want_to_read |-> want, to_read |-> t,
                    complete |-> [o \in DOMAIN t |-> NewResult],
                    do_redundant_reads |-> red, for_recovery |-> rec,
                    in_progress |-> {}, source_to_obj |-> {}, obj_to_source |-> {}]
<1>1. start_read_op(want, t, red, rec) = do_read_op(base)
  BY DEF start_read_op
<1>2. /\ RopRight(base) /\ Objs(base) = DOMAIN t
      /\ base.to_read = t /\ base.in_progress = {}
  BY DEF RopRight, Objs
<1> HIDE DEF base
<1> DEFINE S == do_read_op(base)
<1>3. /\ SameObjects(base, S) /\ S.to_read = base.to_read
      /\ S.in_progress = base.in_progress \cup Needed(base)
  BY <1>2, DoReadRight
<1> HIDE DEF S
<1>4. Needed(S) = Needed(base)
  BY <1>3 DEF Needed, Objs
<1>5. /\ RopRight(S) /\ Objs(S) = DOMAIN t /\ S.to_read = t /\ S.in_progress = Needed(S)
  BY <1>2, <1>3, <1>4 DEF SameObjects
<1> QED
  BY <1>1, <1>5 DEF S

(* So does a reply.                                                        *)
LEMMA ReceivedRight ==
  ASSUME NEW rop, RopRight(rop), NEW m, NEW bad
  PROVE  LET S == Received(rop, m, bad)
         IN  /\ SameObjects(rop, S) /\ S.to_read = rop.to_read
             /\ S.in_progress = rop.in_progress \ {m.to}
<1> DEFINE read == (m.objects \ bad) \cap DOMAIN rop.to_read
<1> DEFINE At(o) == IF o \in DOMAIN rop.complete THEN rop.complete[o]
                    ELSE [NewResult EXCEPT !.returned = FALSE]
<1> DEFINE c == [o \in DOMAIN rop.complete \cup bad |->
                   HeardResult(At(o), o, m, read, bad)]
<1> DEFINE i == rop.in_progress \ {m.to}
<1>1. Received(rop, m, bad) = [rop EXCEPT !.complete = c, !.in_progress = i]
  BY DEF Received, HeardResult
<1> DEFINE S == Received(rop, m, bad)
<1>2. Hears(rop, c, i, S)
  BY <1>1 DEF Hears
<1> HIDE DEF c, i, S
<1>3. SameObjects(rop, S) /\ S.to_read = rop.to_read /\ S.in_progress = i
  BY <1>2, HeardRight
<1> QED
  BY <1>3 DEF S, i

(* filter_read_op takes out the cancelled objects and no others.           *)
LEMMA FilteredRight ==
  ASSUME NEW rop, RopRight(rop), Objs(rop) \subseteq Object, NEW gone
  PROVE  LET S == filter_read_op(rop, gone)
         IN  /\ RopRight(S) /\ Objs(S) = Objs(rop) \ Cancelled(rop, gone)
             /\ Cancelled(rop, gone) \subseteq Objs(rop)
             /\ S.in_progress \subseteq rop.in_progress
             /\ rop.in_progress \ gone \subseteq S.in_progress
             /\ \A o \in Objs(S) : S.to_read[o] = rop.to_read[o]
<1> DEFINE C == Cancelled(rop, gone)
<1> DEFINE i == rop.in_progress \
                  {p \in gone : \E o \in Object : <<p, o>> \in rop.source_to_obj}
<1> DEFINE s == {x \in rop.source_to_obj : x[2] \notin C}
<1> DEFINE t == [o \in DOMAIN rop.to_read \ C |-> rop.to_read[o]]
<1> DEFINE c == [o \in DOMAIN rop.complete \ C |-> rop.complete[o]]
<1> DEFINE S == filter_read_op(rop, gone)
<1>1. S = [rop EXCEPT !.in_progress = i, !.source_to_obj = s, !.to_read = t,
                      !.complete = c]
  BY DEF filter_read_op
<1>2. C \subseteq Objs(rop)
  BY DEF Cancelled, RopRight
<1>3. /\ DOMAIN t = Objs(rop) \ C /\ i \subseteq rop.in_progress
      /\ \A x \in s : x[2] \in Objs(rop) \ C
      /\ rop.in_progress \ gone \subseteq i
      /\ \A o \in DOMAIN t : t[o] = rop.to_read[o]
  BY DEF Objs, RopRight
<1> HIDE DEF C, i, s, t, c, S
<1>4. S = [want_to_read |-> rop.want_to_read, to_read |-> t, complete |-> c,
           do_redundant_reads |-> rop.do_redundant_reads,
           for_recovery |-> rop.for_recovery, in_progress |-> i,
           source_to_obj |-> s, obj_to_source |-> rop.obj_to_source]
  BY <1>1 DEF RopRight
<1>5. /\ RopRight(S) /\ Objs(S) = Objs(rop) \ C /\ S.in_progress \subseteq rop.in_progress
      /\ rop.in_progress \ gone \subseteq S.in_progress
      /\ \A o \in Objs(S) : S.to_read[o] = rop.to_read[o]
  <2>1. /\ S.to_read = t /\ S.in_progress = i /\ S.source_to_obj = s
    BY <1>4
  <2>2. Objs(S) = Objs(rop) \ C
    BY <1>3, <2>1 DEF Objs
  <2>3. RopRight(S)
    BY <1>3, <1>4, <2>1, <2>2 DEF RopRight
  <2>4. \A o \in Objs(S) : S.to_read[o] = rop.to_read[o]
    BY <1>3, <2>1, <2>2
  <2> QED
    BY <1>3, <2>1, <2>2, <2>3, <2>4
<1> QED
  BY <1>2, <1>5 DEF C, S
-----------------------------------------------------------------------------
(* At first no recovery runs and what is not missing is whole.             *)
LEMMA RecoveryInvInit == Init => RecoveryInv
<1> SUFFICES ASSUME Init PROVE RecoveryInv
  OBVIOUS
<1>1. DOMAIN <<>> = {}
  OBVIOUS
<1>2. /\ DOMAIN tid_to_read_map = {} /\ DOMAIN recovery_ops = {} /\ recovering = {}
      /\ finishing = {} /\ next_tid = 1 /\ pushes = {} /\ push_replies = {}
  BY <1>1 DEF Init
<1>3. missing \in [Acting -> SUBSET Object] /\ local_missing = missing
  BY DEF Init
<1>4. /\ store \in [Acting -> [Object -> [temp : SUBSET Nat, final : SUBSET Nat]]]
      /\ \A p \in Acting, o \in Object : o \notin missing[p] => Whole(p, o)
  <2> DEFINE F(p, o) == [temp |-> {}, final |-> IF o \in missing[p] THEN {} ELSE Piece(o)]
  <2>1. store = [p \in Acting |-> [o \in Object |-> F(p, o)]]
    BY DEF Init
  <2>2. \A p \in Acting, o \in Object :
          /\ F(p, o) \in [temp : SUBSET Nat, final : SUBSET Nat]
          /\ o \notin missing[p] => F(p, o).final = Piece(o)
    BY DEF Piece
  <2> HIDE DEF F
  <2> QED
    BY <2>1, <2>2 DEF Whole
<1> QED
  BY <1>2, <1>3, <1>4 DEF RecoveryInv, ReadsRight, PushesRight, StoreTyped,
     WholeUnlessMissing

(* A read that starts is of objects that are not read yet.                 *)
LEMMA ReadsStart ==
  ASSUME ReadsRight, NEW ops, StartReads(ops), finishing' = finishing,
         DOMAIN recovery_ops' \subseteq Object, recovering' = DOMAIN recovery_ops',
         \A o \in DOMAIN ops :
           o \in DOMAIN recovery_ops' /\ recovery_ops'[o].state = "READING",
         \A t \in DOMAIN tid_to_read_map : \A o \in Objs(tid_to_read_map[t]) :
           /\ o \notin DOMAIN ops
           /\ o \in DOMAIN recovery_ops' /\ recovery_ops'[o].state = "READING"
  PROVE  ReadsRight'
<1> DEFINE want == [o \in DOMAIN ops |-> Want(ops[o])]
<1> DEFINE t == [o \in DOMAIN ops |-> Request(o, ops[o])]
<1> DEFINE rop == start_read_op(want, t, FALSE, TRUE)
<1>1. /\ next_tid' = next_tid + 1
      /\ tid_to_read_map' = With(tid_to_read_map, [x \in {next_tid} |-> rop])
  <2>1. PICK to_read \in {t} : \E r \in {start_read_op(want, to_read, FALSE, TRUE)} :
          /\ next_tid' = next_tid + 1
          /\ tid_to_read_map' = With(tid_to_read_map, [x \in {next_tid} |-> r])
    BY Zenon DEF StartReads
  <2>2. to_read = t
    BY <2>1
  <2> HIDE DEF t, want
  <2> QED
    BY <2>1, <2>2
<1>2. RopRight(rop) /\ Objs(rop) = DOMAIN ops
  <2>1. DOMAIN t = DOMAIN ops
    OBVIOUS
  <2> HIDE DEF t, want
  <2> QED
    <3>1. ASSUME NEW red \in BOOLEAN, NEW rec \in BOOLEAN, NEW r,
                 r = start_read_op(want, t, red, rec)
          PROVE  RopRight(r) /\ Objs(r) = DOMAIN t
      BY <3>1, StartRight
    <3>2. FALSE \in BOOLEAN /\ TRUE \in BOOLEAN
      OBVIOUS
    <3>3. RopRight(rop) /\ Objs(rop) = DOMAIN t
      BY <3>1, <3>2, Zenon
    <3> QED
      BY <2>1, <3>3
<1> HIDE DEF rop
<1>3. next_tid \in Nat /\ next_tid \notin DOMAIN tid_to_read_map
  BY DEF ReadsRight
<1>4. /\ DOMAIN tid_to_read_map' = DOMAIN tid_to_read_map \cup {next_tid}
      /\ tid_to_read_map'[next_tid] = rop
      /\ \A x \in DOMAIN tid_to_read_map : tid_to_read_map'[x] = tid_to_read_map[x]
  BY <1>1, <1>3 DEF With
<1>5. next_tid' \in Nat /\ \A x \in DOMAIN tid_to_read_map' : x \in Nat /\ x < next_tid'
  <2>1. \A x \in DOMAIN tid_to_read_map : x \in Nat /\ x < next_tid
    BY DEF ReadsRight
  <2>2. \A x \in DOMAIN tid_to_read_map : x < next_tid + 1
    BY <1>3, <2>1
  <2> QED
    BY <1>1, <1>3, <1>4, <2>1, <2>2
<1>6. \A x \in DOMAIN tid_to_read_map' :
        /\ RopRight(tid_to_read_map'[x])
        /\ \A o \in Objs(tid_to_read_map'[x]) :
             o \in DOMAIN recovery_ops' /\ recovery_ops'[o].state = "READING"
  BY <1>2, <1>4 DEF ReadsRight
<1>7. \A x, u \in DOMAIN tid_to_read_map' :
        Objs(tid_to_read_map'[x]) \cap Objs(tid_to_read_map'[u]) # {} => x = u
  BY <1>2, <1>4 DEF ReadsRight
<1>8. \A x \in finishing' : /\ x \in DOMAIN tid_to_read_map'
                            /\ tid_to_read_map'[x].in_progress = {}
  BY <1>4 DEF ReadsRight
<1> QED
  BY <1>5, <1>6, <1>7, <1>8 DEF ReadsRight

(* run_recovery_op begins recoveries of objects that had none, under a new *)
(* tid.                                                                    *)
LEMMA RecoveryStarts ==
  ASSUME RecoveryInv, NEW S \in SUBSET Object, run_recovery_op(S)
  PROVE  RecoveryInv'
<1> DEFINE ops == [o \in S |-> RecoveryOp(o)]
<1>1. /\ S \cap recovering = {} /\ recovering' = recovering \cup S
      /\ recovery_ops' = With(recovery_ops, ops) /\ StartReads(ops)
      /\ UNCHANGED <<finishing, missing, pushes, push_replies, store, local_missing>>
  BY DEF run_recovery_op, viewVars, pushVars, shardVars
<1>2. DOMAIN ops = S /\ \A o \in S : ops[o] = RecoveryOp(o)
  OBVIOUS
<1> HIDE DEF ops
<1>3. /\ DOMAIN recovery_ops' = DOMAIN recovery_ops \cup S
      /\ S \cap DOMAIN recovery_ops = {}
      /\ \A o \in S : recovery_ops'[o] = RecoveryOp(o)
      /\ \A o \in DOMAIN recovery_ops : recovery_ops'[o] = recovery_ops[o]
  BY <1>1, <1>2 DEF With, RecoveryInv, ReadsRight
<1>4. \A o \in S : RecoveryOp(o).state = "READING"
  BY DEF RecoveryOp
<1>5. ReadsRight'
  <2>1. /\ DOMAIN recovery_ops' \subseteq Object /\ recovering' = DOMAIN recovery_ops'
        /\ \A o \in DOMAIN ops :
             o \in DOMAIN recovery_ops' /\ recovery_ops'[o].state = "READING"
    BY <1>1, <1>2, <1>3, <1>4 DEF RecoveryInv, ReadsRight
  <2>2. \A t \in DOMAIN tid_to_read_map : \A o \in Objs(tid_to_read_map[t]) :
           /\ o \notin DOMAIN ops
           /\ o \in DOMAIN recovery_ops' /\ recovery_ops'[o].state = "READING"
    BY <1>2, <1>3 DEF RecoveryInv, ReadsRight
  <2> QED
    BY <1>1, <2>1, <2>2, ReadsStart DEF RecoveryInv
<1>6. PushesRight'
  BY <1>1, <1>3 DEF RecoveryInv, PushesRight, PushRight, ReplyRight
<1>7. StoreTyped' /\ WholeUnlessMissing'
  BY <1>1 DEF RecoveryInv, StoreTyped, WholeUnlessMissing, Whole
<1>8. \A o \in DOMAIN recovery_ops : \A p \in Acting : Holds(o, p) => Holds(o, p)'
  BY <1>1, <1>3 DEF Holds, Got, Whole
<1>9. ASSUME NEW o \in DOMAIN recovery_ops
      PROVE  /\ OpRight(o, recovery_ops'[o])
             /\ \A p \in recovery_ops'[o].missing_on : Holds(o, p)'
  <2>1. OpRight(o, recovery_ops[o]) /\ recovery_ops'[o] = recovery_ops[o]
        /\ \A p \in recovery_ops[o].missing_on : Holds(o, p)
    BY <1>3 DEF RecoveryInv
  <2>2. recovery_ops[o].missing_on \subseteq Acting
    BY <2>1 DEF OpRight, RecoveryOpType
  <2> QED
    BY <1>8, <2>1, <2>2
<1>10. ASSUME NEW o \in S
       PROVE  /\ OpRight(o, recovery_ops'[o])
              /\ \A p \in recovery_ops'[o].missing_on : Holds(o, p)'
  <2>1. /\ RecoveryOp(o) \in RecoveryOpType /\ RecoveryOp(o).waiting_on_pushes = {}
        /\ RecoveryOp(o).missing_on = {p \in Acting : o \in missing[p]}
        /\ RecoveryOp(o).progress = 0 /\ RecoveryOp(o).state = "READING"
    BY DEF RecoveryOp, RecoveryOpType
  <2>2. Pieces[o] \in Nat \ {0} /\ recovery_ops'[o] = RecoveryOp(o)
    BY <1>3
  <2>3. \A p \in RecoveryOp(o).missing_on : o \in missing'[p] /\ Got(p, o, 0)'
    BY <1>1, <2>1, <2>2 DEF Got
  <2>4. ~ \E x \in pushes' : x.object = o
    BY <1>1, <1>3 DEF RecoveryInv, PushesRight, PushRight
  <2>5. OpRight(o, RecoveryOp(o))
    BY <2>1, <2>2 DEF OpRight
  <2>6. \A p \in RecoveryOp(o).missing_on : Holds(o, p)'
    BY <2>1, <2>2, <2>3, <2>4 DEF Holds
  <2> QED
    BY <2>2, <2>5, <2>6
<1> QED
  BY <1>3, <1>5, <1>6, <1>7, <1>9, <1>10 DEF RecoveryInv
-----------------------------------------------------------------------------
(* A read that is complete: what was read goes to those that miss it, the  *)
(* objects that failed are given up.                                       *)
CompletedOp(o) ==
  [recovery_ops[o] EXCEPT !.state = "WRITING", !.obc = TRUE, !.xattrs = TRUE,
                          !.progress = @ + 1,
                          !.waiting_on_pushes = recovery_ops[o].missing_on]

(* What handle_recovery_read_complete makes of a recovery.                 *)
LEMMA CompletedFields ==
  ASSUME NEW o, recovery_ops[o] \in RecoveryOpType
  PROVE  /\ CompletedOp(o) \in RecoveryOpType /\ CompletedOp(o).state = "WRITING"
         /\ CompletedOp(o).progress = recovery_ops[o].progress + 1
         /\ CompletedOp(o).waiting_on_pushes = recovery_ops[o].missing_on
         /\ CompletedOp(o).missing_on = recovery_ops[o].missing_on
         /\ CompletedOp(o).xattrs = TRUE
<1> DEFINE op == recovery_ops[o]
<1> DEFINE n == op.progress + 1
<1> DEFINE S == CompletedOp(o)
<1>1. /\ op = [state |-> op.state, missing_on |-> op.missing_on,
               progress |-> op.progress, obc |-> op.obc, xattrs |-> op.xattrs,
               waiting_on_pushes |-> op.waiting_on_pushes]
      /\ op.missing_on \in SUBSET Acting /\ n \in Nat
  BY DEF RecoveryOpType
<1>2. S = [op EXCEPT !.state = "WRITING", !.obc = TRUE, !.xattrs = TRUE,
                     !.progress = n, !.waiting_on_pushes = op.missing_on]
  BY Zenon DEF CompletedOp
<1> HIDE DEF op, n, S
<1>3. S = [state |-> "WRITING", missing_on |-> op.missing_on, progress |-> n,
           obc |-> TRUE, xattrs |-> TRUE, waiting_on_pushes |-> op.missing_on]
  BY <1>1, <1>2
<1>4. /\ S \in RecoveryOpType /\ S.state = "WRITING" /\ S.progress = n
      /\ S.waiting_on_pushes = op.missing_on /\ S.missing_on = op.missing_on
      /\ S.xattrs = TRUE
  BY <1>1, <1>3 DEF RecoveryOpType
<1> QED
  BY <1>4 DEF op, n, S

(* What complete_read_op does, D being the objects of the read.            *)
Completes(tid, D, failed) ==
  /\ failed \subseteq D
  /\ DOMAIN recovery_ops' = DOMAIN recovery_ops \ failed
  /\ \A o \in DOMAIN recovery_ops \ failed :
       recovery_ops'[o] = IF o \in D THEN CompletedOp(o) ELSE recovery_ops[o]
  /\ pushes' = pushes \cup
       UNION {Pushed(o, recovery_ops[o]) : o \in (D \ failed) \cap DOMAIN recovery_ops}
  /\ recovering' = recovering \ failed
  /\ \E E : missing' = [p \in Acting |-> missing[p] \cup {o \in failed : p \in E[o]}]
  /\ DOMAIN tid_to_read_map' = DOMAIN tid_to_read_map \ {tid}
  /\ \A t \in DOMAIN tid_to_read_map' : tid_to_read_map'[t] = tid_to_read_map[t]

(* complete_read_op drops the recoveries of the objects that failed and    *)
(* turns the others to WRITING.                                            *)
LEMMA CompleteParts ==
  ASSUME NEW tid, NEW from, NEW rop, complete_read_op(tid, from, rop)
  PROVE  Completes(tid, Objs(rop), {o \in Objs(rop) : ~Good(rop.complete[o])})
<1> DEFINE D == Objs(rop)
<1> DEFINE failed == {o \in D : ~Good(rop.complete[o])}
<1> DEFINE read == (D \ failed) \cap DOMAIN recovery_ops
<1> DEFINE E == [o \in D |-> rop.complete[o].errors]
<1>1. /\ recovery_ops' = [o \in DOMAIN recovery_ops \ failed |->
                            IF o \in read THEN CompletedOp(o) ELSE recovery_ops[o]]
      /\ pushes' = pushes \cup UNION {Pushed(o, recovery_ops[o]) : o \in read}
      /\ recovering' = recovering \ failed
      /\ tid_to_read_map' = Without(tid_to_read_map, {tid})
  BY DEF complete_read_op, CompletedOp, Objs
<1>2. missing' = [p \in Acting |-> missing[p] \cup {o \in failed : p \in E[o]}]
  <2>1. missing' = [p \in Acting |-> missing[p] \cup
                      {o \in failed : p \in rop.complete[o].errors}]
    BY DEF complete_read_op, Objs
  <2>2. \A p : {o \in failed : p \in rop.complete[o].errors} = {o \in failed : p \in E[o]}
    OBVIOUS
  <2> HIDE DEF E, failed
  <2> QED
    BY <2>1, <2>2
<1>3. \A o \in DOMAIN recovery_ops \ failed : o \in D <=> o \in read
  OBVIOUS
<1>4. failed \subseteq D
  OBVIOUS
<1> HIDE DEF failed, D, E
<1>5. \E F : missing' = [p \in Acting |-> missing[p] \cup {o \in failed : p \in F[o]}]
  BY <1>2
<1>6. /\ DOMAIN tid_to_read_map' = DOMAIN tid_to_read_map \ {tid}
      /\ \A t \in DOMAIN tid_to_read_map' : tid_to_read_map'[t] = tid_to_read_map[t]
  BY <1>1 DEF Without
<1>7. /\ DOMAIN recovery_ops' = DOMAIN recovery_ops \ failed
      /\ \A o \in DOMAIN recovery_ops \ failed :
           recovery_ops'[o] = IF o \in D THEN CompletedOp(o) ELSE recovery_ops[o]
  BY <1>1, <1>3
<1>8. Completes(tid, D, failed)
  BY <1>1, <1>4, <1>5, <1>6, <1>7 DEF Completes
<1> QED
  BY <1>8 DEF D, failed

(* The pushes of one object.                                               *)
LEMMA PushedRight ==
  ASSUME NEW o, NEW op, op \in RecoveryOpType, NEW x \in Pushed(o, op)
  PROVE  /\ x = [object |-> x.object, to |-> x.to, before |-> x.before, after |-> x.after]
         /\ x.object = o /\ x.to \in op.missing_on
         /\ x.before = op.progress /\ x.after = op.progress + 1
BY DEF Pushed

(* continue_recovery_op pushes to every shard that misses the object.      *)
LEMMA PushedAll ==
  ASSUME NEW o, NEW op, NEW p \in op.missing_on
  PROVE  \E x \in Pushed(o, op) : x.object = o /\ x.to = p
<1> DEFINE x == [object |-> o, to |-> p, before |-> op.progress, after |-> op.progress + 1]
<1>1. x \in Pushed(o, op) /\ x.object = o /\ x.to = p
  BY DEF Pushed
<1> QED
  BY <1>1

(* A read that completes: its recoveries wait for pushes to all shards that*)
(* had the pieces before, or are gone.                                     *)
LEMMA RecoveryCompletes ==
  ASSUME RecoveryInv, NEW tid \in DOMAIN tid_to_read_map, NEW D,
         D = Objs(tid_to_read_map[tid]), NEW failed, Completes(tid, D, failed),
         finishing' = finishing \ {tid},
         UNCHANGED <<next_tid, push_replies, store, local_missing>>
  PROVE  RecoveryInv'
<1>1. /\ \A o \in D : o \in DOMAIN recovery_ops /\ recovery_ops[o].state = "READING"
      /\ D \subseteq Object /\ failed \subseteq D
  BY DEF RecoveryInv, ReadsRight, Completes
<1>2. /\ DOMAIN recovery_ops' = DOMAIN recovery_ops \ failed
      /\ \A o \in DOMAIN recovery_ops' :
           recovery_ops'[o] = IF o \in D THEN CompletedOp(o) ELSE recovery_ops[o]
      /\ \A o \in DOMAIN recovery_ops : recovery_ops[o] \in RecoveryOpType
  BY DEF Completes, RecoveryInv, OpRight
<1>3. ReadsRight'
  <2>1. \A t \in DOMAIN tid_to_read_map' :
          /\ t \in DOMAIN tid_to_read_map /\ t # tid
          /\ tid_to_read_map'[t] = tid_to_read_map[t]
          /\ Objs(tid_to_read_map[t]) \cap D = {}
    BY DEF Completes, RecoveryInv, ReadsRight
  <2>2. DOMAIN recovery_ops' \subseteq Object /\ recovering' = DOMAIN recovery_ops'
    BY <1>2 DEF Completes, RecoveryInv, ReadsRight
  <2>3. \A t \in DOMAIN tid_to_read_map' : \A o \in Objs(tid_to_read_map'[t]) :
          o \in DOMAIN recovery_ops' /\ recovery_ops'[o].state = "READING"
    <3> SUFFICES ASSUME NEW t \in DOMAIN tid_to_read_map',
                        NEW o \in Objs(tid_to_read_map'[t])
                 PROVE  o \in DOMAIN recovery_ops' /\ recovery_ops'[o].state = "READING"
      OBVIOUS
    <3>1. o \in Objs(tid_to_read_map[t]) /\ o \notin D
      BY <2>1
    <3>2. o \in DOMAIN recovery_ops /\ recovery_ops[o].state = "READING"
      BY <2>1, <3>1 DEF RecoveryInv, ReadsRight
    <3> QED
      BY <1>1, <1>2, <3>1, <3>2
  <2>4. \A t \in DOMAIN tid_to_read_map' : RopRight(tid_to_read_map'[t])
    BY <2>1 DEF RecoveryInv, ReadsRight
  <2>5. \A t, u \in DOMAIN tid_to_read_map' :
          Objs(tid_to_read_map'[t]) \cap Objs(tid_to_read_map'[u]) # {} => t = u
    BY <2>1 DEF RecoveryInv, ReadsRight
  <2>6. \A t \in finishing' : /\ t \in DOMAIN tid_to_read_map'
                              /\ tid_to_read_map'[t].in_progress = {}
    BY <2>1 DEF RecoveryInv, ReadsRight, Completes
  <2>7. next_tid' \in Nat /\ \A t \in DOMAIN tid_to_read_map' : t \in Nat /\ t < next_tid'
    BY <2>1 DEF RecoveryInv, ReadsRight
  <2> QED
    BY <2>2, <2>3, <2>4, <2>5, <2>6, <2>7 DEF ReadsRight
<1>4. \A x \in pushes : x.object \notin D
  BY <1>1 DEF RecoveryInv, PushesRight, PushRight
<1>5. \A r \in push_replies : r.object \notin D
  BY <1>1 DEF RecoveryInv, PushesRight, ReplyRight
<1>6. \A x \in pushes' \ pushes : \E o \in D \ failed : x \in Pushed(o, recovery_ops[o])
  BY DEF Completes
<1>7. pushes \subseteq pushes'
  BY DEF Completes
<1>8. \A o \in D \ failed :
        /\ o \in DOMAIN recovery_ops' /\ recovery_ops'[o] = CompletedOp(o)
        /\ o \in DOMAIN recovery_ops /\ recovery_ops[o] \in RecoveryOpType
        /\ recovery_ops[o].progress \in Nat
        /\ CompletedOp(o) \in RecoveryOpType /\ CompletedOp(o).state = "WRITING"
        /\ CompletedOp(o).progress = recovery_ops[o].progress + 1
        /\ CompletedOp(o).waiting_on_pushes = recovery_ops[o].missing_on
        /\ CompletedOp(o).missing_on = recovery_ops[o].missing_on
  <2> SUFFICES ASSUME NEW o \in D \ failed
               PROVE  /\ o \in DOMAIN recovery_ops' /\ recovery_ops'[o] = CompletedOp(o)
                      /\ o \in DOMAIN recovery_ops /\ recovery_ops[o] \in RecoveryOpType
                      /\ recovery_ops[o].progress \in Nat
                      /\ CompletedOp(o) \in RecoveryOpType
                      /\ CompletedOp(o).state = "WRITING"
                      /\ CompletedOp(o).progress = recovery_ops[o].progress + 1
                      /\ CompletedOp(o).waiting_on_pushes = recovery_ops[o].missing_on
                      /\ CompletedOp(o).missing_on = recovery_ops[o].missing_on
    OBVIOUS
  <2>1. recovery_ops[o] \in RecoveryOpType
    BY <1>1, <1>2
  <2>2. recovery_ops[o].progress \in Nat
    BY <2>1 DEF RecoveryOpType
  <2> QED
    BY <1>1, <1>2, <2>1, <2>2, CompletedFields
<1>9. \A o \in DOMAIN recovery_ops' \ D :
        o \in DOMAIN recovery_ops /\ recovery_ops'[o] = recovery_ops[o]
  BY <1>2
<1>10. PushesRight'
  <2>1. ASSUME NEW x \in pushes' PROVE PushRight(x, recovery_ops')
    <3>1. CASE x \in pushes
      <4>1. PushRight(x, recovery_ops) /\ x.object \notin D
        BY <1>4, <3>1 DEF RecoveryInv, PushesRight
      <4>2. x.object \in DOMAIN recovery_ops' \ D
        BY <1>1, <1>2, <4>1 DEF PushRight
      <4> QED
        BY <1>9, <4>1, <4>2 DEF PushRight
    <3>2. CASE x \notin pushes
      <4>1. PICK o \in D \ failed : x \in Pushed(o, recovery_ops[o])
        BY <1>6, <2>1, <3>2
      <4>2. /\ x = [object |-> x.object, to |-> x.to, before |-> x.before, after |-> x.after]
            /\ x.object = o /\ x.to \in recovery_ops[o].missing_on
            /\ x.before = recovery_ops[o].progress
            /\ x.after = recovery_ops[o].progress + 1
        BY <1>8, <4>1, PushedRight
      <4> QED
        BY <1>8, <4>2 DEF PushRight
    <3> QED
      BY <3>1, <3>2
  <2>2. ASSUME NEW r \in push_replies' PROVE ReplyRight(r, recovery_ops')
    <3>1. ReplyRight(r, recovery_ops) /\ r.object \notin D
      BY <1>5 DEF RecoveryInv, PushesRight
    <3>2. r.object \in DOMAIN recovery_ops' \ D
      BY <1>1, <1>2, <3>1 DEF ReplyRight
    <3> QED
      BY <1>9, <3>1, <3>2 DEF ReplyRight
  <2>3. ASSUME NEW x \in pushes', NEW r \in push_replies', x.object = r.object, x.to = r.from
        PROVE  FALSE
    <3>1. r \in push_replies /\ r.object \notin D
      BY <1>5
    <3>2. CASE x \in pushes
      BY <2>3, <3>1, <3>2 DEF RecoveryInv, PushesRight
    <3>3. CASE x \notin pushes
      <4>1. PICK o \in D \ failed : x \in Pushed(o, recovery_ops[o])
        BY <1>6, <3>3
      <4>2. x.object = o
        BY <1>8, <4>1, PushedRight
      <4> QED
        BY <2>3, <3>1, <4>2
    <3> QED
      BY <3>2, <3>3
  <2> QED
    BY <2>1, <2>2, <2>3 DEF PushesRight
<1>11. PICK E : missing' = [p \in Acting |-> missing[p] \cup {o \in failed : p \in E[o]}]
  BY DEF Completes
<1>12. /\ missing' \in [Acting -> SUBSET Object]
       /\ \A p \in Acting : missing[p] \subseteq missing'[p]
  BY <1>1, <1>11 DEF RecoveryInv, StoreTyped
<1>13. StoreTyped' /\ WholeUnlessMissing'
  BY <1>12 DEF RecoveryInv, StoreTyped, WholeUnlessMissing, Whole
<1>14. \A o : \A p \in Acting, n \in Int :  Got(p, o, n) => Got(p, o, n)'
  BY <1>12 DEF Got, Whole
<1>15. ASSUME NEW o \in DOMAIN recovery_ops'
       PROVE  /\ OpRight(o, recovery_ops'[o])
              /\ \A p \in recovery_ops'[o].missing_on : Holds(o, p)'
  <2>1. /\ o \in DOMAIN recovery_ops /\ OpRight(o, recovery_ops[o])
        /\ \A p \in recovery_ops[o].missing_on : Holds(o, p)
    BY <1>2 DEF RecoveryInv
  <2>2. /\ recovery_ops[o].missing_on \subseteq Acting
        /\ recovery_ops[o].progress \in Int /\ recovery_ops[o].progress - 1 \in Int
    BY <2>1 DEF OpRight, RecoveryOpType
  <2>3. CASE o \in D
    <3>1. o \in D \ failed
      BY <1>2, <2>3
    <3>2. OpRight(o, CompletedOp(o))
      <4>1. recovery_ops[o].progress < Pieces[o] /\ Pieces[o] \in Nat
        BY <1>1, <2>1, <2>3 DEF OpRight
      <4> QED
        BY <1>8, <3>1, <4>1 DEF OpRight
    <3>3. ASSUME NEW p \in recovery_ops[o].missing_on PROVE Holds(o, p)'
      <4>1. ~ \E x \in pushes : x.object = o
        BY <1>4, <2>3
      <4>2. Got(p, o, recovery_ops[o].progress) /\ (p # Primary => o \in missing[p])
        BY <2>1, <3>3, <4>1 DEF Holds
      <4>3. PICK x \in Pushed(o, recovery_ops[o]) : x.object = o /\ x.to = p
        BY <3>3, PushedAll
      <4>4. x \in pushes'
        BY <2>1, <3>1, <4>3 DEF Completes
      <4>5. recovery_ops'[o].progress - 1 = recovery_ops[o].progress
        BY <1>8, <3>1
      <4> QED
        BY <1>12, <1>14, <2>2, <3>3, <4>2, <4>3, <4>4, <4>5 DEF Holds
    <3> QED
      BY <1>8, <3>1, <3>2, <3>3
  <2>4. CASE o \notin D
    <3>1. recovery_ops'[o] = recovery_ops[o]
      BY <1>9, <2>4
    <3>2. \A p : (\E x \in pushes' : x.object = o /\ x.to = p)
                   <=> (\E x \in pushes : x.object = o /\ x.to = p)
      <4>1. \A x \in pushes' \ pushes : x.object \in D
        BY <1>6, <1>8, PushedRight
      <4> QED
        BY <1>7, <2>4, <4>1
    <3>3. \A p \in recovery_ops[o].missing_on : Holds(o, p)'
      BY <1>12, <1>14, <2>1, <2>2, <3>1, <3>2 DEF Holds
    <3> QED
      BY <2>1, <3>1, <3>3
  <2> QED
    BY <2>3, <2>4
<1> QED
  BY <1>3, <1>10, <1>13, <1>15 DEF RecoveryInv
-----------------------------------------------------------------------------
(* A step that changes neither recoveries, pushes nor shards keeps what is *)
(* said of them.                                                           *)
LEMMA OnlyReads ==
  ASSUME RecoveryInv, ReadsRight',
         UNCHANGED <<recovery_ops, pushes, push_replies, store, missing, local_missing>>
  PROVE  RecoveryInv'
<1>1. PushesRight' /\ StoreTyped' /\ WholeUnlessMissing'
  BY DEF RecoveryInv, PushesRight, PushRight, ReplyRight, StoreTyped,
     WholeUnlessMissing, Whole
<1>2. \A o \in DOMAIN recovery_ops' :
        /\ OpRight(o, recovery_ops'[o])
        /\ \A p \in recovery_ops'[o].missing_on : Holds(o, p)'
  BY DEF RecoveryInv, Holds, Got, Whole
<1> QED
  BY <1>1, <1>2 DEF RecoveryInv

(* handle_sub_read_reply keeps the invariant.                              *)
LEMMA ReplyRecovers ==
  ASSUME RecoveryInv, NEW m \in wire, NEW bad, handle_sub_read_reply(m, bad)
  PROVE  RecoveryInv'
<1> DEFINE rop == tid_to_read_map[m.tid]
<1> DEFINE got == Received(rop, m, bad)
<1> DEFINE e == Evaluated(got, AllHolders)
<1>1. /\ m.tid \in DOMAIN tid_to_read_map /\ rop.in_progress # {}
      /\ UNCHANGED <<next_tid, finishing, push_replies, store, local_missing>>
  BY DEF handle_sub_read_reply, shardVars
<1>2. \/ complete_read_op(m.tid, {m.to}, e.rop)
      \/ /\ tid_to_read_map' = [tid_to_read_map EXCEPT ![m.tid] = e.rop]
         /\ UNCHANGED <<recovery_ops, pushes, recovering, missing>>
  BY DEF handle_sub_read_reply, viewVars
<1>3. RopRight(rop) /\ m.tid \notin finishing
  BY <1>1 DEF RecoveryInv, ReadsRight
<1>4. SameObjects(rop, e.rop)
  <2>1. SameObjects(rop, got)
    BY <1>3, ReceivedRight
  <2> HIDE DEF got, rop
  <2>2. SameObjects(got, e.rop)
    BY <2>1, EvaluatedRight DEF SameObjects
  <2> QED
    BY <2>1, <2>2 DEF SameObjects
<1> HIDE DEF e, got
<1>5. CASE complete_read_op(m.tid, {m.to}, e.rop)
  <2>1. PICK failed : Completes(m.tid, Objs(e.rop), failed)
    BY <1>5, CompleteParts
  <2>2. Objs(e.rop) = Objs(tid_to_read_map[m.tid])
    BY <1>4 DEF SameObjects
  <2>3. finishing' = finishing \ {m.tid}
    BY <1>1, <1>3
  <2> QED
    BY <1>1, <2>1, <2>2, <2>3, RecoveryCompletes
<1>6. CASE /\ tid_to_read_map' = [tid_to_read_map EXCEPT ![m.tid] = e.rop]
           /\ UNCHANGED <<recovery_ops, pushes, recovering, missing>>
  <2>1. /\ DOMAIN tid_to_read_map' = DOMAIN tid_to_read_map
        /\ \A t \in DOMAIN tid_to_read_map :
             tid_to_read_map'[t] = IF t = m.tid THEN e.rop ELSE tid_to_read_map[t]
    BY <1>6
  <2>2. RopRight(e.rop) /\ Objs(e.rop) = Objs(tid_to_read_map[m.tid])
    BY <1>4 DEF SameObjects
  <2>3. \A t \in DOMAIN tid_to_read_map :
          /\ RopRight(tid_to_read_map'[t])
          /\ Objs(tid_to_read_map'[t]) = Objs(tid_to_read_map[t])
    BY <2>1, <2>2 DEF RecoveryInv, ReadsRight
  <2>4. \A t \in finishing : tid_to_read_map'[t] = tid_to_read_map[t]
    BY <1>3, <2>1 DEF RecoveryInv, ReadsRight
  <2>5. ReadsRight'
    BY <1>1, <1>6, <2>1, <2>3, <2>4 DEF RecoveryInv, ReadsRight
  <2> QED
    BY <1>1, <1>6, <2>5, OnlyReads
<1> QED
  BY <1>2, <1>5, <1>6

(* So does the read that filter_read_op left without sources.              *)
LEMMA FinishRecovers ==
  ASSUME RecoveryInv, NEW tid \in finishing, FinishReadOp(tid)
  PROVE  RecoveryInv'
<1>1. tid \in DOMAIN tid_to_read_map
  BY DEF RecoveryInv, ReadsRight
<1>2. PICK failed : Completes(tid, Objs(tid_to_read_map[tid]), failed)
  BY CompleteParts DEF FinishReadOp
<1>3. /\ finishing' = finishing \ {tid}
      /\ UNCHANGED <<next_tid, push_replies, store, local_missing>>
  BY DEF FinishReadOp, shardVars
<1> QED
  BY <1>1, <1>2, <1>3, RecoveryCompletes
-----------------------------------------------------------------------------
(* What a shard stores: the pieces up to the one that came, which are in   *)
(* the object itself when it is the last.                                  *)
LEMMA StoredPieces ==
  ASSUME StoreTyped, NEW push, NEW p \in Acting, NEW o \in Object, push.object = o,
         push.before \in Nat, push.after = push.before + 1,
         push.after <= Pieces[o], Got(p, o, push.before)
  PROVE  /\ Stored(p, push) \in [temp : SUBSET Nat, final : SUBSET Nat]
         /\ push.after = Pieces[o] => Stored(p, push).final = Piece(o)
         /\ push.after # Pieces[o] => /\ Stored(p, push).temp = 1 .. push.after
                                      /\ Stored(p, push).final = store[p][o].final
<1> DEFINE n == push.before
<1> DEFINE k == push.after
<1> DEFINE s == store[p][o]
<1> DEFINE temp == (IF n = 0 THEN {} ELSE s.temp) \cup {k}
<1> DEFINE S == Stored(p, push)
<1>1. s \in [temp : SUBSET Nat, final : SUBSET Nat] /\ Pieces[o] \in Nat /\ n \in Nat
      /\ k \in Nat /\ k = n + 1 /\ k <= Pieces[o]
  BY DEF StoreTyped
<1>2. S = IF n = 0 /\ k = Pieces[o] THEN [temp |-> s.temp, final |-> {k}]
          ELSE IF k = Pieces[o] THEN [temp |-> {}, final |-> temp]
          ELSE [temp |-> temp, final |-> s.final]
  BY DEF Stored
<1>3. n > 0 => s.temp = 1 .. n
  BY <1>1 DEF Got
<1>4. temp = 1 .. k /\ (n = 0 => {k} = 1 .. k)
  <2>1. (1 .. n) \cup {k} = 1 .. k
    BY <1>1
  <2>2. n = 0 => {k} = 1 .. k
    BY <1>1
  <2> QED
    BY <1>1, <1>3, <2>1, <2>2
<1> HIDE DEF n, k, s, temp, S
<1>5. /\ S \in [temp : SUBSET Nat, final : SUBSET Nat]
      /\ k = Pieces[o] => S.final = 1 .. k
      /\ k # Pieces[o] => S.temp = 1 .. k /\ S.final = s.final
  <2> DEFINE T == [temp : SUBSET Nat, final : SUBSET Nat]
  <2>1. s.temp \in SUBSET Nat /\ s.final \in SUBSET Nat /\ 1 .. k \in SUBSET Nat
    BY <1>1
  <2>2. \A a, b \in SUBSET Nat : /\ [temp |-> a, final |-> b] \in T
                                 /\ [temp |-> a, final |-> b].temp = a
                                 /\ [temp |-> a, final |-> b].final = b
    OBVIOUS
  <2> DEFINE I == 1 .. k
  <2>3. {} \in SUBSET Nat
    OBVIOUS
  <2> HIDE DEF T, I
  <2>4. CASE n = 0 /\ k = Pieces[o]
    <3>1. S = [temp |-> s.temp, final |-> I]
      BY <1>2, <1>4, <2>4 DEF I
    <3> QED
      BY <2>1, <2>2, <2>4, <3>1 DEF T, I
  <2>5. CASE n # 0 /\ k = Pieces[o]
    <3>1. S = [temp |-> {}, final |-> I]
      BY <1>2, <1>4, <2>5 DEF I
    <3> QED
      BY <2>1, <2>2, <2>3, <2>5, <3>1 DEF T, I
  <2>6. CASE k # Pieces[o]
    <3>1. S = [temp |-> I, final |-> s.final]
      BY <1>2, <1>4, <2>6 DEF I
    <3> QED
      BY <2>1, <2>2, <2>6, <3>1 DEF T, I
  <2> QED
    BY <2>4, <2>5, <2>6
<1> QED
  BY <1>5 DEF n, k, s, S, Piece

(* handle_recovery_push adds the piece that was next on that shard.        *)
LEMMA PushRecovers ==
  ASSUME RecoveryInv, NEW push \in pushes, handle_recovery_push(push)
  PROVE  RecoveryInv'
<1> DEFINE p == push.to
<1> DEFINE o == push.object
<1> DEFINE S == Stored(p, push)
<1> DEFINE full == push.after = Pieces[o]
<1>1. /\ store' = [store EXCEPT ![p][o] = S]
      /\ pushes' = pushes \ {push}
      /\ push_replies' = push_replies \cup {[object |-> o, from |-> p]}
      /\ local_missing' = IF full THEN [local_missing EXCEPT ![p] = @ \ {o}]
                          ELSE local_missing
      /\ missing' = IF full /\ p = Primary THEN [missing EXCEPT ![p] = @ \ {o}]
                    ELSE missing
  BY DEF handle_recovery_push
<1>2. UNCHANGED <<tid_to_read_map, next_tid, finishing, recovery_ops, recovering>>
  BY DEF handle_recovery_push, readVars
<1>3. PushRight(push, recovery_ops)
  BY DEF RecoveryInv, PushesRight
<1> DEFINE op == recovery_ops[o]
<1>4. /\ o \in DOMAIN recovery_ops /\ o \in Object /\ OpRight(o, op)
      /\ \A q \in op.missing_on : Holds(o, q)
      /\ op.state = "WRITING" /\ p \in op.waiting_on_pushes
      /\ push.before \in Nat /\ push.after = push.before + 1
      /\ push.after = op.progress
      /\ push = [object |-> o, to |-> p, before |-> push.before, after |-> push.after]
  BY <1>3 DEF RecoveryInv, ReadsRight, PushRight
<1>5. /\ p \in Acting /\ p \in op.missing_on /\ op.missing_on \subseteq Acting
      /\ op.progress <= Pieces[o] /\ op.progress \in Nat
  BY <1>4 DEF OpRight, RecoveryOpType
<1>6. Got(p, o, push.before) /\ (p # Primary => o \in missing[p])
  <2>1. Holds(o, p) /\ push.object = o /\ push.to = p
    BY <1>4, <1>5
  <2>2. op.progress - 1 = push.before
    BY <1>4
  <2> QED
    BY <2>1, <2>2 DEF Holds
<1>7. StoreTyped
  BY DEF RecoveryInv
<1>8. /\ S \in [temp : SUBSET Nat, final : SUBSET Nat]
      /\ full => S.final = Piece(o)
      /\ ~full => S.temp = 1 .. push.after /\ S.final = store[p][o].final
  <2>1. /\ push.object = o /\ p \in Acting /\ o \in Object
        /\ push.before \in Nat /\ push.after = push.before + 1
    BY <1>4, <1>5
  <2>2. push.after <= Pieces[o]
    BY <1>4, <1>5
  <2> QED
    BY <1>6, <1>7, <2>1, <2>2, StoredPieces
<1>9. push.before < Pieces[o] /\ push.before # Pieces[o] /\ Pieces[o] \in Nat
  BY <1>4, <1>5
<1>10. o \in missing[p]
  BY <1>6, <1>9 DEF Got
<1> HIDE DEF S, full
<1>11. /\ \A q \in Acting, x \in Object :
            store'[q][x] = IF q = p /\ x = o THEN S ELSE store[q][x]
       /\ StoreTyped'
  BY <1>1, <1>4, <1>5, <1>7, <1>8 DEF StoreTyped
<1>12. \A q \in Acting, x \in Object :
         /\ (x \in local_missing'[q]) = (x \in local_missing[q] /\ ~(full /\ q = p /\ x = o))
         /\ (x \in missing'[q])
              = (x \in missing[q] /\ ~(full /\ q = Primary /\ q = p /\ x = o))
  BY <1>1, <1>5, <1>7 DEF StoreTyped
<1>13. \A q \in Acting, x \in Object : ~(q = p /\ x = o) =>
         /\ store'[q][x] = store[q][x]
         /\ (x \in local_missing'[q]) = (x \in local_missing[q])
         /\ (x \in missing'[q]) = (x \in missing[q])
  BY <1>11, <1>12
<1>14. \A q \in Acting, x \in Object, n \in Int :
         ~(q = p /\ x = o) /\ Got(q, x, n) => Got(q, x, n)'
  BY <1>13 DEF Got, Whole
<1>15. Got(p, o, push.after)'
  <2>1. CASE full
    BY <1>4, <1>5, <1>8, <1>11, <1>12, <2>1 DEF Got, Whole, full
  <2>2. CASE ~full
    BY <1>4, <1>5, <1>8, <1>10, <1>11, <1>12, <2>2 DEF Got, full
  <2> QED
    BY <2>1, <2>2
<1>16. WholeUnlessMissing'
  <2> SUFFICES ASSUME NEW q \in Acting, NEW x \in Object
               PROVE  /\ x \notin missing'[q] =>
                           Whole(q, x)' /\ (q # Primary => x \notin local_missing'[q])
                      /\ x \notin local_missing'[q] => Whole(q, x)'
    BY DEF WholeUnlessMissing
  <2>1. CASE ~(q = p /\ x = o)
    BY <1>13, <2>1 DEF RecoveryInv, WholeUnlessMissing, Whole
  <2>2. CASE q = p /\ x = o /\ full
    BY <1>8, <1>11, <1>12, <2>2 DEF Whole
  <2>3. CASE q = p /\ x = o /\ ~full
    <3>1. store'[p][o].final = store[p][o].final
      BY <1>4, <1>5, <1>8, <1>11, <2>3
    <3> QED
      BY <1>4, <1>5, <1>12, <2>3, <3>1 DEF RecoveryInv, WholeUnlessMissing, Whole
  <2> QED
    BY <2>1, <2>2, <2>3
<1>17. PushesRight'
  <2>1. \A x \in pushes' : PushRight(x, recovery_ops)
    BY <1>1 DEF RecoveryInv, PushesRight
  <2> DEFINE reply == [object |-> o, from |-> p]
  <2>2. ReplyRight(reply, recovery_ops)
    BY <1>4 DEF ReplyRight
  <2>3. \A r \in push_replies' : ReplyRight(r, recovery_ops)
    BY <1>1, <2>2 DEF RecoveryInv, PushesRight
  <2>4. \A x \in pushes' : ~(x.object = o /\ x.to = p)
    <3> SUFFICES ASSUME NEW x \in pushes', x.object = o, x.to = p PROVE FALSE
      OBVIOUS
    <3>1. PushRight(x, recovery_ops)
      BY <2>1
    <3>2. x.after = push.after /\ x.before = push.before
      <4>1. x.before \in Nat /\ x.after = x.before + 1 /\ x.after = op.progress
        BY <3>1 DEF PushRight
      <4>2. /\ push.before \in Nat /\ push.after = push.before + 1
            /\ push.after = op.progress
        BY <1>4
      <4> QED
        BY <4>1, <4>2
    <3>3. x = [object |-> x.object, to |-> x.to, before |-> x.before, after |-> x.after]
      BY <3>1 DEF PushRight
    <3>4. x = push
      BY <1>4, <3>2, <3>3
    <3> QED
      BY <1>1, <3>4
  <2>5. \A x \in pushes', r \in push_replies' : ~(x.object = r.object /\ x.to = r.from)
    BY <1>1, <2>4 DEF RecoveryInv, PushesRight
  <2> QED
    BY <1>2, <2>1, <2>3, <2>5 DEF PushesRight
<1>18. ReadsRight'
  BY <1>2 DEF RecoveryInv, ReadsRight
<1>19. ASSUME NEW x \in DOMAIN recovery_ops'
       PROVE  /\ OpRight(x, recovery_ops'[x])
              /\ \A q \in recovery_ops'[x].missing_on : Holds(x, q)'
  <2>1. /\ x \in DOMAIN recovery_ops /\ x \in Object /\ recovery_ops'[x] = recovery_ops[x]
        /\ OpRight(x, recovery_ops[x])
        /\ \A q \in recovery_ops[x].missing_on : Holds(x, q)
    BY <1>2 DEF RecoveryInv, ReadsRight
  <2>2. /\ recovery_ops[x].missing_on \subseteq Acting
        /\ recovery_ops[x].progress \in Int /\ recovery_ops[x].progress - 1 \in Int
    BY <2>1 DEF OpRight, RecoveryOpType
  <2>3. ASSUME NEW q \in recovery_ops[x].missing_on PROVE Holds(x, q)'
    <3>1. CASE q = p /\ x = o
      <4>1. ~ \E y \in pushes' : y.object = o /\ y.to = p
        <5> SUFFICES ASSUME NEW y \in pushes', y.object = o, y.to = p PROVE FALSE
          OBVIOUS
        <5> DEFINE reply == [object |-> o, from |-> p]
        <5>1. reply \in push_replies' /\ reply.object = o /\ reply.from = p
          BY <1>1
        <5> QED
          BY <1>17, <5>1 DEF PushesRight
      <4>2. p # Primary => o \in missing'[p]
        BY <1>4, <1>5, <1>10, <1>12
      <4> QED
        BY <1>2, <1>4, <1>15, <3>1, <4>1, <4>2 DEF Holds
    <3>2. CASE ~(q = p /\ x = o)
      <4>1. (\E y \in pushes' : y.object = x /\ y.to = q)
              <=> (\E y \in pushes : y.object = x /\ y.to = q)
        BY <1>1, <3>2
      <4>2. q # Primary => x \in missing'[q]
        BY <1>13, <2>1, <2>2, <2>3, <3>2 DEF Holds
      <4> QED
        BY <1>14, <2>1, <2>2, <2>3, <3>2, <4>1, <4>2 DEF Holds
    <3> QED
      BY <3>1, <3>2
  <2> QED
    BY <2>1, <2>3
<1> QED
  BY <1>11, <1>16, <1>17, <1>18, <1>19 DEF RecoveryInv
-----------------------------------------------------------------------------
(* Recoveries that end, with nothing under way for them: the reads are     *)
(* looked at on their own, and what is no longer missing is there.         *)
LEMMA RecoveriesEnd ==
  ASSUME RecoveryInv, ReadsRight', NEW S,
         DOMAIN recovery_ops' = DOMAIN recovery_ops \ S,
         \A x \in DOMAIN recovery_ops' : recovery_ops'[x] = recovery_ops[x],
         \A x \in pushes : x.object \notin S,
         \A r \in push_replies' : r.object \notin S,
         push_replies' \subseteq push_replies,
         UNCHANGED <<pushes, store, local_missing>>,
         missing' \in [Acting -> SUBSET Object],
         \A p \in Acting, x \in Object : x \notin missing'[p] =>
           \/ x \notin missing[p]
           \/ x \in S /\ Whole(p, x) /\ x \notin local_missing[p],
         \A p \in Acting, x \in Object \ S : x \in missing[p] => x \in missing'[p]
  PROVE  RecoveryInv'
<1>1. StoreTyped'
  BY DEF RecoveryInv, StoreTyped
<1>2. WholeUnlessMissing'
  BY DEF RecoveryInv, WholeUnlessMissing, Whole
<1>3. PushesRight'
  <2>1. \A x \in pushes' : PushRight(x, recovery_ops')
    BY DEF RecoveryInv, PushesRight, PushRight
  <2>2. \A r \in push_replies' : ReplyRight(r, recovery_ops')
    BY DEF RecoveryInv, PushesRight, ReplyRight
  <2>3. \A x \in pushes', r \in push_replies' : ~(x.object = r.object /\ x.to = r.from)
    BY DEF RecoveryInv, PushesRight
  <2> QED
    BY <2>1, <2>2, <2>3 DEF PushesRight
<1>4. ASSUME NEW x \in DOMAIN recovery_ops'
      PROVE  /\ OpRight(x, recovery_ops'[x])
             /\ \A q \in recovery_ops'[x].missing_on : Holds(x, q)'
  <2>1. /\ x \in DOMAIN recovery_ops /\ x \in Object /\ x \notin S
        /\ recovery_ops'[x] = recovery_ops[x] /\ OpRight(x, recovery_ops[x])
        /\ \A q \in recovery_ops[x].missing_on : Holds(x, q)
    BY DEF RecoveryInv, ReadsRight
  <2>2. recovery_ops[x].missing_on \subseteq Acting
    BY <2>1 DEF OpRight, RecoveryOpType
  <2>3. \A q \in Acting : x \in missing[q] => x \in missing'[q]
    BY <2>1
  <2>4. \A q \in Acting : \A n : Got(q, x, n) => Got(q, x, n)'
    BY <2>3 DEF Got, Whole
  <2>5. \A q \in recovery_ops[x].missing_on : Holds(x, q)'
    BY <2>1, <2>2, <2>3, <2>4 DEF Holds
  <2> QED
    BY <2>1, <2>5
<1> QED
  BY <1>1, <1>2, <1>3, <1>4 DEF RecoveryInv

(* A recovery whose set of shards waited for, or whose state, changes.     *)
RecoveryOpIs(s, mo, n, b, c, v) ==
  [state |-> s, missing_on |-> mo, progress |-> n, obc |-> b, xattrs |-> c,
   waiting_on_pushes |-> v]

(* A recovery as the record of its fields.                                 *)
LEMMA RecoveryOpFields ==
  ASSUME NEW op \in RecoveryOpType
  PROVE  /\ op = RecoveryOpIs(op.state, op.missing_on, op.progress, op.obc, op.xattrs,
                              op.waiting_on_pushes)
         /\ op.state \in {"READING", "WRITING"} /\ op.missing_on \in SUBSET Acting
         /\ op.progress \in Nat /\ op.obc \in BOOLEAN /\ op.xattrs \in BOOLEAN
         /\ op.waiting_on_pushes \in SUBSET Acting
BY DEF RecoveryOpType, RecoveryOpIs

(* A record of such fields is a recovery.                                  *)
LEMMA RecoveryOpIsOne ==
  ASSUME NEW s \in {"READING", "WRITING"}, NEW mo \in SUBSET Acting, NEW n \in Nat,
         NEW b, b \in BOOLEAN, NEW c, c \in BOOLEAN, NEW v \in SUBSET Acting
  PROVE  RecoveryOpIs(s, mo, n, b, c, v) \in RecoveryOpType
BY Zenon DEF RecoveryOpType, RecoveryOpIs

(* Its fields.                                                             *)
LEMMA RecoveryOpIsFields ==
  ASSUME NEW s, NEW mo, NEW n, NEW b, NEW c, NEW v, NEW op,
         op = RecoveryOpIs(s, mo, n, b, c, v)
  PROVE  /\ op.state = s /\ op.missing_on = mo /\ op.progress = n
         /\ op.obc = b /\ op.xattrs = c /\ op.waiting_on_pushes = v
BY DEF RecoveryOpIs

WaitsFor(op, w, new)  == new = [op EXCEPT !.waiting_on_pushes = w]
ReadsAgain(op, new) == new = [op EXCEPT !.state = "READING"]

(* What changes when a recovery waits for fewer pushes.                    *)
LEMMA WaitingChanges ==
  ASSUME NEW op \in RecoveryOpType, NEW w \in SUBSET Acting, NEW new,
         WaitsFor(op, w, new)
  PROVE  /\ new \in RecoveryOpType /\ new.state = op.state
         /\ new.missing_on = op.missing_on /\ new.progress = op.progress
         /\ new.obc = op.obc /\ new.xattrs = op.xattrs
         /\ new.waiting_on_pushes = w
<1>1. new = RecoveryOpIs(op.state, op.missing_on, op.progress, op.obc, op.xattrs, w)
  <2>1. op = RecoveryOpIs(op.state, op.missing_on, op.progress, op.obc, op.xattrs,
                          op.waiting_on_pushes)
    BY RecoveryOpFields
  <2> QED
    BY <2>1 DEF RecoveryOpIs, WaitsFor
<1>2. /\ new.state = op.state /\ new.missing_on = op.missing_on
      /\ new.progress = op.progress /\ new.waiting_on_pushes = w
      /\ new.obc = op.obc /\ new.xattrs = op.xattrs
  BY <1>1, RecoveryOpIsFields
<1>3. new \in RecoveryOpType
  <2>1. /\ op.state \in {"READING", "WRITING"} /\ op.missing_on \in SUBSET Acting
        /\ op.progress \in Nat /\ op.obc \in BOOLEAN /\ op.xattrs \in BOOLEAN
    BY RecoveryOpFields
  <2>2. RecoveryOpIs(op.state, op.missing_on, op.progress, op.obc, op.xattrs, w)
          \in RecoveryOpType
    BY <2>1, RecoveryOpIsOne, Zenon
  <2> QED
    BY <1>1, <2>2, Zenon
<1> QED
  BY <1>2, <1>3

(* What changes when a recovery reads its next piece.                      *)
LEMMA StateChanges ==
  ASSUME NEW op \in RecoveryOpType, NEW new, ReadsAgain(op, new)
  PROVE  /\ new \in RecoveryOpType /\ new.state = "READING"
         /\ new.missing_on = op.missing_on /\ new.progress = op.progress
         /\ new.obc = op.obc /\ new.xattrs = op.xattrs
         /\ new.waiting_on_pushes = op.waiting_on_pushes
<1>1. new = RecoveryOpIs("READING", op.missing_on, op.progress, op.obc, op.xattrs,
                         op.waiting_on_pushes)
  <2>1. op = RecoveryOpIs(op.state, op.missing_on, op.progress, op.obc, op.xattrs,
                          op.waiting_on_pushes)
    BY RecoveryOpFields
  <2> QED
    BY <2>1 DEF RecoveryOpIs, ReadsAgain
<1>2. /\ new.state = "READING" /\ new.missing_on = op.missing_on
      /\ new.progress = op.progress /\ new.waiting_on_pushes = op.waiting_on_pushes
      /\ new.obc = op.obc /\ new.xattrs = op.xattrs
  BY <1>1, RecoveryOpIsFields
<1>3. "READING" \in {"READING", "WRITING"}
  OBVIOUS
<1>4. new \in RecoveryOpType
  <2>1. /\ op.missing_on \in SUBSET Acting /\ op.waiting_on_pushes \in SUBSET Acting
        /\ op.progress \in Nat /\ op.obc \in BOOLEAN /\ op.xattrs \in BOOLEAN
    BY RecoveryOpFields
  <2>2. RecoveryOpIs("READING", op.missing_on, op.progress, op.obc, op.xattrs,
                     op.waiting_on_pushes) \in RecoveryOpType
    BY <1>3, <2>1, RecoveryOpIsOne, Zenon
  <2> QED
    BY <1>1, <2>2, Zenon
<1> QED
  BY <1>2, <1>4

(* handle_recovery_push_reply keeps the invariant: the last reply of the   *)
(* last piece finds the object whole on every shard, which stops being     *)
(* missing there.                                                          *)
LEMMA PushReplyRecovers ==
  ASSUME RecoveryInv, NEW reply \in push_replies, handle_recovery_push_reply(reply)
  PROVE  RecoveryInv'
<1>1. PICK o, op, next :
        /\ o = reply.object
        /\ op = [recovery_ops[o] EXCEPT !.waiting_on_pushes = @ \ {reply.from}]
        /\ next = [op EXCEPT !.state = "READING"]
        /\ \/ /\ op.waiting_on_pushes # {}
              /\ recovery_ops' = [recovery_ops EXCEPT ![o] = op]
              /\ UNCHANGED <<readVars, recovering, missing>>
           \/ /\ op.waiting_on_pushes = {} /\ op.progress = Pieces[o]
              /\ LastPushed(o, op)
           \/ /\ op.waiting_on_pushes = {} /\ op.progress < Pieces[o]
              /\ NextPiece(o, next)
           \/ op.waiting_on_pushes = {} /\ NoSources(o, next)
  BY DEF handle_recovery_push_reply
<1>2. /\ push_replies' = push_replies \ {reply}
      /\ UNCHANGED <<finishing, pushes, store, local_missing>>
  BY DEF handle_recovery_push_reply, shardVars
<1>0. PICK old : old = recovery_ops[o]
  OBVIOUS
<1>3. /\ o \in DOMAIN recovery_ops /\ o \in Object /\ old.state = "WRITING"
      /\ reply.from \in old.waiting_on_pushes
      /\ reply = [object |-> o, from |-> reply.from]
      /\ OpRight(o, old) /\ old \in RecoveryOpType
      /\ \A q \in old.missing_on : Holds(o, q)
  BY <1>0, <1>1 DEF RecoveryInv, ReadsRight, PushesRight, ReplyRight, OpRight
<1>4. /\ op \in RecoveryOpType /\ op.state = "WRITING"
      /\ op.missing_on = old.missing_on /\ op.progress = old.progress
      /\ op.waiting_on_pushes = old.waiting_on_pushes \ {reply.from}
      /\ next \in RecoveryOpType /\ next.state = "READING"
      /\ next.missing_on = old.missing_on /\ next.progress = old.progress
      /\ next.waiting_on_pushes = op.waiting_on_pushes
  <2> DEFINE w == old.waiting_on_pushes \ {reply.from}
  <2>1. WaitsFor(old, w, op) /\ ReadsAgain(op, next)
    BY <1>0, <1>1 DEF WaitsFor, ReadsAgain
  <2>2. w \in SUBSET Acting /\ old \in RecoveryOpType
    BY <1>0, <1>3 DEF RecoveryOpType
  <2> HIDE DEF w
  <2>3. /\ op \in RecoveryOpType /\ op.state = old.state
        /\ op.missing_on = old.missing_on /\ op.progress = old.progress
        /\ op.waiting_on_pushes = w
    BY <2>1, <2>2, WaitingChanges
  <2>4. /\ next \in RecoveryOpType /\ next.state = "READING"
        /\ next.missing_on = op.missing_on /\ next.progress = op.progress
        /\ next.waiting_on_pushes = op.waiting_on_pushes
    BY <2>1, <2>3, StateChanges
  <2>5. old.state = "WRITING"
    BY <1>0, <1>3
  <2> QED
    BY <2>3, <2>4, <2>5 DEF w
<1>5. /\ old.missing_on \subseteq Acting /\ old.progress \in Nat
      /\ old.waiting_on_pushes \subseteq old.missing_on /\ old.progress > 0
      /\ old.progress <= Pieces[o]
  BY <1>3 DEF OpRight, RecoveryOpType
<1>6. \A t \in DOMAIN tid_to_read_map : o \notin Objs(tid_to_read_map[t])
  BY <1>0, <1>3 DEF RecoveryInv, ReadsRight
<1>7. \A x \in pushes : x.object = o =>
        x.to \in old.waiting_on_pushes /\ x.to # reply.from
  BY <1>0, <1>3 DEF RecoveryInv, PushesRight, PushRight
<1>8. \A r \in push_replies' : r.object = o =>
        r.from \in old.waiting_on_pushes /\ r.from # reply.from
  BY <1>0, <1>2, <1>3 DEF RecoveryInv, PushesRight, ReplyRight
<1>9. CASE /\ op.waiting_on_pushes # {}
           /\ recovery_ops' = [recovery_ops EXCEPT ![o] = op]
           /\ UNCHANGED <<readVars, recovering, missing>>
  <2>1. /\ DOMAIN recovery_ops' = DOMAIN recovery_ops /\ recovery_ops'[o] = op
        /\ \A x \in DOMAIN recovery_ops : x # o => recovery_ops'[x] = recovery_ops[x]
        /\ UNCHANGED <<tid_to_read_map, next_tid, recovering, missing>>
    BY <1>3, <1>9 DEF readVars
  <2>2. ReadsRight'
    BY <1>2, <1>6, <2>1 DEF RecoveryInv, ReadsRight
  <2>3. \A x \in pushes' : PushRight(x, recovery_ops')
    BY <1>0, <1>2, <1>3, <1>4, <1>7, <2>1 DEF RecoveryInv, PushesRight, PushRight
  <2>4. \A r \in push_replies' : ReplyRight(r, recovery_ops')
    BY <1>0, <1>2, <1>3, <1>4, <1>8, <2>1 DEF RecoveryInv, PushesRight, ReplyRight
  <2>5. PushesRight'
    BY <1>2, <2>3, <2>4 DEF RecoveryInv, PushesRight
  <2>6. StoreTyped' /\ WholeUnlessMissing'
    BY <1>2, <2>1 DEF RecoveryInv, StoreTyped, WholeUnlessMissing, Whole
  <2>7. \A x \in DOMAIN recovery_ops :
          /\ recovery_ops'[x].progress = recovery_ops[x].progress
          /\ recovery_ops'[x].missing_on = recovery_ops[x].missing_on
    BY <1>0, <1>4, <2>1
  <2>8. OpRight(o, op)
    BY <1>3, <1>4, <1>5 DEF OpRight
  <2>9. \A x \in DOMAIN recovery_ops' : OpRight(x, recovery_ops'[x])
    BY <2>1, <2>8 DEF RecoveryInv
  <2>10. \A x \in DOMAIN recovery_ops' : \A q : Holds(x, q) => Holds(x, q)'
    BY <1>2, <2>1, <2>7 DEF Holds, Got, Whole
  <2>11. \A x \in DOMAIN recovery_ops' : \A q \in recovery_ops'[x].missing_on : Holds(x, q)'
    BY <2>1, <2>7, <2>10 DEF RecoveryInv
  <2> QED
    BY <2>2, <2>5, <2>6, <2>9, <2>11 DEF RecoveryInv
<1>10. CASE op.waiting_on_pushes = {}
  <2>1. /\ \A x \in pushes : x.object # o
        /\ \A r \in push_replies' : r.object # o
    BY <1>4, <1>7, <1>8, <1>10
  <2>2. \A q \in old.missing_on :
          Got(q, o, old.progress) /\ (q # Primary => o \in missing[q])
    BY <1>0, <1>3, <2>1 DEF Holds
  <2>3. CASE LastPushed(o, op) /\ op.progress = Pieces[o]
    <3>1. /\ DOMAIN recovery_ops' = DOMAIN recovery_ops \ {o}
          /\ \A x \in DOMAIN recovery_ops' : recovery_ops'[x] = recovery_ops[x]
          /\ recovering' = recovering \ {o}
          /\ UNCHANGED <<tid_to_read_map, next_tid>>
          /\ missing' = [p \in Acting |-> IF p \in old.missing_on \ {Primary}
                                          THEN missing[p] \ {o} ELSE missing[p]]
      BY <1>4, <2>3 DEF LastPushed, readVars, Without
    <3>2. ReadsRight'
      BY <1>2, <1>6, <3>1 DEF RecoveryInv, ReadsRight
    <3>3. \A q \in old.missing_on : Whole(q, o) /\ o \notin local_missing[q]
      <4>1. old.progress = Pieces[o]
        BY <1>4, <2>3
      <4> QED
        BY <2>2, <4>1 DEF Got
    <3>4. missing' \in [Acting -> SUBSET Object]
      BY <3>1 DEF RecoveryInv, StoreTyped
    <3>5. \A p \in Acting, x \in Object : x \notin missing'[p] =>
            \/ x \notin missing[p]
            \/ x \in {o} /\ Whole(p, x) /\ x \notin local_missing[p]
      BY <3>1, <3>3
    <3>6. \A p \in Acting, x \in Object \ {o} : x \in missing[p] => x \in missing'[p]
      BY <3>1
    <3>7. push_replies' \subseteq push_replies
      BY <1>2
    <3>8. \A r \in push_replies' : r.object \notin {o}
      BY <2>1
    <3>9. \A x \in pushes : x.object \notin {o}
      BY <2>1
    <3> QED
      BY <1>2, <3>1, <3>2, <3>4, <3>5, <3>6, <3>7, <3>8, <3>9, RecoveriesEnd
  <2>4. CASE NoSources(o, next)
    <3>1. /\ DOMAIN recovery_ops' = DOMAIN recovery_ops \ {o}
          /\ \A x \in DOMAIN recovery_ops' : recovery_ops'[x] = recovery_ops[x]
          /\ recovering' = recovering \ {o}
          /\ UNCHANGED <<tid_to_read_map, next_tid, missing>>
      BY <2>4 DEF NoSources, readVars, Without
    <3>2. ReadsRight'
      BY <1>2, <1>6, <3>1 DEF RecoveryInv, ReadsRight
    <3>3. missing' \in [Acting -> SUBSET Object] /\ push_replies' \subseteq push_replies
      BY <1>2, <3>1 DEF RecoveryInv, StoreTyped
    <3>4. \A r \in push_replies' : r.object \notin {o}
      BY <2>1
    <3>5. \A x \in pushes : x.object \notin {o}
      BY <2>1
    <3> QED
      BY <1>2, <3>1, <3>2, <3>3, <3>4, <3>5, RecoveriesEnd
  <2>5. CASE NextPiece(o, next) /\ op.progress < Pieces[o]
    <3> DEFINE ops == [x \in {o} |-> next]
    <3>1. /\ DOMAIN recovery_ops' = DOMAIN recovery_ops /\ recovery_ops'[o] = next
          /\ \A x \in DOMAIN recovery_ops : x # o => recovery_ops'[x] = recovery_ops[x]
          /\ StartReads(ops)
          /\ UNCHANGED <<recovering, missing>>
      BY <1>3, <2>5 DEF NextPiece
    <3>2. DOMAIN ops = {o}
      OBVIOUS
    <3> HIDE DEF ops
    <3>3. ReadsRight'
      <4>1. \A t \in DOMAIN tid_to_read_map : \A x \in Objs(tid_to_read_map[t]) :
              /\ x \notin DOMAIN ops
              /\ x \in DOMAIN recovery_ops' /\ recovery_ops'[x].state = "READING"
        BY <1>6, <3>1, <3>2 DEF RecoveryInv, ReadsRight
      <4>2. \A x \in DOMAIN ops :
              x \in DOMAIN recovery_ops' /\ recovery_ops'[x].state = "READING"
        BY <1>3, <1>4, <3>1, <3>2
      <4>3. DOMAIN recovery_ops' \subseteq Object /\ recovering' = DOMAIN recovery_ops'
        BY <3>1 DEF RecoveryInv, ReadsRight
      <4> QED
        BY <1>2, <3>1, <4>1, <4>2, <4>3, ReadsStart DEF RecoveryInv
    <3>4. \A x \in pushes' : PushRight(x, recovery_ops')
      BY <1>2, <2>1, <3>1 DEF RecoveryInv, PushesRight, PushRight
    <3>5. \A r \in push_replies' : ReplyRight(r, recovery_ops')
      BY <1>2, <2>1, <3>1 DEF RecoveryInv, PushesRight, ReplyRight
    <3>6. PushesRight'
      BY <1>2, <3>4, <3>5 DEF RecoveryInv, PushesRight
    <3>7. StoreTyped' /\ WholeUnlessMissing'
      BY <1>2, <3>1 DEF RecoveryInv, StoreTyped, WholeUnlessMissing, Whole
    <3>8. \A x \in DOMAIN recovery_ops :
            /\ recovery_ops'[x].progress = recovery_ops[x].progress
            /\ recovery_ops'[x].missing_on = recovery_ops[x].missing_on
      BY <1>0, <1>4, <3>1
    <3>9. OpRight(o, next)
      BY <1>4, <1>5, <1>10, <2>5 DEF OpRight
    <3>10. \A x \in DOMAIN recovery_ops' : OpRight(x, recovery_ops'[x])
      BY <3>1, <3>9 DEF RecoveryInv
    <3>11. \A x \in DOMAIN recovery_ops' : \A q : Holds(x, q) => Holds(x, q)'
      BY <1>2, <3>1, <3>8 DEF Holds, Got, Whole
    <3>12. \A x \in DOMAIN recovery_ops' :
             \A q \in recovery_ops'[x].missing_on : Holds(x, q)'
      BY <3>1, <3>8, <3>11 DEF RecoveryInv
    <3> QED
      BY <3>3, <3>6, <3>7, <3>10, <3>12 DEF RecoveryInv
  <2> QED
    BY <1>1, <1>10, <2>3, <2>4, <2>5
<1> QED
  BY <1>1, <1>9, <1>10
-----------------------------------------------------------------------------
(* The loss of a source: the recoveries that are cancelled are of objects  *)
(* being read, and no read is left with one of them.                       *)
LEMMA SourcesLost ==
  ASSUME RecoveryInv, NEW p, check_recovery_sources(p)
  PROVE  RecoveryInv'
<1> DEFINE gone == down \cup {p}
<1> DEFINE tids == {t \in DOMAIN tid_to_read_map :
                      \E q \in gone : <<q, t>> \in shard_to_read_map}
<1> DEFINE C(t) == Cancelled(tid_to_read_map[t], gone)
<1> DEFINE cancel == UNION {C(t) : t \in tids}
<1> DEFINE F(t) == filter_read_op(tid_to_read_map[t], gone)
<1>1. /\ DOMAIN tid_to_read_map' = DOMAIN tid_to_read_map
      /\ \A t \in DOMAIN tid_to_read_map :
           tid_to_read_map'[t] = IF t \in tids THEN F(t) ELSE tid_to_read_map[t]
      /\ \A t \in finishing' \ finishing : t \in tids /\ F(t).in_progress = {}
      /\ finishing \subseteq finishing'
      /\ DOMAIN recovery_ops' = DOMAIN recovery_ops \ cancel
      /\ \A x \in DOMAIN recovery_ops' : recovery_ops'[x] = recovery_ops[x]
      /\ recovering' = recovering \ cancel
      /\ UNCHANGED <<next_tid, missing, pushes, push_replies, store, local_missing>>
  BY DEF check_recovery_sources, Without, pushVars, shardVars
<1>2. tids \subseteq DOMAIN tid_to_read_map
  OBVIOUS
<1>3. \A t \in tids :
        /\ RopRight(F(t)) /\ Objs(F(t)) = Objs(tid_to_read_map[t]) \ C(t)
        /\ C(t) \subseteq Objs(tid_to_read_map[t])
        /\ F(t).in_progress \subseteq tid_to_read_map[t].in_progress
  <2> SUFFICES ASSUME NEW t \in tids
               PROVE  /\ RopRight(F(t)) /\ Objs(F(t)) = Objs(tid_to_read_map[t]) \ C(t)
                      /\ C(t) \subseteq Objs(tid_to_read_map[t])
                      /\ F(t).in_progress \subseteq tid_to_read_map[t].in_progress
    OBVIOUS
  <2>1. RopRight(tid_to_read_map[t]) /\ Objs(tid_to_read_map[t]) \subseteq Object
    BY <1>2 DEF RecoveryInv, ReadsRight
  <2> QED
    BY <2>1, FilteredRight
<1> HIDE DEF tids, C, F
<1>4. \A x \in cancel : \E t \in tids : x \in Objs(tid_to_read_map[t]) /\ x \in C(t)
  BY <1>3
<1> HIDE DEF cancel
<1>5. \A x \in cancel : x \in DOMAIN recovery_ops /\ recovery_ops[x].state = "READING"
  BY <1>2, <1>4 DEF RecoveryInv, ReadsRight
<1>6. \A t \in DOMAIN tid_to_read_map :
        /\ RopRight(tid_to_read_map'[t])
        /\ Objs(tid_to_read_map'[t]) \subseteq Objs(tid_to_read_map[t])
  BY <1>1, <1>3 DEF RecoveryInv, ReadsRight
<1>7. \A t \in DOMAIN tid_to_read_map : Objs(tid_to_read_map'[t]) \cap cancel = {}
  <2> SUFFICES ASSUME NEW t \in DOMAIN tid_to_read_map,
                      NEW x \in Objs(tid_to_read_map'[t]), x \in cancel
               PROVE  FALSE
    OBVIOUS
  <2>1. PICK u \in tids : x \in Objs(tid_to_read_map[u]) /\ x \in C(u)
    BY <1>4
  <2>2. x \in Objs(tid_to_read_map[t])
    BY <1>6
  <2>3. t = u
    BY <1>2, <2>1, <2>2 DEF RecoveryInv, ReadsRight
  <2> QED
    BY <1>1, <1>3, <2>1, <2>3
<1>8. ReadsRight'
  <2>1. DOMAIN recovery_ops' \subseteq Object /\ recovering' = DOMAIN recovery_ops'
    BY <1>1 DEF RecoveryInv, ReadsRight
  <2>2. \A t \in DOMAIN tid_to_read_map' : \A x \in Objs(tid_to_read_map'[t]) :
          x \in DOMAIN recovery_ops' /\ recovery_ops'[x].state = "READING"
    <3> SUFFICES ASSUME NEW t \in DOMAIN tid_to_read_map',
                        NEW x \in Objs(tid_to_read_map'[t])
                 PROVE  x \in DOMAIN recovery_ops' /\ recovery_ops'[x].state = "READING"
      OBVIOUS
    <3>1. t \in DOMAIN tid_to_read_map /\ x \in Objs(tid_to_read_map[t]) /\ x \notin cancel
      BY <1>1, <1>6, <1>7
    <3>2. x \in DOMAIN recovery_ops /\ recovery_ops[x].state = "READING"
      BY <3>1 DEF RecoveryInv, ReadsRight
    <3> QED
      BY <1>1, <3>1, <3>2
  <2>3. \A t, u \in DOMAIN tid_to_read_map' :
          Objs(tid_to_read_map'[t]) \cap Objs(tid_to_read_map'[u]) # {} => t = u
    BY <1>1, <1>6 DEF RecoveryInv, ReadsRight
  <2>4. \A t \in finishing' : /\ t \in DOMAIN tid_to_read_map'
                              /\ tid_to_read_map'[t].in_progress = {}
    <3> SUFFICES ASSUME NEW t \in finishing'
                 PROVE  /\ t \in DOMAIN tid_to_read_map'
                        /\ tid_to_read_map'[t].in_progress = {}
      OBVIOUS
    <3>1. CASE t \in finishing
      <4>1. t \in DOMAIN tid_to_read_map /\ tid_to_read_map[t].in_progress = {}
        BY <3>1 DEF RecoveryInv, ReadsRight
      <4> QED
        BY <1>1, <1>3, <4>1
    <3>2. CASE t \notin finishing
      BY <1>1, <1>2, <3>2
    <3> QED
      BY <3>1, <3>2
  <2>5. next_tid' \in Nat /\ \A t \in DOMAIN tid_to_read_map' : t \in Nat /\ t < next_tid'
    BY <1>1 DEF RecoveryInv, ReadsRight
  <2> QED
    BY <1>1, <1>6, <2>1, <2>2, <2>3, <2>4, <2>5 DEF ReadsRight
<1>9. \A x \in pushes : x.object \notin cancel
  BY <1>5 DEF RecoveryInv, PushesRight, PushRight
<1>10. \A r \in push_replies' : r.object \notin cancel
  BY <1>1, <1>5 DEF RecoveryInv, PushesRight, ReplyRight
<1>11. missing' \in [Acting -> SUBSET Object]
  BY <1>1 DEF RecoveryInv, StoreTyped
<1> QED
  BY <1>1, <1>8, <1>9, <1>10, <1>11, RecoveriesEnd

(* A new interval: every shard tells what it lacks, the primary knows.     *)
LEMMA IntervalStarts ==
  ASSUME RecoveryInv, on_change
  PROVE  RecoveryInv'
<1>1. DOMAIN <<>> = {}
  OBVIOUS
<1>2. /\ DOMAIN tid_to_read_map' = {} /\ finishing' = {} /\ DOMAIN recovery_ops' = {}
      /\ recovering' = {} /\ pushes' = {} /\ push_replies' = {}
      /\ store' = [q \in Acting |-> [o \in Object |-> [store[q][o] EXCEPT !.temp = {}]]]
      /\ missing' = [local_missing EXCEPT ![Primary] = missing[Primary]]
      /\ UNCHANGED <<next_tid, local_missing>>
  BY <1>1 DEF on_change
<1>3. StoreTyped
  BY DEF RecoveryInv
<1>4. \A q \in Acting, o \in Object :
        /\ [store[q][o] EXCEPT !.temp = {}] = [temp |-> {}, final |-> store[q][o].final]
        /\ [store[q][o] EXCEPT !.temp = {}] \in [temp : SUBSET Nat, final : SUBSET Nat]
        /\ [store[q][o] EXCEPT !.temp = {}].final = store[q][o].final
  <2> SUFFICES ASSUME NEW q \in Acting, NEW o \in Object, NEW s, s = store[q][o]
               PROVE  /\ [s EXCEPT !.temp = {}] = [temp |-> {}, final |-> s.final]
                      /\ [s EXCEPT !.temp = {}] \in [temp : SUBSET Nat, final : SUBSET Nat]
                      /\ [s EXCEPT !.temp = {}].final = s.final
    OBVIOUS
  <2>1. /\ s = [temp |-> s.temp, final |-> s.final] /\ s.final \in SUBSET Nat
        /\ {} \in SUBSET Nat
    BY <1>3 DEF StoreTyped
  <2>2. [s EXCEPT !.temp = {}] = [temp |-> {}, final |-> s.final]
    BY ONLY <2>1
  <2>3. /\ [temp |-> {}, final |-> s.final] \in [temp : SUBSET Nat, final : SUBSET Nat]
        /\ [temp |-> {}, final |-> s.final].final = s.final
    BY <2>1
  <2> QED
    BY <2>2, <2>3
<1>5. /\ store' \in [Acting -> [Object -> [temp : SUBSET Nat, final : SUBSET Nat]]]
      /\ \A q \in Acting, o \in Object : store'[q][o].final = store[q][o].final
  BY <1>2, <1>4
<1>6. /\ missing' \in [Acting -> SUBSET Object]
      /\ \A q \in Acting : missing'[q] = IF q = Primary THEN missing[q] ELSE local_missing[q]
  BY <1>2, <1>3 DEF StoreTyped
<1>7. StoreTyped'
  BY <1>2, <1>3, <1>5, <1>6 DEF StoreTyped
<1>8. WholeUnlessMissing'
  <2> SUFFICES ASSUME NEW q \in Acting, NEW o \in Object
               PROVE  /\ o \notin missing'[q] =>
                           Whole(q, o)' /\ (q # Primary => o \notin local_missing'[q])
                      /\ o \notin local_missing'[q] => Whole(q, o)'
    BY DEF WholeUnlessMissing
  <2>1. /\ o \notin missing[q] => Whole(q, o)
        /\ o \notin local_missing[q] => Whole(q, o)
    BY DEF RecoveryInv, WholeUnlessMissing
  <2>2. Whole(q, o)' = Whole(q, o) /\ local_missing'[q] = local_missing[q]
    BY <1>2, <1>5 DEF Whole
  <2>3. missing'[q] = IF q = Primary THEN missing[q] ELSE local_missing[q]
    BY <1>6
  <2> QED
    BY <2>1, <2>2, <2>3
<1>9. ReadsRight'
  BY <1>2 DEF RecoveryInv, ReadsRight
<1>10. PushesRight'
  BY <1>2 DEF PushesRight
<1> QED
  BY <1>2, <1>7, <1>8, <1>9, <1>10 DEF RecoveryInv
-----------------------------------------------------------------------------
(* Every step keeps the invariant.                                         *)
LEMMA RecoveryInvStep == RecoveryInv /\ [Next]_vars => RecoveryInv'
<1> SUFFICES ASSUME RecoveryInv, [Next]_vars PROVE RecoveryInv'
  OBVIOUS
<1>1. CASE \E S \in SUBSET Object : run_recovery_op(S)
  BY <1>1, RecoveryStarts
<1>2. CASE \E m \in wire : \E bad \in SUBSET m.objects : handle_sub_read_reply(m, bad)
  BY <1>2, ReplyRecovers
<1>9. CASE \E m \in wire : dropped_reply(m)
  <2>1. ReadsRight'
    BY <1>9 DEF RecoveryInv, ReadsRight, dropped_reply
  <2> QED
    BY <1>9, <2>1, OnlyReads DEF dropped_reply, pushVars, viewVars, shardVars
<1>3. CASE \E t \in finishing : FinishReadOp(t)
  BY <1>3, FinishRecovers
<1>4. CASE \E push \in pushes : handle_recovery_push(push)
  BY <1>4, PushRecovers
<1>5. CASE \E reply \in push_replies : handle_recovery_push_reply(reply)
  BY <1>5, PushReplyRecovers
<1>6. CASE \E p \in PgShard : check_recovery_sources(p)
  BY <1>6, SourcesLost
<1>7. CASE on_change
  BY <1>7, IntervalStarts
<1>8. CASE UNCHANGED vars
  <2>1. ReadsRight'
    BY <1>8 DEF RecoveryInv, ReadsRight, vars, readVars
  <2> QED
    BY <1>8, <2>1, OnlyReads DEF vars, pushVars, viewVars, shardVars
<1> QED
  BY <1>1, <1>2, <1>3, <1>4, <1>5, <1>6, <1>7, <1>8, <1>9 DEF Next

(* The invariant holds in every state.                                     *)
LEMMA RecoveryInvHolds == Spec => []RecoveryInv
BY RecoveryInvInit, RecoveryInvStep, PTL DEF Spec

(* What recovery may never do: an object that the primary no longer thinks *)
(* missing on a shard is there with all its pieces, and the shard knows,   *)
(* whatever reads fail, sources are lost and intervals end on the way.     *)
THEOREM RecoveredIsWhole == Spec => []NotMissingIsWhole
<1>1. RecoveryInv => NotMissingIsWhole
  BY DEF RecoveryInv, WholeUnlessMissing, NotMissingIsWhole
<1> QED
  BY <1>1, RecoveryInvHolds, PTL
-----------------------------------------------------------------------------
(* The maps of the reads and the messages agree: a shard is in the map of  *)
(* a read that is known and waits for it, and a message to it is the only  *)
(* one of its read.  Nothing is sent to a shard that is down, and none of  *)
(* those is a source.                                                      *)
SourcesRight ==
  /\ sources \in [Object -> SUBSET PgShard] /\ down \cap Acting = {}
  /\ \A o \in Object : sources[o] \cap down = {}
NeedsRight ==
  \A t \in DOMAIN tid_to_read_map : \A o \in Objs(tid_to_read_map[t]) :
    tid_to_read_map[t].to_read[o].need \subseteq PgShard
Waiting(s) ==
  /\ s = <<s[1], s[2]>> /\ s[1] \in PgShard /\ s[2] \in DOMAIN tid_to_read_map
  /\ s[1] \in tid_to_read_map[s[2]].in_progress
Sent(m) ==
  /\ m.tid \in Nat /\ m.tid < next_tid /\ m.to \notin down
  /\ m.tid \in DOMAIN tid_to_read_map => <<m.to, m.tid>> \in shard_to_read_map
WireRight ==
  /\ SourcesRight /\ NeedsRight
  /\ \A s \in shard_to_read_map : Waiting(s)
  /\ \A m \in wire : Sent(m)
  /\ \A m, n \in wire : m.tid = n.tid /\ m.to = n.to => m = n

(* What is asked of is a holder, which is up.                              *)
LEMMA HoldersUp ==
  ASSUME SourcesRight, NEW o \in Object
  PROVE  Holders(o) \subseteq PgShard /\ Holders(o) \cap down = {}
BY DEF SourcesRight, Holders

(* A read that starts waits for those it asks.                             *)
LEMMA StartSends ==
  ASSUME RecoveryInv, WireRight, NEW ops, DOMAIN ops \subseteq Object, StartReads(ops),
         UNCHANGED <<sources, down>>
  PROVE  WireRight'
<1> DEFINE want == [o \in DOMAIN ops |-> Want(ops[o])]
<1> DEFINE t == [o \in DOMAIN ops |-> Request(o, ops[o])]
<1> DEFINE rop == start_read_op(want, t, FALSE, TRUE)
<1>1. /\ next_tid' = next_tid + 1
      /\ tid_to_read_map' = With(tid_to_read_map, [x \in {next_tid} |-> rop])
      /\ shard_to_read_map' = shard_to_read_map \cup (rop.in_progress \X {next_tid})
      /\ wire' = wire \cup Messages(next_tid, rop)
  <2>1. PICK to_read \in {t} : \E r \in {start_read_op(want, to_read, FALSE, TRUE)} :
          /\ next_tid' = next_tid + 1
          /\ tid_to_read_map' = With(tid_to_read_map, [x \in {next_tid} |-> r])
          /\ shard_to_read_map' = shard_to_read_map \cup (r.in_progress \X {next_tid})
          /\ wire' = wire \cup Messages(next_tid, r)
    BY Zenon DEF StartReads
  <2>2. to_read = t
    BY <2>1
  <2> HIDE DEF t, want
  <2> QED
    BY <2>1, <2>2
<1>2. \A o \in DOMAIN t : o \in Object /\ t[o].need \subseteq Holders(o)
  BY DEF Request, get_min_avail_to_read_shards, get_all_avail_shards
<1>3. /\ Objs(rop) = DOMAIN t /\ rop.to_read = t /\ rop.in_progress = Needed(rop)
  <2> HIDE DEF t, want
  <2>1. ASSUME NEW red, NEW rec, NEW r, r = start_read_op(want, t, red, rec)
        PROVE  Objs(r) = DOMAIN t /\ r.to_read = t /\ r.in_progress = Needed(r)
    BY <2>1, StartRight
  <2> QED
    BY <2>1, Zenon
<1> HIDE DEF t, rop
<1>4. rop.in_progress \subseteq PgShard /\ rop.in_progress \cap down = {}
      /\ \A o \in Objs(rop) : rop.to_read[o].need \subseteq PgShard
  BY <1>2, <1>3, HoldersUp DEF Needed, WireRight
<1>5. next_tid \in Nat /\ \A x \in DOMAIN tid_to_read_map : x < next_tid
  BY DEF RecoveryInv, ReadsRight
<1>6. /\ DOMAIN tid_to_read_map' = DOMAIN tid_to_read_map \cup {next_tid}
      /\ tid_to_read_map'[next_tid] = rop
      /\ \A x \in DOMAIN tid_to_read_map : tid_to_read_map'[x] = tid_to_read_map[x]
  BY <1>1, <1>5 DEF With
<1>7. SourcesRight' /\ NeedsRight'
  BY <1>4, <1>6 DEF WireRight, SourcesRight, NeedsRight
<1>8. \A s \in shard_to_read_map' : Waiting(s)'
  <2>1. \A s \in shard_to_read_map : Waiting(s)'
    BY <1>6 DEF WireRight, Waiting
  <2>2. ASSUME NEW q \in rop.in_progress, NEW s, s = <<q, next_tid>> PROVE Waiting(s)'
    <3>1. s[1] = q /\ s[2] = next_tid /\ s = <<s[1], s[2]>>
      BY <2>2
    <3> QED
      BY <1>4, <1>6, <2>2, <3>1 DEF Waiting
  <2>3. \A s \in rop.in_progress \X {next_tid} :
          \E q \in rop.in_progress : s = <<q, next_tid>>
    OBVIOUS
  <2> QED
    BY <1>1, <2>1, <2>2, <2>3
<1>9. /\ \A m \in Messages(next_tid, rop) : m.tid = next_tid /\ m.to \in rop.in_progress
      /\ \A m, n \in Messages(next_tid, rop) : m.to = n.to => m = n
  BY <1>3, MessagesSent
<1>10. ASSUME NEW m \in wire PROVE m.tid # next_tid /\ m.tid \in Nat /\ m.tid < next_tid
  <2>1. m.tid \in Nat /\ m.tid < next_tid
    BY DEF WireRight, Sent
  <2> QED
    BY <1>5, <2>1
<1>11. ASSUME NEW m \in wire' PROVE Sent(m)'
  <2>1. CASE m \in wire
    BY <1>1, <1>5, <1>6, <1>10, <2>1 DEF WireRight, Sent
  <2>2. CASE m \in Messages(next_tid, rop)
    <3>1. <<m.to, next_tid>> \in shard_to_read_map'
      BY <1>1, <1>9, <2>2
    <3>2. next_tid < next_tid'
      BY <1>1, <1>5
    <3> QED
      BY <1>4, <1>5, <1>9, <2>2, <3>1, <3>2 DEF Sent
  <2> QED
    BY <1>1, <2>1, <2>2
<1>12. \A m, n \in wire' : m.tid = n.tid /\ m.to = n.to => m = n
  BY <1>1, <1>9, <1>10 DEF WireRight
<1> QED
  BY <1>7, <1>8, <1>11, <1>12 DEF WireRight

(* A read that completes leaves the maps and what waits for it, and its    *)
(* late messages find it gone.                                             *)
LEMMA CompleteSends ==
  ASSUME RecoveryInv, WireRight, NEW tid, NEW from, NEW rop,
         complete_read_op(tid, from, rop),
         tid_to_read_map[tid].in_progress \subseteq rop.in_progress \cup from,
         \A m \in wire' : \/ m \in wire
                          \/ m.tid = tid /\ tid < next_tid /\ tid \in Nat /\ m.to \notin down,
         \A m, n \in wire' : m.tid = n.tid /\ m.to = n.to => m = n,
         UNCHANGED <<next_tid, down>>
  PROVE  WireRight'
<1>1. /\ DOMAIN tid_to_read_map' = DOMAIN tid_to_read_map \ {tid}
      /\ \A t \in DOMAIN tid_to_read_map' : tid_to_read_map'[t] = tid_to_read_map[t]
  BY CompleteParts DEF Completes
<1>2. /\ shard_to_read_map' =
           shard_to_read_map \ ((rop.in_progress \cup from) \X {tid})
      /\ sources' = [o \in Object |->
           IF o \in {x \in DOMAIN rop.to_read : ~Good(rop.complete[x])}
           THEN sources[o] \ rop.complete[o].errors ELSE sources[o]]
  BY DEF complete_read_op
<1>3. SourcesRight'
  BY <1>2 DEF WireRight, SourcesRight
<1>4. NeedsRight'
  BY <1>1 DEF WireRight, NeedsRight
<1>5. ASSUME NEW s \in shard_to_read_map' PROVE Waiting(s)'
  <2>1. Waiting(s) /\ s \in shard_to_read_map
    BY <1>2 DEF WireRight
  <2>2. s[2] # tid
    <3> SUFFICES ASSUME s[2] = tid PROVE FALSE
      OBVIOUS
    <3>1. s = <<s[1], tid>> /\ s[1] \in rop.in_progress \cup from
      BY <2>1 DEF Waiting
    <3>2. s \in (rop.in_progress \cup from) \X {tid}
      BY <3>1
    <3> QED
      BY <1>2, <3>2
  <2> QED
    BY <1>1, <2>1, <2>2 DEF Waiting
<1>6. ASSUME NEW m \in wire' PROVE Sent(m)'
  <2>1. CASE m.tid = tid
    <3>1. m.tid \notin DOMAIN tid_to_read_map'
      BY <1>1, <2>1
    <3>2. m.tid \in Nat /\ m.tid < next_tid' /\ m.to \notin down'
      BY DEF WireRight, Sent
    <3> QED
      BY <3>1, <3>2 DEF Sent
  <2>2. CASE m.tid # tid
    <3>1. Sent(m)
      BY <2>2 DEF WireRight
    <3>2. m.tid \in DOMAIN tid_to_read_map' => <<m.to, m.tid>> \in shard_to_read_map'
      BY <1>1, <1>2, <2>2, <3>1 DEF Sent
    <3> QED
      BY <3>1, <3>2 DEF Sent
  <2> QED
    BY <2>1, <2>2
<1> QED
  BY <1>3, <1>4, <1>5, <1>6 DEF WireRight

(* What a reply leads to: the others that were asked are still waited for, *)
(* or all have answered and the read may be asked for again.               *)
LEMMA ReplySends ==
  ASSUME RecoveryInv, WireRight, NEW m \in wire, NEW bad, handle_sub_read_reply(m, bad)
  PROVE  WireRight'
<1> DEFINE rop == tid_to_read_map[m.tid]
<1> DEFINE got == Received(rop, m, bad)
<1> DEFINE e == Evaluated(got, AllHolders)
<1> DEFINE again == IF got.in_progress = {} THEN e.rop.in_progress ELSE {}
<1> DEFINE new == {x \in Messages(m.tid, e.rop) : again # {} /\ x.to \notin down}
<1>1. /\ m.tid \in DOMAIN tid_to_read_map /\ wire' = (wire \ {m}) \cup new
      /\ UNCHANGED <<next_tid, down>>
  BY DEF handle_sub_read_reply
<1>2. \/ complete_read_op(m.tid, {m.to}, e.rop)
      \/ /\ tid_to_read_map' = [tid_to_read_map EXCEPT ![m.tid] = e.rop]
         /\ shard_to_read_map' =
              (shard_to_read_map \ {<<m.to, m.tid>>}) \cup (again \X {m.tid})
         /\ UNCHANGED sources
  BY DEF handle_sub_read_reply, viewVars
<1>3. /\ SameObjects(rop, got) /\ got.to_read = rop.to_read
      /\ got.in_progress = rop.in_progress \ {m.to}
  BY <1>1, ReceivedRight DEF RecoveryInv, ReadsRight
<1>4. SameObjects(got, e.rop) /\ Reasked(got, e.rop, AllHolders)
  <2> HIDE DEF got
  <2> QED
    BY <1>3, EvaluatedRight DEF SameObjects
<1>5. \A x \in new : x.tid = m.tid /\ x.to \in Needed(e.rop) /\ x.to \notin down
                     /\ again # {}
  BY MessagesSent
<1>6. \A x, y \in new : x.to = y.to => x = y
  BY MessagesSent
<1> HIDE DEF new
<1>7. again # {} => /\ got.in_progress = {} /\ e.rop.in_progress = Needed(e.rop)
                    /\ again = Needed(e.rop)
  BY <1>4 DEF Reasked
<1>8. again = {} => got.in_progress = e.rop.in_progress \/ got.in_progress = {}
  BY <1>4 DEF Reasked
<1>9. \A n \in wire : n.tid = m.tid =>
        /\ n.to \in rop.in_progress
        /\ n # m => n.to \in got.in_progress
  <2> SUFFICES ASSUME NEW n \in wire, n.tid = m.tid
               PROVE  n.to \in rop.in_progress /\ (n # m => n.to \in got.in_progress)
    OBVIOUS
  <2>1. <<n.to, m.tid>> \in shard_to_read_map
    BY <1>1 DEF WireRight, Sent
  <2>2. n.to \in rop.in_progress
    <3>1. \A s \in shard_to_read_map : s[2] = m.tid => s[1] \in rop.in_progress
      BY DEF WireRight, Waiting
    <3>2. <<n.to, m.tid>>[1] = n.to /\ <<n.to, m.tid>>[2] = m.tid
      OBVIOUS
    <3> QED
      BY <2>1, <3>1, <3>2
  <2>3. n # m => n.to # m.to
    BY DEF WireRight
  <2> QED
    BY <1>3, <2>2, <2>3
<1>10. Needed(e.rop) \subseteq PgShard
       /\ \A o \in Objs(e.rop) : e.rop.to_read[o].need \subseteq PgShard
  <2>1. \A o \in Objs(rop) : o \in Object /\ rop.to_read[o].need \subseteq PgShard
    BY <1>1 DEF WireRight, NeedsRight, RecoveryInv, ReadsRight
  <2>2. Objs(e.rop) = Objs(rop)
    BY <1>3, <1>4 DEF SameObjects
  <2>3. \A o \in Object : AllHolders[o] \subseteq PgShard
    BY HoldersUp DEF AllHolders, WireRight
  <2>4. \A o \in Objs(rop) : e.rop.to_read[o].need \subseteq PgShard
    BY <1>3, <1>4, <2>1, <2>3 DEF SameObjects, Reasked
  <2> QED
    BY <2>2, <2>4 DEF Needed
<1> HIDE DEF e, got, again, rop
<1>11. \A x, y \in wire' : x.tid = y.tid /\ x.to = y.to => x = y
  <2>1. \A x \in wire \ {m}, y \in new : x.tid # m.tid
    BY <1>5, <1>7, <1>9
  <2> QED
    BY <1>1, <1>5, <1>6, <2>1 DEF WireRight
<1>12. m.tid \in Nat /\ m.tid < next_tid
  BY DEF WireRight, Sent
<1>13. CASE complete_read_op(m.tid, {m.to}, e.rop)
  <2>1. rop.in_progress \subseteq e.rop.in_progress \cup {m.to}
    BY <1>3, <1>4 DEF Reasked
  <2>2. \A x \in wire' : \/ x \in wire
                         \/ /\ x.tid = m.tid /\ m.tid < next_tid /\ m.tid \in Nat
                            /\ x.to \notin down
    BY <1>1, <1>5, <1>12
  <2> QED
    BY <1>1, <1>11, <1>13, <2>1, <2>2, CompleteSends DEF rop
<1>14. CASE /\ tid_to_read_map' = [tid_to_read_map EXCEPT ![m.tid] = e.rop]
            /\ shard_to_read_map' =
                 (shard_to_read_map \ {<<m.to, m.tid>>}) \cup (again \X {m.tid})
            /\ UNCHANGED sources
  <2>1. /\ DOMAIN tid_to_read_map' = DOMAIN tid_to_read_map
        /\ \A t \in DOMAIN tid_to_read_map :
             tid_to_read_map'[t] = IF t = m.tid THEN e.rop ELSE tid_to_read_map[t]
    BY <1>14
  <2>2. SourcesRight' /\ NeedsRight'
    BY <1>1, <1>10, <1>14, <2>1 DEF WireRight, SourcesRight, NeedsRight
  <2>3. ASSUME NEW s \in shard_to_read_map' PROVE Waiting(s)'
    <3>1. CASE s \in again \X {m.tid}
      <4>1. s = <<s[1], s[2]>> /\ s[1] \in again /\ s[2] = m.tid
        BY <3>1
      <4> QED
        BY <1>1, <1>7, <1>10, <2>1, <4>1 DEF Waiting
    <3>2. CASE s \in shard_to_read_map /\ s # <<m.to, m.tid>>
      <4>1. Waiting(s)
        BY <3>2 DEF WireRight
      <4>2. CASE s[2] # m.tid
        BY <2>1, <4>1, <4>2 DEF Waiting
      <4>3. CASE s[2] = m.tid
        <5>1. s[1] \in rop.in_progress /\ s[1] # m.to
          BY <3>2, <4>1, <4>3 DEF Waiting, rop
        <5>2. s[1] \in got.in_progress
          BY <1>3, <5>1
        <5>3. s[1] \in e.rop.in_progress
          BY <1>4, <5>2 DEF Reasked
        <5> QED
          BY <1>1, <2>1, <4>1, <4>3, <5>3 DEF Waiting
      <4> QED
        BY <4>2, <4>3
    <3> QED
      BY <1>14, <3>1, <3>2
  <2>4. ASSUME NEW x \in wire' PROVE Sent(x)'
    <3>1. CASE x \in new
      <4>1. <<x.to, m.tid>> \in shard_to_read_map'
        BY <1>5, <1>7, <1>14, <3>1
      <4> QED
        BY <1>1, <1>5, <1>12, <3>1, <4>1 DEF Sent
    <3>2. CASE x \in wire /\ x # m
      <4>1. Sent(x) /\ (x.tid = m.tid => x.to # m.to)
        BY <3>2 DEF WireRight
      <4>2. x.tid \in DOMAIN tid_to_read_map => <<x.to, x.tid>> \in shard_to_read_map'
        BY <1>14, <4>1 DEF Sent
      <4> QED
        BY <1>1, <2>1, <4>1, <4>2 DEF Sent
    <3> QED
      BY <1>1, <3>1, <3>2
  <2> QED
    BY <1>11, <2>2, <2>3, <2>4 DEF WireRight
<1> QED
  BY <1>2, <1>13, <1>14

(* The loss of a source: nobody that is down is waited for any more.       *)
LEMMA LostSends ==
  ASSUME RecoveryInv, WireRight, NEW p, check_recovery_sources(p)
  PROVE  WireRight'
<1> DEFINE gone == down \cup {p}
<1> DEFINE tids == {t \in DOMAIN tid_to_read_map :
                      \E q \in gone : <<q, t>> \in shard_to_read_map}
<1> DEFINE F(t) == filter_read_op(tid_to_read_map[t], gone)
<1>1. /\ DOMAIN tid_to_read_map' = DOMAIN tid_to_read_map
      /\ \A t \in DOMAIN tid_to_read_map :
           tid_to_read_map'[t] = IF t \in tids THEN F(t) ELSE tid_to_read_map[t]
      /\ shard_to_read_map' = {s \in shard_to_read_map : s[1] \notin gone}
      /\ p \in PgShard \ Acting /\ down' = gone
      /\ sources' = [o \in Object |-> sources[o] \ {p}]
      /\ wire' = {m \in wire : m.to # p}
      /\ next_tid' = next_tid
  BY DEF check_recovery_sources
<1>2. \A t \in tids : /\ tid_to_read_map[t].in_progress \ gone \subseteq F(t).in_progress
                      /\ Objs(F(t)) \subseteq Objs(tid_to_read_map[t])
                      /\ \A o \in Objs(F(t)) :
                           F(t).to_read[o] = tid_to_read_map[t].to_read[o]
  <2> SUFFICES ASSUME NEW t \in tids
               PROVE  /\ tid_to_read_map[t].in_progress \ gone \subseteq F(t).in_progress
                      /\ Objs(F(t)) \subseteq Objs(tid_to_read_map[t])
                      /\ \A o \in Objs(F(t)) :
                           F(t).to_read[o] = tid_to_read_map[t].to_read[o]
    OBVIOUS
  <2>1. RopRight(tid_to_read_map[t]) /\ Objs(tid_to_read_map[t]) \subseteq Object
    BY DEF RecoveryInv, ReadsRight
  <2> QED
    BY <2>1, FilteredRight
<1>3. tids \subseteq DOMAIN tid_to_read_map
  OBVIOUS
<1> HIDE DEF tids, F
<1>4. SourcesRight'
  BY <1>1 DEF WireRight, SourcesRight
<1>5. NeedsRight'
  BY <1>1, <1>2, <1>3 DEF WireRight, NeedsRight
<1>6. ASSUME NEW s \in shard_to_read_map' PROVE Waiting(s)'
  <2>1. Waiting(s) /\ s[1] \notin gone
    BY <1>1 DEF WireRight
  <2>2. s[1] \in tid_to_read_map'[s[2]].in_progress
    BY <1>1, <1>2, <2>1 DEF Waiting
  <2> QED
    BY <1>1, <2>1, <2>2 DEF Waiting
<1>7. ASSUME NEW m \in wire' PROVE Sent(m)'
  <2>1. Sent(m) /\ m.to \notin gone
    BY <1>1 DEF WireRight, Sent
  <2>2. <<m.to, m.tid>>[1] = m.to
    OBVIOUS
  <2> QED
    BY <1>1, <2>1, <2>2 DEF Sent
<1> QED
  BY <1>1, <1>4, <1>5, <1>6, <1>7 DEF WireRight

(* A step that leaves the reads alone.                                     *)
LEMMA KeepsSends ==
  ASSUME WireRight, wire' \subseteq wire,
         UNCHANGED <<tid_to_read_map, shard_to_read_map, next_tid, sources, down>>
  PROVE  WireRight'
BY DEF WireRight, SourcesRight, NeedsRight, Waiting, Sent

(* At first nothing is read.                                               *)
LEMMA WireInit == Init => WireRight
<1> SUFFICES ASSUME Init PROVE WireRight
  OBVIOUS
<1>0. DOMAIN <<>> = {}
  OBVIOUS
<1>1. DOMAIN tid_to_read_map = {} /\ shard_to_read_map = {} /\ wire = {}
  BY <1>0 DEF Init
<1>2. SourcesRight
  BY DEF Init, SourcesRight
<1> QED
  BY <1>1, <1>2 DEF WireRight, NeedsRight

(* Every step keeps the maps and the messages in agreement.                *)
LEMMA WireStep == RecoveryInv /\ WireRight /\ [Next]_vars => WireRight'
<1> SUFFICES ASSUME RecoveryInv, WireRight, [Next]_vars PROVE WireRight'
  OBVIOUS
<1>1. ASSUME NEW S \in SUBSET Object, run_recovery_op(S) PROVE WireRight'
  <2> DEFINE ops == [o \in S |-> RecoveryOp(o)]
  <2>1. StartReads(ops) /\ DOMAIN ops \subseteq Object /\ UNCHANGED <<sources, down>>
    BY <1>1 DEF run_recovery_op, viewVars
  <2> HIDE DEF ops
  <2> QED
    BY <2>1, StartSends
<1>2. ASSUME NEW m \in wire, dropped_reply(m) PROVE WireRight'
  <2>1. /\ wire' \subseteq wire
        /\ UNCHANGED <<tid_to_read_map, shard_to_read_map, next_tid, sources, down>>
    BY <1>2 DEF dropped_reply, viewVars
  <2> QED
    BY <2>1, KeepsSends
<1>3. CASE \E m \in wire : \E bad \in SUBSET m.objects : handle_sub_read_reply(m, bad)
  BY <1>3, ReplySends
<1>4. ASSUME NEW t \in finishing, FinishReadOp(t) PROVE WireRight'
  <2>1. t \in DOMAIN tid_to_read_map /\ tid_to_read_map[t].in_progress = {}
    BY DEF RecoveryInv, ReadsRight
  <2>2. /\ complete_read_op(t, {}, tid_to_read_map[t])
        /\ UNCHANGED <<wire, next_tid, down>>
    BY <1>4 DEF FinishReadOp
  <2>3. \A x, y \in wire' : x.tid = y.tid /\ x.to = y.to => x = y
    BY <2>2 DEF WireRight
  <2>4. tid_to_read_map[t].in_progress \subseteq tid_to_read_map[t].in_progress \cup {}
    OBVIOUS
  <2>5. \A m \in wire' : \/ m \in wire
                         \/ m.tid = t /\ t < next_tid /\ t \in Nat /\ m.to \notin down
    BY <2>2
  <2> QED
    BY <2>2, <2>3, <2>4, <2>5, CompleteSends
<1>5. ASSUME NEW push \in pushes, handle_recovery_push(push) PROVE WireRight'
  <2>1. UNCHANGED <<tid_to_read_map, shard_to_read_map, next_tid, sources, down, wire>>
    BY <1>5 DEF handle_recovery_push, readVars
  <2> QED
    BY <2>1, KeepsSends
<1>6. ASSUME NEW reply \in push_replies, handle_recovery_push_reply(reply)
      PROVE  WireRight'
  <2>1. UNCHANGED <<sources, down>>
    BY <1>6 DEF handle_recovery_push_reply
  <2>2. PICK o, op, next : /\ o = reply.object
                           /\ \/ UNCHANGED readVars
                              \/ LastPushed(o, op)
                              \/ NextPiece(o, next)
                              \/ NoSources(o, next)
    BY <1>6 DEF handle_recovery_push_reply
  <2>3. CASE UNCHANGED readVars
    <3>1. UNCHANGED <<tid_to_read_map, shard_to_read_map, next_tid, sources, down, wire>>
      BY <2>1, <2>3 DEF readVars
    <3> QED
      BY <3>1, KeepsSends
  <2>4. CASE NextPiece(o, next)
    <3> DEFINE ops == [x \in {o} |-> next]
    <3>1. StartReads(ops)
      BY <2>4 DEF NextPiece
    <3>2. DOMAIN ops \subseteq Object
      BY <2>2 DEF RecoveryInv, ReadsRight, PushesRight, ReplyRight
    <3> HIDE DEF ops
    <3> QED
      BY <2>1, <3>1, <3>2, StartSends
  <2> QED
    BY <2>2, <2>3, <2>4 DEF LastPushed, NoSources
<1>7. CASE \E p \in PgShard : check_recovery_sources(p)
  BY <1>7, LostSends
<1>8. CASE on_change
  <2>1. DOMAIN <<>> = {}
    OBVIOUS
  <2>2. /\ DOMAIN tid_to_read_map' = {} /\ shard_to_read_map' = {} /\ wire' = {}
        /\ UNCHANGED <<sources, down>>
    BY <1>8, <2>1 DEF on_change
  <2> QED
    BY <2>2 DEF WireRight, SourcesRight, NeedsRight
<1>9. CASE UNCHANGED vars
  <2>1. UNCHANGED <<tid_to_read_map, shard_to_read_map, next_tid, sources, down, wire>>
    BY <1>9 DEF vars, readVars, viewVars
  <2> QED
    BY <2>1, KeepsSends
<1> QED
  BY <1>1, <1>2, <1>3, <1>4, <1>5, <1>6, <1>7, <1>8, <1>9 DEF Next
-----------------------------------------------------------------------------
Agreed == asserted \notin Disagreements

(* The assertion of complete_read_op that fails is its own or that of one  *)
(* of its objects.                                                         *)
LEMMA ReadAssertOf ==
  ASSUME NEW rop, Objs(rop) \subseteq Nat
  PROVE  \/ CompleteAssert(rop) # "" /\ ReadAssert(rop) = CompleteAssert(rop)
         \/ ReadAssert(rop) = ""
         \/ \E o \in Objs(rop) : ReadAssert(rop) = ObjectAssert(o, rop.complete[o])
<1> DEFINE broken == {o \in DOMAIN rop.to_read : ObjectAssert(o, rop.complete[o]) # ""}
<1>1. broken \subseteq Objs(rop)
  BY DEF Objs
<1>2. broken # {} => \E o \in broken : \A y \in broken : o <= y
  <2>1. broken \in SUBSET Nat
    BY <1>1
  <2> HIDE DEF broken
  <2> QED
    BY <2>1, LeastMember
<1>3. ReadAssert(rop) = IF CompleteAssert(rop) # "" THEN CompleteAssert(rop)
        ELSE IF broken = {} THEN ""
        ELSE LET o == CHOOSE x \in broken : \A y \in broken : x <= y
             IN  ObjectAssert(o, rop.complete[o])
  BY DEF ReadAssert
<1>4. CASE CompleteAssert(rop) = "" /\ broken # {}
  <2> DEFINE c == CHOOSE x \in broken : \A y \in broken : x <= y
  <2>1. c \in Objs(rop)
    <3> HIDE DEF broken
    <3> QED
      BY <1>1, <1>2, <1>4
  <2>2. ReadAssert(rop) = ObjectAssert(c, rop.complete[c])
    BY <1>3, <1>4
  <2> HIDE DEF c
  <2> QED
    BY <2>1, <2>2
<1> QED
  BY <1>3, <1>4

(* Those of OnRecoveryReadComplete hold for every object of a read.        *)
LEMMA ReadAgrees ==
  ASSUME RecoveryInv, NEW rop, Objs(rop) \subseteq DOMAIN recovery_ops
  PROVE  ReadAssert(rop) \notin Disagreements
<1>1. \A o \in Objs(rop) : \A res : ObjectAssert(o, res) \notin Disagreements
  BY DEF ObjectAssert, RecoveryInv, ReadsRight, Disagreements
<1>2. CompleteAssert(rop) \notin Disagreements /\ "" \notin Disagreements
  BY DEF CompleteAssert, Disagreements
<1>3. Objs(rop) \subseteq Nat
  BY DEF RecoveryInv, ReadsRight, Object
<1>4. \A o \in Objs(rop) : ObjectAssert(o, rop.complete[o]) \notin Disagreements
  BY <1>1
<1>5. \/ ReadAssert(rop) = CompleteAssert(rop)
      \/ ReadAssert(rop) = ""
      \/ \E o \in Objs(rop) : ReadAssert(rop) = ObjectAssert(o, rop.complete[o])
  BY <1>3, ReadAssertOf
<1> QED
  BY ONLY <1>2, <1>4, <1>5

(* No step lets one of them fail.                                          *)
LEMMA AgreeStep ==
  ASSUME RecoveryInv, Agreed, [Next]_vars
  PROVE  Agreed'
<1> SUFFICES asserted' \notin Disagreements
  BY DEF Agreed
<1>1. "" \notin Disagreements /\ asserted \notin Disagreements
  BY DEF Disagreements, Agreed
<1>2. CASE \E S \in SUBSET Object : run_recovery_op(S)
  BY <1>1, <1>2 DEF run_recovery_op, RecoveryInv, ReadsRight
<1>3. CASE \E m \in wire : dropped_reply(m)
  BY <1>1, <1>3 DEF dropped_reply
<1>4. ASSUME NEW m \in wire, NEW bad, handle_sub_read_reply(m, bad)
      PROVE  asserted' \notin Disagreements
  <2> DEFINE rop == tid_to_read_map[m.tid]
  <2> DEFINE got == Received(rop, m, bad)
  <2> DEFINE e == Evaluated(got, AllHolders)
  <2>1. /\ m.tid \in DOMAIN tid_to_read_map
        /\ complete_read_op(m.tid, {m.to}, e.rop) \/ asserted' = e.assert
    BY <1>4 DEF handle_sub_read_reply
  <2>2. SameObjects(rop, got)
    BY <2>1, ReceivedRight DEF RecoveryInv, ReadsRight
  <2> HIDE DEF got
  <2>3. SameObjects(got, e.rop) /\ e.assert \in {""} \cup LoopAsserts
    BY <2>2, EvaluatedRight DEF SameObjects
  <2> HIDE DEF e
  <2>4. Objs(e.rop) \subseteq DOMAIN recovery_ops
    BY <2>1, <2>2, <2>3 DEF SameObjects, RecoveryInv, ReadsRight
  <2>5. e.assert \notin Disagreements
    BY <2>3 DEF LoopAsserts, Disagreements
  <2>6. complete_read_op(m.tid, {m.to}, e.rop) => asserted' = ReadAssert(e.rop)
    BY DEF complete_read_op
  <2> QED
    BY <2>1, <2>4, <2>5, <2>6, ReadAgrees
<1>5. ASSUME NEW t \in finishing, FinishReadOp(t) PROVE asserted' \notin Disagreements
  <2>1. Objs(tid_to_read_map[t]) \subseteq DOMAIN recovery_ops
    BY DEF RecoveryInv, ReadsRight
  <2>2. asserted' = ReadAssert(tid_to_read_map[t])
    BY <1>5 DEF FinishReadOp, complete_read_op
  <2> QED
    BY <2>1, <2>2, ReadAgrees
<1>6. ASSUME NEW push \in pushes, handle_recovery_push(push)
      PROVE  asserted' \notin Disagreements
  <2>1. push.object \in DOMAIN recovery_ops \cap recovering
    BY DEF RecoveryInv, ReadsRight, PushesRight, PushRight
  <2>2. asserted' = "" \/ asserted' = asserted
    BY <1>6, <2>1 DEF handle_recovery_push
  <2> QED
    BY <1>1, <2>2
<1>7. ASSUME NEW reply \in push_replies, handle_recovery_push_reply(reply)
      PROVE  asserted' \notin Disagreements
  <2>1. reply.object \in recovering
    BY DEF RecoveryInv, ReadsRight, PushesRight, ReplyRight
  <2>2. asserted' = "" \/ asserted' = asserted
    BY <1>7, <2>1 DEF handle_recovery_push_reply, LastPushed, NextPiece, NoSources
  <2> QED
    BY <1>1, <2>2
<1>8. ASSUME NEW p, check_recovery_sources(p) PROVE asserted' \notin Disagreements
  <2> DEFINE gone == down \cup {p}
  <2> DEFINE tids == {t \in DOMAIN tid_to_read_map :
                        \E q \in gone : <<q, t>> \in shard_to_read_map}
  <2>1. \A t \in tids : Cancelled(tid_to_read_map[t], gone) \subseteq recovering
    <3> SUFFICES ASSUME NEW t \in tids
                 PROVE  Cancelled(tid_to_read_map[t], gone) \subseteq recovering
      OBVIOUS
    <3>1. /\ RopRight(tid_to_read_map[t]) /\ Objs(tid_to_read_map[t]) \subseteq Object
          /\ Objs(tid_to_read_map[t]) \subseteq recovering
      BY DEF RecoveryInv, ReadsRight
    <3> QED
      BY <3>1, FilteredRight
  <2>2. asserted' = IF UNION {Cancelled(tid_to_read_map[t], gone) : t \in tids}
                         \subseteq recovering
                    THEN "" ELSE "recovering.count"
    BY <1>8 DEF check_recovery_sources
  <2> HIDE DEF tids
  <2>3. UNION {Cancelled(tid_to_read_map[t], gone) : t \in tids} \subseteq recovering
    BY ONLY <2>1
  <2>4. asserted' = ""
    BY ONLY <2>2, <2>3
  <2> QED
    BY <1>1, <2>4
<1>9. CASE on_change
  BY <1>1, <1>9 DEF on_change
<1>10. CASE UNCHANGED vars
  BY <1>1, <1>10 DEF vars
<1> QED
  BY <1>2, <1>3, <1>4, <1>5, <1>6, <1>7, <1>8, <1>9, <1>10 DEF Next

(* Whatever shards answer late, give errors or go down, and whenever the   *)
(* interval ends: check_recovery_sources and the queued completions find   *)
(* the reads they name, a reply of a read that is known finds its shard in *)
(* both maps and a push reply the recovery that waits for it, and          *)
(* ECBackend and PrimaryLogPG never disagree on what is being recovered.   *)
THEOREM RecoveriesAgree ==
  Spec => [](TidsKnown /\ RepliesExpected /\ Agreed)
<1>1. RecoveryInv /\ WireRight => TidsKnown /\ RepliesExpected
  <2> SUFFICES ASSUME RecoveryInv, WireRight PROVE TidsKnown /\ RepliesExpected
    OBVIOUS
  <2>1. TidsKnown
    BY DEF WireRight, Waiting, RecoveryInv, ReadsRight, TidsKnown
  <2>2. ASSUME NEW m \in wire, m.tid \in DOMAIN tid_to_read_map
        PROVE  /\ <<m.to, m.tid>> \in shard_to_read_map
               /\ m.to \in tid_to_read_map[m.tid].in_progress
    <3>1. <<m.to, m.tid>> \in shard_to_read_map
      BY <2>2 DEF WireRight, Sent
    <3>2. Waiting(<<m.to, m.tid>>)
      BY <3>1 DEF WireRight
    <3> QED
      BY <3>1, <3>2 DEF Waiting
  <2>3. \A r \in push_replies : /\ r.object \in DOMAIN recovery_ops
                                /\ r.from \in recovery_ops[r.object].waiting_on_pushes
    BY DEF RecoveryInv, PushesRight, ReplyRight
  <2> QED
    BY <2>1, <2>2, <2>3 DEF RepliesExpected
<1>2. Init => Agreed
  BY DEF Init, Disagreements, Agreed
<1>3. RecoveryInv /\ Agreed /\ [Next]_vars => Agreed'
  BY AgreeStep
<1> QED
  BY <1>1, <1>2, <1>3, RecoveryInvHolds, WireInit, WireStep, PTL DEF Spec
-----------------------------------------------------------------------------
(* What an object can be decoded from: the chunks that are lost, found     *)
(* elsewhere, or enough others.  One lost chunk alone is repaired from     *)
(* sub-chunks.                                                             *)
CanDecode(want, have) == want \subseteq have \/ Cardinality(have) >= K
Single(want) == SubChunks /\ Cardinality(want) = 1

(* It stays a repair unless an error comes: F are the kinds of errors that *)
(* the read has met (Unforeseen).                                          *)
Lone(want, F) == Single(want) /\ "repair" \notin F

(* More chunks, more that can be decoded.                                  *)
LEMMA MoreDecodes ==
  ASSUME NEW want, NEW S, NEW T \in SUBSET (0 .. K + M - 1), S \subseteq T,
         CanDecode(want, S)
  PROVE  CanDecode(want, T)
<1>1. IsFiniteSet(T) /\ Cardinality(T) \in Nat
  BY ShardsFinite
<1>2. Cardinality(S) \in Nat /\ Cardinality(S) <= Cardinality(T)
  BY <1>1, CountMonotone
<1>3. Cardinality(S) >= K => Cardinality(T) >= K
  BY <1>1, <1>2
<1> QED
  BY <1>3 DEF CanDecode

(* minimum_to_decode finds what can be decoded, and asks for enough, for   *)
(* all there is if it is a repair.                                         *)
LEMMA MinimumFor ==
  ASSUME NEW want \in SUBSET (0 .. K + M - 1), want # {},
         NEW have \in SUBSET (0 .. K + M - 1)
  PROVE  LET min == minimum_to_decode(want, have)
         IN  /\ min # {} <=> CanDecode(want, have)
             /\ min \subseteq have
             /\ min # {} => CanDecode(want, min)
             /\ repairs(want, have) => min = have
             /\ ~repairs(want, have) /\ want \subseteq have => min = want
<1> DEFINE min == minimum_to_decode(want, have)
<1>1. IsFiniteSet(have) /\ Cardinality(have) \in Nat
  BY ShardsFinite
<1>2. K \in Nat /\ K > 0 /\ M \in Nat /\ M > 0
  OBVIOUS
<1>3. \A S : Cardinality(S) >= K => S # {}
  <2>1. Cardinality({}) = 0 /\ ~(0 >= K)
    BY <1>2, FS_EmptySet
  <2> SUFFICES ASSUME NEW S, S = {} PROVE ~(Cardinality(S) >= K)
    OBVIOUS
  <2> QED
    BY <2>1
<1>4. CASE repairs(want, have)
  <2>1. min = have
    BY <1>4 DEF minimum_to_decode
  <2>2. Cardinality(have) >= K + M - 1
    BY <1>4 DEF repairs
  <2>3. Cardinality(have) >= K
    BY <1>1, <1>2, <2>2
  <2> HIDE DEF min
  <2> QED
    BY <1>3, <1>4, <2>1, <2>3 DEF CanDecode, min
<1>5. CASE ~repairs(want, have) /\ want \subseteq have
  <2>1. min = want
    BY <1>5 DEF minimum_to_decode
  <2> HIDE DEF min
  <2> QED
    BY <1>5, <2>1 DEF CanDecode, min
<1>6. CASE /\ ~repairs(want, have) /\ ~(want \subseteq have)
           /\ Cardinality(have) >= K
  <2>1. min = Lowest(K, have)
    BY <1>6 DEF minimum_to_decode
  <2>2. min \subseteq have
    BY <2>1 DEF Lowest
  <2>3. Cardinality(min) >= K
    BY <1>1, <1>2, <1>6, <2>1, LowestCount
  <2> HIDE DEF min
  <2> QED
    BY <1>3, <1>6, <2>2, <2>3 DEF CanDecode, min
<1>7. CASE /\ ~repairs(want, have) /\ ~(want \subseteq have)
           /\ ~(Cardinality(have) >= K)
  <2>1. min = {}
    BY <1>7 DEF minimum_to_decode
  <2> HIDE DEF min
  <2> QED
    BY <1>7, <2>1 DEF CanDecode, min
<1> QED
  BY <1>4, <1>5, <1>6, <1>7

(* get_all_avail_shards has a copy of each shard that has one without      *)
(* error.                                                                  *)
LEMMA AvailableCopies ==
  ASSUME NEW H \in SUBSET PgShard, NEW E
  PROVE  /\ get_all_avail_shards(H, E, TRUE) \subseteq H \ E
         /\ ShardOf(get_all_avail_shards(H, E, TRUE)) = ShardOf(H \ E)
<1> DEFINE good == {p \in H \ E : TRUE \/ p \in Acting}
<1> DEFINE best == {p \in good : \A q \in good : q[2] = p[2] => ~Before(q, p)}
<1>1. good = H \ E
  OBVIOUS
<1>2. get_all_avail_shards(H, E, TRUE) = best
  BY DEF get_all_avail_shards
<1> HIDE DEF good
<1>3. best \subseteq good /\ good \subseteq PgShard
  BY <1>1
<1>4. ASSUME NEW p \in good PROVE \E b \in best : b[2] = p[2]
  <2> DEFINE same == {q \in good : q[2] = p[2]}
  <2> DEFINE first == IF same \cap Acting # {} THEN same \cap Acting ELSE same
  <2> DEFINE osds == {q[1] : q \in first}
  <2>1. first # {} /\ first \subseteq same /\ p \in same
    OBVIOUS
  <2>2. osds \in SUBSET Nat /\ osds # {}
    BY <1>3, <2>1
  <2>3. PICK n \in osds : \A x \in osds : n <= x
    BY <2>2, LeastMember
  <2>4. PICK b \in first : b[1] = n
    BY <2>3
  <2>5. b \in good /\ b[2] = p[2] /\ b \in PgShard /\ n \in Nat
    BY <1>3, <2>1, <2>2, <2>4
  <2>6. ASSUME NEW q \in good, q[2] = b[2], Before(q, b) PROVE FALSE
    <3>1. q \in same /\ q[1] \in Nat
      BY <1>3, <2>5, <2>6
    <3>2. q \notin first \/ ~(q[1] < b[1])
      <4>1. q \in first => n <= q[1]
        BY <2>3
      <4> QED
        BY <2>4, <2>5, <3>1, <4>1
    <3>3. (q \in Acting /\ b \notin Acting) \/ ((q \in Acting <=> b \in Acting) /\ q[1] < b[1])
      BY <2>6 DEF Before
    <3>4. q \in Acting => q \in first /\ b \in Acting
      BY <2>4, <3>1
    <3>5. q \notin Acting /\ b \notin Acting => q \in first
      BY <2>4, <3>1
    <3> QED
      BY <3>2, <3>3, <3>4, <3>5
  <2> QED
    BY <2>5, <2>6
<1>5. ShardOf(best) = ShardOf(good)
  <2>1. ShardOf(best) \subseteq ShardOf(good)
    BY <1>3 DEF ShardOf
  <2>2. ASSUME NEW s \in ShardOf(good) PROVE s \in ShardOf(best)
    <3>1. PICK p \in good : s = p[2]
      BY DEF ShardOf
    <3>2. PICK b \in best : b[2] = p[2]
      BY <1>4
    <3> QED
      BY <3>1, <3>2 DEF ShardOf
  <2> HIDE DEF best
  <2> QED
    BY <2>1, <2>2
<1> HIDE DEF best
<1> QED
  BY <1>1, <1>2, <1>3, <1>5
-----------------------------------------------------------------------------
(* How the read of one object may stand: want are the chunks that are      *)
(* lost, A the shards that were asked, req what they are asked now, I the  *)
(* shards that are waited for, res what came, H the holders of the object, *)
(* B the shards that cannot read it and F the kinds of errors so far.      *)

(* Who was asked has answered, or is waited for.                           *)
HeardOf(want, A, req, I, res, F) ==
  \/ CanDecode(want, Have(res)) /\ ~Lone(want, F)
  \/ A \subseteq (I \cap req.need) \cup Buffers(res) \cup res.errors

(* Errors are of copies that cannot be read; without them what was asked   *)
(* is enough.                                                              *)
ErrorsFine(want, A, res, B, F) ==
  /\ res.errors \subseteq B
  /\ res.errors # {} => ~Lone(want, F)
  /\ res.errors = {} => CanDecode(want, ShardOf(A))

(* What was given up stays so, unless a copy can be read again or errors   *)
(* are checked for: what could be read came, and is too little.            *)
GivenUpFine(want, A, res, H, B, F) ==
  res.r # "ok" =>
    \/ CheckForErrors \/ "transient" \in F
    \/ /\ ~CanDecode(want, Have(res)) /\ A \subseteq Buffers(res) \cup B
       /\ ~CanDecode(want, ShardOf(H \ res.errors))

(* A shard that gave an error has no other copy.                           *)
CopiesFine(res, H, F) ==
  \A q \in res.errors, p \in H : p # q /\ p[2] = q[2] => "copy" \in F

(* Sub-chunks are asked for a repair, and whole chunks for anything else,  *)
(* unless an error came in a repair.                                       *)
ChunksFine(want, A, req, res, F) ==
  \/ Single(want) /\ "repair" \in F
  \/ IF req.sub
     THEN /\ res.full = {} /\ Single(want) /\ want \cap ShardOf(A) = {}
          /\ Cardinality(ShardOf(A)) >= K + M - 1
     ELSE /\ res.part = {}
          /\ Single(want) => \/ ShardOf(A) \subseteq want
                             \/ Cardinality(ShardOf(A)) < K + M - 1

FineTypes(want, A, req, res) ==
  /\ want \in SUBSET (0 .. K + M - 1) /\ want # {} /\ A \in SUBSET PgShard
  /\ req \in ReadRequest /\ req.need \subseteq A
  /\ res \in Result /\ res.returned /\ Buffers(res) \subseteq A
FineRead(want, A, req, I, res, H, B, F) ==
  /\ FineTypes(want, A, req, res) /\ HeardOf(want, A, req, I, res, F)
  /\ ErrorsFine(want, A, res, B, F) /\ GivenUpFine(want, A, res, H, B, F)
  /\ ChunksFine(want, A, req, res, F) /\ CopiesFine(res, H, F)

(* The numbers of shards are those of the code.                            *)
LEMMA ShardNumbers ==
  ASSUME NEW S \in SUBSET PgShard
  PROVE  ShardOf(S) \in SUBSET (0 .. K + M - 1)
BY DEF ShardOf

(* A reply from q for the objects S, from sub-chunks for sub and with an   *)
(* error for bad, and what it leaves of the result of o.                   *)
HeardOne(res, new, o, q, S, sub, bad) ==
  /\ new \in Result /\ new.returned = res.returned /\ new.r = res.r
  /\ new.errors = res.errors \cup From(q, o, bad)
  /\ Buffers(new) = Buffers(res) \cup From(q, o, S \ bad)
  /\ new.full \subseteq res.full \cup From(q, o, S \ sub)
  /\ new.part \subseteq res.part \cup From(q, o, sub)

(* What a read may meet when it takes an answer: its kinds grow to F2.     *)
Meets(want, F, F2, o, q, S, bad, H, B) ==
  /\ F \subseteq F2
  /\ o \in bad /\ Single(want) => "repair" \in F2
  /\ o \in bad /\ (\E p \in H : p # q /\ p[2] = q[2]) => "copy" \in F2
  /\ o \in S /\ q \in B /\ o \notin bad => "transient" \in F2

(* Have counts the shards whose buffers there are.                         *)
LEMMA HaveShards ==
  ASSUME NEW res \in Result
  PROVE  /\ Have(res) = ShardOf(Buffers(res)) /\ Buffers(res) \in SUBSET PgShard
         /\ Have(res) \in SUBSET (0 .. K + M - 1)
<1>1. res.full \in SUBSET PgShard /\ res.part \in SUBSET PgShard
  BY DEF Result
<1>2. Have(res) = ShardOf(Buffers(res)) /\ Buffers(res) \in SUBSET PgShard
  BY <1>1 DEF Have, Buffers
<1> QED
  BY <1>2, ShardNumbers

(* More shards, more of their numbers.                                     *)
LEMMA ShardsMonotone ==
  ASSUME NEW S, NEW T, S \subseteq T
  PROVE  ShardOf(S) \subseteq ShardOf(T)
BY DEF ShardOf

(* The same read while more shards are waited for, holders are lost and    *)
(* copies go bad.                                                          *)
LEMMA FineStays ==
  ASSUME NEW want, NEW A, NEW req, NEW I, NEW res, NEW H \in SUBSET PgShard, NEW B, NEW F,
         FineRead(want, A, req, I, res, H, B, F),
         NEW I2, I \cap req.need \subseteq I2, NEW H2, H2 \subseteq H,
         NEW B2, B \subseteq B2, NEW F2, F \subseteq F2
  PROVE  FineRead(want, A, req, I2, res, H2, B2, F2)
<1>1. HeardOf(want, A, req, I2, res, F2)
  BY DEF FineRead, HeardOf, Lone
<1>2. ErrorsFine(want, A, res, B2, F2)
  BY DEF FineRead, ErrorsFine, Lone
<1>3. ShardOf(H2 \ res.errors) \subseteq ShardOf(H \ res.errors)
      /\ ShardOf(H \ res.errors) \in SUBSET (0 .. K + M - 1)
  BY ShardsMonotone, ShardNumbers
<1>4. CanDecode(want, ShardOf(H2 \ res.errors)) => CanDecode(want, ShardOf(H \ res.errors))
  BY <1>3, MoreDecodes
<1>5. GivenUpFine(want, A, res, H2, B2, F2)
  BY <1>4 DEF FineRead, GivenUpFine
<1>6. ChunksFine(want, A, req, res, F2) /\ CopiesFine(res, H2, F2)
  BY DEF FineRead, ChunksFine, CopiesFine
<1> QED
  BY <1>1, <1>2, <1>5, <1>6 DEF FineRead

(* A reply keeps what is known of the read.  An error is of a copy that    *)
(* cannot be read from then on.                                            *)
LEMMA FineHeard ==
  ASSUME NEW want, NEW A, NEW req, NEW I, NEW res, NEW H \in SUBSET PgShard, NEW B, NEW F,
         FineRead(want, A, req, I, res, H, B, F),
         NEW q \in PgShard, NEW o, NEW S, NEW sub, NEW bad,
         o \in S <=> q \in req.need, o \in sub <=> q \in req.need /\ req.sub,
         o \in bad => o \in S,
         NEW new, HeardOne(res, new, o, q, S, sub, bad),
         NEW B2, B \subseteq B2, o \in bad => q \in B2,
         NEW F2, Meets(want, F, F2, o, q, S, bad, H, B)
  PROVE  FineRead(want, A, req, I \ {q}, new, H, B2, F2)
<1>0. /\ F \subseteq F2
      /\ o \in bad /\ Single(want) => "repair" \in F2
      /\ o \in bad /\ (\E p \in H : p # q /\ p[2] = q[2]) => "copy" \in F2
      /\ o \in S /\ q \in B /\ o \notin bad => "transient" \in F2
  BY DEF Meets
<1>1. FineTypes(want, A, req, res)
  BY DEF FineRead
<1>2. res \in Result /\ new \in Result /\ req.sub \in BOOLEAN /\ req.need \subseteq A
      /\ A \in SUBSET PgShard /\ want \in SUBSET (0 .. K + M - 1)
  BY <1>1 DEF HeardOne, FineTypes, ReadRequest
<1>3. /\ new.returned = res.returned /\ new.r = res.r
      /\ new.errors = res.errors \cup {x \in {q} : o \in bad}
      /\ Buffers(new) = Buffers(res) \cup {x \in {q} : o \in S /\ o \notin bad}
      /\ new.full \subseteq res.full \cup {x \in {q} : o \in S /\ o \notin sub}
      /\ new.part \subseteq res.part \cup {x \in {q} : o \in sub}
  BY DEF HeardOne, From
<1>4. FineTypes(want, A, req, new)
  BY <1>1, <1>2, <1>3 DEF FineTypes
<1>5. /\ Have(new) \in SUBSET (0 .. K + M - 1) /\ Have(res) \subseteq Have(new)
      /\ Have(res) = ShardOf(Buffers(res)) /\ Have(new) = ShardOf(Buffers(new))
  <2>1. /\ Have(res) = ShardOf(Buffers(res)) /\ Have(new) = ShardOf(Buffers(new))
        /\ Have(new) \in SUBSET (0 .. K + M - 1)
    BY <1>2, HaveShards
  <2>2. Buffers(res) \subseteq Buffers(new)
    BY <1>3
  <2>3. ShardOf(Buffers(res)) \subseteq ShardOf(Buffers(new))
    BY <2>2, ShardsMonotone
  <2> QED
    BY ONLY <2>1, <2>3
<1>6. HeardOf(want, A, req, I \ {q}, new, F2)
  <2>1. CASE CanDecode(want, Have(res)) /\ ~Lone(want, F)
    BY <1>0, <1>5, <2>1, MoreDecodes DEF HeardOf, Lone
  <2>2. CASE A \subseteq (I \cap req.need) \cup Buffers(res) \cup res.errors
    BY <1>3, <2>2 DEF HeardOf
  <2> QED
    BY <2>1, <2>2 DEF FineRead, HeardOf
<1>7. ErrorsFine(want, A, new, B2, F2)
  BY <1>0, <1>3 DEF FineRead, ErrorsFine, Lone
<1>8. GivenUpFine(want, A, new, H, B2, F2)
  <2> SUFFICES ASSUME new.r # "ok", ~CheckForErrors, "transient" \notin F2
               PROVE  /\ ~CanDecode(want, Have(new)) /\ A \subseteq Buffers(new) \cup B2
                      /\ ~CanDecode(want, ShardOf(H \ new.errors))
    BY DEF GivenUpFine
  <2>1. /\ ~CanDecode(want, Have(res)) /\ A \subseteq Buffers(res) \cup B
        /\ ~CanDecode(want, ShardOf(H \ res.errors))
    BY <1>0, <1>3 DEF FineRead, GivenUpFine
  <2>2. Buffers(new) = Buffers(res)
    BY <1>0, <1>2, <1>3, <2>1
  <2>3. ~CanDecode(want, ShardOf(H \ new.errors))
    <3>1. /\ ShardOf(H \ new.errors) \subseteq ShardOf(H \ res.errors)
          /\ ShardOf(H \ res.errors) \in SUBSET (0 .. K + M - 1)
      BY <1>3, ShardsMonotone, ShardNumbers
    <3> QED
      BY <2>1, <3>1, MoreDecodes
  <2> QED
    BY <1>5, <2>1, <2>2, <2>3
<1>9. ChunksFine(want, A, req, new, F2)
  BY <1>0, <1>2, <1>3 DEF FineRead, ChunksFine
<1>10. CopiesFine(new, H, F2)
  BY <1>0, <1>3 DEF FineRead, CopiesFine
<1> QED
  BY <1>4, <1>6, <1>7, <1>8, <1>9, <1>10 DEF FineRead

(* Enough came: errors of copies that were not needed are ignored, or fail *)
(* the object if they are checked for.                                     *)
LEMMA FineJudged ==
  ASSUME NEW want, NEW A, NEW req, NEW I, NEW res, NEW F,
         NEW H \in SUBSET PgShard, NEW B, FineRead(want, A, req, I, res, H, B, F),
         CanDecode(want, Have(res)), res.r = "ok"
  PROVE  FineRead(want, A, req, I, Judged(res), H, B, F)
<1>1. CASE res.errors = {}
  BY <1>1 DEF Judged
<1>3. CASE res.errors # {} /\ CheckForErrors
  <2> DEFINE new == [res EXCEPT !.r = "error"]
  <2>1. Judged(res) = new
    BY <1>3 DEF Judged
  <2>2. FineTypes(want, A, req, res) /\ res \in Result
    BY DEF FineRead, FineTypes
  <2>3. /\ new \in Result /\ new.full = res.full /\ new.part = res.part
        /\ new.errors = res.errors /\ new.returned = res.returned
    BY <2>2 DEF Result
  <2> HIDE DEF new
  <2>4. Buffers(new) = Buffers(res) /\ Have(new) = Have(res)
    BY <2>3 DEF Buffers, Have
  <2>5. FineTypes(want, A, req, new) /\ HeardOf(want, A, req, I, new, F)
    BY <2>2, <2>3, <2>4 DEF FineRead, FineTypes, HeardOf
  <2>6. ErrorsFine(want, A, new, B, F) /\ CopiesFine(new, H, F)
    BY <2>3 DEF FineRead, ErrorsFine, CopiesFine
  <2>7. GivenUpFine(want, A, new, H, B, F)
    BY <1>3 DEF GivenUpFine
  <2>8. ChunksFine(want, A, req, new, F)
    BY <2>3 DEF FineRead, ChunksFine
  <2> QED
    BY <2>1, <2>5, <2>6, <2>7, <2>8 DEF FineRead
<1>2. CASE res.errors # {} /\ ~CheckForErrors
  <2> DEFINE new == [res EXCEPT !.errors = {}]
  <2>1. Judged(res) = new
    BY <1>2 DEF Judged
  <2>2. FineTypes(want, A, req, res) /\ res \in Result
    BY DEF FineRead, FineTypes
  <2>3. /\ new \in Result /\ new.full = res.full /\ new.part = res.part
        /\ new.errors = {} /\ new.r = res.r /\ new.returned = res.returned
    BY <2>2 DEF Result
  <2> HIDE DEF new
  <2>4. Buffers(new) = Buffers(res) /\ Have(new) = Have(res)
    BY <2>3 DEF Buffers, Have
  <2>5. FineTypes(want, A, req, new)
    BY <2>2, <2>3, <2>4 DEF FineTypes
  <2>6. ~Lone(want, F)
    BY <1>2 DEF FineRead, ErrorsFine
  <2>7. HeardOf(want, A, req, I, new, F)
    BY <2>4, <2>6 DEF HeardOf
  <2>8. CanDecode(want, ShardOf(A))
    <3>1. Have(res) \subseteq ShardOf(A)
      BY <2>2, HaveShards, ShardsMonotone DEF FineTypes
    <3>2. ShardOf(A) \in SUBSET (0 .. K + M - 1)
      BY <2>2, ShardNumbers DEF FineTypes
    <3> QED
      BY <3>1, <3>2, MoreDecodes
  <2>9. ErrorsFine(want, A, new, B, F)
    BY <2>3, <2>8 DEF ErrorsFine
  <2>10. GivenUpFine(want, A, new, H, B, F)
    BY <2>3 DEF GivenUpFine
  <2>11. ChunksFine(want, A, req, new, F) /\ CopiesFine(new, H, F)
    BY <2>3 DEF FineRead, ChunksFine, CopiesFine
  <2> QED
    BY <2>1, <2>5, <2>7, <2>9, <2>10, <2>11 DEF FineRead
<1> QED
  BY <1>1, <1>2, <1>3

(* Too little came, and nobody is left to ask: the object is given up.     *)
LEMMA FineGivesUp ==
  ASSUME NEW want, NEW A, NEW req, NEW res, NEW H \in SUBSET PgShard, NEW B, NEW F,
         FineRead(want, A, req, {}, res, H, B, F),
         ~CanDecode(want, Have(res)), ~CanDecode(want, ShardOf(H \ res.errors))
  PROVE  FineRead(want, A, req, {}, GivenUpResult(res), H, B, F)
<1> DEFINE new == GivenUpResult(res)
<1>1. FineTypes(want, A, req, res) /\ res \in Result
  BY DEF FineRead, FineTypes
<1>2. /\ new \in Result /\ new.full = res.full /\ new.part = res.part
      /\ new.errors = res.errors /\ new.returned = res.returned
  BY <1>1 DEF Result, GivenUpResult
<1> HIDE DEF new
<1>3. Buffers(new) = Buffers(res) /\ Have(new) = Have(res)
  BY <1>2 DEF Buffers, Have
<1>4. FineTypes(want, A, req, new)
  BY <1>1, <1>2, <1>3 DEF FineTypes
<1>5. A \subseteq Buffers(res) \cup res.errors
  BY DEF FineRead, HeardOf
<1>6. HeardOf(want, A, req, {}, new, F)
  BY <1>2, <1>3, <1>5 DEF HeardOf
<1>7. ErrorsFine(want, A, new, B, F)
  BY <1>2 DEF FineRead, ErrorsFine
<1>8. GivenUpFine(want, A, new, H, B, F)
  BY <1>2, <1>3, <1>5 DEF FineRead, ErrorsFine, GivenUpFine
<1>9. ChunksFine(want, A, req, new, F) /\ CopiesFine(new, H, F)
  BY <1>2 DEF FineRead, ChunksFine, CopiesFine
<1> QED
  BY <1>4, <1>6, <1>7, <1>8, <1>9 DEF FineRead, new

(* Too little came, and there is more to ask for: there were errors, so    *)
(* that it is no repair of one chunk and whole chunks are asked for.       *)
LEMMA FineSends ==
  ASSUME NEW want, NEW A, NEW req, NEW res, NEW H \in SUBSET PgShard, NEW B, NEW F,
         FineRead(want, A, req, {}, res, H, B, F),
         ~CanDecode(want, Have(res)), CanDecode(want, ShardOf(H \ res.errors)),
         NEW A2 \in SUBSET PgShard, NEW req2 \in ReadRequest, NEW I2,
         A2 = A \cup req2.need, req2.need \subseteq I2, req2.sub = FALSE
  PROVE  FineRead(want, A2, req2, I2, res, H, B, F)
<1>1. FineTypes(want, A, req, res) /\ res \in Result
  BY DEF FineRead, FineTypes
<1>2. A \subseteq Buffers(res) \cup res.errors
  BY DEF FineRead, HeardOf
<1>3. res.errors # {}
  <2> SUFFICES ASSUME res.errors = {} PROVE FALSE
    OBVIOUS
  <2>1. CanDecode(want, ShardOf(A))
    BY DEF FineRead, ErrorsFine
  <2>2. ShardOf(A) \subseteq Have(res) /\ Have(res) \in SUBSET (0 .. K + M - 1)
    BY <1>1, <1>2, HaveShards, ShardsMonotone
  <2> QED
    BY <2>1, <2>2, MoreDecodes
<1>4. ~Lone(want, F) /\ res.errors \subseteq B
  BY <1>3 DEF FineRead, ErrorsFine
<1>5. res.r = "ok" \/ CheckForErrors \/ "transient" \in F
  BY DEF FineRead, GivenUpFine
<1>6. IF Single(want) THEN "repair" \in F ELSE res.part = {}
  <2>1. Single(want) => "repair" \in F
    BY <1>4 DEF Lone
  <2>2. ChunksFine(want, A, req, res, F)
    BY DEF FineRead
  <2>3. ~Single(want) => res.part = {}
    BY <2>2 DEF ChunksFine
  <2> QED
    BY <2>1, <2>3
<1>7. FineTypes(want, A2, req2, res)
  BY <1>1 DEF FineTypes
<1>8. HeardOf(want, A2, req2, I2, res, F)
  BY <1>2 DEF HeardOf
<1>9. ErrorsFine(want, A2, res, B, F)
  BY <1>3, <1>4 DEF ErrorsFine
<1>10. GivenUpFine(want, A2, res, H, B, F) /\ ChunksFine(want, A2, req2, res, F)
  BY <1>5, <1>6 DEF GivenUpFine, ChunksFine
<1>11. CopiesFine(res, H, F)
  BY DEF FineRead
<1> QED
  BY <1>7, <1>8, <1>9, <1>10, <1>11 DEF FineRead

(* Too little came, there is more to ask for and yet nobody who was not    *)
(* asked: another copy of a shard that gave an error.                      *)
LEMMA FineCopy ==
  ASSUME NEW want, NEW A, NEW req, NEW res, NEW H \in SUBSET PgShard, NEW B, NEW F,
         FineRead(want, A, req, {}, res, H, B, F), ~CanDecode(want, Have(res)),
         NEW min, CanDecode(want, min), min \subseteq ShardOf(H \ res.errors),
         min \subseteq ShardOf(A)
  PROVE  "copy" \in F
<1>1. /\ A \subseteq Buffers(res) \cup res.errors /\ res \in Result
      /\ \A q \in res.errors, p \in H : p # q /\ p[2] = q[2] => "copy" \in F
  BY DEF FineRead, FineTypes, HeardOf, CopiesFine
<1>2. Have(res) = ShardOf(Buffers(res)) /\ Have(res) \in SUBSET (0 .. K + M - 1)
  BY <1>1, HaveShards
<1>3. ~(min \subseteq Have(res))
  BY <1>2, MoreDecodes
<1>4. PICK s \in min : s \notin Have(res)
  BY <1>3
<1>5. PICK p \in H \ res.errors : s = p[2]
  BY <1>4 DEF ShardOf
<1>6. PICK q \in A : s = q[2]
  BY <1>4 DEF ShardOf
<1>7. q \in res.errors
  BY <1>1, <1>2, <1>4, <1>6 DEF ShardOf
<1> QED
  BY <1>1, <1>5, <1>6, <1>7

(* What a read that is complete returns can be decoded, from sub-chunks if *)
(* it is a repair and from whole chunks otherwise, unless an error came in *)
(* a repair.                                                               *)
LEMMA FineDecodes ==
  ASSUME NEW want, NEW A, NEW req, NEW res, NEW H, NEW B, NEW F,
         FineRead(want, A, req, {}, res, H, B, F), Good(res), "repair" \notin F
  PROVE  Decodable(want, res)
<1> DEFINE have == Have(res)
<1>0. Lone(want, F) <=> Single(want)
  BY DEF Lone
<1>1. /\ FineTypes(want, A, req, res) /\ res \in Result /\ res.errors = {}
      /\ want \in SUBSET (0 .. K + M - 1) /\ want # {} /\ A \in SUBSET PgShard
  BY DEF FineRead, FineTypes, Good
<1>2. /\ have = ShardOf(Buffers(res)) /\ have \in SUBSET (0 .. K + M - 1)
      /\ have \subseteq ShardOf(A) /\ ShardOf(A) \in SUBSET (0 .. K + M - 1)
  BY <1>1, HaveShards, ShardsMonotone, ShardNumbers DEF FineTypes
<1>3. A \subseteq Buffers(res) => have = ShardOf(A)
  <2>1. A \subseteq Buffers(res) => ShardOf(A) \subseteq ShardOf(Buffers(res))
    BY ShardsMonotone
  <2> HIDE DEF have
  <2> QED
    BY <1>2, <2>1
<1> HIDE DEF have
<1>4. /\ CanDecode(want, have)
      /\ Single(want) => have = ShardOf(A)
  <2>1. CASE CanDecode(want, Have(res)) /\ ~Lone(want, F)
    BY <1>0, <2>1 DEF have
  <2>2. CASE A \subseteq ({} \cap req.need) \cup Buffers(res) \cup res.errors
    BY <1>1, <1>3, <2>2 DEF FineRead, ErrorsFine
  <2> QED
    BY <2>1, <2>2 DEF FineRead, HeardOf
<1>5. minimum_to_decode(want, have) # {}
  BY <1>1, <1>2, <1>4, MinimumFor
<1>6. CASE req.sub
  <2>1. /\ res.full = {} /\ Single(want) /\ want \cap ShardOf(A) = {}
        /\ Cardinality(ShardOf(A)) >= K + M - 1
    BY <1>6 DEF FineRead, ChunksFine
  <2>2. repairs(want, have)
    BY <1>4, <2>1 DEF repairs, Single
  <2> QED
    BY <1>5, <2>1, <2>2 DEF Decodable, have
<1>7. CASE ~req.sub
  <2>1. /\ res.part = {}
        /\ Single(want) => \/ ShardOf(A) \subseteq want
                           \/ Cardinality(ShardOf(A)) < K + M - 1
    BY <1>7 DEF FineRead, ChunksFine
  <2>2. ~repairs(want, have)
    <3> SUFFICES ASSUME repairs(want, have) PROVE FALSE
      OBVIOUS
    <3>1. Single(want) /\ want \cap have = {} /\ Cardinality(have) >= K + M - 1
      BY DEF repairs, Single
    <3>2. have = ShardOf(A) /\ Cardinality(have) \in Nat
      BY <1>2, <1>4, <3>1, ShardsFinite
    <3>3. have = {} => Cardinality(have) = 0
      BY FS_EmptySet
    <3>4. K \in Nat /\ K > 0 /\ M \in Nat /\ M > 0
      OBVIOUS
    <3>5. have # {}
      BY <3>1, <3>3, <3>4
    <3>6. ~(ShardOf(A) \subseteq want)
      BY <3>1, <3>2, <3>5
    <3>7. ~(Cardinality(ShardOf(A)) < K + M - 1)
      BY <3>1, <3>2, <3>4
    <3> QED
      BY <2>1, <3>1, <3>6, <3>7
  <2> QED
    BY <1>5, <2>1, <2>2 DEF Decodable, have
<1> QED
  BY <1>6, <1>7

(* How the read of an object starts: from shards that are enough, from all *)
(* there are if it is a repair.                                            *)
LEMMA FineRequest ==
  ASSUME NEW want \in SUBSET (0 .. K + M - 1), want # {}, NEW H \in SUBSET PgShard,
         NEW attrs \in BOOLEAN, NEW req,
         req = get_min_avail_to_read_shards(H, want, TRUE, FALSE, attrs),
         req.need # {}, NEW I, req.need \subseteq I, NEW B, NEW F
  PROVE  /\ req \in ReadRequest
         /\ FineRead(want, req.need, req, I, NewResult, H, B, F)
<1> DEFINE shards == get_all_avail_shards(H, {}, TRUE)
<1> DEFINE have == ShardOf(shards)
<1> DEFINE min == minimum_to_decode(want, have)
<1>1. shards \subseteq H /\ have \in SUBSET (0 .. K + M - 1)
  <2>1. shards \subseteq H
    BY AvailableCopies
  <2> HIDE DEF shards
  <2> QED
    BY <2>1, ShardNumbers
<1> DEFINE need == {p \in shards : min # {} /\ (FALSE \/ p[2] \in min)}
<1> DEFINE sub == ~FALSE /\ repairs(want, have)
<1>0. req = [need |-> need, sub |-> sub, want_attrs |-> attrs]
  BY DEF get_min_avail_to_read_shards
<1> HIDE DEF need, sub
<1>2. /\ req.need = {p \in shards : min # {} /\ p[2] \in min}
      /\ req.sub <=> repairs(want, have)
      /\ req.sub \in BOOLEAN /\ req.want_attrs = attrs
      /\ req = [need |-> req.need, sub |-> req.sub, want_attrs |-> req.want_attrs]
  <2>2. need = {p \in shards : min # {} /\ p[2] \in min}
    BY DEF need
  <2>3. sub \in BOOLEAN /\ (sub <=> repairs(want, have))
    BY DEF sub
  <2>1. req.need = need /\ req.sub = sub /\ req.want_attrs = attrs
    BY ONLY <1>0, <2>3, attrs \in BOOLEAN
  <2> HIDE DEF min, have, shards
  <2> QED
    BY <1>0, <2>1, <2>2, <2>3
<1> HIDE DEF min
<1>3. min # {} /\ req.need = {p \in shards : p[2] \in min}
  BY <1>2
<1>4. /\ min \subseteq have /\ CanDecode(want, min)
      /\ repairs(want, have) => min = have
      /\ ~repairs(want, have) /\ want \subseteq have => min = want
  BY <1>1, <1>3, MinimumFor DEF min
<1>5. ShardOf(req.need) = min
  <2>1. ASSUME NEW s \in ShardOf(req.need) PROVE s \in min
    <3>1. PICK p \in req.need : s = p[2]
      BY DEF ShardOf
    <3> QED
      BY <1>3, <3>1
  <2>2. ASSUME NEW s \in min PROVE s \in ShardOf(req.need)
    <3>1. PICK p \in shards : s = p[2]
      BY <1>4 DEF ShardOf
    <3>2. p \in req.need
      BY <1>3, <3>1
    <3> QED
      BY <3>1, <3>2 DEF ShardOf
  <2> QED
    BY <2>1, <2>2
<1> HIDE DEF shards, have
<1>6. req.sub \in BOOLEAN /\ req.need \in SUBSET PgShard
  BY <1>1, <1>2, <1>3 DEF repairs
<1>7. req \in ReadRequest
  BY <1>2, <1>6 DEF ReadRequest
<1>8. /\ NewResult \in Result /\ NewResult.returned /\ NewResult.full = {}
      /\ NewResult.part = {} /\ NewResult.errors = {} /\ NewResult.r = "ok"
      /\ Buffers(NewResult) = {}
  BY DEF NewResult, Result, Buffers
<1>9. FineTypes(want, req.need, req, NewResult)
  BY <1>6, <1>7, <1>8 DEF FineTypes
<1>10. HeardOf(want, req.need, req, I, NewResult, F)
  BY DEF HeardOf
<1>11. /\ ErrorsFine(want, req.need, NewResult, B, F) /\ CopiesFine(NewResult, H, F)
       /\ GivenUpFine(want, req.need, NewResult, H, B, F)
  BY <1>4, <1>5, <1>8 DEF ErrorsFine, GivenUpFine, CopiesFine
<1>12. ChunksFine(want, req.need, req, NewResult, F)
  <2>1. CASE repairs(want, have)
    <3>1. Single(want) /\ want \cap have = {} /\ Cardinality(have) >= K + M - 1
      BY <2>1 DEF repairs, Single
    <3> QED
      BY <1>2, <1>4, <1>5, <1>8, <2>1, <3>1 DEF ChunksFine
  <2>2. CASE ~repairs(want, have)
    <3>1. ASSUME Single(want), ~(min \subseteq want) PROVE Cardinality(min) < K + M - 1
      <4>1. ~(want \subseteq have)
        BY <1>4, <2>2, <3>1
      <4>2. PICK w : want = {w}
        <5>1. IsFiniteSet(want)
          BY ShardsFinite
        <5> QED
          BY <3>1, <5>1, FS_Singleton DEF Single
      <4>3. want \cap have = {}
        BY <4>1, <4>2
      <4>4. ~(Cardinality(have) >= K + M - 1)
        BY <2>2, <3>1, <4>3 DEF repairs, Single
      <4>5. IsFiniteSet(have)
        BY <1>1, ShardsFinite
      <4>6. /\ Cardinality(min) \in Nat /\ Cardinality(have) \in Nat
            /\ Cardinality(min) <= Cardinality(have)
        BY <1>4, <4>5, CountMonotone
      <4> QED
        BY <4>4, <4>6
    <3> QED
      BY <1>2, <1>5, <1>8, <2>2, <3>1 DEF ChunksFine
  <2> QED
    BY <2>1, <2>2
<1> QED
  BY <1>7, <1>9, <1>10, <1>11, <1>12 DEF FineRead
-----------------------------------------------------------------------------
(* A read all of whose objects stand so, h being the holders and u the     *)
(* copies that cannot be read.                                             *)
Bad(u, o) == {p \in PgShard : <<p, o>> \in u}
FineObj(rop, o, h, u, F) ==
  FineRead(rop.want_to_read[o], Asked(rop, o), rop.to_read[o], rop.in_progress,
           rop.complete[o], h[o], Bad(u, o), F)
FineRop(rop, h, u, F) ==
  /\ Shape(rop) /\ rop.for_recovery = TRUE /\ rop.do_redundant_reads = FALSE
  /\ Linked(rop)
  /\ \A o \in Objs(rop) : FineObj(rop, o, h, u, F)

(* There is enough when the object can be decoded, and more can be asked   *)
(* for when it could be from the holders that gave no error.               *)
LEMMA FineEnough ==
  ASSUME NEW rop, NEW h \in [Object -> SUBSET PgShard], NEW u, NEW F, FineRop(rop, h, u, F),
         NEW o \in Objs(rop)
  PROVE  LET want == rop.want_to_read[o]
             res == rop.complete[o]
         IN  /\ Enough(rop, o) <=> CanDecode(want, Have(res))
             /\ RemainingMinimum(rop, o, h[o]) # {}
                  <=> CanDecode(want, ShardOf(h[o] \ res.errors))
<1> DEFINE want == rop.want_to_read[o]
<1> DEFINE res == rop.complete[o]
<1>1. /\ want \in SUBSET (0 .. K + M - 1) /\ want # {} /\ res \in Result
      /\ rop.for_recovery = TRUE
  BY DEF FineRop, FineObj, FineRead, FineTypes
<1>2. o \in Object /\ h[o] \in SUBSET PgShard
  BY DEF FineRop, Shape, Typed
<1>3. Have(res) \in SUBSET (0 .. K + M - 1)
  BY <1>1, HaveShards
<1>4. ShardOf(h[o] \ res.errors) \in SUBSET (0 .. K + M - 1)
  BY <1>2, ShardNumbers
<1> HIDE DEF want, res
<1>5. ShardOf(get_all_avail_shards(h[o], res.errors, TRUE)) = ShardOf(h[o] \ res.errors)
  <2>1. \A H \in SUBSET PgShard : \A E :
          ShardOf(get_all_avail_shards(H, E, TRUE)) = ShardOf(H \ E)
    BY AvailableCopies
  <2> QED
    BY ONLY <1>2, <2>1
<1>6. minimum_to_decode(want, Have(res)) # {} <=> CanDecode(want, Have(res))
  BY <1>1, <1>3, MinimumFor
<1>7. minimum_to_decode(want, ShardOf(h[o] \ res.errors)) # {}
        <=> CanDecode(want, ShardOf(h[o] \ res.errors))
  <2>1. \A w, S \in SUBSET (0 .. K + M - 1) :
          w # {} => (minimum_to_decode(w, S) # {} <=> CanDecode(w, S))
    BY MinimumFor
  <2> QED
    BY ONLY <1>1, <1>4, <2>1
<1> QED
  BY <1>1, <1>5, <1>6, <1>7 DEF Enough, RemainingMinimum, want, res

(* Another result of an object.                                            *)
LEMMA FineResult ==
  ASSUME NEW rop, NEW h, NEW u, NEW F, FineRop(rop, h, u, F), NEW o \in Objs(rop), NEW res,
         FineRead(rop.want_to_read[o], Asked(rop, o), rop.to_read[o], rop.in_progress,
                  res, h[o], Bad(u, o), F)
  PROVE  FineRop(WithResult(rop, o, res), h, u, F)
<1> DEFINE new == WithResult(rop, o, res)
<1> DEFINE c == [rop.complete EXCEPT ![o] = res]
<1>1. Typed(rop) /\ Shape(rop) /\ res \in Result
  BY DEF FineRop, Shape, FineRead, FineTypes
<1>2. c \in [Objs(rop) -> Result]
  BY <1>1, TypedFields
<1>3. new = [rop EXCEPT !.complete = c]
  BY DEF WithResult
<1>4. /\ new.complete[o] = res
      /\ \A x \in Objs(rop) \ {o} : new.complete[x] = rop.complete[x]
      /\ new.want_to_read = rop.want_to_read
      /\ new.in_progress = rop.in_progress
      /\ new.to_read = rop.to_read
      /\ \A x : Asked(new, x) = Asked(rop, x)
      /\ new.source_to_obj = rop.source_to_obj
  BY ONLY <1>1, WithResultFields, o \in Objs(rop)
<1> HIDE DEF c, new
<1>5. /\ Typed(new) /\ Objs(new) = Objs(rop)
      /\ new.do_redundant_reads = rop.do_redundant_reads
      /\ new.for_recovery = rop.for_recovery
  BY <1>1, <1>2, <1>3, CompleteTyped
<1>6. Shape(new) /\ Linked(new)
  BY <1>1, <1>4, <1>5 DEF FineRop, Shape, Linked
<1>7. ASSUME NEW x \in Objs(rop) PROVE FineObj(new, x, h, u, F)
  <2>1. FineObj(rop, x, h, u, F)
    BY DEF FineRop
  <2>2. CASE x = o
    BY <1>4, <2>2 DEF FineObj
  <2>3. CASE x # o
    BY <1>4, <2>1, <2>3 DEF FineObj
  <2> QED
    BY <2>2, <2>3
<1> QED
  BY <1>5, <1>6, <1>7 DEF FineRop, new

(* More is asked for one object, and what was asked for the others again.  *)
LEMMA FineSent ==
  ASSUME NEW rop, NEW h \in [Object -> SUBSET PgShard], NEW u, NEW F, FineRop(rop, h, u, F),
         NEW o \in Objs(rop), rop.in_progress = {}, ~Enough(rop, o),
         RemainingMinimum(rop, o, h[o]) # {}
  PROVE  FineRop(send_all_remaining_reads(rop, o, h[o]), h, u, F)
<1> DEFINE S == send_all_remaining_reads(rop, o, h[o])
<1> DEFINE R == get_remaining_shards(rop, o, h[o])
<1>1. Shape(rop) /\ o \in Object /\ h[o] \in SUBSET PgShard
  BY DEF FineRop, Shape, Typed
<1>2. /\ Shape(S) /\ Objs(S) = Objs(rop)
      /\ S.want_to_read = rop.want_to_read /\ S.complete = rop.complete
      /\ S.do_redundant_reads = rop.do_redundant_reads
      /\ S.for_recovery = rop.for_recovery
      /\ R \in SUBSET h[o] /\ S.to_read[o].need = R /\ S.to_read[o].sub = FALSE
      /\ \A x \in Objs(rop) \ {o} : S.to_read[x] = rop.to_read[x]
      /\ S.in_progress = rop.in_progress \cup Needed(S)
      /\ \A x \in Objs(rop) :
           Asked(S, x) = Asked(rop, x) \cup S.to_read[x].need
      /\ Linked(rop) => Linked(S)
  BY ONLY <1>1, SendAllRemaining, o \in Objs(rop)
<1> HIDE DEF S, R
<1>3. FineObj(S, o, h, u, F)
  <2>1. FineObj(rop, o, h, u, F)
    BY DEF FineRop
  <2>2. /\ ~CanDecode(rop.want_to_read[o], Have(rop.complete[o]))
        /\ CanDecode(rop.want_to_read[o], ShardOf(h[o] \ rop.complete[o].errors))
    BY FineEnough
  <2>3. S.to_read[o] \in ReadRequest /\ Asked(S, o) \in SUBSET PgShard
    BY <1>2, TypedFields DEF Shape, Asked
  <2>4. S.to_read[o].need \subseteq S.in_progress
    BY <1>2 DEF Needed
  <2>5. Asked(S, o) = Asked(rop, o) \cup S.to_read[o].need
    BY <1>2
  <2>6. /\ S.want_to_read[o] = rop.want_to_read[o] /\ S.complete[o] = rop.complete[o]
        /\ S.to_read[o].sub = FALSE /\ h[o] \in SUBSET PgShard
    BY <1>1, <1>2
  <2>7. FineRead(rop.want_to_read[o], Asked(rop, o), rop.to_read[o], {}, rop.complete[o],
                 h[o], Bad(u, o), F)
    BY <2>1 DEF FineObj
  <2>8. FineRead(rop.want_to_read[o], Asked(S, o), S.to_read[o], S.in_progress,
                 rop.complete[o], h[o], Bad(u, o), F)
    BY ONLY <2>2, <2>3, <2>4, <2>5, <2>6, <2>7, FineSends, ZenonT(60)
  <2> QED
    BY ONLY <2>6, <2>8 DEF FineObj
<1>4. ASSUME NEW x \in Objs(rop), x # o PROVE FineObj(S, x, h, u, F)
  <2>1. FineObj(rop, x, h, u, F)
    BY DEF FineRop
  <2>2. S.to_read[x] = rop.to_read[x] /\ rop.to_read[x].need \subseteq Asked(rop, x)
    BY <1>1, <1>2, <1>4 DEF Shape
  <2>3. Asked(S, x) = Asked(rop, x)
    <3>1. Asked(S, x) = Asked(rop, x) \cup S.to_read[x].need
      BY <1>2
    <3> QED
      BY ONLY <2>2, <3>1
  <2>4. x \in Object /\ h[x] \in SUBSET PgShard
    BY <1>1 DEF Shape, Typed
  <2>5. rop.in_progress \cap rop.to_read[x].need \subseteq S.in_progress
    OBVIOUS
  <2> QED
    BY <1>2, <2>1, <2>2, <2>3, <2>4, <2>5, FineStays DEF FineObj
<1> QED
  BY <1>2, <1>3, <1>4 DEF FineRop, S

(* do_read_op finds nobody to ask for attributes that are wanted.          *)
LEMMA FineNobody ==
  ASSUME NEW rop, NEW h \in [Object -> SUBSET PgShard], NEW u, NEW F,
         FineRop(rop, h, u, F), NEW o \in Objs(rop), rop.in_progress = {},
         ~Enough(rop, o), RemainingMinimum(rop, o, h[o]) # {},
         NobodyToAsk(rop, o, h[o])
  PROVE  "copy" \in F
<1> DEFINE want == rop.want_to_read[o]
<1> DEFINE res == rop.complete[o]
<1> DEFINE hold == h[o]
<1> DEFINE min == RemainingMinimum(rop, o, hold)
<1> DEFINE avail == get_all_avail_shards(hold, res.errors, rop.for_recovery)
<1>1. /\ FineRead(want, Asked(rop, o), rop.to_read[o], {}, res, hold, Bad(u, o), F)
      /\ want \in SUBSET (0 .. K + M - 1) /\ want # {} /\ rop.for_recovery = TRUE
      /\ ~CanDecode(want, Have(res))
  <2>1. FineObj(rop, o, h, u, F) /\ rop.for_recovery = TRUE
    BY DEF FineRop
  <2>2. Enough(rop, o) <=> CanDecode(want, Have(res))
    BY FineEnough
  <2>3. FineRead(want, Asked(rop, o), rop.to_read[o], {}, res, hold, Bad(u, o), F)
    BY <2>1 DEF FineObj
  <2> HIDE DEF want, res, hold
  <2> QED
    BY <2>1, <2>2, <2>3 DEF FineRead, FineTypes
<1>2. o \in Object /\ hold \in SUBSET PgShard
  BY DEF FineRop, Shape, Typed
<1>3. avail \subseteq hold \ res.errors /\ ShardOf(avail) = ShardOf(hold \ res.errors)
  <2>1. avail = get_all_avail_shards(hold, res.errors, TRUE)
    BY <1>1
  <2>2. ASSUME NEW X \in SUBSET PgShard, NEW E
        PROVE  ShardOf(get_all_avail_shards(X, E, TRUE)) = ShardOf(X \ E)
    BY AvailableCopies
  <2>3. get_all_avail_shards(hold, res.errors, TRUE) \subseteq hold \ res.errors
    BY DEF get_all_avail_shards
  <2> HIDE DEF min, hold, res, avail, want
  <2>4. ShardOf(get_all_avail_shards(hold, res.errors, TRUE)) = ShardOf(hold \ res.errors)
    BY ONLY <1>2, <2>2
  <2> QED
    BY ONLY <2>1, <2>3, <2>4
<1>4. min = minimum_to_decode(want, ShardOf(avail))
  BY DEF RemainingMinimum
<1>5. min # {} /\ {p \in avail : p[2] \in min \ already_read(rop, o)} = {}
  BY DEF NobodyToAsk, get_remaining_shards
<1>6. ShardOf(avail) \in SUBSET (0 .. K + M - 1)
  BY <1>2, <1>3, ShardNumbers
<1> HIDE DEF min, avail, hold, res, want
<1>7. min \subseteq ShardOf(avail) /\ CanDecode(want, min)
  <2>1. \A w, S \in SUBSET (0 .. K + M - 1) :
          w # {} => /\ minimum_to_decode(w, S) \subseteq S
                    /\ minimum_to_decode(w, S) # {} => CanDecode(w, minimum_to_decode(w, S))
    BY MinimumFor
  <2> QED
    BY ONLY <1>1, <1>4, <1>5, <1>6, <2>1
<1>8. min \subseteq ShardOf(Asked(rop, o))
  <2> SUFFICES ASSUME NEW s \in min PROVE s \in ShardOf(Asked(rop, o))
    OBVIOUS
  <2>1. PICK p \in avail : p[2] = s
    BY <1>7 DEF ShardOf
  <2>2. s \in already_read(rop, o)
    BY <1>5, <2>1
  <2> QED
    BY <2>2 DEF already_read, Asked, ShardOf
<1>9. min \subseteq ShardOf(hold \ res.errors)
  BY <1>3, <1>7
<1> QED
  BY <1>1, <1>2, <1>7, <1>8, <1>9, FineCopy

(* The assertions of the loop that the errors of a read explain.           *)
LoopExplained(x, F) ==
  /\ x \in {"", "complete.r == 0", "!need_attrs"}
  /\ x = "complete.r == 0" => CheckForErrors \/ "transient" \in F
  /\ x = "!need_attrs" => "copy" \in F

(* What the loop of handle_sub_read_reply has come to with object n: no    *)
(* assertion failed, unless one that is explained, and the read is done    *)
(* only if nothing was asked again.                                        *)
FineLoop(rop, n, e, h, u, F) ==
  /\ Kept(rop, n, e, h) /\ LoopExplained(e.assert, F) /\ FineRop(e.rop, h, u, F)
  /\ e.done <= Cardinality(Seen(rop, n))
  /\ e.rop.in_progress # {} => e.done < Cardinality(Seen(rop, n))

(* Each turn keeps it.                                                     *)
LEMMA FineTurn ==
  ASSUME NEW rop, NEW h \in [Object -> SUBSET PgShard], NEW u, NEW F,
         NEW n \in Nat, NEW e, Shape(rop), FineLoop(rop, n, e, h, u, F)
  PROVE  FineLoop(rop, n + 1, Evaluate(e, n + 1, h), h, u, F)
<1> SUFFICES ASSUME NEW o, o = n + 1, NEW new, new = Evaluate(e, o, h)
             PROVE  FineLoop(rop, o, new, h, u, F)
  OBVIOUS
<1>0. e = [rop |-> e.rop, done |-> e.done, assert |-> e.assert]
  BY DEF FineLoop, Kept
<1>1. /\ Kept(rop, n, e, h) /\ FineRop(e.rop, h, u, F) /\ e.done \in Nat
      /\ LoopExplained(e.assert, F)
      /\ Objs(e.rop) = Objs(rop) /\ DOMAIN e.rop.complete = Objs(rop)
  BY DEF FineLoop, Kept, KeptRop, Shape, Typed
<1>2. Kept(rop, o, new, h)
  BY <1>1, EvaluateKeeps
<1>3. /\ Cardinality(Seen(rop, n)) \in Nat /\ Cardinality(Seen(rop, o)) \in Nat
      /\ Cardinality(Seen(rop, n)) <= Cardinality(Seen(rop, o))
      /\ o \in Objs(rop) => Cardinality(Seen(rop, o)) = Cardinality(Seen(rop, n)) + 1
  <2>1. Cardinality(Seen(rop, n)) \in Nat /\ Cardinality(Seen(rop, o)) \in Nat
    BY SeenCount
  <2>2. o \notin Objs(rop) => Seen(rop, o) = Seen(rop, n)
    <3>1. Seen(rop, o) = Seen(rop, n) \cup ({o} \cap Objs(rop))
      BY SeenCount
    <3> QED
      BY ONLY <3>1
  <2>3. o \in Objs(rop) => Cardinality(Seen(rop, o)) = Cardinality(Seen(rop, n)) + 1
    BY SeenCount
  <2> QED
    BY <2>1, <2>2, <2>3
<1>4. /\ e.done <= Cardinality(Seen(rop, n))
      /\ e.rop.in_progress # {} => e.done < Cardinality(Seen(rop, n))
  BY DEF FineLoop
<1> DEFINE was == e.rop.complete[o]
<1>5. o \in Objs(rop) =>
        /\ FineObj(e.rop, o, h, u, F)
        /\ Enough(e.rop, o) <=> CanDecode(e.rop.want_to_read[o], Have(was))
        /\ RemainingMinimum(e.rop, o, h[o]) # {}
             <=> CanDecode(e.rop.want_to_read[o], ShardOf(h[o] \ was.errors))
        /\ o \in Object /\ h[o] \in SUBSET PgShard
  BY <1>1, FineEnough DEF FineRop, Shape, Typed
<1>6. CASE new = e
  <2>1. /\ e.done <= Cardinality(Seen(rop, o))
        /\ e.rop.in_progress # {} => e.done < Cardinality(Seen(rop, o))
    <3>1. ASSUME NEW d \in Nat, NEW c \in Nat, NEW c2 \in Nat, c <= c2
          PROVE  (d <= c => d <= c2) /\ (d < c => d < c2)
      BY <3>1
    <3> QED
      BY ONLY <1>1, <1>3, <1>4, <3>1
  <2> QED
    BY <1>1, <1>2, <1>6, <2>1 DEF FineLoop
<1>7. ASSUME NEW x \in LoopAsserts, TurnAsserts(e, o, h[o], x),
             new = [e EXCEPT !.assert = x]
      PROVE  FineLoop(rop, o, new, h, u, F)
  <2>1. o \in Objs(rop) /\ FineObj(e.rop, o, h, u, F)
    BY <1>1, <1>5, <1>7 DEF TurnAsserts
  <2>2. /\ was.returned
        /\ was.r # "ok" => ~Enough(e.rop, o) \/ CheckForErrors \/ "transient" \in F
    BY <1>5, <2>1 DEF FineObj, FineRead, FineTypes, GivenUpFine
  <2>3. ASSUME x = "!need_attrs" PROVE "copy" \in F
    <3>1. TurnSends(e, o, h[o]) /\ NobodyToAsk(e.rop, o, h[o])
      BY <1>7, <2>3 DEF TurnAsserts
    <3> QED
      BY <1>1, <2>1, <3>1, FineNobody DEF TurnSends
  <2>4. x = "complete.r == 0" => CheckForErrors \/ "transient" \in F
    BY <1>7, <2>2 DEF TurnAsserts
  <2>5. x # "returned.front()"
    BY <1>7, <2>2 DEF TurnAsserts
  <2>6. LoopExplained(x, F)
    BY <2>3, <2>4, <2>5 DEF LoopExplained, LoopAsserts
  <2>7. new.rop = e.rop /\ new.done = e.done /\ new.assert = x
    BY <1>0, <1>7
  <2>8. /\ e.done <= Cardinality(Seen(rop, o))
        /\ e.rop.in_progress # {} => e.done < Cardinality(Seen(rop, o))
    <3>1. ASSUME NEW d \in Nat, NEW c \in Nat, NEW c2 \in Nat, c <= c2
          PROVE  (d <= c => d <= c2) /\ (d < c => d < c2)
      BY <3>1
    <3> QED
      BY ONLY <1>1, <1>3, <1>4, <3>1
  <2> QED
    BY <1>1, <1>2, <2>6, <2>7, <2>8 DEF FineLoop
<1>8. ASSUME NEW res, o \in Objs(rop),
             new = [e EXCEPT !.rop = WithResult(e.rop, o, res), !.done = @ + 1],
             FineRead(e.rop.want_to_read[o], Asked(e.rop, o), e.rop.to_read[o],
                      e.rop.in_progress, res, h[o], Bad(u, o), F)
      PROVE  FineLoop(rop, o, new, h, u, F)
  <2> DEFINE r == WithResult(e.rop, o, res)
  <2>1. FineRop(r, h, u, F)
    BY <1>1, <1>8, FineResult
  <2>2. res \in Result /\ Typed(e.rop) /\ o \in Objs(e.rop)
    BY <1>1, <1>8 DEF FineRead, FineTypes, FineRop, Shape
  <2>3. r.in_progress = e.rop.in_progress
    BY ONLY <2>2, WithResultFields
  <2> HIDE DEF r
  <2>4. new = [e EXCEPT !.rop = r, !.done = @ + 1]
    BY <1>8 DEF r
  <2>5. new.rop = r /\ new.done = e.done + 1 /\ new.assert = e.assert
    BY <1>0, <1>1, <2>4
  <2>6. /\ e.done + 1 <= Cardinality(Seen(rop, o))
        /\ e.rop.in_progress # {} => e.done + 1 < Cardinality(Seen(rop, o))
    <3>1. ASSUME NEW d \in Nat, NEW c \in Nat, NEW c2 \in Nat, c2 = c + 1
          PROVE  (d <= c => d + 1 <= c2) /\ (d < c => d + 1 < c2)
      BY <3>1
    <3>2. Cardinality(Seen(rop, o)) = Cardinality(Seen(rop, n)) + 1
      BY <1>3, <1>8
    <3> QED
      BY ONLY <1>1, <1>3, <1>4, <3>1, <3>2
  <2> QED
    BY <1>1, <1>2, <2>1, <2>3, <2>5, <2>6 DEF FineLoop
<1>9. CASE /\ TurnJudges(e, o) /\ was.r = "ok"
           /\ new = [e EXCEPT !.rop = WithResult(e.rop, o, Judged(was)), !.done = @ + 1]
  <2>1. o \in Objs(rop) /\ CanDecode(e.rop.want_to_read[o], Have(was))
    BY <1>1, <1>5, <1>9 DEF TurnJudges
  <2>2. FineRead(e.rop.want_to_read[o], Asked(e.rop, o), e.rop.to_read[o],
                 e.rop.in_progress, Judged(was), h[o], Bad(u, o), F)
    BY <1>5, <1>9, <2>1, FineJudged DEF FineObj
  <2> HIDE DEF was
  <2> QED
    BY <1>8, <1>9, <2>1, <2>2
<1>10. CASE /\ TurnGivesUp(e, o, h[o])
            /\ new = [e EXCEPT !.rop = WithResult(e.rop, o, GivenUpResult(was)),
                               !.done = @ + 1]
  <2>1. /\ o \in Objs(rop) /\ ~CanDecode(e.rop.want_to_read[o], Have(was))
        /\ ~CanDecode(e.rop.want_to_read[o], ShardOf(h[o] \ was.errors))
        /\ e.rop.in_progress = {}
    BY <1>1, <1>5, <1>10 DEF TurnGivesUp, FineRop
  <2>2. FineRead(e.rop.want_to_read[o], Asked(e.rop, o), e.rop.to_read[o],
                 e.rop.in_progress, GivenUpResult(was), h[o], Bad(u, o), F)
    BY <1>5, <2>1, FineGivesUp DEF FineObj
  <2> HIDE DEF was
  <2> QED
    BY <1>8, <1>10, <2>1, <2>2
<1>11. CASE /\ TurnSends(e, o, h[o])
            /\ new = [e EXCEPT !.rop = send_all_remaining_reads(e.rop, o, h[o])]
  <2> DEFINE r == send_all_remaining_reads(e.rop, o, h[o])
  <2>1. o \in Objs(rop)
    BY <1>1, <1>11 DEF TurnSends
  <2>2. FineRop(r, h, u, F)
    BY <1>1, <1>11, <2>1, FineSent DEF TurnSends
  <2> HIDE DEF r
  <2>3. new = [e EXCEPT !.rop = r]
    BY <1>11 DEF r
  <2>4. new.rop = r /\ new.done = e.done /\ new.assert = e.assert
    BY <1>0, <1>1, <2>3
  <2>5. e.done < Cardinality(Seen(rop, o))
    <3>1. ASSUME NEW d \in Nat, NEW c \in Nat, NEW c2 \in Nat, c2 = c + 1
          PROVE  d <= c => d < c2
      BY <3>1
    <3>2. Cardinality(Seen(rop, o)) = Cardinality(Seen(rop, n)) + 1
      BY <1>3, <2>1
    <3> QED
      BY ONLY <1>1, <1>3, <1>4, <3>1, <3>2
  <2>6. e.done <= Cardinality(Seen(rop, o))
    <3>1. ASSUME NEW d \in Nat, NEW c \in Nat PROVE d < c => d <= c
      OBVIOUS
    <3> QED
      BY ONLY <1>1, <1>3, <2>5, <3>1
  <2> QED
    BY <1>1, <1>2, <2>2, <2>4, <2>5, <2>6 DEF FineLoop
<1> HIDE DEF was
<1>12. \/ new = e
       \/ \E x \in LoopAsserts : /\ TurnAsserts(e, o, h[o], x)
                                 /\ new = [e EXCEPT !.assert = x]
       \/ /\ TurnJudges(e, o) /\ was.r = "ok"
          /\ new = [e EXCEPT !.rop = WithResult(e.rop, o, Judged(was)), !.done = @ + 1]
       \/ /\ TurnSends(e, o, h[o])
          /\ new = [e EXCEPT !.rop = send_all_remaining_reads(e.rop, o, h[o])]
       \/ /\ TurnGivesUp(e, o, h[o])
          /\ new = [e EXCEPT !.rop = WithResult(e.rop, o, GivenUpResult(was)),
                             !.done = @ + 1]
  BY Zenon, EvaluateCases DEF was
<1> QED
  BY <1>6, <1>7, <1>9, <1>10, <1>11, <1>12

(* What handle_sub_read_reply leaves of a read: an assertion that fails is *)
(* explained, and when it is finished nothing is waited for, unless all    *)
(* its objects were cancelled.                                             *)
LEMMA FineEvaluated ==
  ASSUME NEW rop, NEW h \in [Object -> SUBSET PgShard], NEW u, NEW F,
         FineRop(rop, h, u, F)
  PROVE  LET e == Evaluated(rop, h)
         IN  /\ LoopExplained(e.assert, F)
             /\ FineRop(e.rop, h, u, F) /\ KeptRop(rop, NObjects, e.rop, h)
             /\ Finished(e) => e.rop.in_progress = {} \/ Objs(e.rop) = {}
             /\ rop.in_progress # {} => e.rop = rop
<1> SUFFICES ASSUME NEW e, e = Evaluated(rop, h)
             PROVE  /\ LoopExplained(e.assert, F) /\ FineRop(e.rop, h, u, F)
                    /\ KeptRop(rop, NObjects, e.rop, h)
                    /\ Finished(e) => e.rop.in_progress = {} \/ Objs(e.rop) = {}
                    /\ rop.in_progress # {} => e.rop = rop
  OBVIOUS
<1>1. Shape(rop) /\ DOMAIN rop.complete = Objs(rop) /\ Objs(rop) \subseteq Object
      /\ rop.do_redundant_reads = FALSE
  BY DEF FineRop, Shape, Typed
<1>2. IsFiniteSet(Objs(rop))
  <2>1. 1 \in Int /\ NObjects \in Int
    OBVIOUS
  <2>2. IsFiniteSet(1 .. NObjects)
    BY <2>1, FS_Interval
  <2> QED
    BY <1>1, <2>2, FS_Subset DEF Object
<1>3. KeptRop(rop, NObjects, rop, h) /\ LoopExplained("", F)
  BY <1>1 DEF KeptRop, SameAsks, SameBuffers, LoopExplained
<1>4. CASE rop.in_progress # {}
  <2>1. e = LoopStart(rop)
    BY <1>1, <1>4, Zenon DEF Evaluated, LoopStart
  <2>2. e.rop = rop /\ e.assert = "" /\ e.done = 0
    BY <2>1, StartFields
  <2>3. ASSUME Finished(e) PROVE Objs(rop) = {}
    <3>1. Cardinality(Objs(rop)) = 0
      BY <1>1, <1>4, <2>2, <2>3 DEF Finished
    <3> QED
      BY <1>2, <3>1, FS_EmptySet
  <2> QED
    BY <1>3, <2>2, <2>3
<1>5. CASE rop.in_progress = {}
  <2>1. PICK f : /\ f[0] = LoopStart(rop)
                 /\ \A n \in 1 .. NObjects : f[n] = Evaluate(f[n - 1], n, h)
                 /\ e = f[NObjects]
    BY <1>5, EvaluatedIsLoop
  <2> DEFINE T == {n \in Nat : n <= NObjects => FineLoop(rop, n, f[n], h, u, F)}
  <2>2. 0 \in T
    <3>1. FineLoop(rop, 0, LoopStart(rop), h, u, F)
      <4> SUFFICES ASSUME NEW s, s = LoopStart(rop) PROVE FineLoop(rop, 0, s, h, u, F)
        OBVIOUS
      <4>0. s = [rop |-> s.rop, done |-> s.done, assert |-> s.assert]
        <5>1. s = [rop |-> rop, done |-> 0, assert |-> ""]
          BY StartFields
        <5> QED
          BY ONLY <5>1
      <4>1. s.rop = rop /\ s.done = 0 /\ s.assert = ""
        <5>1. s = [rop |-> rop, done |-> 0, assert |-> ""]
          BY StartFields
        <5> QED
          BY ONLY <5>1
      <4>2. KeptRop(rop, 0, rop, h)
        BY <1>1 DEF KeptRop, SameAsks, SameBuffers
      <4>3. Kept(rop, 0, s, h)
        <5>1. KeptRop(rop, 0, s.rop, h) /\ s.done \in Nat
          <6>1. KeptRop(rop, 0, s.rop, h)
            BY ONLY <4>1, <4>2
          <6>2. s.done \in Nat
            <7>1. s.done = 0
              BY <4>1
            <7> QED
              BY ONLY <7>1
          <6> QED
            BY ONLY <6>1, <6>2
        <5> QED
          BY ONLY <4>0, <5>1 DEF Kept
      <4>4. Cardinality(Seen(rop, 0)) \in Nat
        BY <1>1, SeenCount
      <4>5. s.done <= Cardinality(Seen(rop, 0))
        <5>1. \A c \in Nat : 0 <= c
          OBVIOUS
        <5> QED
          BY ONLY <4>1, <4>4, <5>1
      <4>6. /\ FineRop(s.rop, h, u, F) /\ s.rop.in_progress = {}
            /\ LoopExplained(s.assert, F)
        BY <1>3, <1>5, <4>1
      <4> QED
        BY ONLY <4>3, <4>5, <4>6 DEF FineLoop
    <3> QED
      BY <2>1, <3>1
  <2>3. \A n \in Nat : n \in T => n + 1 \in T
    <3> SUFFICES ASSUME NEW n \in Nat, n \in T, n + 1 <= NObjects
                 PROVE  FineLoop(rop, n + 1, f[n + 1], h, u, F)
      OBVIOUS
    <3>1. n <= NObjects /\ n + 1 \in 1 .. NObjects /\ (n + 1) - 1 = n
      OBVIOUS
    <3>2. FineLoop(rop, n, f[n], h, u, F)
      BY <3>1
    <3>3. f[n + 1] = Evaluate(f[n], n + 1, h)
      BY <2>1, <3>1
    <3>4. FineLoop(rop, n + 1, Evaluate(f[n], n + 1, h), h, u, F)
      BY <1>1, <3>2, FineTurn
    <3> QED
      BY <3>3, <3>4
  <2> HIDE DEF T
  <2>4. NObjects \in T
    BY <2>2, <2>3, SetInduction
  <2>5. FineLoop(rop, NObjects, e, h, u, F)
    BY <2>1, <2>4 DEF T
  <2>6. /\ LoopExplained(e.assert, F) /\ FineRop(e.rop, h, u, F)
        /\ KeptRop(rop, NObjects, e.rop, h)
        /\ e.rop.in_progress # {} => e.done < Cardinality(Seen(rop, NObjects))
        /\ e.done \in Nat
    BY <2>5 DEF FineLoop, Kept
  <2>7. DOMAIN e.rop.complete = Objs(rop) /\ Seen(rop, NObjects) = Objs(rop)
    BY <1>1, <2>6, SeenCount DEF KeptRop, Shape, Typed
  <2>8. Cardinality(Objs(rop)) \in Nat
    BY <1>2, FS_CardinalityType
  <2>9. Finished(e) => e.rop.in_progress = {}
    <3>1. ASSUME NEW d \in Nat, NEW c, d < c PROVE d # c
      BY <3>1
    <3>2. e.rop.in_progress # {} => e.done # Cardinality(DOMAIN e.rop.complete)
      BY ONLY <2>6, <2>7, <2>8, <3>1
    <3> QED
      BY <3>2 DEF Finished
  <2> QED
    BY <1>5, <2>6, <2>9
<1> QED
  BY <1>4, <1>5
-----------------------------------------------------------------------------
(* The attributes are known, came, or are waited for, x saying whether the *)
(* recovery knows them, unless the shard that was asked for them failed.   *)
AttrsFine(rop, o, x, F) ==
  \/ x \/ rop.complete[o].attrs \/ "attributes" \in F
  \/ /\ rop.to_read[o].want_attrs /\ rop.to_read[o].need # {}
     /\ FirstOf(rop.to_read[o].need) \in rop.to_read[o].need \cap rop.in_progress

(* A read of recoveries: it reads what they miss.  A message asks what its *)
(* read still needs of the shard.                                          *)
FineAt(rop, h, u, ops, F) ==
  /\ FineRop(rop, h, u, F)
  /\ \A o \in Objs(rop) : /\ rop.want_to_read[o] = Want(ops[o])
                         /\ AttrsFine(rop, o, ops[o].xattrs, F)
Asks(m, rop) ==
  /\ m.to \in PgShard
  /\ \A o \in Objs(rop) :
       /\ o \in m.objects <=> m.to \in rop.to_read[o].need
       /\ o \in m.sub <=> m.to \in rop.to_read[o].need /\ rop.to_read[o].sub
       /\ o \in m.attrs <=> /\ rop.to_read[o].want_attrs /\ rop.to_read[o].need # {}
                            /\ m.to = FirstOf(rop.to_read[o].need)

(* An error came for an object that was cancelled before: its result       *)
(* stays, without the element for the extent.                              *)
Damaged(rop) ==
  \E c \in DOMAIN rop.complete \ Objs(rop) :
    rop.complete[c] \in Result /\ ~rop.complete[c].returned
Stands(rop, h, u, ops, F) ==
  \/ FineAt(rop, h, u, ops, F)
  \/ Damaged(rop) /\ "cancelled" \in F

(* The kinds of errors that one read has met, and those that any has.      *)
KindsOf(t) == {k \in Kinds : <<t, k>> \in unforeseen}
MetKinds == {k[2] : k \in unforeseen}

(* Which of them can fail the assertion x.                                 *)
Explained(x, F) ==
  /\ x = "pop.data.length()" => "repair" \in F
  /\ x = "op.xattrs.size()" => "attributes" \in F
  /\ x = "!need_attrs" => "copy" \in F \/ "cancelled" \in F
  /\ x \in {"returned.front()", "to_read.size()"} => "cancelled" \in F
  /\ x = "complete.r == 0" => "transient" \in F \/ "cancelled" \in F \/ CheckForErrors

FineReads ==
  \A t \in DOMAIN tid_to_read_map :
    Stands(tid_to_read_map[t], AllHolders, unreadable, recovery_ops, KindsOf(t))
FineWire ==
  \A m \in wire : m.tid \in DOMAIN tid_to_read_map =>
    Damaged(tid_to_read_map[m.tid]) \/ Asks(m, tid_to_read_map[m.tid])
AssertFine == Explained(asserted, MetKinds)
FineInv == FineReads /\ FineWire /\ AssertFine

(* A read that stands is not damaged.                                      *)
LEMMA NotDamaged ==
  ASSUME NEW rop, Typed(rop)
  PROVE  ~Damaged(rop)
BY DEF Damaged, Typed

(* An assertion that fails is explained by more errors too.                *)
LEMMA MoreExplains ==
  ASSUME NEW x, NEW F, Explained(x, F), NEW F2, F \subseteq F2
  PROVE  Explained(x, F2)
BY DEF Explained

(* An error for a cancelled object explains all that the loop can fail.    *)
LEMMA CancelledExplains ==
  ASSUME NEW F, "cancelled" \in F, NEW x,
         x \in {"", "to_read.size()"} \cup LoopAsserts
  PROVE  Explained(x, F)
BY DEF Explained, LoopAsserts

(* What explains an assertion of the loop explains it of the read.         *)
LEMMA LoopExplains ==
  ASSUME NEW x, NEW F, LoopExplained(x, F)
  PROVE  Explained(x, F)
BY DEF Explained, LoopExplained

(* What is kept of the errors: those of reads that go on, and all when an  *)
(* assertion fails.                                                        *)
LEMMA KindsKept ==
  ASSUME NEW more, unforeseen' = StillOpen(unforeseen \cup more)
  PROVE  /\ \A t \in DOMAIN tid_to_read_map' : KindsOf(t) \subseteq KindsOf(t)'
         /\ \A t, k : t \in DOMAIN tid_to_read_map' /\ <<t, k>> \in more /\ k \in Kinds
                        => k \in KindsOf(t)'
         /\ asserted' # "" => /\ MetKinds \subseteq MetKinds'
                              /\ \A t, k : <<t, k>> \in more => k \in MetKinds'
         /\ \A t : KindsOf(t) \subseteq MetKinds
<1>1. unforeseen' = {x \in unforeseen \cup more :
                       x[1] \in DOMAIN tid_to_read_map' \/ asserted' # ""}
  BY DEF StillOpen
<1>2. ASSUME NEW t, NEW k
      PROVE  <<t, k>>[1] = t /\ <<t, k>>[2] = k
  OBVIOUS
<1>3. ASSUME NEW t \in DOMAIN tid_to_read_map', NEW k \in Kinds,
             <<t, k>> \in unforeseen \cup more
      PROVE  k \in KindsOf(t)'
  <2>1. <<t, k>> \in unforeseen'
    BY <1>1, <1>2, <1>3
  <2> QED
    BY <2>1 DEF KindsOf, Kinds
<1>4. \A t \in DOMAIN tid_to_read_map' : KindsOf(t) \subseteq KindsOf(t)'
  <2> SUFFICES ASSUME NEW t \in DOMAIN tid_to_read_map', NEW k \in KindsOf(t)
               PROVE  k \in KindsOf(t)'
    OBVIOUS
  <2>1. k \in Kinds /\ <<t, k>> \in unforeseen
    BY DEF KindsOf
  <2> QED
    BY <1>3, <2>1
<1>5. asserted' # "" => unforeseen' = unforeseen \cup more
  BY <1>1
<1>6. asserted' # "" => /\ MetKinds \subseteq MetKinds'
                        /\ \A t, k : <<t, k>> \in more => k \in MetKinds'
  <2>1. ASSUME asserted' # "", NEW t, NEW k, <<t, k>> \in more PROVE k \in MetKinds'
    <3>1. <<t, k>> \in unforeseen'
      BY <1>5, <2>1
    <3> QED
      BY <1>2, <3>1 DEF MetKinds
  <2>2. ASSUME asserted' # "" PROVE MetKinds \subseteq MetKinds'
    BY <1>5, <2>2 DEF MetKinds
  <2> QED
    BY <2>1, <2>2
<1>7. \A t : KindsOf(t) \subseteq MetKinds
  BY <1>2 DEF KindsOf, MetKinds
<1> QED
  BY <1>3, <1>4, <1>6, <1>7

(* The holders are shards.                                                 *)
LEMMA HoldersTyped ==
  ASSUME SourcesRight
  PROVE  AllHolders \in [Object -> SUBSET PgShard]
<1>1. \A o \in Object : Holders(o) \in SUBSET PgShard
  BY HoldersUp
<1> QED
  BY <1>1 DEF AllHolders

(* A read stays so while holders of its objects are lost, copies go bad    *)
(* and the recoveries of its objects are left alone.                       *)
LEMMA FineAtStays ==
  ASSUME NEW rop, NEW h \in [Object -> SUBSET PgShard], NEW h2, NEW u, NEW u2,
         NEW ops, NEW ops2, NEW F, FineAt(rop, h, u, ops, F),
         NEW F2, F \subseteq F2,
         \A o \in Objs(rop) :
           h2[o] \subseteq h[o] /\ Bad(u, o) \subseteq Bad(u2, o) /\ ops2[o] = ops[o]
  PROVE  FineAt(rop, h2, u2, ops2, F2)
<1>1. ASSUME NEW o \in Objs(rop) PROVE FineObj(rop, o, h2, u2, F2)
  <2>1. FineObj(rop, o, h, u, F) /\ o \in Object
    BY DEF FineAt, FineRop, Shape, Typed
  <2>2. h[o] \in SUBSET PgShard /\ h2[o] \subseteq h[o] /\ Bad(u, o) \subseteq Bad(u2, o)
    BY <2>1
  <2>3. rop.in_progress \cap rop.to_read[o].need \subseteq rop.in_progress
    OBVIOUS
  <2> QED
    BY <2>1, <2>2, <2>3, FineStays DEF FineObj
<1>2. \A o \in Objs(rop) : AttrsFine(rop, o, ops2[o].xattrs, F2)
  BY DEF FineAt, AttrsFine
<1> QED
  BY <1>1, <1>2 DEF FineAt, FineRop

(* So does one that was damaged.                                           *)
LEMMA StandsStill ==
  ASSUME NEW rop, NEW h \in [Object -> SUBSET PgShard], NEW h2, NEW u, NEW u2,
         NEW ops, NEW ops2, NEW F, Stands(rop, h, u, ops, F),
         NEW F2, F \subseteq F2,
         \A o \in Objs(rop) :
           h2[o] \subseteq h[o] /\ Bad(u, o) \subseteq Bad(u2, o) /\ ops2[o] = ops[o]
  PROVE  Stands(rop, h2, u2, ops2, F2)
<1>1. CASE FineAt(rop, h, u, ops, F)
  <2>1. FineAt(rop, h2, u2, ops2, F2)
    BY <1>1, FineAtStays
  <2> QED
    BY <2>1 DEF Stands
<1>2. CASE Damaged(rop) /\ "cancelled" \in F
  BY <1>2 DEF Stands
<1> QED
  BY <1>1, <1>2 DEF Stands

(* What a reply leaves of its read: S stands so too.                       *)
ReplyTaken(rop, S, m, h, u, F) ==
  /\ FineRop(S, h, u, F) /\ Objs(S) = Objs(rop)
  /\ S.want_to_read = rop.want_to_read /\ S.to_read = rop.to_read
  /\ S.in_progress = rop.in_progress \ {m.to}

(* A reply to a read that stands so, h and u as before it and u2 after it. *)
LEMMA FineReceived ==
  ASSUME NEW rop, NEW h \in [Object -> SUBSET PgShard], NEW u, NEW F, FineRop(rop, h, u, F),
         NEW m, Asks(m, rop), NEW bad \in SUBSET m.objects, bad \subseteq Objs(rop),
         NEW F2,
         \A o \in Objs(rop) : Meets(rop.want_to_read[o], F, F2, o, m.to, m.objects, bad,
                                    h[o], Bad(u, o)),
         F \subseteq F2, NEW u2, u2 = u \cup ({m.to} \X bad)
  PROVE  ReplyTaken(rop, Received(rop, m, bad), m, h, u2, F2)
<1> SUFFICES ASSUME NEW S, S = Received(rop, m, bad)
             PROVE  ReplyTaken(rop, S, m, h, u2, F2)
  OBVIOUS
<1>1. Typed(rop) /\ m.to \in PgShard
  BY DEF FineRop, Shape, Asks
<1>2. Took(rop, S, m, bad)
  BY <1>1, ReceivedFields
<1>3. /\ Typed(S) /\ Objs(S) = Objs(rop)
      /\ S.want_to_read = rop.want_to_read /\ S.to_read = rop.to_read
      /\ S.do_redundant_reads = rop.do_redundant_reads
      /\ S.for_recovery = rop.for_recovery
      /\ S.in_progress = rop.in_progress \ {m.to}
      /\ S.source_to_obj = rop.source_to_obj
      /\ \A o : Asked(S, o) = Asked(rop, o)
  BY <1>2 DEF Took
<1>4. Shape(S) /\ Linked(S)
  BY <1>3 DEF FineRop, Shape, Linked
<1>5. ASSUME NEW o \in Objs(rop) PROVE FineObj(S, o, h, u2, F2)
  <2>1. FineObj(rop, o, h, u, F) /\ o \in Object /\ h[o] \in SUBSET PgShard
    BY <1>1 DEF FineRop, Typed
  <2>2. rop.to_read[o] \in ReadRequest /\ rop.to_read[o].sub \in BOOLEAN
    BY <1>1, TypedFields DEF ReadRequest
  <2>3. /\ o \in m.objects <=> m.to \in rop.to_read[o].need
        /\ o \in m.sub <=> m.to \in rop.to_read[o].need /\ rop.to_read[o].sub
        /\ o \in bad => o \in m.objects
    BY DEF Asks
  <2>4. HeardOne(rop.complete[o], S.complete[o], o, m.to, m.objects, m.sub, bad)
    <3>1. /\ S.complete[o].returned = rop.complete[o].returned
          /\ S.complete[o].r = rop.complete[o].r
          /\ S.complete[o].errors = rop.complete[o].errors \cup From(m.to, o, bad)
          /\ Buffers(S.complete[o]) =
               Buffers(rop.complete[o]) \cup From(m.to, o, m.objects \ bad)
          /\ S.complete[o].full \subseteq
               rop.complete[o].full \cup From(m.to, o, m.objects \ m.sub)
          /\ S.complete[o].part \subseteq
               rop.complete[o].part \cup From(m.to, o, m.sub)
      BY <1>2 DEF Took
    <3>2. S.complete[o] \in Result
      BY <1>3, TypedFields
    <3> QED
      BY <3>1, <3>2 DEF HeardOne
  <2>5. Bad(u, o) \subseteq Bad(u2, o) /\ (o \in bad => m.to \in Bad(u2, o))
    BY <1>1 DEF Bad
  <2>6. Meets(rop.want_to_read[o], F, F2, o, m.to, m.objects, bad, h[o], Bad(u, o))
    OBVIOUS
  <2>8. FineRead(rop.want_to_read[o], Asked(rop, o), rop.to_read[o],
                 rop.in_progress \ {m.to}, S.complete[o], h[o], Bad(u2, o), F2)
    <3>1. FineRead(rop.want_to_read[o], Asked(rop, o), rop.to_read[o], rop.in_progress,
                   rop.complete[o], h[o], Bad(u, o), F)
      BY <2>1 DEF FineObj
    <3>2. h[o] \in SUBSET PgShard /\ m.to \in PgShard
      BY <1>1, <2>1
    <3> QED
      BY ONLY <2>3, <2>4, <2>5, <2>6, <3>1, <3>2, FineHeard
  <2> QED
    BY <1>3, <2>8 DEF FineObj
<1> QED
  BY <1>3, <1>4, <1>5 DEF FineRop, ReplyTaken

(* The result that an error makes when there is none.                      *)
StrayResult == [NewResult EXCEPT !.returned = FALSE]

(* What a reply leaves of the results, of those included that no request   *)
(* stands for any more.                                                    *)
Results(rop, S, m, read, bad) ==
  /\ DOMAIN S.complete = DOMAIN rop.complete \cup bad
  /\ \A o \in DOMAIN rop.complete :
       S.complete[o] = HeardResult(rop.complete[o], o, m, read, bad)
  /\ \A o \in bad \ DOMAIN rop.complete :
       S.complete[o] = HeardResult(StrayResult, o, m, read, bad)

(* These are the results after a reply.                                    *)
LEMMA ReceivedResults ==
  ASSUME NEW rop, RopRight(rop), NEW m, NEW bad
  PROVE  Results(rop, Received(rop, m, bad), m, (m.objects \ bad) \cap Objs(rop), bad)
<1> DEFINE S == Received(rop, m, bad)
<1> DEFINE read == (m.objects \ bad) \cap Objs(rop)
<1> DEFINE At(o) == IF o \in DOMAIN rop.complete THEN rop.complete[o] ELSE StrayResult
<1> DEFINE c == [o \in DOMAIN rop.complete \cup bad |-> HeardResult(At(o), o, m, read, bad)]
<1>1. S = [rop EXCEPT !.complete = c, !.in_progress = rop.in_progress \ {m.to}]
  BY DEF Received, HeardResult, Objs, StrayResult
<1> HIDE DEF c, S, read
<1>2. S.complete = c
  BY <1>1 DEF RopRight
<1>3. \A o \in DOMAIN rop.complete : At(o) = rop.complete[o]
  OBVIOUS
<1>4. \A o \in bad \ DOMAIN rop.complete : At(o) = StrayResult
  OBVIOUS
<1> HIDE DEF At
<1>5. DOMAIN c = DOMAIN rop.complete \cup bad
  BY DEF c
<1>6. \A o \in DOMAIN rop.complete \cup bad : c[o] = HeardResult(At(o), o, m, read, bad)
  BY DEF c
<1>7. Results(rop, S, m, read, bad)
  BY <1>2, <1>3, <1>4, <1>5, <1>6 DEF Results
<1> QED
  BY <1>7 DEF S, read

(* The attributes come with the buffer of the shard asked for them.        *)
LEMMA HeardAttrs ==
  ASSUME NEW res \in Result, NEW o, NEW m, NEW read, NEW bad
  PROVE  HeardResult(res, o, m, read, bad).attrs
           <=> res.attrs \/ o \in read \cap m.attrs
<1> DEFINE full == IF o \in read \ m.sub THEN res.full \cup {m.to}
                   ELSE IF o \in read THEN res.full \ {m.to} ELSE res.full
<1> DEFINE prt == IF o \in read \cap m.sub THEN res.part \cup {m.to}
                  ELSE IF o \in read THEN res.part \ {m.to} ELSE res.part
<1> DEFINE err == IF o \in bad THEN res.errors \cup {m.to} ELSE res.errors
<1> DEFINE att == res.attrs \/ o \in read \cap m.attrs
<1> DEFINE new == HeardResult(res, o, m, read, bad)
<1>1. res = [returned |-> res.returned, full |-> res.full, part |-> res.part,
             errors |-> res.errors, attrs |-> res.attrs, r |-> res.r]
  BY DEF Result
<1>2. new = [res EXCEPT !.full = full, !.part = prt, !.attrs = att, !.errors = err]
  BY DEF HeardResult
<1> HIDE DEF full, prt, err, att, new
<1>3. new.attrs = att
  BY <1>1, <1>2
<1> QED
  BY <1>3 DEF att, new

(* The attributes came with the reply, or are waited for as before, unless *)
(* the reply was an error of the shard that was asked for them.            *)
LEMMA AttrsReceived ==
  ASSUME NEW rop, RopRight(rop), Typed(rop), NEW m, Asks(m, rop),
         NEW bad \in SUBSET m.objects, bad \subseteq Objs(rop),
         NEW o \in Objs(rop), NEW x, NEW F, AttrsFine(rop, o, x, F),
         NEW F2, F \subseteq F2, o \in bad \cap m.attrs => "attributes" \in F2,
         NEW S, S = Received(rop, m, bad), S.to_read = rop.to_read,
         S.in_progress = rop.in_progress \ {m.to}
  PROVE  AttrsFine(S, o, x, F2)
<1> DEFINE read == (m.objects \ bad) \cap Objs(rop)
<1>1. rop.complete[o] \in Result /\ o \in DOMAIN rop.complete
  BY TypedFields DEF Typed
<1>2. S.complete[o] = HeardResult(rop.complete[o], o, m, read, bad)
  <2>1. Results(rop, S, m, read, bad)
    BY ReceivedResults
  <2> HIDE DEF read
  <2> QED
    BY <1>1, <2>1 DEF Results
<1>3. S.complete[o].attrs <=> rop.complete[o].attrs \/ o \in read \cap m.attrs
  <2> HIDE DEF read
  <2> QED
    BY <1>1, <1>2, HeardAttrs
<1>4. CASE x \/ rop.complete[o].attrs \/ "attributes" \in F
  BY <1>3, <1>4 DEF AttrsFine
<1>5. CASE /\ rop.to_read[o].want_attrs /\ rop.to_read[o].need # {}
           /\ FirstOf(rop.to_read[o].need) \in rop.to_read[o].need \cap rop.in_progress
  <2>1. CASE m.to = FirstOf(rop.to_read[o].need)
    <3>1. o \in m.attrs /\ o \in m.objects
      BY <1>5, <2>1 DEF Asks
    <3> QED
      BY <1>3, <3>1 DEF AttrsFine
  <2>2. CASE m.to # FirstOf(rop.to_read[o].need)
    BY <1>5, <2>2 DEF AttrsFine
  <2> QED
    BY <2>1, <2>2
<1> QED
  BY <1>4, <1>5 DEF AttrsFine

(* The loop keeps them: it asks again only when nothing is waited for.     *)
LEMMA AttrsEvaluated ==
  ASSUME NEW rop, NEW n, NEW h, NEW new, KeptRop(rop, n, new, h), NEW o \in Objs(rop),
         NEW x, NEW F, AttrsFine(rop, o, x, F)
  PROVE  AttrsFine(new, o, x, F)
<1>1. new.complete[o].attrs = rop.complete[o].attrs
  BY DEF KeptRop, SameBuffers
<1>2. SameAsks(rop, new) \/ rop.in_progress = {}
  BY DEF KeptRop, NewAsks
<1> QED
  BY <1>1, <1>2 DEF AttrsFine, SameAsks

(* A read stays damaged, whatever comes.                                   *)
LEMMA DamagedReceived ==
  ASSUME NEW rop, RopRight(rop), NEW m, m.to \in PgShard, NEW bad,
         \/ Damaged(rop)
         \/ Typed(rop) /\ ~(bad \subseteq Objs(rop))
  PROVE  Damaged(Received(rop, m, bad))
<1> DEFINE S == Received(rop, m, bad)
<1> DEFINE read == (m.objects \ bad) \cap Objs(rop)
<1>1. StrayResult \in Result /\ ~StrayResult.returned
  BY DEF NewResult, Result, StrayResult
<1>3. Objs(S) = Objs(rop)
  BY ReceivedRight DEF SameObjects
<1>7. Results(rop, S, m, read, bad)
  BY ReceivedResults
<1> HIDE DEF S, read
<1>2. /\ DOMAIN S.complete = DOMAIN rop.complete \cup bad
      /\ \A o \in DOMAIN rop.complete :
           S.complete[o] = HeardResult(rop.complete[o], o, m, read, bad)
      /\ \A o \in bad \ DOMAIN rop.complete :
           S.complete[o] = HeardResult(StrayResult, o, m, read, bad)
  BY <1>7 DEF Results
<1>4. ASSUME NEW res \in Result, ~res.returned, NEW o
      PROVE  /\ HeardResult(res, o, m, read, bad) \in Result
             /\ ~HeardResult(res, o, m, read, bad).returned
  <2>1. Heard(res, HeardResult(res, o, m, read, bad), o, m.to, read, m.sub, bad)
    BY HeardResultFields
  <2> QED
    BY <1>4, <2>1 DEF Heard
<1>5. CASE Damaged(rop)
  <2>1. PICK c \in DOMAIN rop.complete \ Objs(rop) :
          rop.complete[c] \in Result /\ ~rop.complete[c].returned
    BY <1>5 DEF Damaged
  <2>2. S.complete[c] \in Result /\ ~S.complete[c].returned
    BY <1>2, <1>4, <2>1
  <2> QED
    BY <1>2, <1>3, <2>1, <2>2 DEF Damaged, S
<1>6. CASE Typed(rop) /\ ~(bad \subseteq Objs(rop))
  <2>1. PICK c \in bad : c \notin Objs(rop)
    BY <1>6
  <2>2. c \notin DOMAIN rop.complete
    BY <1>6, <2>1 DEF Typed
  <2>3. S.complete[c] \in Result /\ ~S.complete[c].returned
    BY <1>1, <1>2, <1>4, <2>1, <2>2
  <2> QED
    BY <1>2, <1>3, <2>1, <2>3 DEF Damaged, S
<1> QED
  BY <1>5, <1>6

(* Asking again leaves the results alone.                                  *)
LEMMA SendKeepsResults ==
  ASSUME NEW rop, RopRight(rop), NEW o, NEW H
  PROVE  send_all_remaining_reads(rop, o, H).complete = rop.complete
<1> DEFINE req == [need |-> get_remaining_shards(rop, o, H), sub |-> FALSE,
                   want_attrs |-> rop.to_read[o].want_attrs
                                    /\ ~rop.complete[o].attrs]
<1> DEFINE t == [rop.to_read EXCEPT ![o] = req]
<1> DEFINE base == [rop EXCEPT !.to_read = t]
<1>1. send_all_remaining_reads(rop, o, H) = do_read_op(base)
  BY DEF send_all_remaining_reads
<1> HIDE DEF t
<1>2. base = [want_to_read |-> rop.want_to_read, to_read |-> t,
              complete |-> rop.complete,
              do_redundant_reads |-> rop.do_redundant_reads,
              for_recovery |-> rop.for_recovery, in_progress |-> rop.in_progress,
              source_to_obj |-> rop.source_to_obj,
              obj_to_source |-> rop.obj_to_source]
  BY DEF RopRight
<1> HIDE DEF base
<1> DEFINE D == DOMAIN base.to_read
<1> DEFINE i == base.in_progress \cup UNION {base.to_read[x].need : x \in D}
<1> DEFINE s == base.source_to_obj \cup UNION {base.to_read[x].need \X {x} : x \in D}
<1> DEFINE b == base.obj_to_source \cup UNION {{x} \X base.to_read[x].need : x \in D}
<1>3. do_read_op(base) = [base EXCEPT !.in_progress = i, !.source_to_obj = s,
                                      !.obj_to_source = b]
  BY Zenon DEF do_read_op
<1> HIDE DEF i, s, b
<1>4. do_read_op(base).complete = base.complete
  BY <1>2, <1>3
<1> QED
  BY <1>1, <1>2, <1>4

(* Such a result, of the object c.                                         *)
StrayAt(rop, c) ==
  c \in DOMAIN rop.complete /\ rop.complete[c] \in Result /\ ~rop.complete[c].returned

(* The loop fails its assertion at such a result, and leaves it alone at   *)
(* the others.                                                             *)
LEMMA StrayTurn ==
  ASSUME NEW e, e = [rop |-> e.rop, done |-> e.done, assert |-> e.assert],
         RopRight(e.rop), NEW c, StrayAt(e.rop, c), NEW o, NEW holders
  PROVE  StrayAt(Evaluate(e, o, holders).rop, c)
<1> SUFFICES ASSUME NEW new, new = Evaluate(e, o, holders)
             PROVE  StrayAt(new.rop, c)
  OBVIOUS
<1>1. new = Evaluate(e, o, holders)
  OBVIOUS
<1>2. ASSUME new.rop = e.rop PROVE StrayAt(new.rop, c)
  BY <1>2
<1>3. ASSUME NEW x, new = [e EXCEPT !.assert = x] PROVE new.rop = e.rop
  BY <1>3
<1>4. CASE o = c
  <2>1. o \in DOMAIN e.rop.complete /\ ~e.rop.complete[o].returned
    BY <1>4 DEF StrayAt
  <2>2. new = e \/ new = [e EXCEPT !.assert = "returned.front()"]
    BY <1>1, <2>1 DEF Evaluate
  <2>3. new.rop = e.rop
    BY <1>3, <2>2
  <2> QED
    BY <2>3, <1>2
<1>5. CASE o # c
  <2>1. ASSUME NEW res, new = [e EXCEPT !.rop = WithResult(e.rop, o, res), !.done = @ + 1]
        PROVE  StrayAt(new.rop, c)
    <3> DEFINE r == WithResult(e.rop, o, res)
    <3> DEFINE comp == [e.rop.complete EXCEPT ![o] = res]
    <3>1. r.complete = comp
      <4> HIDE DEF comp
      <4>1. r = [e.rop EXCEPT !.complete = comp]
        BY DEF WithResult, comp
      <4> QED
        BY <4>1 DEF RopRight
    <3>2. c \in DOMAIN comp /\ comp[c] = e.rop.complete[c]
      BY <1>5 DEF StrayAt
    <3> HIDE DEF r, comp
    <3>3. new.rop = r
      BY <2>1 DEF r
    <3> QED
      BY <3>1, <3>2, <3>3 DEF StrayAt
  <2>2. ASSUME new = [e EXCEPT !.rop = send_all_remaining_reads(e.rop, o, holders[o])]
        PROVE  StrayAt(new.rop, c)
    <3>1. new.rop = send_all_remaining_reads(e.rop, o, holders[o])
      BY <2>2
    <3>2. new.rop.complete = e.rop.complete
      BY <3>1, SendKeepsResults
    <3> QED
      BY <3>2 DEF StrayAt
  <2>3. \/ TurnIdle(e, o) /\ new = e
        \/ \E x \in LoopAsserts : /\ TurnAsserts(e, o, holders[o], x)
                                  /\ new = [e EXCEPT !.assert = x]
        \/ /\ TurnJudges(e, o) /\ e.rop.complete[o].r = "ok"
           /\ new = [e EXCEPT !.rop = WithResult(e.rop, o, Judged(e.rop.complete[o])),
                              !.done = @ + 1]
        \/ /\ TurnSends(e, o, holders[o])
           /\ new = [e EXCEPT !.rop = send_all_remaining_reads(e.rop, o, holders[o])]
        \/ /\ TurnGivesUp(e, o, holders[o])
           /\ new = [e EXCEPT !.rop = WithResult(e.rop, o, GivenUpResult(e.rop.complete[o])),
                              !.done = @ + 1]
    BY ONLY <1>1, EvaluateCases
  <2>6. CASE new = [e EXCEPT !.rop = WithResult(e.rop, o, Judged(e.rop.complete[o])),
                             !.done = @ + 1]
    BY <2>1, <2>6
  <2>7. CASE new = [e EXCEPT !.rop = WithResult(e.rop, o, GivenUpResult(e.rop.complete[o])),
                             !.done = @ + 1]
    BY <2>1, <2>7
  <2>4. new = e => StrayAt(new.rop, c)
    OBVIOUS
  <2>5. ASSUME NEW x, new = [e EXCEPT !.assert = x] PROVE StrayAt(new.rop, c)
    BY <1>2, <1>3, <2>5
  <2> QED
    BY <2>2, <2>3, <2>4, <2>5, <2>6, <2>7, Zenon
<1> QED
  BY <1>1, <1>4, <1>5

(* So it is still there after the loop.                                    *)
LEMMA DamagedEvaluated ==
  ASSUME NEW rop, RopRight(rop), Damaged(rop), NEW holders
  PROVE  Damaged(Evaluated(rop, holders).rop)
<1>1. PICK c : c \notin Objs(rop) /\ StrayAt(rop, c)
  BY DEF Damaged, StrayAt
<1>2. Objs(Evaluated(rop, holders).rop) = Objs(rop)
  BY EvaluatedRight DEF SameObjects
<1> SUFFICES StrayAt(Evaluated(rop, holders).rop, c)
  BY <1>1, <1>2 DEF Damaged, StrayAt
<1> DEFINE start == LoopStart(rop)
<1>3. start.rop = rop /\ LoopRight(rop, start, holders)
  <2>1. /\ start = [rop |-> rop, done |-> 0, assert |-> ""]
        /\ start.rop = rop /\ start.done = 0 /\ start.assert = ""
    BY DEF LoopStart
  <2> HIDE DEF start
  <2> QED
    BY <2>1 DEF LoopRight, SameObjects, Reasked
<1>4. CASE ~(rop.do_redundant_reads \/ rop.in_progress = {})
  <2>1. Evaluated(rop, holders) = start
    BY <1>4, Zenon DEF Evaluated, LoopStart
  <2> HIDE DEF start
  <2> QED
    BY <1>1, <1>3, <2>1
<1>5. CASE rop.do_redundant_reads \/ rop.in_progress = {}
  <2>1. PICK e : /\ e[0] = LoopStart(rop)
                 /\ \A n \in 1 .. NObjects : e[n] = Evaluate(e[n - 1], n, holders)
                 /\ Evaluated(rop, holders) = e[NObjects]
    BY <1>5, EvaluatedIsLoop
  <2> DEFINE T == {n \in Nat : n <= NObjects => /\ LoopRight(rop, e[n], holders)
                                                /\ StrayAt(e[n].rop, c)}
  <2>2. 0 \in T
    BY <1>1, <1>3, <2>1
  <2>3. \A n \in Nat : n \in T => n + 1 \in T
    <3> SUFFICES ASSUME NEW n \in Nat, n \in T, n + 1 <= NObjects
                 PROVE  LoopRight(rop, e[n + 1], holders) /\ StrayAt(e[n + 1].rop, c)
      OBVIOUS
    <3>1. n <= NObjects /\ n + 1 \in 1 .. NObjects /\ (n + 1) - 1 = n
      OBVIOUS
    <3>2. LoopRight(rop, e[n], holders) /\ StrayAt(e[n].rop, c)
      BY <3>1
    <3>3. e[n + 1] = Evaluate(e[n], n + 1, holders)
      BY <2>1, <3>1
    <3>4. LoopRight(rop, e[n + 1], holders)
      BY <3>2, <3>3, TurnRight
    <3>5. /\ e[n] = [rop |-> e[n].rop, done |-> e[n].done, assert |-> e[n].assert]
          /\ RopRight(e[n].rop)
      BY <3>2 DEF LoopRight, SameObjects
    <3>6. StrayAt(Evaluate(e[n], n + 1, holders).rop, c)
      BY <3>2, <3>5, StrayTurn
    <3> QED
      BY <3>3, <3>4, <3>6
  <2> HIDE DEF T
  <2>4. NObjects \in T
    BY <2>2, <2>3, SetInduction
  <2>5. StrayAt(e[NObjects].rop, c)
    BY <2>4 DEF T
  <2> QED
    BY <2>1, <2>5
<1> QED
  BY <1>4, <1>5

(* Of shards there is a first one.                                         *)
LEMMA FirstOfIn ==
  ASSUME NEW S \in SUBSET PgShard, S # {}
  PROVE  FirstOf(S) \in S
<1>1. \A p \in S : p[1] \in Nat /\ p[2] \in Nat
  OBVIOUS
<1> DEFINE osds == {p[1] : p \in S}
<1>2. osds \in SUBSET Nat /\ osds # {}
  BY <1>1
<1>3. PICK n \in osds : \A x \in osds : n <= x
  BY <1>2, LeastMember
<1> DEFINE same == {p \in S : p[1] = n}
<1> DEFINE shards == {p[2] : p \in same}
<1>4. shards \in SUBSET Nat /\ shards # {}
  BY <1>1, <1>3
<1>5. PICK s \in shards : \A x \in shards : s <= x
  BY <1>4, LeastMember
<1>6. PICK b \in same : b[2] = s
  BY <1>5
<1>7. b \in S /\ b[1] = n /\ n \in Nat /\ s \in Nat
  BY <1>1, <1>6
<1>8. ASSUME NEW q \in S PROVE b[1] < q[1] \/ (b[1] = q[1] /\ b[2] <= q[2])
  <2>1. n <= q[1] /\ q[1] \in Nat
    BY <1>1, <1>3
  <2>2. q[1] = n => s <= q[2]
    BY <1>5
  <2> QED
    BY <1>6, <1>7, <2>1, <2>2
<1> QED
  BY <1>7, <1>8 DEF FirstOf

(* The message that asks for the attributes of an object.                  *)
LEMMA AttrsAsked ==
  ASSUME NEW tid, NEW rop, NEW x \in Messages(tid, rop)
  PROVE  x.attrs = {o \in Objs(rop) : /\ rop.to_read[o].want_attrs
                                      /\ rop.to_read[o].need # {}
                                      /\ x.to = FirstOf(rop.to_read[o].need)}
BY DEF Messages, Objs

(* The attributes are known with the object context and after a piece.     *)
AttrsKnown(op) == op.obc \/ op.progress > 0 => op.xattrs

(* What the read of each recovery asks when it starts.                     *)
LEMMA FineAsked ==
  ASSUME WireRight, NEW o \in Object, NEW op \in RecoveryOpType,
         op.missing_on # {}, Request(o, op).need # {}, AttrsKnown(op)
  PROVE  /\ Want(op) \in SUBSET (0 .. K + M - 1) /\ Request(o, op) \in ReadRequest
         /\ op.xattrs \/ Request(o, op).want_attrs
         /\ \A I, B, F : Request(o, op).need \subseteq I =>
              FineRead(Want(op), Request(o, op).need, Request(o, op), I, NewResult,
                       Holders(o), B, F)
<1> DEFINE attrs == op.progress = 0 /\ ~op.obc
<1> DEFINE req == Request(o, op)
<1>1. req = get_min_avail_to_read_shards(Holders(o), Want(op), TRUE, FALSE, attrs)
  BY DEF Request
<1>2. attrs \in BOOLEAN
  OBVIOUS
<1>3. Want(op) \in SUBSET (0 .. K + M - 1) /\ Want(op) # {}
  <2>1. op.missing_on \in SUBSET PgShard /\ op.missing_on # {}
    BY RecoveryOpFields, Acting \subseteq PgShard
  <2>2. ShardOf(op.missing_on) \in SUBSET (0 .. K + M - 1)
    BY ONLY <2>1, ShardNumbers
  <2> QED
    BY <2>1, <2>2 DEF Want, ShardOf
<1>4. Holders(o) \in SUBSET PgShard
  BY HoldersUp DEF WireRight
<1>5. req.need # {}
  OBVIOUS
<1>8. op.xattrs \/ req.want_attrs
  <2>1. req.want_attrs = attrs
    BY <1>1 DEF get_min_avail_to_read_shards
  <2>2. op.progress \in Nat
    BY RecoveryOpFields
  <2>3. op.xattrs \/ attrs
    BY <2>2 DEF AttrsKnown
  <2> HIDE DEF attrs, req
  <2> QED
    BY <2>1, <2>3
<1> HIDE DEF attrs, req
<1>6. ASSUME NEW I, req.need \subseteq I, NEW B, NEW F
      PROVE  /\ req \in ReadRequest
             /\ FineRead(Want(op), req.need, req, I, NewResult, Holders(o), B, F)
  BY ONLY <1>1, <1>2, <1>3, <1>4, <1>5, <1>6, FineRequest
<1>7. req \in ReadRequest
  BY <1>6
<1> QED
  BY <1>3, <1>6, <1>7, <1>8 DEF req

(* Requests t for what the recoveries ops want, that are enough.           *)
FineRequests(ops, want, t, h) ==
  \A o \in DOMAIN t :
    /\ want[o] = Want(ops[o]) /\ t[o].need # {}
    /\ ops[o].xattrs \/ t[o].want_attrs
    /\ \A I, B, F : t[o].need \subseteq I =>
         FineRead(want[o], t[o].need, t[o], I, NewResult, h[o], B, F)

(* A read that starts so.                                                  *)
LEMMA FineStarted ==
  ASSUME NEW h, NEW u, NEW F, NEW ops, NEW D, NEW want, NEW t, DOMAIN t = D,
         NEW rop, Started(rop, want, t), rop.do_redundant_reads = FALSE,
         rop.for_recovery = TRUE, FineRequests(ops, want, t, h)
  PROVE  /\ FineAt(rop, h, u, ops, F) /\ Objs(rop) = D
         /\ \A x \in Messages(next_tid, rop) : Asks(x, rop)
<1>1. /\ Shape(rop) /\ Objs(rop) = D
      /\ rop.want_to_read = want /\ rop.to_read = t
      /\ rop.complete = [o \in D |-> NewResult]
      /\ rop.in_progress = Needed(rop) /\ Linked(rop)
      /\ \A o \in D : Asked(rop, o) = t[o].need
  BY DEF Started
<1>2. ASSUME NEW o \in D PROVE FineObj(rop, o, h, u, F)
  <2>1. rop.to_read[o].need \subseteq rop.in_progress
    BY <1>1 DEF Needed
  <2>2. rop.to_read[o] = t[o] /\ rop.want_to_read[o] = want[o] /\ Asked(rop, o) = t[o].need
    BY <1>1
  <2>3. rop.complete[o] = NewResult
    BY <1>1
  <2>4. \A I, B, G : t[o].need \subseteq I =>
          FineRead(want[o], t[o].need, t[o], I, NewResult, h[o], B, G)
    BY DEF FineRequests
  <2>5. FineRead(want[o], t[o].need, t[o], rop.in_progress, NewResult, h[o], Bad(u, o), F)
    BY ONLY <2>1, <2>2, <2>4
  <2> QED
    BY ONLY <2>2, <2>3, <2>5 DEF FineObj
<1>3. FineAt(rop, h, u, ops, F)
  <2>1. \A o \in Objs(rop) : rop.want_to_read[o] = Want(ops[o])
    BY <1>1 DEF FineRequests
  <2>2. FineRop(rop, h, u, F)
    BY <1>1, <1>2 DEF FineRop
  <2>3. ASSUME NEW o \in Objs(rop) PROVE AttrsFine(rop, o, ops[o].xattrs, F)
    <3>1. rop.to_read[o] = t[o] /\ t[o].need # {} /\ (ops[o].xattrs \/ t[o].want_attrs)
      BY <1>1 DEF FineRequests
    <3>2. rop.to_read[o].need \in SUBSET PgShard
      BY <1>1, TypedFields DEF Shape
    <3>3. FirstOf(rop.to_read[o].need) \in rop.to_read[o].need
      BY <3>1, <3>2, FirstOfIn
    <3>4. rop.to_read[o].need \subseteq rop.in_progress
      BY <1>1 DEF Needed
    <3> QED
      BY ONLY <3>1, <3>3, <3>4 DEF AttrsFine
  <2> QED
    BY ONLY <2>1, <2>2, <2>3 DEF FineAt
<1>4. ASSUME NEW x \in Messages(next_tid, rop) PROVE Asks(x, rop)
  <2>1. /\ x.to \in Needed(rop)
        /\ x.objects = {o \in Objs(rop) : x.to \in rop.to_read[o].need}
        /\ x.sub = {o \in x.objects : rop.to_read[o].sub}
    BY ONLY <1>4, MessagesSent
  <2>2. Typed(rop)
    BY <1>1 DEF Shape
  <2>3. Needed(rop) \subseteq PgShard
    BY ONLY <2>2, TypedFields DEF Needed
  <2>4. x.attrs = {o \in Objs(rop) : /\ rop.to_read[o].want_attrs
                                     /\ rop.to_read[o].need # {}
                                     /\ x.to = FirstOf(rop.to_read[o].need)}
    BY ONLY <1>4, AttrsAsked
  <2> QED
    BY ONLY <2>1, <2>3, <2>4 DEF Asks
<1> QED
  BY <1>1, <1>3, <1>4

(* The read that dispatch_recovery_messages starts.                        *)
LEMMA FineDispatched ==
  ASSUME WireRight, NEW ops, DOMAIN ops \subseteq Object, StartReads(ops),
         \A o \in DOMAIN ops :
           /\ ops[o] \in RecoveryOpType /\ ops[o].missing_on # {}
           /\ Request(o, ops[o]).need # {} /\ AttrsKnown(ops[o])
  PROVE  \E rop :
           /\ tid_to_read_map' = With(tid_to_read_map, [x \in {next_tid} |-> rop])
           /\ wire' = wire \cup Messages(next_tid, rop)
           /\ \A F : FineAt(rop, AllHolders, unreadable, ops, F)
           /\ Objs(rop) = DOMAIN ops /\ \A x \in Messages(next_tid, rop) : Asks(x, rop)
<1> DEFINE want == [o \in DOMAIN ops |-> Want(ops[o])]
<1> DEFINE t == [o \in DOMAIN ops |-> Request(o, ops[o])]
<1> DEFINE rop == start_read_op(want, t, FALSE, TRUE)
<1> DEFINE D == DOMAIN ops
<1>1. /\ tid_to_read_map' = With(tid_to_read_map, [x \in {next_tid} |-> rop])
      /\ wire' = wire \cup Messages(next_tid, rop)
  <2>1. PICK to_read \in {t} : \E r \in {start_read_op(want, to_read, FALSE, TRUE)} :
          /\ tid_to_read_map' = With(tid_to_read_map, [x \in {next_tid} |-> r])
          /\ wire' = wire \cup Messages(next_tid, r)
    BY Zenon DEF StartReads
  <2>2. to_read = t
    BY <2>1
  <2> HIDE DEF t, want
  <2> QED
    BY <2>1, <2>2
<1>2. DOMAIN t = D /\ DOMAIN want = D /\ D \in SUBSET Object
  OBVIOUS
<1>3. ASSUME NEW o \in D
      PROVE  /\ want[o] \in SUBSET (0 .. K + M - 1) /\ t[o] \in ReadRequest
             /\ want[o] = Want(ops[o]) /\ t[o].need # {}
             /\ ops[o].xattrs \/ t[o].want_attrs
             /\ \A I, B, F : t[o].need \subseteq I =>
                  FineRead(want[o], t[o].need, t[o], I, NewResult, AllHolders[o], B, F)
  <2>1. /\ o \in Object /\ ops[o] \in RecoveryOpType /\ ops[o].missing_on # {}
        /\ Request(o, ops[o]).need # {} /\ AttrsKnown(ops[o])
    OBVIOUS
  <2>2. want[o] = Want(ops[o]) /\ t[o] = Request(o, ops[o])
    OBVIOUS
  <2>3. AllHolders[o] = Holders(o)
    BY <2>1 DEF AllHolders
  <2> HIDE DEF want, t
  <2>4. /\ Want(ops[o]) \in SUBSET (0 .. K + M - 1) /\ Request(o, ops[o]) \in ReadRequest
        /\ ops[o].xattrs \/ Request(o, ops[o]).want_attrs
        /\ \A I, B, F : Request(o, ops[o]).need \subseteq I =>
             FineRead(Want(ops[o]), Request(o, ops[o]).need, Request(o, ops[o]), I,
                      NewResult, Holders(o), B, F)
    BY ONLY WireRight, <2>1, FineAsked
  <2> QED
    BY ONLY <2>1, <2>2, <2>3, <2>4
<1>4. want \in [D -> SUBSET (0 .. K + M - 1)] /\ t \in [D -> ReadRequest]
  BY <1>3
<1> HIDE DEF want, t, D
<1>5. /\ Started(rop, want, t) /\ rop.do_redundant_reads = FALSE
      /\ rop.for_recovery = TRUE
  <2>1. ASSUME NEW r, r = start_read_op(want, t, FALSE, TRUE)
        PROVE  /\ Started(r, want, t) /\ r.do_redundant_reads = FALSE
               /\ r.for_recovery = TRUE
    BY ONLY <1>2, <1>4, <2>1, StartReadOp
  <2> QED
    BY <2>1, Zenon
<1> HIDE DEF rop
<1>6. /\ \A F : FineAt(rop, AllHolders, unreadable, ops, F)
      /\ Objs(rop) = D
      /\ \A x \in Messages(next_tid, rop) : Asks(x, rop)
  <2>1. FineRequests(ops, want, t, AllHolders)
    BY ONLY <1>2, <1>3 DEF FineRequests
  <2>2. ASSUME NEW h, FineRequests(ops, want, t, h), NEW u, NEW F, NEW r, Started(r, want, t),
               r.do_redundant_reads = FALSE, r.for_recovery = TRUE
        PROVE  /\ FineAt(r, h, u, ops, F) /\ Objs(r) = D
               /\ \A x \in Messages(next_tid, r) : Asks(x, r)
    <3>1. DOMAIN t = D
      BY <1>2
    <3>2. FineAt(r, h, u, ops, F)
      BY ONLY <3>1, <2>2, FineStarted
    <3>3. Objs(r) = D
      BY ONLY <3>1, <2>2 DEF Started
    <3>4. \A x \in Messages(next_tid, r) : Asks(x, r)
      BY ONLY <3>1, <2>2, FineStarted
    <3> QED
      BY <3>2, <3>3, <3>4
  <2> QED
    BY ONLY <1>5, <2>1, <2>2
<1> QED
  BY <1>1, <1>6 DEF D

(* A read that starts leaves the others as they are.                       *)
LEMMA FineStarts ==
  ASSUME RecoveryInv, WireRight, FineInv, NEW ops, DOMAIN ops \subseteq Object,
         StartReads(ops), UNCHANGED <<missing, sources, unreadable, unforeseen>>,
         \A o \in DOMAIN ops :
           /\ ops[o] \in RecoveryOpType /\ ops[o].missing_on # {}
           /\ Request(o, ops[o]).need # {} /\ recovery_ops'[o] = ops[o]
           /\ AttrsKnown(ops[o]),
         \A t \in DOMAIN tid_to_read_map : \A o \in Objs(tid_to_read_map[t]) :
           recovery_ops'[o] = recovery_ops[o]
  PROVE  FineReads' /\ FineWire'
<1>0. PICK rop :
        /\ tid_to_read_map' = With(tid_to_read_map, [x \in {next_tid} |-> rop])
        /\ wire' = wire \cup Messages(next_tid, rop)
        /\ \A F : FineAt(rop, AllHolders, unreadable, ops, F)
        /\ Objs(rop) = DOMAIN ops /\ \A x \in Messages(next_tid, rop) : Asks(x, rop)
  <2>1. \A o \in DOMAIN ops : /\ ops[o] \in RecoveryOpType /\ ops[o].missing_on # {}
                             /\ Request(o, ops[o]).need # {} /\ AttrsKnown(ops[o])
    OBVIOUS
  <2>2. WireRight /\ StartReads(ops) /\ DOMAIN ops \subseteq Object
    OBVIOUS
  <2> QED
    BY ONLY <2>1, <2>2, FineDispatched
<1>1. /\ tid_to_read_map' = With(tid_to_read_map, [x \in {next_tid} |-> rop])
      /\ wire' = wire \cup Messages(next_tid, rop)
  BY <1>0
<1>2. /\ FineAt(rop, AllHolders, unreadable, ops, KindsOf(next_tid))
      /\ Objs(rop) = DOMAIN ops /\ \A x \in Messages(next_tid, rop) : Asks(x, rop)
  BY <1>0
<1>8. \A x : KindsOf(x)' = KindsOf(x)
  BY DEF KindsOf
<1>3. next_tid \in Nat /\ \A x \in DOMAIN tid_to_read_map : x < next_tid
  BY DEF RecoveryInv, ReadsRight
<1>4. /\ DOMAIN tid_to_read_map' = DOMAIN tid_to_read_map \cup {next_tid}
      /\ tid_to_read_map'[next_tid] = rop
      /\ \A x \in DOMAIN tid_to_read_map : tid_to_read_map'[x] = tid_to_read_map[x]
      /\ next_tid \notin DOMAIN tid_to_read_map
  BY <1>1, <1>3 DEF With
<1>5. AllHolders' = AllHolders /\ AllHolders \in [Object -> SUBSET PgShard]
  BY HoldersTyped DEF AllHolders, Holders, WireRight
<1>6. ASSUME NEW x \in DOMAIN tid_to_read_map'
      PROVE  Stands(tid_to_read_map'[x], AllHolders', unreadable', recovery_ops',
                    KindsOf(x)')
  <2>1. CASE x = next_tid
    <3>1. \A o \in Objs(rop) : recovery_ops'[o] = ops[o]
      BY <1>2
    <3>2. FineAt(rop, AllHolders, unreadable, recovery_ops', KindsOf(x))
      BY <1>2, <2>1, <3>1 DEF FineAt
    <3>3. Stands(rop, AllHolders, unreadable, recovery_ops', KindsOf(x))
      BY <3>2 DEF Stands
    <3> QED
      BY <1>4, <1>5, <1>8, <2>1, <3>3
  <2>2. CASE x \in DOMAIN tid_to_read_map
    <3> DEFINE old == tid_to_read_map[x]
    <3>1. Stands(old, AllHolders, unreadable, recovery_ops, KindsOf(x))
      BY <2>2 DEF FineInv, FineReads
    <3>2. \A o \in Objs(old) : recovery_ops'[o] = recovery_ops[o]
      BY <2>2
    <3> HIDE DEF old
    <3>3. Stands(old, AllHolders, unreadable, recovery_ops', KindsOf(x))
      BY <3>1, <3>2 DEF Stands, FineAt
    <3> QED
      BY <1>4, <1>5, <1>8, <2>2, <3>3 DEF old
  <2> QED
    BY <1>4, <2>1, <2>2
<1>7. ASSUME NEW m \in wire', m.tid \in DOMAIN tid_to_read_map'
      PROVE  \/ Damaged(tid_to_read_map'[m.tid])
             \/ Asks(m, tid_to_read_map'[m.tid])
  <2>1. CASE m \in wire
    <3>1. m.tid \in Nat /\ m.tid < next_tid
      BY <2>1 DEF WireRight, Sent
    <3>2. m.tid \in DOMAIN tid_to_read_map
      BY <1>3, <1>4, <1>7, <3>1
    <3> QED
      BY <1>4, <2>1, <3>2 DEF FineInv, FineWire
  <2>2. CASE m \in Messages(next_tid, rop)
    <3>1. m.tid = next_tid
      BY <2>2, MessagesSent
    <3> QED
      BY <1>2, <1>4, <2>2, <3>1
  <2> QED
    BY <1>1, <2>1, <2>2
<1> QED
  BY <1>6, <1>7 DEF FineReads, FineWire

(* The assertions of a read that stands so, when it is complete.           *)
LEMMA FineAssert ==
  ASSUME RecoveryInv, NEW rop, NEW h, NEW u, NEW F, Stands(rop, h, u, recovery_ops, F),
         Objs(rop) \subseteq DOMAIN recovery_ops,
         Damaged(rop) \/ rop.in_progress = {} \/ Objs(rop) = {}
  PROVE  Explained(ReadAssert(rop), F)
<1>1. Objs(rop) \subseteq Nat /\ recovering = DOMAIN recovery_ops
  BY DEF RecoveryInv, ReadsRight, Object
<1>2. CASE Damaged(rop) /\ "cancelled" \in F
  <2>1. CompleteAssert(rop) = "to_read.size()"
    BY <1>2 DEF CompleteAssert, Damaged, Objs
  <2>2. ReadAssert(rop) = "to_read.size()"
    BY <2>1 DEF ReadAssert
  <2> QED
    BY <1>2, <2>2 DEF Explained
<1>3. CASE FineAt(rop, h, u, recovery_ops, F)
  <2>1. Typed(rop) /\ ~Damaged(rop)
    BY <1>3, NotDamaged DEF FineAt, FineRop, Shape
  <2>2. CompleteAssert(rop) = ""
    BY <2>1 DEF CompleteAssert, Typed, Objs
  <2>3. ASSUME NEW o \in Objs(rop)
        PROVE  Explained(ObjectAssert(o, rop.complete[o]), F)
    <3> DEFINE want == rop.want_to_read[o]
    <3> DEFINE res == rop.complete[o]
    <3>1. FineRead(want, Asked(rop, o), rop.to_read[o], {}, res, h[o], Bad(u, o), F)
      <4>1. rop.in_progress = {} /\ FineObj(rop, o, h, u, F)
        BY <1>3, <2>1 DEF FineAt, FineRop
      <4> QED
        BY <4>1 DEF FineObj
    <3>2. want = Want(recovery_ops[o])
      BY <1>3 DEF FineAt
    <3>3. recovery_ops[o].xattrs \/ res.attrs \/ "attributes" \in F
      BY <1>3, <2>1 DEF FineAt, AttrsFine
    <3> HIDE DEF want, res
    <3>4. Good(res) => Decodable(want, res) \/ "repair" \in F
      BY ONLY <3>1, FineDecodes
    <3>5. o \in DOMAIN recovery_ops /\ o \in recovering
      BY <1>1
    <3>6. Explained(ObjectAssert(o, res), F)
      BY ONLY <3>2, <3>3, <3>4, <3>5 DEF ObjectAssert, Explained
    <3> QED
      BY <3>6 DEF res
  <2>4. Explained("", F)
    BY DEF Explained
  <2>5. \/ ReadAssert(rop) = ""
        \/ \E o \in Objs(rop) : ReadAssert(rop) = ObjectAssert(o, rop.complete[o])
    BY <1>1, <2>2, ReadAssertOf
  <2>6. ASSUME NEW o \in Objs(rop), ReadAssert(rop) = ObjectAssert(o, rop.complete[o])
        PROVE  Explained(ReadAssert(rop), F)
    BY <2>3, <2>6
  <2> QED
    BY <2>4, <2>5, <2>6
<1> QED
  BY <1>2, <1>3 DEF Stands

(* What complete_read_op leaves of holders: those that gave errors for an  *)
(* object of the read are gone.                                            *)
LEMMA CompleteHolders ==
  ASSUME NEW tid, NEW from, NEW rop, complete_read_op(tid, from, rop), StoreTyped,
         SourcesRight, NEW o \in Object
  PROVE  AllHolders'[o] \subseteq AllHolders[o]
<1>1. \A p \in Acting : missing[p] \subseteq missing'[p]
  BY DEF complete_read_op
<1>2. sources'[o] \subseteq sources[o]
  BY DEF complete_read_op
<1> QED
  BY <1>1, <1>2 DEF AllHolders, Holders

(* What an assertion that fails is explained by, of what its read met.     *)
LEMMA AssertsFine ==
  ASSUME NEW x, NEW F, Explained(x, F), NEW tid, NEW more, asserted' = x,
         unforeseen' = StillOpen(unforeseen \cup more),
         \A k \in F : k \in KindsOf(tid) \/ <<tid, k>> \in more
  PROVE  AssertFine'
<1>1. CASE asserted' = ""
  BY <1>1 DEF AssertFine, Explained
<1>2. CASE asserted' # ""
  <2>1. /\ MetKinds \subseteq MetKinds' /\ KindsOf(tid) \subseteq MetKinds
        /\ \A t, k : <<t, k>> \in more => k \in MetKinds'
    BY <1>2, KindsKept
  <2>2. F \subseteq MetKinds'
    BY <2>1
  <2> DEFINE met == MetKinds'
  <2> HIDE DEF met
  <2>3. F \subseteq met
    BY <2>2 DEF met
  <2>4. Explained(x, met)
    BY <2>3, MoreExplains
  <2>5. Explained(asserted', MetKinds')
    BY <2>4 DEF met
  <2> QED
    BY <2>5 DEF AssertFine
<1> QED
  BY <1>1, <1>2

(* A read that completes leaves the others as they are.                    *)
LEMMA FineCompletes ==
  ASSUME RecoveryInv, WireRight, FineInv, NEW tid \in DOMAIN tid_to_read_map, NEW from,
         NEW rop, complete_read_op(tid, from, rop),
         Objs(rop) = Objs(tid_to_read_map[tid]),
         NEW h, NEW u, NEW F, Stands(rop, h, u, recovery_ops, F),
         Damaged(rop) \/ rop.in_progress = {} \/ Objs(rop) = {},
         NEW more, unforeseen' = StillOpen(unforeseen \cup more),
         \A k \in F : k \in KindsOf(tid) \/ <<tid, k>> \in more,
         unreadable \subseteq unreadable',
         \A m \in wire' : m \in wire \/ m.tid = tid
  PROVE  FineInv'
<1>1. /\ DOMAIN tid_to_read_map' = DOMAIN tid_to_read_map \ {tid}
      /\ \A t \in DOMAIN tid_to_read_map' : tid_to_read_map'[t] = tid_to_read_map[t]
      /\ \A x \in DOMAIN recovery_ops \ Objs(rop) : recovery_ops'[x] = recovery_ops[x]
  BY CompleteParts DEF Completes
<1>2. asserted' = ReadAssert(rop)
  BY DEF complete_read_op
<1>3. Objs(rop) \subseteq DOMAIN recovery_ops
  BY DEF RecoveryInv, ReadsRight
<1>4. AssertFine'
  <2>1. Explained(ReadAssert(rop), F)
    BY <1>3, FineAssert
  <2> QED
    BY <1>2, <2>1, AssertsFine
<1>5. \A o \in Object : AllHolders'[o] \subseteq AllHolders[o]
  BY CompleteHolders DEF RecoveryInv, WireRight
<1>6. AllHolders \in [Object -> SUBSET PgShard]
  BY HoldersTyped DEF WireRight
<1>10. \A t \in DOMAIN tid_to_read_map' : KindsOf(t) \subseteq KindsOf(t)'
  BY KindsKept
<1>7. ASSUME NEW t \in DOMAIN tid_to_read_map'
      PROVE  Stands(tid_to_read_map'[t], AllHolders', unreadable', recovery_ops',
                    KindsOf(t)')
  <2> DEFINE old == tid_to_read_map[t]
  <2>1. tid_to_read_map'[t] = old /\ t # tid /\ t \in DOMAIN tid_to_read_map
    BY <1>1
  <2>2. Stands(old, AllHolders, unreadable, recovery_ops, KindsOf(t))
    BY <2>1 DEF FineInv, FineReads
  <2>3. ASSUME NEW o \in Objs(old)
        PROVE  /\ AllHolders'[o] \subseteq AllHolders[o]
               /\ Bad(unreadable, o) \subseteq Bad(unreadable', o)
               /\ recovery_ops'[o] = recovery_ops[o]
    <3>1. o \in DOMAIN recovery_ops /\ o \in Object /\ o \notin Objs(rop)
      BY <2>1 DEF RecoveryInv, ReadsRight
    <3>2. recovery_ops'[o] = recovery_ops[o]
      BY <1>1, <3>1
    <3>3. Bad(unreadable, o) \subseteq Bad(unreadable', o)
      BY DEF Bad
    <3> QED
      BY <1>5, <3>1, <3>2, <3>3
  <2>6. KindsOf(t) \subseteq KindsOf(t)'
    BY <1>10
  <2> HIDE DEF old
  <2> DEFINE h2 == AllHolders'
  <2> DEFINE u2 == unreadable'
  <2> DEFINE ops2 == recovery_ops'
  <2> DEFINE F2 == KindsOf(t)'
  <2>4. /\ \A o \in Objs(old) : /\ h2[o] \subseteq AllHolders[o]
                                /\ Bad(unreadable, o) \subseteq Bad(u2, o)
                                /\ ops2[o] = recovery_ops[o]
        /\ KindsOf(t) \subseteq F2
    BY <2>3, <2>6
  <2> HIDE DEF h2, u2, ops2, F2
  <2>5. Stands(old, h2, u2, ops2, F2)
    BY ONLY <1>6, <2>2, <2>4, StandsStill
  <2> QED
    BY <2>1, <2>5 DEF h2, u2, ops2, F2
<1>8. ASSUME NEW m \in wire', m.tid \in DOMAIN tid_to_read_map'
      PROVE  \/ Damaged(tid_to_read_map'[m.tid])
             \/ Asks(m, tid_to_read_map'[m.tid])
  <2>1. m \in wire /\ m.tid \in DOMAIN tid_to_read_map
    BY <1>1, <1>8
  <2> QED
    BY <1>1, <1>8, <2>1 DEF FineInv, FineWire
<1>9. FineReads' /\ FineWire'
  BY <1>7, <1>8 DEF FineReads, FineWire
<1> QED
  BY <1>4, <1>9 DEF FineInv

(* The completion that filter_read_op queued.                              *)
LEMMA FineFinish ==
  ASSUME RecoveryInv, WireRight, FineInv, NEW tid \in finishing, FinishReadOp(tid)
  PROVE  FineInv'
<1> DEFINE rop == tid_to_read_map[tid]
<1>1. tid \in DOMAIN tid_to_read_map /\ rop.in_progress = {}
  BY DEF RecoveryInv, ReadsRight
<1>2. /\ complete_read_op(tid, {}, rop) /\ wire' = wire /\ unreadable' = unreadable
      /\ unforeseen' = StillOpen(unforeseen)
  BY Zenon DEF FinishReadOp
<1>3. Stands(rop, AllHolders, unreadable, recovery_ops, KindsOf(tid))
  BY <1>1 DEF FineInv, FineReads
<1> HIDE DEF rop
<1>4. Objs(rop) = Objs(tid_to_read_map[tid])
  BY DEF rop
<1>5. /\ unreadable \subseteq unreadable' /\ \A m \in wire' : m \in wire \/ m.tid = tid
  BY <1>2
<1>6. rop.in_progress = {}
  BY <1>1 DEF rop
<1>7. unforeseen' = StillOpen(unforeseen \cup {})
  <2>1. unforeseen \cup {} = unforeseen
    OBVIOUS
  <2> QED
    BY <1>2, <2>1
<1>8. \A k \in KindsOf(tid) : k \in KindsOf(tid) \/ <<tid, k>> \in {}
  OBVIOUS
<1> QED
  BY <1>1, <1>2, <1>3, <1>4, <1>5, <1>6, <1>7, <1>8, FineCompletes

(* A message asks what its read needs when it is sent.                     *)
LEMMA FineMessages ==
  ASSUME NEW tid, NEW rop, Typed(rop), NEW x \in Messages(tid, rop)
  PROVE  Asks(x, rop) /\ x.tid = tid
<1>1. /\ x.tid = tid /\ x.to \in Needed(rop)
      /\ x.objects = {o \in Objs(rop) : x.to \in rop.to_read[o].need}
      /\ x.sub = {o \in x.objects : rop.to_read[o].sub}
  BY MessagesSent
<1>2. Needed(rop) \subseteq PgShard
  BY TypedFields DEF Needed
<1>3. x.attrs = {o \in Objs(rop) : /\ rop.to_read[o].want_attrs
                                   /\ rop.to_read[o].need # {}
                                   /\ x.to = FirstOf(rop.to_read[o].need)}
  BY AttrsAsked
<1> QED
  BY ONLY <1>1, <1>2, <1>3 DEF Asks

(* The other messages of a read are from shards that it still waits for.   *)
LEMMA OthersWaited ==
  ASSUME WireRight, NEW m \in wire, NEW n \in wire, n.tid = m.tid, n # m,
         m.tid \in DOMAIN tid_to_read_map
  PROVE  n.to \in tid_to_read_map[m.tid].in_progress \ {m.to}
<1>1. <<n.to, m.tid>> \in shard_to_read_map
  BY DEF WireRight, Sent
<1>2. \A s \in shard_to_read_map :
        s[2] = m.tid => s[1] \in tid_to_read_map[m.tid].in_progress
  BY DEF WireRight, Waiting
<1>3. <<n.to, m.tid>>[1] = n.to /\ <<n.to, m.tid>>[2] = m.tid
  OBVIOUS
<1>4. n.to # m.to
  BY DEF WireRight
<1> QED
  BY <1>1, <1>2, <1>3, <1>4

(* A read that goes on after a reply: its messages ask what it needs then. *)
LEMMA FineReplies ==
  ASSUME RecoveryInv, WireRight, FineInv, NEW m \in wire,
         m.tid \in DOMAIN tid_to_read_map,
         NEW new, NEW F, Stands(new, AllHolders, unreadable', recovery_ops, F),
         \/ Damaged(new)
         \/ /\ Typed(new) /\ ~Damaged(tid_to_read_map[m.tid])
            /\ \/ tid_to_read_map[m.tid].in_progress \ {m.to} = {}
               \/ new.to_read = tid_to_read_map[m.tid].to_read,
         tid_to_read_map' = [tid_to_read_map EXCEPT ![m.tid] = new],
         \A x \in wire' : x \in wire \ {m} \/ x \in Messages(m.tid, new),
         UNCHANGED <<missing, sources, recovery_ops>>, unreadable \subseteq unreadable',
         NEW a, asserted' = a, Explained(a, F),
         NEW more, unforeseen' = StillOpen(unforeseen \cup more), F \subseteq Kinds,
         \A k \in F : k \in KindsOf(m.tid) \/ <<m.tid, k>> \in more
  PROVE  FineInv'
<1>1. /\ DOMAIN tid_to_read_map' = DOMAIN tid_to_read_map
      /\ \A t \in DOMAIN tid_to_read_map :
           tid_to_read_map'[t] = IF t = m.tid THEN new ELSE tid_to_read_map[t]
  OBVIOUS
<1>2. AllHolders' = AllHolders /\ AllHolders \in [Object -> SUBSET PgShard]
  <2>1. missing' = missing /\ sources' = sources
    OBVIOUS
  <2> QED
    BY ONLY <2>1, WireRight, HoldersTyped DEF AllHolders, Holders, WireRight
<1>6. /\ \A t \in DOMAIN tid_to_read_map' : KindsOf(t) \subseteq KindsOf(t)'
      /\ F \subseteq KindsOf(m.tid)'
  <2>1. \A t \in DOMAIN tid_to_read_map' : KindsOf(t) \subseteq KindsOf(t)'
    BY KindsKept
  <2>2. \A t, k : t \in DOMAIN tid_to_read_map' /\ <<t, k>> \in more /\ k \in Kinds
                    => k \in KindsOf(t)'
    BY KindsKept
  <2>3. m.tid \in DOMAIN tid_to_read_map'
    BY <1>1
  <2> QED
    BY <2>1, <2>2, <2>3
<1>3. ASSUME NEW t \in DOMAIN tid_to_read_map'
      PROVE  Stands(tid_to_read_map'[t], AllHolders', unreadable', recovery_ops',
                    KindsOf(t)')
  <2> DEFINE u2 == unreadable'
  <2> DEFINE F2 == KindsOf(t)'
  <2>1. CASE t = m.tid
    <3>1. F \subseteq F2 /\ Stands(new, AllHolders, u2, recovery_ops, F)
      BY <1>6, <2>1
    <3> HIDE DEF u2, F2
    <3>2. Stands(new, AllHolders, u2, recovery_ops, F2)
      BY ONLY <1>2, <3>1, StandsStill
    <3> QED
      BY <1>1, <1>2, <2>1, <3>2 DEF u2, F2
  <2>2. CASE t # m.tid
    <3> DEFINE old == tid_to_read_map[t]
    <3>1. Stands(old, AllHolders, unreadable, recovery_ops, KindsOf(t))
      BY <1>1 DEF FineInv, FineReads
    <3>2. (\A o : Bad(unreadable, o) \subseteq Bad(u2, o)) /\ KindsOf(t) \subseteq F2
      BY <1>6 DEF Bad
    <3> HIDE DEF old, u2, F2
    <3>3. Stands(old, AllHolders, u2, recovery_ops, F2)
      BY ONLY <1>2, <3>1, <3>2, StandsStill
    <3> QED
      BY <1>1, <1>2, <2>2, <3>3 DEF old, u2, F2
  <2> QED
    BY <2>1, <2>2
<1>4. ASSUME NEW x \in wire', x.tid \in DOMAIN tid_to_read_map'
      PROVE  \/ Damaged(tid_to_read_map'[x.tid])
             \/ Asks(x, tid_to_read_map'[x.tid])
  <2>1. CASE x \in Messages(m.tid, new)
    <3>1. x.tid = m.tid
      BY ONLY <2>1, MessagesSent
    <3>2. Typed(new) => Asks(x, new)
      BY ONLY <2>1, FineMessages
    <3> QED
      BY <1>1, <3>1, <3>2
  <2>2. CASE x \in wire /\ x # m
    <3>1. \/ Damaged(tid_to_read_map[x.tid])
          \/ Asks(x, tid_to_read_map[x.tid])
      BY <1>1, <1>4, <2>2 DEF FineInv, FineWire
    <3>2. CASE x.tid # m.tid
      BY <1>1, <1>4, <3>1, <3>2
    <3>3. CASE x.tid = m.tid /\ ~Damaged(new)
      <4>1. new.to_read = tid_to_read_map[m.tid].to_read
        BY <2>2, <3>3, OthersWaited
      <4>2. Asks(x, new)
        BY <3>1, <3>3, <4>1 DEF Asks, Objs
      <4> QED
        BY <1>1, <3>3, <4>2
    <3>4. CASE x.tid = m.tid /\ Damaged(new)
      BY <1>1, <3>4
    <3> QED
      BY <3>2, <3>3, <3>4
  <2> QED
    BY <2>1, <2>2
<1>5. FineReads' /\ FineWire' /\ AssertFine'
  <2>1. FineReads' /\ FineWire'
    BY <1>3, <1>4 DEF FineReads, FineWire
  <2>2. AssertFine'
    BY AssertsFine
  <2> QED
    BY <2>1, <2>2
<1> QED
  BY <1>5 DEF FineInv

(* What a reply leaves of its read.                                        *)
FineReplied(rop, m, u, ops, e, F) ==
  /\ Explained(e.assert, F) /\ Stands(e.rop, AllHolders, u, ops, F)
  /\ Objs(e.rop) = Objs(rop)
  /\ \/ Damaged(e.rop)
     \/ /\ Typed(e.rop) /\ ~Damaged(rop)
        /\ rop.in_progress \ {m.to} = {} \/ e.rop.to_read = rop.to_read
        /\ Finished(e) => e.rop.in_progress = {} \/ Objs(e.rop) = {}

(* An error for an object that was cancelled damages the read for good.    *)
LEMMA DamagedReplied ==
  ASSUME NEW rop, RopRight(rop), NEW m, m.to \in PgShard, NEW bad,
         \/ Damaged(rop)
         \/ Typed(rop) /\ ~(bad \subseteq Objs(rop)),
         NEW F, "cancelled" \in F, NEW u, NEW ops
  PROVE  FineReplied(rop, m, u, ops, Evaluated(Received(rop, m, bad), AllHolders), F)
<1> SUFFICES ASSUME NEW got, got = Received(rop, m, bad),
                    NEW e, e = Evaluated(got, AllHolders)
             PROVE  FineReplied(rop, m, u, ops, e, F)
  OBVIOUS
<1>1. RopRight(got) /\ Objs(got) = Objs(rop)
  BY ReceivedRight DEF SameObjects
<1>2. Damaged(got)
  BY DamagedReceived
<1>3. Objs(e.rop) = Objs(rop) /\ e.assert \in {""} \cup LoopAsserts
  BY <1>1, EvaluatedRight DEF SameObjects
<1>4. Damaged(e.rop)
  BY <1>1, <1>2, DamagedEvaluated
<1>5. Explained(e.assert, F)
  <2>1. e.assert \in {"", "to_read.size()"} \cup LoopAsserts
    BY <1>3
  <2> QED
    BY <2>1, CancelledExplains
<1> QED
  BY <1>3, <1>4, <1>5 DEF FineReplied, Stands

(* A reply of a holder, with or without errors for what is still to read.  *)
LEMMA FineReplyRead ==
  ASSUME WireRight, NEW rop, RopRight(rop), NEW u, NEW F, NEW ops,
         FineAt(rop, AllHolders, u, ops, F), NEW m, Asks(m, rop),
         NEW bad \in SUBSET m.objects, bad \subseteq Objs(rop),
         NEW F2, F \subseteq F2,
         \A o \in Objs(rop) : Meets(rop.want_to_read[o], F, F2, o, m.to, m.objects, bad,
                                    AllHolders[o], Bad(u, o)),
         bad \cap m.attrs # {} => "attributes" \in F2,
         NEW u2, u2 = u \cup ({m.to} \X bad)
  PROVE  FineReplied(rop, m, u2, ops, Evaluated(Received(rop, m, bad), AllHolders), F2)
<1> SUFFICES ASSUME NEW got, got = Received(rop, m, bad),
                    NEW e, e = Evaluated(got, AllHolders)
             PROVE  FineReplied(rop, m, u2, ops, e, F2)
  OBVIOUS
<1>1. AllHolders \in [Object -> SUBSET PgShard]
  BY HoldersTyped DEF WireRight
<1>2. FineRop(rop, AllHolders, u, F) /\ Typed(rop)
  BY DEF FineAt, FineRop, Shape
<1>3. /\ FineRop(got, AllHolders, u2, F2) /\ Objs(got) = Objs(rop)
      /\ got.want_to_read = rop.want_to_read /\ got.to_read = rop.to_read
      /\ got.in_progress = rop.in_progress \ {m.to}
  <2> DEFINE h == AllHolders
  <2>1. /\ h \in [Object -> SUBSET PgShard] /\ FineRop(rop, h, u, F)
        /\ \A o \in Objs(rop) : Meets(rop.want_to_read[o], F, F2, o, m.to, m.objects, bad,
                                      h[o], Bad(u, o))
    BY <1>1, <1>2
  <2> HIDE DEF h
  <2>2. Asks(m, rop) /\ bad \in SUBSET m.objects /\ bad \subseteq Objs(rop)
        /\ u2 = u \cup ({m.to} \X bad) /\ F \subseteq F2
    OBVIOUS
  <2>3. ReplyTaken(rop, Received(rop, m, bad), m, h, u2, F2)
    BY ONLY <2>1, <2>2, FineReceived
  <2> QED
    BY <2>3 DEF h, ReplyTaken
<1>4. /\ LoopExplained(e.assert, F2) /\ FineRop(e.rop, AllHolders, u2, F2)
      /\ KeptRop(got, NObjects, e.rop, AllHolders)
      /\ Finished(e) => e.rop.in_progress = {} \/ Objs(e.rop) = {}
      /\ got.in_progress # {} => e.rop = got
  <2>1. ASSUME NEW h \in [Object -> SUBSET PgShard], FineRop(got, h, u2, F2),
               NEW f, f = Evaluated(got, h)
        PROVE  /\ LoopExplained(f.assert, F2) /\ FineRop(f.rop, h, u2, F2)
               /\ KeptRop(got, NObjects, f.rop, h)
               /\ Finished(f) => f.rop.in_progress = {} \/ Objs(f.rop) = {}
               /\ got.in_progress # {} => f.rop = got
    BY ONLY <2>1, FineEvaluated
  <2> QED
    BY ONLY <1>1, <1>3, <2>1, e = Evaluated(got, AllHolders)
<1>5. /\ Objs(e.rop) = Objs(rop) /\ e.rop.want_to_read = rop.want_to_read
      /\ Typed(e.rop)
  BY <1>3, <1>4 DEF KeptRop, Shape
<1>8. ASSUME NEW o \in Objs(rop) PROVE AttrsFine(e.rop, o, ops[o].xattrs, F2)
  <2>1. AttrsFine(rop, o, ops[o].xattrs, F)
    BY DEF FineAt
  <2>2. o \in bad \cap m.attrs => "attributes" \in F2
    OBVIOUS
  <2>3. AttrsFine(got, o, ops[o].xattrs, F2)
    <3>1. ASSUME NEW x, AttrsFine(rop, o, x, F) PROVE AttrsFine(got, o, x, F2)
      BY <1>2, <1>3, <2>2, <3>1, AttrsReceived
    <3> QED
      BY <2>1, <3>1
  <2>4. ASSUME NEW x, AttrsFine(got, o, x, F2) PROVE AttrsFine(e.rop, o, x, F2)
    <3>1. o \in Objs(got)
      BY <1>3
    <3> QED
      BY ONLY <1>4, <2>4, <3>1, AttrsEvaluated
  <2> QED
    BY <2>3, <2>4
<1>6. FineAt(e.rop, AllHolders, u2, ops, F2)
  BY <1>4, <1>5, <1>8 DEF FineAt
<1>7. rop.in_progress \ {m.to} = {} \/ e.rop.to_read = rop.to_read
  BY ONLY <1>3, <1>4
<1>9. Explained(e.assert, F2)
  BY <1>4, LoopExplains
<1>10. ~Damaged(rop)
  BY <1>2, NotDamaged
<1> QED
  BY ONLY <1>4, <1>5, <1>6, <1>7, <1>9, <1>10 DEF FineReplied, Stands

(* The kinds of errors that are counted are those that a read may meet.    *)
LEMMA UnforeseenMeets ==
  ASSUME NEW rop, Typed(rop), NEW m, NEW bad, NEW again, NEW F, NEW F2,
         F2 = F \cup Unforeseen(rop, m, bad, again), NEW o \in Objs(rop)
  PROVE  /\ Meets(rop.want_to_read[o], F, F2, o, m.to, m.objects, bad,
                  AllHolders[o], Bad(unreadable, o))
         /\ bad \cap m.attrs # {} => "attributes" \in F2
<1>1. o \in DOMAIN rop.to_read /\ AllHolders[o] = Holders(o)
  BY DEF Typed, Objs, AllHolders
<1>2. o \in bad /\ Single(rop.want_to_read[o]) => "repair" \in F2
  BY <1>1 DEF Single, Unforeseen, Kinds
<1>3. o \in bad /\ (\E p \in AllHolders[o] : p # m.to /\ p[2] = m.to[2]) => "copy" \in F2
  BY <1>1 DEF Unforeseen, Kinds
<1>4. o \in m.objects /\ m.to \in Bad(unreadable, o) /\ o \notin bad => "transient" \in F2
  BY DEF Unforeseen, Kinds, Bad
<1>5. bad \cap m.attrs # {} => "attributes" \in F2
  BY DEF Unforeseen, Kinds
<1> QED
  BY <1>2, <1>3, <1>4, <1>5 DEF Meets

(* handle_sub_read_reply.                                                  *)
LEMMA FineReply ==
  ASSUME RecoveryInv, WireRight, FineInv,
         NEW m \in wire, NEW bad \in SUBSET m.objects, handle_sub_read_reply(m, bad)
  PROVE  FineInv'
<1> DEFINE rop == tid_to_read_map[m.tid]
<1> DEFINE e == Evaluated(Received(rop, m, bad), AllHolders)
<1> DEFINE again == IF Received(rop, m, bad).in_progress = {} THEN e.rop.in_progress
                    ELSE {}
<1> DEFINE met == Unforeseen(rop, m, bad, again)
<1> DEFINE F == KindsOf(m.tid)
<1> DEFINE F2 == F \cup met
<1> DEFINE more == {m.tid} \X met
<1>1. /\ m.tid \in DOMAIN tid_to_read_map /\ <<m.to, m.tid>> \in shard_to_read_map
      /\ unreadable' = unreadable \cup ({m.to} \X bad)
  BY DEF handle_sub_read_reply
<1>2. wire' = (wire \ {m})
                \cup {x \in Messages(m.tid, e.rop) : again # {} /\ x.to \notin down}
  BY DEF handle_sub_read_reply
<1>3. \/ Finished(e) /\ complete_read_op(m.tid, {m.to}, e.rop)
      \/ /\ asserted' = e.assert
         /\ tid_to_read_map' = [tid_to_read_map EXCEPT ![m.tid] = e.rop]
         /\ UNCHANGED <<recovery_ops, missing, sources>>
  BY DEF handle_sub_read_reply, viewVars
<1>10. unforeseen' = StillOpen(unforeseen \cup more)
  BY DEF handle_sub_read_reply
<1> HIDE DEF again
<1>11. Stands(rop, AllHolders, unreadable, recovery_ops, F)
       /\ (Damaged(rop) \/ Asks(m, rop)) /\ RopRight(rop) /\ m.to \in PgShard
  <2>1. Stands(rop, AllHolders, unreadable, recovery_ops, F)
        /\ (Damaged(rop) \/ Asks(m, rop)) /\ RopRight(rop)
    BY <1>1 DEF FineInv, FineReads, FineWire, RecoveryInv, ReadsRight
  <2>2. Waiting(<<m.to, m.tid>>)
    BY <1>1 DEF WireRight
  <2> QED
    BY <2>1, <2>2 DEF Waiting
<1>12. F2 \subseteq Kinds /\ \A k \in F2 : k \in KindsOf(m.tid) \/ <<m.tid, k>> \in more
  BY DEF KindsOf, Unforeseen
<1> HIDE DEF rop, F, F2, met, more
<1>6. FineReplied(rop, m, unreadable', recovery_ops, e, F2)
  <2> DEFINE u2 == unreadable'
  <2>1. CASE Damaged(rop) /\ "cancelled" \in F
    <3>1. "cancelled" \in F2
      BY <2>1 DEF F2
    <3> HIDE DEF u2
    <3>2. FineReplied(rop, m, u2, recovery_ops, e, F2)
      BY <1>11, <2>1, <3>1, DamagedReplied
    <3> QED
      BY <3>2 DEF u2
  <2>2. CASE FineAt(rop, AllHolders, unreadable, recovery_ops, F)
    <3>1. Typed(rop) /\ ~Damaged(rop)
      BY <2>2, NotDamaged DEF FineAt, FineRop, Shape
    <3>2. CASE ~(bad \subseteq Objs(rop))
      <4>1. "cancelled" \in F2
        BY <3>2 DEF F2, met, Unforeseen, Kinds, Objs
      <4> HIDE DEF u2
      <4>2. FineReplied(rop, m, u2, recovery_ops, e, F2)
        BY <1>11, <3>1, <3>2, <4>1, DamagedReplied
      <4> QED
        BY <4>2 DEF u2
    <3>3. CASE bad \subseteq Objs(rop)
      <4>1. F2 = F \cup Unforeseen(rop, m, bad, again) /\ F \subseteq F2
        BY DEF F2, met
      <4>2. \A o \in Objs(rop) :
              Meets(rop.want_to_read[o], F, F2, o, m.to, m.objects, bad,
                    AllHolders[o], Bad(unreadable, o))
        BY ONLY <3>1, <4>1, UnforeseenMeets
      <4>3. bad \cap m.attrs # {} => "attributes" \in F2
        BY <4>1 DEF Unforeseen, Kinds
      <4>4. u2 = unreadable \cup ({m.to} \X bad) /\ Asks(m, rop)
        BY <1>1, <1>11, <3>1
      <4> HIDE DEF u2
      <4>5. FineReplied(rop, m, u2, recovery_ops, e, F2)
        BY <1>11, <2>2, <3>3, <4>1, <4>2, <4>3, <4>4, FineReplyRead
      <4> QED
        BY <4>5 DEF u2
    <3> QED
      BY <3>2, <3>3
  <2> QED
    BY <1>11, <2>1, <2>2 DEF Stands
<1> HIDE DEF e
<1>7. unreadable \subseteq unreadable'
  BY <1>1
<1>8. CASE Finished(e) /\ complete_read_op(m.tid, {m.to}, e.rop)
  <2>1. /\ Stands(e.rop, AllHolders, unreadable', recovery_ops, F2)
        /\ Objs(e.rop) = Objs(tid_to_read_map[m.tid])
        /\ Damaged(e.rop) \/ e.rop.in_progress = {} \/ Objs(e.rop) = {}
    BY <1>6, <1>8 DEF FineReplied, rop
  <2>2. \A x \in wire' : x \in wire \/ x.tid = m.tid
    BY <1>2, MessagesSent
  <2>3. ASSUME NEW h, NEW u, Stands(e.rop, h, u, recovery_ops, F2) PROVE FineInv'
    BY <1>1, <1>7, <1>8, <1>10, <1>12, <2>1, <2>2, <2>3, FineCompletes
  <2> QED
    BY <2>1, <2>3
<1>9. CASE /\ asserted' = e.assert
           /\ tid_to_read_map' = [tid_to_read_map EXCEPT ![m.tid] = e.rop]
           /\ UNCHANGED <<recovery_ops, missing, sources>>
  <2>1. /\ Stands(e.rop, AllHolders, unreadable', recovery_ops, F2)
        /\ Explained(e.assert, F2)
        /\ \/ Damaged(e.rop)
           \/ /\ Typed(e.rop) /\ ~Damaged(tid_to_read_map[m.tid])
              /\ \/ tid_to_read_map[m.tid].in_progress \ {m.to} = {}
                 \/ e.rop.to_read = tid_to_read_map[m.tid].to_read
    BY <1>6 DEF FineReplied, rop
  <2>2. \A x \in wire' : x \in wire \ {m} \/ x \in Messages(m.tid, e.rop)
    BY <1>2
  <2> QED
    BY <1>1, <1>7, <1>9, <1>10, <1>12, <2>1, <2>2, FineReplies
<1> QED
  BY <1>3, <1>8, <1>9

(* filter_read_op takes the cancelled objects out and leaves the others as *)
(* they are.                                                               *)
Filtered(rop, S, C, i) ==
  /\ Typed(S) /\ Objs(S) = Objs(rop) \ C
  /\ S.want_to_read = rop.want_to_read
  /\ S.do_redundant_reads = rop.do_redundant_reads
  /\ S.for_recovery = rop.for_recovery /\ S.in_progress = i
  /\ S.source_to_obj = {x \in rop.source_to_obj : x[2] \notin C}
  /\ \A o : Asked(S, o) = Asked(rop, o)
  /\ \A o \in Objs(rop) \ C : /\ S.to_read[o] = rop.to_read[o]
                              /\ S.complete[o] = rop.complete[o]
Sources(rop, gone) == {p \in gone : \E o \in Object : <<p, o>> \in rop.source_to_obj}

(* The fields that it changes.                                             *)
LEMMA FilteredFields ==
  ASSUME NEW rop, Typed(rop), NEW gone
  PROVE  Filtered(rop, filter_read_op(rop, gone), Cancelled(rop, gone),
                  rop.in_progress \ Sources(rop, gone))
<1> DEFINE C == Cancelled(rop, gone)
<1> DEFINE i == rop.in_progress \ Sources(rop, gone)
<1> DEFINE s == {x \in rop.source_to_obj : x[2] \notin C}
<1> DEFINE t == [o \in Objs(rop) \ C |-> rop.to_read[o]]
<1> DEFINE c == [o \in Objs(rop) \ C |-> rop.complete[o]]
<1> DEFINE S == filter_read_op(rop, gone)
<1>1. DOMAIN rop.complete = Objs(rop) /\ rop \in ReadOp
  BY DEF Typed
<1>2. S = [rop EXCEPT !.in_progress = i, !.source_to_obj = s, !.to_read = t,
                      !.complete = c]
  BY <1>1 DEF filter_read_op, Sources, Objs
<1>3. /\ t \in [Objs(rop) \ C -> ReadRequest] /\ c \in [Objs(rop) \ C -> Result]
      /\ Objs(rop) \ C \in SUBSET Object
      /\ i \in SUBSET PgShard /\ s \in SUBSET (PgShard \X Object)
  BY TypedFields
<1>4. DOMAIN t = Objs(rop) \ C /\ DOMAIN c = Objs(rop) \ C
  OBVIOUS
<1>5. \A o \in Objs(rop) \ C : t[o] = rop.to_read[o] /\ c[o] = rop.complete[o]
  OBVIOUS
<1> HIDE DEF C, i, s, t, c, S
<1>6. S \in ReadOp
  <2>1. t \in UNION {[X -> ReadRequest] : X \in SUBSET Object}
    BY ONLY <1>3
  <2>2. c \in UNION {[X -> Result] : X \in SUBSET Object}
    BY ONLY <1>3
  <2> QED
    BY ONLY <1>1, <1>2, <1>3, <2>1, <2>2 DEF ReadOp
<1>7. /\ S.want_to_read = rop.want_to_read /\ S.to_read = t /\ S.complete = c
      /\ S.do_redundant_reads = rop.do_redundant_reads
      /\ S.for_recovery = rop.for_recovery
      /\ S.in_progress = i /\ S.source_to_obj = s
      /\ S.obj_to_source = rop.obj_to_source
  BY ONLY <1>1, <1>2, ReadOpRecord
<1>8. Objs(S) = Objs(rop) \ C
  BY <1>4, <1>7 DEF Objs
<1>9. Objs(rop) \subseteq DOMAIN rop.want_to_read /\ Objs(rop) \subseteq Object
  BY DEF Typed
<1>10. Typed(S)
  BY ONLY <1>3, <1>4, <1>6, <1>7, <1>8, <1>9 DEF Typed
<1>11. \A o : Asked(S, o) = Asked(rop, o)
  BY ONLY <1>7 DEF Asked
<1>12. S.source_to_obj = {x \in rop.source_to_obj : x[2] \notin C}
  BY <1>7 DEF s
<1>13. Filtered(rop, S, C, i)
  BY ONLY <1>5, <1>7, <1>8, <1>10, <1>11, <1>12 DEF Filtered
<1> QED
  BY <1>13 DEF S, C, i

(* An object that is left has no source that is gone, so that it waits for *)
(* the shards it waited for.                                               *)
LEMMA FineFiltered ==
  ASSUME NEW rop, NEW h \in [Object -> SUBSET PgShard], NEW u, NEW F, NEW ops,
         FineAt(rop, h, u, ops, F), NEW gone
  PROVE  /\ FineAt(filter_read_op(rop, gone), h, u, ops, F)
         /\ \A m : Asks(m, rop) => Asks(m, filter_read_op(rop, gone))
<1> SUFFICES ASSUME NEW S, S = filter_read_op(rop, gone)
             PROVE  FineAt(S, h, u, ops, F) /\ \A m : Asks(m, rop) => Asks(m, S)
  OBVIOUS
<1> DEFINE C == Cancelled(rop, gone)
<1> DEFINE i == rop.in_progress \ Sources(rop, gone)
<1>1. Typed(rop) /\ FineRop(rop, h, u, F) /\ Linked(rop)
  BY DEF FineAt, FineRop, Shape
<1>2. Filtered(rop, S, C, i)
  BY <1>1, FilteredFields
<1>3. /\ Typed(S) /\ Objs(S) = Objs(rop) \ C
      /\ S.want_to_read = rop.want_to_read
      /\ S.do_redundant_reads = rop.do_redundant_reads
      /\ S.for_recovery = rop.for_recovery /\ S.in_progress = i
      /\ S.source_to_obj = {x \in rop.source_to_obj : x[2] \notin C}
      /\ \A o : Asked(S, o) = Asked(rop, o)
      /\ \A o \in Objs(rop) \ C : /\ S.to_read[o] = rop.to_read[o]
                                  /\ S.complete[o] = rop.complete[o]
  BY ONLY <1>2 DEF Filtered
<1>4. ASSUME NEW o \in Objs(rop) \ C
      PROVE  /\ o \in Object /\ rop.to_read[o].need \subseteq Asked(rop, o)
             /\ Asked(rop, o) \cap gone = {}
  <2>1. o \in Object /\ rop.to_read[o].need \subseteq Asked(rop, o)
    BY <1>1, TypedFields DEF FineRop, Shape
  <2>2. \A p \in gone : <<p, o>> \notin rop.source_to_obj
    BY <2>1 DEF Cancelled
  <2>3. \A q \in Asked(rop, o) : <<q, o>> \in rop.source_to_obj
    BY <1>1 DEF Linked
  <2> QED
    BY <2>1, <2>2, <2>3
<1> HIDE DEF C
<1>5. \A o \in Objs(S) : S.to_read[o].need \subseteq Asked(S, o)
  BY <1>3, <1>4
<1>6. Linked(S)
  <2>1. ASSUME NEW o \in Objs(S), NEW q \in Asked(S, o)
        PROVE  <<q, o>> \in S.source_to_obj
    <3>1. <<q, o>> \in rop.source_to_obj /\ o \notin C
      BY <1>1, <1>3 DEF Linked
    <3>2. <<q, o>>[2] = o
      OBVIOUS
    <3> QED
      BY ONLY <1>3, <3>1, <3>2
  <2> QED
    BY <2>1 DEF Linked
<1>7. ASSUME NEW o \in Objs(S) PROVE FineObj(S, o, h, u, F)
  <2>1. o \in Objs(rop) \ C
    BY <1>3
  <2>2. FineRead(rop.want_to_read[o], Asked(rop, o), rop.to_read[o], rop.in_progress,
                 rop.complete[o], h[o], Bad(u, o), F)
    BY <1>1, <2>1 DEF FineRop, FineObj
  <2>3. rop.in_progress \cap rop.to_read[o].need \subseteq i
    BY <1>4, <2>1 DEF Sources
  <2>4. h[o] \in SUBSET PgShard
    BY <1>4, <2>1
  <2> HIDE DEF i
  <2>5. FineRead(rop.want_to_read[o], Asked(rop, o), rop.to_read[o], i,
                 rop.complete[o], h[o], Bad(u, o), F)
    BY ONLY <2>2, <2>3, <2>4, FineStays
  <2> QED
    BY ONLY <1>3, <2>1, <2>5 DEF FineObj
<1>8. FineRop(S, h, u, F)
  BY <1>1, <1>3, <1>5, <1>6, <1>7 DEF FineRop, Shape
<1>9. \A o \in Objs(S) : S.want_to_read[o] = Want(ops[o])
  BY <1>3 DEF FineAt
<1>10. ASSUME NEW m, Asks(m, rop) PROVE Asks(m, S)
  BY ONLY <1>3, <1>10 DEF Asks
<1>11. ASSUME NEW o \in Objs(S) PROVE AttrsFine(S, o, ops[o].xattrs, F)
  <2>1. o \in Objs(rop) \ C
    BY <1>3
  <2>2. AttrsFine(rop, o, ops[o].xattrs, F)
    BY <2>1 DEF FineAt
  <2>3. rop.in_progress \cap rop.to_read[o].need \subseteq i
    BY <1>4, <2>1 DEF Sources
  <2> HIDE DEF i
  <2> QED
    BY ONLY <1>3, <2>1, <2>2, <2>3 DEF AttrsFine
<1> QED
  BY <1>8, <1>9, <1>10, <1>11 DEF FineAt

(* What it takes out are objects of the read.                              *)
LEMMA FilteredStands ==
  ASSUME NEW rop, RopRight(rop), Objs(rop) \subseteq Object,
         NEW h \in [Object -> SUBSET PgShard], NEW u, NEW F, NEW ops,
         Stands(rop, h, u, ops, F), NEW gone
  PROVE  /\ Stands(filter_read_op(rop, gone), h, u, ops, F)
         /\ Damaged(rop) => Damaged(filter_read_op(rop, gone))
         /\ \A m : FineAt(rop, h, u, ops, F) /\ Asks(m, rop)
                   => Asks(m, filter_read_op(rop, gone))
<1> DEFINE C == Cancelled(rop, gone)
<1> SUFFICES ASSUME NEW S, S = filter_read_op(rop, gone)
             PROVE  /\ Stands(S, h, u, ops, F)
                    /\ Damaged(rop) => Damaged(S)
                    /\ \A m : FineAt(rop, h, u, ops, F) /\ Asks(m, rop) => Asks(m, S)
  OBVIOUS
<1>1. C \subseteq Objs(rop) /\ Objs(S) = Objs(rop) \ C
  BY FilteredRight
<1>2. S.complete = [o \in DOMAIN rop.complete \ C |-> rop.complete[o]]
  BY DEF filter_read_op, RopRight
<1> HIDE DEF C
<1>3. Damaged(rop) => Damaged(S)
  BY <1>1, <1>2 DEF Damaged
<1>4. FineAt(rop, h, u, ops, F) => /\ FineAt(S, h, u, ops, F)
                                  /\ \A m : Asks(m, rop) => Asks(m, S)
  BY FineFiltered
<1> QED
  BY <1>3, <1>4 DEF Stands

(* A read that only others change, all that its objects depend on being    *)
(* less.                                                                   *)
LEMMA StandsThen ==
  ASSUME WireRight, NEW old, NEW t,
         Stands(old, AllHolders, unreadable, recovery_ops, KindsOf(t)),
         unforeseen' = unforeseen,
         \A o \in Objs(old) : /\ AllHolders'[o] \subseteq AllHolders[o]
                              /\ Bad(unreadable, o) \subseteq Bad(unreadable', o)
                              /\ recovery_ops'[o] = recovery_ops[o]
  PROVE  Stands(old, AllHolders', unreadable', recovery_ops', KindsOf(t)')
<1>1. AllHolders \in [Object -> SUBSET PgShard]
  BY HoldersTyped DEF WireRight
<1>2. KindsOf(t)' = KindsOf(t)
  BY DEF KindsOf
<1> DEFINE h2 == AllHolders'
<1> DEFINE u2 == unreadable'
<1> DEFINE ops2 == recovery_ops'
<1> DEFINE F2 == KindsOf(t)'
<1>3. /\ Stands(old, AllHolders, unreadable, recovery_ops, KindsOf(t))
      /\ \A o \in Objs(old) : /\ h2[o] \subseteq AllHolders[o]
                              /\ Bad(unreadable, o) \subseteq Bad(u2, o)
                              /\ ops2[o] = recovery_ops[o]
      /\ KindsOf(t) \subseteq F2
  BY <1>2
<1> HIDE DEF h2, u2, ops2, F2
<1>4. Stands(old, h2, u2, ops2, F2)
  BY ONLY <1>1, <1>3, StandsStill
<1> QED
  BY <1>4 DEF h2, u2, ops2, F2

(* No assertion fails at a step that says so.                              *)
LEMMA NoneFails == asserted' = "" => AssertFine'
BY DEF AssertFine, Explained

(* A step that starts, changes and ends no read.                           *)
LEMMA FineKept ==
  ASSUME WireRight, FineInv, asserted' = "", unforeseen' = unforeseen,
         tid_to_read_map' = tid_to_read_map, wire' \subseteq wire,
         \A t \in DOMAIN tid_to_read_map : \A o \in Objs(tid_to_read_map[t]) :
           /\ AllHolders'[o] \subseteq AllHolders[o]
           /\ Bad(unreadable, o) \subseteq Bad(unreadable', o)
           /\ recovery_ops'[o] = recovery_ops[o]
  PROVE  FineInv'
<1>1. ASSUME NEW t \in DOMAIN tid_to_read_map
      PROVE  Stands(tid_to_read_map[t], AllHolders', unreadable', recovery_ops',
                    KindsOf(t)')
  BY StandsThen DEF FineInv, FineReads
<1>2. FineReads' /\ FineWire'
  BY <1>1 DEF FineReads, FineWire, FineInv
<1> QED
  BY <1>2, NoneFails DEF FineInv

(* The loss of a source: the objects that are left have lost none.         *)
LEMMA FineLost ==
  ASSUME RecoveryInv, WireRight, FineInv, RecoveryInv', asserted' = "",
         NEW p, check_recovery_sources(p)
  PROVE  FineInv'
<1> DEFINE gone == down \cup {p}
<1> DEFINE tids == {t \in DOMAIN tid_to_read_map :
                      \E q \in gone : <<q, t>> \in shard_to_read_map}
<1> DEFINE left(t) == filter_read_op(tid_to_read_map[t], gone)
<1> DEFINE cancel == UNION {Cancelled(tid_to_read_map[t], gone) : t \in tids}
<1>1. /\ DOMAIN tid_to_read_map' = DOMAIN tid_to_read_map
      /\ \A t \in DOMAIN tid_to_read_map :
           tid_to_read_map'[t] = IF t \in tids THEN left(t) ELSE tid_to_read_map[t]
  BY DEF check_recovery_sources
<1>2. /\ sources' = [o \in Object |-> sources[o] \ {p}] /\ missing' = missing
      /\ wire' \subseteq wire /\ unreadable' = unreadable /\ unforeseen' = unforeseen
  BY DEF check_recovery_sources, badVars
<1>3. \A x \in DOMAIN recovery_ops' : recovery_ops'[x] = recovery_ops[x]
  <2>1. recovery_ops' = Without(recovery_ops, cancel)
    BY DEF check_recovery_sources
  <2> HIDE DEF cancel
  <2> QED
    BY <2>1 DEF Without
<1>4. \A o \in Object : AllHolders'[o] \subseteq AllHolders[o]
  BY <1>2 DEF AllHolders, Holders
<1>5. AllHolders \in [Object -> SUBSET PgShard]
  BY HoldersTyped DEF WireRight
<1> HIDE DEF tids, gone
<1>6. ASSUME NEW t \in DOMAIN tid_to_read_map
      PROVE  /\ Stands(tid_to_read_map'[t], AllHolders, unreadable, recovery_ops,
                       KindsOf(t))
             /\ \A m : (Damaged(tid_to_read_map[t]) \/ Asks(m, tid_to_read_map[t]))
                         => (Damaged(tid_to_read_map'[t]) \/ Asks(m, tid_to_read_map'[t]))
  <2> DEFINE old == tid_to_read_map[t]
  <2>1. Stands(old, AllHolders, unreadable, recovery_ops, KindsOf(t))
    BY DEF FineInv, FineReads
  <2>2. tid_to_read_map'[t] = filter_read_op(old, gone) \/ tid_to_read_map'[t] = old
    BY <1>1
  <2>3. RopRight(old) /\ Objs(old) \subseteq Object
    BY DEF RecoveryInv, ReadsRight
  <2> HIDE DEF old
  <2>4. /\ Stands(filter_read_op(old, gone), AllHolders, unreadable, recovery_ops, KindsOf(t))
        /\ Damaged(old) => Damaged(filter_read_op(old, gone))
        /\ \A m : FineAt(old, AllHolders, unreadable, recovery_ops, KindsOf(t))
                    /\ Asks(m, old)
                    => Asks(m, filter_read_op(old, gone))
    BY ONLY <1>5, <2>1, <2>3, FilteredStands
  <2>5. ASSUME NEW m, Damaged(old) \/ Asks(m, old)
        PROVE  Damaged(tid_to_read_map'[t]) \/ Asks(m, tid_to_read_map'[t])
    BY <2>1, <2>2, <2>4, <2>5 DEF Stands
  <2> QED
    BY <2>1, <2>2, <2>4, <2>5 DEF old
<1>7. ASSUME NEW t \in DOMAIN tid_to_read_map'
      PROVE  Stands(tid_to_read_map'[t], AllHolders', unreadable', recovery_ops',
                    KindsOf(t)')
  <2> DEFINE new == tid_to_read_map'[t]
  <2>1. Stands(new, AllHolders, unreadable, recovery_ops, KindsOf(t))
    BY <1>1, <1>6
  <2>2. \A o \in Objs(new) : o \in DOMAIN recovery_ops' /\ o \in Object
    BY DEF RecoveryInv, ReadsRight
  <2>3. \A o \in Objs(new) : /\ AllHolders'[o] \subseteq AllHolders[o]
                             /\ Bad(unreadable, o) \subseteq Bad(unreadable', o)
                             /\ recovery_ops'[o] = recovery_ops[o]
    BY <1>2, <1>3, <1>4, <2>2
  <2> HIDE DEF new
  <2>4. Stands(new, AllHolders', unreadable', recovery_ops', KindsOf(t)')
    BY <1>2, <2>1, <2>3, StandsThen
  <2> QED
    BY <2>4 DEF new
<1>8. FineReads'
  BY <1>7 DEF FineReads
<1>9. FineWire'
  <2>1. ASSUME NEW m \in wire', m.tid \in DOMAIN tid_to_read_map'
        PROVE  \/ Damaged(tid_to_read_map'[m.tid])
               \/ Asks(m, tid_to_read_map'[m.tid])
    <3>1. Damaged(tid_to_read_map[m.tid]) \/ Asks(m, tid_to_read_map[m.tid])
      BY <1>1, <1>2, <2>1 DEF FineInv, FineWire
    <3> QED
      BY <1>1, <1>6, <2>1, <3>1
  <2> QED
    BY <2>1 DEF FineWire
<1> QED
  BY <1>8, <1>9, NoneFails DEF FineInv

(* handle_recovery_push: the object is not being read.                     *)
LEMMA FinePush ==
  ASSUME RecoveryInv, WireRight, FineInv, asserted' = "", NEW push \in pushes,
         handle_recovery_push(push)
  PROVE  FineInv'
<1> DEFINE x == push.object
<1>1. /\ tid_to_read_map' = tid_to_read_map /\ wire' = wire /\ sources' = sources
      /\ recovery_ops' = recovery_ops /\ unforeseen' = unforeseen
  BY DEF handle_recovery_push, readVars
<1>2. /\ \/ missing' = [missing EXCEPT ![push.to] = @ \ {x}]
         \/ missing' = missing
      /\ unreadable \ {<<push.to, x>>} \subseteq unreadable'
  BY DEF handle_recovery_push
<1>3. \A p \in Acting, o \in Object : o # x /\ o \in missing[p] => o \in missing'[p]
  <2>1. missing \in [Acting -> SUBSET Object]
    BY DEF RecoveryInv, StoreTyped
  <2> HIDE DEF x
  <2>2. ASSUME NEW p \in Acting, NEW o \in Object, o # x, o \in missing[p]
        PROVE  o \in missing'[p]
    <3>1. CASE missing' = missing
      BY <2>2, <3>1
    <3>2. CASE missing' = [missing EXCEPT ![push.to] = @ \ {x}]
      <4>1. missing'[p] = IF p = push.to THEN missing[p] \ {x} ELSE missing[p]
        BY ONLY <2>1, <3>2, p \in Acting
      <4> QED
        BY ONLY <2>2, <4>1
    <3> QED
      BY <1>2, <3>1, <3>2
  <2> QED
    BY <2>2
<1>4. recovery_ops[x].state = "WRITING"
  BY DEF RecoveryInv, PushesRight, PushRight
<1> HIDE DEF x
<1>5. ASSUME NEW t \in DOMAIN tid_to_read_map, NEW o \in Objs(tid_to_read_map[t])
      PROVE  /\ AllHolders'[o] \subseteq AllHolders[o]
             /\ Bad(unreadable, o) \subseteq Bad(unreadable', o)
             /\ recovery_ops'[o] = recovery_ops[o]
  <2>1. o \in Object /\ o # x
    BY <1>4 DEF RecoveryInv, ReadsRight
  <2>2. AllHolders'[o] \subseteq AllHolders[o]
    BY <1>1, <1>3, <2>1 DEF AllHolders, Holders
  <2>3. Bad(unreadable, o) \subseteq Bad(unreadable', o)
    BY <1>2, <2>1 DEF Bad
  <2> QED
    BY <1>1, <2>2, <2>3
<1> QED
  BY <1>1, <1>5, FineKept

(* Every recovery knows the attributes once the primary has the object, or *)
(* a piece was read.                                                       *)
OpsKnown == \A o \in DOMAIN recovery_ops : AttrsKnown(recovery_ops[o])

(* A recovery that starts does.                                            *)
LEMMA StartKnown ==
  ASSUME NEW o
  PROVE  RecoveryOp(o) \in RecoveryOpType /\ AttrsKnown(RecoveryOp(o))
BY DEF RecoveryOp, RecoveryOpType, AttrsKnown

(* handle_recovery_push_reply: so it is until its next piece is read.      *)
LEMMA FinePushReply ==
  ASSUME RecoveryInv, WireRight, FineInv, OpsKnown, asserted' = "",
         NEW reply \in push_replies,
         handle_recovery_push_reply(reply)
  PROVE  FineInv'
<1>1. PICK o, op, next :
        /\ o = reply.object
        /\ op = [recovery_ops[o] EXCEPT !.waiting_on_pushes = @ \ {reply.from}]
        /\ next = [op EXCEPT !.state = "READING"]
        /\ \/ /\ recovery_ops' = [recovery_ops EXCEPT ![o] = op]
              /\ UNCHANGED <<readVars, missing>>
           \/ LastPushed(o, op)
           \/ NextPiece(o, next)
           \/ NoSources(o, next)
  BY DEF handle_recovery_push_reply
<1>2. UNCHANGED <<sources, unreadable, unforeseen>>
  BY DEF handle_recovery_push_reply, badVars
<1>3. /\ o \in DOMAIN recovery_ops /\ o \in Object
      /\ recovery_ops[o].state = "WRITING" /\ recovery_ops[o] \in RecoveryOpType
      /\ reply.from \in recovery_ops[o].missing_on
  BY <1>1 DEF RecoveryInv, ReadsRight, PushesRight, ReplyRight, OpRight
<1>4. \A t \in DOMAIN tid_to_read_map : \A x \in Objs(tid_to_read_map[t]) :
        x # o /\ x \in DOMAIN recovery_ops /\ x \in Object
  BY <1>3 DEF RecoveryInv, ReadsRight
<1>5. CASE NextPiece(o, next)
  <2> DEFINE ops == [x \in {o} |-> next]
  <2>1. /\ StartReads(ops) /\ missing' = missing /\ Request(o, next).need # {}
        /\ recovery_ops' = [recovery_ops EXCEPT ![o] = next]
    BY <1>5 DEF NextPiece
  <2>2. /\ next \in RecoveryOpType /\ next.missing_on = recovery_ops[o].missing_on
        /\ AttrsKnown(next)
    <3> DEFINE w == recovery_ops[o].waiting_on_pushes \ {reply.from}
    <3>1. WaitsFor(recovery_ops[o], w, op) /\ ReadsAgain(op, next)
      BY <1>1 DEF WaitsFor, ReadsAgain
    <3>2. w \in SUBSET Acting
      BY <1>3, RecoveryOpFields
    <3> HIDE DEF w
    <3>3. /\ op \in RecoveryOpType /\ op.missing_on = recovery_ops[o].missing_on
          /\ op.progress = recovery_ops[o].progress /\ op.obc = recovery_ops[o].obc
          /\ op.xattrs = recovery_ops[o].xattrs
      BY ONLY <1>3, <3>1, <3>2, WaitingChanges
    <3>4. /\ next \in RecoveryOpType /\ next.missing_on = op.missing_on
          /\ next.progress = op.progress /\ next.obc = op.obc /\ next.xattrs = op.xattrs
      BY ONLY <3>1, <3>3, StateChanges
    <3>5. AttrsKnown(recovery_ops[o])
      BY <1>3 DEF OpsKnown
    <3> QED
      BY ONLY <3>3, <3>4, <3>5 DEF AttrsKnown
  <2>3. DOMAIN ops = {o} /\ ops[o] = next
    OBVIOUS
  <2> HIDE DEF ops
  <2>4. \A x \in DOMAIN ops :
          /\ ops[x] \in RecoveryOpType /\ ops[x].missing_on # {}
          /\ Request(x, ops[x]).need # {} /\ recovery_ops'[x] = ops[x]
          /\ AttrsKnown(ops[x])
    BY <1>3, <2>1, <2>2, <2>3
  <2>5. \A t \in DOMAIN tid_to_read_map : \A x \in Objs(tid_to_read_map[t]) :
          recovery_ops'[x] = recovery_ops[x]
    BY <1>4, <2>1
  <2>6. DOMAIN ops \subseteq Object /\ UNCHANGED <<missing, sources, unreadable, unforeseen>>
    BY <1>2, <1>3, <2>1, <2>3
  <2>7. FineReads' /\ FineWire'
    BY ONLY RecoveryInv, WireRight, FineInv, <2>1, <2>4, <2>5, <2>6, FineStarts
  <2> QED
    BY <2>7, NoneFails DEF FineInv
<1>6. CASE ~NextPiece(o, next)
  <2>1. /\ tid_to_read_map' = tid_to_read_map /\ wire' = wire
        /\ \A x \in DOMAIN recovery_ops \ {o} : recovery_ops'[x] = recovery_ops[x]
    BY <1>1, <1>6 DEF LastPushed, NoSources, readVars, Without
  <2>2. \A p \in Acting, x \in Object : x # o /\ x \in missing[p] => x \in missing'[p]
    <3>1. CASE missing' = missing
      BY <3>1
    <3>2. CASE LastPushed(o, op)
      BY <3>2 DEF LastPushed
    <3> QED
      BY <1>1, <1>6, <3>1, <3>2 DEF NoSources
  <2>3. ASSUME NEW t \in DOMAIN tid_to_read_map, NEW x \in Objs(tid_to_read_map[t])
        PROVE  /\ AllHolders'[x] \subseteq AllHolders[x]
               /\ Bad(unreadable, x) \subseteq Bad(unreadable', x)
               /\ recovery_ops'[x] = recovery_ops[x]
    <3>1. AllHolders'[x] \subseteq AllHolders[x]
      BY <1>2, <1>4, <2>2 DEF AllHolders, Holders
    <3> QED
      BY <1>2, <1>4, <2>1, <3>1
  <2> QED
    BY <1>2, <2>1, <2>3, FineKept
<1> QED
  BY <1>5, <1>6

(* run_recovery_op: the objects were not being recovered.                  *)
LEMMA FineRun ==
  ASSUME RecoveryInv, WireRight, FineInv, asserted' = "", NEW S \in SUBSET Object,
         run_recovery_op(S)
  PROVE  FineInv'
<1> DEFINE ops == [o \in S |-> RecoveryOp(o)]
<1>1. /\ StartReads(ops) /\ S \cap recovering = {}
      /\ recovery_ops' = With(recovery_ops, ops)
      /\ \A o \in S : ops[o].missing_on # {} /\ Request(o, ops[o]).need # {}
  BY DEF run_recovery_op
<1>2. UNCHANGED <<missing, sources, unreadable, unforeseen>>
  BY DEF run_recovery_op, viewVars, badVars
<1>3. DOMAIN ops = S /\ \A o \in S : ops[o] \in RecoveryOpType /\ AttrsKnown(ops[o])
  BY StartKnown
<1> HIDE DEF ops
<1>4. \A o \in DOMAIN ops :
        /\ ops[o] \in RecoveryOpType /\ ops[o].missing_on # {}
        /\ Request(o, ops[o]).need # {} /\ recovery_ops'[o] = ops[o]
        /\ AttrsKnown(ops[o])
  BY <1>1, <1>3 DEF With
<1>5. \A t \in DOMAIN tid_to_read_map : \A x \in Objs(tid_to_read_map[t]) :
        recovery_ops'[x] = recovery_ops[x]
  <2>1. \A x \in DOMAIN recovery_ops : recovery_ops'[x] = recovery_ops[x]
    BY <1>1, <1>3 DEF With, RecoveryInv, ReadsRight
  <2> QED
    BY <2>1 DEF RecoveryInv, ReadsRight
<1>6. FineReads' /\ FineWire'
  BY ONLY RecoveryInv, WireRight, FineInv, <1>1, <1>2, <1>3, <1>4, <1>5, FineStarts
<1> QED
  BY <1>6, NoneFails DEF FineInv

(* At first nothing is read.                                               *)
LEMMA FineInit == Init => FineInv /\ OpsKnown
<1> SUFFICES ASSUME Init PROVE FineInv /\ OpsKnown
  OBVIOUS
<1>1. DOMAIN <<>> = {}
  OBVIOUS
<1>2. /\ DOMAIN tid_to_read_map = {} /\ DOMAIN recovery_ops = {}
      /\ wire = {} /\ asserted = ""
  BY <1>1 DEF Init
<1> QED
  BY <1>2 DEF FineInv, FineReads, FineWire, AssertFine, Explained, OpsKnown

(* Every step leaves the recoveries so that they know the attributes.      *)
LEMMA OpsKnownStep == RecoveryInv /\ OpsKnown /\ [Next]_vars => OpsKnown'
<1> SUFFICES ASSUME RecoveryInv, OpsKnown, [Next]_vars PROVE OpsKnown'
  OBVIOUS
<1>1. CASE recovery_ops' = recovery_ops
  BY <1>1 DEF OpsKnown
<1>2. \A o \in DOMAIN recovery_ops : /\ recovery_ops[o] \in RecoveryOpType
                                     /\ AttrsKnown(recovery_ops[o])
  BY DEF RecoveryInv, OpRight, OpsKnown
<1>3. ASSUME NEW S \in SUBSET Object, run_recovery_op(S) PROVE OpsKnown'
  <2> DEFINE ops == [o \in S |-> RecoveryOp(o)]
  <2>1. recovery_ops' = With(recovery_ops, ops)
    BY <1>3 DEF run_recovery_op
  <2>2. DOMAIN ops = S /\ \A o \in S : AttrsKnown(ops[o])
    BY StartKnown
  <2> HIDE DEF ops
  <2> QED
    BY <1>2, <2>1, <2>2 DEF With, OpsKnown
<1>4. ASSUME NEW tid, NEW from, NEW rop, complete_read_op(tid, from, rop) PROVE OpsKnown'
  <2>1. PICK failed : Completes(tid, Objs(rop), failed)
    BY <1>4, CompleteParts
  <2>2. ASSUME NEW o \in DOMAIN recovery_ops PROVE AttrsKnown(CompletedOp(o))
    BY <1>2, CompletedFields DEF AttrsKnown
  <2>3. ASSUME NEW o \in DOMAIN recovery_ops' PROVE AttrsKnown(recovery_ops'[o])
    BY <1>2, <2>1, <2>2 DEF Completes
  <2> QED
    BY <2>3 DEF OpsKnown, AttrsKnown
<1>5. ASSUME NEW m \in wire, NEW bad \in SUBSET m.objects, handle_sub_read_reply(m, bad)
      PROVE  OpsKnown'
  BY <1>1, <1>4, <1>5 DEF handle_sub_read_reply
<1>6. ASSUME NEW t \in finishing, FinishReadOp(t) PROVE OpsKnown'
  BY <1>4, <1>6 DEF FinishReadOp
<1>7. ASSUME NEW reply \in push_replies, handle_recovery_push_reply(reply) PROVE OpsKnown'
  <2>1. PICK o, op, next :
          /\ o = reply.object /\ o \in DOMAIN recovery_ops
          /\ op = [recovery_ops[o] EXCEPT !.waiting_on_pushes = @ \ {reply.from}]
          /\ next = [op EXCEPT !.state = "READING"]
          /\ \/ recovery_ops' = [recovery_ops EXCEPT ![o] = op]
             \/ recovery_ops' = [recovery_ops EXCEPT ![o] = next]
             \/ recovery_ops' = Without(recovery_ops, {o})
    BY <1>7 DEF handle_recovery_push_reply, LastPushed, NextPiece, NoSources
  <2>2. AttrsKnown(op) /\ AttrsKnown(next)
    <3> DEFINE w == recovery_ops[o].waiting_on_pushes \ {reply.from}
    <3>1. WaitsFor(recovery_ops[o], w, op) /\ ReadsAgain(op, next)
      BY <2>1 DEF WaitsFor, ReadsAgain
    <3>2. w \in SUBSET Acting /\ recovery_ops[o] \in RecoveryOpType
      BY <1>2, <2>1, RecoveryOpFields
    <3> HIDE DEF w
    <3>3. /\ op \in RecoveryOpType /\ op.progress = recovery_ops[o].progress
          /\ op.obc = recovery_ops[o].obc /\ op.xattrs = recovery_ops[o].xattrs
      BY ONLY <3>1, <3>2, WaitingChanges
    <3>4. next.progress = op.progress /\ next.obc = op.obc /\ next.xattrs = op.xattrs
      BY ONLY <3>1, <3>3, StateChanges
    <3> QED
      BY <1>2, <2>1, <3>3, <3>4 DEF AttrsKnown
  <2>3. ASSUME NEW x \in DOMAIN recovery_ops'
        PROVE  /\ x \in DOMAIN recovery_ops
               /\ recovery_ops'[x] \in {op, next, recovery_ops[x]}
    BY <2>1 DEF Without
  <2>4. ASSUME NEW x \in DOMAIN recovery_ops' PROVE AttrsKnown(recovery_ops'[x])
    BY <1>2, <2>2, <2>3
  <2> QED
    BY <2>4 DEF OpsKnown, AttrsKnown
<1>8. ASSUME NEW p, check_recovery_sources(p) PROVE OpsKnown'
  <2>1. PICK cancel : recovery_ops' = Without(recovery_ops, cancel)
    BY <1>8 DEF check_recovery_sources
  <2> QED
    BY <1>2, <2>1 DEF OpsKnown, Without
<1>9. CASE on_change
  <2>1. DOMAIN recovery_ops' = {}
    BY <1>9 DEF on_change
  <2> QED
    BY <2>1 DEF OpsKnown
<1>10. ASSUME NEW m, dropped_reply(m) PROVE OpsKnown'
  BY <1>1, <1>10 DEF dropped_reply
<1>11. ASSUME NEW push, handle_recovery_push(push) PROVE OpsKnown'
  BY <1>1, <1>11 DEF handle_recovery_push
<1>12. CASE UNCHANGED vars
  BY <1>1, <1>12 DEF vars
<1> QED
  BY <1>3, <1>5, <1>6, <1>7, <1>8, <1>9, <1>10, <1>11, <1>12 DEF Next

(* A step that completes no read fails no assertion but one on which       *)
(* PrimaryLogPG and ECBackend would disagree, and they never do.           *)
LEMMA QuietStep ==
  ASSUME Agreed', Next,
         ~\E m \in wire : \E bad \in SUBSET m.objects : handle_sub_read_reply(m, bad),
         ~\E t \in finishing : FinishReadOp(t)
  PROVE  asserted' = ""
<1> DEFINE Ends == {""} \cup Disagreements
<1>1. ASSUME NEW S \in SUBSET Object, run_recovery_op(S) PROVE asserted' \in Ends
  BY <1>1 DEF run_recovery_op, Disagreements
<1>2. ASSUME NEW m, dropped_reply(m) PROVE asserted' \in Ends
  BY <1>2 DEF dropped_reply, Running
<1>3. ASSUME NEW push, handle_recovery_push(push) PROVE asserted' \in Ends
  BY <1>3 DEF handle_recovery_push, Disagreements, Running
<1>4. ASSUME NEW reply, handle_recovery_push_reply(reply) PROVE asserted' \in Ends
  BY <1>4 DEF handle_recovery_push_reply, LastPushed, NextPiece, NoSources, Disagreements,
              Running
<1>5. ASSUME NEW p, check_recovery_sources(p) PROVE asserted' \in Ends
  BY <1>5 DEF check_recovery_sources, Disagreements
<1>6. ASSUME on_change PROVE asserted' \in Ends
  BY <1>6 DEF on_change, Running
<1>7. asserted' \in Ends
  BY <1>1, <1>2, <1>3, <1>4, <1>5, <1>6 DEF Next
<1> QED
  BY <1>7 DEF Agreed

(* Every step leaves the reads so.                                         *)
LEMMA FineStep ==
  ASSUME RecoveryInv, WireRight, FineInv, OpsKnown, RecoveryInv', Agreed', [Next]_vars
  PROVE  FineInv'
<1>1. CASE UNCHANGED vars
  <2>1. /\ UNCHANGED <<tid_to_read_map, wire, missing, sources, unreadable, unforeseen,
                       recovery_ops, asserted>>
    BY <1>1 DEF vars, readVars, viewVars, badVars
  <2>2. FineReads' /\ FineWire' /\ AssertFine'
    BY <2>1 DEF FineInv, FineReads, FineWire, AssertFine, KindsOf, MetKinds,
                AllHolders, Holders
  <2> QED
    BY <2>2 DEF FineInv
<1>2. CASE \E m \in wire : \E bad \in SUBSET m.objects : handle_sub_read_reply(m, bad)
  BY <1>2, FineReply
<1>3. CASE \E t \in finishing : FinishReadOp(t)
  BY <1>3, FineFinish
<1>4. CASE /\ Next
           /\ ~\E m \in wire : \E bad \in SUBSET m.objects : handle_sub_read_reply(m, bad)
           /\ ~\E t \in finishing : FinishReadOp(t)
  <2>1. asserted' = ""
    BY <1>4, QuietStep
  <2>2. CASE \E S \in SUBSET Object : run_recovery_op(S)
    BY <2>1, <2>2, FineRun
  <2>3. ASSUME NEW m \in wire, dropped_reply(m) PROVE FineInv'
    <3>1. /\ tid_to_read_map' = tid_to_read_map /\ wire' \subseteq wire
          /\ UNCHANGED <<missing, sources, unreadable, recovery_ops, unforeseen>>
      BY <2>3 DEF dropped_reply, viewVars, badVars
    <3>2. AllHolders' = AllHolders
      BY <3>1 DEF AllHolders, Holders
    <3> QED
      BY <2>1, <3>1, <3>2, FineKept
  <2>4. CASE \E push \in pushes : handle_recovery_push(push)
    BY <2>1, <2>4, FinePush
  <2>5. CASE \E reply \in push_replies : handle_recovery_push_reply(reply)
    BY <2>1, <2>5, FinePushReply
  <2>6. CASE \E p \in PgShard : check_recovery_sources(p)
    BY <2>1, <2>6, FineLost
  <2>7. CASE on_change
    <3>1. DOMAIN tid_to_read_map' = {} /\ wire' = {}
      BY <2>7 DEF on_change
    <3> QED
      BY <2>1, <3>1, NoneFails DEF FineInv, FineReads, FineWire
  <2> QED
    BY <1>4, <2>2, <2>3, <2>4, <2>5, <2>6, <2>7 DEF Next
<1> QED
  BY <1>1, <1>2, <1>3, <1>4

(* Whatever errors come, whatever shards answer late or go down, and       *)
(* whenever the interval ends: every reply finds its read, its recovery    *)
(* and the shard it is from, PrimaryLogPG and ECBackend agree on what is   *)
(* being recovered, and another assertion of the recovery fails only if    *)
(* its read met the kind of error that ECBackend.cc does not handle there: *)
(* what a completed read hands to the decoder can be decoded and has the   *)
(* length of a chunk, unless an error came in the repair of one chunk; the *)
(* attributes came, unless the shard that was asked for them failed; and   *)
(* so on, as FailuresExplained lists them.                                 *)
THEOREM FailuresAreExplained == Spec => []FailuresExplained
<1>1. TidsKnown /\ RepliesExpected /\ Agreed /\ FineInv => FailuresExplained
  BY DEF FineInv, AssertFine, Explained, MetKinds, Agreed, FailuresExplained
<1>2. RecoveryInv /\ WireRight /\ FineInv /\ OpsKnown /\ Agreed /\ [Next]_vars => FineInv'
  <2> SUFFICES ASSUME RecoveryInv, WireRight, FineInv, OpsKnown, Agreed, [Next]_vars
               PROVE  FineInv'
    OBVIOUS
  <2>1. RecoveryInv' /\ Agreed'
    BY RecoveryInvStep, AgreeStep
  <2> QED
    BY <2>1, FineStep
<1> QED
  BY <1>1, <1>2, FineInit, OpsKnownStep, RecoveryInvHolds, WireInit, WireStep,
     RecoveriesAgree, PTL DEF Spec
=============================================================================
