------------------------------ MODULE ECRecovery ------------------------------
(***************************************************************************)
(* Recovery of objects in osd/ECBackend: run_recovery_op starts            *)
(* RecoveryOps for the objects of a handle, which read a piece from the    *)
(* shards that have it, decode it (handle_recovery_read_complete), push it *)
(* to the shards that miss it (handle_recovery_push on their side) and go  *)
(* on with the next piece when all have answered (continue_recovery_op).   *)
(* Reads that fail end the recovery of their object (_failed_push); the    *)
(* loss of a source cancels it (check_recovery_sources).  PrimaryLogPG's   *)
(* part is in recovering, missing and sources.                             *)
(*                                                                         *)
(* The reads are those of ReadOps.  State IDLE of a RecoveryOp is left in  *)
(* the call that enters it, and COMPLETE ends it.                          *)
(***************************************************************************)
EXTENDS ReadOps

CONSTANTS
  Primary,
  Pieces,        \* by object: its recovery chunks, an empty object has one
  InitMissing,   \* what the acting shards may lack at the beginning
  InitSources,   \* by object: shards outside the acting set that have it
  MaxBatch,      \* bound on the objects of one handle
  MaxTid,        \* bound: no recovery starts once this tid is used
  MaxErrors, MaxDown, MaxInterval    \* bounds

ASSUME RecoveryConstantsAssumption ==
  /\ Primary \in Acting
  /\ Pieces \in [Object -> Nat \ {0}]
  /\ InitMissing \subseteq [Acting -> SUBSET Object]
  /\ InitSources \in [Object -> SUBSET (PgShard \ Acting)]

VARIABLES
  tid_to_read_map, shard_to_read_map, wire,   \* as in ECRead
  finishing,      \* tids with a FinishReadOp in the recovery work queue
  recovery_ops,
  recovering,     \* PrimaryLogPG::recovering
  missing,        \* what the primary thinks an acting shard lacks
  sources,        \* missing_loc: holders outside the acting set
  down,
  pushes, push_replies,   \* under way
  store,          \* by acting shard and object: pieces in the temporary
                  \* object and in the object itself
  local_missing,  \* what a peer knows it lacks
  next_tid, unreadable, errors, interval, asserted,
  unforeseen      \* history: the kinds of errors that open reads have met,
                  \* as Unforeseen has them; no action depends on it

readVars == <<tid_to_read_map, shard_to_read_map, wire, next_tid>>
pushVars == <<pushes, push_replies>>
viewVars == <<missing, sources>>
shardVars == <<store, local_missing>>
badVars == <<unreadable, errors, unforeseen>>
vars == <<readVars, finishing, recovery_ops, recovering, viewVars, down,
          pushVars, shardVars, badVars, interval, asserted>>

Running == asserted = ""
Piece(o) == 1 .. Pieces[o]
Whole(p, o) == store[p][o].final = Piece(o)
Holders(o) == {p \in Acting : o \notin missing[p]} \cup sources[o]
AllHolders == [o \in Object |-> Holders(o)]
Without(f, S) == [x \in DOMAIN f \ S |-> f[x]]
With(f, g) == [x \in DOMAIN f \cup DOMAIN g |-> IF x \in DOMAIN g THEN g[x] ELSE f[x]]
-----------------------------------------------------------------------------
Init ==
  /\ tid_to_read_map = <<>> /\ shard_to_read_map = {} /\ wire = {}
  /\ finishing = {} /\ recovery_ops = <<>> /\ recovering = {}
  /\ missing \in InitMissing /\ local_missing = missing
  /\ sources = InitSources /\ down = {}
  /\ pushes = {} /\ push_replies = {}
  /\ store = [p \in Acting |-> [o \in Object |->
       [temp |-> {}, final |-> IF o \in missing[p] THEN {} ELSE Piece(o)]]]
  /\ next_tid = 1 /\ unreadable = {} /\ errors = 0 /\ interval = 0
  /\ asserted = "" /\ unforeseen = {}

(* recover_object: the shards that miss the object; the object context is  *)
(* known unless the primary misses it too.                                 *)
RecoveryOp(o) ==
  [state |-> "READING", missing_on |-> {p \in Acting : o \in missing[p]},
   progress |-> 0, obc |-> o \notin missing[Primary],
   xattrs |-> o \notin missing[Primary], waiting_on_pushes |-> {}]

(* The read of the next piece, with the attributes if they are not known.  *)
Want(op) == ShardOf(op.missing_on)
Request(o, op) ==
  get_min_avail_to_read_shards(Holders(o), Want(op), TRUE, FALSE,
                               op.progress = 0 /\ ~op.obc)

(* dispatch_recovery_messages: one ReadOp for all objects that ask.        *)
StartReads(ops) ==
  \E to_read \in {[o \in DOMAIN ops |-> Request(o, ops[o])]} :
  \E rop \in {start_read_op([o \in DOMAIN ops |-> Want(ops[o])], to_read, FALSE, TRUE)} :
    /\ next_tid' = next_tid + 1
    /\ tid_to_read_map' = With(tid_to_read_map, [t \in {next_tid} |-> rop])
    /\ shard_to_read_map' = shard_to_read_map \cup (rop.in_progress \X {next_tid})
    /\ wire' = wire \cup Messages(next_tid, rop)

(* PrimaryLogPG starts what is missing somewhere, can be rebuilt and is    *)
(* not being recovered.                                                    *)
run_recovery_op(S) ==
  LET ops == [o \in S |-> RecoveryOp(o)]
  IN  /\ Running /\ next_tid <= MaxTid
      /\ S # {} /\ Cardinality(S) <= MaxBatch
      /\ S \cap recovering = {}
      /\ \A o \in S : ops[o].missing_on # {} /\ Request(o, ops[o]).need # {}
      /\ recovering' = recovering \cup S
      /\ asserted' = IF S \cap DOMAIN recovery_ops = {} THEN ""
                     ELSE "!recovery_ops.count"
      /\ recovery_ops' = With(recovery_ops, ops)
      /\ StartReads(ops)
      /\ UNCHANGED <<finishing, viewVars, down, pushVars, shardVars, badVars,
                     interval>>
-----------------------------------------------------------------------------
(* What ECUtil::decode (external) needs: sub-chunks for a repair, whole    *)
(* chunks otherwise, and enough of them.                                   *)
Decodable(want, res) ==
  /\ minimum_to_decode(want, Have(res)) # {}
  /\ IF repairs(want, Have(res)) THEN res.full = {} ELSE res.part = {}

(* READING of continue_recovery_op: the piece goes to all that miss it.    *)
Pushed(o, op) ==
  {[object |-> o, to |-> p, before |-> op.progress, after |-> op.progress + 1] :
     p \in op.missing_on}

Good(res) == res.r = "ok" /\ res.errors = {}

(* The assertions of OnRecoveryReadComplete for one object.                *)
ObjectAssert(o, res) ==
  IF o \notin DOMAIN recovery_ops THEN "recovery_ops.count"
  ELSE IF o \notin recovering THEN "recovering.count"
  ELSE IF ~Good(res) THEN ""
  ELSE IF ~(recovery_ops[o].xattrs \/ res.attrs) THEN "op.xattrs.size()"
  ELSE IF ~Decodable(Want(recovery_ops[o]), res) THEN "pop.data.length()"
  ELSE ""

(* The first assertion of complete_read_op and its callbacks that fails.   *)
ReadAssert(rop) ==
  LET broken == {o \in DOMAIN rop.to_read : ObjectAssert(o, rop.complete[o]) # ""}
  IN  IF CompleteAssert(rop) # "" THEN CompleteAssert(rop)
      ELSE IF broken = {} THEN ""
      ELSE LET o == CHOOSE x \in broken : \A y \in broken : x <= y
           IN  ObjectAssert(o, rop.complete[o])

(* complete_read_op with its callbacks: the objects read go on to push,    *)
(* the others end (_failed_push, on_failed_pull): the shards that gave     *)
(* errors are known to miss the object now.                                *)
complete_read_op(tid, from, rop) ==
  LET D      == DOMAIN rop.to_read
      failed == {o \in D : ~Good(rop.complete[o])}
      read   == (D \ failed) \cap DOMAIN recovery_ops
      next(o) == [recovery_ops[o] EXCEPT
                    !.state = "WRITING", !.obc = TRUE, !.xattrs = TRUE,
                    !.progress = @ + 1,
                    !.waiting_on_pushes = recovery_ops[o].missing_on]
  IN  /\ asserted' = ReadAssert(rop)
      /\ recovery_ops' = [o \in DOMAIN recovery_ops \ failed |->
                            IF o \in read THEN next(o) ELSE recovery_ops[o]]
      /\ pushes' = pushes \cup UNION {Pushed(o, recovery_ops[o]) : o \in read}
      /\ recovering' = recovering \ failed
      /\ missing' = [p \in Acting |-> missing[p] \cup
           {o \in failed : p \in rop.complete[o].errors}]
      /\ sources' = [o \in Object |->
           IF o \in failed THEN sources[o] \ rop.complete[o].errors ELSE sources[o]]
      /\ tid_to_read_map' = Without(tid_to_read_map, {tid})
      /\ shard_to_read_map' =
           shard_to_read_map \ ((rop.in_progress \cup from) \X {tid})

(* Errors, and the lack of one, that the read of an object may not be made *)
(* for: an error in the repair of one chunk, where sub-chunks and whole    *)
(* chunks are mixed up then; for an object that was cancelled before this  *)
(* shard answered; from one of two copies of a shard, where the other is   *)
(* never asked; from the shard that was asked for the attributes; a copy   *)
(* that can be read again; and a shard that is down when it is asked again *)
(* for what it once gave.                                                  *)
Kinds == {"repair", "cancelled", "copy", "attributes", "transient", "down"}
Unforeseen(rop, m, bad, again) ==
  {kind \in Kinds :
     \/ /\ kind = "repair" /\ SubChunks
        /\ \E o \in bad \cap DOMAIN rop.to_read : Cardinality(rop.want_to_read[o]) = 1
     \/ kind = "cancelled" /\ ~(bad \subseteq DOMAIN rop.to_read)
     \/ kind = "copy" /\ \E o \in bad : \E q \in Holders(o) \ {m.to} : q[2] = m.to[2]
     \/ kind = "attributes" /\ bad \cap m.attrs # {}
     \/ kind = "transient" /\ \E o \in m.objects \ bad : <<m.to, o>> \in unreadable
     \/ kind = "down" /\ again \cap down # {}}

(* What is kept of it: of reads that are open, or failed an assertion.     *)
StillOpen(history) ==
  {u \in history : u[1] \in DOMAIN tid_to_read_map' \/ asserted' # ""}

(* A reply whose tid is gone is dropped: a read all of whose objects were  *)
(* cancelled is complete with the first reply that still comes.            *)
dropped_reply(m) ==
  /\ Running
  /\ m.tid \notin DOMAIN tid_to_read_map
  /\ wire' = wire \ {m}
  /\ UNCHANGED <<tid_to_read_map, shard_to_read_map, next_tid, finishing,
                 recovery_ops, recovering, viewVars, down, pushVars, shardVars,
                 badVars, interval, asserted>>

(* Another reply, with an error for the objects bad.  What is asked for    *)
(* then is not sent to a shard that is down meanwhile.                     *)
handle_sub_read_reply(m, bad) ==
  /\ Running
  /\ unreadable' = unreadable \cup ({m.to} \X bad)
  /\ errors' = errors + Cardinality(unreadable' \ unreadable)
  /\ errors' <= MaxErrors
  /\ m.tid \in DOMAIN tid_to_read_map
  /\ <<m.to, m.tid>> \in shard_to_read_map
  /\ m.to \in tid_to_read_map[m.tid].in_progress
  /\ \E got \in {Received(tid_to_read_map[m.tid], m, bad)} :
     \E e \in {Evaluated(got, AllHolders)} :
     \E again \in {IF got.in_progress = {} THEN e.rop.in_progress ELSE {}} :
       /\ wire' = (wire \ {m})
                    \cup {x \in Messages(m.tid, e.rop) : again # {} /\ x.to \notin down}
       /\ \/ Finished(e) /\ complete_read_op(m.tid, {m.to}, e.rop)
          \/ /\ ~Finished(e)
             /\ asserted' = e.assert
             /\ tid_to_read_map' = [tid_to_read_map EXCEPT ![m.tid] = e.rop]
             /\ shard_to_read_map' =
                  (shard_to_read_map \ {<<m.to, m.tid>>}) \cup (again \X {m.tid})
             /\ UNCHANGED <<recovery_ops, pushes, recovering, viewVars>>
       /\ unforeseen' = StillOpen(unforeseen \cup
            ({m.tid} \X Unforeseen(tid_to_read_map[m.tid], m, bad, again)))
  /\ UNCHANGED <<next_tid, finishing, down, push_replies, shardVars, interval>>

(* The completion that filter_read_op queued when it cancelled the last    *)
(* source a read waited for.                                               *)
FinishReadOp(tid) ==
  /\ Running
  /\ tid \in finishing
  /\ finishing' = finishing \ {tid}
  /\ complete_read_op(tid, {}, tid_to_read_map[tid])
  /\ unforeseen' = StillOpen(unforeseen)
  /\ UNCHANGED <<wire, next_tid, down, push_replies, shardVars, unreadable,
                 errors, interval>>
-----------------------------------------------------------------------------
(* Mutant: the last piece of several is written to the object itself.      *)
Stored_direct(p, push) ==
  LET o    == push.object
      temp == (IF push.before = 0 THEN {} ELSE store[p][o].temp) \cup {push.after}
  IN  IF push.after = Pieces[o] THEN [temp |-> temp, final |-> {push.after}]
      ELSE [temp |-> temp, final |-> store[p][o].final]

(* handle_recovery_push on a shard.  A piece goes to the temporary object  *)
(* unless it is all there is; with the last one the temporary object takes *)
(* the place of the object.                                                *)
Stored(p, push) ==
  LET o       == push.object
      oneshot == push.before = 0 /\ push.after = Pieces[o]
      temp    == (IF push.before = 0 THEN {} ELSE store[p][o].temp) \cup {push.after}
  IN  IF oneshot THEN [temp |-> store[p][o].temp, final |-> {push.after}]
      ELSE IF push.after = Pieces[o] THEN [temp |-> {}, final |-> temp]
      ELSE [temp |-> temp, final |-> store[p][o].final]

handle_recovery_push(push) ==
  LET p == push.to
      o == push.object
      complete == push.after = Pieces[o]
  IN  /\ Running
      /\ store' = [store EXCEPT ![p][o] = Stored(p, push)]
      /\ pushes' = pushes \ {push}
      /\ push_replies' = push_replies \cup {[object |-> o, from |-> p]}
      /\ \/ /\ complete
            /\ local_missing' = [local_missing EXCEPT ![p] = @ \ {o}]
            /\ \/ /\ p = Primary
                  /\ missing' = [missing EXCEPT ![p] = @ \ {o}]
                  /\ asserted' = IF o \in DOMAIN recovery_ops \cap recovering
                                 THEN "" ELSE "recovery_ops.count"
               \/ p # Primary /\ UNCHANGED <<missing, asserted>>
         \/ ~complete /\ UNCHANGED <<local_missing, missing, asserted>>
      /\ unreadable' = IF complete THEN unreadable \ {<<p, o>>} ELSE unreadable
      /\ UNCHANGED <<readVars, finishing, recovery_ops, recovering, sources, down,
                     errors, unforeseen, interval>>

(* WRITING of continue_recovery_op when all shards have answered: the end, *)
(* the next piece, or the end for want of sources.                         *)
LastPushed(o, op) ==
  /\ recovery_ops' = Without(recovery_ops, {o})
  /\ missing' = [p \in Acting |-> IF p \in op.missing_on \ {Primary}
                                  THEN missing[p] \ {o} ELSE missing[p]]
  /\ recovering' = recovering \ {o}
  /\ asserted' = IF o \in recovering THEN "" ELSE "i != recovering.end()"
  /\ UNCHANGED readVars
NextPiece(o, op) ==
  /\ Request(o, op).need # {}
  /\ recovery_ops' = [recovery_ops EXCEPT ![o] = op]
  /\ StartReads([x \in {o} |-> op])
  /\ UNCHANGED <<missing, recovering, asserted>>
NoSources(o, op) ==
  /\ Request(o, op).need = {}
  /\ recovery_ops' = Without(recovery_ops, {o})
  /\ recovering' = recovering \ {o}
  /\ asserted' = IF o \in recovering THEN "" ELSE "recovering.count"
  /\ UNCHANGED <<readVars, missing>>

(* A recovery that waits for pushes is not cancelled, so that a reply of   *)
(* the interval finds it (RepliesExpected).                                *)
handle_recovery_push_reply(reply) ==
  /\ Running
  /\ push_replies' = push_replies \ {reply}
  /\ reply.object \in DOMAIN recovery_ops
  /\ reply.from \in recovery_ops[reply.object].waiting_on_pushes
  /\ \E o \in {reply.object} :
     \E op \in {[recovery_ops[o] EXCEPT !.waiting_on_pushes = @ \ {reply.from}]} :
     \E next \in {[op EXCEPT !.state = "READING"]} :
       \/ /\ op.waiting_on_pushes # {}
          /\ recovery_ops' = [recovery_ops EXCEPT ![o] = op]
          /\ UNCHANGED <<readVars, recovering, missing, asserted>>
       \/ op.waiting_on_pushes = {} /\ op.progress = Pieces[o] /\ LastPushed(o, op)
       \/ op.waiting_on_pushes = {} /\ op.progress < Pieces[o] /\ NextPiece(o, next)
       \/ op.waiting_on_pushes = {} /\ op.progress < Pieces[o] /\ NoSources(o, next)
  /\ UNCHANGED <<finishing, sources, down, pushes, shardVars, badVars, interval>>
-----------------------------------------------------------------------------
(* A shard outside the acting set goes down, which does not end the        *)
(* interval, or was so before and a later map comes: the missing_loc       *)
(* forgets it, its messages are lost, and check_recovery_sources goes      *)
(* through the reads that wait for a shard that is down.                   *)
check_recovery_sources(p) ==
  LET gone   == down \cup {p}
      tids   == {t \in DOMAIN tid_to_read_map :
                   \E q \in gone : <<q, t>> \in shard_to_read_map}
      cancel == UNION {Cancelled(tid_to_read_map[t], gone) : t \in tids}
      rop(t) == IF t \in tids THEN filter_read_op(tid_to_read_map[t], gone)
                ELSE tid_to_read_map[t]
  IN  /\ Running
      /\ p \in PgShard \ Acting /\ Cardinality(gone) <= MaxDown
      /\ down' = gone
      /\ sources' = [o \in Object |-> sources[o] \ {p}]
      /\ wire' = {m \in wire : m.to # p}
      /\ shard_to_read_map' = {s \in shard_to_read_map : s[1] \notin gone}
      /\ tid_to_read_map' = [t \in DOMAIN tid_to_read_map |-> rop(t)]
      /\ finishing' = finishing \cup
           {t \in tids : Cancelled(tid_to_read_map[t], gone) # {} /\ rop(t).in_progress = {}}
      /\ recovery_ops' = Without(recovery_ops, cancel)
      /\ recovering' = recovering \ cancel
      /\ asserted' = IF cancel \subseteq recovering THEN "" ELSE "recovering.count"
      /\ UNCHANGED <<next_tid, missing, pushVars, shardVars, badVars, interval>>

(* A new interval: everything under way is dropped, temporary objects are  *)
(* removed, and peering learns from every shard what it lacks.             *)
on_change ==
  /\ Running /\ interval < MaxInterval
  /\ interval' = interval + 1
  /\ tid_to_read_map' = <<>> /\ shard_to_read_map' = {} /\ wire' = {}
  /\ finishing' = {} /\ recovery_ops' = <<>> /\ recovering' = {}
  /\ pushes' = {} /\ push_replies' = {}
  /\ store' = [p \in Acting |-> [o \in Object |-> [store[p][o] EXCEPT !.temp = {}]]]
  /\ missing' = [local_missing EXCEPT ![Primary] = missing[Primary]]
  /\ unforeseen' = {}
  /\ UNCHANGED <<next_tid, sources, down, local_missing, unreadable, errors,
                 asserted>>

Next ==
  \/ \E S \in SUBSET Object : run_recovery_op(S)
  \/ \E m \in wire : dropped_reply(m)
  \/ \E m \in wire : \E bad \in SUBSET m.objects : handle_sub_read_reply(m, bad)
  \/ \E t \in finishing : FinishReadOp(t)
  \/ \E push \in pushes : handle_recovery_push(push)
  \/ \E reply \in push_replies : handle_recovery_push_reply(reply)
  \/ \E p \in PgShard : check_recovery_sources(p)
  \/ on_change

Spec == Init /\ [][Next]_vars

(* The messages of shards that are up arrive, the work queue is served:    *)
(* weak fairness of each, with its queue for ENABLED.                      *)
HandleReply     == \E m \in wire : \/ dropped_reply(m)
                                   \/ \E bad \in SUBSET m.objects :
                                        handle_sub_read_reply(m, bad)
HandlePush      == \E push \in pushes : handle_recovery_push(push)
HandlePushReply == \E reply \in push_replies : handle_recovery_push_reply(reply)
FinishRead      == \E t \in finishing : FinishReadOp(t)
FairSpec ==
  /\ Spec
  /\ []<>(wire = {} \/ ~Running) \/ []<><<HandleReply>>_vars
  /\ []<>(finishing = {} \/ ~Running) \/ []<><<FinishRead>>_vars
  /\ []<>(pushes = {} \/ ~Running) \/ []<><<HandlePush>>_vars
  /\ []<>(push_replies = {} \/ ~Running) \/ []<><<HandlePushReply>>_vars
-----------------------------------------------------------------------------
(* What check_recovery_sources asserts: every tid it finds is known.       *)
TidsKnown ==
  /\ shard_to_read_map \subseteq PgShard \X DOMAIN tid_to_read_map
  /\ finishing \subseteq DOMAIN tid_to_read_map

(* Every reply finds what its handler asserts: a sub-read reply of a read  *)
(* that is known the shard in both maps, a push reply the recovery and the *)
(* shard it waits for.                                                     *)
RepliesExpected ==
  /\ \A m \in wire : m.tid \in DOMAIN tid_to_read_map =>
                       /\ <<m.to, m.tid>> \in shard_to_read_map
                       /\ m.to \in tid_to_read_map[m.tid].in_progress
  /\ \A reply \in push_replies :
       /\ reply.object \in DOMAIN recovery_ops
       /\ reply.from \in recovery_ops[reply.object].waiting_on_pushes

(* No assertion fails: what a read returns is what the decoder needs, the  *)
(* object context is there, PrimaryLogPG and ECBackend agree on what is    *)
(* being recovered, a read that is completed has its requests, and every   *)
(* reply finds what its handler expects.                                   *)
NoAssertFails == asserted = "" /\ TidsKnown /\ RepliesExpected

(* The assertions on which PrimaryLogPG and ECBackend must agree.          *)
Disagreements == {"recovery_ops.count", "recovering.count", "!recovery_ops.count",
                  "i != recovering.end()"}

(* Which errors can fail which assertion: what a read hands to the decoder *)
(* can be decoded, unless an error came in the repair of one chunk; the    *)
(* attributes are there, unless the shard asked for them failed; and the   *)
(* results are those of the requests, unless an error came for an object   *)
(* that was cancelled.  In other reads, there is a shard to ask for the    *)
(* attributes, unless one of two copies of a shard failed, and an object   *)
(* that was given up cannot be decoded, unless a copy can be read again,   *)
(* or errors are checked for.  No error makes PrimaryLogPG and ECBackend   *)
(* disagree, or a reply find nothing.                                      *)
FailuresExplained ==
  LET Had(kind) == \E u \in unforeseen : u[2] = kind
  IN  /\ TidsKnown /\ RepliesExpected
      /\ asserted \notin Disagreements
      /\ asserted = "pop.data.length()" => Had("repair")
      /\ asserted = "op.xattrs.size()" => Had("attributes")
      /\ asserted = "!need_attrs" => Had("copy") \/ Had("cancelled")
      /\ asserted \in {"returned.front()", "to_read.size()"} => Had("cancelled")
      /\ asserted = "complete.r == 0" =>
           Had("transient") \/ Had("cancelled") \/ CheckForErrors

(* An object that the primary does not think missing on a shard is there   *)
(* with all its pieces, and the shard does not think it misses it.         *)
NotMissingIsWhole ==
  \A p \in Acting, o \in Object :
    o \notin missing[p] =>
      Whole(p, o) /\ (p # Primary => o \notin local_missing[p])

(* A recovery that was started ends: complete, failed or cancelled, unless *)
(* its OSD does, or a read that is open had an error from one of two       *)
(* copies of a shard, or asked a shard that was down.                      *)
RecoveryEnds ==
  \A o \in Object :
    o \in recovering ~> \/ o \notin recovering \/ ~Running
                       \/ \E u \in unforeseen : u[2] \in {"copy", "down"}
=============================================================================
