------------------------------ MODULE PGRecovery ------------------------------
(***************************************************************************)
(* PrimaryLogPG's part in recovery and backfill, on the primary of a PG of *)
(* an erasure-coded pool: which objects are started and when               *)
(* (start_recovery_ops), what waits for them, and how far a peer is said   *)
(* to be backfilled while clients go on writing.                           *)
(*                                                                         *)
(* The backend is seen through its interface: recover_object is followed   *)
(* by pushes to every shard that misses the object, by on_failed_pull or   *)
(* by cancel_pull.  Peers take the primary's messages in order; pushes     *)
(* have a priority of their own and may overtake them.  PeeringState,      *)
(* MissingLoc and the locks of object contexts are in headers outside the  *)
(* repository and modelled as the code here uses them.                     *)
(***************************************************************************)
EXTENDS BackfillInterval, Sequences, SequencesExt

CONSTANTS
  Primary, Peer,
  Needed,        \* shards it takes to rebuild an object
  HeadOf,        \* by object: its head, itself if it is one
  InitVer,       \* by object: its version, 0 if there is none
  Begin,         \* what activation may find: the targets and what lies on
                 \* their disks, what the others miss (a delete, if it does
                 \* not exist), and how many operations may come, reads fail
                 \* and sources outside the acting set go down
  LogTail,       \* the version at which the log begins
  Op,            \* client operations, numbered as they arrive
  MaxStart,      \* bound: objects one call of start_recovery_ops starts
  MaxInterval, MaxTrim,   \* bounds
  MaxLost        \* bound: writes not yet applied that a new interval loses

Shard == Peer \cup {Primary}

ASSUME PGRecoveryAssumption ==
  /\ Primary \notin Peer
  /\ HeadOf \in [Object -> Object] /\ InitVer \in [Object -> 0 .. LogTail]
  /\ \A b \in Begin : /\ b.targets \subseteq Peer /\ b.reads \in Nat
                      /\ b.missing \in [Shard -> SUBSET Object] /\ b.sources \in Nat
                      /\ b.ops \in Nat

VARIABLES
  log, applied,      \* the entries since LogTail, how many the backend applied
  tail,              \* log_tail
  disk, plog,        \* by shard and object; by peer: entries it has
  chan, pushes,      \* messages to a peer; pushes and their replies
  answers,           \* digests and acks to the primary
  missing,           \* by shard and object: the version it needs, or 0
  recovering,        \* by object: the recovery and what waits on it
  marker,            \* objects whose recovery_read_marker waits for a lock
  last_requested,
  targets, plb, tlb, \* backfill targets, peer_info.last_backfill, theirs
  bf,                \* the state of recover_backfill
  maxops,            \* recovery ops registered for hobject_t::get_max()
  pgstate, queued,   \* PG_STATE_..., recovery_queued
  ops,               \* by client operation: where it is
  reads, sources, intervals, asserted

logVars == <<log, applied, tail>>
diskVars == <<disk, plog>>
wireVars == <<chan, pushes, answers>>
bfVars == <<targets, plb, tlb, bf, maxops>>
stateVars == <<pgstate, queued>>
boundVars == <<reads, sources, intervals>>
vars == <<logVars, diskVars, wireVars, missing, recovering, marker,
          last_requested, bfVars, stateVars, ops, boundVars, asserted>>

Running == asserted = ""
Without(f, S) == [x \in DOMAIN f \ S |-> f[x]]
With(f, x, v) == [y \in DOMAIN f \cup {x} |-> IF y = x THEN v ELSE f[y]]
-----------------------------------------------------------------------------
(* The version of an object after n entries, 0 when it does not exist.     *)
VersionAt(o, n) ==
  LET S == {i \in 1 .. n : log[i].o = o}
  IN  IF S = {} THEN InitVer[o]
      ELSE IF log[Max(S)].del THEN 0 ELSE LogTail + Max(S)
Seen(o) == VersionAt(o, Len(log))
Committed(i) == i <= applied /\ \A p \in Peer : i <= plog[p]
Writing(o) == \E i \in 1 .. Len(log) : log[i].o = o /\ ~Committed(i)

Missing(s) == {o \in Object : missing[s][o] # 0}
needs_recovery(o) == \E s \in Shard : missing[s][o] # 0
Locations(o) == {s \in Shard : missing[s][o] = 0
                               /\ (s \in targets => o <= plb[s])}
is_deleted(o) == needs_recovery(o) /\ Seen(o) = 0
is_unfound(o) ==
  needs_recovery(o) /\ ~is_deleted(o) /\ Cardinality(Locations(o)) < Needed
have_unfound == \E o \in Object : is_unfound(o)
is_unreadable_object(o) ==
  \/ missing[Primary][o] # 0
  \/ needs_recovery(o) /\ Cardinality(Locations(o) \ targets) < Needed
is_snap(o) == HeadOf[o] # o

earliest_backfill == Min({plb[t] : t \in targets} \cup {MaxObj})

is_degraded_or_backfilling_object(o) ==
  \/ \E op \in Op : ops[op].st = "degraded" /\ ops[op].o = o
  \/ missing[Primary][o] # 0
  \/ \E p \in Peer : missing[p][o] # 0
  \/ \E t \in targets : plb[t] <= o /\ bf.started >= o /\ o \in bf.flight

should_send_op(p, o) == p \in targets => (o <= bf.started \/ o <= plb[p])
-----------------------------------------------------------------------------
(* R, the state one call works on: recovering, missing, marker,            *)
(* last_requested, what was started, whether work is in progress.          *)
CallState ==
  [rec |-> recovering, miss |-> missing, marker |-> marker,
   last |-> last_requested, started |-> 0, wip |-> FALSE, skipped |-> 0,
   asserted |-> ""]

recover_object(R, o, locked) ==
  [R EXCEPT
     !.asserted = IF o \in DOMAIN R.rec THEN "recovering.count" ELSE @,
     !.rec = With(@, o, [st |-> "reading", rl |-> locked, ver |-> Seen(o),
                         on |-> {s \in Shard : R.miss[s][o] # 0}])]

(* A deleted object is removed here first.                                 *)
remove_missing_object(R, o) ==
  [R EXCEPT
     !.asserted = IF o \in DOMAIN R.rec THEN "recovering.count" ELSE @,
     !.rec = With(@, o, [st |-> "removing", rl |-> FALSE, ver |-> 0,
                         on |-> {s \in Shard : R.miss[s][o] # 0}])]

(* The head is pulled before a clone: PULL_HEAD is a start and a skip.     *)
recover_missing(R, o) ==
  LET h == HeadOf[o]
      pull(u) == IF is_deleted(u) THEN remove_missing_object(R, u)
                 ELSE recover_object(R, u, FALSE)
      skip(S) == [S EXCEPT !.skipped = @ + 1]
      yes(S)  == [S EXCEPT !.started = @ + 1]
  IN  IF is_unfound(o) THEN skip(R)
      ELSE IF is_deleted(o) \/ ~is_snap(o) \/ R.miss[Primary][h] = 0
      THEN yes(pull(o))
      ELSE IF h \in DOMAIN R.rec \/ is_unfound(h) THEN skip(R)
      ELSE skip(yes(pull(h)))

(* get_recovery_read fails while the object is being written and leaves    *)
(* the marker that makes the last writer queue the recovery again.         *)
LockBusy(R, o) == [R EXCEPT !.marker = @ \cup {o}, !.wip = TRUE]

prep_object_replica_pushes(R, o) ==
  LET h == HeadOf[o]
  IN  IF is_snap(o) /\ R.miss[Primary][h] # 0
      THEN IF h \in DOMAIN R.rec THEN R
           ELSE [recover_missing(R, h) EXCEPT !.skipped = R.skipped]
      ELSE IF Writing(o) THEN LockBusy(R, o)
      ELSE [recover_object(R, o, TRUE) EXCEPT !.started = @ + 1]

(* A replica's copy of a deleted object: the primary has none to lock.     *)
prep_object_replica_deletes(R, o) ==
  IF Writing(o) THEN LockBusy(R, o)
  ELSE [[remove_missing_object(R, o) EXCEPT !.rec[o].st = "reading"]
        EXCEPT !.started = @ + 1]

(* Oldest first; needs are compared with what is missing at the beginning. *)
ByNeed(S, s) == SetToSortSeq(S, LAMBDA a, b : missing[s][a] < missing[s][b])

(* Mutant: last_requested moves past what was skipped.                     *)
Advances_skipping(S) == S.started < MaxStart

(* last_requested is only advanced if nothing was skipped.                 *)
Advances(S) == S.started < MaxStart /\ S.skipped = 0

PullStep(R, o) ==
  LET S == IF o \in DOMAIN R.rec THEN R
           ELSE IF HeadOf[o] \in DOMAIN R.rec THEN [R EXCEPT !.skipped = @ + 1]
           ELSE recover_missing(R, o)
  IN  IF R.started >= MaxStart THEN R
      ELSE IF Advances(S) THEN [S EXCEPT !.last = missing[Primary][o]]
      ELSE S

recover_primary(R) ==
  FoldLeft(PullStep, [R EXCEPT !.skipped = 0],
           ByNeed({o \in Missing(Primary) :
                     missing[Primary][o] >= last_requested}, Primary))

(* One object of one replica.                                              *)
RecoverOnReplica(R, p, o) ==
  IF R.started >= MaxStart \/ is_unfound(o) THEN R
  ELSE IF p \in targets /\ o > plb[p]
  THEN IF o \in DOMAIN R.rec THEN R
       ELSE [R EXCEPT !.asserted = "added for backfill but not in recovering"]
  ELSE IF o \in DOMAIN R.rec THEN R
  ELSE IF is_deleted(o) THEN prep_object_replica_deletes(R, o)
  ELSE IF R.miss[Primary][HeadOf[o]] # 0 \/ R.miss[Primary][o] # 0 THEN R
  ELSE prep_object_replica_pushes(R, o)

(* The replicas with the fewest missing objects first.                     *)
recover_replicas(R, order) ==
  FoldLeft(LAMBDA S, p :
             FoldLeft(LAMBDA T, o : RecoverOnReplica(T, p, o), S,
                      ByNeed(Missing(p), p)),
           R, order)
ReplicaOrders ==
  {q \in SetToSeqs({p \in Peer : Missing(p) # {}}) :
     \A i, j \in DOMAIN q :
       i < j => Cardinality(Missing(q[i])) <= Cardinality(Missing(q[j]))}

maybe_kick_recovery(o) ==
  IF ~needs_recovery(o) \/ o \in DOMAIN recovering \/ is_unfound(o)
  THEN CallState
  ELSE IF missing[Primary][o] # 0 THEN recover_missing(CallState, o)
  ELSE IF is_deleted(o) THEN prep_object_replica_deletes(CallState, o)
  ELSE prep_object_replica_pushes(CallState, o)
-----------------------------------------------------------------------------
(* recover_backfill works on B: its own state and that of the call.        *)
pgView ==
  [tail |-> tail, last_update |-> LogTail + applied,
   projected |-> LogTail + Len(log), disk |-> disk[Primary],
   seen |-> [o \in Object |-> Seen(o)],
   touched |-> [v \in 0 .. LogTail + Len(log) |->
                  {log[i].o : i \in {j \in 1 .. Len(log) : LogTail + j > v}}
                  \cup {o \in Object : InitVer[o] > v}]]

earliest_peer_backfill(pb) == Min({pb[t].begin : t \in targets})
all_peer_done(pb) == \A t \in targets : extends_to_end(pb[t]) /\ empty(pb[t])

(* The intervals at the beginning of a call.                               *)
BackfillState(R) ==
  LET fresh == [bf EXCEPT !.fresh = FALSE, !.flight = {}, !.pending = {},
                          !.peers = [t \in targets |-> reset(plb[t])],
                          !.mine = reset(bf.started)]
      B == IF bf.fresh THEN fresh ELSE bf
      mine == update_range([B.mine EXCEPT !.begin = B.started], pgView)
  IN  [B EXCEPT !.mine = trim_to(mine, B.started),
                !.peers = [t \in targets |->
                             trim_to(B.peers[t], Max({plb[t], B.started}))]]
       @@ [R |-> R, ops |-> 0, scans |-> {}, removes |-> {}, stat |-> {},
           stop |-> FALSE]

(* The local interval is refilled when all peers are past it.              *)
Refill(B) ==
  IF B.mine.begin <= earliest_peer_backfill(B.peers)
     /\ ~extends_to_end(B.mine) /\ empty(B.mine)
  THEN [B EXCEPT !.mine = trim(update_range(
          [reset(B.mine.end) EXCEPT !.end = MaxObj], pgView))]
  ELSE B

Scanners(B) ==
  {t \in targets : /\ B.peers[t].begin <= B.mine.begin
                   /\ ~extends_to_end(B.peers[t]) /\ empty(B.peers[t])}

SendScans(B) ==
  [B EXCEPT !.scans = Scanners(B), !.waiting = @ \cup Scanners(B),
            !.R.asserted = IF Scanners(B) \cap B.waiting = {} THEN @
                           ELSE "waiting_on_backfill.find(bt)",
            !.ops = @ + 1, !.stop = TRUE]

(* An object the primary does not have goes from the peers that do.        *)
RemoveStray(B, check) ==
  LET from == {t \in targets : B.peers[t].begin = check}
  IN  [B EXCEPT !.removes = @ \cup {[o |-> check, to |-> t] : t \in from},
                !.peers = [t \in targets |-> IF t \in from
                             THEN pop_front(B.peers[t]) ELSE B.peers[t]],
                !.started = check]

(* The targets that need the primary's next object: those with another     *)
(* version, and those that lack it and have come as far.                   *)
PushTargets(B, o) ==
  {t \in targets :
     IF B.peers[t].begin = o THEN B.peers[t].objects[o] # B.mine.objects[o]
     ELSE o > plb[t]}

(* prep_backfill_object_push: the peers miss the object from now on.       *)
PushObject(B, o, to) ==
  LET R1 == [B.R EXCEPT !.miss = [s \in Shard |-> IF s \in to
                THEN [@[s] EXCEPT ![o] = B.mine.objects[o]] ELSE @[s]]]
  IN  [B EXCEPT !.R = recover_object(R1, o, TRUE),
                !.flight = @ \cup {o}, !.ops = @ + 1]

PushOrKeep(B) ==
  LET o == B.mine.begin
      to == PushTargets(B, o)
      D == IF to = {} THEN B ELSE PushObject(B, o, to)
  IN  IF to # {} /\ Writing(o)
      THEN [B EXCEPT !.R = LockBusy(@, o), !.stop = TRUE]
      ELSE [D EXCEPT !.started = o, !.stat = @ \cup {o},
                     !.mine = pop_front(@),
                     !.peers = [t \in targets |-> IF B.peers[t].begin = o
                                  THEN pop_front(B.peers[t]) ELSE B.peers[t]]]

RECURSIVE BackfillLoop(_, _)
BackfillLoop(B0, max) ==
  LET B == Refill(B0)
      check == earliest_peer_backfill(B.peers)
  IN  IF B0.stop \/ B0.ops >= max THEN B0
      ELSE IF Scanners(B) # {} THEN SendScans(B)
      ELSE IF empty(B.mine) /\ all_peer_done(B.peers) THEN B
      ELSE IF check < B.mine.begin THEN BackfillLoop(RemoveStray(B, check), max)
      ELSE BackfillLoop(PushOrKeep(B), max)

(* How far the backfill is complete: up to the first object in flight, and *)
(* to the end when nothing is pending any more.                            *)
Complete(B) ==
  LET pos  == Min({B.mine.begin, earliest_peer_backfill(B.peers)})
      pend == B.pending \cup B.stat
                \cup {r.o : r \in {x \in B.removes : x.o <= B.started}}
      next == IF B.flight = {} THEN pos ELSE Min(B.flight)
      done == {o \in pend : o < next}
      upto == Max(done \cup {earliest_backfill})
      end  == pend = done /\ pos = MaxObj
  IN  [B EXCEPT !.pending = pend \ done, !.started = IF end THEN MaxObj ELSE @,
         !.R.asserted =
           IF \E o \in done : o <= earliest_backfill
           THEN "i->first > new_last_backfill"
           ELSE IF pend = done /\ upto # B.started
           THEN "new_last_backfill == last_backfill_started"
           ELSE IF end /\ B.flight # {} THEN "backfills_in_flight.empty"
           ELSE @]
      @@ [last_backfill |-> IF end THEN MaxObj ELSE upto]

recover_backfill(R, max) == Complete(BackfillLoop(BackfillState(R), max))
-----------------------------------------------------------------------------
Fresh(started) == [fresh |-> TRUE, started |-> started, mine |-> reset(MinObj),
                   peers |-> <<>>, flight |-> {}, pending |-> {}, waiting |-> {}]
AfterActivate(needs, T) ==
  IF needs THEN "recovering" ELSE IF T # {} THEN "backfilling" ELSE "clean"

Init ==
  /\ log = <<>> /\ applied = 0 /\ tail = LogTail
  /\ \E b \in Begin :
       /\ disk = [s \in Shard |-> [o \in Object |->
                    IF s \in b.targets THEN b.stale[o]
                    ELSE IF o \notin b.missing[s] THEN InitVer[o]
                    ELSE IF InitVer[o] = 0 THEN 1 ELSE 0]]
       /\ missing = [s \in Shard |-> [o \in Object |->
                       IF o \notin b.missing[s] THEN 0
                       ELSE IF InitVer[o] = 0 THEN LogTail ELSE InitVer[o]]]
       /\ ops = [op \in Op |-> [st |-> IF op <= b.ops THEN "new" ELSE "none",
                                o |-> 1, del |-> FALSE]]
       /\ targets = b.targets /\ reads = b.reads /\ sources = b.sources
       /\ pgstate = AfterActivate(\E s \in Shard : b.missing[s] # {}, b.targets)
  /\ plog = [p \in Peer |-> 0]
  /\ chan = [p \in Peer |-> <<>>] /\ pushes = {} /\ answers = {}
  /\ recovering = <<>> /\ marker = {} /\ last_requested = 0
  /\ plb = [p \in Peer |-> IF p \in targets THEN MinObj ELSE MaxObj] /\ tlb = plb
  /\ bf = Fresh(MinObj) /\ maxops = 0
  /\ queued = (pgstate # "clean")
  /\ intervals = 0 /\ asserted = ""

requeue_ops(sts, S) ==
  [op \in Op |-> IF ops[op].st \in sts /\ ops[op].o \in S
                 THEN [ops[op] EXCEPT !.st = "queued"] ELSE ops[op]]
Waits == {"unreadable", "degraded", "rw"}
queue_recovery == pgstate \in {"recovering", "backfilling"}

(* An operation waits for its object to be readable or whole and may start *)
(* its recovery; it waits for a lock that recovery has or asks for.        *)
Kick(o) ==
  \E R \in {maybe_kick_recovery(o)} :
    /\ recovering' = R.rec /\ marker' = R.marker /\ asserted' = R.asserted

DoOpWaits(op, o, del) ==
  /\ \/ /\ is_unreadable_object(o)
        /\ ops' = [ops EXCEPT ![op] = [st |-> "unreadable", o |-> o, del |-> del]]
        /\ Kick(o)
     \/ /\ ~is_unreadable_object(o) /\ is_degraded_or_backfilling_object(o)
        /\ ops' = [ops EXCEPT ![op] = [st |-> "degraded", o |-> o, del |-> del]]
        /\ Kick(o)
     \/ /\ ~is_unreadable_object(o) /\ ~is_degraded_or_backfilling_object(o)
        /\ o \in marker \/ (o \in DOMAIN recovering /\ recovering[o].rl)
        /\ ops' = [ops EXCEPT ![op] = [st |-> "rw", o |-> o, del |-> del]]
        /\ UNCHANGED <<recovering, marker, asserted>>
  /\ UNCHANGED <<logVars, bf>>

(* The write gets its version and is in the projected log; what it changes *)
(* in the statistics waits with the object if its backfill is under way.   *)
DoOpWrites(op, o, del) ==
  /\ ~is_unreadable_object(o) /\ ~is_degraded_or_backfilling_object(o)
  /\ o \notin marker /\ (o \in DOMAIN recovering => ~recovering[o].rl)
  /\ ops' = [ops EXCEPT ![op] =
        [st |-> IF del /\ Seen(o) = 0 THEN "ENOENT" ELSE "done", o |-> o, del |-> del]]
  /\ log' = IF del /\ Seen(o) = 0 THEN log
            ELSE Append(log, [o |-> o, del |-> del])
  /\ bf' = [bf EXCEPT !.pending =
              IF log' # log /\ \E t \in targets : o > plb[t] /\ o <= bf.started
              THEN @ \cup {o} ELSE @]
  /\ UNCHANGED <<applied, tail, recovering, marker, asserted>>

do_op(op) ==
  /\ Running /\ ops[op].st \in {"new", "queued"}
  /\ \A q \in Op : q < op => ops[q].st # "new"
  /\ \E o \in {u \in Object : ~is_snap(u)}, del \in BOOLEAN :
       /\ ops[op].st = "queued" => o = ops[op].o /\ del = ops[op].del
       /\ DoOpWaits(op, o, del) \/ DoOpWrites(op, o, del)
  /\ UNCHANGED <<diskVars, wireVars, missing, last_requested, targets, plb,
                 tlb, maxops, stateVars, boundVars>>

(* The backend applies the next write here and sends it to the peers.      *)
Dispatch ==
  LET e == log[applied + 1]
      ver == IF e.del THEN 0 ELSE LogTail + applied + 1
  IN  /\ Running /\ applied < Len(log)
      /\ applied' = applied + 1
      /\ disk' = [disk EXCEPT ![Primary][e.o] = ver]
      /\ chan' = [p \in Peer |-> Append(chan[p],
                    [k |-> "write", o |-> e.o, ver |-> ver,
                     data |-> should_send_op(p, e.o)])]
      /\ UNCHANGED <<log, tail, plog, pushes, answers, missing, recovering,
                     marker, last_requested, bfVars, stateVars, ops, boundVars,
                     asserted>>

(* The log may be trimmed up to what all have.                             *)
TrimLog ==
  /\ Running /\ tail - LogTail < MaxTrim
  /\ tail - LogTail < Len(log) /\ Committed(tail - LogTail + 1)
  /\ tail' = tail + 1
  /\ UNCHANGED <<log, applied, diskVars, wireVars, missing, recovering, marker,
                 last_requested, bfVars, stateVars, ops, boundVars, asserted>>
-----------------------------------------------------------------------------
(* What start_recovery_ops does up to the backfill, with the replicas      *)
(* taken in this order.                                                    *)
LogRecovery(order) ==
  LET R == IF \A o \in Missing(Primary) : is_unfound(o)
           THEN recover_replicas(CallState, order) ELSE CallState
  IN  IF R.started = 0 THEN recover_primary(R) ELSE R

BackfillNow(R) ==
  /\ DOMAIN R.rec = {} /\ pgstate = "backfilling" /\ targets # {}
  /\ R.started < MaxStart /\ Missing(Primary) = {} /\ bf.waiting = {}

StartCall(order) ==
  LET R == LogRecovery(order)
      idle == bf @@ [R |-> R, ops |-> 0, scans |-> {}, removes |-> {}, stat |-> {},
                     stop |-> FALSE, last_backfill |-> MinObj]
  IN  IF BackfillNow(R) THEN recover_backfill(R, MaxStart - R.started) ELSE idle

Behind(B) == {t \in targets : B.last_backfill > plb[t]}

(* The messages of one call to a peer, in order.                           *)
CallMessages(B, t) ==
  LET os == {r.o : r \in {x \in B.removes : x.to = t}}
  IN  (IF t \in B.scans THEN <<[k |-> "scan", begin |-> B.peers[t].end]>> ELSE <<>>)
      \o (IF os # {} THEN <<[k |-> "remove", os |-> os]>> ELSE <<>>)
      \o (IF t \notin Behind(B) THEN <<>>
          ELSE <<[k |-> IF B.last_backfill = MaxObj THEN "finish" ELSE "progress",
                  lb |-> B.last_backfill]>>)

(* What is left when nothing is under way any more.                        *)
Ending(R) ==
  IF have_unfound THEN [st |-> "unfound", asserted |-> ""]
  ELSE IF Missing(Primary) # {}
  THEN [st |-> pgstate, asserted |-> "recovery ending with missing"]
  ELSE IF \E o \in Object : needs_recovery(o)
  THEN [st |-> pgstate, asserted |-> "recovery ending with missing replicas"]
  ELSE [st |-> AfterActivate(FALSE, IF pgstate = "recovering" THEN targets ELSE {}),
        asserted |-> ""]

start_recovery_ops ==
  /\ Running /\ queued
  /\ \E order \in ReplicaOrders : \E B \in {StartCall(order)} :
       LET fin == IF B.last_backfill = MaxObj THEN Cardinality(Behind(B)) ELSE 0
           wip == B.R.started > 0 \/ B.R.wip \/ B.ops > 0
           over == ~wip /\ DOMAIN B.R.rec = {} /\ maxops' = 0
           E == IF over THEN Ending(B.R) ELSE [st |-> pgstate, asserted |-> ""]
       IN  /\ recovering' = B.R.rec /\ missing' = B.R.miss
           /\ marker' = B.R.marker /\ last_requested' = B.R.last
           /\ bf' = [f \in DOMAIN bf |-> B[f]]
           /\ plb' = [t \in DOMAIN plb |-> IF t \in Behind(B)
                                          THEN B.last_backfill ELSE plb[t]]
           /\ maxops' = maxops + fin + (IF B.scans = {} THEN 0 ELSE 1)
           /\ chan' = [p \in Peer |-> IF p \in targets
                          THEN chan[p] \o CallMessages(B, p) ELSE chan[p]]
           /\ pgstate' = E.st
           /\ queued' = (E.st = "backfilling" /\ pgstate = "recovering")
           /\ asserted' = IF B.R.asserted # "" THEN B.R.asserted ELSE E.asserted
  /\ UNCHANGED <<logVars, diskVars, pushes, answers, targets, tlb, ops, boundVars>>
-----------------------------------------------------------------------------
(* A write that was the last of an object whose lock recovery waits for    *)
(* queues the recovery and lets the operations that waited go on.          *)
Released(p) ==
  {o \in marker : \A i \in 1 .. Len(log) : log[i].o = o =>
     i <= applied /\ \A q \in Peer : i <= plog[q] + (IF q = p THEN 1 ELSE 0)}

PeerLogs(p, m) ==
  /\ m.k \in {"write", "missing"}
  /\ plog' = [plog EXCEPT ![p] = @ + 1]
  /\ disk' = IF m.k = "write" /\ m.data
             THEN [disk EXCEPT ![p][m.o] = m.ver] ELSE disk
  /\ marker' = marker \ Released(p)
  /\ ops' = requeue_ops({"rw"}, Released(p))
  /\ queued' = (queued \/ (Released(p) # {} /\ queue_recovery))
  /\ UNCHANGED <<tlb, answers>>

do_scan(p, m) ==
  LET bi == scan_range(reset(m.begin), disk[p], disk[p])
  IN  /\ m.k = "scan"
      /\ answers' = answers \cup {[k |-> "digest", from |-> p,
                                   bi |-> [bi EXCEPT !.begin = m.begin]]}
      /\ UNCHANGED <<diskVars, tlb, marker, ops, queued>>

do_backfill_remove(p, m) ==
  /\ m.k = "remove"
  /\ disk' = [disk EXCEPT ![p] = [o \in Object |-> IF o \in m.os THEN 0 ELSE @[o]]]
  /\ UNCHANGED <<plog, answers, tlb, marker, ops, queued>>

do_backfill(p, m) ==
  /\ m.k \in {"progress", "finish"}
  /\ tlb' = [tlb EXCEPT ![p] = m.lb]
  /\ answers' = IF m.k = "finish"
                THEN answers \cup {[k |-> "ack", from |-> p]} ELSE answers
  /\ UNCHANGED <<diskVars, marker, ops, queued>>

PeerRecv(p) ==
  /\ Running /\ chan[p] # <<>>
  /\ chan' = [chan EXCEPT ![p] = Tail(@)]
  /\ \E m \in {Head(chan[p])} :
       \/ PeerLogs(p, m) \/ do_scan(p, m)
       \/ do_backfill_remove(p, m) \/ do_backfill(p, m)
  /\ UNCHANGED <<logVars, pushes, missing, recovering, last_requested, targets,
                 plb, bf, maxops, pgstate, boundVars, asserted>>

(* finish_recovery_op for the scans and the end.                           *)
RecvDigest(a) ==
  /\ a.k = "digest"
  /\ bf' = [bf EXCEPT !.peers[a.from] = a.bi, !.waiting = @ \ {a.from}]
  /\ LET last == bf.waiting = {a.from}
     IN  /\ maxops' = IF last THEN maxops - 1 ELSE maxops
         /\ queued' = (queued \/ (last /\ queue_recovery))

RecvFinishAck(a) ==
  /\ a.k = "ack"
  /\ maxops' = maxops - 1
  /\ queued' = (queued \/ queue_recovery)
  /\ UNCHANGED bf

PrimaryRecv(a) ==
  /\ Running /\ answers' = answers \ {a}
  /\ RecvDigest(a) \/ RecvFinishAck(a)
  /\ UNCHANGED <<logVars, diskVars, chan, pushes, missing, recovering, marker,
                 last_requested, targets, plb, tlb, pgstate, ops, boundVars,
                 asserted>>
-----------------------------------------------------------------------------
(* The backend has read the object and pushes it to the shards that miss   *)
(* it; a delete is pushed as version 0.                                    *)
BackendPushes(o) ==
  /\ Running /\ recovering[o].st = "reading"
  /\ recovering' = [recovering EXCEPT ![o].st = "pushing"]
  /\ pushes' = pushes \cup {[o |-> o, to |-> s, ver |-> recovering[o].ver,
                             done |-> FALSE] : s \in recovering[o].on}
  /\ UNCHANGED <<logVars, diskVars, chan, answers, missing, marker,
                 last_requested, bfVars, stateVars, ops, boundVars, asserted>>

(* The primary has its copy: the object can be read again.                 *)
on_local_recover(o, deleted) ==
  /\ missing' = [missing EXCEPT ![Primary][o] = 0]
  /\ recovering' = [recovering EXCEPT ![o].rl = @ \/ ~deleted,
                                      ![o].st = IF deleted THEN "removed" ELSE @]
  /\ asserted' = IF ~deleted /\ Writing(o) THEN "got" ELSE ""
  /\ ops' = IF Cardinality((Locations(o) \cup {Primary}) \ targets) < Needed
            THEN ops ELSE requeue_ops({"unreadable"}, {o})

PushArrives(x) ==
  /\ Running /\ ~x.done
  /\ disk' = [disk EXCEPT ![x.to][x.o] = x.ver]
  /\ pushes' = (pushes \ {x}) \cup {[x EXCEPT !.done = TRUE]}
  /\ IF x.to = Primary THEN on_local_recover(x.o, FALSE)
     ELSE UNCHANGED <<missing, recovering, asserted, ops>>
  /\ UNCHANGED <<logVars, plog, chan, answers, marker, last_requested, bfVars,
                 stateVars, boundVars>>

(* Mutant: the object stays in flight.                                     *)
on_global_recover_flight(o) ==
  /\ recovering' = Without(recovering, {o})
  /\ ops' = requeue_ops(Waits, {o})
  /\ queued' = (queued \/ queue_recovery)
  /\ UNCHANGED bf

(* Mutant: what waits for the lock of recovery is forgotten.               *)
on_global_recover_readers(o) ==
  /\ recovering' = Without(recovering, {o})
  /\ ops' = requeue_ops({"unreadable", "degraded"}, {o})
  /\ queued' = (queued \/ queue_recovery)
  /\ bf' = [bf EXCEPT !.flight = @ \ {o}]

(* All that missed the object have it: its waiters go on.                  *)
on_global_recover(o) ==
  /\ recovering' = Without(recovering, {o})
  /\ ops' = requeue_ops(Waits, {o})
  /\ queued' = (queued \/ queue_recovery)
  /\ bf' = [bf EXCEPT !.flight = @ \ {o}]

PushReply(x) ==
  /\ Running /\ x.done
  /\ pushes' = pushes \ {x}
  /\ missing' = [missing EXCEPT ![x.to][x.o] = 0]
  /\ IF \E y \in pushes' : y.o = x.o
     THEN UNCHANGED <<recovering, ops, queued, bf>>
     ELSE on_global_recover(x.o)
  /\ UNCHANGED <<logVars, diskVars, chan, answers, marker, last_requested,
                 targets, plb, tlb, maxops, pgstate, boundVars, asserted>>

(* A deleted object is removed by a first transaction, the second one      *)
(* goes on with the replicas or ends the recovery.                         *)
RemoveApplied(o) ==
  /\ Running /\ recovering[o].st = "removing"
  /\ disk' = [disk EXCEPT ![Primary][o] = 0]
  /\ on_local_recover(o, TRUE)
  /\ UNCHANGED <<logVars, plog, wireVars, marker, last_requested, bfVars,
                 stateVars, boundVars>>

RemoveCompletes(o) ==
  /\ Running /\ recovering[o].st = "removed"
  /\ IF \E p \in Peer : missing[p][o] # 0
     THEN /\ recovering' = [recovering EXCEPT ![o].st = "reading",
                              ![o].on = {p \in Peer : missing[p][o] # 0}]
          /\ UNCHANGED <<ops, queued, bf>>
     ELSE on_global_recover(o)
  /\ UNCHANGED <<logVars, diskVars, wireVars, missing, marker, last_requested,
                 targets, plb, tlb, maxops, pgstate, boundVars, asserted>>

(* The read failed on so many shards that nobody is left to ask instead;   *)
(* they miss the object from now on.                                       *)
on_failed_pull(o, from) ==
  /\ Running /\ reads > 0 /\ reads' = reads - 1
  /\ Cardinality(Locations(o) \ from) < Needed
  /\ recovering[o].st = "reading" /\ recovering[o].ver # 0
  /\ recovering' = Without(recovering, {o})
  /\ missing' = [s \in Shard |-> IF s \in from
                   THEN [missing[s] EXCEPT ![o] = recovering[o].ver]
                   ELSE missing[s]]
  /\ last_requested' = IF Primary \in from THEN 0 ELSE last_requested
  /\ bf' = IF Primary \in from THEN [bf EXCEPT !.flight = @ \ {o}] ELSE bf
  /\ ops' = IF recovering[o].rl THEN requeue_ops({"rw"}, {o}) ELSE ops
  /\ queued' = (queued \/ queue_recovery)
  /\ UNCHANGED <<logVars, diskVars, wireVars, marker, targets, plb, tlb, maxops,
                 pgstate, sources, intervals, asserted>>

(* A source outside the acting set went down.  There is none for an object *)
(* that is being backfilled: missing_loc does not have it.                 *)
cancel_pull(o) ==
  /\ Running /\ sources > 0 /\ sources' = sources - 1
  /\ recovering[o].st = "reading" /\ o \notin bf.flight
  /\ recovering' = Without(recovering, {o})
  /\ ops' = requeue_ops(Waits, {o})
  /\ last_requested' = IF missing[Primary][o] # 0 THEN 0 ELSE last_requested
  /\ queued' = (queued \/ queue_recovery)
  /\ UNCHANGED <<logVars, diskVars, wireVars, missing, marker, bfVars, pgstate,
                 reads, intervals, asserted>>
-----------------------------------------------------------------------------
Unfound == {o \in Object : is_unfound(o)}

(* mark_unfound_lost delete: a delete of each unfound object is logged, by *)
(* all, and recovery goes on when they have it.                            *)
mark_all_unfound_lost ==
  LET lost == SetToSortSeq(Unfound, <)
      at(o) == LogTail + Len(log) + CHOOSE i \in DOMAIN lost : lost[i] = o
  IN  /\ Running /\ pgstate = "unfound" /\ applied = Len(log)
      /\ log' = log \o [i \in DOMAIN lost |-> [o |-> lost[i], del |-> TRUE]]
      /\ applied' = Len(log')
      /\ missing' = [s \in Shard |-> [o \in Object |->
           IF o \in Unfound /\ (s \in targets => o <= plb[s])
           THEN at(o) ELSE missing[s][o]]]
      /\ chan' = [p \in Peer |-> chan[p] \o
                    [i \in DOMAIN lost |-> [k |-> "missing"]]]
      /\ pgstate' = "lost"
      /\ UNCHANGED <<tail, diskVars, pushes, answers, recovering, marker,
                     last_requested, bfVars, queued, ops, boundVars, asserted>>

LostCommitted ==
  /\ Running /\ pgstate = "lost" /\ \A i \in DOMAIN log : Committed(i)
  /\ pgstate' = "recovering" /\ queued' = TRUE
  /\ UNCHANGED <<logVars, diskVars, wireVars, missing, recovering, marker,
                 last_requested, bfVars, ops, boundVars, asserted>>

(* on_change forgets what was under way and requeues what waits;           *)
(* activation starts from what the peers have on disk.  Writes the backend *)
(* has not applied are lost and requeued; those it has applied are taken   *)
(* to be committed (what happens to the others is in ECWrite).             *)
NewInterval ==
  LET T == {t \in targets : tlb[t] # MaxObj}
      miss == [s \in Shard |-> [o \in Object |->
                 IF (s \in T /\ o > tlb[s]) \/ disk[s][o] = VersionAt(o, applied)
                 THEN 0 ELSE missing[s][o]]]
  IN  /\ Running /\ intervals < MaxInterval /\ intervals' = intervals + 1
      /\ \A i \in 1 .. applied : Committed(i)
      /\ Len(log) - applied <= MaxLost
      /\ log' = SubSeq(log, 1, applied)
      /\ chan' = [p \in Peer |-> <<>>] /\ pushes' = {} /\ answers' = {}
      /\ missing' = miss /\ recovering' = <<>> /\ marker' = {}
      /\ last_requested' = 0
      /\ targets' = T /\ plb' = tlb /\ maxops' = 0
      /\ bf' = Fresh(Min({tlb[t] : t \in T} \cup {MaxObj}))
      /\ pgstate' = AfterActivate(\E s \in Shard, o \in Object : miss[s][o] # 0, T)
      /\ queued' = (pgstate' # "clean")
      /\ ops' = [op \in Op |->
                   IF ops[op].st = "done" /\ ops[op].o \in {log[i].o : i \in applied + 1 .. Len(log)}
                   THEN [ops[op] EXCEPT !.st = "queued"] ELSE requeue_ops(Waits, Object)[op]]
      /\ UNCHANGED <<applied, tail, diskVars, tlb, reads, sources, asserted>>

Next ==
  \/ \E op \in Op : do_op(op)
  \/ Dispatch \/ TrimLog
  \/ start_recovery_ops
  \/ \E p \in Peer : PeerRecv(p)
  \/ \E a \in answers : PrimaryRecv(a)
  \/ \E o \in DOMAIN recovering :
       \/ BackendPushes(o) \/ RemoveApplied(o) \/ RemoveCompletes(o)
       \/ cancel_pull(o)
       \/ \E from \in SUBSET Locations(o) \ {{}} : on_failed_pull(o, from)
  \/ \E x \in pushes : PushArrives(x) \/ PushReply(x)
  \/ mark_all_unfound_lost \/ LostCommitted
  \/ NewInterval

Spec == Init /\ [][Next]_vars

(* The osd's queues and the network go on; clients, failures, trimming and *)
(* new intervals need not happen, an operator sooner or later gives up     *)
(* what is unfound.                                                        *)
Fairness ==
  /\ WF_vars(Dispatch)
  /\ []<>~(queued /\ Running) \/ []<><<start_recovery_ops>>_vars
  /\ WF_vars(\E p \in Peer : PeerRecv(p))
  /\ WF_vars(\E a \in answers : PrimaryRecv(a))
  /\ WF_vars(\E o \in DOMAIN recovering :
               BackendPushes(o) \/ RemoveApplied(o) \/ RemoveCompletes(o))
  /\ WF_vars(\E x \in pushes : PushArrives(x) \/ PushReply(x))
  /\ WF_vars(mark_all_unfound_lost) /\ WF_vars(LostCommitted)
  /\ \A op \in Op : []<>~(ops[op].st = "queued" /\ Running) \/ []<><<do_op(op)>>_vars
FairSpec == Spec /\ Fairness
-----------------------------------------------------------------------------
(* No assertion of recovery or backfill fails, and no recovery ends with   *)
(* objects missing ("this shouldn't happen!").                             *)
NoAssertFails == Running

(* What a peer would say after a crash is true: up to its last_backfill it *)
(* has every object at the version its own log says, or lists it missing,  *)
(* although pushes, deletes, writes and the progress messages are under    *)
(* way at the same time.                                                   *)
BackfilledIsWhole ==
  \A p \in Peer, o \in Object :
    (p \in targets => o <= tlb[p]) =>
      disk[p][o] = VersionAt(o, plog[p]) \/ missing[p][o] # 0
      \/ /\ disk[p][o] = 0
         /\ \E i \in plog[p] + 1 .. Len(log) : log[i].o = o /\ log[i].del
      \/ \E i \in DOMAIN chan[p] : chan[p][i].k = "missing"

(* Recovery and backfill come to an end and leave every shard with every   *)
(* object at its version, whatever fails, is marked lost, or begins anew   *)
(* in another interval.                                                    *)
BecomesClean ==
  <>[](~Running \/ /\ pgstate = "clean"
                   /\ \A s \in Shard, o \in Object : disk[s][o] = Seen(o))

(* No operation waits for ever for an object to be recovered, or for a     *)
(* lock that recovery has or asks for.                                     *)
PutOffIsDone ==
  []<>(~Running \/ \A op \in Op : ops[op].st \in {"none", "new", "done", "ENOENT"})
=============================================================================
