------------------------------- MODULE ECWrite -------------------------------
(***************************************************************************)
(* The write pipeline of osd/ECBackend: an operation is submitted          *)
(* (submit_transaction, start_rmw), waits for its turn and for the reads   *)
(* of a read-modify-write (waiting_state, waiting_reads), is sent to every *)
(* shard (waiting_commit), and is finished when every shard has it on      *)
(* disk; finishing the last one submits an empty operation that makes the  *)
(* shards give up the rollback information.  With it go the log updates of *)
(* PrimaryLogPG::submit_log_entries, which call_write_ordered puts between *)
(* the writes, and the change of interval (on_change).                     *)
(*                                                                         *)
(* Connections and the object store are FIFO, so what is under way to and  *)
(* from a shard is given by three cursors into "sent", the sequence of the *)
(* messages of this interval.  The versions of the log are the tids of the *)
(* operations that carry one; the empty operations carry 0.                *)
(***************************************************************************)
EXTENDS Naturals, Sequences, FiniteSets, Functions

CONSTANTS
  Shards,       \* get_acting_recovery_backfill_shards()
  Primary,      \* whoami_shard() of the primary
  MinSize,      \* shards an interval needs to go active
  Cells,        \* (object, stripe) pairs, what a plan reads and writes
  Plans,        \* plans of get_write_plan (ECTransaction, external)
  MaxTid,       \* bound: no operation is submitted once this tid is used
  MaxInterval   \* bound on the changes of interval

(* to_read and will_write of a WritePlan; wipes are the cells that the     *)
(* operation changes without writing them (truncate, delete), the reason   *)
(* for invalidates_caches.  A stripe that is read is written.              *)
PlanSet == [to_read : SUBSET Cells, will_write : SUBSET Cells,
            wipes : SUBSET Cells]
NoPlan == [to_read |-> {}, will_write |-> {}, wipes |-> {}]

ASSUME ConstantsAssumption ==
  /\ Primary \in Shards
  /\ MinSize \in Nat
  /\ Plans \subseteq {p \in PlanSet : p.to_read \subseteq p.will_write}
  /\ MaxTid \in Nat
  /\ MaxInterval \in Nat

VARIABLES
  waiting_state, waiting_reads, waiting_commit,  \* the three queues, of tids
  op,               \* tid_to_op_map
  on_write,         \* callbacks of call_write_ordered that are being run
  log_entry_update_waiting_on,  \* PrimaryLogPG's log updates, by tid
  cache,            \* ExtentCache: per cell the tid that pins it, its content
  cache_invalid,    \* pipeline_state
  completed_to, committed_to,
  checking,         \* inside check_ops, with the PG lock held
  next_tid,
  projected_last_update,
  last_complete_ondisk,      \* of the primary, and what the peers reported
  min_last_complete_ondisk,
  sent,             \* messages of this interval, in the order of sending
  handled, stored, replied,  \* per shard: how many of them were handled, are
                             \* on disk, were answered to the primary
  head, ondisk,     \* per shard: newest version in the log, and on disk
  can_rollback_to,  \* per shard: the log's can_rollback_to
  log,              \* history: the writes and log updates that exist
  acked,            \* history: versions whose repop is all_committed
  interval

queueVars == <<waiting_state, waiting_reads, waiting_commit>>
ackVars   == <<last_complete_ondisk, min_last_complete_ondisk, acked>>
wireVars  == <<sent, handled, stored, replied>>
shardVars == <<head, ondisk, can_rollback_to>>
vars == <<queueVars, op, on_write, log_entry_update_waiting_on, cache,
          cache_invalid, completed_to, committed_to, checking, next_tid,
          projected_last_update, ackVars, wireVars, shardVars, log, interval>>

Larger(a, b) == IF a > b THEN a ELSE b

Update == [tid : Nat, version : Nat, pg_local_last_complete : Nat]
OpRecord ==
  [version : Nat, roll_forward_to : Nat, pg_local_last_complete : Nat,
   plan : PlanSet, using_cache : BOOLEAN,
   pending_read : SUBSET Cells, remote_read : SUBSET Cells,
   read_from : Nat, read_at : Nat, read_done : BOOLEAN,
   pending_commit : SUBSET Shards, on_all_commit : BOOLEAN,
   on_write : Seq(Update)]
Message == [tid : Nat, version : Nat, roll_forward_to : Nat, head : Nat,
            update : BOOLEAN]
LogEntry == [version : Nat, plan : PlanSet, read : [Cells -> SUBSET Nat]]
CacheEntry == [pin : Nat, content : SUBSET Nat]
Unpinned == [pin |-> 0, content |-> {}]

-----------------------------------------------------------------------------
(* What a cell holds after version v: the versions that changed it.        *)
Content(c, v) ==
  {e.version : e \in {x \in log : /\ x.version <= v
                                  /\ c \in x.plan.will_write \cup x.plan.wipes}}

requires_rmw(o)      == o.plan.to_read # {}
invalidates_cache(o) == o.plan.wipes # {}
read_in_progress(o)  == o.remote_read # {} /\ ~o.read_done
(* Every reply says both applied and committed, so pending_apply and       *)
(* pending_commit are one set.                                             *)
write_in_progress(o) == o.pending_commit # {}

(* Mutant: the primary does not count itself.                              *)
AllCommitted_peers(left) == left \subseteq {Primary}

(* Every shard has committed, so the writer can be told.                   *)
AllCommitted(left) == left = {}

LockFree == ~checking /\ on_write = <<>>

Op(t, v, rollForward, p, ack) ==
  [version |-> v, roll_forward_to |-> rollForward,
   pg_local_last_complete |-> head[Primary], plan |-> p, using_cache |-> TRUE,
   pending_read |-> {}, remote_read |-> {}, read_from |-> 0, read_at |-> 0,
   read_done |-> FALSE, pending_commit |-> {}, on_all_commit |-> ack,
   on_write |-> <<>>]

WithOp(f, t, o) == [u \in DOMAIN f \cup {t} |-> IF u = t THEN o ELSE f[u]]
Without(f, t)   == [u \in DOMAIN f \ {t} |-> f[u]]

(* Mutant: the pins are not released.                                      *)
Released_never(ts) == cache

(* release_write_pin of the operations ts: what they still pin goes.       *)
Released(ts) ==
  [c \in Cells |-> IF cache[c].pin \in ts THEN Unpinned ELSE cache[c]]
-----------------------------------------------------------------------------
Init ==
  /\ waiting_state = <<>> /\ waiting_reads = <<>> /\ waiting_commit = <<>>
  /\ op = <<>>
  /\ on_write = <<>>
  /\ log_entry_update_waiting_on = <<>>
  /\ cache = [c \in Cells |-> Unpinned]
  /\ cache_invalid = FALSE
  /\ completed_to = 0 /\ committed_to = 0
  /\ checking = FALSE
  /\ next_tid = 1
  /\ projected_last_update = 0
  /\ last_complete_ondisk = [s \in Shards |-> 0]
  /\ min_last_complete_ondisk = 0
  /\ sent = <<>>
  /\ handled = [s \in Shards |-> 0]
  /\ stored = [s \in Shards |-> 0]
  /\ replied = [s \in Shards |-> 0]
  /\ head = [s \in Shards |-> 0]
  /\ ondisk = [s \in Shards |-> 0]
  /\ can_rollback_to = [s \in Shards |-> 0]
  /\ log = {}
  /\ acked = {}
  /\ interval = 0

(* Mutant: roll forward to the newest version, committed or not.           *)
RollForwardTo_projected == Larger(projected_last_update, committed_to)

RollForwardTo == Larger(min_last_complete_ondisk, committed_to)

(* submit_transaction and start_rmw, as issue_repop calls them; check_ops  *)
(* follows.                                                                *)
submit_transaction(p) ==
  /\ LockFree
  /\ next_tid <= MaxTid
  /\ op' = WithOp(op, next_tid, Op(next_tid, next_tid, RollForwardTo, p, TRUE))
  /\ waiting_state' = Append(waiting_state, next_tid)
  /\ projected_last_update' = next_tid
  /\ next_tid' = next_tid + 1
  /\ checking' = TRUE
  /\ UNCHANGED <<waiting_reads, waiting_commit, on_write,
                 log_entry_update_waiting_on, cache, cache_invalid,
                 completed_to, committed_to, ackVars, wireVars, shardVars, log,
                 interval>>

(* Mutant: the callback runs at once.                                      *)
call_write_ordered_now(cb) == on_write' = <<cb>> /\ UNCHANGED op

(* submit_log_entries: a log update takes its version now, and is sent by  *)
(* a callback that call_write_ordered hangs on the last write that is not  *)
(* under way yet, or runs at once.                                         *)
call_write_ordered(cb) ==
  IF waiting_state # <<>>
  THEN LET t == waiting_state[Len(waiting_state)]
       IN /\ op' = [op EXCEPT ![t].on_write = Append(@, cb)]
          /\ UNCHANGED on_write
  ELSE IF waiting_reads # <<>>
  THEN LET t == waiting_reads[Len(waiting_reads)]
       IN /\ op' = [op EXCEPT ![t].on_write = Append(@, cb)]
          /\ UNCHANGED on_write
  ELSE /\ on_write' = <<cb>>
       /\ UNCHANGED op

submit_log_entries ==
  /\ LockFree
  /\ next_tid <= MaxTid
  /\ call_write_ordered([tid |-> next_tid, version |-> next_tid,
                         pg_local_last_complete |-> head[Primary]])
  /\ projected_last_update' = next_tid
  /\ next_tid' = next_tid + 1
  /\ UNCHANGED <<queueVars, log_entry_update_waiting_on, cache, cache_invalid,
                 completed_to, committed_to, checking, ackVars, wireVars,
                 shardVars, log, interval>>
-----------------------------------------------------------------------------
(* A message goes to every shard; the primary handles its own at once.     *)
Publish(t, v, rollForward, isUpdate) ==
  LET h == Larger(head[Primary], v)
  IN /\ sent' = Append(sent, [tid |-> t, version |-> v,
                              roll_forward_to |-> rollForward, head |-> h,
                              update |-> isUpdate])
     /\ handled' = [handled EXCEPT ![Primary] = @ + 1]
     /\ head' = [head EXCEPT ![Primary] = h]
     /\ can_rollback_to' =
          [can_rollback_to EXCEPT ![Primary] = Larger(@, rollForward)]
     /\ UNCHANGED <<stored, replied, ondisk>>

(* The callback of submit_log_entries: merge_new_log_entries locally,      *)
(* MOSDPGUpdateLogMissing to the peers.                                    *)
RunOnWrite ==
  /\ on_write # <<>>
  /\ LET cb == Head(on_write)
     IN /\ Publish(cb.tid, cb.version, min_last_complete_ondisk, TRUE)
        /\ log_entry_update_waiting_on' =
             WithOp(log_entry_update_waiting_on, cb.tid,
                    [version |-> cb.version, waiting_on |-> Shards,
                     pg_local_last_complete |-> cb.pg_local_last_complete])
        /\ log' = log \cup {[version |-> cb.version, plan |-> NoPlan,
                             read |-> [c \in Cells |-> {}]]}
  /\ on_write' = Tail(on_write)
  /\ UNCHANGED <<queueVars, op, cache, cache_invalid, completed_to,
                 committed_to, checking, next_tid, projected_last_update,
                 ackVars, interval>>

(* Mutant: a read-modify-write does not wait for the cache to be valid.    *)
CanStateToReads_nowait == waiting_state # <<>>

(* check_ops: try_state_to_reads, else try_reads_to_commit, else           *)
(* try_finish_rmw, until none of them does anything.                       *)
CanStateToReads ==
  /\ waiting_state # <<>>
  /\ ~(requires_rmw(op[Head(waiting_state)]) /\ cache_invalid)
CanReadsToCommit ==
  waiting_reads # <<>> /\ ~read_in_progress(op[Head(waiting_reads)])

(* Mutant: the operation leaves the pipeline when its messages are sent.   *)
CanFinishRmw_sent == waiting_commit # <<>>

CanFinishRmw ==
  waiting_commit # <<>> /\ ~write_in_progress(op[Head(waiting_commit)])

(* With the cache, reserve_extents_for_rmw pins what the operation writes, *)
(* and only what no earlier operation has pinned is read from the shards.  *)
try_state_to_reads ==
  /\ checking /\ on_write = <<>>
  /\ CanStateToReads
  /\ LET t == Head(waiting_state)
         o == op[t]
         cached == ~cache_invalid
         remote == IF cached THEN {c \in o.plan.to_read : cache[c].pin = 0}
                             ELSE o.plan.to_read
     IN /\ waiting_state' = Tail(waiting_state)
        /\ waiting_reads' = Append(waiting_reads, t)
        /\ cache_invalid' = (cache_invalid \/ invalidates_cache(o))
        /\ op' = [op EXCEPT ![t].using_cache = cached,
                            ![t].remote_read = remote,
                            ![t].pending_read = o.plan.to_read \ remote,
                            ![t].read_from = head[Primary]]
        /\ cache' = [c \in Cells |->
                       IF cached /\ c \in o.plan.will_write
                       THEN [cache[c] EXCEPT !.pin = t] ELSE cache[c]]
  /\ UNCHANGED <<waiting_commit, on_write, log_entry_update_waiting_on,
                 completed_to, committed_to, checking, next_tid,
                 projected_last_update, ackVars, wireVars, shardVars, log,
                 interval>>

(* What the operation has read when it is committed: the extents read from *)
(* the shards, and those the cache kept for it.                            *)
Read(o) ==
  [c \in Cells |-> IF c \in o.remote_read THEN Content(c, o.read_at)
                   ELSE IF c \in o.pending_read THEN cache[c].content
                   ELSE {}]

(* The content of a cell after operation o of tid t wrote it.              *)
Written(o, c) ==
  {o.version} \cup (IF c \in o.plan.to_read THEN Read(o)[c]
                    ELSE Content(c, head[Primary]))

try_reads_to_commit ==
  /\ checking /\ on_write = <<>>
  /\ ~CanStateToReads
  /\ CanReadsToCommit
  /\ LET t == Head(waiting_reads)
         o == op[t]
     IN /\ waiting_reads' = Tail(waiting_reads)
        /\ waiting_commit' = Append(waiting_commit, t)
        /\ op' = [op EXCEPT ![t].pending_commit = Shards,
                            ![t].pending_read = {},
                            ![t].remote_read = {},
                            ![t].on_write = <<>>]
        /\ cache' = [c \in Cells |->
                       IF o.using_cache /\ c \in o.plan.will_write
                       THEN [cache[c] EXCEPT !.content = Written(o, c)]
                       ELSE cache[c]]
        /\ log' = IF o.version = 0 THEN log
                  ELSE log \cup {[version |-> o.version, plan |-> o.plan,
                                  read |-> Read(o)]}
        /\ Publish(t, o.version, o.roll_forward_to, FALSE)
        /\ on_write' = o.on_write
  /\ UNCHANGED <<waiting_state, log_entry_update_waiting_on, cache_invalid,
                 completed_to, committed_to, checking, next_tid,
                 projected_last_update, ackVars, interval>>

(* Mutant: compared with what the operation rolls forward to.              *)
KickRollForward_field(o, reads, commits) ==
  /\ o.roll_forward_to > can_rollback_to[Primary]
  /\ reads = <<>> /\ commits = <<>>

(* When the dummy operation that kicks the roll forward is submitted.      *)
KickRollForward(o, reads, commits) ==
  o.version > can_rollback_to[Primary] /\ reads = <<>> /\ commits = <<>>

(* Mutant: the cache becomes valid again when all three queues are empty.  *)
PipelineEmpty_all(reads, commits) ==
  waiting_state = <<>> /\ reads = <<>> /\ commits = <<>>

PipelineEmpty(reads, commits) == reads = <<>> /\ commits = <<>>

try_finish_rmw ==
  /\ checking /\ on_write = <<>>
  /\ ~CanStateToReads
  /\ ~CanReadsToCommit
  /\ CanFinishRmw
  /\ LET t == Head(waiting_commit)
         o == op[t]
         kick == KickRollForward(o, waiting_reads, Tail(waiting_commit))
     IN /\ waiting_commit' = Tail(waiting_commit)
        /\ completed_to' = Larger(completed_to, o.roll_forward_to)
        /\ committed_to' = Larger(committed_to, o.version)
        /\ IF kick
           THEN /\ op' = Without(WithOp(op, next_tid,
                             Op(next_tid, 0, o.version, NoPlan, FALSE)), t)
                /\ waiting_reads' = Append(waiting_reads, next_tid)
                /\ next_tid' = next_tid + 1
           ELSE /\ op' = Without(op, t)
                /\ UNCHANGED <<waiting_reads, next_tid>>
        /\ cache' = IF o.using_cache THEN Released({t}) ELSE cache
        /\ cache_invalid' =
             (cache_invalid /\ ~PipelineEmpty(waiting_reads', waiting_commit'))
  /\ UNCHANGED <<waiting_state, on_write, log_entry_update_waiting_on,
                 checking, projected_last_update, ackVars, wireVars, shardVars,
                 log, interval>>

check_ops_done ==
  /\ checking /\ on_write = <<>>
  /\ ~CanStateToReads /\ ~CanReadsToCommit /\ ~CanFinishRmw
  /\ checking' = FALSE
  /\ UNCHANGED <<queueVars, op, on_write, log_entry_update_waiting_on, cache,
                 cache_invalid, completed_to, committed_to, next_tid,
                 projected_last_update, ackVars, wireVars, shardVars, log,
                 interval>>

(* objects_read_async_no_cache calls back: the shards were read at some    *)
(* time between the sending and now, version v.                            *)
RemoteReadDone(t, v) ==
  /\ LockFree
  /\ t \in Range(waiting_reads)
  /\ read_in_progress(op[t])
  /\ op[t].read_from <= v /\ v <= head[Primary]
  /\ op' = [op EXCEPT ![t].read_done = TRUE, ![t].read_at = v]
  /\ checking' = TRUE
  /\ UNCHANGED <<queueVars, on_write, log_entry_update_waiting_on, cache,
                 cache_invalid, completed_to, committed_to, next_tid,
                 projected_last_update, ackVars, wireVars, shardVars, log,
                 interval>>
-----------------------------------------------------------------------------
(* A peer handles the next message: handle_sub_write, or                   *)
(* do_update_log_missing.                                                  *)
handle_sub_write(s) ==
  /\ handled[s] < Len(sent)
  /\ LET m == sent[handled[s] + 1]
     IN /\ head' = [head EXCEPT ![s] = m.head]
        /\ can_rollback_to' =
             [can_rollback_to EXCEPT ![s] = Larger(@, m.roll_forward_to)]
  /\ handled' = [handled EXCEPT ![s] = @ + 1]
  /\ UNCHANGED <<queueVars, op, on_write, log_entry_update_waiting_on, cache,
                 cache_invalid, completed_to, committed_to, checking, next_tid,
                 projected_last_update, ackVars, sent, stored, replied, ondisk,
                 log, interval>>

(* The object store commits the transaction of the next message, and       *)
(* sub_write_committed sends the reply (on the primary, calls the handler).*)
sub_write_committed(s) ==
  /\ stored[s] < handled[s]
  /\ ondisk' = [ondisk EXCEPT ![s] = Larger(@, sent[stored[s] + 1].head)]
  /\ stored' = [stored EXCEPT ![s] = @ + 1]
  /\ UNCHANGED <<queueVars, op, on_write, log_entry_update_waiting_on, cache,
                 cache_invalid, completed_to, committed_to, checking, next_tid,
                 projected_last_update, ackVars, sent, handled, replied, head,
                 can_rollback_to, log, interval>>

NextReply(s) == sent[replied[s] + 1]

(* repop_all_committed: complete_write, and the writer is told; lcods is   *)
(* last_complete_ondisk with what the reply reported.                      *)
repop_all_committed(v, local, lcods) ==
  /\ acked' = acked \cup {v}
  /\ last_complete_ondisk' = [lcods EXCEPT ![Primary] = local]
  /\ min_last_complete_ondisk' \in Range(last_complete_ondisk')
  /\ \A s \in Shards : min_last_complete_ondisk' <= last_complete_ondisk'[s]

(* update_peer_last_complete_ondisk, for a peer.                           *)
Reported(s) ==
  IF s = Primary THEN last_complete_ondisk
  ELSE [last_complete_ondisk EXCEPT ![s] = NextReply(s).head]

handle_sub_write_reply(s) ==
  /\ LockFree
  /\ replied[s] < stored[s]
  /\ ~NextReply(s).update
  /\ LET t == NextReply(s).tid
         left == op[t].pending_commit \ {s}
         all == AllCommitted(left) /\ op[t].on_all_commit
     IN /\ t \in DOMAIN op /\ s \in op[t].pending_commit
        /\ op' = [op EXCEPT ![t].pending_commit = left,
                            ![t].on_all_commit = @ /\ ~all]
        /\ IF all
           THEN repop_all_committed(op[t].version,
                                    op[t].pg_local_last_complete, Reported(s))
           ELSE /\ last_complete_ondisk' = Reported(s)
                /\ UNCHANGED <<acked, min_last_complete_ondisk>>
  /\ replied' = [replied EXCEPT ![s] = @ + 1]
  /\ checking' = TRUE
  /\ UNCHANGED <<queueVars, on_write, log_entry_update_waiting_on, cache,
                 cache_invalid, completed_to, committed_to, next_tid,
                 projected_last_update, sent, handled, stored, shardVars, log,
                 interval>>

(* do_update_log_missing_reply, and OnComplete for the primary's own.      *)
do_update_log_missing_reply(s) ==
  /\ LockFree
  /\ replied[s] < stored[s]
  /\ NextReply(s).update
  /\ LET t == NextReply(s).tid
         u == log_entry_update_waiting_on[t]
         left == u.waiting_on \ {s}
     IN /\ t \in DOMAIN log_entry_update_waiting_on /\ s \in u.waiting_on
        /\ IF AllCommitted(left)
           THEN /\ repop_all_committed(u.version, u.pg_local_last_complete,
                                       Reported(s))
                /\ log_entry_update_waiting_on' =
                     Without(log_entry_update_waiting_on, t)
           ELSE /\ last_complete_ondisk' = Reported(s)
                /\ log_entry_update_waiting_on' =
                     [log_entry_update_waiting_on EXCEPT
                        ![t].waiting_on = left]
                /\ UNCHANGED <<acked, min_last_complete_ondisk>>
  /\ replied' = [replied EXCEPT ![s] = @ + 1]
  /\ UNCHANGED <<queueVars, op, on_write, cache, cache_invalid, completed_to,
                 committed_to, checking, next_tid, projected_last_update, sent,
                 handled, stored, shardVars, log, interval>>
-----------------------------------------------------------------------------
(* on_change.  Peering (external) goes with it: of the shards that are up, *)
(* at least MinSize, the shortest log wins; its head is h.  A shard that   *)
(* crashed may have kept anything from what was on disk to what it         *)
(* handled.  The others roll back to h or catch up with it.                *)
PossibleHead(h) ==
  /\ \E s \in Shards : ondisk[s] <= h /\ h <= head[s]
  /\ Cardinality({s \in Shards : h <= head[s]}) >= MinSize

on_change(h) ==
  /\ LockFree
  /\ interval < MaxInterval
  /\ PossibleHead(h)
  /\ interval' = interval + 1
  /\ completed_to' = 0 /\ committed_to' = 0
  /\ cache_invalid' = FALSE
  /\ waiting_state' = <<>> /\ waiting_reads' = <<>> /\ waiting_commit' = <<>>
  /\ cache' = Released(DOMAIN op)
  /\ op' = <<>>
  /\ log_entry_update_waiting_on' = <<>>
  /\ projected_last_update' = h
  /\ last_complete_ondisk' = [s \in Shards |-> 0]
  /\ min_last_complete_ondisk' = 0
  /\ sent' = <<>>
  /\ handled' = [s \in Shards |-> 0]
  /\ stored' = [s \in Shards |-> 0]
  /\ replied' = [s \in Shards |-> 0]
  /\ head' = [s \in Shards |-> h]
  /\ ondisk' = [s \in Shards |-> h]
  /\ log' = {e \in log : e.version <= h}
  /\ UNCHANGED <<on_write, checking, next_tid, can_rollback_to, acked>>

Next ==
  \/ \E p \in Plans : submit_transaction(p)
  \/ submit_log_entries
  \/ RunOnWrite
  \/ try_state_to_reads
  \/ try_reads_to_commit
  \/ try_finish_rmw
  \/ check_ops_done
  \/ \E t \in DOMAIN op, v \in {0} \cup {e.version : e \in log} :
       RemoteReadDone(t, v)
  \/ \E s \in Shards : \/ handle_sub_write(s)
                       \/ sub_write_committed(s)
                       \/ handle_sub_write_reply(s)
                       \/ do_update_log_missing_reply(s)
  \/ \E h \in {0} \cup {e.version : e \in log} : on_change(h)

Spec == Init /\ [][Next]_vars

(* Replies, object-store completions and reads come back, and check_ops    *)
(* runs to its end; new operations and changes of interval need not come.  *)
FairSpec ==
  /\ Spec
  /\ WF_vars(RunOnWrite)
  /\ WF_vars(try_state_to_reads \/ try_reads_to_commit \/ try_finish_rmw
             \/ check_ops_done)
  /\ WF_vars(\E t \in DOMAIN op, v \in {0} \cup {e.version : e \in log} :
               RemoteReadDone(t, v))
  /\ \A s \in Shards : /\ WF_vars(handle_sub_write(s))
                       /\ WF_vars(sub_write_committed(s))
                       /\ WF_vars(handle_sub_write_reply(s))
                       /\ WF_vars(do_update_log_missing_reply(s))
-----------------------------------------------------------------------------
Waiting == [version : Nat, waiting_on : SUBSET Shards,
            pg_local_last_complete : Nat]
(* The types of the variables; what is queued is in tid_to_op_map.         *)
TypeOK ==
  /\ \A q \in {waiting_state, waiting_reads, waiting_commit} :
       q \in Seq(Nat) /\ \A i \in DOMAIN q : q[i] \in DOMAIN op
  /\ DOMAIN op \subseteq Nat /\ op \in [DOMAIN op -> OpRecord]
  /\ on_write \in Seq(Update)
  /\ DOMAIN log_entry_update_waiting_on \subseteq Nat
  /\ log_entry_update_waiting_on
       \in [DOMAIN log_entry_update_waiting_on -> Waiting]
  /\ cache \in [Cells -> CacheEntry]
  /\ cache_invalid \in BOOLEAN
  /\ completed_to \in Nat /\ committed_to \in Nat
  /\ checking \in BOOLEAN
  /\ next_tid \in Nat
  /\ projected_last_update \in Nat
  /\ last_complete_ondisk \in [Shards -> Nat]
  /\ min_last_complete_ondisk \in Nat
  /\ sent \in Seq(Message)
  /\ handled \in [Shards -> Nat]
  /\ stored \in [Shards -> Nat]
  /\ replied \in [Shards -> Nat]
  /\ head \in [Shards -> Nat]
  /\ ondisk \in [Shards -> Nat]
  /\ can_rollback_to \in [Shards -> Nat]
  /\ log \subseteq LogEntry
  /\ acked \subseteq Nat
  /\ interval \in Nat

(* A shard gives up the rollback information of a version only when every  *)
(* shard has that version on disk: whatever log wins the next peering, no  *)
(* shard has to undo what it can no longer undo.                           *)
RollForwardSafe ==
  \A r, s \in Shards : can_rollback_to[r] <= ondisk[s]

(* A version that was acknowledged is on the disk of every shard.          *)
AckedOnEveryShard == \A v \in acked, s \in Shards : v <= ondisk[s]

(* The assertions of the reply handlers: the tid of the next reply of a    *)
(* shard is known, and still waits for that shard.                         *)
RepliesExpected ==
  \A s \in Shards : replied[s] < stored[s] =>
    LET m == NextReply(s)
    IN IF m.update
       THEN /\ m.tid \in DOMAIN log_entry_update_waiting_on
            /\ s \in log_entry_update_waiting_on[m.tid].waiting_on
       ELSE /\ m.tid \in DOMAIN op
            /\ s \in op[m.tid].pending_commit

(* A read-modify-write sees every earlier write of the cells it reads and  *)
(* no other, be it from the cache or from the shards.                      *)
ReadsLatest ==
  \A e \in log : \A c \in e.plan.to_read :
    e.read[c] = Content(c, e.version) \ {e.version}

(* Outside check_ops the pipeline is never stuck: an operation that waits  *)
(* for its turn waits for one that is under way; and when the pipeline is  *)
(* empty nothing is left in the map, pinned or invalid.                    *)
PipelineDrains ==
  LockFree =>
    /\ waiting_state # <<>> => waiting_reads # <<>> \/ waiting_commit # <<>>
    /\ waiting_state = <<>> /\ waiting_reads = <<>> /\ waiting_commit = <<>>
         => /\ DOMAIN op = {}
            /\ \A c \in Cells : cache[c] = Unpinned
            /\ ~cache_invalid

(* The log and the acknowledgements are those of CommitLog: versions are   *)
(* appended in order, writes and log updates alike, acknowledged once and  *)
(* in order, and no change of interval loses an acknowledged one.          *)
versions == {e.version : e \in log}
Log == INSTANCE CommitLog WITH log <- versions, Versions <- 0..MaxTid
WritesAreLogged == Log!Spec

(* Every operation leaves the pipeline: it is finished, or the interval    *)
(* changes.                                                                *)
EveryOpFinishes ==
  \A t \in 1..MaxTid : t \in DOMAIN op ~> t \notin DOMAIN op

(* A write of this interval that was acknowledged is rolled forward on     *)
(* every shard, even if no other write comes, unless the interval changes. *)
RollsForward ==
  \A v \in 1..MaxTid, i \in 0..MaxInterval :
    (/\ v \in acked /\ interval = i
     /\ \E j \in DOMAIN sent : sent[j].version = v /\ ~sent[j].update)
    ~> (interval # i \/ \A s \in Shards : can_rollback_to[s] >= v)
=============================================================================
