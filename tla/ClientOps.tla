------------------------------ MODULE ClientOps ------------------------------
(***************************************************************************)
(* How the primary of a PG of an erasure-coded pool takes the operations   *)
(* of its clients: where do_request and do_op make them wait, the locks of *)
(* object contexts, execute_ctx with its asynchronous reads, the queue of  *)
(* repops, resent operations, and what is put back in the queue when an    *)
(* interval ends.                                                          *)
(*                                                                         *)
(* The backend is seen through its interface: reads are answered and       *)
(* writes are committed in the order they were given to it (the models of  *)
(* ECBackend show both).  Peering, object locks and the op queue are in    *)
(* headers outside the repository.  Backoffs, maps the primary does not    *)
(* have yet and operations refused at sight are left out.                  *)
(***************************************************************************)
EXTENDS Naturals, Sequences, SequencesExt

CONSTANTS
  NObjects,
  Begin   \* what a behaviour starts from: the operations of the clients
          \* ([c, o, kind], in the order of each client's tids), the objects
          \* that exist, by object what recovery owes it now and after a new
          \* interval, and the bounds on scrubs, lost leases, new intervals

Object == 1 .. NObjects
Kind == {"read", "write", "guarded", "create", "delete"}
Health == {"whole", "degraded", "unreadable"}

ASSUME ClientOpsAssumption ==
  /\ NObjects \in Nat
  /\ \A b \in Begin :
       /\ \A i \in DOMAIN b.ops : /\ b.ops[i].o \in Object
                                  /\ b.ops[i].kind \in Kind
       /\ b.exists \subseteq Object
       /\ {b.bad, b.after} \subseteq [Object -> Health]
       /\ {b.scrubs, b.leases, b.intervals} \subseteq Nat

VARIABLES
  begin,         \* the element of Begin
  toSend,        \* by client: what it has to send
  queue,         \* the PG's op queue
  pg,            \* st, flush: flushes in progress, late: the lease has run
                 \* out, laggy, scrub: the object being scrubbed
  waiting,       \* by name: waiting_for_peered, _flush, _active, _readable, _scrub
  unreadable, degraded, \* waiting_for_unreadable_object, _degraded_object
  rw,            \* by object: rwstate.waiters
  async,         \* in_progress_async_reads
  repops,        \* repop_queue: op, version, object and the lock it holds
  ondisk,        \* waiting_for_ondisk: resent operations and their versions
  log, stable,   \* the log with the projected log; how much is committed
  bad,           \* by object: what recovery owes it
  replies,       \* replies on their way
  answered,      \* by operation: the reply its client got
  floor,         \* by operation, once sent: the newest write of its object
                 \* that had been answered by then
  bounds, asserted

clientVars == <<toSend, answered, floor>>
waitVars == <<waiting, unreadable, degraded>>
workVars == <<rw, async, repops, ondisk>>
vars == <<begin, clientVars, queue, pg, waitVars, workVars, log, stable, bad,
          replies, bounds, asserted>>

Running == asserted = ""
None == "none"
Op == DOMAIN begin.ops
Obj(op) == begin.ops[op].o
kind(op) == begin.ops[op].kind
may_write(op) == kind(op) # "read"
Client == {begin.ops[op].c : op \in Op}
OpsOf(c) == {op \in Op : begin.ops[op].c = c}
ListName == {"peered", "flush", "active", "readable", "scrub"}
NoLists == [l \in ListName |-> <<>>]
NoWaiters == [x \in Object |-> <<>>]
-----------------------------------------------------------------------------
(* What the log says of an object: the version of its last change.         *)
Changes(x) == {i \in DOMAIN log : log[i].o = x /\ log[i].r = "ok"}
VersionOf(x) == Max(Changes(x) \cup {0})
Exists(x) == IF Changes(x) = {} THEN x \in begin.exists
             ELSE kind(log[VersionOf(x)].op) # "delete"

Reply(op, r, v) == [op |-> op, r |-> r, v |-> v]
NoReply == Reply(0, None, 0)

(* C, the part of the state a call moves operations about in.              *)
Call == [queue |-> queue, waiting |-> waiting, rw |-> rw, async |-> async,
         repops |-> repops, ondisk |-> ondisk, scrub |-> pg.scrub,
         laggy |-> pg.laggy]

Becomes(C) ==
  /\ queue' = C.queue /\ waiting' = C.waiting /\ rw' = C.rw
  /\ async' = C.async /\ repops' = C.repops /\ ondisk' = C.ondisk

requeue_ops(C, ls) == [C EXCEPT !.queue = ls \o @]

SetList(C, l, ls)  == [C EXCEPT !.waiting = [C.waiting EXCEPT ![l] = ls]]
PutFirst(C, l, ls) == SetList(C, l, ls \o C.waiting[l])
PutLast(C, l, op)  == SetList(C, l, Append(C.waiting[l], op))

LockType(op) == CASE kind(op) = "read" -> "read"
                  [] kind(op) = "guarded" -> "excl"
                  [] OTHER -> "write"

Holders(C, x) ==
  {LockType(C.async[i]) : i \in {j \in DOMAIN C.async : Obj(C.async[j]) = x}}
  \cup {C.repops[i].lock : i \in {j \in DOMAIN C.repops :
                          C.repops[j].o = x /\ C.repops[j].lock # None}}

(* A mutant: reads and writes share the object.                            *)
get_rw_locks_shared(op) ==
  rw[Obj(op)] = <<>> /\ Holders(Call, Obj(op)) \subseteq {"read", "write"}

get_rw_locks(op) ==
  /\ rw[Obj(op)] = <<>>
  /\ Holders(Call, Obj(op)) \subseteq {LockType(op)} \ {"excl"}

(* A mutant: the waiters go to the end of the queue.                       *)
release_object_locks_back(C, x) ==
  IF Holders(C, x) # {} THEN C
  ELSE [C EXCEPT !.rw = [C.rw EXCEPT ![x] = <<>>], !.queue = @ \o C.rw[x]]

(* The last holder gives the waiters back, to the front of what blocks     *)
(* them next.                                                              *)
release_object_locks(C, x) ==
  LET w == C.rw[x]
      D == [C EXCEPT !.rw = [C.rw EXCEPT ![x] = <<>>]]
  IN  IF Holders(C, x) # {} THEN C
      ELSE IF C.scrub = x THEN PutFirst(D, "scrub", w)
      ELSE IF C.laggy THEN PutFirst(D, "readable", w)
      ELSE requeue_ops(D, w)
-----------------------------------------------------------------------------
(* execute_ctx.  First: not yet after the asynchronous read.               *)
Reads(op, first) ==
  first /\ kind(op) \in {"read", "guarded"} /\ Exists(Obj(op))

do_osd_ops(op) == CASE kind(op) = "create" /\ Exists(Obj(op)) -> "EEXIST"
                    [] kind(op) \in {"guarded", "delete"} /\ ~Exists(Obj(op))
                         -> "ENOENT"
                    [] OTHER -> "ok"

start_async_reads(C, op) ==
  /\ Becomes([C EXCEPT !.async = Append(@, op)])
  /\ UNCHANGED <<log, replies>>

complete_read_ctx(C, op) ==
  /\ Becomes(release_object_locks(C, Obj(op)))
  /\ replies' = replies \cup {Reply(op, "ok", VersionOf(Obj(op)))}
  /\ UNCHANGED log

(* issue_repop, or for an error record_write_error: its entry holds no     *)
(* lock, what the context held is released.                                *)
issue_repop(C, op) ==
  LET r == do_osd_ops(op)
      v == Len(log) + 1
      repop == [op |-> op, v |-> v, o |-> Obj(op),
                lock |-> IF r = "ok" THEN LockType(op) ELSE None]
      D == [C EXCEPT !.repops = Append(@, repop)]
  IN  /\ log' = Append(log, [op |-> op, o |-> Obj(op), r |-> r])
      /\ Becomes(IF r = "ok" THEN D ELSE release_object_locks(D, Obj(op)))
      /\ UNCHANGED replies

execute_ctx(C, op, first) ==
  /\ IF Reads(op, first) THEN start_async_reads(C, op)
     ELSE IF may_write(op) THEN issue_repop(C, op)
     ELSE complete_read_ctx(C, op)
  /\ UNCHANGED <<begin, clientVars, pg, unreadable, degraded, stable, bad,
                 bounds, asserted>>
-----------------------------------------------------------------------------
(* do_request and do_op take the head of the queue; each early return is   *)
(* an action.                                                              *)
Taken == [Call EXCEPT !.queue = Tail(@)]
Arrives(op) == Running /\ queue # <<>> /\ op = Head(queue)
Peered == pg.st \in {"peered", "active"}

Stage == IF ~Peered THEN "peered"
         ELSE IF pg.flush THEN "flush"
         ELSE IF pg.st # "active" THEN "active" ELSE None

do_request(op) ==
  /\ Arrives(op) /\ Stage # None
  /\ Becomes(PutLast(Taken, Stage, op))
  /\ UNCHANGED <<begin, clientVars, pg, unreadable, degraded, log, stable,
                 bad, replies, bounds, asserted>>

(* A lease that has run out makes the PG laggy.                            *)
check_laggy == ~pg.late /\ ~pg.laggy
WaitReadable(op) ==
  /\ Arrives(op) /\ Stage = None /\ ~check_laggy
  /\ pg' = [pg EXCEPT !.laggy = TRUE]
  /\ Becomes(PutLast(Taken, "readable", op))
  /\ UNCHANGED <<begin, clientVars, unreadable, degraded, log, stable, bad,
                 replies, bounds, asserted>>

Past(op) == Arrives(op) /\ Stage = None /\ check_laggy

WaitObject(op) ==
  /\ Past(op)
  /\ \/ /\ bad[Obj(op)] = "unreadable"
        /\ unreadable' = [unreadable EXCEPT ![Obj(op)] = Append(@, op)]
        /\ UNCHANGED degraded
     \/ /\ bad[Obj(op)] = "degraded" /\ may_write(op)
        /\ degraded' = [degraded EXCEPT ![Obj(op)] = Append(@, op)]
        /\ UNCHANGED unreadable
  /\ Becomes(Taken)
  /\ UNCHANGED <<begin, clientVars, pg, log, stable, bad, replies, bounds,
                 asserted>>

Healthy(op) ==
  bad[Obj(op)] = "whole" \/ (bad[Obj(op)] = "degraded" /\ ~may_write(op))

WaitScrub(op) ==
  /\ Past(op) /\ Healthy(op) /\ may_write(op) /\ pg.scrub = Obj(op)
  /\ Becomes(PutLast(Taken, "scrub", op))
  /\ UNCHANGED <<begin, clientVars, pg, unreadable, degraded, log, stable,
                 bad, replies, bounds, asserted>>

Unblocked(op) == Past(op) /\ Healthy(op) /\ ~(may_write(op) /\ pg.scrub = Obj(op))

check_in_progress_op(op) == {i \in DOMAIN log : log[i].op = op}
(* A mutant: what is in the log is taken for committed.                    *)
already_complete_logged(v) == v \in DOMAIN log

already_complete(v) == \A i \in DOMAIN repops : repops[i].v > v
Dup(op) == may_write(op) /\ check_in_progress_op(op) # {}

(* A resent operation: answered from the log, or with the original.        *)
DoDup(op) ==
  /\ Unblocked(op) /\ Dup(op)
  /\ \E v \in {Min(check_in_progress_op(op))} :
       IF already_complete(v)
       THEN /\ replies' = replies \cup {Reply(op, log[v].r, v)}
            /\ Becomes(Taken)
       ELSE /\ Becomes([Taken EXCEPT !.ondisk = @ \cup {[op |-> op, v |-> v]}])
            /\ UNCHANGED replies
  /\ UNCHANGED <<begin, clientVars, pg, unreadable, degraded, log, stable,
                 bad, bounds, asserted>>

WaitLock(op) ==
  /\ Unblocked(op) /\ ~Dup(op) /\ ~get_rw_locks(op)
  /\ Becomes([Taken EXCEPT !.rw = [rw EXCEPT ![Obj(op)] = Append(@, op)]])
  /\ UNCHANGED <<begin, clientVars, pg, unreadable, degraded, log, stable,
                 bad, replies, bounds, asserted>>

do_op(op) ==
  /\ Unblocked(op) /\ ~Dup(op) /\ get_rw_locks(op)
  /\ IF may_write(op) \/ Exists(Obj(op)) THEN execute_ctx(Taken, op, TRUE)
     ELSE /\ replies' = replies \cup {Reply(op, "ENOENT", VersionOf(Obj(op)))}
          /\ Becomes(Taken)
          /\ UNCHANGED <<begin, clientVars, pg, unreadable, degraded, log,
                         stable, bad, bounds, asserted>>

(* The backend answers the read at the head of in_progress_async_reads.    *)
finish_read ==
  /\ Running /\ async # <<>>
  /\ execute_ctx([Call EXCEPT !.async = Tail(@)], Head(async), FALSE)
-----------------------------------------------------------------------------
(* The oldest repop is on disk everywhere: answer it and its dups, remove  *)
(* it and release its lock.                                                *)
DupsOf(v) == {w.op : w \in {d \in ondisk : d.v = v}}

eval_repop ==
  /\ Running /\ repops # <<>>
  /\ \E p \in {Head(repops)} :
       LET dups == DupsOf(p.v)
           C == [Call EXCEPT
                   !.repops = Tail(@),
                   !.ondisk = {w \in ondisk : w.v # p.v}]
       IN  /\ stable' = p.v
           /\ replies' = replies \cup {Reply(op, log[p.v].r, p.v) :
                                         op \in dups \cup {p.op}}
           /\ asserted' = IF dups # {} /\ Min({w.v : w \in ondisk}) # p.v
                          THEN "waiting_for_ondisk.begin() == v" ELSE ""
           /\ Becomes(IF p.lock = None THEN C ELSE release_object_locks(C, p.o))
  /\ UNCHANGED <<begin, clientVars, pg, unreadable, degraded, log, bad, bounds>>
-----------------------------------------------------------------------------
(* Recovery, scrub and leases let go what waits for them.                  *)
on_local_recover(x) ==
  /\ Running /\ pg.st = "active" /\ bad[x] = "unreadable"
  /\ bad' = [bad EXCEPT ![x] = "degraded"]
  /\ Becomes(requeue_ops(Call, unreadable[x]))
  /\ unreadable' = [unreadable EXCEPT ![x] = <<>>]
  /\ UNCHANGED <<begin, clientVars, pg, degraded, log, stable, replies, bounds,
                 asserted>>

on_global_recover(x) ==
  /\ Running /\ pg.st = "active" /\ bad[x] = "degraded"
  /\ bad' = [bad EXCEPT ![x] = "whole"]
  /\ Becomes(requeue_ops(requeue_ops(Call, degraded[x]), unreadable[x]))
  /\ degraded' = [degraded EXCEPT ![x] = <<>>]
  /\ unreadable' = [unreadable EXCEPT ![x] = <<>>]
  /\ UNCHANGED <<begin, clientVars, pg, log, stable, replies, bounds, asserted>>

ScrubStarts(x) ==
  /\ Running /\ pg.st = "active" /\ pg.scrub = 0 /\ bounds.scrubs > 0
  /\ pg' = [pg EXCEPT !.scrub = x]
  /\ bounds' = [bounds EXCEPT !.scrubs = @ - 1]
  /\ UNCHANGED <<begin, clientVars, queue, waitVars, workVars, log, stable,
                 bad, replies, asserted>>

ScrubEnds ==
  /\ Running /\ pg.scrub # 0
  /\ pg' = [pg EXCEPT !.scrub = 0]
  /\ Becomes(requeue_ops(SetList(Call, "scrub", <<>>), waiting["scrub"]))
  /\ UNCHANGED <<begin, clientVars, unreadable, degraded, log, stable, bad,
                 replies, bounds, asserted>>

LeaseExpires ==
  /\ Running /\ pg.st = "active" /\ ~pg.late /\ bounds.leases > 0
  /\ pg' = [pg EXCEPT !.late = TRUE]
  /\ bounds' = [bounds EXCEPT !.leases = @ - 1]
  /\ UNCHANGED <<begin, clientVars, queue, waitVars, workVars, log, stable,
                 bad, replies, asserted>>

recheck_readable ==
  /\ Running /\ pg.st = "active" /\ pg.late
  /\ pg' = [pg EXCEPT !.late = FALSE, !.laggy = FALSE]
  /\ Becomes(requeue_ops(SetList(Call, "readable", <<>>),
                         IF pg.laggy THEN waiting["readable"] ELSE <<>>))
  /\ UNCHANGED <<begin, clientVars, unreadable, degraded, log, stable, bad,
                 replies, bounds, asserted>>
-----------------------------------------------------------------------------
(* The acting set has the log: it is stable from now on.                   *)
on_activate_complete(st) ==
  /\ Running /\ pg.st = "peering"
  /\ st = "peered" => bounds.intervals > 0
  /\ pg' = [pg EXCEPT !.st = st]
  /\ stable' = Len(log)
  /\ asserted' = IF pg.flush /\ waiting["peered"] # <<>> /\ waiting["flush"] # <<>>
                 THEN "waiting_for_flush.empty()" ELSE ""
  /\ Becomes(IF pg.flush
             THEN SetList(SetList(Call, "peered", <<>>), "flush",
                          IF waiting["peered"] = <<>> THEN waiting["flush"]
                          ELSE waiting["peered"])
             ELSE requeue_ops(SetList(Call, "peered", <<>>), waiting["peered"]))
  /\ UNCHANGED <<begin, clientVars, unreadable, degraded, log, bad, replies,
                 bounds>>

on_flushed ==
  /\ Running /\ pg.flush
  /\ pg' = [pg EXCEPT !.flush = FALSE]
  /\ asserted' = IF ~Peered /\ (async # <<>> \/ repops # <<>>)
                 THEN "object_contexts.empty()" ELSE ""
  /\ Becomes(requeue_ops(SetList(Call, "flush", <<>>), waiting["flush"]))
  /\ UNCHANGED <<begin, clientVars, unreadable, degraded, log, stable, bad,
                 replies, bounds>>

(* Mutant: the contexts of the reads live on.                              *)
clear_async_reads_kept(C) == requeue_ops(C, C.async)

(* The read at the head of in_progress_async_reads is dropped.             *)
drop_read(C) ==
  LET op == Head(C.async)
      D == release_object_locks([C EXCEPT !.async = Tail(@)], Obj(op))
  IN  requeue_ops(D, <<op>>)

clear_async_reads(C) ==
  LET after[n \in 0 .. Len(C.async)] ==
        IF n = 0 THEN C ELSE drop_read(after[n - 1])
  IN  after[Len(C.async)]

(* The locks go first, then the repops and their dups in front of all.     *)
remove_repop(C) ==
  LET p == Head(C.repops)
      D == [C EXCEPT !.repops = Tail(@)]
  IN  IF p.lock = None THEN D ELSE release_object_locks(D, p.o)

apply_and_flush_repops(C) ==
  LET rq == FlattenSeq([i \in DOMAIN C.repops |->
              <<C.repops[i].op>> \o SetToSeq(DupsOf(C.repops[i].v))])
      after[n \in 0 .. Len(C.repops)] ==
        IF n = 0 THEN C ELSE remove_repop(after[n - 1])
  IN  requeue_ops([after[Len(C.repops)] EXCEPT !.ondisk = {}], rq)

requeue_object_waiters(C, w) == requeue_ops(C, FlattenSeq([x \in Object |-> w[x]]))

(* The lists of do_request are taken; scrub and lease are over.            *)
Unstaged == [queue |-> queue, waiting |-> NoLists, rw |-> rw, async |-> async,
             repops |-> repops, ondisk |-> ondisk, scrub |-> 0, laggy |-> FALSE]

(* Mutant: the waiters for degraded objects are forgotten.                 *)
on_change_degraded ==
  LET staged == waiting["readable"] \o waiting["active"] \o waiting["flush"]
                \o waiting["peered"]
      A == requeue_ops(Unstaged, staged)
      B == requeue_object_waiters(A, unreadable)
      D == requeue_ops(B, waiting["scrub"])
  IN  apply_and_flush_repops(clear_async_reads(D))

(* on_change: everything is requeued in the reverse of the order in which  *)
(* it should be looked at again.                                           *)
on_change ==
  LET staged == waiting["readable"] \o waiting["active"] \o waiting["flush"]
                \o waiting["peered"]
      A == requeue_ops(Unstaged, staged)
      B == requeue_object_waiters(A, unreadable)
      C == requeue_object_waiters(B, degraded)
      D == requeue_ops(C, waiting["scrub"])
  IN  apply_and_flush_repops(clear_async_reads(D))

Dropped == [queue |-> <<>>, waiting |-> NoLists, rw |-> NoWaiters,
            async |-> <<>>, repops |-> <<>>, ondisk |-> {}]

(* A new interval, on this primary or on another one.  Entries that were   *)
(* not committed everywhere may be rolled back.  Clients send again what   *)
(* was not answered: always to another primary.                            *)
Resend(c) == {op \in OpsOf(c) : answered[op] = NoReply} \cup toSend[c]

NewInterval(same, resend, keep) ==
  /\ Running /\ bounds.intervals > 0 /\ keep \in stable .. Len(log)
  /\ bounds' = [bounds EXCEPT !.intervals = @ - 1]
  /\ log' = SubSeq(log, 1, keep)
  /\ pg' = [st |-> "peering", flush |-> TRUE, late |-> FALSE, laggy |-> FALSE,
            scrub |-> 0]
  /\ bad' = begin.after
  /\ unreadable' = NoWaiters /\ degraded' = NoWaiters
  /\ IF same THEN Becomes(on_change) /\ UNCHANGED replies
             ELSE Becomes(Dropped) /\ resend /\ replies' \in {replies, {}}
  /\ toSend' = IF resend THEN [c \in Client |-> Resend(c)] ELSE toSend
  /\ asserted' = IF same /\ \E w \in ondisk : \A i \in DOMAIN repops : repops[i].v # w.v
                 THEN "waiting_for_ondisk.empty()" ELSE ""
  /\ UNCHANGED <<begin, answered, floor, stable>>

(* An undersized PG gets its acting set back.                              *)
LeavePeered == pg.st = "peered" /\ NewInterval(TRUE, FALSE, Len(log))
-----------------------------------------------------------------------------
Answered(x) == {answered[op].v : op \in {p \in Op :
                   Obj(p) = x /\ answered[p] # NoReply /\ may_write(p)
                   /\ answered[p].r = "ok"}}

Send(c) ==
  /\ Running
  /\ \E op \in toSend[c] :
       /\ \A p \in toSend[c] : op <= p
       /\ toSend' = [toSend EXCEPT ![c] = @ \ {op}]
       /\ queue' = Append(queue, op)
       /\ floor' = [floor EXCEPT ![op] = IF @ = {}
                      THEN {Max(Answered(Obj(op)) \cup {0})} ELSE @]
  /\ UNCHANGED <<begin, answered, pg, waitVars, workVars, log, stable, bad,
                 replies, bounds, asserted>>

Receive ==
  /\ Running
  /\ \E m \in replies :
       /\ replies' = replies \ {m}
       /\ answered' = [answered EXCEPT ![m.op] = IF @ = NoReply THEN m ELSE @]
  /\ UNCHANGED <<begin, toSend, floor, queue, pg, waitVars, workVars, log,
                 stable, bad, bounds, asserted>>

Init ==
  /\ begin \in Begin
  /\ toSend = [c \in Client |-> OpsOf(c)]
  /\ queue = <<>> /\ rw = NoWaiters /\ async = <<>> /\ repops = <<>>
  /\ ondisk = {} /\ waiting = NoLists
  /\ unreadable = NoWaiters /\ degraded = NoWaiters
  /\ pg = [st |-> "peering", flush |-> TRUE, late |-> FALSE, laggy |-> FALSE,
           scrub |-> 0]
  /\ log = <<>> /\ stable = 0 /\ bad = begin.bad /\ replies = {}
  /\ answered = [op \in Op |-> NoReply] /\ floor = [op \in Op |-> {}]
  /\ bounds = [scrubs |-> begin.scrubs, leases |-> begin.leases,
               intervals |-> begin.intervals]
  /\ asserted = ""

Dequeue(op) ==
  \/ do_request(op) \/ WaitReadable(op) \/ WaitObject(op) \/ WaitScrub(op)
  \/ DoDup(op) \/ WaitLock(op) \/ do_op(op)

Next ==
  \/ \E op \in Op : Dequeue(op)
  \/ finish_read \/ eval_repop
  \/ \E x \in Object : on_local_recover(x) \/ on_global_recover(x)
                       \/ ScrubStarts(x)
  \/ ScrubEnds \/ LeaseExpires \/ recheck_readable
  \/ \E st \in {"peered", "active"} : on_activate_complete(st)
  \/ on_flushed \/ LeavePeered
  \/ \E same, resend \in BOOLEAN, keep \in 0 .. Len(log) :
       NewInterval(same, resend, keep)
  \/ \E c \in Client : Send(c)
  \/ Receive

Spec == Init /\ [][Next]_vars

(* The OSD's queues are served, the backend answers, recovery and scrub    *)
(* go on, leases are renewed, peering ends and the network delivers.       *)
Serves == \/ \E op \in Op : Dequeue(op)
          \/ finish_read \/ eval_repop \/ ScrubEnds
          \/ \E x \in Object : on_local_recover(x) \/ on_global_recover(x)
          \/ on_flushed \/ LeavePeered
          \/ \E st \in {"peered", "active"} : on_activate_complete(st)
Delivers == Receive \/ \E c \in Client : Send(c)
FairSpec == Spec /\ WF_vars(Serves) /\ WF_vars(Delivers) /\ WF_vars(recheck_readable)
-----------------------------------------------------------------------------
(* The writes of one client to one object enter the log once each and in   *)
(* the order the client sent them ("verify that we are doing this in       *)
(* order?" in execute_ctx), whatever they waited for and however often     *)
(* they were put back or sent again.                                       *)
InOrder ==
  \A j \in DOMAIN log : \A i \in 1 .. j - 1 :
    (/\ Obj(log[i].op) = Obj(log[j].op)
     /\ begin.ops[log[i].op].c = begin.ops[log[j].op].c)
      => log[i].op < log[j].op

Given == replies \cup {answered[op] : op \in {p \in Op : answered[p] # NoReply}}

(* What a client is told of a write or of its error is in the log for good *)
(* and the same for the operation and for every time it was sent again.    *)
AnswersAreDurable ==
  \A m \in Given : may_write(m.op) =>
    m.v \in 1 .. stable /\ log[m.v].op = m.op /\ log[m.v].r = m.r

(* A read sees a committed version, and nothing older than a write that    *)
(* was answered before the read was first sent: locks, queues and new      *)
(* intervals between them included.                                        *)
ReadsCurrent ==
  \A m \in Given : ~may_write(m.op) => 
    m.v <= stable /\ \A v \in floor[m.op] : m.v >= v

(* The assertions on waiting_for_ondisk, waiting_for_flush and on object   *)
(* contexts that outlive their interval.                                   *)
NoAssertFails == Running

(* Every operation is answered: what waits is woken, requeued or sent      *)
(* again.                                                                  *)
EveryOpAnswered == <>(\A op \in Op : answered[op] # NoReply)
=============================================================================
