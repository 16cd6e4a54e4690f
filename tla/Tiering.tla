------------------------------- MODULE Tiering -------------------------------
(***************************************************************************)
(* The primary of a PG of a cache pool: what do_op does when an object is  *)
(* not in the cache (proxy, promote, wait while the cache is full),        *)
(* flushes and evictions, asked for or started by the tier agent, and the  *)
(* modes of the agent.  The base pool runs the same program: it answers    *)
(* copy-get and pulls a flushed object with copy-from.                     *)
(*                                                                         *)
(* Heads only, no clones.  Locks, is_idle, the agent's queue and the       *)
(* Objecter (first in, first out by object) are in headers and files       *)
(* outside the repository.  A cache pool is replicated: this primary keeps *)
(* its log through a new interval.                                         *)
(***************************************************************************)
EXTENDS Naturals, FiniteSets, SequencesExt

CONSTANTS
  NObjects,
  Begin   \* what a behaviour starts from: the operations of the clients
          \* ([c, o, kind, must]: must be promoted), by object what the cache
          \* and the base hold, target_max_objects, whether there are hit
          \* sets, the cache mode, the chunks of a copy, and bounds

Object == 1 .. NObjects
Kind == {"read", "write", "delete", "flush", "try_flush", "evict"}
Mode == {"writeback", "proxy", "readproxy"}

ASSUME TieringAssumption ==
  /\ NObjects \in Nat
  /\ \A b \in Begin :
       /\ \A i \in DOMAIN b.ops :
            /\ b.ops[i].o \in Object
            /\ b.ops[i].kind \in Kind
            /\ b.ops[i].must \in BOOLEAN
       /\ b.cache \in [Object -> {"none", "clean", "dirty"}]
       /\ b.base \in [Object -> BOOLEAN]
       /\ {b.target, b.chunks} \subseteq Nat \ {0}
       /\ {b.scrubs, b.locks, b.intervals, b.errors, b.modes, b.cold, b.late} \subseteq Nat
       /\ b.mode \in Mode

VARIABLES
  begin,     \* the element of Begin
  toSend,    \* by client: what it has to send, in order
  pg,        \* the primary of the cache pool
  base,      \* the base pool: obj, and logged: the operations it has done
  floor,     \* by operation, once sent: how many changes of its object had
             \* been answered by then
  bounds

vars == <<begin, toSend, pg, base, floor, bounds>>

None == "none"
Ops == DOMAIN begin.ops
Obj(op) == begin.ops[op].o
kind(op) == begin.ops[op].kind
may_write(op) == kind(op) \in {"write", "delete"}
may_cache(op) == kind(op) \in {"flush", "try_flush", "evict"}
write_ordered(op) == may_write(op) \/ may_cache(op)
Client == {begin.ops[op].c : op \in Ops}

(* An object: the version a user sees is the operation that made it, the   *)
(* content is what every chunk of it has been through.                     *)
Gone == [exists |-> FALSE, white |-> FALSE, dirty |-> FALSE, uv |-> 0,
         data |-> {}]
First == Len(begin.ops) + 1     \* what made an object that is there at first
Content(data, op) ==
  IF kind(op) = "delete" THEN {}
  ELSE IF data = {} THEN {<<op>>} ELSE {Append(h, op) : h \in data}

Running == pg.assert = ""
ceph_assert(P, ok, text) == IF ok THEN P ELSE [P EXCEPT !.assert = text]
Bag(ls) == {ls[i] : i \in DOMAIN ls}
-----------------------------------------------------------------------------
(* Handlers take and give the state P of the primary.                      *)
requeue_ops(P, ls) == [P EXCEPT !.queue = ls \o @]

Answer(P, op, r) == [P EXCEPT !.answered[op] =
                       IF @.r = None THEN [r |-> r, data |-> {}] ELSE @]
AnswerAll(P, ls, r) == FoldLeft(LAMBDA Q, op : Answer(Q, op, r), P, ls)

start_block(P, o) ==
  [ceph_assert(P, ~P.blocked[o], "start_block: !blocked") EXCEPT !.blocked[o] = TRUE]
stop_block(P, o) ==
  [ceph_assert(P, P.blocked[o], "stop_block: blocked") EXCEPT !.blocked[o] = FALSE]

kick_object_context_blocked(P, o) ==
  IF P.blocked[o] THEN P
  ELSE requeue_ops([P EXCEPT !.blockq[o] = <<>>], P.blockq[o])

Unblock(P, o) == kick_object_context_blocked(stop_block(P, o), o)

Writing(P, o) == \E i \in DOMAIN P.repops : P.repops[i].o = o /\ P.repops[i].lock
write_lock(P, o) == o \notin P.readers /\ P.lockq[o] = <<>>
read_lock(P, o) == ~Writing(P, o) /\ P.lockq[o] = <<>>
release_locks(P, o) ==
  IF Writing(P, o) \/ o \in P.readers THEN P
  ELSE requeue_ops([P EXCEPT !.lockq[o] = <<>>], P.lockq[o])

(* A repop: its operation, what it adds to the log, who waits for it, and  *)
(* whether it ends an operation of the agent.                              *)
submit(P, o, op, ids, lock, agent) ==
  [P EXCEPT !.repops = Append(@, [o |-> o, op |-> op, ids |-> ids,
                                  waits |-> <<>>, lock |-> lock,
                                  agent |-> agent]),
            !.logged = @ \cup ids]

(* The Objecter.  A canceled message may still reach the base; nobody      *)
(* hears of it.                                                            *)
Message(what, op, uv, last) == [what |-> what, op |-> op, uv |-> uv,
                                last |-> last, left |-> 0, got |-> {}, tid |-> 0]
InUse(P) == UNION {{P.copy[o].tid, P.flush[o].tid}
                    \cup {m.tid : m \in Bag(P.inbox[o] \o P.proxied[o] \o P.replies[o])}
                   : o \in Object}
tid(P) == Min(1 .. (Cardinality(InUse(P)) + 1) \ InUse(P))
objecter(P, o, m) == [P EXCEPT !.inbox[o] = Append(@, [m EXCEPT !.tid = tid(P)])]
op_cancel(P, o, tids) ==
  [P EXCEPT !.inbox[o] = [i \in DOMAIN @ |->
     IF @[i].tid \in tids THEN [@[i] EXCEPT !.tid = 0] ELSE @[i]]]
-----------------------------------------------------------------------------
(* Proxied operations: proxyread_ops, proxywrite_ops and                   *)
(* in_progress_proxy_ops are one list by object.                           *)
do_proxy(P, op) ==
  [objecter(P, Obj(op), Message(kind(op), op, 0, TRUE)) EXCEPT
     !.proxied[Obj(op)] = Append(@, [op |-> op, tid |-> tid(P)])]

finish_proxy(P, o, m) ==
  LET found == SelectSeq(P.proxied[o], LAMBDA p : p.tid = m.tid)
      Q == [P EXCEPT !.proxied[o] = SelectSeq(@, LAMBDA p : p.tid # m.tid)]
  IN  IF found = <<>> THEN P
      ELSE [Q EXCEPT !.answered[Head(found).op] =
              IF @.r = None THEN [r |-> m.r, data |-> m.data] ELSE @]

cancel_and_requeue_proxy_ops(P, o) ==
  LET ls == P.proxied[o]
  IN  requeue_ops(op_cancel([P EXCEPT !.proxied[o] = <<>>], o,
                            {ls[i].tid : i \in DOMAIN ls}),
                  [i \in DOMAIN ls |-> ls[i].op])
-----------------------------------------------------------------------------
(* The modes of the agent, in hundredths of the target.                    *)
FlushTarget == 40
FlushHigh == 60
EvictTarget == 80
Slop == 2
is_idle(a) == a.delaying \/ (a.flush = "idle" /\ a.evict = "idle")

ModesOf(P, restart) ==
  LET dirty == (P.stat.dirty * 100) \div begin.target
      full == (P.stat.objects * 100) \div begin.target
      near(t, idle) == IF restart \/ idle THEN t + Slop ELSE t - Slop
      f(t) == near(t, P.agent.flush = "idle")
  IN  [flush |-> IF dirty > f(FlushHigh) THEN "high"
                 ELSE IF dirty > f(FlushTarget) THEN "low" ELSE "idle",
       evict |-> IF full > 100 THEN "full"
                 ELSE IF full > near(EvictTarget, P.agent.evict = "idle")
                 THEN "some" ELSE "idle"]

(* A mutant: the operations that wait for room are not put back.           *)
LeaveFull_not(P, ls) == requeue_ops([P EXCEPT !.scrubq = <<>>], P.scrubq \o ls)

(* The cache is not full any more.                                         *)
LeaveFull(P, ls) ==
  requeue_ops([P EXCEPT !.scrubq = <<>>, !.full = <<>>],
              P.full \o P.scrubq \o ls)

(* agent_choose_mode, for the operation in ls if any.                      *)
Leaves(P, restart) == /\ ~P.agent.delaying
                      /\ P.agent.evict = "full"
                      /\ ModesOf(P, restart).evict # "full"

agent_choose_mode(P, restart, ls) ==
  LET m == ModesOf(P, restart)
      a == [P.agent EXCEPT !.flush = m.flush, !.evict = m.evict]
      Q == IF Leaves(P, restart) THEN LeaveFull(P, ls) ELSE P
      was == is_idle(P.agent)
      queued == CASE is_idle(a) /\ ~restart /\ ~was -> FALSE
                  [] ~is_idle(a) /\ (restart \/ was) -> TRUE
                  [] OTHER -> P.queued
  IN  IF P.agent.delaying THEN P
      ELSE [Q EXCEPT !.agent = a, !.queued = queued]
-----------------------------------------------------------------------------
(* Copies: a promotion reads the base chunk by chunk; from the second on   *)
(* it asks for the version it has seen.                                    *)
NoCopy == [tid |-> 0, uv |-> 0, got |-> {}, left |-> 0]

_copy_some(P, o, c) ==
  [objecter(P, o, Message("copy_get", 0, c.uv, c.left = 1)) EXCEPT
     !.copy[o] = [c EXCEPT !.tid = tid(P)]]

cancel_copy(P, o) ==
  Unblock(op_cancel([P EXCEPT !.copy[o] = NoCopy], o, {P.copy[o].tid}), o)

start_copy(P, o) ==
  LET Q == IF P.copy[o] = NoCopy THEN P ELSE cancel_copy(P, o)
  IN  _copy_some(start_block(Q, o), o, [NoCopy EXCEPT !.left = begin.chunks])

promote_object(P, o, ls) ==
  IF o \in P.scrub THEN [P EXCEPT !.scrubq = @ \o ls]
  ELSE [start_copy(P, o) EXCEPT !.blockq[o] = @ \o ls]

(* What is promoted is clean; what the base does not have is promoted as a *)
(* whiteout.  What the base has done on the object is logged with it.      *)
Reqids(m) == m.ids

Promoted(P, o, m, c) ==
  LET new == [exists |-> TRUE, white |-> m.r = "ENOENT", dirty |-> FALSE,
              uv |-> m.uv, data |-> c.got \cup m.data]
      Q == [P EXCEPT !.obj[o] = new, !.stat.objects = @ + 1]
  IN  submit(ceph_assert(Q, o \notin P.readers, "take_write_lock"), o, 0, Reqids(m),
             TRUE, FALSE)

finish_promote(P, o, m, c) ==
  IF m.r \notin {"ok", "ENOENT"}
  THEN AnswerAll([P EXCEPT !.blockq[o] = <<>>], P.blockq[o], m.r)
  ELSE LET Q == Promoted(P, o, m, c)
       IN  IF is_idle(Q.agent) THEN agent_choose_mode(Q, FALSE, <<>>) ELSE Q

process_copy_chunk(P, o, m) ==
  LET c == P.copy[o]
      more == m.r = "ok" /\ c.left > 1
      Q == [finish_promote(P, o, m, c) EXCEPT !.copy[o] = NoCopy]
      R == stop_block(Q, o)
      S == IF m.r = "ok" THEN cancel_and_requeue_proxy_ops(R, o) ELSE R
  IN  IF m.tid # c.tid THEN P
      ELSE IF more
      THEN _copy_some(P, o, [c EXCEPT !.uv = m.uv, !.got = @ \cup m.data,
                                      !.left = @ - 1])
      ELSE kick_object_context_blocked(S, o)
-----------------------------------------------------------------------------
(* Evictions.                                                              *)
(* A mutant: what was flushed before it is evicted still counts as dirty.  *)
Evicted_counted(P, o) ==
  [P EXCEPT !.obj[o] = Gone, !.stat.objects = @ - 1]

Evicted(P, o) ==
  [P EXCEPT !.obj[o] = Gone, !.stat.objects = @ - 1,
            !.stat.dirty = IF P.obj[o].dirty THEN @ - 1 ELSE @]

(* A mutant: dirty or not.                                                 *)
agent_maybe_evict_dirty(P, o, after_flush, cold) ==
  [ok |-> ~P.blocked[o] /\ (P.agent.evict = "full" \/ cold) /\ write_lock(P, o),
   to |-> submit(Evicted(P, o), o, 0, {}, TRUE, FALSE)]

(* cold: old and cold enough, as the hit sets have it.                     *)
agent_maybe_evict(P, o, after_flush, cold) ==
  [ok |-> /\ after_flush \/ ~P.obj[o].dirty
          /\ after_flush => o \notin P.scrub
          /\ ~P.blocked[o]
          /\ P.agent.evict = "full" \/ cold
          /\ write_lock(P, o),
   to |-> submit(Evicted(P, o), o, 0, {}, TRUE, FALSE)]
-----------------------------------------------------------------------------
(* Flushes.  op is 0 for the agent's, and on_flush ends its operation.     *)
NoFlush == [op |-> 0, dups |-> <<>>, uv |-> 0, blocking |-> FALSE,
            removal |-> FALSE, tid |-> 0]
OpOf(f) == IF f.op = 0 THEN <<>> ELSE <<f.op>>
on_flush(P, o) == IF P.flush[o].op = 0 THEN [P EXCEPT !.agentOps = @ \ {o}]
                  ELSE P
Forget(P, o) == [on_flush(P, o) EXCEPT !.flush[o] = NoFlush]

cancel_flush(P, o, requeue) ==
  LET f == P.flush[o]
      Q == op_cancel(P, o, {f.tid} \ {0})
      R == IF f.blocking /\ P.blocked[o] THEN Unblock(Q, o) ELSE Q
      S == IF requeue THEN requeue_ops(requeue_ops(R, OpOf(f)), f.dups) ELSE R
  IN  Forget(S, o)

(* Clear the dirty bit: the version flushed is still the version there, a  *)
(* scrub or a lock does not forbid it.  The agent would rather evict.      *)
MarkClean(P, o) ==
  LET f == P.flush[o]
      Q == [P EXCEPT !.obj[o].dirty = FALSE, !.stat.dirty = @ - 1,
                     !.flush[o] = NoFlush]
  IN  submit(requeue_ops(Q, OpOf(f) \o f.dups), o, 0, {}, TRUE, f.op = 0)

(* A mutant: what was written meanwhile is taken for flushed.              *)
Unchanged_not(P, o) == P.obj[o].exists

Unchanged(P, o) == P.obj[o].exists /\ P.flush[o].uv = P.obj[o].uv

try_flush_mark_clean(P, o, cold) ==
  LET f == P.flush[o]
      Q == IF f.blocking THEN Unblock(P, o) ELSE P
      e == agent_maybe_evict(Q, o, TRUE, cold)
      waits == requeue_ops(requeue_ops(Q, OpOf(f)), f.dups)
      res(r, S) == [r |-> r, to |-> S]
  IN  CASE ~Unchanged(Q, o) ->
             res("EBUSY", Forget(requeue_ops(Q, f.dups), o))
        [] Unchanged(Q, o) /\ ~f.blocking /\ o \in Q.scrub ->
             IF f.op = 0 THEN res("ECANCELED", cancel_flush(Q, o, FALSE))
             ELSE res("EAGAIN", [waits EXCEPT !.flush[o].dups = <<>>])
        [] Unchanged(Q, o) /\ (f.blocking \/ o \notin Q.scrub) ->
             IF f.op = 0 /\ Q.agent.evict # "idle" /\ e.ok
             THEN res("ok", Forget(e.to, o))
             ELSE IF write_lock(Q, o) THEN res("EINPROGRESS", MarkClean(Q, o))
             ELSE IF f.op = 0
             THEN res("ECANCELED", cancel_flush(Q, o, FALSE))
             ELSE res("EAGAIN",
                      [Q EXCEPT !.lockq[o] = @ \o OpOf(f) \o f.dups])

finish_flush(P, o, m, cold) ==
  LET f == P.flush[o]
      Q == [P EXCEPT !.flush[o].tid = 0]
      failed == ~(m.r = "ok" \/ (m.r = "ENOENT" /\ f.removal))
      R == AnswerAll(Q, OpOf(f), "EBUSY")
      S == IF f.blocking THEN Unblock(R, o) ELSE R
      t == try_flush_mark_clean(Q, o, cold)
  IN  IF m.tid # f.tid THEN P
      ELSE IF failed THEN Forget(requeue_ops(S, f.dups), o)
      ELSE IF t.r = "EBUSY" THEN AnswerAll(t.to, OpOf(f), "EBUSY") ELSE t.to

(* The base is told to copy the object, or to remove it.                   *)
NewFlush(P, o, op, blocking) ==
  LET x == P.obj[o]
      what == IF x.white THEN "remove" ELSE "copy_from"
  IN  [objecter(P, o, [Message(what, 0, x.uv, TRUE) EXCEPT
                         !.left = begin.chunks]) EXCEPT
         !.flush[o] = [op |-> op, dups |-> <<>>, uv |-> x.uv,
                       blocking |-> blocking, removal |-> x.white,
                       tid |-> tid(P)]]

start_flush(P, o, op, blocking, cold) ==
  LET f == P.flush[o]
      Q == IF blocking THEN start_block(P, o) ELSE P
      joins == f.uv = P.obj[o].uv /\ (f.blocking \/ ~blocking)
      R == AnswerAll(AnswerAll(Q, OpOf(f), "EBUSY"), f.dups, "EBUSY")
  IN  IF f # NoFlush /\ f.op = op THEN try_flush_mark_clean(Q, o, cold)
      ELSE IF f # NoFlush /\ joins
      THEN [r |-> "EAGAIN",
            to |-> IF op = 0 THEN Q ELSE [Q EXCEPT !.flush[o].dups =
                                            Append(@, op)]]
      ELSE [r |-> "EINPROGRESS",
            to |-> NewFlush(IF f = NoFlush THEN Q
                            ELSE cancel_flush([R EXCEPT !.flush[o].dups = <<>>],
                                              o, FALSE),
                            o, op, blocking)]
-----------------------------------------------------------------------------
(* do_op takes the head of the queue; each early return is an action.      *)
Arrives(op) == Running /\ pg.queue # <<>> /\ op = Head(pg.queue)
Taken == [pg EXCEPT !.queue = Tail(@)]
Quiet == UNCHANGED <<begin, toSend, base, floor, bounds>>

Scrubbed(op) == write_ordered(op) /\ Obj(op) \in pg.scrub
WaitScrub(op) ==
  /\ Arrives(op) /\ Scrubbed(op)
  /\ pg' = [Taken EXCEPT !.scrubq = Append(@, op)]
  /\ Quiet

(* A mutant: a write passes the ones that wait for room.                   *)
objects_blocked_on_cache_full_not(op) == FALSE

objects_blocked_on_cache_full(op) ==
  write_ordered(op) /\ \E i \in DOMAIN pg.full : Obj(pg.full[i]) = Obj(op)

WaitFull(op) ==
  /\ Arrives(op) /\ ~Scrubbed(op) /\ objects_blocked_on_cache_full(op)
  /\ pg' = [Taken EXCEPT !.full = Append(@, op)]
  /\ Quiet

Ordered(op) ==
  Arrives(op) /\ ~Scrubbed(op) /\ ~objects_blocked_on_cache_full(op)

Dups(op) == {e \in pg.logged : e.op = op}

(* A resent operation: answered, or when what logged it is on disk.        *)
DoDup(op) ==
  LET on == {i \in DOMAIN pg.repops : Dups(op) \subseteq pg.repops[i].ids}
  IN  /\ Ordered(op) /\ Dups(op) # {}
      /\ pg' = IF on = {} THEN Answer(Taken, op, (CHOOSE e \in Dups(op) : TRUE).r)
               ELSE [Taken EXCEPT !.repops[Min(on)].waits = Append(@, op)]
      /\ Quiet

(* maybe_await_blocked_head.                                               *)
WaitBlocked(op) ==
  /\ Ordered(op) /\ Dups(op) = {} /\ pg.blocked[Obj(op)]
  /\ pg' = [Taken EXCEPT !.blockq[Obj(op)] = Append(@, op)]
  /\ Quiet

(* The agent looks at its modes; the operation goes back to the queue.     *)
Admitted(op) == Ordered(op) /\ Dups(op) = {} /\ ~pg.blocked[Obj(op)]
Chosen == agent_choose_mode(Taken, FALSE, <<>>)
LeavesFull(op) ==
  /\ Admitted(op) /\ Leaves(pg, FALSE)
  /\ pg' = agent_choose_mode(Taken, FALSE, <<op>>)
  /\ Quiet

Handled(op) == Admitted(op) /\ ~Leaves(pg, FALSE)
(* Not in the cache.                                                       *)
Miss(op) == ~pg.obj[Obj(op)].exists /\ ~may_cache(op)

(* both: proxied, and promoted as the hit sets have it.                    *)
maybe_handle_cache(P, op) ==
  LET must == begin.ops[op].must
      room(way) == IF P.agent.evict = "full" THEN {"full"} ELSE {way}
  IN  CASE P.mode = "writeback" /\ P.agent.evict = "full" ->
             IF may_write(op) \/ must THEN {"full"} ELSE {"proxy"}
        [] P.mode = "writeback" /\ P.agent.evict # "full" ->
             IF must \/ ~begin.hits THEN {"promote"} ELSE {"proxy", "both"}
        [] P.mode = "proxy" -> IF must THEN room("promote") ELSE {"proxy"}
        [] P.mode = "readproxy" ->
             IF may_write(op) \/ must THEN room("promote") ELSE {"proxy"}

CacheMiss(op) ==
  /\ Handled(op) /\ Miss(op)
  /\ \E way \in maybe_handle_cache(Chosen, op) :
       pg' = CASE way = "proxy" -> do_proxy(Chosen, op)
               [] way = "both" -> promote_object(do_proxy(Chosen, op), Obj(op),
                                                 <<>>)
               [] way = "promote" -> promote_object(Chosen, Obj(op), <<op>>)
               [] way = "full" -> [Chosen EXCEPT !.full = Append(@, op)]
  /\ Quiet

Present(op) == Handled(op) /\ pg.obj[Obj(op)].exists
NotThere(op) ==
  /\ Handled(op) /\ may_cache(op) /\ ~pg.obj[Obj(op)].exists
  /\ pg' = Answer(Chosen, op, "ENOENT")
  /\ Quiet

get_rw_locks(op) == CASE kind(op) = "read" -> read_lock(pg, Obj(op))
                      [] kind(op) = "try_flush" -> TRUE
                      [] OTHER -> write_lock(pg, Obj(op))

WaitLock(op) ==
  /\ Present(op) /\ ~get_rw_locks(op)
  /\ pg' = [Chosen EXCEPT !.lockq[Obj(op)] = Append(@, op)]
  /\ Quiet

Ready(op) == Present(op) /\ get_rw_locks(op)
There(op) == pg.obj[Obj(op)]

do_read(op) ==
  /\ Ready(op) /\ kind(op) = "read"
  /\ pg' = [Chosen EXCEPT !.answered[op] =
              [r |-> IF There(op).white THEN "ENOENT" ELSE "ok",
               data |-> There(op).data]]
  /\ Quiet

(* make_writeable sets the dirty bit; a deleted object is a whiteout.  The *)
(* error of deleting one is logged, and holds no lock.                     *)
do_write(op) ==
  LET o == Obj(op)
      fails == kind(op) = "delete" /\ There(op).white
      new == [exists |-> TRUE, white |-> kind(op) = "delete", dirty |-> TRUE,
              uv |-> op, data |-> Content(There(op).data, op)]
      Q == [Chosen EXCEPT !.obj[o] = new, !.order[o] = Append(@, op),
                          !.stat.dirty = IF There(op).dirty THEN @ ELSE @ + 1]
  IN  /\ Ready(op) /\ may_write(op)
      /\ pg' = IF fails
               THEN submit(Chosen, o, op, {[op |-> op, r |-> "ENOENT"]}, FALSE,
                           FALSE)
               ELSE submit(Q, o, op, {[op |-> op, r |-> "ok"]}, TRUE, FALSE)
      /\ Quiet

(* What is not in progress and will not be retried is answered.            *)
do_cache_flush(op) ==
  LET s == start_flush(Chosen, Obj(op), op, kind(op) = "flush", FALSE)
  IN  /\ Ready(op) /\ kind(op) \in {"flush", "try_flush"}
      /\ pg' = IF ~There(op).dirty THEN Answer(Chosen, op, "ok")
               ELSE IF s.r \in {"EINPROGRESS", "EAGAIN"} THEN s.to
               ELSE Answer(s.to, op, s.r)
      /\ Quiet

do_cache_evict(op) ==
  /\ Ready(op) /\ kind(op) = "evict"
  /\ pg' = IF There(op).dirty THEN Answer(Chosen, op, "EBUSY")
           ELSE submit(Evicted(Chosen, Obj(op)), Obj(op), op,
                       {[op |-> op, r |-> "ok"]}, TRUE, FALSE)
  /\ Quiet

(* The oldest repop is on disk everywhere.                                 *)
Result(P, op) == (CHOOSE e \in P.logged : e.op = op).r

eval_repop ==
  /\ Running /\ pg.repops # <<>>
  /\ \E p \in {Head(pg.repops)} :
       LET all == (IF p.op = 0 THEN <<>> ELSE <<p.op>>) \o p.waits
           Q == [pg EXCEPT !.repops = Tail(@),
                           !.agentOps = IF p.agent THEN @ \ {p.o} ELSE @]
           R == FoldLeft(LAMBDA P, op : Answer(P, op, Result(P, op)), Q, all)
       IN  pg' = IF p.lock THEN release_locks(R, p.o) ELSE R
  /\ Quiet
-----------------------------------------------------------------------------
(* The base pool takes what comes in by object in order.                   *)
Says(m, o, r, x, ids) ==
  [pg EXCEPT !.inbox[o] = Tail(@),
             !.replies[o] = IF m.tid = 0 THEN @
                            ELSE Append(@, [what |-> m.what, tid |-> m.tid, r |-> r,
                                            uv |-> x.uv, data |-> x.data,
                                            ids |-> ids])]

LoggedOf(logged, o) == {e \in logged : Obj(e.op) = o}

(* The message the base takes next.                                        *)
Incoming(o) == IF Running /\ pg.inbox[o] # <<>> THEN {Head(pg.inbox[o])} ELSE {}

base_do_op(o) ==
  \E m \in Incoming(o) :
    LET x == base.obj[o]
        done == {e \in base.logged : e.op = m.op}
        r == IF m.what \in {"read", "delete"} /\ ~x.exists THEN "ENOENT"
             ELSE "ok"
        new == IF m.what = "delete" THEN Gone
               ELSE [x EXCEPT !.exists = TRUE, !.uv = m.op,
                              !.data = Content(x.data, m.op)]
    IN  /\ m.what \in {"read", "write", "delete"}
        /\ IF m.what = "read" \/ done # {}
           THEN /\ UNCHANGED base
                /\ pg' = Says(m, o, IF done = {} THEN r
                                    ELSE (CHOOSE e \in done : TRUE).r, x, {})
           ELSE /\ base' = [obj |-> [base.obj EXCEPT ![o] = IF r = "ok" THEN new
                                                            ELSE @],
                            logged |-> base.logged \cup {[op |-> m.op, r |-> r]}]
                /\ pg' = [Says(m, o, r, Gone, {}) EXCEPT
                            !.order[o] = IF r = "ok" THEN Append(@, m.op) ELSE @]
        /\ UNCHANGED <<begin, toSend, floor, bounds>>

(* do_copy_get, after assert_version.                                      *)
base_copy_get(o) ==
  \E m \in Incoming(o) :
    LET x == base.obj[o]
        r == IF ~x.exists THEN "ENOENT"
             ELSE IF m.uv \notin {0, x.uv} THEN "ERANGE" ELSE "ok"
    IN  /\ m.what = "copy_get"
        /\ \/ /\ pg' = Says(m, o, r, x, IF m.last \/ r = "ENOENT"
                                         THEN LoggedOf(base.logged, o) ELSE {})
              /\ UNCHANGED bounds
           \/ /\ bounds.errors > 0
              /\ bounds' = [bounds EXCEPT !.errors = @ - 1]
              /\ pg' = Says(m, o, "EIO", Gone, {})
        /\ UNCHANGED <<begin, toSend, base, floor>>

base_remove(o) ==
  \E m \in Incoming(o) :
    /\ m.what = "remove"
    /\ pg' = Says(m, o, IF base.obj[o].exists THEN "ok" ELSE "ENOENT", Gone, {})
    /\ base' = [base EXCEPT !.obj[o] = Gone]
    /\ UNCHANGED <<begin, toSend, floor, bounds>>

(* The base pulls a chunk of the object that is being flushed: the cache   *)
(* pool gives it if a flush is in progress and the version is the one      *)
(* asked for.                                                              *)
copy_get_flush(o, m) ==
  IF pg.flush[o] = NoFlush THEN "EINVAL"
  ELSE IF ~pg.obj[o].exists \/ pg.obj[o].white THEN "ENOENT"
  ELSE IF pg.obj[o].uv # m.uv THEN "ERANGE"
  ELSE "ok"

base_copy_from(o) ==
  \E m \in Incoming(o) :
    LET r == copy_get_flush(o, m)
        got == m.got \cup pg.obj[o].data
        new == [exists |-> TRUE, white |-> FALSE, dirty |-> FALSE, uv |-> m.uv,
                data |-> got]
    IN  /\ m.what = "copy_from"
        /\ IF r = "ok" /\ m.left > 1
           THEN /\ pg' = [pg EXCEPT !.inbox[o] =
                            <<[m EXCEPT !.got = got, !.left = @ - 1]>> \o Tail(@)]
                /\ UNCHANGED base
           ELSE /\ pg' = Says(m, o, r, Gone, {})
                /\ base' = IF r # "ok" THEN base
                           ELSE [obj |-> [base.obj EXCEPT ![o] = new],
                                 logged |-> base.logged \cup LoggedOf(pg.logged, o)]
        /\ UNCHANGED <<begin, toSend, floor, bounds>>

(* Bounds: how often an object is found cold (what is used is hot), and    *)
(* how often a reply comes before an earlier one.                          *)
Takes(cold, late) ==
  /\ (cold => bounds.cold > 0) /\ (late => bounds.late > 0)
  /\ bounds' = [bounds EXCEPT !.cold = IF cold THEN @ - 1 ELSE @,
                              !.late = IF late THEN @ - 1 ELSE @]

Deliver(o, i, cold) ==
  LET m == pg.replies[o][i]
      P == [pg EXCEPT !.replies[o] = RemoveAt(@, i)]
  IN  /\ Running /\ Takes(cold, i > 1)
      /\ pg' = CASE m.what = "copy_get" -> process_copy_chunk(P, o, m)
                 [] m.what \in {"copy_from", "remove"} ->
                      finish_flush(P, o, m, cold)
                 [] OTHER -> finish_proxy(P, o, m)
      /\ UNCHANGED <<begin, toSend, base, floor>>
-----------------------------------------------------------------------------
(* The agent's thread takes this PG while it is enabled and lists one      *)
(* object from where it is.                                                *)
NextIn(P, pos) == Min({o \in Object : o >= pos /\ P.obj[o].exists}
                      \cup {NObjects + 1})

agent_is_active_oid(P, o) == o \in P.agentOps

agent_maybe_flush(P, o, cold) ==
  LET s == start_flush(P, o, 0, FALSE, cold)
      able == /\ P.obj[o].dirty
              /\ P.agent.evict = "full" \/ cold
              /\ ~agent_is_active_oid(P, o)
  IN  [ok |-> able /\ s.r = "EINPROGRESS",
       to |-> IF able
              THEN [s.to EXCEPT !.agentOps = IF s.r = "EINPROGRESS"
                                             THEN @ \cup {o} ELSE @]
              ELSE P]

Skipped(P, o) == \/ o > NObjects \/ o \in P.scrub \/ P.blocked[o]
                 \/ Writing(P, o) \/ o \in P.readers

(* One object: evicted, flushed or let alone.                              *)
AgentVisits(P, o, cold) ==
  LET e == agent_maybe_evict(P, o, FALSE, cold)
      f == agent_maybe_flush(P, o, cold)
      none == [ok |-> FALSE, to |-> P]
  IN  IF Skipped(P, o) THEN none
      ELSE IF P.agent.evict # "idle" /\ e.ok THEN e
      ELSE IF P.agent.flush # "idle" THEN f ELSE none

agent_delay(P) == [P EXCEPT !.agent.delaying = TRUE, !.queued = FALSE]

(* Nothing done in a whole turn: rest for a while.                         *)
agent_work(P, cold) ==
  LET o == NextIn(P, P.agent.pos)
      next == NextIn(P, o + 1)
      v == AgentVisits(P, o, cold)
      total == P.agent.started + (IF v.ok THEN 1 ELSE 0)
      wraps == P.agent.pos < P.agent.start /\ next >= P.agent.start
      Q == [v.to EXCEPT
              !.agent.started = IF wraps THEN 0 ELSE total,
              !.agent.start = IF wraps THEN next ELSE @,
              !.agent.pos = IF next > NObjects THEN 0 ELSE next]
  IN  IF wraps /\ total = 0 THEN agent_delay(Q)
      ELSE agent_choose_mode(Q, FALSE, <<>>)

AgentWork(cold) ==
  /\ Running /\ pg.queued
  /\ pg' = agent_work(pg, cold)
  /\ Takes(cold, FALSE)
  /\ UNCHANGED <<begin, toSend, base, floor>>

agent_choose_mode_restart ==
  /\ Running /\ pg.agent.delaying
  /\ pg' = agent_choose_mode([pg EXCEPT !.agent.delaying = FALSE], TRUE, <<>>)
  /\ Quiet
-----------------------------------------------------------------------------
Spend(what) == /\ Running /\ bounds[what] > 0
               /\ bounds' = [bounds EXCEPT ![what] = @ - 1]
Still == UNCHANGED <<begin, toSend, base, floor>>

(* A scrub waits for objects that are blocked or being written.            *)
ScrubStarts(o) ==
  /\ Spend("scrubs") /\ ~pg.blocked[o] /\ ~Writing(pg, o)
  /\ pg' = [pg EXCEPT !.scrub = @ \cup {o}]
  /\ Still

ScrubEnds ==
  /\ Running /\ pg.scrub # {}
  /\ pg' = requeue_ops([pg EXCEPT !.scrub = {}, !.scrubq = <<>>], pg.scrubq)
  /\ Quiet

(* Recovery of another copy reads the object.                              *)
RecoveryReads(o) ==
  /\ Spend("locks") /\ pg.obj[o].exists /\ read_lock(pg, o)
  /\ pg' = [pg EXCEPT !.readers = @ \cup {o}]
  /\ Still

RecoveryDone(o) ==
  /\ Running /\ o \in pg.readers
  /\ pg' = release_locks([pg EXCEPT !.readers = @ \ {o}], o)
  /\ Quiet

plpg_on_pool_change(mode) ==
  LET P == [pg EXCEPT !.mode = mode]
      Q == IF mode = "writeback" THEN P
           ELSE requeue_ops([P EXCEPT !.full = <<>>], P.full)
  IN  agent_choose_mode(Q, FALSE, <<>>)

PoolChange(mode) ==
  /\ Spend("modes") /\ mode # pg.mode
  /\ pg' = plpg_on_pool_change(mode)
  /\ Still

agent_stop(P) ==
  IF is_idle(P.agent) THEN P
  ELSE [P EXCEPT !.agent.evict = "idle", !.agent.flush = "idle",
                 !.queued = FALSE]

(* A new interval on this primary: on_change, then on_activate.            *)
Each(f(_, _), P) == FoldLeft(f, P, [o \in Object |-> o])

on_change ==
  LET copies(P, o) == IF P.copy[o] = NoCopy THEN P ELSE cancel_copy(P, o)
      flushes(P, o) == IF P.flush[o] = NoFlush THEN P
                       ELSE cancel_flush(P, o, TRUE)
      blocks(P, o) == requeue_ops([P EXCEPT !.blockq[o] = <<>>], P.blockq[o])
      locks(P, o) == release_locks(P, o)
      rq == FlattenSeq([i \in DOMAIN pg.repops |->
              (IF pg.repops[i].op = 0 THEN <<>> ELSE <<pg.repops[i].op>>)
              \o pg.repops[i].waits])
      P1 == Each(flushes, Each(copies, agent_stop(pg)))
      P2 == Each(cancel_and_requeue_proxy_ops, P1)
      P3 == requeue_ops([P2 EXCEPT !.scrub = {}, !.scrubq = <<>>], P2.scrubq)
      P4 == Each(blocks, P3)
      P5 == requeue_ops([P4 EXCEPT !.full = <<>>], P4.full)
      P6 == Each(locks, [P5 EXCEPT !.repops = <<>>, !.readers = {},
                                   !.agentOps = {}])
  IN  requeue_ops(P6, rq)

NewInterval ==
  /\ Spend("intervals")
  /\ pg' = agent_choose_mode(on_change, FALSE, <<>>)
  /\ Still
-----------------------------------------------------------------------------
Client_sends(c) ==
  /\ Running /\ toSend[c] # <<>>
  /\ \E op \in {Head(toSend[c])} :
       LET seen == {i \in DOMAIN pg.order[Obj(op)] :
                      \/ pg.order[Obj(op)][i] = First
                      \/ pg.answered[pg.order[Obj(op)][i]].r # None}
       IN  /\ pg' = [pg EXCEPT !.queue = Append(@, op)]
           /\ floor' = [floor EXCEPT ![op] = Max(seen \cup {0})]
  /\ toSend' = [toSend EXCEPT ![c] = Tail(@)]
  /\ UNCHANGED <<begin, base, bounds>>

Init ==
  /\ begin \in Begin
  /\ toSend = [c \in Client |-> SelectSeq([i \in Ops |-> i],
                                          LAMBDA i : begin.ops[i].c = c)]
  /\ \E dirty \in {Cardinality({o \in Object : begin.cache[o] = "dirty"})},
        held \in {Cardinality({o \in Object : begin.cache[o] # "none"})} :
       pg = agent_choose_mode(
         [queue |-> <<>>, scrubq |-> <<>>, full |-> <<>>,
          blockq |-> [o \in Object |-> <<>>], lockq |-> [o \in Object |-> <<>>],
          obj |-> [o \in Object |->
            IF begin.cache[o] = "none" THEN Gone
            ELSE [exists |-> TRUE, white |-> FALSE, uv |-> First,
                  dirty |-> begin.cache[o] = "dirty", data |-> {<<First>>}]],
          stat |-> [objects |-> held, dirty |-> dirty],
          blocked |-> [o \in Object |-> FALSE], readers |-> {}, scrub |-> {},
          repops |-> <<>>, logged |-> {}, replies |-> [o \in Object |-> <<>>],
          inbox |-> [o \in Object |-> <<>>], proxied |-> [o \in Object |-> <<>>],
          copy |-> [o \in Object |-> NoCopy], flush |-> [o \in Object |-> NoFlush],
          agent |-> [flush |-> "idle", evict |-> "idle", delaying |-> FALSE,
                     pos |-> 1, start |-> 1, started |-> 0],
          agentOps |-> {}, queued |-> FALSE, mode |-> begin.mode,
          answered |-> [op \in Ops |-> [r |-> None, data |-> {}]],
          order |-> [o \in Object |->
            IF begin.base[o] \/ begin.cache[o] # "none" THEN <<First>> ELSE <<>>],
          assert |-> ""], FALSE, <<>>)
  /\ base = [obj |-> [o \in Object |->
               IF ~begin.base[o] THEN Gone
               ELSE [exists |-> TRUE, white |-> FALSE, dirty |-> FALSE,
                     uv |-> First, data |-> {<<First>>}]],
             logged |-> {}]
  /\ floor = [op \in Ops |-> 0]
  /\ bounds = [k \in {"scrubs", "locks", "intervals", "errors", "modes", "cold", "late"} |->
                 begin[k]]

do_op == \E op \in Ops :
           \/ WaitScrub(op) \/ WaitFull(op) \/ DoDup(op) \/ WaitBlocked(op)
           \/ LeavesFull(op) \/ CacheMiss(op) \/ NotThere(op) \/ WaitLock(op)
           \/ do_read(op) \/ do_write(op) \/ do_cache_flush(op)
           \/ do_cache_evict(op)
BaseOf(o) == base_do_op(o) \/ base_copy_get(o) \/ base_remove(o) \/ base_copy_from(o)
TheBase == \E o \in Object : BaseOf(o)
TheAgent == \E cold \in BOOLEAN : AgentWork(cold)
RepliedOn(o) == \E i \in DOMAIN pg.replies[o], cold \in BOOLEAN :
                  Deliver(o, i, cold)
Replied == \E o \in Object : RepliedOn(o)
Lets == ScrubEnds \/ \E o \in Object : RecoveryDone(o)
Meddles == \/ NewInterval
           \/ \E o \in Object : ScrubStarts(o) \/ RecoveryReads(o)
           \/ \E mode \in Mode : PoolChange(mode)

Next == \/ \E c \in Client : Client_sends(c)
        \/ do_op \/ eval_repop \/ TheBase \/ Replied
        \/ TheAgent \/ agent_choose_mode_restart
        \/ Lets \/ Meddles

Spec == Init /\ [][Next]_vars

(* Scheduling: the queue, the repops, the base and the Objecter go on by   *)
(* object, scrubs and recoveries end; the thread of the agent and its      *)
(* timer run.  Fair is weak fairness of each of Does(k), enabled exactly   *)
(* while Pending(k).                                                       *)
Turn == {"queue", "repops", "scrub", "agent", "timer"} \X {0}
        \cup {"inbox", "replies", "readers"} \X Object
Pending(k) ==
  Running /\ CASE k[1] = "queue" -> pg.queue # <<>>
               [] k[1] = "repops" -> pg.repops # <<>>
               [] k[1] = "scrub" -> pg.scrub # {}
               [] k[1] = "agent" -> pg.queued
               [] k[1] = "timer" -> pg.agent.delaying
               [] k[1] = "inbox" -> pg.inbox[k[2]] # <<>>
               [] k[1] = "replies" -> pg.replies[k[2]] # <<>>
               [] k[1] = "readers" -> k[2] \in pg.readers
Does(k) ==
  CASE k[1] = "queue" -> do_op
    [] k[1] = "repops" -> eval_repop
    [] k[1] = "scrub" -> ScrubEnds
    [] k[1] = "agent" -> TheAgent
    [] k[1] = "timer" -> agent_choose_mode_restart
    [] k[1] = "inbox" -> BaseOf(k[2])
    [] k[1] = "replies" -> RepliedOn(k[2])
    [] k[1] = "readers" -> RecoveryDone(k[2])

Fair == \/ <>[](\A k \in Turn : ~Pending(k))
        \/ \A k \in Turn : []<><<~Pending(k) \/ Does(k)>>_vars

(* The agent does not win every race: when again and again an operation    *)
(* could be done, its object there and free, one is.                       *)
Served == \E op \in Ops : \/ do_read(op) \/ do_write(op)
                         \/ do_cache_flush(op) \/ do_cache_evict(op)
Raced == <>[](\A op \in Ops : ~Ready(op)) \/ []<><<Served>>_vars

FairSpec == Spec /\ Fair /\ Raced
-----------------------------------------------------------------------------
After(s) == FoldLeft(LAMBDA data, op : IF op = First THEN {<<op>>}
                                       ELSE Content(data, op), {}, s)

(* No update is lost between the tiers: the cache, or the base for an      *)
(* object that is not in the cache, holds what all the changes of the      *)
(* object made, whichever pool did them (do_proxy_write, finish_promote,   *)
(* try_flush_mark_clean, agent_maybe_evict).                               *)
NoUpdateLost ==
  Running => \A o \in Object :
    LET x == IF pg.obj[o].exists THEN pg.obj[o] ELSE base.obj[o]
    IN  x.data = After(pg.order[o])

(* An object that is not dirty may be evicted at any moment: the base has  *)
(* its content, and nothing for a whiteout (try_flush_mark_clean).         *)
CleanIsFlushed ==
  Running => \A o \in Object :
    LET x == pg.obj[o]
    IN  x.exists /\ ~x.dirty =>
          base.obj[o].exists = ~x.white /\ base.obj[o].data = x.data

(* A client's changes of an object happen in the order it sent them and    *)
(* once each, and a read sees what one of the changes left, none older     *)
(* than what had been answered when it was sent: across proxying,          *)
(* promotion, flush, eviction and new intervals                            *)
(* (cancel_and_requeue_proxy_ops, kick_object_context_blocked).            *)
InOrder ==
  \A o \in Object :
    LET s == pg.order[o]
    IN  /\ \A i, j \in DOMAIN s :
             (i < j /\ s[i] # First /\ begin.ops[s[i]].c = begin.ops[s[j]].c)
               => s[i] < s[j]
        /\ \A op \in Ops :
             kind(op) = "read" /\ Obj(op) = o
             /\ pg.answered[op].r \in {"ok", "ENOENT"} =>
               \E k \in floor[op] .. Len(s) :
                 pg.answered[op].data = After(SubSeq(s, 1, k))

(* The assertions of the code hold, the counts the agent decides by are    *)
(* those of the objects, and the agent's thread has the PG queued exactly  *)
(* when there is something to do (agent_choose_mode, agent_delay).         *)
CountsRight ==
  /\ Running
  /\ pg.stat.objects = Cardinality({o \in Object : pg.obj[o].exists})
  /\ pg.stat.dirty = Cardinality({o \in Object : pg.obj[o].dirty})
  /\ pg.queued <=> ~is_idle(pg.agent)

(* Every operation is answered: what waits for a promotion, a flush, a     *)
(* lock, a scrub or for room in the cache is put back by whatever it       *)
(* waits for.                                                              *)
EveryOpAnswered ==
  \A i \in 1 .. 3 :
    (i \in Ops /\ toSend[begin.ops[i].c] = <<>>) ~>
      (i \in Ops => pg.answered[i].r # None)
=============================================================================
