-------------------------------- MODULE Snaps --------------------------------
(***************************************************************************)
(* Snapshots of the objects of a PG: the clones a write makes, the SnapSet *)
(* that says which snapshots a clone serves and what it shares with its    *)
(* neighbour, the statistics kept with them, reads of snapshots, rollback, *)
(* the snap trimmer and the scrub of snapshot metadata.                    *)
(*                                                                         *)
(* A write and a trim work on the object contexts at once; ECBackend       *)
(* passes them on in order, which adds to the statistics and maps the      *)
(* snapshots (SnapMapper), and commits them in order.  Peering, object     *)
(* locks, the SnapMapper and the machinery of scrub are in headers outside *)
(* the repository.  The pool has no cache tier and objects have no omap.   *)
(***************************************************************************)
EXTENDS Integers, Sequences, FiniteSets, SequencesExt

CONSTANTS
  NObjects,
  MaxTrims,  \* osd_pg_max_concurrent_snap_trims
  Begin      \* what a behaviour is made of: the operations of clients
             \* (vectors of [k, a, b]) and their objects, whether their snap
             \* contexts may be old (stale) and their writes may have to
             \* read first (rmw), and the bounds on each kind of event

Object == 1 .. NObjects
Kinds == {"write", "writefull", "truncate", "zero", "append", "create",
          "delete", "rollback", "undirty"}
Events == {"writes", "snaps", "removals", "retrims", "reads", "scrubs",
           "intervals"}

ASSUME SnapsAssumption ==
  /\ NObjects \in Nat /\ MaxTrims \in Nat \ {0}
  /\ \A b \in Begin : /\ b.max \in [Events -> Nat]
                      /\ {b.stale, b.rmw} \subseteq BOOLEAN
                      /\ b.objects \subseteq Object
                      /\ b.ops \subseteq Seq([k : Kinds, a : Nat, b : Nat])

VARIABLES
  begin,     \* the element of Begin
  left,      \* what is left of its bounds
  pool,      \* seq: the newest snapshot; removed: the removed ones
  durable,   \* the objects and info.stats that are committed
  flight,    \* the repops after it, in order
  readers,   \* the read locks: <<object, clone or Head>>
  marked,    \* the snaptrimmer_write_marker of those
  trimmer,   \* st: the state of snap_trimmer_machine; snap_to_trim
  trimq, repeat, purged, \* snap_trimq, snap_trimq_repeat, purged_snaps
  clean,     \* PG_STATE_CLEAN
  scrubber,  \* active, start, cstat, bad: errors or a mismatch were found
  asserted   \* the assertion that failed, or an error of trim_object

snapVars == <<trimmer, trimq, repeat, purged>>
vars == <<begin, left, pool, durable, flight, readers, marked,
          snapVars, clean, scrubber, asserted>>

Running == asserted = ""
None == ""
NoHead == 0      \* the snap of an object that is a head
DNE == <<-1>>    \* what a read of nothing gives
Live == 1 .. pool.seq \ pool.removed
-----------------------------------------------------------------------------
(* An object: the head with its data, the SnapSet, the clones in store.    *)
NoSnapSet == [seq |-> 0, clone |-> <<>>]
NoObject == [head |-> "none", data |-> <<>>, dirty |-> FALSE,
             ss |-> NoSnapSet, disk |-> <<>>]
Clones(ss) == DOMAIN ss.clone
With(f, c, e) == [k \in DOMAIN f \cup {c} |-> IF k = c THEN e ELSE f[k]]
Without(f, c) == [k \in DOMAIN f \ {c} |-> f[k]]
Content(ob) == IF ob.head = "there" THEN ob.data ELSE DNE
get_clone_bytes(k) == k.size - Cardinality(k.overlap)

ZeroStats == [objects |-> 0, clones |-> 0, whiteouts |-> 0, dirty |-> 0,
              bytes |-> 0]
Plus(d, e) == [f \in DOMAIN d |-> d[f] + e[f]]
One(b) == IF b THEN 1 ELSE 0

(* The object contexts: the state after the last repop; the store: after   *)
(* the last one the backend has passed on.                                 *)
After(q) == IF q = <<>> THEN durable ELSE Last(q).after
Passed ==
  LET waiting == {i \in DOMAIN flight : ~flight[i].passed}
  IN  SubSeq(flight, 1, Min(waiting \cup {Len(flight) + 1}) - 1)
Now == After(flight)
Stored == After(Passed)
AddStats(d, q) == FoldLeft(LAMBDA e, r : Plus(e, r.d), d, q)
Stats == AddStats(durable.stats, Passed)
Locks == UNION {flight[i].locks : i \in DOMAIN flight}

(* The content each live snapshot froze: what the head held before the     *)
(* first write whose snap context names the snapshot.                      *)
Freeze(frozen, before, snaps) ==
  [s \in DOMAIN frozen \cup snaps |->
     IF s \in DOMAIN frozen THEN frozen[s] ELSE Content(before)]

(* A deleted object starts over; only what a snapshot still should show    *)
(* is not forgotten.                                                       *)
Forget(frozen, ob) ==
  IF ob.head # "none" \/ ob.ss # NoSnapSet THEN frozen
  ELSE [s \in {t \in DOMAIN frozen : frozen[t] # DNE} |-> frozen[s]]
-----------------------------------------------------------------------------
(* The operations of a client on the context x of its op: the new state of *)
(* the head, the SnapSet, the modified ranges and the change of the        *)
(* statistics.                                                             *)
Context(ob) == [head |-> ob.head, data |-> ob.data, ss |-> ob.ss,
                ranges |-> {}, d |-> ZeroStats, modify |-> FALSE,
                undirty |-> FALSE, r |-> "ok"]

Resize(data, n) == [i \in 1 .. n |-> IF i \in DOMAIN data THEN data[i] ELSE 0]

(* The new data, the ranges it changes and the bytes it adds.              *)
Update(x, data, ranges) ==
  [x EXCEPT !.data = data, !.ranges = @ \cup ranges, !.modify = TRUE,
            !.d.bytes = @ + Len(data) - Len(x.data)]

maybe_create_new_object(x) ==
  CASE x.head = "none" -> [x EXCEPT !.head = "there", !.d.objects = @ + 1]
    [] x.head = "whiteout" ->
         [x EXCEPT !.head = "there", !.d.whiteouts = @ - 1]
    [] OTHER -> x

write(x, off, len, v) ==
  LET n == IF len > 0 \/ off > Len(x.data) THEN Max({off + len, Len(x.data)})
           ELSE Len(x.data)
      bytes == off + 1 .. off + len
      old == Resize(x.data, n)
  IN  Update(maybe_create_new_object(x),
             [i \in 1 .. n |-> IF i \in bytes THEN v ELSE old[i]], bytes)

write_full(x, len, v) ==
  Update(maybe_create_new_object(x), [i \in 1 .. len |-> v],
         DOMAIN x.data)

truncate(x, size) ==
  IF x.head # "there" THEN x
  ELSE Update(x, Resize(x.data, size), size + 1 .. Len(x.data))

(* Past the end of the object it is a truncate, or nothing.                *)
zero(x, off, len) ==
  CASE x.head # "none" /\ off + len >= Len(x.data) ->
         IF off >= Len(x.data) THEN x ELSE truncate(x, off)
    [] x.head = "there" /\ off + len < Len(x.data) ->
         Update(x, [i \in DOMAIN x.data |->
                      IF i \in off + 1 .. off + len THEN 0 ELSE x.data[i]],
                off + 1 .. off + len)
    [] OTHER -> x

create(x) == [maybe_create_new_object(x) EXCEPT !.modify = TRUE]

(* A mutant: the bytes of the head stay in the statistics.                 *)
delete_oid_bytes(x, snapc) ==
  LET whiteout == Clones(x.ss) # {} \/ \E s \in snapc.snaps : s > x.ss.seq
  IN  IF x.head = "none" \/ (x.head = "whiteout" /\ whiteout)
      THEN [x EXCEPT !.r = "ENOENT"]
      ELSE [x EXCEPT !.head = IF whiteout THEN "whiteout" ELSE "none",
                     !.modify = TRUE, !.data = <<>>,
                     !.ranges = @ \cup DOMAIN x.data,
                     !.d.whiteouts = @ + One(whiteout)
                                       - One(x.head = "whiteout"),
                     !.d.objects = @ - One(~whiteout)]

delete_oid(x, snapc) ==
  LET whiteout == Clones(x.ss) # {} \/ \E s \in snapc.snaps : s > x.ss.seq
      y == Update(x, <<>>, DOMAIN x.data)
  IN  IF x.head = "none" \/ (x.head = "whiteout" /\ whiteout)
      THEN [x EXCEPT !.r = "ENOENT"]
      ELSE [y EXCEPT !.head = IF whiteout THEN "whiteout" ELSE "none",
                     !.d.whiteouts = @ + One(whiteout)
                                       - One(x.head = "whiteout"),
                     !.d.objects = @ - One(~whiteout)]
-----------------------------------------------------------------------------
(* find_object_context: the object that holds snapshot s of ob.            *)
Found(what, data) == [what |-> what, data |-> data]
NotFound == Found("none", DNE)

WhichClone(ss, s) == Min({c \in Clones(ss) : c >= s})

(* A mutant: the oldest clone that is not older serves the snapshot.    *)
find_object_context_any(ob, s) ==
  IF s > ob.ss.seq THEN Found(ob.head, Content(ob))
  ELSE IF \A c \in Clones(ob.ss) : c < s THEN NotFound
  ELSE Found("clone", ob.disk[WhichClone(ob.ss, s)].data)

find_object_context(ob, s) ==
  IF ob.head = "none" /\ ob.ss = NoSnapSet THEN NotFound
  ELSE IF s > ob.ss.seq THEN Found(ob.head, Content(ob))
  ELSE IF \A c \in Clones(ob.ss) : c < s THEN NotFound
  ELSE LET c == WhichClone(ob.ss, s)
       IN  IF \/ c \notin DOMAIN ob.disk
              \/ s \notin ob.ss.clone[c].snaps
              \/ s \in pool.removed
           THEN NotFound
           ELSE Found("clone", ob.disk[c].data)

(* What the head shares with the clone of snapshot s.                      *)
SharedSince(ss, s) ==
  {i \in ss.clone[WhichClone(ss, s)].overlap :
     \A c \in Clones(ss) : c >= s => i \in ss.clone[c].overlap}

rollback_to(x, ob, snapc, s) ==
  LET found == find_object_context(ob, s)
  IN  CASE found.what \in {"none", "whiteout"} ->
             [delete_oid(x, snapc) EXCEPT !.r = "ok"]
        [] found.what = "there" -> [x EXCEPT !.modify = TRUE]
        [] OTHER -> Update(maybe_create_new_object(x), found.data,
                           DOMAIN x.data \ SharedSince(x.ss, s))
-----------------------------------------------------------------------------
do_osd_op(x, ob, snapc, op, v) ==
  CASE op.k = "write" -> write(x, op.a, op.b, v)
    [] op.k = "writefull" -> write_full(x, op.a, v)
    [] op.k = "append" -> write(x, Len(x.data), op.a, v)
    [] op.k = "truncate" -> truncate(x, op.a)
    [] op.k = "zero" -> zero(x, op.a, op.b)
    [] op.k = "create" -> create(x)
    [] op.k = "delete" -> delete_oid(x, snapc)
    [] op.k = "rollback" -> rollback_to(x, ob, snapc, op.a)
    [] OTHER -> [x EXCEPT !.undirty = ob.dirty, !.modify = @ \/ ob.dirty]

(* The first that fails ends the operation.                                *)
do_osd_ops(ob, snapc, ops, v) ==
  LET after[n \in 0 .. Len(ops)] ==
        IF n = 0 THEN Context(ob)
        ELSE IF after[n - 1].r # "ok" THEN after[n - 1]
        ELSE do_osd_op(after[n - 1], ob, snapc, ops[n], v)
  IN  after[Len(ops)]

(* The head as the operation leaves it is dirty, unless it is cleaned.     *)
Dirty(x) == x.head # "none" /\ ~x.undirty

SnapsOfClone(ss, snapc) == {s \in snapc.snaps : s > ss.seq}

(* The clone of the head before the operation, for the snapshots taken     *)
(* since the last one.                                                     *)
Cloned(x, ob, snapc) ==
  ob.head = "there" /\ \E s \in snapc.snaps : s > x.ss.seq

NewClone(x, ob, snapc) ==
  [snaps |-> SnapsOfClone(x.ss, snapc), size |-> Len(ob.data),
   overlap |-> DOMAIN ob.data]

(* What the operation changed is no longer shared with the newest clone.   *)
Unshare(x) ==
  IF Clones(x.ss) = {} THEN x
  ELSE LET c == Max(Clones(x.ss))
           m == x.ranges \cap x.ss.clone[c].overlap
       IN  [x EXCEPT !.d.bytes = @ + Cardinality(m),
                     !.ss.clone[c].overlap = @ \ m]

make_writeable(x, ob, snapc) ==
  LET new == Cloned(x, ob, snapc)
      y == [x EXCEPT
        !.d.dirty = One(Dirty(x)) - One(ob.dirty) + One(new /\ ob.dirty),
        !.d.objects = @ + One(new), !.d.clones = @ + One(new),
        !.ss.clone = IF new
                     THEN With(@, snapc.seq, NewClone(x, ob, snapc))
                     ELSE @]
  IN  [Unshare(y) EXCEPT !.ss.seq = Max({@, snapc.seq})]

(* finish_ctx: the object as the operation leaves it.                      *)
finish_ctx(y, ob, snapc) ==
  [head |-> y.head, data |-> y.data, dirty |-> Dirty(y),
   ss |-> IF y.head = "none" THEN NoSnapSet ELSE y.ss,
   disk |-> IF Cloned([y EXCEPT !.ss = ob.ss], ob, snapc)
            THEN With(ob.disk, snapc.seq,
                      [data |-> ob.data, dirty |-> ob.dirty])
            ELSE ob.disk]

Repop(base, o, ob, frozen, d, locks, trims) ==
  [after |-> [obs |-> [base.obs EXCEPT ![o] = ob],
              frozen |-> [base.frozen EXCEPT ![o] = Forget(frozen, ob)]],
   o |-> o, d |-> d, locks |-> locks, trims |-> trims,
   passed |-> ~begin.rmw]

(* ok: there is something to do; got: the lock on the new clone.           *)
PrepareWrite(o, ops, snapc, v) ==
  LET ob == Now.obs[o]
      x == do_osd_ops(ob, snapc, ops, v)
      y == make_writeable(x, ob, snapc)
      coid == IF Cloned(x, ob, snapc) THEN {<<o, snapc.seq>>} ELSE {}
      frozen == Freeze(Now.frozen[o], ob,
                       {s \in Live : s <= snapc.seq /\ s > ob.ss.seq})
  IN  [ok |-> x.r = "ok" /\ x.modify,
       got |-> coid \cap readers = {},
       repop |-> Repop(Now, o, finish_ctx(y, ob, snapc), frozen, y.d,
                       {<<o, NoHead>>} \cup coid, {})]
-----------------------------------------------------------------------------
(* trim_object for clone c of o: no snapshot of it may be left, or some.   *)
SnapsLeft(ob, c, s) == ob.ss.clone[c].snaps \ (pool.removed \cup {s})

(* A mutant: the older neighbour keeps what it shared with the clone.      *)
MergeOverlap_kept(ss, c) == ss

(* What the next older clone shares with the next newer object.            *)
MergeOverlap(ss, c) ==
  LET older == {k \in Clones(ss) : k < c}
  IN  IF older = {} THEN ss
      ELSE [ss EXCEPT !.clone[Max(older)].overlap =
                         @ \cap ss.clone[c].overlap]

RemoveClone(ob, c) ==
  LET ss == MergeOverlap(ob.ss, c)
      grown == {k \in Clones(ss) \ {c} : ss.clone[k] # ob.ss.clone[k]}
      more(k) == get_clone_bytes(ss.clone[k]) - get_clone_bytes(ob.ss.clone[k])
  IN  [ob |-> [ob EXCEPT !.ss = [ss EXCEPT !.clone = Without(@, c)],
                         !.disk = Without(@, c)],
       d |-> [ZeroStats EXCEPT
                !.objects = -1, !.clones = -1,
                !.dirty = -One(ob.disk[c].dirty),
                !.bytes = FoldSet(LAMBDA k, n : n + more(k),
                                  -get_clone_bytes(ob.ss.clone[c]), grown)]]

(* A whiteout without clones goes; its SnapSet stays in memory.            *)
RemoveWhiteout(t) ==
  IF Clones(t.ob.ss) = {} /\ t.ob.head = "whiteout"
  THEN [ob |-> [t.ob EXCEPT !.head = "none", !.dirty = FALSE],
        d |-> Plus(t.d, [ZeroStats EXCEPT !.objects = -1, !.whiteouts = -1,
                                          !.dirty = -One(t.ob.dirty)])]
  ELSE t

KeepClone(ob, c, keep) ==
  [ob |-> [ob EXCEPT !.ss.clone[c].snaps = keep], d |-> ZeroStats]

trim_object(base, o, c, s) ==
  LET ob == base.obs[o]
      keep == SnapsLeft(ob, c, s)
      t == IF keep = {} THEN RemoveClone(ob, c)
           ELSE KeepClone(ob, c, keep)
      u == RemoveWhiteout(t)
  IN  Repop(base, o, u.ob, base.frozen[o], u.d, {<<o, c>>, <<o, NoHead>>},
            {<<o, c>>})
-----------------------------------------------------------------------------
(* scrub_snapshot_metadata goes through the objects of a chunk backwards:  *)
(* a head, then its clones from the newest.                                *)
BeforeHead == [o |-> 0, ss |-> NoSnapSet, expect |-> <<>>, errors |-> 0,
               stat |-> ZeroStats]
Newest(S) == SetToSortSeq(S, >)

(* The clones that are expected down to the object p, but are not there.   *)
process_clones_to(a, p) ==
  LET keep == IF p.snap = NoHead \/ p.o # a.o THEN <<>>
              ELSE SelectSeq(a.expect, LAMBDA c : c <= p.snap)
  IN  [a EXCEPT !.errors = @ + Len(a.expect) - Len(keep), !.expect = keep]

ScrubHead(a, p) ==
  [a EXCEPT !.o = p.o, !.ss = p.ss, !.expect = Newest(Clones(p.ss)),
            !.errors = @ + One(Clones(p.ss) # {} /\ p.ss.seq = 0),
            !.stat = Plus(@, [objects |-> 1, clones |-> 0,
                              whiteouts |-> One(p.whiteout),
                              dirty |-> One(p.dirty), bytes |-> p.size])]

ScrubClone(a, p) ==
  LET k == a.ss.clone[p.snap]
      bad == Cardinality(k.overlap) > k.size
  IN  [a EXCEPT !.expect = Tail(@),
                !.errors = @ + One(p.size # k.size) + One(bad),
                !.stat = Plus(@, [objects |-> 1, clones |-> 1,
                                  whiteouts |-> 0, dirty |-> One(p.dirty),
                                  bytes |-> IF bad THEN 0
                                            ELSE get_clone_bytes(k)])]

ScrubObject(a, p) ==
  LET b == process_clones_to(a, p)
      expected == IF b.expect # <<>> THEN Head(b.expect) = p.snap
                  ELSE p.snap = NoHead
  IN  CASE ~expected -> [b EXCEPT !.errors = @ + 1]
        [] expected /\ p.snap = NoHead -> ScrubHead(b, p)
        [] OTHER -> ScrubClone(b, p)

scrub_snapshot_metadata(objects) ==
  LET a == FoldLeft(ScrubObject, BeforeHead, objects)
  IN  [errors |-> a.errors + Len(a.expect), stat |-> a.stat]

(* The scrub map of one object, backwards.                                 *)
ScrubMap(o) ==
  LET ob == Stored.obs[o]
      head == [o |-> o, snap |-> NoHead, size |-> Len(ob.data), ss |-> ob.ss,
               dirty |-> ob.dirty, whiteout |-> ob.head = "whiteout"]
      cs == Newest(DOMAIN ob.disk)
  IN  (IF ob.head = "none" THEN <<>> ELSE <<head>>)
      \o [i \in DOMAIN cs |->
            [o |-> o, snap |-> cs[i], size |-> Len(ob.disk[cs[i]].data),
             ss |-> NoSnapSet, dirty |-> ob.disk[cs[i]].dirty,
             whiteout |-> FALSE]]
-----------------------------------------------------------------------------
(* The snap trimmer.  T: trimmer, trimq, repeat and purged.                *)
T == [st |-> trimmer.st, snap |-> trimmer.snap, trimq |-> trimq,
      repeat |-> repeat, purged |-> purged]

Trims(t) ==
  /\ trimmer' = [st |-> t.st, snap |-> t.snap]
  /\ trimq' = t.trimq /\ repeat' = t.repeat /\ purged' = t.purged

can_trim(t) == clean /\ ~scrubber.active /\ t.trimq # {}

NotTrimming(t) == [t EXCEPT !.st = "NotTrimming", !.snap = 0]

(* KickTrim: only NotTrimming reacts to it.                                *)
KickTrim(t, isClean, scrubbing) ==
  IF t.st # "NotTrimming" \/ ~isClean \/ t.trimq = {} THEN t
  ELSE IF scrubbing THEN [t EXCEPT !.st = "WaitScrub"]
  ELSE [t EXCEPT !.st = "WaitReservation"]

Kicked(t) == KickTrim(t, clean, scrubber.active)

(* A mutant: the machine does not kick itself again.                       *)
Again_stops(t, st) == IF can_trim(t) THEN [t EXCEPT !.st = st]
                      ELSE NotTrimming(t)

(* The reaction to what a state waits for.                                 *)
Again(t, st) == IF can_trim(t) THEN [t EXCEPT !.st = st]
                ELSE Kicked(NotTrimming(t))

snap_trimmer_scrub_complete ==
  Trims(IF trimmer.st = "WaitScrub" /\ clean /\ trimq # {}
        THEN KickTrim(NotTrimming(T), clean, FALSE) ELSE T)

Reserved ==
  /\ Running /\ trimmer.st = "WaitReservation"
  /\ LET t == Again(T, "AwaitAsyncWork")
     IN  Trims(IF can_trim(T) THEN [t EXCEPT !.snap = Min(trimq)] ELSE t)
  /\ UNCHANGED <<begin, left, pool, durable, flight, readers, marked,
                 clean, scrubber, asserted>>

(* The SnapMapper: the clones in store that serve s, and the first of      *)
(* them, in order.                                                         *)
Mapped(s) ==
  {oc \in Object \X (1 .. pool.seq) :
     /\ oc[2] \in Clones(Stored.obs[oc[1]].ss)
     /\ s \in Stored.obs[oc[1]].ss.clone[oc[2]].snaps}

Precedes(oc, pd) == oc[1] < pd[1] \/ (oc[1] = pd[1] /\ oc[2] < pd[2])

get_next_objects_to_trim(s) ==
  {todo \in UNION {[1 .. n -> Mapped(s)] : n \in 0 .. MaxTrims} :
     /\ \A i, j \in DOMAIN todo : i < j => Precedes(todo[i], todo[j])
     /\ \A oc \in Mapped(s) :
          \/ \E i \in DOMAIN todo : todo[i] = oc
          \/ /\ Len(todo) = MaxTrims
             /\ \A i \in DOMAIN todo : Precedes(todo[i], oc)}

Unlocked(oc) == {oc, <<oc[1], NoHead>>} \cap readers = {}

(* Where get_snaptrimmer_write leaves its mark: the clone, then the head.  *)
Blocks(oc) == IF oc \in readers THEN oc ELSE <<oc[1], NoHead>>

(* Nothing is left of the snapshot: it is purged, or was.                  *)
DonePurging(t) ==
  LET s == t.snap
      u == [t EXCEPT !.trimq = @ \ {s}, !.repeat = @ \ {s},
                     !.purged = IF s \in t.repeat THEN @ ELSE @ \cup {s}]
  IN  Kicked(NotTrimming(u))

(* Submitted: what the backend need not read for is passed on at once;     *)
(* apply_stats also counts it for the part that is scrubbed already.       *)
Scrubbed(o) == scrubber.active /\ o < scrubber.start

Counted(q) == AddStats(scrubber.cstat, SelectSeq(q, LAMBDA r : Scrubbed(r.o)))

Submits(q) ==
  /\ flight' = flight \o q
  /\ scrubber' = IF begin.rmw THEN scrubber
                 ELSE [scrubber EXCEPT !.cstat = Counted(q)]

(* The repops of the first m of todo, each on what the last one leaves.    *)
TrimFirst(m, todo) ==
  LET repops[k \in 0 .. m] ==
        IF k = 0 THEN <<>>
        ELSE Append(repops[k - 1],
                    trim_object(After(flight \o repops[k - 1]),
                                todo[k][1], todo[k][2], trimmer.snap))
  IN  repops[m]

(* A mutant: the trimmer goes on before the trims are committed.           *)
StartTrims_nowait(todo) ==
  LET n == Min({i \in DOMAIN todo : ~Unlocked(todo[i])} \cup {Len(todo) + 1})
  IN  /\ Submits(TrimFirst(n - 1, todo))
      /\ Trims([T EXCEPT !.st = IF n = 1 THEN "WaitRWLock"
                                ELSE "AwaitAsyncWork"])
      /\ marked' = IF n = 1 THEN marked \cup {Blocks(todo[1])} ELSE marked

(* The first that is locked is waited for, or what was started.            *)
StartTrims(todo) ==
  LET n == Min({i \in DOMAIN todo : ~Unlocked(todo[i])} \cup {Len(todo) + 1})
  IN  /\ Submits(TrimFirst(n - 1, todo))
      /\ Trims([T EXCEPT !.st = IF n = 1 THEN "WaitRWLock"
                                ELSE "WaitRepops"])
      /\ marked' = IF n = 1 THEN marked \cup {Blocks(todo[1])} ELSE marked

in_flight == UNION {flight[i].trims : i \in DOMAIN flight}

DoSnapWork ==
  /\ Running /\ trimmer.st = "AwaitAsyncWork"
  /\ \E todo \in get_next_objects_to_trim(trimmer.snap) :
       LET lost == \E i \in DOMAIN todo :
                     todo[i][2] \notin DOMAIN Now.obs[todo[i][1]].disk
       IN  \/ /\ in_flight # {} \/ (can_trim(T) /\ lost)
              /\ asserted' = IF in_flight # {} THEN "in_flight.empty()"
                             ELSE "trim_object: repair needed"
              /\ UNCHANGED <<snapVars, flight, marked, scrubber>>
           \/ /\ in_flight = {}
              /\ ~can_trim(T) \/ todo = <<>>
              /\ Trims(IF can_trim(T) THEN DonePurging(T)
                       ELSE Kicked(NotTrimming(T)))
              /\ UNCHANGED <<flight, marked, scrubber, asserted>>
           \/ /\ in_flight = {} /\ ~lost
              /\ can_trim(T) /\ todo # <<>>
              /\ StartTrims(todo)
              /\ UNCHANGED asserted
  /\ UNCHANGED <<begin, left, pool, durable, readers, clean>>
-----------------------------------------------------------------------------
Spend(e) == left[e] > 0 /\ left' = [left EXCEPT ![e] = @ - 1]

(* The snap contexts of clients; filter_snapc drops removed snapshots.     *)
SnapContext ==
  {[seq |-> q, snaps |-> 1 .. q \ pool.removed] :
     q \in IF begin.stale THEN 0 .. pool.seq ELSE {pool.seq}}

Write(o) ==
  /\ Running /\ Spend("writes")
  /\ <<o, NoHead>> \notin readers
  /\ ~(scrubber.active /\ scrubber.start = o)
  /\ \E ops \in begin.ops, snapc \in SnapContext :
       \E w \in {PrepareWrite(o, ops, snapc, left["writes"])} :
         /\ w.ok
         /\ IF w.got THEN Submits(<<w.repop>>) /\ UNCHANGED asserted
            ELSE /\ asserted' = "make_writeable: got"
                 /\ UNCHANGED <<flight, scrubber>>
  /\ UNCHANGED <<begin, pool, durable, readers, marked, snapVars, clean>>

(* The backend has read what it needs for the next repop.                  *)
PassOn ==
  /\ Running /\ \E i \in DOMAIN flight : ~flight[i].passed
  /\ LET i == Len(Passed) + 1
     IN  /\ flight' = [flight EXCEPT ![i].passed = TRUE]
         /\ scrubber' = [scrubber EXCEPT !.cstat = Counted(<<flight[i]>>)]
  /\ UNCHANGED <<begin, left, pool, durable, readers, marked, snapVars,
                 clean, asserted>>

Commits(r) == [obs |-> r.after.obs, frozen |-> r.after.frozen,
               stats |-> Plus(durable.stats, r.d)]

(* The last trim of a batch: RepopsComplete.                               *)
Commit ==
  /\ Running /\ Passed # <<>>
  /\ durable' = Commits(Head(flight))
  /\ flight' = Tail(flight)
  /\ IF in_flight # {} /\ in_flight = Head(flight).trims
     THEN Trims(Again(T, "AwaitAsyncWork"))
     ELSE UNCHANGED snapVars
  /\ UNCHANGED <<begin, left, pool, readers, marked, clean, scrubber,
                 asserted>>

StartRead(oc) ==
  /\ Running /\ Spend("reads")
  /\ \/ oc[2] = NoHead /\ Now.obs[oc[1]].head = "there"
     \/ oc[2] \in DOMAIN Now.obs[oc[1]].disk
  /\ oc \notin readers \cup Locks
  /\ readers' = readers \cup {oc}
  /\ UNCHANGED <<begin, pool, durable, flight, marked, snapVars, clean,
                 scrubber, asserted>>

(* A mark on the object: TrimWriteUnblocked.                               *)
EndRead(oc) ==
  /\ Running /\ oc \in readers
  /\ readers' = readers \ {oc}
  /\ marked' = marked \ {oc}
  /\ IF oc \in marked /\ trimmer.st = "WaitRWLock"
     THEN Trims(Again(T, "AwaitAsyncWork")) ELSE UNCHANGED snapVars
  /\ UNCHANGED <<begin, left, pool, durable, flight, clean, scrubber,
                 asserted>>

CreateSnap ==
  /\ Running /\ Spend("snaps")
  /\ pool' = [pool EXCEPT !.seq = @ + 1]
  /\ UNCHANGED <<begin, durable, flight, readers, marked, snapVars, clean,
                 scrubber, asserted>>

RemoveSnap(s) ==
  /\ Running /\ Spend("removals") /\ s \in Live
  /\ pool' = [pool EXCEPT !.removed = @ \cup {s}]
  /\ Trims(Kicked([T EXCEPT !.trimq = @ \cup {s}]))
  /\ UNCHANGED <<begin, durable, flight, readers, marked, clean, scrubber,
                 asserted>>

(* A purged snapshot is looked for again.                                  *)
queue_snap_retrim(s) ==
  /\ Running /\ Spend("retrims") /\ s \in purged \ trimq
  /\ Trims(Kicked([T EXCEPT !.trimq = @ \cup {s}, !.repeat = @ \cup {s}]))
  /\ UNCHANGED <<begin, pool, durable, flight, readers, marked, clean,
                 scrubber, asserted>>
-----------------------------------------------------------------------------
NoScrub == [active |-> FALSE, start |-> 0, cstat |-> ZeroStats, bad |-> FALSE]

StartScrub ==
  /\ Running /\ Spend("scrubs") /\ clean /\ ~scrubber.active
  /\ scrubber' = [NoScrub EXCEPT !.active = TRUE, !.start = 1]
  /\ UNCHANGED <<begin, pool, durable, flight, readers, marked, snapVars,
                 clean, asserted>>

(* The chunk of the next object, once its writes are in the store; after   *)
(* the last one _scrub_finish.                                             *)
ScrubChunk ==
  /\ Running /\ scrubber.active
  /\ \A i \in DOMAIN flight : flight[i].o # scrubber.start
  /\ LET found == scrub_snapshot_metadata(ScrubMap(scrubber.start))
         cstat == Plus(scrubber.cstat, found.stat)
         bad == scrubber.bad \/ found.errors > 0
     IN  IF scrubber.start < NObjects
         THEN /\ scrubber' = [scrubber EXCEPT !.start = @ + 1,
                                              !.cstat = cstat, !.bad = bad]
              /\ UNCHANGED snapVars
         ELSE /\ scrubber' = [NoScrub EXCEPT !.bad = bad \/ cstat # Stats]
              /\ snap_trimmer_scrub_complete
  /\ UNCHANGED <<begin, left, pool, durable, flight, readers, marked, clean,
                 asserted>>
-----------------------------------------------------------------------------
(* The contexts are gone: what is not in store has no SnapSet.             *)
Uncached(st) ==
  [obs |-> [o \in Object |->
              IF st.obs[o].head = "none" THEN NoObject ELSE st.obs[o]],
   frozen |-> [o \in Object |->
              IF st.obs[o].head = "none" THEN Forget(st.frozen[o], NoObject)
              ELSE st.frozen[o]],
   stats |-> st.stats]

(* The context of an object that does not exist leaves the cache.          *)
ForgetContexts ==
  /\ Running /\ flight = <<>> /\ durable # Uncached(durable)
  /\ durable' = Uncached(durable)
  /\ UNCHANGED <<begin, left, pool, flight, readers, marked, snapVars, clean,
                 scrubber, asserted>>

(* on_change: some of what the backend had passed on stays; the new        *)
(* primary may not know of every purged snapshot.                          *)
NewInterval ==
  /\ Running /\ Spend("intervals")
  /\ \E n \in 0 .. Len(Passed), lost \in SUBSET purged :
       LET kept == SubSeq(Passed, 1, n)
           st == After(kept)
       IN  /\ durable' = Uncached([obs |-> st.obs, frozen |-> st.frozen,
                                   stats |-> AddStats(durable.stats, kept)])
           /\ Trims([NotTrimming(T) EXCEPT
                       !.purged = @ \ lost, !.repeat = {},
                       !.trimq = pool.removed \ (purged \ lost)])
  /\ flight' = <<>> /\ readers' = {} /\ marked' = {}
  /\ clean' = FALSE
  /\ scrubber' = NoScrub
  /\ UNCHANGED <<begin, pool, asserted>>

Recovered ==
  /\ Running /\ ~clean
  /\ clean' = TRUE
  /\ Trims(KickTrim(T, TRUE, FALSE))
  /\ UNCHANGED <<begin, left, pool, durable, flight, readers, marked,
                 scrubber, asserted>>

Init ==
  /\ begin \in Begin /\ left = begin.max
  /\ pool = [seq |-> 0, removed |-> {}]
  /\ durable = [obs |-> [o \in Object |-> NoObject],
                frozen |-> [o \in Object |-> <<>>], stats |-> ZeroStats]
  /\ flight = <<>> /\ readers = {} /\ marked = {}
  /\ trimmer = [st |-> "NotTrimming", snap |-> 0]
  /\ trimq = {} /\ repeat = {} /\ purged = {}
  /\ clean = TRUE /\ scrubber = NoScrub /\ asserted = None

Targets == Object \X (0 .. pool.seq)

Work ==
  \/ Reserved
  \/ DoSnapWork
  \/ PassOn
  \/ Commit
  \/ \E oc \in Targets : EndRead(oc)
  \/ ScrubChunk
  \/ Recovered

Next ==
  \/ Work
  \/ \E o \in begin.objects : Write(o)
  \/ \E oc \in Targets : StartRead(oc)
  \/ CreateSnap
  \/ \E s \in 1 .. pool.seq : RemoveSnap(s)
  \/ \E s \in 1 .. pool.seq : queue_snap_retrim(s)
  \/ StartScrub
  \/ ForgetContexts
  \/ NewInterval

Spec == Init /\ [][Next]_vars

(* Queues are served, commits and reads come back, a scrub goes on and the *)
(* PG gets clean: weak fairness of Work, with what enables it spelled out. *)
Busy == /\ Running
        /\ \/ trimmer.st \in {"WaitReservation", "AwaitAsyncWork"}
           \/ flight # <<>> \/ readers # {} \/ scrubber.active \/ ~clean

FairSpec == Spec /\ ([]<>~Busy \/ []<><<Work>>_vars)
-----------------------------------------------------------------------------
(* No assertion of make_writeable or the trimmer fails, and trim_object    *)
(* finds the clones the SnapMapper names (PrimaryLogPG.cc 4314-4373, 8204, *)
(* 15305-15360).                                                           *)
NoAssertFails == asserted = None

(* A live snapshot of an object reads as the head did before the first     *)
(* write that named it, whatever was cloned, trimmed, deleted, rolled back *)
(* or lost since (find_object_context with make_writeable).                *)
SnapReads ==
  \A o \in Object, s \in Live :
    LET ob == Now.obs[o]
        frozen == Now.frozen[o]
    IN  find_object_context(ob, s).data =
          IF s \in DOMAIN frozen THEN frozen[s] ELSE Content(ob)

(* A clone has the same data as its next newer neighbour, or the head,     *)
(* where clone_overlap says so: recovery and list-snaps rely on it.        *)
OverlapsTrue ==
  \A o \in Object : \A c \in Clones(Now.obs[o].ss) :
    LET ob == Now.obs[o]
        newer == {k \in Clones(ob.ss) : k > c}
        next == IF newer = {} THEN ob.data ELSE ob.disk[Min(newer)].data
    IN  \A i \in ob.ss.clone[c].overlap :
          /\ i \in DOMAIN ob.disk[c].data \cap DOMAIN next
          /\ ob.disk[c].data[i] = next[i]

(* A scrub, also one between writes and trims, finds no clone that is      *)
(* missing or unexpected and the same statistics as were kept one change   *)
(* at a time (scrub_snapshot_metadata, _scrub_finish, apply_stats).        *)
ScrubFindsNothing == ~scrubber.bad

(* Every removed snapshot is purged in the end, and no clone is left for   *)
(* it (the snap trimmer, its locks, scrubs and new intervals).             *)
SnapsAreTrimmed ==
  <>[](/\ pool.removed \subseteq purged
       /\ trimq = {}
       /\ \A o \in Object : \A c \in Clones(Now.obs[o].ss) :
            Now.obs[o].ss.clone[c].snaps \cap pool.removed = {})
=============================================================================
