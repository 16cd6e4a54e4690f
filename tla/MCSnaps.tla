------------------------------- MODULE MCSnaps -------------------------------
EXTENDS Snaps

Op(k, a, b) == <<[k |-> k, a |-> a, b |-> b]>>
Full == Op("writefull", 2, 0)
Small == Op("writefull", 1, 0)
Delete == Op("delete", 0, 0)
Rollback == Op("rollback", 1, 0)

Bounds(w, s, rm, rt, rd, sc, iv) ==
  [writes |-> w, snaps |-> s, removals |-> rm, retrims |-> rt, reads |-> rd,
   scrubs |-> sc, intervals |-> iv]
Of(objects, ops, bounds) ==
  [objects |-> objects, ops |-> ops, stale |-> FALSE, rmw |-> FALSE,
   max |-> bounds]

(* One object: its data, its whiteout, its dirty flag, old snap contexts.  *)
Edited == Of({1}, {Full, Op("write", 1, 1), Op("truncate", 1, 0), Rollback},
             Bounds(4, 2, 1, 0, 0, 0, 0))
Deleted == Of({1}, {Op("append", 1, 0), Delete, Op("zero", 0, 1), Rollback,
                    Delete \o Op("create", 0, 0)},
              Bounds(4, 2, 1, 0, 0, 0, 0))
Cleaned == Of({1}, {Small, Op("undirty", 0, 0), Delete},
              Bounds(4, 1, 1, 0, 0, 1, 0))
Stale == [Of({1}, {Full, Op("write", 0, 1), Delete},
             Bounds(4, 2, 1, 0, 0, 0, 0)) EXCEPT !.stale = TRUE]

(* Two objects: writes and trims around a scrub, writes that read first,   *)
(* trims around reads and a new interval.  One object, trimmed again.      *)
Scrubbing == Of({1, 2}, {Small, Delete}, Bounds(4, 1, 1, 0, 0, 1, 0))
Reading == [Of({1, 2}, {Small, Delete}, Bounds(3, 1, 0, 0, 0, 1, 1))
              EXCEPT !.rmw = TRUE]
Trimming == Of({1, 2}, {Small}, Bounds(4, 1, 1, 0, 1, 0, 1))
Retrimming == Of({1}, {Small}, Bounds(3, 1, 1, 1, 1, 1, 1))

Several == {Edited, Deleted, Cleaned, Stale, Scrubbing, Reading, Trimming,
            Retrimming}

(* The example in the comment before scrub_snapshot_metadata: of its       *)
(* objects two clones are unexpected and three are missing.                *)
Scanned(o, snap, clones) ==
  [o |-> o, snap |-> snap, size |-> 0, dirty |-> FALSE, whiteout |-> FALSE,
   ss |-> [seq |-> 9, clone |-> [c \in clones |-> [snaps |-> {c}, size |-> 0,
                                                  overlap |-> {}]]]]
Example ==
  <<Scanned(1, 1, {}), Scanned(2, NoHead, {6, 4, 2, 1}), Scanned(2, 7, {}),
    Scanned(2, 6, {}), Scanned(2, 4, {}), Scanned(3, NoHead, {3, 1}),
    Scanned(3, 3, {}), Scanned(3, 1, {}), Scanned(4, NoHead, {4})>>

ASSUME ScrubExample ==
  LET found == scrub_snapshot_metadata(Example)
  IN  found.errors = 5 /\ found.stat.objects = 7 /\ found.stat.clones = 4
=============================================================================
