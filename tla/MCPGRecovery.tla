----------------------------- MODULE MCPGRecovery -----------------------------
EXTENDS PGRecovery, TLC

MCPrimary == 0
(* Object 1 is a clone of object 2, object 3 does not exist yet.           *)
MCHeadOf == [o \in Object |-> IF o = 1 THEN 2 ELSE o]
MCInitVer == [o \in Object |-> IF o = 3 THEN 0 ELSE o]

Lacks(f) == [s \in Shard |-> f[s + 1]]
(* One target with an old copy and a stray object, nobody misses anything. *)
Backfill == [targets |-> {1}, stale |-> <<0, 1, 1>>, reads |-> 0, sources |-> 0,
             ops |-> 2, missing |-> Lacks(<<{}, {}, {}>>)]
(* An object cannot be read for the backfill.                              *)
BackfillFails == [Backfill EXCEPT !.reads = 1, !.ops = 1]
(* The primary misses a head and its clone, and a source goes down.        *)
LogOnly == [targets |-> {}, stale |-> <<>>, reads |-> 0, sources |-> 1,
            ops |-> 1, missing |-> Lacks(<<{1, 2}, {}, {}>>)]
(* Too few have the clone: it is unfound.                                  *)
Lost == [LogOnly EXCEPT !.missing = Lacks(<<{1, 2}, {1}, {}>>), !.sources = 0]
(* Only a replica misses objects, too many cannot read one, and the        *)
(* primary lacks a delete.                                                 *)
ReadFails == [LogOnly EXCEPT !.missing = Lacks(<<{3}, {1, 2}, {}>>), !.sources = 0,
                             !.reads = 1]
All == {Backfill, BackfillFails, LogOnly, Lost, ReadFails}
=============================================================================
