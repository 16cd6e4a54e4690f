----------------------------- MODULE MCECRecovery -----------------------------
EXTENDS ECRecovery, TLC

(* A 2+2 code, OSD i for shard i, OSD 0 the primary; OSD 9 is outside the  *)
(* acting set and has an old copy of shard 3.                              *)
A(s) == <<s, s>>
MCActing  == {A(s) : s \in 0 .. 3}
Stray     == <<9, 3>>
MCPgShard == MCActing \cup {Stray}
MCPrimary == A(0)

TwoPieces == [o \in Object |-> IF o = 1 THEN 2 ELSE 1]
Lacks(f)  == [p \in MCActing |-> f[p[2] + 1]]

(* Objects lost by the primary and another shard, by two peers; or object  *)
(* 1 lost by three, so that it can be rebuilt only with the source outside *)
(* the acting set, and object 2 by one, so that it is repaired from sub-   *)
(* chunks; or object 2 lost by the shard of which that source has a copy,  *)
(* so that both are read from it and cancelled when it goes down.          *)
WideMissing   == Lacks(<<{1}, {}, {2}, {1, 2}>>)
ScarceMissing == Lacks(<<{1}, {}, {1, 2}, {1}>>)
LonelyMissing == Lacks(<<{1}, {}, {1}, {1, 2}>>)
Missings      == {WideMissing, ScarceMissing, LonelyMissing}
StrayOfBoth   == [o \in Object |-> {Stray}]
=============================================================================
