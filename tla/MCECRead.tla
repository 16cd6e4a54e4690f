------------------------------ MODULE MCECRead ------------------------------
EXTENDS ECRead, TLC

(* One OSD for each shard of a 2+1 code.                                   *)
Acting3 == {<<s, s>> : s \in 0 .. 2}
=============================================================================
