------------------------------ MODULE CommitLog ------------------------------
(***************************************************************************)
(* What a placement group promises of its writes: versions are appended to *)
(* a log in increasing order; a version is acknowledged after every        *)
(* smaller one that was, and never twice; a change of interval may cut     *)
(* the end of the log off, but not an acknowledged version.  ECWrite       *)
(* implements it.                                                          *)
(***************************************************************************)
EXTENDS Naturals

CONSTANT Versions   \* a set of naturals

VARIABLES
  log,    \* the versions that were appended and not cut off
  acked   \* the versions whose writer was told that they are committed

vars == <<log, acked>>

Above(v, S) == \A w \in S : w < v

Init == log = {} /\ acked = {}

Append(v) ==
  /\ Above(v, log)
  /\ log' = log \cup {v}
  /\ UNCHANGED acked

Acknowledge(v) ==
  /\ v \in log
  /\ Above(v, acked)
  /\ acked' = acked \cup {v}
  /\ UNCHANGED log

CutOff(h) ==
  /\ log' = {v \in log : v <= h}
  /\ acked \subseteq log'
  /\ UNCHANGED acked

Next == \E v \in Versions : Append(v) \/ Acknowledge(v) \/ CutOff(v)

Spec == Init /\ [][Next]_vars
=============================================================================
