----------------------------- MODULE MCClientOps -----------------------------
EXTENDS ClientOps

Good == [x \in Object |-> "whole"]
Sends(c, kinds) == [i \in DOMAIN kinds |-> [c |-> c, o |-> 1, kind |-> kinds[i]]]

(* One client and a new interval; recovery before and after it.            *)
Rebuilt(kinds) ==
  [ops |-> Sends(1, kinds), exists |-> {1},
   bad |-> [x \in Object |-> "unreadable"],
   after |-> [x \in Object |-> "degraded"],
   scrubs |-> 0, leases |-> 0, intervals |-> 1]

(* Two clients on one object that is being scrubbed.                       *)
Contended(one, two) ==
  [ops |-> Sends(1, one) \o Sends(2, two), exists |-> {}, bad |-> Good,
   after |-> Good, scrubs |-> 1, leases |-> 0, intervals |-> 1]

(* The lease runs out; nothing but locks and leases is waited for.         *)
Leased(kinds) ==
  [ops |-> Sends(1, kinds), exists |-> {1}, bad |-> Good, after |-> Good,
   scrubs |-> 0, leases |-> 1, intervals |-> 1]

Several ==
  {Rebuilt(<<"write", "guarded", "read">>),
   Contended(<<"create", "read">>, <<"guarded">>),
   Contended(<<"create">>, <<"guarded", "delete">>),
   [Contended(<<"guarded">>, <<"read">>) EXCEPT !.exists = {1}, !.scrubs = 0,
                                                !.intervals = 2],
   Leased(<<"guarded", "write", "read">>)}

(* An object is rebuilt and the lease runs out meanwhile: not part of the  *)
(* run, InOrder fails for it (see the README).                             *)
Lagging ==
  {[ops |-> Sends(1, <<"write", "write">>), exists |-> {1},
    bad |-> [x \in Object |-> "degraded"], after |-> Good,
    scrubs |-> 0, leases |-> 1, intervals |-> 0]}
=============================================================================
