------------------------------ MODULE MCTiering ------------------------------
(* Instances of Tiering: the primary of a cache pool, its agent and the    *)
(* base pool, in scenarios of two or three client operations.              *)
EXTENDS Tiering

Sends(c, o, whats) == [i \in DOMAIN whats |->
  [c |-> c, o |-> o, kind |-> whats[i], must |-> FALSE]]
Musts(c, o, what) == <<[c |-> c, o |-> o, kind |-> what, must |-> TRUE]>>

Calm == [cache |-> <<"none", "none", "none">>, base |-> <<TRUE, FALSE, FALSE>>,
         target |-> 4, hits |-> TRUE, mode |-> "writeback", chunks |-> 1,
         scrubs |-> 0, locks |-> 0, intervals |-> 0, errors |-> 0, modes |-> 0,
         cold |-> 0, late |-> 0]
With(b, ops) == [k \in DOMAIN b \cup {"ops"} |-> IF k = "ops" THEN ops ELSE b[k]]

Warm == [Calm EXCEPT !.base = <<FALSE, TRUE, FALSE>>]
Crowded == [Warm EXCEPT !.cache = <<"dirty", "clean", "none">>, !.target = 1]

(* Proxied, promoted in two chunks, late replies, an error, an interval.   *)
Promotes ==
  {With([Calm EXCEPT !.chunks = 2, !.late = 1, !.errors = 1],
        Sends(1, 1, <<"write", "read">>) \o Sends(2, 1, <<"write">>)),
   With([Calm EXCEPT !.chunks = 2, !.intervals = 1],
        Sends(1, 1, <<"write", "read">>) \o Sends(2, 1, <<"delete">>)),
   With([Calm EXCEPT !.hits = FALSE, !.scrubs = 1],
        Sends(1, 1, <<"delete", "delete">>) \o Musts(2, 2, "write"))}

(* Flushes and evictions that clients ask for.                             *)
Flushes ==
  {With([Warm EXCEPT !.cache = <<"dirty", "none", "none">>, !.locks = 1, !.scrubs = 1,
                     !.chunks = 2],
        Sends(1, 1, <<what, "write">>) \o Sends(2, 1, <<"evict">>))
     : what \in {"flush", "try_flush"}}
  \cup
  {With([Warm EXCEPT !.cache = <<"dirty", "none", "none">>, !.intervals = 1],
        Sends(1, 1, <<"delete", "flush">>) \o Sends(2, 1, <<what>>))
     : what \in {"evict", "write", "flush"}}

(* The agent at work, the cache full or not, its mode changed.             *)
Filled == [Crowded EXCEPT !.cache = <<"none", "dirty", "none">>,
                          !.base = <<TRUE, TRUE, FALSE>>]
Full == [Filled EXCEPT !.cache = <<"none", "dirty", "clean">>,
                       !.base = <<TRUE, FALSE, TRUE>>]
Agents ==
  {With([Crowded EXCEPT !.cold = 1],
        Sends(1, 1, <<"write">>) \o Sends(2, 1, <<"read">>)),
   With([Crowded EXCEPT !.locks = 1, !.scrubs = 1], Sends(1, 1, <<"write">>)),
   With([Crowded EXCEPT !.intervals = 1], Sends(1, 1, <<"write">>)),
   With([Filled EXCEPT !.intervals = 1], Musts(1, 1, "write")),
   With([Full EXCEPT !.mode = "proxy"],
        Musts(1, 1, "write") \o Sends(1, 1, <<"write">>)),
   With([Filled EXCEPT !.modes = 1],
        Musts(1, 1, "write") \o Sends(2, 2, <<"write">>))}

Scenarios == Promotes \cup Flushes \cup Agents

(* Two clients ask for a flush of the same object.                         *)
Joined == {With([Warm EXCEPT !.cache = <<"dirty", "none", "none">>, !.locks = 1],
                Sends(1, 1, <<"try_flush", "write">>)
                \o Sends(2, 1, <<"try_flush">>))}
=============================================================================
