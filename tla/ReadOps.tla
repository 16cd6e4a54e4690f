------------------------------- MODULE ReadOps -------------------------------
(***************************************************************************)
(* What ECBackend does to one ReadOp: which shards it asks (start_read_op, *)
(* do_read_op), how it takes a reply and decides whether every object has  *)
(* enough (handle_sub_read_reply, send_all_remaining_reads), and how the   *)
(* loss of a source cancels objects (filter_read_op).  Operators only; the *)
(* modules ECRead and ECRecovery keep the ReadOps and their callbacks.     *)
(*                                                                         *)
(* A buffer is known by the shard it came from and by whether it holds the *)
(* whole chunk or the sub-chunks of a repair.  d is its default k+m-1.     *)
(***************************************************************************)
EXTENDS Naturals, FiniteSets

CONSTANTS
  K, M,
  SubChunks,       \* the plugin repairs one chunk from sub-chunks of d others
  PgShard,         \* pg_shard_t: pairs <<osd, shard>>
  Acting,          \* get_acting_shards(): at most one of each shard
  NObjects,        \* objects are numbers: maps and loops go in their order
  CheckForErrors   \* osd_read_ec_check_for_errors

ASSUME ReadConstantsAssumption ==
  /\ K \in Nat \ {0} /\ M \in Nat \ {0} /\ NObjects \in Nat
  /\ SubChunks \in BOOLEAN
  /\ PgShard \subseteq Nat \X (0 .. K + M - 1)
  /\ Acting \subseteq PgShard
  /\ \A p, q \in Acting : p[2] = q[2] => p = q
  /\ CheckForErrors \in BOOLEAN

Object == 1 .. NObjects
ShardOf(ps) == {p[2] : p \in ps}

\* ReadRequest is read_request_t, Result is read_result_t.
ReadRequest == [need : SUBSET PgShard, sub : BOOLEAN, want_attrs : BOOLEAN]
Result ==
  [returned : BOOLEAN,       \* the list has its element for the extent
   full : SUBSET PgShard,    \* the buffers of that element: whole chunks,
   part : SUBSET PgShard,    \* and sub-chunks of a repair
   errors : SUBSET PgShard, attrs : BOOLEAN, r : {"ok", "error"}]
NewResult == [returned |-> TRUE, full |-> {}, part |-> {}, errors |-> {},
              attrs |-> FALSE, r |-> "ok"]

ReadOp ==
  [want_to_read : UNION {[S -> SUBSET (0 .. K + M - 1)] : S \in SUBSET Object},
   to_read : UNION {[S -> ReadRequest] : S \in SUBSET Object},
   complete : UNION {[S -> Result] : S \in SUBSET Object},
   do_redundant_reads : BOOLEAN, for_recovery : BOOLEAN,
   in_progress : SUBSET PgShard,
   source_to_obj : SUBSET (PgShard \X Object),
   obj_to_source : SUBSET (Object \X PgShard)]
-----------------------------------------------------------------------------
(* minimum_to_decode: what must be read, {} for -EIO.  One lost chunk is   *)
(* repaired from sub-chunks of all the others (is_repair).                 *)
repairs(want, have) ==
  SubChunks /\ Cardinality(want) = 1 /\ want \cap have = {} /\ Cardinality(have) >= K + M - 1

Lowest(n, S) == {s \in S : Cardinality({u \in S : u < s}) < n}

minimum_to_decode(want, have) ==
  IF repairs(want, have) THEN have
  ELSE IF want \subseteq have THEN want
  ELSE IF Cardinality(have) >= K THEN Lowest(K, have)
  ELSE {}

(* get_all_avail_shards: of the holders of an object without error one for *)
(* each shard, the acting one or else the lowest; only recovery looks past *)
(* the acting set.                                                         *)
Before(p, q) == \/ p \in Acting /\ q \notin Acting
                \/ (p \in Acting <=> q \in Acting) /\ p[1] < q[1]
get_all_avail_shards(holders, error_shards, for_recovery) ==
  LET good == {p \in holders \ error_shards : for_recovery \/ p \in Acting}
  IN  {p \in good : \A q \in good : q[2] = p[2] => ~Before(q, p)}

(* get_min_avail_to_read_shards: the request for one object, with need {}  *)
(* when it fails.                                                          *)
get_min_avail_to_read_shards(holders, want, for_recovery, redundant, attrs) ==
  LET shards == get_all_avail_shards(holders, {}, for_recovery)
      minimum == minimum_to_decode(want, ShardOf(shards))
  IN  [need |-> {p \in shards : /\ minimum # {}
                                /\ redundant \/ p[2] \in minimum},
       sub  |-> ~redundant /\ repairs(want, ShardOf(shards)),
       want_attrs |-> attrs]
-----------------------------------------------------------------------------
(* do_read_op asks for every object of to_read, also when it is called     *)
(* again for the sake of one of them.                                      *)
do_read_op(rop) ==
  LET D == DOMAIN rop.to_read
  IN  [rop EXCEPT
        !.in_progress   = @ \cup UNION {rop.to_read[o].need : o \in D},
        !.source_to_obj = @ \cup UNION {rop.to_read[o].need \X {o} : o \in D},
        !.obj_to_source = @ \cup UNION {{o} \X rop.to_read[o].need : o \in D}]

(* The messages it sends.  The attributes are asked of the first shard.    *)
FirstOf(S) == CHOOSE p \in S :
                \A q \in S : p[1] < q[1] \/ (p[1] = q[1] /\ p[2] <= q[2])
Messages(tid, rop) ==
  {[tid |-> tid, to |-> p,
    objects |-> {o \in DOMAIN rop.to_read : p \in rop.to_read[o].need},
    sub     |-> {o \in DOMAIN rop.to_read :
                   p \in rop.to_read[o].need /\ rop.to_read[o].sub},
    attrs   |-> {o \in DOMAIN rop.to_read :
                   /\ rop.to_read[o].want_attrs
                   /\ rop.to_read[o].need # {}
                   /\ p = FirstOf(rop.to_read[o].need)}] :
     p \in UNION {rop.to_read[o].need : o \in DOMAIN rop.to_read}}
Message == [tid : Nat, to : PgShard, objects : SUBSET Object,
            sub : SUBSET Object, attrs : SUBSET Object]

start_read_op(want, to_read, do_redundant_reads, for_recovery) ==
  do_read_op([want_to_read |-> want, to_read |-> to_read,
              complete |-> [o \in DOMAIN to_read |-> NewResult],
              do_redundant_reads |-> do_redundant_reads,
              for_recovery |-> for_recovery, in_progress |-> {},
              source_to_obj |-> {}, obj_to_source |-> {}])
-----------------------------------------------------------------------------
(* The first part of handle_sub_read_reply: buffers and attributes of      *)
(* objects that were cancelled are dropped; errors are entered whatever    *)
(* the object, in a new result if there is none.                           *)
Received(rop, m, errors) ==
  LET read  == (m.objects \ errors) \cap DOMAIN rop.to_read
      At(o) == IF o \in DOMAIN rop.complete THEN rop.complete[o]
               ELSE [NewResult EXCEPT !.returned = FALSE]
  IN  [rop EXCEPT
        !.complete =
          [o \in DOMAIN rop.complete \cup errors |->
             [At(o) EXCEPT
               !.full = IF o \in read \ m.sub THEN @ \cup {m.to}
                        ELSE IF o \in read THEN @ \ {m.to} ELSE @,
               !.part = IF o \in read \cap m.sub THEN @ \cup {m.to}
                        ELSE IF o \in read THEN @ \ {m.to} ELSE @,
               !.attrs  = @ \/ o \in read \cap m.attrs,
               !.errors = IF o \in errors THEN @ \cup {m.to} ELSE @]],
        !.in_progress = @ \ {m.to}]

Have(res) == ShardOf(res.full \cup res.part)
Enough(rop, o) ==
  minimum_to_decode(rop.want_to_read[o], Have(rop.complete[o])) # {}

(* Mutant: the shards that gave an error are offered again.                *)
RemainingMinimum_errors(rop, o, holders) ==
  minimum_to_decode(rop.want_to_read[o],
    ShardOf(get_all_avail_shards(holders, {}, rop.for_recovery))
      \ ShardOf(rop.complete[o].full))

(* get_remaining_shards: from the holders that gave no error, what is      *)
(* needed and has not been asked yet; a shard counts as asked when any of  *)
(* its copies was.                                                         *)
RemainingMinimum(rop, o, holders) ==
  minimum_to_decode(rop.want_to_read[o],
    ShardOf(get_all_avail_shards(holders, rop.complete[o].errors, rop.for_recovery)))
already_read(rop, o) == {p[2] : p \in {q \in PgShard : <<o, q>> \in rop.obj_to_source}}
get_remaining_shards(rop, o, holders) ==
  {p \in get_all_avail_shards(holders, rop.complete[o].errors, rop.for_recovery) :
     p[2] \in RemainingMinimum(rop, o, holders) \ already_read(rop, o)}

(* The object is asked for again, from those shards and for whole chunks.  *)
send_all_remaining_reads(rop, o, holders) ==
  do_read_op([rop EXCEPT !.to_read[o] =
    [need |-> get_remaining_shards(rop, o, holders), sub |-> FALSE,
     want_attrs |-> @.want_attrs /\ ~rop.complete[o].attrs]])

(* do_read_op asserts that attributes that are wanted are asked of a shard.*)
NobodyToAsk(rop, o, holders) ==
  /\ rop.to_read[o].want_attrs /\ ~rop.complete[o].attrs
  /\ get_remaining_shards(rop, o, holders) = {}

(* Mutant: the errors that are ignored are not cleared.                    *)
Judged_kept(res) ==
  IF CheckForErrors THEN [res EXCEPT !.r = "error"] ELSE res

(* What is done about errors of an object of which there is enough.        *)
Judged(res) ==
  IF res.errors = {} THEN res
  ELSE IF CheckForErrors THEN [res EXCEPT !.r = "error"]
  ELSE [res EXCEPT !.errors = {}]

(* One turn of the loop over complete.  e.done counts the objects that     *)
(* are done, e.assert names an assertion that failed.                      *)
Evaluate(e, o, holders) ==
  LET rop == e.rop
  IN  IF o \notin DOMAIN rop.complete \/ e.assert # "" THEN e
      ELSE IF ~rop.complete[o].returned THEN [e EXCEPT !.assert = "returned.front()"]
      ELSE IF Enough(rop, o) /\ rop.complete[o].r # "ok"
      THEN [e EXCEPT !.assert = "complete.r == 0"]
      ELSE IF Enough(rop, o)
      THEN [e EXCEPT !.rop.complete[o] = Judged(@), !.done = @ + 1]
      ELSE IF rop.in_progress # {} THEN e
      ELSE IF ~rop.do_redundant_reads /\ RemainingMinimum(rop, o, holders[o]) # {}
      THEN IF NobodyToAsk(rop, o, holders[o]) THEN [e EXCEPT !.assert = "!need_attrs"]
           ELSE [e EXCEPT !.rop = send_all_remaining_reads(rop, o, holders[o])]
      ELSE [e EXCEPT !.rop.complete[o].r = "error", !.done = @ + 1]

(* The loop itself, when every shard has answered or reads are redundant.  *)
Evaluated(rop, holders) ==
  LET start == [rop |-> rop, done |-> 0, assert |-> ""]
      e[n \in 0 .. NObjects] ==
        IF n = 0 THEN start ELSE Evaluate(e[n - 1], n, holders)
  IN  IF rop.do_redundant_reads \/ rop.in_progress = {} THEN e[NObjects] ELSE start

Finished(e) == /\ e.assert = ""
               /\ \/ e.rop.in_progress = {}
                  \/ e.done = Cardinality(DOMAIN e.rop.complete)

(* The assertion of complete_read_op.                                      *)
CompleteAssert(rop) ==
  IF DOMAIN rop.to_read = DOMAIN rop.complete THEN "" ELSE "to_read.size()"
-----------------------------------------------------------------------------
(* The objects that have a source that is down.                            *)
Cancelled(rop, down) ==
  {o \in Object : \E p \in down : <<p, o>> \in rop.source_to_obj}

(* Mutant: the results of a cancelled object stay.                         *)
filter_read_op_results(rop, down) ==
  LET cancel == Cancelled(rop, down)
      gone   == {p \in down : \E o \in Object : <<p, o>> \in rop.source_to_obj}
  IN  [rop EXCEPT
        !.in_progress   = @ \ gone,
        !.source_to_obj = {s \in @ : s[2] \notin cancel},
        !.to_read  = [o \in DOMAIN @ \ cancel |-> @[o]]]

(* Mutant: the read goes on waiting for what is down.                      *)
filter_read_op_waits(rop, down) ==
  LET cancel == Cancelled(rop, down)
  IN  [rop EXCEPT
        !.source_to_obj = {s \in @ : s[2] \notin cancel},
        !.to_read  = [o \in DOMAIN @ \ cancel |-> @[o]],
        !.complete = [o \in DOMAIN @ \ cancel |-> @[o]]]

(* filter_read_op: those objects are cancelled.  A shard is no longer      *)
(* waited for if it is down and source_to_obj still names it.              *)
filter_read_op(rop, down) ==
  LET cancel == Cancelled(rop, down)
      gone   == {p \in down : \E o \in Object : <<p, o>> \in rop.source_to_obj}
  IN  [rop EXCEPT
        !.in_progress   = @ \ gone,
        !.source_to_obj = {s \in @ : s[2] \notin cancel},
        !.to_read  = [o \in DOMAIN @ \ cancel |-> @[o]],
        !.complete = [o \in DOMAIN @ \ cancel |-> @[o]]]
=============================================================================
