-------------------------------- MODULE ECRead --------------------------------
(***************************************************************************)
(* The reads that ECBackend does for clients and for read-modify-writes    *)
(* (objects_read_and_reconstruct): the request is entered in a list that   *)
(* answers in its order (in_progress_client_reads), the shards are asked   *)
(* (start_read_op), what they answer is collected and completed by asking  *)
(* more shards (handle_sub_read_reply), and the answers go out             *)
(* (complete_read_op, CallClientContexts).                                 *)
(*                                                                         *)
(* A message of wire stands for a sub-read and its reply; which objects    *)
(* the shard could not read is chosen when the reply is handled.  The      *)
(* bytes that handle_sub_read takes from the store are not modelled here.  *)
(***************************************************************************)
EXTENDS ReadOps, Sequences

CONSTANTS
  MaxReads,      \* bound on the reads asked for
  Persistent,    \* a copy that could not be read never can be
  MaxErrors,     \* bound on the copies that give errors
  MaxLost,       \* bound on the copies that go missing
  MaxInterval    \* bound on the changes of interval

VARIABLES
  tid_to_read_map,
  shard_to_read_map,        \* pairs <<pg_shard, tid>>
  in_progress_client_reads,
  wire,                     \* sub-reads and their replies under way
  holders,                  \* by object: the shards it is not missing on
  requested,                \* number of reads asked for, the last tid
  answered,                 \* history: the answers in their order
  unreadable,               \* pairs <<pg_shard, object>> that gave an error
  lost, interval,           \* what the bounds count
  asserted                  \* the ceph_assert that failed, if any

readVars == <<tid_to_read_map, shard_to_read_map, wire>>
countVars == <<unreadable, lost, interval>>
vars == <<readVars, in_progress_client_reads, holders, requested, answered,
          countVars, asserted>>

(* in_progress_client_reads.back(): what is still missing, what came.      *)
ClientRead(tid, objects) == [tid |-> tid, left |-> objects, result |-> <<>>]

(* The answer for an object: the plugin decodes what was returned.         *)
Answer(rop, o) ==
  [data |-> rop.complete[o].r = "ok", enough |-> Enough(rop, o),
   errors |-> rop.complete[o].errors]

(* complete_object for every object of a read op.                          *)
complete_object(reads, tid, rop) ==
  [i \in DOMAIN reads |->
     IF reads[i].tid = tid
     THEN [reads[i] EXCEPT !.left = {},
                           !.result = [o \in DOMAIN rop.to_read |-> Answer(rop, o)]]
     ELSE reads[i]]

(* kick_reads: the complete reads at the front are answered.               *)
Ready(reads) ==
  CHOOSE n \in 0 .. Len(reads) :
    /\ \A i \in 1 .. n : reads[i].left = {}
    /\ n < Len(reads) => reads[n + 1].left # {}
kick_reads(reads) ==
  /\ in_progress_client_reads' = SubSeq(reads, Ready(reads) + 1, Len(reads))
  /\ answered' = answered \o SubSeq(reads, 1, Ready(reads))
-----------------------------------------------------------------------------
Init ==
  /\ tid_to_read_map = <<>> /\ shard_to_read_map = {} /\ wire = {}
  /\ in_progress_client_reads = <<>>
  /\ holders = [o \in Object |-> Acting]
  /\ requested = 0 /\ answered = <<>>
  /\ unreadable = {} /\ lost = 0 /\ interval = 0
  /\ asserted = ""

Running == asserted = ""

WantToRead == 0 .. K - 1    \* get_want_to_read_shards: the data chunks
Request(o, fast_read) ==
  get_min_avail_to_read_shards(holders[o], WantToRead, FALSE, fast_read, FALSE)

(* Mutant: a read of nothing is answered at once.                          *)
EnterClientRead_now(tid, objects) ==
  IF objects = {}
  THEN /\ answered' = Append(answered, ClientRead(tid, objects))
       /\ UNCHANGED in_progress_client_reads
  ELSE /\ in_progress_client_reads' =
            Append(in_progress_client_reads, ClientRead(tid, objects))
       /\ UNCHANGED answered

(* Mutant: return without kick_reads() when there is nothing to read.      *)
EnterClientRead_nokick(tid, objects) ==
  /\ in_progress_client_reads' =
       Append(in_progress_client_reads, ClientRead(tid, objects))
  /\ UNCHANGED answered

(* The read gets its place in the order; one without objects is complete.  *)
EnterClientRead(tid, objects) ==
  LET reads == Append(in_progress_client_reads, ClientRead(tid, objects))
  IN  IF objects = {} THEN kick_reads(reads)
      ELSE /\ in_progress_client_reads' = reads
           /\ UNCHANGED answered

(* A client reads one object, perhaps from all shards (fast_read); a       *)
(* read-modify-write reads several.  The caller asks only for what the     *)
(* acting shards can give.                                                 *)
objects_read_and_reconstruct(objects, fast_read) ==
  LET tid == requested + 1
      rop == start_read_op([o \in objects |-> WantToRead],
                           [o \in objects |-> Request(o, fast_read)],
                           fast_read, FALSE)
  IN  /\ Running /\ requested < MaxReads
      /\ fast_read => Cardinality(objects) = 1
      /\ \A o \in objects : Request(o, fast_read).need # {}
      /\ requested' = tid
      /\ EnterClientRead(tid, objects)
      /\ \/ objects = {} /\ UNCHANGED readVars
         \/ /\ objects # {}
            /\ tid_to_read_map' = [t \in DOMAIN tid_to_read_map \cup {tid} |->
                                     IF t = tid THEN rop ELSE tid_to_read_map[t]]
            /\ shard_to_read_map' =
                 shard_to_read_map \cup (rop.in_progress \X {tid})
            /\ wire' = wire \cup Messages(tid, rop)
      /\ UNCHANGED <<holders, countVars, asserted>>

(* CallClientContexts asserts that an object without result code has no    *)
(* error left.                                                             *)
ClientAssert(rop) ==
  IF \E o \in DOMAIN rop.to_read :
       rop.complete[o].r = "ok" /\ rop.complete[o].errors # {}
  THEN "res.errors.empty()" ELSE CompleteAssert(rop)

(* Shards that were not heard are forgotten with the tid.                  *)
complete_read_op(tid, from, rop) ==
  /\ asserted' = ClientAssert(rop)
  /\ tid_to_read_map' =
       [t \in DOMAIN tid_to_read_map \ {tid} |-> tid_to_read_map[t]]
  /\ shard_to_read_map' =
       shard_to_read_map \ ((rop.in_progress \cup {from}) \X {tid})
  /\ kick_reads(complete_object(in_progress_client_reads, tid, rop))

(* A reply, with an error for the objects bad.  Asking more shards sends   *)
(* messages again.                                                         *)
handle_sub_read_reply(m, bad) ==
  /\ Running
  /\ unreadable' = unreadable \cup ({m.to} \X bad)
  /\ Cardinality(unreadable') <= MaxErrors
  /\ Persistent => \A o \in m.objects : <<m.to, o>> \in unreadable => o \in bad
  /\ \/ /\ m.tid \notin DOMAIN tid_to_read_map
        /\ wire' = wire \ {m}
        /\ UNCHANGED <<tid_to_read_map, shard_to_read_map,
                       in_progress_client_reads, answered, asserted>>
     \/ /\ m.tid \in DOMAIN tid_to_read_map
        /\ <<m.to, m.tid>> \in shard_to_read_map
        /\ m.to \in tid_to_read_map[m.tid].in_progress
        /\ \E got \in {Received(tid_to_read_map[m.tid], m, bad)} :
           \E e \in {Evaluated(got, holders)} :
           \E again \in {IF got.in_progress = {} THEN e.rop.in_progress ELSE {}} :
             /\ wire' = (wire \ {m}) \cup {x \in Messages(m.tid, e.rop) : again # {}}
             /\ \/ Finished(e) /\ complete_read_op(m.tid, m.to, e.rop)
                \/ /\ ~Finished(e)
                   /\ asserted' = e.assert
                   /\ tid_to_read_map' = [tid_to_read_map EXCEPT ![m.tid] = e.rop]
                   /\ shard_to_read_map' =
                        (shard_to_read_map \ {<<m.to, m.tid>>})
                          \cup (again \X {m.tid})
                   /\ UNCHANGED <<in_progress_client_reads, answered>>
  /\ UNCHANGED <<holders, requested, lost, interval>>

(* A copy turns out to be missing, in recovery or in the repair of a read  *)
(* error (PrimaryLogPG, external).                                         *)
CopyMissing(o, p) ==
  /\ Running /\ lost < MaxLost
  /\ p \in holders[o]
  /\ holders' = [holders EXCEPT ![o] = @ \ {p}]
  /\ lost' = lost + 1
  /\ UNCHANGED <<readVars, in_progress_client_reads, requested, answered,
                 unreadable, interval, asserted>>

(* on_change: all reads are dropped, their clients ask again; replies of   *)
(* the old interval are not delivered.                                     *)
on_change ==
  /\ Running /\ interval < MaxInterval
  /\ interval' = interval + 1
  /\ tid_to_read_map' = <<>> /\ shard_to_read_map' = {}
  /\ in_progress_client_reads' = <<>>
  /\ wire' = {}
  /\ UNCHANGED <<holders, requested, answered, unreadable, lost, asserted>>

Next ==
  \/ \E objects \in SUBSET Object, fast_read \in BOOLEAN :
       objects_read_and_reconstruct(objects, fast_read)
  \/ \E m \in wire : \E bad \in SUBSET m.objects : handle_sub_read_reply(m, bad)
  \/ \E o \in Object : \E p \in holders[o] : CopyMissing(o, p)
  \/ on_change

(* Every shard of the interval answers, with or without errors.            *)
HandleReply == \E m \in wire : \E bad \in SUBSET m.objects :
                 handle_sub_read_reply(m, bad)
Spec == Init /\ [][Next]_vars
FairSpec == Spec /\ ([]<>(wire = {} \/ ~Running) \/ []<><<HandleReply>>_vars)
-----------------------------------------------------------------------------
(* check_recovery_sources asserts that every tid it finds is known.        *)
TidsKnown == shard_to_read_map \subseteq PgShard \X DOMAIN tid_to_read_map

(* handle_sub_read_reply asserts that the shard and the tid are expected.  *)
RepliesExpected ==
  \A m \in wire : m.tid \in DOMAIN tid_to_read_map =>
    /\ <<m.to, m.tid>> \in shard_to_read_map
    /\ m.to \in tid_to_read_map[m.tid].in_progress

(* No assertion of the read path fails: an object that had enough once is  *)
(* still good when it is looked at again, what is completed has its        *)
(* request, no error is left without a result code, and every reply is     *)
(* expected.                                                               *)
NoAssertFails == asserted = "" /\ TidsKnown /\ RepliesExpected

(* Reads are answered in the order in which they were asked, whatever the  *)
(* order in which the shards answer and errors are retried.                *)
AnsweredInOrder ==
  \A i, j \in DOMAIN answered : i < j => answered[i].tid < answered[j].tid

(* Data is given out only when the plugin can decode what came, and an     *)
(* error only when fewer than K acting shards could still give the object. *)
AnswersRight ==
  \A i \in DOMAIN answered : \A o \in DOMAIN answered[i].result :
    LET a == answered[i].result[o]
    IN  IF a.data THEN a.enough
        ELSE Cardinality(holders[o] \ a.errors) < K

(* Every read is answered, unless the interval ends first, and nothing of  *)
(* it stays behind.                                                        *)
EveryReadAnswered ==
  <>[](/\ in_progress_client_reads = <<>> /\ tid_to_read_map = <<>>
       /\ shard_to_read_map = {})
=============================================================================
