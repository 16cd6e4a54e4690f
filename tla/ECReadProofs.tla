----------------------------- MODULE ECReadProofs -----------------------------
(***************************************************************************)
(* Safety of the reads of ECBackend (ECRead), for every code, every number *)
(* of objects, shards, reads, errors and intervals.  ReadOpsProofs proves  *)
(* what the handling of one reply leaves of one read.                      *)
(***************************************************************************)
EXTENDS ECRead, ReadOpsProofs

USE ReadConstantsAssumption

(* The reads are reads of data with tids that were given out.              *)
ReadsTyped ==
  /\ requested \in Nat /\ holders \in [Object -> SUBSET Acting]
  /\ DOMAIN tid_to_read_map \subseteq 1 .. requested
  /\ \A t \in DOMAIN tid_to_read_map : DataRead(tid_to_read_map[t])

(* A shard has at most one message of a read under way.                    *)
WireRight ==
  /\ \A m \in wire : m.tid \in 1 .. requested /\ m.to \in PgShard
  /\ \A m, x \in wire : m.tid = x.tid /\ m.to = x.to => m = x

(* The reply is waited for, and is about objects asked of its shard.       *)
Awaited(m, rop) ==
  /\ m.to \in rop.in_progress /\ m.objects \subseteq Objs(rop)
  /\ \A o \in m.objects : m.to \in Asked(rop, o)

(* The two maps say the same, and replies are waited for.                  *)
MapsAgree ==
  /\ \A m \in wire : m.tid \in DOMAIN tid_to_read_map =>
                       Awaited(m, tid_to_read_map[m.tid])
  /\ \A t \in DOMAIN tid_to_read_map : \A q \in PgShard :
       q \in tid_to_read_map[t].in_progress <=> <<q, t>> \in shard_to_read_map
  /\ shard_to_read_map \subseteq PgShard \X DOMAIN tid_to_read_map

ReadInv == ReadsTyped /\ WireRight /\ MapsAgree
-----------------------------------------------------------------------------
(* A read that starts.                                                     *)
NewRead(rop, objects, fast_read) ==
  /\ DataRead(rop) /\ Objs(rop) = objects
  /\ rop.do_redundant_reads = fast_read
  /\ rop.in_progress = Needed(rop)
  /\ \A o \in objects : /\ Asked(rop, o) = rop.to_read[o].need
                        /\ rop.complete[o] = NewResult
                        /\ fast_read => Asked(rop, o) = holders[o]

(* start_read_op for a client makes a new read: it asks the shards of the  *)
(* requests, all of the holders when it is a fast read.                    *)
LEMMA StartedRead ==
  ASSUME holders \in [Object -> SUBSET Acting], NEW objects \in SUBSET Object,
         NEW fast_read \in BOOLEAN,
         \A o \in objects : Request(o, fast_read).need # {}
  PROVE  NewRead(start_read_op([o \in objects |-> WantToRead],
                               [o \in objects |-> Request(o, fast_read)],
                               fast_read, FALSE), objects, fast_read)
<1> DEFINE want == [o \in objects |-> WantToRead]
<1> DEFINE t == [o \in objects |-> Request(o, fast_read)]
<1> DEFINE rop == start_read_op(want, t, fast_read, FALSE)
<1>1. WantToRead = DataShards /\ DataShards \in SUBSET (0 .. K + M - 1)
  BY DEF WantToRead, DataShards
<1>2. \A o \in objects : /\ Request(o, fast_read) \in ReadRequest
                         /\ Request(o, fast_read).need \subseteq holders[o]
                         /\ fast_read => Request(o, fast_read).need = holders[o]
                         /\ holders[o] \in SUBSET Acting
  <2> SUFFICES ASSUME NEW o \in objects
               PROVE  /\ Request(o, fast_read) \in ReadRequest
                      /\ Request(o, fast_read).need \subseteq holders[o]
                      /\ fast_read => Request(o, fast_read).need = holders[o]
                      /\ holders[o] \in SUBSET Acting
    OBVIOUS
  <2>1. holders[o] \in SUBSET Acting
    OBVIOUS
  <2>2. Request(o, fast_read) =
          get_min_avail_to_read_shards(holders[o], DataShards, FALSE, fast_read, FALSE)
    BY <1>1 DEF Request
  <2> QED
    BY <2>1, <2>2, RequestFor
<1>3. /\ want \in [objects -> SUBSET (0 .. K + M - 1)]
      /\ t \in [objects -> ReadRequest]
      /\ \A o \in objects : want[o] = DataShards /\ t[o] = Request(o, fast_read)
  BY <1>1, <1>2
<1> HIDE DEF want, t, rop
<1>4. /\ Shape(rop) /\ Objs(rop) = objects
      /\ rop.want_to_read = want /\ rop.to_read = t
      /\ rop.complete = [o \in objects |-> NewResult]
      /\ rop.do_redundant_reads = fast_read /\ rop.for_recovery = FALSE
      /\ rop.in_progress = Needed(rop)
      /\ \A o \in objects : Asked(rop, o) = t[o].need
  <2>1. rop = start_read_op(want, t, fast_read, FALSE) /\ FALSE \in BOOLEAN
    BY DEF rop
  <2>2. /\ Started(rop, want, t)
        /\ rop.do_redundant_reads = fast_read /\ rop.for_recovery = FALSE
    <3>1. ASSUME NEW rec \in BOOLEAN, rop = start_read_op(want, t, fast_read, rec)
          PROVE  /\ Started(rop, want, t)
                 /\ rop.do_redundant_reads = fast_read /\ rop.for_recovery = rec
      BY <1>3, <3>1, StartReadOp
    <3> QED
      BY <2>1, <3>1, Zenon
  <2>3. DOMAIN t = objects
    BY <1>3
  <2> QED
    BY <2>2, <2>3 DEF Started
<1>5. \A o \in objects : rop.complete[o] = NewResult /\ NewResult.returned
  BY <1>4 DEF NewResult
<1>6. DataRead(rop)
  BY <1>2, <1>3, <1>4, <1>5 DEF DataRead
<1> QED
  BY <1>2, <1>3, <1>4, <1>5, <1>6 DEF NewRead, rop, want, t

(* A read after a reply: it goes on waiting for the same shards, or had    *)
(* heard them all and waits for those it asks now.                         *)
GoesOn(got, new) ==
  /\ DataRead(new) /\ Objs(new) = Objs(got)
  /\ \A o \in Objs(got) : Asked(got, o) \subseteq Asked(new, o)
  /\ got.in_progress # {} => new.in_progress = got.in_progress
  /\ got.in_progress = {} => new.in_progress = {} \/ new.in_progress = Needed(new)

(* A reply takes its sender out of in_progress, and the loop over the      *)
(* objects that follows keeps the read a data read that goes on.           *)
LEMMA RepliedRead ==
  ASSUME NEW rop, DataRead(rop), NEW m, Awaited(m, rop), NEW bad \in SUBSET m.objects,
         NEW h \in [Object -> SUBSET Acting], NEW got, got = Received(rop, m, bad)
  PROVE  /\ DataRead(got) /\ Objs(got) = Objs(rop)
         /\ got.in_progress = rop.in_progress \ {m.to}
         /\ \A o \in Objs(rop) : Asked(got, o) = Asked(rop, o)
         /\ GoesOn(got, Evaluated(got, h).rop)
<1>1. Typed(rop) /\ Shape(rop)
  BY DEF DataRead, Shape
<1>2. m.to \in PgShard /\ m.objects \subseteq Objs(rop)
  <2>1. rop.in_progress \in SUBSET PgShard
    BY <1>1, TypedFields
  <2> QED
    BY <2>1 DEF Awaited
<1>2a. Took(rop, got, m, bad)
  BY <1>1, <1>2, ReceivedFields
<1>3. /\ Typed(got) /\ Objs(got) = Objs(rop)
      /\ got.want_to_read = rop.want_to_read /\ got.to_read = rop.to_read
      /\ got.for_recovery = rop.for_recovery
      /\ got.in_progress = rop.in_progress \ {m.to}
      /\ \A o : Asked(got, o) = Asked(rop, o)
      /\ \A o \in Objs(rop) : got.complete[o].returned = rop.complete[o].returned
  BY <1>2a DEF Took
<1>4. Shape(got)
  BY <1>1, <1>3 DEF Shape
<1>5. DataRead(got)
  BY <1>3, <1>4 DEF DataRead
<1>6. h \in [Object -> SUBSET PgShard]
  OBVIOUS
<1> DEFINE new == Evaluated(got, h).rop
<1>7. KeptRop(got, NObjects, new, h)
  BY <1>4, <1>6, EvaluatedKeeps DEF Kept
<1> HIDE DEF new
<1>8. DataRead(new)
  BY <1>5, <1>7, KeptDataRead
<1>9. GoesOn(got, new)
  <2>1. CASE SameAsks(got, new)
    BY <1>7, <1>8, <2>1 DEF KeptRop, SameAsks, GoesOn
  <2>2. CASE NewAsks(got, new)
    BY <1>7, <1>8, <2>2 DEF KeptRop, NewAsks, GoesOn
  <2> QED
    BY <1>7, <2>1, <2>2 DEF KeptRop
<1> QED
  BY <1>3, <1>5, <1>9 DEF new
-----------------------------------------------------------------------------
(* The maps of reads agree when nothing has been asked.                    *)
LEMMA ReadInvInit == Init => ReadInv
<1> SUFFICES ASSUME Init PROVE ReadInv
  OBVIOUS
<1>1. DOMAIN <<>> = {}
  OBVIOUS
<1>2. DOMAIN tid_to_read_map = {}
  BY <1>1 DEF Init
<1>3. holders \in [Object -> SUBSET Acting]
  BY DEF Init
<1> QED
  BY <1>2, <1>3 DEF Init, ReadInv, ReadsTyped, WireRight, MapsAgree
(* What a read that starts adds to the maps.                               *)
StartedTo(tid, rop) ==
  /\ tid_to_read_map' = [t \in DOMAIN tid_to_read_map \cup {tid} |->
                           IF t = tid THEN rop ELSE tid_to_read_map[t]]
  /\ shard_to_read_map' = shard_to_read_map \cup (rop.in_progress \X {tid})
  /\ wire' = wire \cup Messages(tid, rop)

(* They agree after a new read was put into them under the next tid.       *)
LEMMA ReadInvStart ==
  ASSUME ReadInv, NEW objects \in SUBSET Object, NEW fast_read \in BOOLEAN,
         NEW rop, NewRead(rop, objects, fast_read), StartedTo(requested + 1, rop),
         requested' = requested + 1, holders' = holders
  PROVE  ReadInv'
<1> DEFINE tid == requested + 1
<1>1. /\ requested \in Nat /\ tid \in 1 .. requested' /\ requested' \in Nat
      /\ DOMAIN tid_to_read_map \subseteq 1 .. requested
      /\ 1 .. requested \subseteq 1 .. requested' /\ tid \notin 1 .. requested
      /\ tid \notin DOMAIN tid_to_read_map
  BY DEF ReadInv, ReadsTyped
<1>2. /\ \A x \in Messages(tid, rop) :
           /\ x.tid = tid /\ x.to \in Needed(rop)
           /\ x.objects = {o \in Objs(rop) : x.to \in rop.to_read[o].need}
      /\ \A x, y \in Messages(tid, rop) : x.to = y.to => x = y
  BY MessagesSent
<1> HIDE DEF tid
<1>3. /\ DataRead(rop) /\ Objs(rop) = objects /\ rop.in_progress = Needed(rop)
      /\ \A o \in objects : Asked(rop, o) = rop.to_read[o].need
  BY DEF NewRead
<1>4. rop.in_progress \in SUBSET PgShard
  BY <1>3, TypedFields DEF DataRead, Shape
<1>5. /\ tid_to_read_map' = [t \in DOMAIN tid_to_read_map \cup {tid} |->
                               IF t = tid THEN rop ELSE tid_to_read_map[t]]
      /\ shard_to_read_map' = shard_to_read_map \cup (rop.in_progress \X {tid})
      /\ wire' = wire \cup Messages(tid, rop)
  BY DEF StartedTo, tid
<1>6. /\ DOMAIN tid_to_read_map' = DOMAIN tid_to_read_map \cup {tid}
      /\ tid_to_read_map'[tid] = rop
      /\ \A t \in DOMAIN tid_to_read_map : tid_to_read_map'[t] = tid_to_read_map[t]
  BY <1>1, <1>5
<1>7. ReadsTyped'
  BY <1>1, <1>3, <1>6 DEF ReadInv, ReadsTyped
<1>8. \A m \in wire : m.tid \in 1 .. requested /\ m.tid # tid /\ m.to \in PgShard
  BY <1>1 DEF ReadInv, WireRight
<1>9. WireRight'
  <2>1. \A m \in wire' : m.tid \in 1 .. requested' /\ m.to \in PgShard
    BY <1>1, <1>2, <1>3, <1>4, <1>5, <1>8
  <2>2. \A m, x \in wire' : m.tid = x.tid /\ m.to = x.to => m = x
    BY <1>2, <1>5, <1>8 DEF ReadInv, WireRight
  <2> QED
    BY <2>1, <2>2 DEF WireRight
<1>10. \A x \in Messages(tid, rop) : Awaited(x, rop)
  BY <1>2, <1>3 DEF Awaited
<1>11. ASSUME NEW m \in wire', m.tid \in DOMAIN tid_to_read_map'
       PROVE  Awaited(m, tid_to_read_map'[m.tid])
  <2>1. CASE m \in wire
    <3>1. m.tid \in DOMAIN tid_to_read_map
      BY <1>6, <1>8, <1>11, <2>1
    <3>2. Awaited(m, tid_to_read_map[m.tid])
      BY <2>1, <3>1 DEF ReadInv, MapsAgree
    <3> QED
      BY <1>6, <3>1, <3>2
  <2>2. CASE m \in Messages(tid, rop)
    BY <1>2, <1>6, <1>10, <2>2
  <2> QED
    BY <1>5, <1>11, <2>1, <2>2
<1>12. ASSUME NEW t \in DOMAIN tid_to_read_map', NEW q \in PgShard
       PROVE  q \in tid_to_read_map'[t].in_progress <=> <<q, t>> \in shard_to_read_map'
  <2>1. \A s \in shard_to_read_map : s[2] \in DOMAIN tid_to_read_map
    BY DEF ReadInv, MapsAgree
  <2>2. CASE t = tid
    BY <1>1, <1>4, <1>5, <1>6, <2>1, <2>2
  <2>3. CASE t # tid
    <3>1. t \in DOMAIN tid_to_read_map
      BY <1>6, <1>12, <2>3
    <3>2. q \in tid_to_read_map[t].in_progress <=> <<q, t>> \in shard_to_read_map
      BY <3>1 DEF ReadInv, MapsAgree
    <3> QED
      BY <1>5, <1>6, <2>3, <3>1, <3>2
  <2> QED
    BY <2>2, <2>3
<1>13. shard_to_read_map' \subseteq PgShard \X DOMAIN tid_to_read_map'
  BY <1>4, <1>5, <1>6 DEF ReadInv, MapsAgree
<1>14. MapsAgree'
  BY <1>11, <1>12, <1>13 DEF MapsAgree
<1> QED
  BY <1>7, <1>9, <1>14 DEF ReadInv

(* They agree after objects_read_and_reconstruct.                          *)
LEMMA ReadInvRequest ==
  ASSUME ReadInv, NEW objects \in SUBSET Object, NEW fast_read \in BOOLEAN,
         objects_read_and_reconstruct(objects, fast_read)
  PROVE  ReadInv'
<1> DEFINE rop == start_read_op([o \in objects |-> WantToRead],
                                [o \in objects |-> Request(o, fast_read)],
                                fast_read, FALSE)
<1>1. requested' = requested + 1 /\ holders' = holders
      /\ \A o \in objects : Request(o, fast_read).need # {}
  BY DEF objects_read_and_reconstruct
<1>2. CASE objects = {} /\ UNCHANGED readVars
  <2>1. /\ requested \in Nat /\ requested' \in Nat
        /\ 1 .. requested \subseteq 1 .. requested'
    BY <1>1 DEF ReadInv, ReadsTyped
  <2> QED
    BY <1>1, <1>2, <2>1 DEF ReadInv, ReadsTyped, WireRight, MapsAgree, readVars
<1>3. CASE StartedTo(requested + 1, rop)
  <2>1. NewRead(rop, objects, fast_read)
    BY <1>1, StartedRead DEF ReadInv, ReadsTyped
  <2> HIDE DEF rop
  <2> QED
    BY <1>1, <1>3, <2>1, ReadInvStart
<1> QED
  BY <1>2, <1>3 DEF objects_read_and_reconstruct, StartedTo
(* A reply after which the read goes on.                                   *)
ReplyAsks(m, e, again) ==
  /\ asserted' = e.assert
  /\ tid_to_read_map' = [tid_to_read_map EXCEPT ![m.tid] = e.rop]
  /\ shard_to_read_map' =
       (shard_to_read_map \ {<<m.to, m.tid>>}) \cup (again \X {m.tid})
  /\ UNCHANGED <<in_progress_client_reads, answered>>

(* What a reply for a read that is known does.                             *)
LEMMA ReplyParts ==
  ASSUME NEW m, NEW bad, handle_sub_read_reply(m, bad),
         m.tid \in DOMAIN tid_to_read_map
  PROVE  \E got, e, again :
           /\ got = Received(tid_to_read_map[m.tid], m, bad)
           /\ e = Evaluated(got, holders)
           /\ again = (IF got.in_progress = {} THEN e.rop.in_progress ELSE {})
           /\ wire' = (wire \ {m}) \cup {x \in Messages(m.tid, e.rop) : again # {}}
           /\ \/ Finished(e) /\ complete_read_op(m.tid, m.to, e.rop)
              \/ ~Finished(e) /\ ReplyAsks(m, e, again)
<1>1. \E got \in {Received(tid_to_read_map[m.tid], m, bad)} :
      \E e \in {Evaluated(got, holders)} :
      \E again \in {IF got.in_progress = {} THEN e.rop.in_progress ELSE {}} :
        /\ wire' = (wire \ {m}) \cup {x \in Messages(m.tid, e.rop) : again # {}}
        /\ \/ Finished(e) /\ complete_read_op(m.tid, m.to, e.rop)
           \/ ~Finished(e) /\ ReplyAsks(m, e, again)
  BY Zenon DEF handle_sub_read_reply, ReplyAsks
<1> QED
  BY <1>1, Zenon

(* They agree after handle_sub_read_reply, whatever becomes of the read.   *)
LEMMA ReadInvReply ==
  ASSUME ReadInv, NEW m \in wire, NEW bad \in SUBSET m.objects,
         handle_sub_read_reply(m, bad)
  PROVE  ReadInv'
<1>1. requested' = requested /\ holders' = holders
  BY DEF handle_sub_read_reply
<1>2. CASE m.tid \notin DOMAIN tid_to_read_map
  <2>1. wire' = wire \ {m} /\ UNCHANGED <<tid_to_read_map, shard_to_read_map>>
    BY <1>2 DEF handle_sub_read_reply
  <2> QED
    BY <1>1, <2>1 DEF ReadInv, ReadsTyped, WireRight, MapsAgree
<1>3. CASE m.tid \in DOMAIN tid_to_read_map
  <2> DEFINE rop == tid_to_read_map[m.tid]
  <2>1. PICK got, e, again :
           /\ got = Received(rop, m, bad) /\ e = Evaluated(got, holders)
           /\ again = (IF got.in_progress = {} THEN e.rop.in_progress ELSE {})
           /\ wire' = (wire \ {m}) \cup {x \in Messages(m.tid, e.rop) : again # {}}
           /\ \/ Finished(e) /\ complete_read_op(m.tid, m.to, e.rop)
              \/ ~Finished(e) /\ ReplyAsks(m, e, again)
    BY <1>3, ReplyParts
  <2>2. DataRead(rop) /\ Awaited(m, rop) /\ holders \in [Object -> SUBSET Acting]
    BY <1>3 DEF ReadInv, ReadsTyped, MapsAgree
  <2> HIDE DEF rop
  <2>3. /\ DataRead(got) /\ Objs(got) = Objs(rop)
        /\ got.in_progress = rop.in_progress \ {m.to}
        /\ \A o \in Objs(rop) : Asked(got, o) = Asked(rop, o)
        /\ GoesOn(got, e.rop)
    BY <2>1, <2>2, RepliedRead
  <2> DEFINE new == e.rop
  <2>4. /\ DataRead(new) /\ Objs(new) = Objs(rop)
        /\ \A o \in Objs(rop) : Asked(rop, o) \subseteq Asked(new, o)
        /\ got.in_progress # {} => new.in_progress = got.in_progress
        /\ got.in_progress = {} => new.in_progress = {} \/ new.in_progress = Needed(new)
    BY <2>3 DEF GoesOn
  <2>5. new.in_progress \in SUBSET PgShard
    BY <2>4, TypedFields DEF DataRead, Shape
  <2> DEFINE sent == {x \in Messages(m.tid, new) : again # {}}
  <2>6. \A x \in sent : /\ x \in Messages(m.tid, new) /\ again # {}
                        /\ got.in_progress = {} /\ new.in_progress = Needed(new)
                        /\ again = new.in_progress
    BY <2>1, <2>4
  <2>7. /\ \A x \in Messages(m.tid, new) :
             /\ x.tid = m.tid /\ x.to \in Needed(new)
             /\ x.objects = {o \in Objs(new) : x.to \in new.to_read[o].need}
        /\ \A x, y \in Messages(m.tid, new) : x.to = y.to => x = y
    BY MessagesSent
  <2>8. \A o \in Objs(new) : new.to_read[o].need \subseteq Asked(new, o)
    BY <2>4 DEF DataRead, Shape
  <2>9. wire' = (wire \ {m}) \cup sent
    BY <2>1
  <2> HIDE DEF sent, new
  <2>10. \A x \in sent : x.tid = m.tid /\ x.to \in PgShard /\ Awaited(x, new)
    BY <2>5, <2>6, <2>7, <2>8 DEF Awaited
  <2>11. \A x \in wire \ {m} : x.tid = m.tid => x.to \in got.in_progress
    <3> SUFFICES ASSUME NEW x \in wire \ {m}, x.tid = m.tid
                 PROVE  x.to \in got.in_progress
      OBVIOUS
    <3>1. x.to # m.to
      BY DEF ReadInv, WireRight
    <3>2. Awaited(x, rop)
      BY <1>3 DEF ReadInv, MapsAgree, rop
    <3> QED
      BY <2>3, <3>1, <3>2 DEF Awaited
  <2>12. \A x \in wire \ {m} : x.tid = m.tid => Awaited(x, new)
    <3> SUFFICES ASSUME NEW x \in wire \ {m}, x.tid = m.tid PROVE Awaited(x, new)
      OBVIOUS
    <3>1. x.to \in new.in_progress
      BY <2>4, <2>11
    <3>2. Awaited(x, rop)
      BY <1>3 DEF ReadInv, MapsAgree, rop
    <3> QED
      BY <2>4, <3>1, <3>2 DEF Awaited
  <2>13. WireRight'
    <3>1. \A x \in wire' : x.tid \in 1 .. requested' /\ x.to \in PgShard
      BY <1>1, <2>9, <2>10 DEF ReadInv, WireRight
    <3>2. \A x, y \in wire' : x.tid = y.tid /\ x.to = y.to => x = y
      <4> SUFFICES ASSUME NEW x \in wire', NEW y \in wire', x.tid = y.tid, x.to = y.to
                   PROVE  x = y
        OBVIOUS
      <4>1. CASE x \in wire \ {m} /\ y \in wire \ {m}
        BY <4>1 DEF ReadInv, WireRight
      <4>2. CASE x \in sent /\ y \in sent
        BY <2>6, <2>7, <4>2
      <4>3. CASE x \in wire \ {m} /\ y \in sent
        BY <2>6, <2>10, <2>11, <4>3
      <4>4. CASE x \in sent /\ y \in wire \ {m}
        BY <2>6, <2>10, <2>11, <4>4
      <4> QED
        BY <2>9, <4>1, <4>2, <4>3, <4>4
    <3> QED
      BY <3>1, <3>2 DEF WireRight
  <2>14. ASSUME NEW t \in DOMAIN tid_to_read_map, NEW q \in PgShard
         PROVE  q \in tid_to_read_map[t].in_progress <=> <<q, t>> \in shard_to_read_map
    BY <2>14 DEF ReadInv, MapsAgree
  <2>15. \A s \in shard_to_read_map : s = <<s[1], s[2]>> /\ s[1] \in PgShard
                                      /\ s[2] \in DOMAIN tid_to_read_map
    BY DEF ReadInv, MapsAgree
  <2>16. rop.in_progress \subseteq new.in_progress \cup {m.to}
    BY <2>3, <2>4
  <2>17. CASE complete_read_op(m.tid, m.to, e.rop)
    <3>1. /\ tid_to_read_map' = [t \in DOMAIN tid_to_read_map \ {m.tid} |-> tid_to_read_map[t]]
          /\ shard_to_read_map' =
               shard_to_read_map \ ((new.in_progress \cup {m.to}) \X {m.tid})
      BY <2>17 DEF complete_read_op, new
    <3>2. /\ DOMAIN tid_to_read_map' = DOMAIN tid_to_read_map \ {m.tid}
          /\ \A t \in DOMAIN tid_to_read_map' : tid_to_read_map'[t] = tid_to_read_map[t]
      BY <3>1
    <3>3. ReadsTyped'
      BY <1>1, <3>2 DEF ReadInv, ReadsTyped
    <3>4. \A x \in wire' : x.tid \in DOMAIN tid_to_read_map' =>
                              Awaited(x, tid_to_read_map'[x.tid])
      BY <2>9, <2>10, <3>2 DEF ReadInv, MapsAgree
    <3>5. \A t \in DOMAIN tid_to_read_map' : \A q \in PgShard :
            q \in tid_to_read_map'[t].in_progress <=> <<q, t>> \in shard_to_read_map'
      <4> SUFFICES ASSUME NEW t \in DOMAIN tid_to_read_map', NEW q \in PgShard
                   PROVE  q \in tid_to_read_map'[t].in_progress
                            <=> <<q, t>> \in shard_to_read_map'
        OBVIOUS
      <4> QED
        BY <2>14, <3>1, <3>2
    <3>6. shard_to_read_map' \subseteq PgShard \X DOMAIN tid_to_read_map'
      <4> SUFFICES ASSUME NEW s \in shard_to_read_map'
                   PROVE  s \in PgShard \X DOMAIN tid_to_read_map'
        OBVIOUS
      <4>1. s \in shard_to_read_map /\ s = <<s[1], s[2]>> /\ s[1] \in PgShard
            /\ s[2] \in DOMAIN tid_to_read_map
        BY <2>15, <3>1
      <4>2. s[2] # m.tid
        <5> SUFFICES ASSUME s[2] = m.tid PROVE FALSE
          OBVIOUS
        <5>1. s[1] \in rop.in_progress
          BY <1>3, <2>14, <4>1 DEF rop
        <5> QED
          BY <2>16, <3>1, <4>1, <5>1
      <4> QED
        BY <3>2, <4>1, <4>2
    <3>7. MapsAgree'
      BY <3>4, <3>5, <3>6 DEF MapsAgree
    <3> QED
      BY <2>13, <3>3, <3>7 DEF ReadInv
  <2>18. CASE ReplyAsks(m, e, again)
    <3>1. /\ tid_to_read_map' = [tid_to_read_map EXCEPT ![m.tid] = new]
          /\ shard_to_read_map' =
               (shard_to_read_map \ {<<m.to, m.tid>>}) \cup (again \X {m.tid})
      BY <2>18 DEF ReplyAsks, new
    <3>2. /\ DOMAIN tid_to_read_map' = DOMAIN tid_to_read_map
          /\ tid_to_read_map'[m.tid] = new
          /\ \A t \in DOMAIN tid_to_read_map \ {m.tid} :
               tid_to_read_map'[t] = tid_to_read_map[t]
      BY <1>3, <3>1
    <3>3. ReadsTyped'
      BY <1>1, <2>4, <3>2 DEF ReadInv, ReadsTyped, new
    <3>4. ASSUME NEW x \in wire', x.tid \in DOMAIN tid_to_read_map'
          PROVE  Awaited(x, tid_to_read_map'[x.tid])
      <4>1. CASE x.tid = m.tid
        BY <2>9, <2>10, <2>12, <3>2, <3>4, <4>1
      <4>2. CASE x.tid # m.tid
        <5>1. x \in wire
          BY <2>9, <2>10, <3>4, <4>2
        <5>2. Awaited(x, tid_to_read_map[x.tid])
          BY <3>2, <3>4, <5>1 DEF ReadInv, MapsAgree
        <5> QED
          BY <3>2, <3>4, <4>2, <5>2
      <4> QED
        BY <4>1, <4>2
    <3>5. ASSUME NEW t \in DOMAIN tid_to_read_map', NEW q \in PgShard
          PROVE  q \in tid_to_read_map'[t].in_progress <=> <<q, t>> \in shard_to_read_map'
      <4>1. CASE t # m.tid
        <5>1. q \in tid_to_read_map[t].in_progress <=> <<q, t>> \in shard_to_read_map
          BY <2>14, <3>2, <3>5
        <5>2. tid_to_read_map'[t] = tid_to_read_map[t]
          BY <3>2, <3>5, <4>1
        <5>3. <<q, t>> \in shard_to_read_map' <=> <<q, t>> \in shard_to_read_map
          BY <3>1, <4>1
        <5> QED
          BY <5>1, <5>2, <5>3
      <4>2. CASE t = m.tid
        <5>1. q \in rop.in_progress <=> <<q, t>> \in shard_to_read_map
          BY <1>3, <2>14, <4>2 DEF rop
        <5>2. <<q, t>> \in shard_to_read_map'
                <=> (q \in rop.in_progress /\ q # m.to) \/ q \in again
          BY <3>1, <4>2, <5>1
        <5>3. q \in new.in_progress <=> q \in got.in_progress \/ q \in again
          BY <2>1, <2>4 DEF new
        <5> QED
          BY <2>3, <3>2, <4>2, <5>2, <5>3
      <4> QED
        BY <4>1, <4>2
    <3>6. shard_to_read_map' \subseteq PgShard \X DOMAIN tid_to_read_map'
      <4>1. again \subseteq PgShard
        BY <2>1, <2>5 DEF new
      <4> QED
        BY <1>3, <3>1, <3>2, <4>1 DEF ReadInv, MapsAgree
    <3>7. MapsAgree'
      BY <3>4, <3>5, <3>6 DEF MapsAgree
    <3> QED
      BY <2>13, <3>3, <3>7 DEF ReadInv
  <2> QED
    BY <2>1, <2>17, <2>18
<1> QED
  BY <1>2, <1>3

(* No step makes the maps of reads disagree.                               *)
LEMMA ReadInvStep == ReadInv /\ [Next]_vars => ReadInv'
<1> SUFFICES ASSUME ReadInv, [Next]_vars PROVE ReadInv'
  OBVIOUS
<1>1. ASSUME NEW objects \in SUBSET Object, NEW fast_read \in BOOLEAN,
             objects_read_and_reconstruct(objects, fast_read)
      PROVE  ReadInv'
  BY <1>1, ReadInvRequest
<1>2. ASSUME NEW m \in wire, NEW bad \in SUBSET m.objects, handle_sub_read_reply(m, bad)
      PROVE  ReadInv'
  BY <1>2, ReadInvReply
<1>3. ASSUME NEW o \in Object, NEW p \in holders[o], CopyMissing(o, p)
      PROVE  ReadInv'
  <2>1. /\ UNCHANGED <<readVars, requested>>
        /\ holders' = [holders EXCEPT ![o] = holders[o] \ {p}]
    BY <1>3 DEF CopyMissing
  <2>2. holders' \in [Object -> SUBSET Acting]
    BY <2>1 DEF ReadInv, ReadsTyped
  <2> QED
    BY <2>1, <2>2 DEF ReadInv, ReadsTyped, WireRight, MapsAgree, readVars
<1>4. CASE on_change
  <2>1. DOMAIN <<>> = {}
    OBVIOUS
  <2>2. /\ DOMAIN tid_to_read_map' = {} /\ wire' = {} /\ shard_to_read_map' = {}
        /\ UNCHANGED <<requested, holders>>
    BY <1>4, <2>1 DEF on_change
  <2> QED
    BY <2>2 DEF ReadInv, ReadsTyped, WireRight, MapsAgree
<1>5. CASE UNCHANGED vars
  BY <1>5 DEF ReadInv, ReadsTyped, WireRight, MapsAgree, vars, readVars
<1> QED
  BY <1>1, <1>2, <1>3, <1>4, <1>5 DEF Next

(* Tids and shards that wait for each other are those of reads that are    *)
(* known, and each reply is expected: what check_recovery_sources and      *)
(* handle_sub_read_reply assert, whatever errors come, also when they are  *)
(* not for good.                                                           *)
THEOREM MapsAreConsistent == Spec => [](TidsKnown /\ RepliesExpected)
<1>1. ReadInv => TidsKnown /\ RepliesExpected
  BY DEF ReadInv, MapsAgree, WireRight, TidsKnown, RepliesExpected, Awaited
<1> QED
  BY <1>1, ReadInvInit, ReadInvStep, PTL DEF Spec
-----------------------------------------------------------------------------
(* The order of the answers.  A client's read is of a type S, so that what *)
(* holds of each of them alone is said by S.                               *)
AnswerType == [data : BOOLEAN, enough : BOOLEAN, errors : SUBSET PgShard]
ClientReadType ==
  [tid : Nat, left : SUBSET Object,
   result : UNION {[X -> AnswerType] : X \in SUBSET Object}]

(* Tids grow along the answers and on through the reads under way.         *)
Ordered(S, given, reads, n) ==
  /\ given \in Seq(S) /\ reads \in Seq(S)
  /\ \A i \in 1 .. Len(given) : given[i].tid \in 1 .. n
  /\ \A i \in 1 .. Len(reads) : reads[i].tid \in 1 .. n
  /\ \A i, j \in 1 .. Len(given) : i < j => given[i].tid < given[j].tid
  /\ \A i, j \in 1 .. Len(reads) : i < j => reads[i].tid < reads[j].tid
  /\ \A i \in 1 .. Len(given), j \in 1 .. Len(reads) : given[i].tid < reads[j].tid

(* There is a place up to which the reads are complete.                    *)
LEMMA ReadyRight ==
  ASSUME NEW S, NEW reads \in Seq(S)
  PROVE  Ready(reads) \in 0 .. Len(reads)
<1> DEFINE T == {n \in 0 .. Len(reads) : n = Len(reads) \/ reads[n + 1].left # {}}
<1> DEFINE P(n) == /\ \A i \in 1 .. n : reads[i].left = {}
                   /\ n < Len(reads) => reads[n + 1].left # {}
<1>1. Len(reads) \in Nat
  OBVIOUS
<1>2. T \in SUBSET Nat /\ Len(reads) \in T
  BY <1>1
<1>3. PICK m \in T : \A x \in T : m <= x
  BY <1>2, LeastMember
<1>4. P(m)
  <2>1. ASSUME NEW i \in 1 .. m PROVE reads[i].left = {}
    <3>1. i - 1 \in 0 .. Len(reads) /\ ~(m <= i - 1) /\ (i - 1) + 1 = i
          /\ i - 1 # Len(reads)
      BY <1>1
    <3>2. i - 1 \notin T
      BY <1>3, <3>1
    <3> QED
      BY <3>1, <3>2
  <2> QED
    BY <2>1
<1>5. \E n \in 0 .. Len(reads) : P(n)
  BY <1>4
<1> QED
  BY <1>5 DEF Ready

(* The first reads are given out.                                          *)
LEMMA KickKeeps ==
  ASSUME NEW S, NEW given, NEW reads, NEW n, Ordered(S, given, reads, n),
         NEW k \in 0 .. Len(reads)
  PROVE  Ordered(S, given \o SubSeq(reads, 1, k), SubSeq(reads, k + 1, Len(reads)), n)
<1> DEFINE g == given \o SubSeq(reads, 1, k)
<1> DEFINE r == SubSeq(reads, k + 1, Len(reads))
<1>1. given \in Seq(S) /\ reads \in Seq(S) /\ Len(given) \in Nat /\ Len(reads) \in Nat
      /\ k \in Nat /\ k <= Len(reads)
  BY DEF Ordered
<1>2. /\ SubSeq(reads, 1, k) \in Seq(S) /\ Len(SubSeq(reads, 1, k)) = k
      /\ \A i \in 1 .. k : SubSeq(reads, 1, k)[i] = reads[i]
  BY <1>1
<1>3. /\ r \in Seq(S) /\ Len(r) = Len(reads) - k
      /\ \A i \in 1 .. Len(reads) - k : r[i] = reads[k + i]
  BY <1>1
<1>4. /\ g \in Seq(S) /\ Len(g) = Len(given) + k
      /\ \A i \in 1 .. Len(given) : g[i] = given[i]
      /\ \A i \in Len(given) + 1 .. Len(given) + k : g[i] = reads[i - Len(given)]
  BY <1>1, <1>2
<1> HIDE DEF g, r
<1>5. \A i \in 1 .. Len(g) : \/ i \in 1 .. Len(given) /\ g[i] = given[i]
                             \/ /\ i - Len(given) \in 1 .. Len(reads)
                                /\ i - Len(given) <= k
                                /\ g[i] = reads[i - Len(given)]
                                /\ ~(i <= Len(given))
  BY <1>1, <1>4
<1>6. \A i \in 1 .. Len(r) : k + i \in 1 .. Len(reads) /\ r[i] = reads[k + i]
  BY <1>1, <1>3
<1>7. \A i \in 1 .. Len(g) : g[i].tid \in 1 .. n
  BY <1>5 DEF Ordered
<1>8. \A i \in 1 .. Len(r) : r[i].tid \in 1 .. n
  BY <1>6 DEF Ordered
<1>9. ASSUME NEW i \in 1 .. Len(g), NEW j \in 1 .. Len(g), i < j
      PROVE  g[i].tid < g[j].tid
  <2>1. CASE i \in 1 .. Len(given) /\ j \in 1 .. Len(given)
    <3>1. g[i] = given[i] /\ g[j] = given[j]
      BY <1>4, <2>1
    <3> QED
      BY <1>9, <2>1, <3>1 DEF Ordered
  <2>2. CASE i \in 1 .. Len(given) /\ ~(j <= Len(given))
    <3>1. g[i] = given[i]
      BY <1>4, <2>2
    <3>2. PICK y \in 1 .. Len(reads) : g[j] = reads[y]
      BY <1>5, <2>2
    <3> QED
      BY <2>2, <3>1, <3>2 DEF Ordered
  <2>3. CASE ~(i <= Len(given)) /\ ~(j <= Len(given))
    <3>1. PICK x \in 1 .. Len(reads) : x = i - Len(given) /\ g[i] = reads[x]
      BY <1>5, <2>3
    <3>2. PICK y \in 1 .. Len(reads) : y = j - Len(given) /\ g[j] = reads[y]
      BY <1>5, <2>3
    <3>3. x < y
      BY <1>1, <1>9, <3>1, <3>2
    <3> QED
      BY <3>1, <3>2, <3>3 DEF Ordered
  <2> QED
    BY <1>1, <1>9, <2>1, <2>2, <2>3
<1>10. ASSUME NEW i \in 1 .. Len(r), NEW j \in 1 .. Len(r), i < j
       PROVE  r[i].tid < r[j].tid
  <2>1. k + i < k + j
    BY <1>1, <1>10
  <2> QED
    BY <1>6, <1>10, <2>1 DEF Ordered
<1>11. ASSUME NEW i \in 1 .. Len(g), NEW j \in 1 .. Len(r)
       PROVE  g[i].tid < r[j].tid
  <2>1. k + j \in 1 .. Len(reads) /\ r[j] = reads[k + j] /\ k < k + j
    BY <1>1, <1>6
  <2>2. CASE i \in 1 .. Len(given) /\ g[i] = given[i]
    BY <2>1, <2>2 DEF Ordered
  <2>3. CASE /\ i - Len(given) \in 1 .. Len(reads) /\ i - Len(given) <= k
             /\ g[i] = reads[i - Len(given)]
    <3>1. i - Len(given) < k + j
      BY <1>1, <2>3
    <3> QED
      BY <2>1, <2>3, <3>1 DEF Ordered
  <2> QED
    BY <1>5, <2>2, <2>3
<1> QED
  BY <1>3, <1>4, <1>7, <1>8, <1>9, <1>10, <1>11 DEF Ordered, g, r

(* The next read is entered behind the others.                             *)
LEMMA EnterKeeps ==
  ASSUME NEW S, NEW given, NEW reads, NEW n \in Nat, Ordered(S, given, reads, n),
         NEW c \in S, c.tid = n + 1
  PROVE  Ordered(S, given, Append(reads, c), n + 1)
<1> DEFINE r == Append(reads, c)
<1>1. given \in Seq(S) /\ reads \in Seq(S) /\ Len(reads) \in Nat /\ Len(given) \in Nat
  BY DEF Ordered
<1>2. /\ r \in Seq(S) /\ Len(r) = Len(reads) + 1
      /\ \A i \in 1 .. Len(reads) : r[i] = reads[i]
      /\ r[Len(reads) + 1] = c
  BY <1>1
<1> HIDE DEF r
<1>3. \A i \in 1 .. Len(r) : \/ i \in 1 .. Len(reads) /\ r[i] = reads[i]
                             \/ i = Len(reads) + 1 /\ r[i].tid = n + 1
  BY <1>1, <1>2
<1>4. \A i \in 1 .. Len(given) : given[i].tid \in 1 .. n
  BY DEF Ordered
<1>5. \A i \in 1 .. Len(reads) : reads[i].tid \in 1 .. n
  BY DEF Ordered
<1>6. \A i \in 1 .. Len(r) : r[i].tid \in 1 .. n + 1
  BY <1>3, <1>5
<1>7. \A i \in 1 .. Len(given) : given[i].tid \in 1 .. n + 1
  BY <1>4
<1>8. ASSUME NEW i \in 1 .. Len(r), NEW j \in 1 .. Len(r), i < j
      PROVE  r[i].tid < r[j].tid
  <2>1. i \in 1 .. Len(reads) /\ r[i] = reads[i] /\ reads[i].tid \in 1 .. n
    BY <1>1, <1>2, <1>5, <1>8
  <2>2. CASE j \in 1 .. Len(reads)
    BY <1>2, <1>8, <2>1, <2>2 DEF Ordered
  <2>3. CASE j = Len(reads) + 1
    <3>1. r[j].tid = n + 1
      BY <1>2, <2>3
    <3> QED
      BY <2>1, <3>1
  <2> QED
    BY <1>3, <2>2, <2>3
<1>9. ASSUME NEW i \in 1 .. Len(given), NEW j \in 1 .. Len(r)
      PROVE  given[i].tid < r[j].tid
  <2>1. given[i].tid \in 1 .. n
    BY <1>4
  <2>2. CASE j \in 1 .. Len(reads) /\ r[j] = reads[j]
    BY <2>2 DEF Ordered
  <2>3. CASE r[j].tid = n + 1
    BY <2>1, <2>3
  <2> QED
    BY <1>3, <2>2, <2>3
<1> QED
  BY <1>1, <1>2, <1>6, <1>7, <1>8, <1>9 DEF Ordered, r

(* One of the reads gets its result.                                       *)
Completed(c, tid, rop) ==
  IF c.tid = tid
  THEN [c EXCEPT !.left = {}, !.result = [o \in Objs(rop) |-> Answer(rop, o)]]
  ELSE c

(* complete_object fills in results and keeps the order of the client      *)
(* reads.                                                                  *)
LEMMA CompleteKeeps ==
  ASSUME NEW S \in SUBSET ClientReadType, NEW given, NEW reads, NEW n,
         Ordered(S, given, reads, n), NEW tid, NEW rop,
         \A c \in S : Completed(c, tid, rop) \in S
  PROVE  Ordered(S, given, complete_object(reads, tid, rop), n)
<1> DEFINE r == complete_object(reads, tid, rop)
<1>1. reads \in Seq(S) /\ Len(reads) \in Nat /\ DOMAIN reads = 1 .. Len(reads)
  BY DEF Ordered
<1>2. r = [i \in 1 .. Len(reads) |-> Completed(reads[i], tid, rop)]
  BY <1>1 DEF complete_object, Completed, Objs
<1>3. \A i \in 1 .. Len(reads) : reads[i] \in S
  BY <1>1
<1>4. \A c \in ClientReadType : Completed(c, tid, rop).tid = c.tid
  BY DEF Completed, ClientReadType
<1> HIDE DEF r
<1>5. /\ r \in Seq(S) /\ Len(r) = Len(reads)
      /\ \A i \in 1 .. Len(reads) : r[i] = Completed(reads[i], tid, rop)
  BY <1>1, <1>2, <1>3
<1>6. \A i \in 1 .. Len(reads) : r[i].tid = reads[i].tid
  BY <1>3, <1>4, <1>5
<1> QED
  BY <1>5, <1>6 DEF Ordered, r

(* kick_reads moves answers from the front of the one list to the end of   *)
(* the other, so both stay in the order asked.                             *)
LEMMA KickReads ==
  ASSUME NEW S, NEW reads, NEW n, Ordered(S, answered, reads, n), kick_reads(reads)
  PROVE  Ordered(S, answered', in_progress_client_reads', n)
<1>1. reads \in Seq(S)
  BY DEF Ordered
<1>2. Ready(reads) \in 0 .. Len(reads)
  BY <1>1, ReadyRight
<1>3. /\ in_progress_client_reads' = SubSeq(reads, Ready(reads) + 1, Len(reads))
      /\ answered' = answered \o SubSeq(reads, 1, Ready(reads))
  BY DEF kick_reads
<1> QED
  BY <1>2, <1>3, KickKeeps
(* The order is kept by a read that is asked for and by a reply, if what   *)
(* they enter is of the type.                                              *)
LEMMA OrderedRequest ==
  ASSUME NEW S, \A t \in Nat, x \in SUBSET Object : ClientRead(t, x) \in S,
         ReadInv, Ordered(S, answered, in_progress_client_reads, requested),
         NEW objects \in SUBSET Object, NEW fast_read,
         objects_read_and_reconstruct(objects, fast_read)
  PROVE  Ordered(S, answered', in_progress_client_reads', requested')
<1> DEFINE tid == requested + 1
<1> DEFINE c == ClientRead(tid, objects)
<1> DEFINE reads == Append(in_progress_client_reads, c)
<1>1. requested \in Nat /\ tid \in Nat /\ c.tid = requested + 1
  BY DEF ReadInv, ReadsTyped, ClientRead
<1>2. c \in S
  BY <1>1
<1>3. requested' = tid /\ EnterClientRead(tid, objects)
  BY DEF objects_read_and_reconstruct
<1> HIDE DEF c
<1>4. Ordered(S, answered, reads, requested + 1)
  BY <1>1, <1>2, EnterKeeps
<1>5. \/ kick_reads(reads)
      \/ in_progress_client_reads' = reads /\ answered' = answered
  BY <1>3 DEF EnterClientRead, c
<1> HIDE DEF reads
<1> QED
  BY <1>3, <1>4, <1>5, KickReads

(* handle_sub_read_reply keeps the order, and S if the completed reads are *)
(* in S.                                                                   *)
LEMMA OrderedReply ==
  ASSUME NEW S \in SUBSET ClientReadType, NEW n,
         Ordered(S, answered, in_progress_client_reads, n),
         NEW m, NEW bad, handle_sub_read_reply(m, bad),
         \A got, e : /\ m.tid \in DOMAIN tid_to_read_map
                     /\ got = Received(tid_to_read_map[m.tid], m, bad)
                     /\ e = Evaluated(got, holders) /\ Finished(e)
                     => \A c \in S : Completed(c, m.tid, e.rop) \in S
  PROVE  Ordered(S, answered', in_progress_client_reads', n)
<1>1. CASE m.tid \notin DOMAIN tid_to_read_map
  <2>1. UNCHANGED <<in_progress_client_reads, answered>>
    BY <1>1 DEF handle_sub_read_reply
  <2> QED
    BY <2>1
<1>2. CASE m.tid \in DOMAIN tid_to_read_map
  <2>1. PICK got, e, again :
           /\ got = Received(tid_to_read_map[m.tid], m, bad)
           /\ e = Evaluated(got, holders)
           /\ again = (IF got.in_progress = {} THEN e.rop.in_progress ELSE {})
           /\ wire' = (wire \ {m}) \cup {x \in Messages(m.tid, e.rop) : again # {}}
           /\ \/ Finished(e) /\ complete_read_op(m.tid, m.to, e.rop)
              \/ ~Finished(e) /\ ReplyAsks(m, e, again)
    BY <1>2, ReplyParts
  <2>2. CASE Finished(e) /\ complete_read_op(m.tid, m.to, e.rop)
    <3>1. \A c \in S : Completed(c, m.tid, e.rop) \in S
      BY <1>2, <2>1, <2>2
    <3>2. kick_reads(complete_object(in_progress_client_reads, m.tid, e.rop))
      BY <2>2 DEF complete_read_op
    <3>3. Ordered(S, answered,
                  complete_object(in_progress_client_reads, m.tid, e.rop), n)
      BY <3>1, CompleteKeeps
    <3> QED
      BY <3>2, <3>3, KickReads
  <2>3. CASE ReplyAsks(m, e, again)
    BY <2>3 DEF ReplyAsks
  <2> QED
    BY <2>1, <2>2, <2>3
<1> QED
  BY <1>1, <1>2

(* A client read that was just asked is of the type.                       *)
LEMMA ClientReadTyped ==
  \A t \in Nat, x \in SUBSET Object : ClientRead(t, x) \in ClientReadType
<1>1. <<>> \in [{} -> AnswerType]
  OBVIOUS
<1>2. <<>> \in UNION {[X -> AnswerType] : X \in SUBSET Object}
  BY <1>1
<1> QED
  BY <1>2 DEF ClientRead, ClientReadType

(* An answer made from a data read is of the type.                         *)
LEMMA AnswerTyped ==
  ASSUME NEW rop, DataRead(rop), NEW o \in Objs(rop)
  PROVE  Answer(rop, o) \in AnswerType
<1>1. rop.complete[o] \in Result
  BY TypedFields DEF DataRead, Shape
<1>2. rop.complete[o].errors \in SUBSET PgShard
  BY <1>1 DEF Result
<1>3. (rop.complete[o].r = "ok") \in BOOLEAN /\ Enough(rop, o) \in BOOLEAN
  BY DEF Enough
<1> QED
  BY <1>2, <1>3 DEF Answer, AnswerType

(* A client read stays of its type when its read completes.                *)
LEMMA CompletedTyped ==
  ASSUME NEW rop, DataRead(rop), NEW tid, NEW c \in ClientReadType
  PROVE  Completed(c, tid, rop) \in ClientReadType
<1> DEFINE res == [o \in Objs(rop) |-> Answer(rop, o)]
<1>1. Objs(rop) \in SUBSET Object
  BY DEF DataRead, Shape, Typed
<1>2. res \in [Objs(rop) -> AnswerType]
  BY AnswerTyped
<1>3. res \in UNION {[X -> AnswerType] : X \in SUBSET Object}
  BY <1>1, <1>2
<1> HIDE DEF res
<1>4. CASE c.tid = tid
  <2>1. Completed(c, tid, rop) = [c EXCEPT !.left = {}, !.result = res]
    BY <1>4 DEF Completed, res
  <2> QED
    BY <1>3, <2>1 DEF ClientReadType
<1>5. CASE c.tid # tid
  BY <1>5 DEF Completed
<1> QED
  BY <1>4, <1>5

(* What handling a reply leaves of a read is a read of data.               *)
LEMMA RepliedData ==
  ASSUME ReadInv, NEW m \in wire, NEW bad \in SUBSET m.objects,
         m.tid \in DOMAIN tid_to_read_map,
         NEW got, got = Received(tid_to_read_map[m.tid], m, bad)
  PROVE  DataRead(Evaluated(got, holders).rop)
<1> DEFINE rop == tid_to_read_map[m.tid]
<1>1. DataRead(rop) /\ Awaited(m, rop) /\ holders \in [Object -> SUBSET Acting]
  BY DEF ReadInv, ReadsTyped, MapsAgree
<1> HIDE DEF rop
<1>2. GoesOn(got, Evaluated(got, holders).rop)
  BY <1>1, RepliedRead DEF rop
<1> QED
  BY <1>2 DEF GoesOn

OrderInv ==
  Ordered(ClientReadType, answered, in_progress_client_reads, requested)

(* Both lists of client reads are empty at first.                          *)
LEMMA OrderInvInit == Init => OrderInv
<1>1. <<>> \in Seq(ClientReadType) /\ Len(<<>>) = 0 /\ 1 .. 0 = {}
  OBVIOUS
<1> SUFFICES ASSUME Init PROVE OrderInv
  OBVIOUS
<1>2. answered = <<>> /\ in_progress_client_reads = <<>>
  BY DEF Init
<1>3. Len(answered) = 0 /\ Len(in_progress_client_reads) = 0
  BY <1>1, <1>2
<1>4. answered \in Seq(ClientReadType) /\ in_progress_client_reads \in Seq(ClientReadType)
  BY <1>1, <1>2
<1> QED
  BY <1>3, <1>4 DEF OrderInv, Ordered

(* No step puts client reads out of order.                                 *)
LEMMA OrderInvStep == ReadInv /\ OrderInv /\ [Next]_vars => OrderInv'
<1> SUFFICES ASSUME ReadInv, OrderInv, [Next]_vars PROVE OrderInv'
  OBVIOUS
<1>1. ASSUME NEW objects \in SUBSET Object, NEW fast_read \in BOOLEAN,
             objects_read_and_reconstruct(objects, fast_read)
      PROVE  OrderInv'
  BY <1>1, OrderedRequest, ClientReadTyped DEF OrderInv
<1>2. ASSUME NEW m \in wire, NEW bad \in SUBSET m.objects, handle_sub_read_reply(m, bad)
      PROVE  OrderInv'
  <2>1. \A got, e : /\ m.tid \in DOMAIN tid_to_read_map
                    /\ got = Received(tid_to_read_map[m.tid], m, bad)
                    /\ e = Evaluated(got, holders) /\ Finished(e)
           => \A c \in ClientReadType : Completed(c, m.tid, e.rop) \in ClientReadType
    BY RepliedData, CompletedTyped
  <2>2. Ordered(ClientReadType, answered', in_progress_client_reads', requested)
    BY <1>2, <2>1, OrderedReply DEF OrderInv
  <2>3. requested' = requested
    BY <1>2 DEF handle_sub_read_reply
  <2> QED
    BY <2>2, <2>3 DEF OrderInv
<1>3. ASSUME NEW o \in Object, NEW q \in holders[o], CopyMissing(o, q)
      PROVE  OrderInv'
  BY <1>3 DEF CopyMissing, OrderInv
<1>4. CASE on_change
  <2>1. in_progress_client_reads' = <<>> /\ UNCHANGED <<answered, requested>>
    BY <1>4 DEF on_change
  <2>2. <<>> \in Seq(ClientReadType) /\ Len(<<>>) = 0
    OBVIOUS
  <2> QED
    BY <2>1, <2>2 DEF OrderInv, Ordered
<1>5. CASE UNCHANGED vars
  BY <1>5 DEF OrderInv, vars
<1> QED
  BY <1>1, <1>2, <1>3, <1>4, <1>5 DEF Next

(* Reads are answered in the order in which they were asked, whatever the  *)
(* order in which the shards answer, errors are retried and intervals end: *)
(* the list in_progress_client_reads is answered from its front, and tids  *)
(* grow along what was answered and on along the list.                     *)
THEOREM AnswersKeepOrder == Spec => []AnsweredInOrder
<1>1. OrderInv => AnsweredInOrder
  <2> SUFFICES ASSUME OrderInv PROVE AnsweredInOrder
    OBVIOUS
  <2>1. answered \in Seq(ClientReadType)
    BY DEF OrderInv, Ordered
  <2>2. DOMAIN answered = 1 .. Len(answered)
    BY <2>1
  <2> QED
    BY <2>2 DEF OrderInv, Ordered, AnsweredInOrder
<1> QED
  BY <1>1, ReadInvInit, ReadInvStep, OrderInvInit, OrderInvStep, PTL DEF Spec
-----------------------------------------------------------------------------
(* What is answered, when the copies that could not be read never can be   *)
(* and errors are not checked (the default of                              *)
(* osd_read_ec_check_for_errors).                                          *)
Pending(w, t, q, o) == \E x \in w : x.tid = t /\ x.to = q /\ o \in x.objects

(* An object of a read that is under way: if it was given up it was with   *)
(* reason; all holders are asked by a fast read; there is enough, or every *)
(* shard that was asked has answered or will; errors are real.             *)
SoundObject(rop, t, w, h, u, o) ==
  /\ GivenUp(rop, o, h[o])
  /\ rop.do_redundant_reads => h[o] \subseteq Asked(rop, o)
  /\ \/ Enough(rop, o)
     \/ \A q \in Asked(rop, o) : \/ q \in Buffers(rop.complete[o])
                                 \/ q \in rop.complete[o].errors
                                 \/ Pending(w, t, q, o)
  /\ \A q \in rop.complete[o].errors : <<q, o>> \in u
SoundRead(rop, t, w, h, u) == \A o \in Objs(rop) : SoundObject(rop, t, w, h, u, o)

SoundInv ==
  /\ asserted = ""
  /\ \A t \in DOMAIN tid_to_read_map :
       SoundRead(tid_to_read_map[t], t, wire, holders, unreadable)

(* Fewer holders that could still be read.                                 *)
LEMMA FewerHolders ==
  ASSUME NEW H \in SUBSET Acting, NEW G \in SUBSET H, NEW E, NEW F, E \subseteq F,
         Cardinality(H \ E) < K
  PROVE  Cardinality(G \ F) < K
<1>1. H \ E \in SUBSET Acting
  OBVIOUS
<1>2. IsFiniteSet(H \ E) /\ Cardinality(H \ E) \in Nat
  BY <1>1, ActingCount
<1>3. G \ F \subseteq H \ E
  OBVIOUS
<1>4. Cardinality(G \ F) \in Nat /\ Cardinality(G \ F) <= Cardinality(H \ E)
  BY <1>2, <1>3, CountMonotone
<1> QED
  BY <1>2, <1>4

(* A read stays sound when other messages come and go, copies go missing   *)
(* and errors become known.                                                *)
LEMMA SoundReadStays ==
  ASSUME NEW rop, NEW t, NEW w, NEW h \in [Object -> SUBSET Acting], NEW u,
         Objs(rop) \subseteq Object, SoundRead(rop, t, w, h, u),
         NEW w2, \A x \in w : x.tid = t => x \in w2,
         NEW h2 \in [Object -> SUBSET Acting], \A o \in Object : h2[o] \subseteq h[o],
         NEW u2, u \subseteq u2
  PROVE  SoundRead(rop, t, w2, h2, u2)
<1> SUFFICES ASSUME NEW o \in Objs(rop) PROVE SoundObject(rop, t, w2, h2, u2, o)
  BY DEF SoundRead
<1>1. o \in Object /\ h[o] \in SUBSET Acting /\ h2[o] \in SUBSET h[o]
  OBVIOUS
<1>2. SoundObject(rop, t, w, h, u, o)
  BY DEF SoundRead
<1>3. \A q : Pending(w, t, q, o) => Pending(w2, t, q, o)
  BY DEF Pending
<1>4. GivenUp(rop, o, h2[o])
  <2> SUFFICES ASSUME rop.complete[o].r # "ok"
               PROVE  /\ ~Enough(rop, o) /\ HeardAll(rop, o)
                      /\ Cardinality(h2[o] \ rop.complete[o].errors) < K
    BY DEF GivenUp
  <2>1. /\ ~Enough(rop, o) /\ HeardAll(rop, o)
        /\ Cardinality(h[o] \ rop.complete[o].errors) < K
    BY <1>2 DEF SoundObject, GivenUp
  <2>2. Cardinality(h2[o] \ rop.complete[o].errors) < K
    <3> DEFINE E == rop.complete[o].errors
    <3>1. E \subseteq E /\ Cardinality(h[o] \ E) < K
      BY <2>1
    <3> HIDE DEF E
    <3>2. Cardinality(h2[o] \ E) < K
      BY ONLY <1>1, <3>1, FewerHolders
    <3> QED
      BY <3>2 DEF E
  <2> QED
    BY <2>1, <2>2
<1>5. rop.do_redundant_reads => h2[o] \subseteq Asked(rop, o)
  BY <1>1, <1>2 DEF SoundObject
<1>6. \A q \in rop.complete[o].errors : <<q, o>> \in u2
  BY <1>2 DEF SoundObject
<1>7. \/ Enough(rop, o)
      \/ \A q \in Asked(rop, o) : \/ q \in Buffers(rop.complete[o])
                                  \/ q \in rop.complete[o].errors
                                  \/ Pending(w2, t, q, o)
  BY <1>2, <1>3 DEF SoundObject
<1> QED
  BY <1>4, <1>5, <1>6, <1>7 DEF SoundObject

(* A reply makes of enough never too little.                               *)
LEMMA EnoughStays ==
  ASSUME NEW rop, DataRead(rop), NEW new, DataRead(new), Objs(new) = Objs(rop),
         NEW o \in Objs(rop), Enough(rop, o),
         Buffers(rop.complete[o]) \subseteq Buffers(new.complete[o])
  PROVE  Enough(new, o)
<1>1. Have(rop.complete[o]) \subseteq Have(new.complete[o])
  BY DEF Have, ShardOf, Buffers
<1>2. Cardinality(Have(rop.complete[o])) >= K /\ Cardinality(Have(rop.complete[o])) \in Nat
  BY EnoughIsK
<1>3. /\ IsFiniteSet(Have(new.complete[o])) /\ Cardinality(Have(new.complete[o])) \in Nat
      /\ Enough(new, o) <=> Cardinality(Have(new.complete[o])) >= K
  BY EnoughIsK
<1>4. Cardinality(Have(rop.complete[o])) <= Cardinality(Have(new.complete[o]))
  BY <1>1, <1>3, CountMonotone
<1> QED
  BY <1>2, <1>3, <1>4

(* A reply to a sound read, before it is judged.                           *)
LEMMA ReceivedSound ==
  ASSUME NEW rop, DataRead(rop), NEW w, NEW m \in w, Awaited(m, rop),
         NEW bad \in SUBSET m.objects, NEW h \in [Object -> SUBSET Acting],
         NEW u, SoundRead(rop, m.tid, w, h, u),
         \A o \in m.objects : <<m.to, o>> \in u => o \in bad,
         NEW got, Took(rop, got, m, bad), DataRead(got)
  PROVE  SoundRead(got, m.tid, w \ {m}, h, u \cup ({m.to} \X bad))
<1> SUFFICES ASSUME NEW o \in Objs(rop)
             PROVE  SoundObject(got, m.tid, w \ {m}, h, u \cup ({m.to} \X bad), o)
  BY DEF SoundRead, Took
<1>1. /\ Objs(got) = Objs(rop) /\ got.want_to_read = rop.want_to_read
      /\ got.do_redundant_reads = rop.do_redundant_reads
      /\ Asked(got, o) = Asked(rop, o)
      /\ got.complete[o].r = rop.complete[o].r
      /\ got.complete[o].errors = rop.complete[o].errors \cup From(m.to, o, bad)
      /\ Buffers(got.complete[o]) =
            Buffers(rop.complete[o]) \cup From(m.to, o, m.objects \ bad)
  BY DEF Took
<1>2. SoundObject(rop, m.tid, w, h, u, o)
  BY DEF SoundRead
<1>3. o \in Object /\ h[o] \in SUBSET Acting
  BY DEF DataRead, Shape, Typed
<1>4. Enough(rop, o) => Enough(got, o)
  BY <1>1, EnoughStays
<1>5. ASSUME rop.complete[o].r # "ok"
      PROVE  /\ ~Enough(got, o) /\ HeardAll(got, o)
             /\ Cardinality(h[o] \ got.complete[o].errors) < K
  <2>1. /\ ~Enough(rop, o) /\ HeardAll(rop, o)
        /\ Cardinality(h[o] \ rop.complete[o].errors) < K
    BY <1>2, <1>5 DEF SoundObject, GivenUp
  <2>2. o \in m.objects \ bad => m.to \in Buffers(rop.complete[o])
    <3> SUFFICES ASSUME o \in m.objects \ bad, m.to \notin Buffers(rop.complete[o])
                 PROVE  FALSE
      OBVIOUS
    <3>1. m.to \in Asked(rop, o)
      BY DEF Awaited
    <3>2. m.to \in rop.complete[o].errors
      BY <2>1, <3>1 DEF HeardAll
    <3>3. <<m.to, o>> \in u
      BY <1>2, <3>2 DEF SoundObject
    <3> QED
      BY <3>3
  <2>3. Buffers(got.complete[o]) = Buffers(rop.complete[o])
    BY <1>1, <2>2 DEF From
  <2>4. ~Enough(got, o)
    BY <1>1, <2>1, <2>3, EnoughStays
  <2>5. HeardAll(got, o)
    BY <1>1, <2>1 DEF HeardAll
  <2>6. rop.complete[o].errors \subseteq got.complete[o].errors
    BY <1>1
  <2>7. Cardinality(h[o] \ got.complete[o].errors) < K
    <3> DEFINE E == rop.complete[o].errors
    <3> DEFINE F == got.complete[o].errors
    <3>1. /\ E \subseteq F /\ Cardinality(h[o] \ E) < K
          /\ h[o] \in SUBSET Acting /\ h[o] \in SUBSET h[o]
      BY <1>3, <2>1, <2>6
    <3> HIDE DEF E, F
    <3>2. Cardinality(h[o] \ F) < K
      BY ONLY <3>1, FewerHolders
    <3> QED
      BY <3>2 DEF F
  <2> QED
    BY <2>4, <2>5, <2>7
<1>6. GivenUp(got, o, h[o])
  BY <1>1, <1>5 DEF GivenUp
<1>7. got.do_redundant_reads => h[o] \subseteq Asked(got, o)
  BY <1>1, <1>2 DEF SoundObject
<1>8. \A q \in got.complete[o].errors : <<q, o>> \in u \cup ({m.to} \X bad)
  BY <1>1, <1>2 DEF SoundObject, From
<1>9. ASSUME ~Enough(got, o), NEW q \in Asked(got, o)
      PROVE  \/ q \in Buffers(got.complete[o])
             \/ q \in got.complete[o].errors
             \/ Pending(w \ {m}, m.tid, q, o)
  <2>1. \/ q \in Buffers(rop.complete[o])
        \/ q \in rop.complete[o].errors
        \/ Pending(w, m.tid, q, o)
    BY <1>1, <1>2, <1>4, <1>9 DEF SoundObject
  <2>2. CASE Pending(w, m.tid, q, o)
    <3>1. PICK x \in w : x.tid = m.tid /\ x.to = q /\ o \in x.objects
      BY <2>2 DEF Pending
    <3>2. CASE x = m
      BY <1>1, <3>1, <3>2 DEF From
    <3>3. CASE x # m
      BY <3>1, <3>3 DEF Pending
    <3> QED
      BY <3>2, <3>3
  <2> QED
    BY <1>1, <2>1, <2>2
<1> QED
  BY <1>6, <1>7, <1>8, <1>9 DEF SoundObject
(* A read that has heard everybody can be judged.                          *)
LEMMA SoundToJudge ==
  ASSUME NEW got, DataRead(got), NEW t, NEW w, NEW h \in [Object -> SUBSET Acting],
         NEW u, SoundRead(got, t, w, h, u),
         \A x \in w : x.tid = t => x.to \in got.in_progress
  PROVE  Sound(got, h)
<1> SUFFICES ASSUME NEW o \in Objs(got)
             PROVE  /\ GivenUp(got, o, h[o])
                    /\ got.do_redundant_reads => h[o] \subseteq Asked(got, o)
                    /\ got.in_progress = {} => Enough(got, o) \/ HeardAll(got, o)
  BY DEF Sound
<1>1. SoundObject(got, t, w, h, u, o)
  BY DEF SoundRead
<1>2. got.in_progress = {} => \A q : ~Pending(w, t, q, o)
  BY DEF Pending
<1> QED
  BY <1>1, <1>2 DEF SoundObject, HeardAll

(* A read that goes on after it was judged is still sound: the shards it   *)
(* asks now have their messages.                                           *)
LEMMA JudgedSound ==
  ASSUME NEW got, NEW t, NEW w, NEW h \in [Object -> SUBSET Acting], NEW u,
         Sound(got, h), SoundRead(got, t, w, h, u),
         NEW new, KeptRop(got, NObjects, new, h), DataRead(new),
         \A o \in Objs(got) : GivenUp(new, o, h[o]) /\ ErrorsLeft(got, new, o),
         NEW w2, w \subseteq w2,
         got.in_progress = {} /\ new.in_progress # {} => Messages(t, new) \subseteq w2
  PROVE  SoundRead(new, t, w2, h, u)
<1> SUFFICES ASSUME NEW o \in Objs(got) PROVE SoundObject(new, t, w2, h, u, o)
  BY DEF SoundRead, KeptRop
<1>1. /\ Objs(new) = Objs(got) /\ new.want_to_read = got.want_to_read
      /\ new.do_redundant_reads = got.do_redundant_reads
      /\ SameBuffers(got.complete[o], new.complete[o])
      /\ SameAsks(got, new) \/ NewAsks(got, new)
  BY DEF KeptRop
<1>2. /\ Enough(new, o) <=> Enough(got, o)
      /\ Buffers(new.complete[o]) = Buffers(got.complete[o])
  BY <1>1, SameEnough
<1>3. SoundObject(got, t, w, h, u, o)
  BY DEF SoundRead
<1>4. Asked(got, o) \subseteq Asked(new, o)
  BY <1>1 DEF SameAsks, NewAsks
<1>5. \A q \in new.complete[o].errors : <<q, o>> \in u
  BY <1>3 DEF SoundObject, ErrorsLeft
<1>6. new.do_redundant_reads => h[o] \subseteq Asked(new, o)
  BY <1>1, <1>3, <1>4 DEF SoundObject
<1>7. ASSUME ~Enough(new, o), NEW q \in Asked(new, o)
      PROVE  \/ q \in Buffers(new.complete[o])
             \/ q \in new.complete[o].errors
             \/ Pending(w2, t, q, o)
  <2>1. new.complete[o].errors = got.complete[o].errors
    BY <1>7 DEF ErrorsLeft
  <2>2. CASE q \in Asked(got, o)
    <3>1. \/ q \in Buffers(got.complete[o]) \/ q \in got.complete[o].errors
          \/ Pending(w, t, q, o)
      BY <1>2, <1>3, <1>7, <2>2 DEF SoundObject
    <3>2. Pending(w, t, q, o) => Pending(w2, t, q, o)
      BY DEF Pending
    <3> QED
      BY <1>2, <2>1, <3>1, <3>2
  <2>3. CASE q \notin Asked(got, o)
    <3>1. /\ got.in_progress = {} /\ new.in_progress = Needed(new)
          /\ q \in new.to_read[o].need
      BY <1>1, <1>7, <2>3 DEF SameAsks, NewAsks
    <3>2. q \in Needed(new)
      BY <1>1, <3>1 DEF Needed
    <3> DEFINE sent == Messages(t, new)
    <3>m. /\ \A x \in sent : /\ x.tid = t /\ x.to \in Needed(new)
                           /\ x.objects = {y \in Objs(new) : x.to \in new.to_read[y].need}
          /\ \A p \in Needed(new) : \E x \in sent : x.to = p
      BY ONLY MessagesSent
    <3>s. new.in_progress # {} => sent \subseteq w2
      BY <3>1
    <3> HIDE DEF sent
    <3>3. PICK x \in sent : x.to = q
      BY ONLY <3>2, <3>m
    <3>4. /\ x.tid = t /\ x.to \in Needed(new)
          /\ x.objects = {y \in Objs(new) : x.to \in new.to_read[y].need}
      BY ONLY <3>m, <3>3
    <3>o. o \in Objs(new)
      BY <1>1
    <3>5. x \in w2
      BY ONLY <3>1, <3>2, <3>3, <3>s
    <3>6. o \in x.objects
      BY ONLY <3>1, <3>3, <3>4, <3>o
    <3> QED
      BY <3>3, <3>4, <3>5, <3>6 DEF Pending
  <2> QED
    BY <2>2, <2>3
<1>8. GivenUp(new, o, h[o])
  OBVIOUS
<1> QED
  BY <1>5, <1>6, <1>7, <1>8 DEF SoundObject

(* What a sound reply leaves: no assertion fails; a read that is finished  *)
(* has each object decodable, or not readable from what is left; one that  *)
(* goes on is sound.                                                       *)
LEMMA ReplySound ==
  ASSUME Persistent, ~CheckForErrors, ReadInv, SoundInv, NEW m \in wire,
         NEW bad \in SUBSET m.objects, handle_sub_read_reply(m, bad),
         m.tid \in DOMAIN tid_to_read_map,
         NEW got, got = Received(tid_to_read_map[m.tid], m, bad),
         NEW e, e = Evaluated(got, holders)
  PROVE  /\ e.assert = "" /\ DataRead(e.rop)
         /\ Finished(e) => \A o \in Objs(e.rop) : Processed(e.rop, o, holders[o])
         /\ \A w2 : /\ wire \ {m} \subseteq w2
                    /\ got.in_progress = {} /\ e.rop.in_progress # {}
                         => Messages(m.tid, e.rop) \subseteq w2
                    => SoundRead(e.rop, m.tid, w2, holders, unreadable')
<1> DEFINE rop == tid_to_read_map[m.tid]
<1> DEFINE w == wire \ {m}
<1>1. /\ DataRead(rop) /\ Awaited(m, rop) /\ holders \in [Object -> SUBSET Acting]
      /\ SoundRead(rop, m.tid, wire, holders, unreadable)
  BY DEF ReadInv, ReadsTyped, MapsAgree, SoundInv
<1>2. /\ unreadable' = unreadable \cup ({m.to} \X bad)
      /\ \A o \in m.objects : <<m.to, o>> \in unreadable => o \in bad
  BY DEF handle_sub_read_reply
<1>3. \A x \in w : x.tid = m.tid => x.to \in rop.in_progress /\ x.to # m.to
  BY DEF ReadInv, MapsAgree, WireRight, Awaited
<1>4. got = Received(rop, m, bad)
  OBVIOUS
<1> HIDE DEF rop
<1>5. DataRead(got) /\ got.in_progress = rop.in_progress \ {m.to} /\ Objs(got) = Objs(rop)
  BY <1>1, <1>4, RepliedRead
<1>6. Took(rop, got, m, bad)
  <2>1. Typed(rop) /\ rop.in_progress \in SUBSET PgShard
    BY <1>1, TypedFields DEF DataRead, Shape
  <2>2. m.to \in PgShard /\ m.objects \subseteq Objs(rop)
    BY <1>1, <2>1 DEF Awaited
  <2> QED
    BY <1>4, <2>1, <2>2, ReceivedFields
<1>7. SoundRead(got, m.tid, w, holders, unreadable')
  BY <1>1, <1>2, <1>5, <1>6, ReceivedSound
<1>8. \A x \in w : x.tid = m.tid => x.to \in got.in_progress
  BY <1>3, <1>5
<1> HIDE DEF w
<1>9. Sound(got, holders)
  BY <1>1, <1>5, <1>7, <1>8, SoundToJudge
<1>10. /\ KeptRop(got, NObjects, e.rop, holders)
       /\ e.assert = "" /\ DataRead(e.rop) /\ Objs(e.rop) = Objs(got)
       /\ \A o \in Objs(got) : GivenUp(e.rop, o, holders[o])
       /\ \A o \in Objs(got) : ErrorsLeft(got, e.rop, o)
       /\ Finished(e) => \A o \in Objs(got) : Processed(e.rop, o, holders[o])
  BY <1>9, EvaluatedRead
<1>11. ASSUME NEW w2, w \subseteq w2,
              got.in_progress = {} /\ e.rop.in_progress # {}
                => Messages(m.tid, e.rop) \subseteq w2
       PROVE  SoundRead(e.rop, m.tid, w2, holders, unreadable')
  <2> DEFINE new == e.rop
  <2> HIDE DEF new
  <2>1. SoundRead(new, m.tid, w2, holders, unreadable')
    BY <1>1, <1>7, <1>9, <1>10, <1>11, JudgedSound DEF new
  <2> QED
    BY <2>1 DEF new
<1> QED
  BY <1>10, <1>11 DEF w
(* The asserts at the end of a read that finished.                         *)
LEMMA FinishedAsserts ==
  ASSUME NEW rop, DataRead(rop), NEW h,
         \A o \in Objs(rop) : Processed(rop, o, h[o])
  PROVE  ClientAssert(rop) = ""
<1>1. DOMAIN rop.complete = DOMAIN rop.to_read
  BY DEF DataRead, Shape, Typed, Objs
<1>2. ~ \E o \in DOMAIN rop.to_read :
          rop.complete[o].r = "ok" /\ rop.complete[o].errors # {}
  BY DEF Processed, Objs
<1> QED
  BY <1>1, <1>2 DEF ClientAssert, CompleteAssert

(* A read that has just started is sound: who is asked has its message.    *)
LEMMA NewReadSound ==
  ASSUME NEW rop, NEW objects \in SUBSET Object, NEW fast_read,
         NewRead(rop, objects, fast_read), NEW t, NEW w,
         Messages(t, rop) \subseteq w, NEW h, h = holders, NEW u
  PROVE  SoundRead(rop, t, w, h, u)
<1> SUFFICES ASSUME NEW o \in objects PROVE SoundObject(rop, t, w, h, u, o)
  BY DEF SoundRead, NewRead
<1>1. /\ rop.complete[o] = NewResult /\ Asked(rop, o) = rop.to_read[o].need
      /\ Objs(rop) = objects
  BY DEF NewRead
<1>2. rop.complete[o].r = "ok" /\ rop.complete[o].errors = {}
  BY <1>1 DEF NewResult
<1>3. rop.do_redundant_reads => h[o] \subseteq Asked(rop, o)
  BY DEF NewRead
<1>4. ASSUME NEW q \in Asked(rop, o) PROVE Pending(w, t, q, o)
  <2>1. q \in Needed(rop)
    BY <1>1, <1>4 DEF Needed
  <2>2. PICK x \in Messages(t, rop) : x.to = q
    BY <2>1, MessagesSent
  <2>3. x.tid = t /\ x.objects = {y \in Objs(rop) : x.to \in rop.to_read[y].need}
    BY MessagesSent
  <2> QED
    BY <1>1, <1>4, <2>2, <2>3 DEF Pending
<1> QED
  BY <1>2, <1>3, <1>4 DEF SoundObject, GivenUp

(* There are no reads at first.                                            *)
LEMMA SoundInvInit == Init => SoundInv
<1> SUFFICES ASSUME Init PROVE SoundInv
  OBVIOUS
<1>1. DOMAIN <<>> = {}
  OBVIOUS
<1> QED
  BY <1>1 DEF Init, SoundInv

(* A new read waits for a reply from each shard it asked.                  *)
LEMMA SoundInvRequest ==
  ASSUME ReadInv, SoundInv, NEW objects \in SUBSET Object,
         NEW fast_read \in BOOLEAN,
         objects_read_and_reconstruct(objects, fast_read)
  PROVE  SoundInv'
<1> DEFINE tid == requested + 1
<1> DEFINE rop == start_read_op([o \in objects |-> WantToRead],
                                [o \in objects |-> Request(o, fast_read)],
                                fast_read, FALSE)
<1>1. /\ UNCHANGED <<holders, countVars, asserted>>
      /\ \A o \in objects : Request(o, fast_read).need # {}
      /\ holders \in [Object -> SUBSET Acting]
  BY DEF objects_read_and_reconstruct, ReadInv, ReadsTyped
<1>2. CASE objects = {} /\ UNCHANGED readVars
  BY <1>1, <1>2 DEF SoundInv, readVars, countVars
<1>3. CASE StartedTo(tid, rop)
  <2>1. NewRead(rop, objects, fast_read)
    BY <1>1, StartedRead
  <2> HIDE DEF rop
  <2>2. /\ tid_to_read_map' = [t \in DOMAIN tid_to_read_map \cup {tid} |->
                                 IF t = tid THEN rop ELSE tid_to_read_map[t]]
        /\ wire' = wire \cup Messages(tid, rop)
    BY <1>3 DEF StartedTo
  <2>3. tid \notin DOMAIN tid_to_read_map
    BY DEF ReadInv, ReadsTyped
  <2> HIDE DEF tid
  <2>4. SoundRead(rop, tid, wire', holders, unreadable)
    BY <2>1, <2>2, NewReadSound
  <2>5. ASSUME NEW t \in DOMAIN tid_to_read_map
        PROVE  SoundRead(tid_to_read_map[t], t, wire', holders, unreadable)
    <3> DEFINE old == tid_to_read_map[t]
    <3>1. SoundRead(old, t, wire, holders, unreadable) /\ Objs(old) \subseteq Object
      BY DEF SoundInv, ReadInv, ReadsTyped, DataRead, Shape, Typed
    <3> HIDE DEF old
    <3>2. SoundRead(old, t, wire', holders, unreadable)
      BY <1>1, <2>2, <3>1, SoundReadStays
    <3> QED
      BY <3>2 DEF old
  <2>6. /\ holders' = holders /\ unreadable' = unreadable /\ asserted' = ""
    BY <1>1 DEF SoundInv, countVars
  <2>7. ASSUME NEW t \in DOMAIN tid_to_read_map'
        PROVE  SoundRead(tid_to_read_map'[t], t, wire', holders', unreadable')
    <3>1. CASE t = tid
      BY <2>2, <2>4, <2>6, <3>1
    <3>2. CASE t # tid
      BY <2>2, <2>5, <2>6, <2>7, <3>2
    <3> QED
      BY <3>1, <3>2
  <2> QED
    BY <2>6, <2>7 DEF SoundInv
<1> QED
  BY <1>2, <1>3 DEF objects_read_and_reconstruct, StartedTo

(* The reads that a reply is not for stay sound.                           *)
LEMMA OtherReadsSound ==
  ASSUME ReadInv, SoundInv, NEW m \in wire, NEW bad \in SUBSET m.objects,
         handle_sub_read_reply(m, bad),
         NEW t \in DOMAIN tid_to_read_map, t # m.tid
  PROVE  SoundRead(tid_to_read_map[t], t, wire', holders', unreadable')
<1> DEFINE old == tid_to_read_map[t]
<1>1. SoundRead(old, t, wire, holders, unreadable) /\ Objs(old) \subseteq Object
  BY DEF SoundInv, ReadInv, ReadsTyped, DataRead, Shape, Typed
<1>2. holders' = holders /\ holders \in [Object -> SUBSET Acting]
  BY DEF handle_sub_read_reply, ReadInv, ReadsTyped
<1>3. unreadable \subseteq unreadable'
  BY DEF handle_sub_read_reply
<1>4. wire \ {m} \subseteq wire'
  <2>1. CASE m.tid \notin DOMAIN tid_to_read_map
    BY <2>1 DEF handle_sub_read_reply
  <2>2. CASE m.tid \in DOMAIN tid_to_read_map
    BY <2>2, ReplyParts
  <2> QED
    BY <2>1, <2>2
<1>5. \A x \in wire : x.tid = t => x \in wire'
  BY <1>4
<1> HIDE DEF old
<1>6. SoundRead(old, t, wire', holders, unreadable')
  BY <1>1, <1>2, <1>3, <1>5, SoundReadStays
<1> QED
  BY <1>2, <1>6 DEF old

(* When a copy that could not be read stays unreadable and errors are not  *)
(* looked at, a reply breaks no assertion and leaves the reads sound.      *)
LEMMA SoundInvReply ==
  ASSUME Persistent, ~CheckForErrors, ReadInv, SoundInv, NEW m \in wire,
         NEW bad \in SUBSET m.objects, handle_sub_read_reply(m, bad)
  PROVE  SoundInv'
<1>1. asserted = "" /\ holders' = holders
  BY DEF SoundInv, handle_sub_read_reply
<1>2. CASE m.tid \notin DOMAIN tid_to_read_map
  <2>1. UNCHANGED <<tid_to_read_map, asserted>>
    BY <1>2 DEF handle_sub_read_reply
  <2> QED
    BY <1>1, <1>2, <2>1, OtherReadsSound DEF SoundInv
<1>3. CASE m.tid \in DOMAIN tid_to_read_map
  <2>1. PICK got, e, again :
           /\ got = Received(tid_to_read_map[m.tid], m, bad)
           /\ e = Evaluated(got, holders)
           /\ again = (IF got.in_progress = {} THEN e.rop.in_progress ELSE {})
           /\ wire' = (wire \ {m}) \cup {x \in Messages(m.tid, e.rop) : again # {}}
           /\ \/ Finished(e) /\ complete_read_op(m.tid, m.to, e.rop)
              \/ ~Finished(e) /\ ReplyAsks(m, e, again)
    BY <1>3, ReplyParts
  <2>2. /\ e.assert = "" /\ DataRead(e.rop)
        /\ Finished(e) => \A o \in Objs(e.rop) : Processed(e.rop, o, holders[o])
        /\ \A w2 : /\ wire \ {m} \subseteq w2
                   /\ got.in_progress = {} /\ e.rop.in_progress # {}
                        => Messages(m.tid, e.rop) \subseteq w2
                   => SoundRead(e.rop, m.tid, w2, holders, unreadable')
    BY <1>3, <2>1, ReplySound
  <2>3. CASE Finished(e) /\ complete_read_op(m.tid, m.to, e.rop)
    <3>1. /\ asserted' = ClientAssert(e.rop)
          /\ tid_to_read_map' =
               [t \in DOMAIN tid_to_read_map \ {m.tid} |-> tid_to_read_map[t]]
      BY <2>3 DEF complete_read_op
    <3>2. asserted' = ""
      BY <2>2, <2>3, <3>1, FinishedAsserts
    <3>3. ASSUME NEW t \in DOMAIN tid_to_read_map'
          PROVE  SoundRead(tid_to_read_map'[t], t, wire', holders', unreadable')
      <4>1. t \in DOMAIN tid_to_read_map /\ t # m.tid
            /\ tid_to_read_map'[t] = tid_to_read_map[t]
        BY <3>1, <3>3
      <4> QED
        BY <4>1, OtherReadsSound
    <3> QED
      BY <3>2, <3>3 DEF SoundInv
  <2>4. CASE ReplyAsks(m, e, again)
    <3>1. /\ asserted' = "" /\ tid_to_read_map' = [tid_to_read_map EXCEPT ![m.tid] = e.rop]
      BY <2>2, <2>4 DEF ReplyAsks
    <3>2. wire \ {m} \subseteq wire'
      BY <2>1
    <3>3. got.in_progress = {} /\ e.rop.in_progress # {}
            => Messages(m.tid, e.rop) \subseteq wire'
      BY <2>1
    <3>4. SoundRead(e.rop, m.tid, wire', holders, unreadable')
      BY <2>2, <3>2, <3>3
    <3>5. ASSUME NEW t \in DOMAIN tid_to_read_map'
          PROVE  SoundRead(tid_to_read_map'[t], t, wire', holders', unreadable')
      <4>1. CASE t = m.tid
        BY <1>1, <1>3, <3>1, <3>4, <4>1
      <4>2. CASE t # m.tid
        <5>1. t \in DOMAIN tid_to_read_map /\ tid_to_read_map'[t] = tid_to_read_map[t]
          BY <3>1, <3>5, <4>2
        <5> QED
          BY <4>2, <5>1, OtherReadsSound
      <4> QED
        BY <4>1, <4>2
    <3> QED
      BY <3>1, <3>5 DEF SoundInv
  <2> QED
    BY <2>1, <2>3, <2>4
<1> QED
  BY <1>2, <1>3
(* No step does.                                                           *)
LEMMA SoundInvStep ==
  Persistent /\ ~CheckForErrors /\ ReadInv /\ SoundInv /\ [Next]_vars => SoundInv'
<1> SUFFICES ASSUME Persistent, ~CheckForErrors, ReadInv, SoundInv, [Next]_vars
             PROVE  SoundInv'
  OBVIOUS
<1>1. ASSUME NEW objects \in SUBSET Object, NEW fast_read \in BOOLEAN,
             objects_read_and_reconstruct(objects, fast_read)
      PROVE  SoundInv'
  BY <1>1, SoundInvRequest
<1>2. ASSUME NEW m \in wire, NEW bad \in SUBSET m.objects, handle_sub_read_reply(m, bad)
      PROVE  SoundInv'
  BY <1>2, SoundInvReply
<1>3. ASSUME NEW o \in Object, NEW q \in holders[o], CopyMissing(o, q)
      PROVE  SoundInv'
  <2>1. /\ UNCHANGED <<readVars, unreadable, asserted>>
        /\ holders' = [holders EXCEPT ![o] = holders[o] \ {q}]
        /\ holders \in [Object -> SUBSET Acting]
    BY <1>3 DEF CopyMissing, ReadInv, ReadsTyped
  <2>2. /\ holders' \in [Object -> SUBSET Acting]
        /\ \A x \in Object : holders'[x] \subseteq holders[x]
    BY <2>1
  <2>3. ASSUME NEW t \in DOMAIN tid_to_read_map
        PROVE  SoundRead(tid_to_read_map[t], t, wire, holders', unreadable)
    <3> DEFINE old == tid_to_read_map[t]
    <3>1. SoundRead(old, t, wire, holders, unreadable) /\ Objs(old) \subseteq Object
      BY DEF SoundInv, ReadInv, ReadsTyped, DataRead, Shape, Typed
    <3> HIDE DEF old
    <3>2. SoundRead(old, t, wire, holders', unreadable)
      BY <2>1, <2>2, <3>1, SoundReadStays
    <3> QED
      BY <3>2 DEF old
  <2> QED
    BY <2>1, <2>3 DEF SoundInv, readVars
<1>4. CASE on_change
  <2>1. DOMAIN <<>> = {}
    OBVIOUS
  <2> QED
    BY <1>4, <2>1 DEF on_change, SoundInv
<1>5. CASE UNCHANGED vars
  BY <1>5 DEF SoundInv, vars, readVars, countVars
<1> QED
  BY <1>1, <1>2, <1>3, <1>4, <1>5 DEF Next

(* No assertion of the read path fails, for any number of shards, objects, *)
(* reads, errors, lost copies and intervals, as long as a copy that gave   *)
(* an error keeps giving it and errors are not checked for.  Without the   *)
(* first an object that was given up may be found good, without the second *)
(* one that is in error may be looked at again (README).                   *)
THEOREM ReadsNeverAssert ==
  ASSUME Persistent, ~CheckForErrors
  PROVE  Spec => []NoAssertFails
<1>1. ReadInv /\ SoundInv => NoAssertFails
  BY DEF ReadInv, SoundInv, MapsAgree, WireRight, TidsKnown, RepliesExpected, Awaited,
         NoAssertFails
<1>2. ReadInv /\ SoundInv /\ [Next]_vars => SoundInv'
  BY SoundInvStep
<1> QED
  BY <1>1, <1>2, ReadInvInit, ReadInvStep, SoundInvInit, PTL DEF Spec
-----------------------------------------------------------------------------
(* The answers that are right for the copies of h, and the client's reads  *)
(* whose answers are.                                                      *)
RightAnswer(a, H) ==
  IF a.data THEN a.enough ELSE Cardinality(H \ a.errors) < K
RightReads(h) ==
  {c \in ClientReadType : \A o \in DOMAIN c.result : RightAnswer(c.result[o], h[o])}

AnswerInv ==
  Ordered(RightReads(holders), answered, in_progress_client_reads, requested)

(* What a read that finished gives to its client is right.                 *)
LEMMA CompletedRight ==
  ASSUME NEW rop, DataRead(rop), NEW h,
         \A o \in Objs(rop) : Processed(rop, o, h[o]),
         NEW tid, NEW c \in RightReads(h)
  PROVE  Completed(c, tid, rop) \in RightReads(h)
<1>1. c \in ClientReadType
  BY DEF RightReads
<1>2. Completed(c, tid, rop) \in ClientReadType
  BY <1>1, CompletedTyped
<1>3. CASE c.tid = tid
  <2> DEFINE res == [o \in Objs(rop) |-> Answer(rop, o)]
  <2>1. Completed(c, tid, rop) = [c EXCEPT !.left = {}, !.result = res]
    BY <1>3 DEF Completed
  <2>2. DOMAIN res = Objs(rop) /\ \A o \in Objs(rop) : res[o] = Answer(rop, o)
    OBVIOUS
  <2> HIDE DEF res
  <2>3. Completed(c, tid, rop).result = res
    BY <1>1, <2>1 DEF ClientReadType
  <2>4. ASSUME NEW o \in Objs(rop) PROVE RightAnswer(Answer(rop, o), h[o])
    <3> DEFINE a == Answer(rop, o)
    <3>1. /\ a.data = (rop.complete[o].r = "ok") /\ a.enough = Enough(rop, o)
          /\ a.errors = rop.complete[o].errors
      BY Zenon DEF Answer
    <3> HIDE DEF a
    <3>2. Processed(rop, o, h[o])
      OBVIOUS
    <3>3. CASE rop.complete[o].r = "ok"
      <4>1. Enough(rop, o)
        BY <3>2, <3>3, Zenon DEF Processed
      <4> QED
        BY <3>1, <3>3, <4>1, Zenon DEF RightAnswer, a
    <3>4. CASE rop.complete[o].r # "ok"
      <4>1. Cardinality(h[o] \ rop.complete[o].errors) < K
        BY <3>2, <3>4, Zenon DEF Processed
      <4> QED
        BY <3>1, <3>4, <4>1, Zenon DEF RightAnswer, a
    <3> QED
      BY <3>3, <3>4
  <2> QED
    BY <1>2, <2>2, <2>3, <2>4 DEF RightReads
<1>4. CASE c.tid # tid
  BY <1>4 DEF Completed
<1> QED
  BY <1>3, <1>4

(* A copy that goes missing makes no answer wrong.                         *)
LEMMA RightAnswerStays ==
  ASSUME NEW a, NEW H \in SUBSET Acting, NEW G \in SUBSET H, RightAnswer(a, H)
  PROVE  RightAnswer(a, G)
<1> DEFINE E == a.errors
<1>1. E \subseteq E
  OBVIOUS
<1>2. CASE a.data
  BY <1>2, Zenon DEF RightAnswer
<1>3. CASE ~a.data
  <2>1. Cardinality(H \ E) < K
    BY <1>3, Zenon DEF RightAnswer
  <2> HIDE DEF E
  <2>2. Cardinality(G \ E) < K
    BY ONLY <1>1, <2>1, FewerHolders
  <2> QED
    BY <1>3, <2>2, Zenon DEF RightAnswer, E
<1> QED
  BY <1>2, <1>3

(* Right answers stay right when holders lose copies.                      *)
LEMMA RightReadsStay ==
  ASSUME NEW h \in [Object -> SUBSET Acting], NEW g \in [Object -> SUBSET Acting],
         \A o \in Object : g[o] \subseteq h[o]
  PROVE  RightReads(h) \subseteq RightReads(g)
<1> SUFFICES ASSUME NEW c \in RightReads(h), NEW o \in DOMAIN c.result
             PROVE  RightAnswer(c.result[o], g[o])
  BY DEF RightReads
<1>1. c \in ClientReadType /\ RightAnswer(c.result[o], h[o])
  BY DEF RightReads
<1>2. PICK X \in SUBSET Object : c.result \in [X -> AnswerType]
  BY <1>1 DEF ClientReadType
<1>3. h[o] \in SUBSET Acting /\ g[o] \in SUBSET h[o]
  BY <1>2
<1> QED
  BY <1>1, <1>3, RightAnswerStays

(* No answer was given at first.                                           *)
LEMMA AnswerInvInit == Init => AnswerInv
<1> SUFFICES ASSUME Init PROVE AnswerInv
  OBVIOUS
<1> DEFINE S == RightReads(holders)
<1>1. <<>> \in Seq(S) /\ Len(<<>>) = 0 /\ 1 .. 0 = {}
  OBVIOUS
<1>2. answered = <<>> /\ in_progress_client_reads = <<>>
  BY DEF Init
<1> HIDE DEF S
<1>3. Ordered(S, answered, in_progress_client_reads, requested)
  BY <1>1, <1>2 DEF Ordered
<1> QED
  BY <1>3 DEF AnswerInv, S

(* Every step gives right answers only.                                    *)
LEMMA AnswerInvStep ==
  ASSUME Persistent, ~CheckForErrors, ReadInv, SoundInv, AnswerInv, [Next]_vars
  PROVE  AnswerInv'
<1> DEFINE S == RightReads(holders)
<1> DEFINE T == RightReads(holders')
<1>1. S \in SUBSET ClientReadType
  BY DEF RightReads
<1>2. Ordered(S, answered, in_progress_client_reads, requested)
  BY DEF AnswerInv
<1>3. holders \in [Object -> SUBSET Acting]
  BY DEF ReadInv, ReadsTyped
<1>4. SUFFICES Ordered(T, answered', in_progress_client_reads', requested')
  BY DEF AnswerInv
<1>5. ASSUME NEW objects \in SUBSET Object, NEW fast_read \in BOOLEAN,
             objects_read_and_reconstruct(objects, fast_read)
      PROVE  Ordered(T, answered', in_progress_client_reads', requested')
  <2>1. T = S
    BY <1>5 DEF objects_read_and_reconstruct
  <2>2. \A t \in Nat, x \in SUBSET Object : ClientRead(t, x) \in S
    <3>1. DOMAIN <<>> = {}
      OBVIOUS
    <3>2. \A t \in Nat, x \in SUBSET Object : DOMAIN ClientRead(t, x).result = {}
      BY <3>1 DEF ClientRead
    <3> QED
      BY <3>2, ClientReadTyped DEF RightReads
  <2> HIDE DEF S, T
  <2>3. Ordered(S, answered', in_progress_client_reads', requested')
    BY <1>2, <1>5, <2>2, OrderedRequest
  <2> QED
    BY <2>1, <2>3
<1>6. ASSUME NEW m \in wire, NEW bad \in SUBSET m.objects, handle_sub_read_reply(m, bad)
      PROVE  Ordered(T, answered', in_progress_client_reads', requested')
  <2>1. T = S /\ requested' = requested
    BY <1>6 DEF handle_sub_read_reply
  <2>2. ASSUME NEW got, NEW e, m.tid \in DOMAIN tid_to_read_map,
               got = Received(tid_to_read_map[m.tid], m, bad),
               e = Evaluated(got, holders), Finished(e), NEW c \in S
        PROVE  Completed(c, m.tid, e.rop) \in S
    <3>1. DataRead(e.rop) /\ \A o \in Objs(e.rop) : Processed(e.rop, o, holders[o])
      BY <1>6, <2>2, ReplySound
    <3> QED
      BY <3>1, CompletedRight
  <2> HIDE DEF S, T
  <2>3. Ordered(S, answered', in_progress_client_reads', requested)
    BY <1>1, <1>2, <1>6, <2>2, OrderedReply
  <2> QED
    BY <2>1, <2>3
<1>7. ASSUME NEW o \in Object, NEW q \in holders[o], CopyMissing(o, q)
      PROVE  Ordered(T, answered', in_progress_client_reads', requested')
  <2>1. /\ UNCHANGED <<answered, in_progress_client_reads, requested>>
        /\ holders' = [holders EXCEPT ![o] = holders[o] \ {q}]
    BY <1>7 DEF CopyMissing
  <2>2. /\ holders' \in [Object -> SUBSET Acting]
        /\ \A x \in Object : holders'[x] \subseteq holders[x]
    BY <1>3, <2>1
  <2>3. S \subseteq T
    BY <1>3, <2>2, RightReadsStay
  <2> HIDE DEF S, T
  <2>4. Seq(S) \subseteq Seq(T)
    BY <2>3
  <2> QED
    BY <1>2, <2>1, <2>4 DEF Ordered
<1>8. CASE on_change
  <2>1. in_progress_client_reads' = <<>> /\ UNCHANGED <<answered, requested, holders>>
    BY <1>8 DEF on_change
  <2>2. T = S
    BY <2>1
  <2> HIDE DEF S, T
  <2>3. <<>> \in Seq(S) /\ Len(<<>>) = 0
    OBVIOUS
  <2> QED
    BY <1>2, <2>1, <2>2, <2>3 DEF Ordered
<1>9. CASE UNCHANGED vars
  BY <1>2, <1>9 DEF vars
<1> QED
  BY <1>5, <1>6, <1>7, <1>8, <1>9 DEF Next

(* Data is given to a client only when the plugin can decode what came,    *)
(* and an error only when fewer than K acting shards can still give the    *)
(* object, also after more copies went missing: for any numbers, under the *)
(* conditions of ReadsNeverAssert.                                         *)
THEOREM AnswersAreRight ==
  ASSUME Persistent, ~CheckForErrors
  PROVE  Spec => []AnswersRight
<1>1. AnswerInv => AnswersRight
  <2> SUFFICES ASSUME AnswerInv, NEW i \in DOMAIN answered,
                      NEW o \in DOMAIN answered[i].result
               PROVE  RightAnswer(answered[i].result[o], holders[o])
    BY DEF AnswersRight, RightAnswer
  <2>1. answered \in Seq(RightReads(holders))
    BY DEF AnswerInv, Ordered
  <2>2. answered[i] \in RightReads(holders)
    BY <2>1
  <2> QED
    BY <2>2 DEF RightReads
<1>2. ReadInv /\ SoundInv /\ [Next]_vars => SoundInv'
  BY SoundInvStep
<1>3. ReadInv /\ SoundInv /\ AnswerInv /\ [Next]_vars => AnswerInv'
  BY AnswerInvStep
<1> QED
  BY <1>1, <1>2, <1>3, ReadInvInit, ReadInvStep, SoundInvInit, AnswerInvInit, PTL
     DEF Spec
=============================================================================
