--------------------------- MODULE MyClayPlugin ---------------------------
(***************************************************************************)
(* One ErasureCodeMyClay instance as an OSD uses it: encode_chunks,        *)
(* decode_chunks (MyClay) and the repair of one chunk (MyClayRepair), one  *)
(* call after the other.  The member U_buf is shared by all of them and is *)
(* never cleared; everything else that a call works with is local to it,   *)
(* or a buffer of its caller, and is gone when the next call begins.       *)
(***************************************************************************)
EXTENDS ClayGeometry

VARIABLES
  pc, erased, iscore, uncoupled, recovered, C,          \* of encode and decode
  rpc, lost, minimum, helper, repair_plane_to_ind,      \* of a repair
  order_i, repaired, R,
  U                                                     \* U_buf

layered == <<pc, erased, iscore, uncoupled, recovered, C>>
repair  == <<rpc, lost, minimum, helper, repair_plane_to_ind, order_i, repaired, R>>
vars    == <<layered, repair, U>>

Coder    == INSTANCE MyClay
Repairer == INSTANCE MyClayRepair WITH pc <- rpc

Init == Coder!Init /\ Repairer!Init

\* The locals of the kind of call that is not being made.
NoRepair ==
  /\ rpc' = "idle" /\ lost' = Repairer!NoNode
  /\ minimum' = Repairer!Empty /\ helper' = Repairer!Empty
  /\ repair_plane_to_ind' = Repairer!Empty
  /\ order_i' = 0 /\ repaired' = {} /\ R' = Repairer!Garbage
NoLayered ==
  /\ pc' = "idle" /\ erased' = {} /\ iscore' = 0
  /\ uncoupled' = {} /\ recovered' = {} /\ C' = [n \in Node |-> Coder!Garbage]

Idle == pc \in {"idle", "returned"} /\ rpc \in {"idle", "returned"}

\* encode, and decode with chunks given whole.
CallLayered == Idle /\ Coder!Call /\ NoRepair
\* minimum_to_decode, the reads and decode, when one chunk can be repaired.
CallRepair  == Idle /\ Repairer!Request /\ NoLayered

Step == \/ Coder!Step /\ UNCHANGED repair
        \/ Repairer!Step /\ UNCHANGED layered

Next == CallLayered \/ CallRepair \/ Step

\* A call is one thread running to its end: it does not stop by itself.
Spec == Init /\ [][Next]_vars /\ WF_vars(Step)

---------------------------------------------------------------------------
\* The plane schedule of decode_layered is a valid one, whatever the calls
\* before it have left in U_buf (MyClay).
IInv == Coder!IInv

\* encode and decode return with every chunk in storage order (MyClay).
AllChunksRight == Coder!AllChunksRight

\* The assertions of a repair hold (MyClayRepair).
AssertionsHold == Repairer!AssertionsHold

\* No plane of a repair overwrites what another one has recovered
\* (MyClayRepair).
RecoveredOnce == [][Repairer!RecoveredOnceStep]_vars

\* The plugin implements ErasureCodec: encode makes a codeword of data
\* chunks as they were handed in, and both kinds of decode restore it.
Repairing == rpc # "idle"
phaseMap  == IF Repairing THEN Repairer!phaseMap ELSE Coder!phaseMap
wantedMap == IF Repairing THEN Repairer!wantedMap ELSE Coder!wantedMap
chunkMap  == IF Repairing THEN Repairer!chunkMap ELSE Coder!chunkMap
Codec == INSTANCE ErasureCodec WITH
  Chunks <- Real, Decodable <- {S \in SUBSET Real : Cardinality(S) >= K},
  Content <- [Pos -> Plane \cup {Junk}],
  Input <- Coder!Raw, Codeword <- Coder!Stored,
  phase <- phaseMap, wanted <- wantedMap, chunk <- chunkMap
CodecSpec == Codec!Spec

\* "All codes are systematic (i.e. the data is not mangled and can be
\* reconstructed by concatenating chunks)": what the data chunks hold when a
\* call returns is what encode was given.
DataVerbatim == Codec!Verbatim
===========================================================================
