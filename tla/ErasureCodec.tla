--------------------------- MODULE ErasureCodec ---------------------------
(***************************************************************************)
(* encode and decode of ErasureCodeInterface, as one call after the other  *)
(* on one plugin, with the buffers of the chunks.  encode is handed the    *)
(* data chunks and makes a codeword of them; decode is handed some chunks  *)
(* of a codeword that determine the others; while a call works, a chunk    *)
(* that is as in the codeword stays so; it returns, and then every chunk   *)
(* that was wanted is as in the codeword.                                  *)
(*                                                                         *)
(* This is what the two calls do for each other: what encode returned,     *)
(* decode restores.  The interface promises more of the codeword, namely   *)
(* that its data chunks are the input (Verbatim): that is stated here and  *)
(* not a part of Spec, for the plugin does not always keep it.             *)
(***************************************************************************)
CONSTANTS Chunks,    \* the chunks of an object, data and coding
          Data,      \* the data chunks
          Decodable, \* the sets of chunks of a codeword that determine it
          Content,   \* what the buffer of a chunk may hold
          Input,     \* what that of a data chunk holds when encode is called
          Codeword   \* what that of a chunk holds when encode has returned

VARIABLES phase,   \* "idle", "busy" or "returned"
          wanted,  \* the chunks the call is to produce
          chunk    \* the buffers of the chunks

Intact == {n \in Chunks : chunk[n] = Codeword}

Init == phase = "idle" /\ wanted = {} /\ chunk \in [Chunks -> Content]

Begin == /\ phase # "busy"
         /\ phase' = "busy"
         /\ chunk' \in [Chunks -> Content]

\* encode: the data chunks hold the input.
Encode == /\ Begin
          /\ wanted' = Chunks
          /\ \A n \in Data : chunk'[n] = Input

\* decode: enough chunks of a codeword are given.
Decode == /\ Begin
          /\ wanted' \in SUBSET Chunks
          /\ \E S \in Decodable : S \subseteq Intact'

Work == /\ phase = "busy"
        /\ chunk' \in [Chunks -> Content]
        /\ Intact \subseteq Intact'
        /\ UNCHANGED <<phase, wanted>>

Return == /\ phase = "busy"
          /\ wanted \subseteq Intact
          /\ phase' = "returned"
          /\ UNCHANGED <<wanted, chunk>>

Next == Encode \/ Decode \/ Work \/ Return

Safety == Init /\ [][Next]_<<phase, wanted, chunk>>

\* A call does not hang.
Spec == Safety /\ ((phase = "busy") ~> (phase = "returned"))

\* "All codes are systematic": a data chunk that was wanted is, in the end,
\* a piece of the object as it was handed to encode.
Verbatim == phase = "returned" => \A n \in Data \cap wanted : chunk[n] = Input
===========================================================================
