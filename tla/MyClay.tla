------------------------------ MODULE MyClay ------------------------------
(***************************************************************************)
(* encode_chunks, decode_chunks and decode_layered of ErasureCodeMyClay,   *)
(* one call after the other on one plugin instance.                        *)
(*                                                                         *)
(* Data is abstracted to "which sub-chunk is this".  C[n][i] is the        *)
(* content of the i-th sub-chunk of the buffer of chunk n: plane z when it *)
(* holds the coupled sub-chunk of plane z of the object of this call, Junk *)
(* otherwise.  U is the set of cells <<n, z>> of the member U_buf that     *)
(* hold the uncoupled sub-chunk of this object; U_buf outlives a call, and *)
(* a cell outside U still holds the bytes of an earlier object.            *)
(***************************************************************************)
EXTENDS ClayGeometry

VARIABLES
  pc,         \* where the call is
  erased,     \* decode_layered's erased_chunks
  iscore,     \* its loop variable iscore
  uncoupled,  \* planes whose decode_erasures(z) has run
  recovered,  \* planes whose erased sub-chunks have been stored
  C, U

vars == <<pc, erased, iscore, uncoupled, recovered, C, U>>

Init ==
  /\ pc = "idle"
  /\ erased = {}
  /\ iscore = 0
  /\ uncoupled = {}
  /\ recovered = {}
  /\ C = [n \in Node |-> [i \in Pos |-> Junk]]
  /\ U = {}

\* What an intact chunk holds, and a buffer without meaningful content.
Stored  == [i \in Pos |-> Order[i]]
Garbage == [i \in Pos |-> Junk]

\* A data chunk as the caller hands it to encode: sub-chunk z is plane z.
Raw == [i \in Pos |-> get_plane_vector(i)]

\* The memcpys of the reorder loop of encode_chunks: with z = order[i] the
\* sub-chunk at z*sub_chunk_size of tmp_buf becomes the i-th of orig_buf.
Reordered(chunk) ==
  [i \in Pos |-> chunk[CHOOSE z \in Pos : get_plane_vector(z) = Order[i]]]

Begin(start, E, chunks) ==
  /\ pc \in {"idle", "returned"}
  /\ pc' = start
  /\ erased' = E
  /\ iscore' = 0
  /\ uncoupled' = {}
  /\ recovered' = {}
  /\ C' = chunks
  /\ U' = {}

(***************************************************************************)
(* encode_chunks: takes the data chunks as they are given and adds the     *)
(* zero chunks; in mode "myclay" it then permutes the data chunks in       *)
(* place; and it calls decode_layered(parity_chunks).                      *)
(***************************************************************************)
EncodeInput == [n \in Node |-> IF n \in Data THEN Raw
                               ELSE IF n \in Virtual THEN Stored
                               ELSE Garbage]

encode_chunks ==
  Begin(IF MyMode = "myclay" THEN "reorder" ELSE "pad", Parity, EncodeInput)

\* Mutant: the last data chunk is left out of "for (int chk=0; chk<k; chk++)".
ReorderShort ==
  /\ pc = "reorder"
  /\ pc' = "pad"
  /\ C' = [n \in Node |-> IF n \in Data /\ NodeId(n) < K - 1
                          THEN Reordered(C[n]) ELSE C[n]]
  /\ UNCHANGED <<erased, iscore, uncoupled, recovered, U>>

Reorder ==
  /\ pc = "reorder"
  /\ pc' = "pad"
  /\ C' = [n \in Node |-> IF n \in Data THEN Reordered(C[n]) ELSE C[n]]
  /\ UNCHANGED <<erased, iscore, uncoupled, recovered, U>>

(***************************************************************************)
(* decode_chunks: the chunks in have are copied from the input, the others *)
(* are erasures whose buffers are freshly allocated.  ErasureCode::_decode *)
(* calls it with at least k chunks and at least one missing.               *)
(***************************************************************************)
decode_chunks(have) ==
  Begin("pad", Real \ have,
        [n \in Node |-> IF n \in have \cup Virtual THEN Stored ELSE Garbage])

(***************************************************************************)
(* decode_layered adds parity nodes, lowest first, until m are erased.     *)
(***************************************************************************)
PadErasures ==
  /\ pc = "pad"
  /\ Cardinality(erased) < M
  /\ \E n \in Parity \ erased :
       /\ \A p \in Parity \ erased : NodeId(n) <= NodeId(p)
       /\ erased' = erased \cup {n}
  /\ UNCHANGED <<pc, iscore, uncoupled, recovered, C, U>>

PadDone ==
  /\ pc = "pad"
  /\ Cardinality(erased) >= M \/ Parity \subseteq erased
  /\ pc' = "decode"
  /\ UNCHANGED <<erased, iscore, uncoupled, recovered, C, U>>

\* The coupled sub-chunk of (n, z) is read at order_ind[z] of its chunk.
Cgood(n, z) == C[n][order_ind[z]] = z
Ugood(n, z) == <<n, z>> \in U

\* Planes of the current iscore, and the next of them that loop meets.
Layer == {z \in Plane : Score(erased, z) = iscore}
NextOf(z, done) ==
  /\ z \in Layer \ done
  /\ \A w \in Layer \ done : ~Before(w, z)

(***************************************************************************)
(* decode_erasures(z).  Survivors that are pairs are turned into their     *)
(* uncoupled form; a pair of survivors is transformed once, by the member  *)
(* with z[y] < x, and then decode_uncoupled runs the scalar MDS code on    *)
(* plane z: it yields the erased sub-chunks if all survivors are right and *)
(* no more than m are erased.                                              *)
(***************************************************************************)
Transforms(n, z) ==   \* get_uncoupled_from_coupled is called for (n, z)
  /\ n \notin erased
  /\ z[n[2]] < n[1] \/ (z[n[2]] > n[1] /\ node_sw(n, z) \in erased)

PairReady(n, z) == Cgood(n, z) /\ Cgood(node_sw(n, z), z_sw(n, z))

\* The U cells the transforms and copies of plane z write, and those of
\* them that become right.
Written(z) ==
  {<<n, z>> : n \in {v \in Node \ erased : Transforms(v, z) \/ Dot(v, z)}}
    \cup {<<node_sw(n, z), z_sw(n, z)>> : n \in {v \in Node : Transforms(v, z)}}
WrittenGood(z) ==
  {<<n, z>> : n \in {v \in Node \ erased :
                       \/ Transforms(v, z) /\ PairReady(v, z)
                       \/ Dot(v, z) /\ Cgood(v, z)}}
    \cup {<<node_sw(n, z), z_sw(n, z)>> :
            n \in {v \in Node : Transforms(v, z) /\ PairReady(v, z)}}

\* decode_uncoupled: mds.erasure_code->decode_chunks on plane z of V.
decode_uncoupled(V, z) ==
  LET ok == /\ Cardinality(erased) <= M
            /\ \A n \in Node \ erased : <<n, z>> \in V
  IN  (V \ {<<n, z>> : n \in erased})
        \cup (IF ok THEN {<<n, z>> : n \in erased} ELSE {})

decode_erasures(z) ==
  /\ pc = "decode"
  /\ NextOf(z, uncoupled)
  /\ U' = decode_uncoupled((U \ Written(z)) \cup WrittenGood(z), z)
  /\ uncoupled' = uncoupled \cup {z}
  /\ UNCHANGED <<pc, erased, iscore, recovered, C>>

\* Mutant: one loop for both phases, recovery after each plane.
LayerUncoupledOne ==
  /\ pc = "decode"
  /\ pc' = "recover"
  /\ UNCHANGED <<erased, iscore, uncoupled, recovered, C, U>>

\* The first inner loop over z ends: all planes of this iscore are uncoupled.
LayerUncoupled ==
  /\ pc = "decode"
  /\ Layer \subseteq uncoupled
  /\ pc' = "recover"
  /\ UNCHANGED <<erased, iscore, uncoupled, recovered, C, U>>

(***************************************************************************)
(* The second inner loop for plane z: for every erased node the coupled    *)
(* sub-chunk is stored at order_ind[z] -- by recover_type1_erasure when    *)
(* its pair survived, by get_coupled_from_uncoupled (which stores both     *)
(* members of an erased pair, called for the one with z[y] < x), and by a  *)
(* copy when it is a dot.                                                  *)
(***************************************************************************)
Type1(n, z)   == ~Dot(n, z) /\ node_sw(n, z) \notin erased
Coupled(n, z) == z[n[2]] < n[1] /\ node_sw(n, z) \in erased

RecoverReady(n, z) ==
  /\ Ugood(n, z)
  /\ Type1(n, z) => Cgood(node_sw(n, z), z_sw(n, z))
  /\ Coupled(n, z) => Ugood(node_sw(n, z), z_sw(n, z))

\* The other member of an erased pair is left to the call for its own plane.
StoresOwn(n, z) == Dot(n, z) \/ Type1(n, z) \/ Coupled(n, z)

\* The C cells the recovery of plane z stores, and those stored right.
Stores(z) ==
  {<<n, z>> : n \in {v \in erased : StoresOwn(v, z)}}
    \cup {<<node_sw(n, z), z_sw(n, z)>> : n \in {v \in erased : Coupled(v, z)}}
StoresGood(z) ==
  {<<n, z>> : n \in {v \in erased : StoresOwn(v, z) /\ RecoverReady(v, z)}}
    \cup {<<node_sw(n, z), z_sw(n, z)>> :
            n \in {v \in erased : Coupled(v, z) /\ RecoverReady(v, z)}}

\* The sub-chunk of plane w of chunk n lives at position order_ind[w].
InCells(cells, n, i) == \E w \in Plane : order_ind[w] = i /\ <<n, w>> \in cells

RecoverPlane(z) ==
  /\ pc = "recover"
  /\ NextOf(z, recovered)
  /\ C' = [n \in Node |-> [i \in Pos |->
             IF InCells(StoresGood(z), n, i)
             THEN CHOOSE w \in Plane : order_ind[w] = i
             ELSE IF InCells(Stores(z), n, i) THEN Junk ELSE C[n][i]]]
  /\ recovered' = recovered \cup {z}
  /\ UNCHANGED <<pc, erased, iscore, uncoupled, U>>

\* "iscore++", or the end of the outer loop.
NextIscore ==
  /\ pc = "recover"
  /\ Layer \subseteq recovered
  /\ iscore' = iscore + 1
  /\ pc' = IF iscore + 1 <= get_max_iscore(erased) THEN "decode" ELSE "returned"
  /\ UNCHANGED <<erased, uncoupled, recovered, C, U>>

Call ==
  \/ encode_chunks
  \/ \E have \in SUBSET Real :
       /\ Cardinality(have) >= K /\ have # Real
       /\ decode_chunks(have)

Step ==
  \/ Reorder
  \/ PadErasures
  \/ PadDone
  \/ \E z \in Plane : decode_erasures(z)
  \/ LayerUncoupled
  \/ \E z \in Plane : RecoverPlane(z)
  \/ NextIscore

Next == Call \/ Step

\* A call is one thread running to its end: it does not stop by itself.
Spec == Init /\ [][Next]_vars /\ WF_vars(Step)

---------------------------------------------------------------------------
TypeOK ==
  /\ pc \in {"idle", "reorder", "pad", "decode", "recover", "returned"}
  /\ erased \subseteq Node
  /\ iscore \in 0 .. T + 1
  /\ uncoupled \subseteq Plane
  /\ recovered \subseteq Plane
  /\ C \in [Node -> [Pos -> Plane \cup {Junk}]]
  /\ U \subseteq Node \X Plane

\* "ceph_assert(num_erasures == m)" and the scalar code's capacity: when the
\* planes are decoded exactly m nodes are erased, none of them a zero chunk.
ExactlyMErased ==
  pc \in {"decode", "recover", "returned"} =>
     Cardinality(erased) = M /\ erased \subseteq Real

\* decode_erasures(z) never feeds the MDS code a stale or unrecovered
\* sub-chunk: every cell of a processed plane holds this object's data,
\* although U_buf is never cleared between calls.
UncoupledPlanesRight ==
  pc # "idle" => \A z \in uncoupled, n \in Node : Ugood(n, z)

\* The order of planes is a valid schedule: once the loop has left an
\* iscore, every sub-chunk of its planes is in its place in every chunk.
FinishedLayersRight ==
  pc \in {"decode", "recover", "returned"} =>
    \A z \in Plane : Score(erased, z) < iscore => \A n \in Node : Cgood(n, z)

\* The promise of encode and decode: at return every chunk, given or
\* rebuilt, holds plane order[i] as its i-th sub-chunk.
AllChunksRight ==
  pc = "returned" => \A n \in Node, i \in Pos : C[n][i] = Order[i]

\* A sub-chunk that holds the right data is never overwritten by something
\* else during a call: parity chunks that are given and only pad the
\* erasures, and U cells computed twice, keep their content.
NothingDamagedStep ==
  pc # "idle" /\ pc # "returned" =>
    /\ \A n \in Node, z \in Plane : Cgood(n, z) => Cgood(n, z)'
    /\ U \subseteq U'
NothingDamaged == [][NothingDamagedStep]_vars

\* encode makes, of data chunks as they were handed in, a codeword that
\* decode restores: the plugin implements ErasureCodec, where a chunk of a
\* codeword is one in storage order.
phaseMap  == IF pc \in {"idle", "returned"} THEN pc ELSE "busy"
wantedMap == IF pc = "idle" THEN {} ELSE Real
chunkMap  == [n \in Real |-> C[n]]
Codec == INSTANCE ErasureCodec WITH
  Chunks <- Real, Decodable <- {S \in SUBSET Real : Cardinality(S) >= K},
  Content <- [Pos -> Plane \cup {Junk}],
  Input <- Raw, Codeword <- Stored,
  phase <- phaseMap, wanted <- wantedMap, chunk <- chunkMap
CodecSpec == Codec!Spec

\* "All codes are systematic (i.e. the data is not mangled and can be
\* reconstructed by concatenating chunks)": at return the data chunks hold
\* what encode was given.
DataVerbatim == Codec!Verbatim

---------------------------------------------------------------------------
(* The inductive invariant behind the properties above.                    *)

\* Before the reorder loop, the buffers are as encode_chunks was given them.
InputUntouched == pc = "reorder" => erased = Parity /\ C = EncodeInput

\* Between calls of the plugin nothing is known; inside one, buffers that are
\* not erased are intact.
InCall  == pc \in {"pad", "decode", "recover", "returned"}
Running == pc \in {"decode", "recover", "returned"}

ErasedBounded == erased \subseteq Real /\ Cardinality(erased) <= M
SurvivorsRight == InCall => \A n \in Node \ erased, z \in Plane : Cgood(n, z)

\* Where the two loops are: the layers below iscore are complete, no plane of
\* a later layer has been touched.
ScheduleKept ==
  /\ pc \in {"idle", "reorder", "pad"} => uncoupled = {} /\ recovered = {} /\ iscore = 0
  /\ Running => /\ \A z \in Plane : Score(erased, z) < iscore
                                     => z \in uncoupled /\ z \in recovered
                /\ \A z \in uncoupled \cup recovered : Score(erased, z) <= iscore
  /\ pc = "recover" => Layer \subseteq uncoupled
  /\ pc = "returned" => iscore > get_max_iscore(erased)

\* A pair of survivors is transformed by its member with z[y] < x, whose
\* plane comes later; both U cells are then right.
PairsTransformed ==
  \A z \in uncoupled, n \in Node \ erased :
     z[n[2]] < n[1] => Ugood(node_sw(n, z), z_sw(n, z))

\* What RecoverPlane(z) has stored.
StoredRight ==
  \A z \in recovered, n \in erased :
     /\ StoresOwn(n, z) => Cgood(n, z)
     /\ Coupled(n, z) => Cgood(node_sw(n, z), z_sw(n, z))

\* The outer loop stays within get_max_iscore.
IscoreInRange == pc \in {"decode", "recover"} => iscore <= get_max_iscore(erased)

IInv ==
  /\ TypeOK
  /\ IscoreInRange
  /\ InputUntouched
  /\ ErasedBounded
  /\ ExactlyMErased
  /\ SurvivorsRight
  /\ ScheduleKept
  /\ UncoupledPlanesRight
  /\ PairsTransformed
  /\ StoredRight
===========================================================================
