--------------------------- MODULE MyClayRepair ---------------------------
(***************************************************************************)
(* The repair of one lost chunk from parts of d helpers: is_repair,        *)
(* minimum_to_repair, get_repair_subchunks, repair and                     *)
(* repair_one_lost_chunk of ErasureCodeMyClay.  minimum_to_decode answers  *)
(* which runs of sub-chunks to read, the OSDs read exactly those, and      *)
(* decode is given the concatenated runs.                                  *)
(*                                                                         *)
(* As in MyClay, a sub-chunk is named by the plane it belongs to, and U is *)
(* the set of cells of U_buf that hold this object's uncoupled sub-chunks. *)
(***************************************************************************)
EXTENDS ClayGeometry, Sequences, SequencesExt

VARIABLES
  pc,       \* "idle", "minimum", "read", "repair" or "returned"
  lost,     \* the chunk to repair
  minimum,  \* minimum_to_decode's answer: runs by helper
  helper,   \* the buffer received from each helper: a sequence of planes
  repair_plane_to_ind, \* where in those buffers the sub-chunk of a plane is
  order_i,  \* repair_one_lost_chunk's loop variable
  repaired, \* planes that loop has worked on
  U,
  R         \* the recovered chunk, sub-chunk by sub-chunk

vars == <<pc, lost, minimum, helper, repair_plane_to_ind, order_i, repaired, U, R>>

NoNode == <<-1, -1>>
Empty  == [n \in {} |-> <<>>]

\* The index of a real chunk, and is_repair's (node < k) ? node : node-nu.
ChunkId(n) == IF NodeId(n) < K THEN NodeId(n) ELSE NodeId(n) - Nu

\* is_repair: one chunk wanted, its whole column and d chunks available.
is_repair(i, available) ==
  /\ i \notin available
  /\ \A x \in X : LET node == ChunkId(<<x, i[2]>>)
                  IN  node # ChunkId(i) => \E a \in available : ChunkId(a) = node
  /\ Cardinality(available) >= D

\* minimum_to_repair: the real nodes of the lost node's column, then the
\* lowest available chunks until there are d.
ColumnMates(i) == {n \in Real : n[2] = i[2] /\ n # i}
Helpers(i, available) ==
  LET rest == available \ ColumnMates(i)
  IN  ColumnMates(i) \cup
        {n \in rest : Cardinality({p \in rest : NodeId(p) < NodeId(n)})
                        < D - Cardinality(ColumnMates(i))}

---------------------------------------------------------------------------
(* get_repair_subchunks: the runs <<index, count>> of sub-chunk positions  *)
(* to read when chunk i is lost.                                           *)

\* Evenly spaced runs, right when sub-chunk z is stored at position z.
PlainRuns(i) ==
  LET seq_sc_count == Q ^ (T - 1 - i[2])
  IN  [s \in 1 .. Q ^ i[2] |->
         <<i[1] * seq_sc_count + (s - 1) * Q * seq_sc_count, seq_sc_count>>]

\* Mutant of OrderedRuns: runs end one sub-chunk early.
OrderedRunsShort(i) ==
  LET to_read == {get_plane_vector(p) : p \in UNION {r[1] .. r[1] + r[2] - 1 :
                                                       r \in Range(PlainRuns(i))}}
      start == {p \in Pos : /\ Order[p] \in to_read
                            /\ p = 0 \/ Order[p - 1] \notin to_read}
      end(p) == CHOOSE j \in p + 1 .. SubChunkNo :
                  /\ \A l \in p .. j - 1 : Order[l] \in to_read
                  /\ j = SubChunkNo \/ Order[j] \notin to_read
      nth(r) == CHOOSE p \in start : Cardinality({s \in start : s < p}) = r - 1
  IN  [r \in 1 .. Cardinality(start) |-> LET p == nth(r) IN <<p, end(p) - p - 1>>]

\* "myclay": the maximal runs of positions whose plane is among the plain
\* runs' planes, found by walking over order.
OrderedRuns(i) ==
  LET to_read == {get_plane_vector(p) : p \in UNION {r[1] .. r[1] + r[2] - 1 :
                                                       r \in Range(PlainRuns(i))}}
      start == {p \in Pos : /\ Order[p] \in to_read
                            /\ p = 0 \/ Order[p - 1] \notin to_read}
      end(p) == CHOOSE j \in p + 1 .. SubChunkNo :
                  /\ \A l \in p .. j - 1 : Order[l] \in to_read
                  /\ j = SubChunkNo \/ Order[j] \notin to_read
      nth(r) == CHOOSE p \in start : Cardinality({s \in start : s < p}) = r - 1
  IN  [r \in 1 .. Cardinality(start) |-> LET p == nth(r) IN <<p, end(p) - p>>]

get_repair_subchunks(i) == IF MyMode = "myclay" THEN OrderedRuns(i) ELSE PlainRuns(i)

\* The positions of a list of runs, in the order they are read.
Positions(runs) ==
  FlattenSeq([r \in DOMAIN runs |-> [j \in 1 .. runs[r][2] |-> runs[r][1] + j - 1]])

---------------------------------------------------------------------------
Init ==
  /\ pc = "idle" /\ lost = NoNode
  /\ minimum = Empty /\ helper = Empty /\ repair_plane_to_ind = Empty
  /\ order_i = 0 /\ repaired = {}
  /\ U = {} /\ R = [i \in Pos |-> Junk]

\* minimum_to_decode for one missing chunk that can be repaired.
minimum_to_decode(i, available) ==
  /\ pc \in {"idle", "returned"}
  /\ is_repair(i, available)
  /\ pc' = "minimum"
  /\ lost' = i
  /\ LET runs == get_repair_subchunks(i)
     IN  minimum' = [n \in Helpers(i, available) |-> runs]
  /\ helper' = Empty /\ repair_plane_to_ind' = Empty /\ order_i' = 0 /\ repaired' = {}
  /\ U' = {} /\ R' = [p \in Pos |-> Junk]

\* The reads: a helper stores plane order[p] as sub-chunk p and returns the
\* runs it was asked for, one after the other.
ReadHelpers ==
  /\ pc = "minimum"
  /\ pc' = "read"
  /\ helper' = [n \in DOMAIN minimum |->
                  LET pos == Positions(minimum[n]) IN [j \in DOMAIN pos |-> Order[pos[j]]]]
  /\ UNCHANGED <<lost, minimum, repair_plane_to_ind, order_i, repaired, U, R>>

\* repair(): the helpers (with the zero chunks), and the aloof nodes, which
\* are neither lost nor helping.
HelperData  == DOMAIN helper \cup Virtual
aloof_nodes == Real \ (DOMAIN helper \cup {lost})
erasures    == {n \in Node : n[2] = lost[2]} \cup aloof_nodes

\* Mutant: the planes are numbered in ascending order.
repairAscending ==
  /\ pc = "read"
  /\ pc' = "repair"
  /\ LET planes == {Order[p] : p \in Range(Positions(get_repair_subchunks(lost)))}
     IN  repair_plane_to_ind' = [z \in planes |->
                                   1 + Cardinality({w \in planes : Before(w, z)})]
  /\ order_i' = 1
  /\ UNCHANGED <<lost, minimum, helper, repaired, U, R>>

\* repair() sets the buffers up; repair_one_lost_chunk numbers the planes in
\* the order their sub-chunks follow each other in a helper's buffer, and
\* enters its loop with order_i = 1.
repair ==
  /\ pc = "read"
  /\ pc' = "repair"
  /\ LET pos == Positions(get_repair_subchunks(lost))
     IN  repair_plane_to_ind' = [z \in {Order[p] : p \in Range(pos)} |->
                                   CHOOSE j \in DOMAIN pos : Order[pos[j]] = z]
  /\ order_i' = 1
  /\ UNCHANGED <<lost, minimum, helper, repaired, U, R>>

\* ordered_planes: the planes read, by the number of lost and aloof nodes
\* that are dots of them.
PlaneOrder(z) == Cardinality({n \in aloof_nodes \cup {lost} : Dot(n, z)})
ordered_planes(o) == {z \in DOMAIN repair_plane_to_ind : PlaneOrder(z) = o}

\* Is the sub-chunk the code takes from helper n at repair_plane_to_ind[z]
\* the coupled sub-chunk of (n, z)?  The zero chunks always have it.
HelperGood(n, z) ==
  \/ n \in Virtual
  \/ /\ n \in DOMAIN helper
     /\ z \in DOMAIN repair_plane_to_ind
     /\ helper[n][repair_plane_to_ind[z]] = z

\* The uncoupled sub-chunk of a helper on plane z: from the pair of coupled
\* ones, from the aloof pair's uncoupled one, or the coupled one itself.
UncoupleReady(n, z) ==
  /\ HelperGood(n, z)
  /\ CASE node_sw(n, z) \in aloof_nodes -> <<node_sw(n, z), z_sw(n, z)>> \in U
       [] OTHER -> Dot(n, z) \/ HelperGood(node_sw(n, z), z_sw(n, z))

\* The sub-chunks of the lost chunk plane z yields: its own at z, and by
\* each column mate i the one at z_sw.
\* Mutant: every node is taken for a column mate.
YieldsAll(z) ==
  {z} \cup {z_sw(n, z) : n \in {v \in Node \ aloof_nodes : ~Dot(v, z)}}
Yields(z) ==
  {z} \cup {z_sw(n, z) : n \in {v \in erasures \ aloof_nodes : ~Dot(v, z)}}

RepairPlane(z) ==
  LET survivors == Node \ erasures
      decoded == /\ Cardinality(erasures) <= M
                 /\ \A n \in survivors : UncoupleReady(n, z)
      good(w) == decoded /\ (w = z \/ HelperGood(<<w[lost[2]], lost[2]>>, z))
  IN
  /\ pc = "repair"
  /\ z \in ordered_planes(order_i) \ repaired
  /\ \A w \in ordered_planes(order_i) \ repaired : ~Before(w, z)
  /\ U' = (U \ {<<n, z>> : n \in Node})
            \cup {<<n, z>> : n \in {v \in survivors : UncoupleReady(v, z)}}
            \cup (IF decoded THEN {<<n, z>> : n \in erasures} ELSE {})
  /\ R' = [p \in Pos |->
             IF \E w \in Yields(z) : order_ind[w] = p
             THEN LET w == CHOOSE v \in Yields(z) : order_ind[v] = p
                  IN  IF good(w) THEN w ELSE Junk
             ELSE R[p]]
  /\ repaired' = repaired \cup {z}
  /\ UNCHANGED <<pc, lost, minimum, helper, repair_plane_to_ind, order_i>>

\* The next order_i; the loop ends at the first order without planes.
NextOrder ==
  /\ pc = "repair"
  /\ ordered_planes(order_i) \subseteq repaired
  /\ IF ordered_planes(order_i) = {}
     THEN pc' = "returned" /\ UNCHANGED order_i
     ELSE order_i' = order_i + 1 /\ UNCHANGED pc
  /\ UNCHANGED <<lost, minimum, helper, repair_plane_to_ind, repaired, U, R>>

Request == \E i \in Real : \E available \in SUBSET (Real \ {i}) : minimum_to_decode(i, available)

Step ==
  \/ ReadHelpers
  \/ repair
  \/ \E z \in Plane : RepairPlane(z)
  \/ NextOrder

Next == Request \/ Step

Spec == Init /\ [][Next]_vars /\ WF_vars(Step)

---------------------------------------------------------------------------
\* The assertions of minimum_to_repair, repair and repair_one_lost_chunk: d
\* helpers whatever the availability, from each the sub-chunks of the repair
\* planes, once and no other, at most m erased nodes, every node is helper,
\* aloof or lost, every plane read has an order.
AssertionsHold ==
  pc # "idle" =>
    /\ Cardinality(DOMAIN minimum) = D
    /\ \A n \in DOMAIN helper :
         /\ Range(helper[n]) = {z \in Plane : Dot(lost, z)}
         /\ IsInjective(helper[n])
    /\ pc \in {"repair", "returned"} =>
         /\ Cardinality(erasures) <= M
         /\ Cardinality(HelperData) + Cardinality(aloof_nodes) + 1 = Q * T
         /\ Cardinality(DOMAIN repair_plane_to_ind) = SubChunkNo \div Q
         /\ \A z \in DOMAIN repair_plane_to_ind : PlaneOrder(z) > 0

\* decode's promise: the chunk that was missing is reconstructed.
LostChunkRight == pc = "returned" => \A p \in Pos : R[p] = Order[p]

\* A sub-chunk of the lost chunk, once right, is not overwritten: the planes
\* of a repair fill disjoint parts of it.
RecoveredOnceStep ==
  pc = "repair" => \A p \in Pos : R[p] # Junk => R'[p] = R[p]
RecoveredOnce == [][RecoveredOnceStep]_vars

\* Repair implements the decode of ErasureCodec for the one chunk that is
\* wanted: the helpers hold theirs in storage order, and so is the chunk in
\* the end that encode had lost; what the other chunks hold is unknown here.
Stored    == [i \in Pos |-> Order[i]]
Garbage   == [i \in Pos |-> Junk]
phaseMap  == IF pc \in {"idle", "returned"} THEN pc ELSE "busy"
wantedMap == IF pc = "idle" THEN {} ELSE {lost}
chunkMap  == [n \in Real |-> IF n \in DOMAIN minimum THEN Stored
                             ELSE IF n = lost THEN R ELSE Garbage]
Codec == INSTANCE ErasureCodec WITH
  Chunks <- Real, Decodable <- {S \in SUBSET Real : Cardinality(S) >= K},
  Content <- [Pos -> Plane \cup {Junk}],
  Input <- [i \in Pos |-> get_plane_vector(i)], Codeword <- Stored,
  phase <- phaseMap, wanted <- wantedMap, chunk <- chunkMap
CodecSpec == Codec!Spec
===========================================================================
