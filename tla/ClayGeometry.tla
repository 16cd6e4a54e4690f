--------------------------- MODULE ClayGeometry ---------------------------
(***************************************************************************)
(* The product-matrix geometry of the (coupled-layer) Clay code of         *)
(* ErasureCodeMyClay.  A node is the pair <<x, y>> that the code computes  *)
(* as (node % q, node / q); a plane (a sub-chunk index z) is its digit     *)
(* vector z_vec, most significant digit z_vec[0] first.  The code's        *)
(*    node_sw = y*q + z_vec[y]                                             *)
(*    z_sw    = z + (x - z_vec[y]) * pow_int(q, t-1-y)                     *)
(* then become: node_sw is <<z[y], y>>, and z_sw is z with digit y set to  *)
(* x.  ClayLayout checks that the two presentations agree.                 *)
(***************************************************************************)
EXTENDS Integers, FiniteSets

CONSTANTS
  K,        \* data chunks                     (profile "k")
  M,        \* coding chunks                   (profile "m")
  D,        \* helpers of a single-node repair (profile "d")
  MyMode,   \* profile "mymode": "clay" or "myclay"
  Order,    \* Order[i] is the plane stored as the i-th sub-chunk of a chunk
  Junk      \* the content of a sub-chunk that is none of this object's

ASSUME ProfileAssumption ==
  /\ K \in Nat \ {0} /\ M \in Nat \ {0} /\ D \in Nat
  /\ K <= D /\ D <= K + M - 1
  /\ MyMode \in {"clay", "myclay"}

\* parse(): q = d - k + 1; nu pads k + m to a multiple of q; t = (k+m+nu)/q.
Q  == D - K + 1
Nu == IF (K + M) % Q # 0 THEN Q - ((K + M) % Q) ELSE 0
T  == (K + M + Nu) \div Q

X == 0 .. Q - 1
Y == 0 .. T - 1

Node  == X \X Y
Plane == [Y -> X]

\* Sub-chunks are named by their planes, and Junk is none of them.
ASSUME JunkAssumption == Junk \notin Plane

\* sub_chunk_no = pow_int(q, t), and the sub-chunk positions inside a chunk.
SubChunkNo == Q ^ T
Pos == 0 .. SubChunkNo - 1

\* The integer of a node, and the three kinds of nodes.  Nodes K..K+Nu-1 are
\* the all-zero chunks that shorten the code: they exist in memory only.
NodeId(n) == n[2] * Q + n[1]
Data      == {n \in Node : NodeId(n) < K}
Virtual   == {n \in Node : NodeId(n) >= K /\ NodeId(n) < K + Nu}
Parity    == {n \in Node : NodeId(n) >= K + Nu}
Real      == Data \cup Parity

\* get_plane_vector(z): the base-q digits of an integer sub-chunk index.
get_plane_vector(z) == [y \in Y |-> (z \div Q ^ (T - 1 - y)) % Q]

\* Consequences of q*t = k+m+nu that the proofs cite and TLC evaluates.
ASSUME NodeCountAssumption == Cardinality(Data) = K /\ Cardinality(Parity) = M

\* Laws of exponents for pow_int: sub_chunk_no, the runs of a column, and
\* how many there are.
ASSUME PowerAssumption ==
  \A y \in Y : /\ Q ^ y \in Nat \ {0} /\ Q ^ (T - 1 - y) \in Nat \ {0}
              /\ SubChunkNo = Q ^ y * (Q * Q ^ (T - 1 - y))

\* Every plane is the digit vector of a sub-chunk index.
ASSUME IndexAssumption == \A z \in Plane : \E i \in Pos : get_plane_vector(i) = z

ASSUME OrderAssumption ==
  /\ Order \in [Pos -> Plane]
  /\ \A z \in Plane : \E i \in Pos : Order[i] = z
  /\ \A i, j \in Pos : Order[i] = Order[j] => i = j
  /\ MyMode = "clay" => \A i \in Pos : Order[i] = get_plane_vector(i)

\* Mutant: positions taken for planes, as without a reorganisation.
order_indPlain == [z \in Plane |-> CHOOSE i \in Pos : get_plane_vector(i) = z]

\* order_ind, filled by init(): order_ind[order[i]] = i.
order_ind == [z \in Plane |-> CHOOSE i \in Pos : Order[i] = z]

(***************************************************************************)
(* The pairing of sub-chunks.  (n, z) is a dot of plane z when x = z[y]:   *)
(* then it is coupled with itself; otherwise with (node_sw, z_sw).         *)
(***************************************************************************)
Dot(n, z)     == z[n[2]] = n[1]
node_sw(n, z) == <<z[n[2]], n[2]>>
z_sw(n, z)    == [z EXCEPT ![n[2]] = n[1]]

\* "for (int z = 0; z < sub_chunk_no; z++)" visits planes lexicographically.
Before(a, b) == \E y \in Y : /\ a[y] < b[y]
                             /\ \A w \in Y : w < y => a[w] = b[w]

(***************************************************************************)
(* set_planes_sequential_decoding_order: order[z] is the number of erased  *)
(* nodes that are dots of plane z.  get_max_iscore: the number of columns  *)
(* y with at least one erased node.                                        *)
(***************************************************************************)
ErasedDots(E, z) == {n \in E : Dot(n, z)}
Score(E, z)      == Cardinality(ErasedDots(E, z))
\* Mutant: the loop ends one iscore early.
get_max_iscoreShort(E) == Cardinality({n[2] : n \in E}) - 1
get_max_iscore(E) == Cardinality({n[2] : n \in E})
===========================================================================
