--------------------------- MODULE MyClayProofs ---------------------------
(***************************************************************************)
(* Theorems about encode, decode and the layered schedule of MyClay, for   *)
(* every profile that parse lets through, every order of the planes and    *)
(* every set of at most m erasures.  The inductive invariant is IInv: the  *)
(* survivors are right, layers below iscore are finished, and U_buf is     *)
(* right where decode_erasures has been.  The combinatorial part is how    *)
(* the order of a plane differs from that of its pair.                     *)
(***************************************************************************)
EXTENDS MyClay, FiniteSetTheorems, TLAPS

(* q is a positive integer and t a natural number, so coordinates are      *)
(* integers.                                                               *)
LEMMA QTypes == Q \in Nat \ {0} /\ Nu \in Nat /\ T \in Nat /\ X \subseteq Int /\ Y \subseteq Int
<1>1. Q \in Nat \ {0}
  BY ProfileAssumption DEF Q
<1>2. (K + M) % Q \in 0 .. Q - 1
  BY <1>1, ProfileAssumption
<1>3. Nu \in Nat
  BY <1>1, <1>2 DEF Nu
<1>4. T \in Nat
  BY <1>1, <1>3, ProfileAssumption DEF T
<1> QED
  BY <1>1, <1>3, <1>4 DEF X, Y

(* The pair of a cell is a cell (node_sw, z_sw of                          *)
(* get_uncoupled_from_coupled).                                            *)
LEMMA PairTypes ==
  ASSUME NEW n \in Node, NEW z \in Plane
  PROVE  /\ n[1] \in X /\ n[2] \in Y /\ z[n[2]] \in X
         /\ node_sw(n, z) \in Node /\ z_sw(n, z) \in Plane
         /\ n = <<n[1], n[2]>>
  BY DEF Node, Plane, node_sw, z_sw

(* A node is its two coordinates. *)
LEMMA NodeEquality ==
  ASSUME NEW n \in Node, NEW v \in Node, n # v
  PROVE  n[1] # v[1] \/ n[2] # v[2]
  BY DEF Node

(* Pairing twice is the identity. *)
LEMMA PairInvolution ==
  ASSUME NEW n \in Node, NEW z \in Plane
  PROVE  /\ node_sw(node_sw(n, z), z_sw(n, z)) = n
         /\ z_sw(node_sw(n, z), z_sw(n, z)) = z
         /\ z_sw(n, z)[n[2]] = n[1]
         /\ node_sw(n, z)[1] = z[n[2]] /\ node_sw(n, z)[2] = n[2]
<1>1. /\ z_sw(n, z)[n[2]] = n[1]
      /\ node_sw(n, z)[1] = z[n[2]] /\ node_sw(n, z)[2] = n[2]
  BY PairTypes DEF node_sw, z_sw, Plane
<1>2. node_sw(node_sw(n, z), z_sw(n, z)) = n
  BY <1>1, PairTypes DEF node_sw
<1>3. z_sw(node_sw(n, z), z_sw(n, z)) = z
  BY <1>1, PairTypes DEF z_sw, Plane
<1> QED
  BY <1>1, <1>2, <1>3

(* order_ind is the inverse of order, as init fills it. *)
LEMMA OrderInd ==
  ASSUME NEW z \in Plane
  PROVE  order_ind[z] \in Pos /\ Order[order_ind[z]] = z
  BY OrderAssumption DEF order_ind

(* Each position holds one plane, whose order_ind it is. *)
LEMMA OrderIndUnique ==
  ASSUME NEW i \in Pos
  PROVE  /\ Order[i] \in Plane /\ order_ind[Order[i]] = i
         /\ \A w \in Plane : order_ind[w] = i => w = Order[i]
<1>1. Order[i] \in Plane
  BY OrderAssumption
<1>2. order_ind[Order[i]] \in Pos /\ Order[order_ind[Order[i]]] = Order[i]
  BY <1>1, OrderInd
<1>3. order_ind[Order[i]] = i
  BY <1>2, OrderAssumption
<1> QED
  BY <1>1, <1>3, OrderInd

(* The nodes are finitely many. *)
LEMMA NodeFinite == IsFiniteSet(Node)
<1>1. IsFiniteSet(X) /\ IsFiniteSet(Y)
  BY QTypes, FS_Interval DEF X, Y
<1> QED
  BY <1>1, FS_Product DEF Node

---------------------------------------------------------------------------
(* Facts about scores: what order[z] says about the pair of a sub-chunk.   *)

(* The order of a plane is a natural number. *)
LEMMA ScoreType ==
  ASSUME NEW E \in SUBSET Node, NEW z \in Plane
  PROVE  /\ IsFiniteSet(E) /\ IsFiniteSet(ErasedDots(E, z))
         /\ Cardinality(E) \in Nat /\ Score(E, z) \in Nat
<1>1. IsFiniteSet(E)
  BY NodeFinite, FS_Subset
<1>2. IsFiniteSet(ErasedDots(E, z))
  BY <1>1, FS_Subset DEF ErasedDots
<1> QED
  BY <1>1, <1>2, FS_CardinalityType DEF Score

(* A survivor whose pair is erased: the pair's plane is one layer lower,   *)
(* hence already recovered when decode_erasures reads it.                  *)
LEMMA ErasedPairScore ==
  ASSUME NEW E \in SUBSET Node, NEW n \in Node, NEW z \in Plane,
         n \notin E, node_sw(n, z) \in E
  PROVE  Score(E, z_sw(n, z)) = Score(E, z) - 1
<1> DEFINE p == node_sw(n, z)  w == z_sw(n, z)
<1>1. p \in ErasedDots(E, z)
  <2>1. p[1] = z[n[2]] /\ p[2] = n[2]
    BY PairInvolution
  <2>2. Dot(p, z)
    BY <2>1 DEF Dot
  <2> QED
    BY <2>2 DEF ErasedDots
<1>2. ErasedDots(E, w) = ErasedDots(E, z) \ {p}
  <2>1. ASSUME NEW v \in E PROVE Dot(v, w) <=> Dot(v, z) /\ v # p
    <3>0. v \in Node /\ v # n
      BY <2>1
    <3>1. CASE v[2] = n[2]
      <4>1. ~Dot(v, w)
        <5>1. w[v[2]] = n[1]
          BY <3>1, PairInvolution
        <5>2. v[1] # n[1]
          BY <3>0, <3>1, NodeEquality
        <5> QED
          BY <5>1, <5>2 DEF Dot
      <4>2. Dot(v, z) => v = p
        BY <3>0, <3>1, PairTypes, PairInvolution DEF Dot, node_sw
      <4> QED
        BY <4>1, <4>2
    <3>2. CASE v[2] # n[2]
      <4>1. w[v[2]] = z[v[2]]
        BY <3>0, <3>2, PairTypes DEF z_sw, Plane
      <4>2. v # p
        BY <3>2, PairInvolution
      <4> QED
        BY <4>1, <4>2 DEF Dot
    <3> QED
      BY <3>1, <3>2
  <2> QED
    BY <2>1 DEF ErasedDots
<1>3. w \in Plane
  BY PairTypes
<1>4. IsFiniteSet(ErasedDots(E, z))
  BY ScoreType
<1>5. Cardinality(ErasedDots(E, z) \ {p}) = Cardinality(ErasedDots(E, z)) - 1
  BY <1>1, <1>4, FS_RemoveElement
<1> QED
  BY <1>2, <1>5 DEF Score

(* Two survivors, or two erased nodes, that form a pair lie in planes of   *)
(* the same layer.                                                         *)
LEMMA SurvivingPairScore ==
  ASSUME NEW E \in SUBSET Node, NEW n \in Node, NEW z \in Plane,
         n \notin E, node_sw(n, z) \notin E
  PROVE  Score(E, z_sw(n, z)) = Score(E, z)
<1> DEFINE p == node_sw(n, z)  w == z_sw(n, z)
<1>1. ASSUME NEW v \in E PROVE Dot(v, w) <=> Dot(v, z)
  <2>0. v \in Node /\ v # n /\ v # p
    BY <1>1
  <2>1. CASE v[2] = n[2]
    <3>1. ~Dot(v, w)
      <4>1. w[v[2]] = n[1]
        BY <2>1, PairInvolution
      <4>2. v[1] # n[1]
        BY <2>0, <2>1, NodeEquality
      <4> QED
        BY <4>1, <4>2 DEF Dot
    <3>2. ~Dot(v, z)
      BY <2>0, <2>1, PairTypes, PairInvolution DEF Dot, node_sw
    <3> QED
      BY <3>1, <3>2
  <2>2. CASE v[2] # n[2]
    BY <2>0, <2>2, PairTypes DEF Dot, z_sw, Plane
  <2> QED
    BY <2>1, <2>2
<1>2. ErasedDots(E, w) = ErasedDots(E, z)
  BY <1>1 DEF ErasedDots
<1> QED
  BY <1>2 DEF Score

(* When both cells of a pair are erased, their planes have the same order. *)
LEMMA ErasedBothScore ==
  ASSUME NEW E \in SUBSET Node, NEW n \in E, NEW z \in Plane,
         node_sw(n, z) \in E
  PROVE  Score(E, z_sw(n, z)) = Score(E, z)
<1> DEFINE F == E \ {n}
           p == node_sw(n, z)  w == z_sw(n, z)
<1>0. n \in Node /\ p \in Node /\ w \in Plane
  BY PairTypes
<1>1. CASE Dot(n, z)
  <2>1. w = z
    BY <1>0, <1>1 DEF Dot, z_sw, Plane
  <2> QED
    BY <2>1
<1>2. CASE ~Dot(n, z)
  <2>1. p # n
    BY <1>0, <1>2, PairInvolution DEF Dot
  <2>2. Score(F, w) = Score(F, z) - 1
    BY <1>0, <2>1, ErasedPairScore
  <2>3. ErasedDots(E, z) = ErasedDots(F, z)
    BY <1>2 DEF ErasedDots
  <2>4. Dot(n, w)
    BY <1>0, PairInvolution DEF Dot
  <2>5. ErasedDots(E, w) = ErasedDots(F, w) \cup {n} /\ n \notin ErasedDots(F, w)
    BY <2>4 DEF ErasedDots
  <2>6. Cardinality(ErasedDots(E, w)) = Cardinality(ErasedDots(F, w)) + 1
    BY <1>0, <2>5, ScoreType, FS_AddElement
  <2>7. Score(F, z) \in Nat /\ Score(F, w) \in Nat
    BY <1>0, ScoreType
  <2> QED
    BY <2>2, <2>3, <2>6, <2>7 DEF Score
<1> QED
  BY <1>1, <1>2

(* get_max_iscore bounds every plane's score: the outer loop of            *)
(* decode_layered leaves no plane out.                                     *)
LEMMA MaxIscoreBounds ==
  ASSUME NEW E \in SUBSET Node, NEW z \in Plane
  PROVE  Score(E, z) <= get_max_iscore(E) /\ get_max_iscore(E) \in Nat
<1> DEFINE S == ErasedDots(E, z)
           R == {n[2] : n \in E}
           f == [n \in S |-> n[2]]
<1>1. IsFiniteSet(R)
  <2>1. R \subseteq Y
    BY PairTypes
  <2>2. IsFiniteSet(Y)
    BY QTypes, FS_Interval DEF Y
  <2> QED
    BY <2>1, <2>2, FS_Subset
<1>2. f \in Injection(S, R)
  <2>1. f \in [S -> R]
    BY DEF ErasedDots
  <2>2. ASSUME NEW a \in S, NEW b \in S, f[a] = f[b] PROVE a = b
    <3>1. a \in Node /\ b \in Node /\ Dot(a, z) /\ Dot(b, z) /\ a[2] = b[2]
      BY <2>2 DEF ErasedDots
    <3> QED
      BY <3>1, PairTypes DEF Dot
  <2> QED
    BY <2>1, <2>2 DEF Injection, IsInjective
<1>3. Cardinality(S) <= Cardinality(R)
  BY <1>1, <1>2, FS_Injection
<1> QED
  BY <1>1, <1>3, FS_CardinalityType DEF Score, get_max_iscore

---------------------------------------------------------------------------
(* The nodes that can be erased.                                           *)

(* Real and zero nodes make up the nodes, and k+m nodes are real. *)
LEMMA RealNodes ==
  /\ Data \subseteq Node /\ Parity \subseteq Node /\ Real \subseteq Node
  /\ Data \cap Parity = {} /\ Virtual \cap Real = {}
  /\ Node = Real \cup Virtual
  /\ IsFiniteSet(Real) /\ Cardinality(Real) = K + M
<1>1. ASSUME NEW n \in Node PROVE NodeId(n) \in Int
  <2>0. n[1] \in X /\ n[2] \in Y
    BY <1>1 DEF Node
  <2>1. Q \in Int
    BY QTypes
  <2>2. n[1] \in Int /\ n[2] \in Int
    BY <2>0, QTypes
  <2>3. n[2] * Q \in Int
    BY <2>1, <2>2
  <2> QED
    BY <2>2, <2>3 DEF NodeId
<1>2. /\ Data \subseteq Node /\ Parity \subseteq Node /\ Real \subseteq Node
      /\ Data \cap Parity = {} /\ Virtual \cap Real = {}
      /\ Node = Real \cup Virtual
  BY <1>1, QTypes, ProfileAssumption DEF Data, Parity, Real, Virtual
<1>3. IsFiniteSet(Data) /\ IsFiniteSet(Parity)
  BY <1>2, NodeFinite, FS_Subset
<1>4. /\ IsFiniteSet(Data \cup Parity)
      /\ Cardinality(Data \cup Parity) =
           Cardinality(Data) + Cardinality(Parity) - Cardinality(Data \cap Parity)
  BY <1>3, FS_Union
<1>5. Cardinality(Data \cap Parity) = 0
  BY <1>2, FS_EmptySet
<1> QED
  BY <1>2, <1>4, <1>5, NodeCountAssumption, ProfileAssumption DEF Real

(* At most m chunks are missing when at least k are given.                 *)
LEMMA MissingBounded ==
  ASSUME NEW have \in SUBSET Real, Cardinality(have) >= K
  PROVE  Cardinality(Real \ have) <= M
<1>1. IsFiniteSet(have) /\ Cardinality(have) \in Nat
  BY RealNodes, FS_Subset, FS_CardinalityType
<1>2. Cardinality(Real \ have) = Cardinality(Real) - Cardinality(Real \cap have)
  BY RealNodes, FS_Difference
<1>3. Real \cap have = have
  OBVIOUS
<1> QED
  BY <1>1, <1>2, <1>3, RealNodes, ProfileAssumption

(* max_iscore is at most the number of columns. *)
LEMMA MaxIscoreType ==
  ASSUME NEW E \in SUBSET Node
  PROVE  get_max_iscore(E) \in 0 .. T
<1> DEFINE R == {n[2] : n \in E}
<1>1. R \subseteq Y
  BY PairTypes DEF Node
<1>2. IsFiniteSet(Y) /\ Cardinality(Y) = T
  BY QTypes, FS_Interval DEF Y
<1>3. IsFiniteSet(R) /\ Cardinality(R) <= T
  BY <1>1, <1>2, FS_Subset
<1> QED
  BY <1>3, FS_CardinalityType, QTypes DEF get_max_iscore

---------------------------------------------------------------------------
(* The buffers a call starts from.                                         *)

(* A chunk stored plane order[i] at sub-chunk i has every cell right.      *)
LEMMA StoredCells ==
  ASSUME NEW z \in Plane
  PROVE  Stored[order_ind[z]] = z
  BY OrderInd DEF Stored

(* The reorder loop of encode_chunks puts a raw chunk into storage order. *)
LEMMA ReorderedIsStored == Reordered(Raw) = Stored
<1> SUFFICES ASSUME NEW i \in Pos
             PROVE  Raw[CHOOSE z \in Pos : get_plane_vector(z) = Order[i]] = Order[i]
  BY DEF Reordered, Stored
<1>1. \E z \in Pos : get_plane_vector(z) = Order[i]
  BY IndexAssumption, OrderAssumption
<1> QED
  BY <1>1 DEF Raw

(* In mode clay a raw chunk is in storage order already. *)
LEMMA RawIsStored == MyMode = "clay" => Raw = Stored
  BY OrderAssumption DEF Raw, Stored

(* The digit vector of a position is a plane. *)
LEMMA RawType == Raw \in [Pos -> Plane \cup {Junk}]
<1>1. ASSUME NEW i \in Pos PROVE get_plane_vector(i) \in Plane
  <2>1. i \in Int
    BY DEF Pos
  <2>2. ASSUME NEW y \in Y PROVE (i \div Q ^ (T - 1 - y)) % Q \in X
    <3>1. Q ^ (T - 1 - y) \in Nat \ {0}
      BY PowerAssumption
    <3>2. i \div Q ^ (T - 1 - y) \in Int
      BY <2>1, <3>1
    <3> QED
      BY <3>2, QTypes DEF X
  <2> QED
    BY <2>2 DEF get_plane_vector, Plane
<1> QED
  BY <1>1 DEF Raw

(* The buffers a call begins with are of the type of C. *)
LEMMA BufferTypes ==
  /\ Stored \in [Pos -> Plane \cup {Junk}] /\ Garbage \in [Pos -> Plane \cup {Junk}]
  /\ EncodeInput \in [Node -> [Pos -> Plane \cup {Junk}]]
<1>1. Stored \in [Pos -> Plane \cup {Junk}] /\ Garbage \in [Pos -> Plane \cup {Junk}]
  BY OrderAssumption DEF Stored, Garbage
<1> QED
  BY <1>1, RawType DEF EncodeInput

(* A call whose buffers are intact but for those of the erased nodes, or   *)
(* that has first to permute them, begins with IInv.                       *)
LEMMA BeginIInv ==
  ASSUME NEW E \in SUBSET Real, Cardinality(E) <= M, NEW chunks,
         chunks \in [Node -> [Pos -> Plane \cup {Junk}]],
         NEW start \in {"reorder", "pad"},
         start = "pad" => \A n \in Node \ E : chunks[n] = Stored,
         start = "reorder" => E = Parity /\ chunks = EncodeInput,
         Begin(start, E, chunks)
  PROVE  IInv'
<1> USE DEF Begin
<1>1. TypeOK'
  BY RealNodes, QTypes DEF TypeOK
<1>2. ErasedBounded'
  BY DEF ErasedBounded
<1>3. SurvivorsRight'
  BY StoredCells DEF SurvivorsRight, InCall, Cgood
<1>4. ScheduleKept' /\ IscoreInRange' /\ InputUntouched'
  BY DEF ScheduleKept, Running, IscoreInRange, InputUntouched
<1>5. ExactlyMErased' /\ UncoupledPlanesRight' /\ PairsTransformed' /\ StoredRight'
  BY DEF ExactlyMErased, UncoupledPlanesRight, PairsTransformed, StoredRight
<1> QED
  BY <1>1, <1>2, <1>3, <1>4, <1>5 DEF IInv

(* encode_chunks and decode_chunks establish IInv. *)
LEMMA CallIInv == Call => IInv'
<1>1. ASSUME encode_chunks PROVE IInv'
  <2> DEFINE start == IF MyMode = "myclay" THEN "reorder" ELSE "pad"
  <2>1. start \in {"reorder", "pad"} /\ (start = "pad" => MyMode = "clay")
    BY ProfileAssumption
  <2>2. MyMode = "clay" => \A n \in Node \ Parity : EncodeInput[n] = Stored
    BY RealNodes, RawIsStored DEF Real, EncodeInput
  <2>3. Parity \in SUBSET Real /\ Cardinality(Parity) <= M
    BY NodeCountAssumption, ProfileAssumption DEF Real
  <2>4. Begin(start, Parity, EncodeInput)
    BY <1>1 DEF encode_chunks
  <2> HIDE DEF start
  <2> QED
    BY <2>1, <2>2, <2>3, <2>4, BufferTypes, BeginIInv
<1>2. ASSUME NEW have \in SUBSET Real, Cardinality(have) >= K, decode_chunks(have)
      PROVE  IInv'
  <2> DEFINE chunks == [n \in Node |-> IF n \in have \cup Virtual THEN Stored ELSE Garbage]
  <2>1. \A n \in Node \ (Real \ have) : chunks[n] = Stored
    BY RealNodes
  <2>2. chunks \in [Node -> [Pos -> Plane \cup {Junk}]]
    BY BufferTypes
  <2>3. Cardinality(Real \ have) <= M
    BY <1>2, MissingBounded
  <2>4. Begin("pad", Real \ have, chunks)
    BY <1>2 DEF decode_chunks
  <2> HIDE DEF chunks
  <2> QED
    BY <2>1, <2>2, <2>3, <2>4, BeginIInv
<1> QED
  BY <1>1, <1>2 DEF Call

---------------------------------------------------------------------------
(* The reorder loop and the bookkeeping steps of decode_layered.           *)

(* After the reorder loop every node that is not erased is intact. *)
LEMMA ReorderC ==
  ASSUME IInv, Reorder
  PROVE  /\ C' \in [Node -> [Pos -> Plane \cup {Junk}]]
         /\ \A n \in Node \ erased : C'[n] = Stored
         /\ \A n \in erased : C'[n] = C[n]
<1>1. erased = Parity /\ C = EncodeInput
  BY DEF IInv, InputUntouched, Reorder
<1>2. C' = [n \in Node |-> IF n \in Data THEN Reordered(C[n]) ELSE C[n]]
  BY DEF Reorder
<1>3. ASSUME NEW n \in Node \ Parity PROVE C'[n] = Stored
  <2>1. CASE n \in Data
    <3>1. C[n] = Raw
      BY <1>1, <2>1 DEF EncodeInput
    <3> QED
      BY <1>2, <2>1, <3>1, ReorderedIsStored
  <2>2. CASE n \in Virtual
    BY <1>1, <1>2, <2>2, RealNodes DEF EncodeInput, Real
  <2> QED
    BY <2>1, <2>2, RealNodes DEF Real
<1>4. ASSUME NEW n \in Parity PROVE C'[n] = C[n] /\ n \in Node
  BY <1>2, RealNodes
<1>5. \A n \in Node : C[n] \in [Pos -> Plane \cup {Junk}]
  BY DEF IInv, TypeOK
<1>6. \A n \in Node : C'[n] \in [Pos -> Plane \cup {Junk}]
  BY <1>3, <1>4, <1>5, BufferTypes
<1>7. C' = [n \in Node |-> C'[n]]
  BY <1>2
<1>8. C' \in [Node -> [Pos -> Plane \cup {Junk}]]
  BY <1>6, <1>7
<1> QED
  BY <1>1, <1>3, <1>4, <1>8

(* The reorder loop preserves IInv. *)
LEMMA ReorderIInv == IInv /\ Reorder => IInv'
<1> SUFFICES ASSUME IInv, Reorder PROVE IInv'
  OBVIOUS
<1>1. /\ pc = "reorder" /\ pc' = "pad"
      /\ UNCHANGED <<erased, iscore, uncoupled, recovered, U>>
  BY DEF Reorder
<1>2. uncoupled = {} /\ recovered = {} /\ iscore = 0
  BY <1>1 DEF IInv, ScheduleKept
<1>3. TypeOK' /\ ErasedBounded' /\ ExactlyMErased' /\ IscoreInRange' /\ InputUntouched'
  BY <1>1, ReorderC DEF IInv, TypeOK, ErasedBounded, ExactlyMErased, IscoreInRange, InputUntouched
<1>4. SurvivorsRight'
  BY <1>1, ReorderC, StoredCells DEF SurvivorsRight, Cgood
<1>5. ScheduleKept'
  BY <1>1, <1>2 DEF ScheduleKept, Running
<1>6. UncoupledPlanesRight' /\ PairsTransformed' /\ StoredRight'
  BY <1>1, <1>2 DEF UncoupledPlanesRight, PairsTransformed, StoredRight
<1> QED
  BY <1>3, <1>4, <1>5, <1>6 DEF IInv

(* Padding the erasures preserves IInv. *)
LEMMA PadErasuresIInv == IInv /\ PadErasures => IInv'
<1> SUFFICES ASSUME IInv, PadErasures PROVE IInv'
  OBVIOUS
<1>1. PICK n \in Parity \ erased : erased' = erased \cup {n}
  BY DEF PadErasures
<1>2. /\ pc = "pad" /\ pc' = "pad" /\ Cardinality(erased) < M
      /\ UNCHANGED <<iscore, uncoupled, recovered, C, U>>
  BY DEF PadErasures
<1>3. IsFiniteSet(erased) /\ Cardinality(erased) \in Nat
  BY RealNodes, FS_Subset, FS_CardinalityType DEF IInv, ErasedBounded
<1>4. Cardinality(erased') = Cardinality(erased) + 1
  BY <1>1, <1>3, FS_AddElement
<1>5. ErasedBounded'
  BY <1>1, <1>2, <1>3, <1>4, ProfileAssumption DEF IInv, ErasedBounded, Real
<1>6. TypeOK' /\ IscoreInRange' /\ InputUntouched'
  BY <1>1, <1>2, RealNodes DEF IInv, TypeOK, IscoreInRange, InputUntouched
<1>7. SurvivorsRight'
  BY <1>1, <1>2 DEF IInv, SurvivorsRight, InCall, Cgood
<1>8. ScheduleKept'
  BY <1>2 DEF IInv, ScheduleKept, Running
<1>9. ExactlyMErased' /\ UncoupledPlanesRight' /\ PairsTransformed' /\ StoredRight'
  BY <1>2 DEF IInv, ScheduleKept, ExactlyMErased, UncoupledPlanesRight, PairsTransformed, StoredRight
<1> QED
  BY <1>5, <1>6, <1>7, <1>8, <1>9 DEF IInv

(* Leaving the padding loop: exactly m nodes are erased.                   *)
LEMMA PadDoneIInv == IInv /\ PadDone => IInv'
<1> SUFFICES ASSUME IInv, PadDone PROVE IInv'
  OBVIOUS
<1>1. /\ pc = "pad" /\ pc' = "decode"
      /\ UNCHANGED <<erased, iscore, uncoupled, recovered, C, U>>
  BY DEF PadDone
<1>2. uncoupled = {} /\ recovered = {} /\ iscore = 0
  BY <1>1 DEF IInv, ScheduleKept
<1>3. IsFiniteSet(erased) /\ Cardinality(erased) \in Nat /\ Cardinality(erased) <= M
  BY RealNodes, FS_Subset, FS_CardinalityType DEF IInv, ErasedBounded
<1>4. Parity \subseteq erased => M <= Cardinality(erased)
  BY <1>3, FS_Subset, NodeCountAssumption
<1>5. Cardinality(erased) = M
  BY <1>3, <1>4, ProfileAssumption DEF PadDone
<1>6. ErasedBounded' /\ ExactlyMErased'
  BY <1>1, <1>5 DEF IInv, ErasedBounded, ExactlyMErased
<1>7. \A z \in Plane : Score(erased, z) \in Nat
  BY ScoreType, RealNodes DEF IInv, ErasedBounded
<1>8. ScheduleKept'
  BY <1>1, <1>2, <1>7 DEF ScheduleKept, Running
<1>9. SurvivorsRight' /\ TypeOK' /\ IscoreInRange' /\ InputUntouched'
  <2>1. get_max_iscore(erased) \in 0 .. T
    BY MaxIscoreType DEF IInv, TypeOK
  <2> QED
    BY <1>1, <1>2, <2>1 DEF IInv, SurvivorsRight, InCall, Cgood, TypeOK, IscoreInRange, InputUntouched
<1>10. UncoupledPlanesRight' /\ PairsTransformed' /\ StoredRight'
  BY <1>1, <1>2 DEF UncoupledPlanesRight, PairsTransformed, StoredRight
<1> QED
  BY <1>6, <1>8, <1>9, <1>10 DEF IInv

(* The change from uncoupling to recovery of an iscore preserves IInv. *)
LEMMA LayerUncoupledIInv == IInv /\ LayerUncoupled => IInv'
<1> SUFFICES ASSUME IInv, LayerUncoupled PROVE IInv'
  OBVIOUS
<1>1. /\ pc = "decode" /\ pc' = "recover" /\ Layer \subseteq uncoupled
      /\ UNCHANGED <<erased, iscore, uncoupled, recovered, C, U>>
  BY DEF LayerUncoupled
<1>2. TypeOK' /\ ErasedBounded' /\ ExactlyMErased' /\ SurvivorsRight'
  BY <1>1 DEF IInv, TypeOK, ErasedBounded, ExactlyMErased, SurvivorsRight, InCall, Cgood
<1>3. ScheduleKept' /\ IscoreInRange' /\ InputUntouched'
  BY <1>1 DEF IInv, ScheduleKept, Running, Layer, IscoreInRange, InputUntouched
<1>4. UncoupledPlanesRight' /\ PairsTransformed'
  BY <1>1 DEF IInv, UncoupledPlanesRight, PairsTransformed, Ugood
<1>5. StoredRight'
  BY <1>1 DEF IInv, StoredRight, Cgood, StoresOwn, Coupled, Type1
<1> QED
  BY <1>2, <1>3, <1>4, <1>5 DEF IInv

(* Going on with the next iscore preserves IInv. *)
LEMMA NextIscoreIInv == IInv /\ NextIscore => IInv'
<1> SUFFICES ASSUME IInv, NextIscore PROVE IInv'
  OBVIOUS
<1>1. /\ pc = "recover" /\ Layer \subseteq recovered /\ iscore' = iscore + 1
      /\ pc' = IF iscore + 1 <= get_max_iscore(erased) THEN "decode" ELSE "returned"
      /\ UNCHANGED <<erased, uncoupled, recovered, C, U>>
  BY DEF NextIscore
<1>2. erased \subseteq Node /\ iscore \in Int
  BY DEF IInv, TypeOK
<1>3. get_max_iscore(erased) \in 0 .. T /\ T \in Nat
  BY <1>2, MaxIscoreType, QTypes
<1>4. \A z \in Plane : Score(erased, z) \in Nat
  BY <1>2, ScoreType
<1>5. Layer \subseteq uncoupled
  BY <1>1 DEF IInv, ScheduleKept
<1>6. ScheduleKept'
  <2>1. \A z \in Plane : Score(erased, z) < iscore + 1 => z \in uncoupled /\ z \in recovered
    BY <1>1, <1>2, <1>4, <1>5 DEF IInv, ScheduleKept, Running, Layer
  <2>2. \A z \in uncoupled \cup recovered : Score(erased, z) <= iscore + 1
    BY <1>1, <1>2, <1>4 DEF IInv, ScheduleKept, Running, TypeOK
  <2> QED
    BY <1>1, <1>2, <1>3, <2>1, <2>2 DEF ScheduleKept, Running
<1>7. TypeOK'
  <2>1. iscore <= get_max_iscore(erased) => iscore + 1 \in 0 .. T + 1
    BY <1>2, <1>3 DEF IInv, TypeOK
  <2> QED
    BY <1>1, <2>1 DEF IInv, TypeOK, IscoreInRange, InputUntouched
<1>8. ErasedBounded' /\ ExactlyMErased' /\ SurvivorsRight'
  BY <1>1 DEF IInv, ErasedBounded, ExactlyMErased, SurvivorsRight, InCall, Cgood
<1>9. UncoupledPlanesRight' /\ PairsTransformed'
  BY <1>1 DEF IInv, UncoupledPlanesRight, PairsTransformed, Ugood
<1>10. StoredRight'
  BY <1>1 DEF IInv, StoredRight, Cgood, StoresOwn, Coupled, Type1
<1>11. IscoreInRange' /\ InputUntouched'
  BY <1>1, <1>2, <1>3 DEF IInv, IscoreInRange, InputUntouched
<1> QED
  BY <1>6, <1>7, <1>8, <1>9, <1>10, <1>11 DEF IInv

---------------------------------------------------------------------------
(* The layers below iscore are complete.                                   *)

(* The layers below iscore are complete in every node. *)
LEMMA FinishedLayers == IInv => FinishedLayersRight
<1> SUFFICES ASSUME IInv, Running,
                    NEW z \in Plane, Score(erased, z) < iscore, NEW n \in Node
             PROVE  Cgood(n, z)
  BY DEF FinishedLayersRight, Running
<1>0. erased \subseteq Node /\ z \in recovered
  BY DEF IInv, TypeOK, ScheduleKept
<1>1. CASE n \notin erased
  BY <1>1 DEF IInv, SurvivorsRight, InCall, Running
<1>2. CASE n \in erased /\ StoresOwn(n, z)
  BY <1>0, <1>2 DEF IInv, StoredRight
<1>3. CASE n \in erased /\ ~StoresOwn(n, z)
  <2> DEFINE p == node_sw(n, z)  w == z_sw(n, z)
  <2>1. p \in erased /\ z[n[2]] > n[1]
    <3>1. n[1] \in Int /\ z[n[2]] \in Int
      BY PairTypes, QTypes
    <3> QED
      BY <1>3, <3>1 DEF StoresOwn, Dot, Type1, Coupled
  <2>2. w \in Plane /\ Score(erased, w) < iscore
    BY <1>0, <1>3, <2>1, PairTypes, ErasedBothScore
  <2>3. w \in recovered
    BY <2>2 DEF IInv, ScheduleKept
  <2>4. node_sw(p, w) = n /\ z_sw(p, w) = z /\ w[p[2]] = n[1] /\ p[1] = z[n[2]]
    BY PairInvolution
  <2>5. Coupled(p, w)
    BY <1>3, <2>1, <2>4 DEF Coupled
  <2>6. Cgood(node_sw(p, w), z_sw(p, w))
    BY <2>1, <2>3, <2>5 DEF IInv, StoredRight
  <2> QED
    BY <2>4, <2>6
<1> QED
  BY <1>1, <1>2, <1>3

---------------------------------------------------------------------------
(* decode_erasures(z): every pair it transforms is right on both sides.    *)

(* What get_uncoupled_from_coupled reads for a cell is right. *)
LEMMA TransformReady ==
  ASSUME IInv, pc = "decode", NEW z \in Plane, Score(erased, z) = iscore,
         NEW n \in Node, Transforms(n, z)
  PROVE  PairReady(n, z)
<1> DEFINE p == node_sw(n, z)  w == z_sw(n, z)
<1>0. erased \subseteq Node /\ p \in Node /\ w \in Plane /\ iscore \in Int
  BY PairTypes DEF IInv, TypeOK
<1>1. Cgood(n, z)
  BY DEF IInv, SurvivorsRight, InCall, Transforms
<1>2. CASE p \notin erased
  BY <1>0, <1>1, <1>2 DEF IInv, SurvivorsRight, InCall, PairReady
<1>3. CASE p \in erased
  <2>1. Score(erased, w) = iscore - 1
    BY <1>0, <1>3, ErasedPairScore DEF Transforms
  <2>2. Score(erased, w) < iscore
    BY <1>0, <2>1
  <2>3. Cgood(p, w)
    BY <1>0, <2>2, FinishedLayers DEF FinishedLayersRight
  <2> QED
    BY <1>1, <2>3 DEF PairReady
<1> QED
  BY <1>2, <1>3

(* A survivor that plane z leaves to its pair was transformed earlier.     *)
LEMMA TransformedEarlier ==
  ASSUME IInv, pc = "decode", NEW z \in Plane, NextOf(z, uncoupled),
         NEW n \in Node, n \notin erased, ~Transforms(n, z), ~Dot(n, z)
  PROVE  Ugood(n, z)
<1> DEFINE p == node_sw(n, z)  w == z_sw(n, z)
<1>0. erased \subseteq Node /\ p \in Node /\ w \in Plane /\ Score(erased, z) = iscore
  BY PairTypes DEF IInv, TypeOK, NextOf, Layer
<1>1. z[n[2]] > n[1] /\ p \notin erased
  <2>1. n[1] \in Int /\ z[n[2]] \in Int
    BY PairTypes, QTypes
  <2> QED
    BY <2>1 DEF Transforms, Dot
<1>2. Before(w, z)
  <2>1. n[2] \in Y /\ w[n[2]] < z[n[2]]
    BY <1>1, PairTypes, PairInvolution, QTypes
  <2>2. \A y \in Y : y < n[2] => w[y] = z[y]
    BY PairTypes, QTypes DEF z_sw, Plane
  <2> QED
    BY <2>1, <2>2 DEF Before
<1>3. Score(erased, w) = iscore
  BY <1>0, <1>1, SurvivingPairScore
<1>4. w \in uncoupled
  BY <1>0, <1>2, <1>3 DEF NextOf, Layer
<1>5. node_sw(p, w) = n /\ z_sw(p, w) = z /\ w[p[2]] = n[1] /\ p[1] = z[n[2]]
  BY PairInvolution
<1>6. w[p[2]] < p[1]
  BY <1>1, <1>5, PairTypes, QTypes
<1>7. Ugood(node_sw(p, w), z_sw(p, w))
  BY <1>0, <1>1, <1>4, <1>6 DEF IInv, PairsTransformed
<1> QED
  BY <1>5, <1>7

(* decode_erasures leaves every cell of its plane in U_buf right. *)
LEMMA DecodeErasuresU ==
  ASSUME IInv, NEW z \in Plane, decode_erasures(z)
  PROVE  U' = U \cup Written(z) \cup {<<n, z>> : n \in Node}
<1>0. /\ pc = "decode" /\ NextOf(z, uncoupled) /\ erased \subseteq Node
      /\ Score(erased, z) = iscore
      /\ U' = decode_uncoupled((U \ Written(z)) \cup WrittenGood(z), z)
  BY DEF decode_erasures, IInv, TypeOK, NextOf, Layer
<1>1. ASSUME NEW n \in Node, Transforms(n, z) PROVE PairReady(n, z)
  BY <1>0, <1>1, TransformReady
<1>2. ASSUME NEW n \in Node \ erased, Dot(n, z) PROVE Cgood(n, z)
  BY <1>0 DEF IInv, SurvivorsRight, InCall
<1>3. WrittenGood(z) = Written(z)
  <2>1. {v \in Node \ erased : Transforms(v, z) \/ Dot(v, z)}
          = {v \in Node \ erased : (Transforms(v, z) /\ PairReady(v, z))
                                     \/ (Dot(v, z) /\ Cgood(v, z))}
    BY <1>1, <1>2
  <2>2. {v \in Node : Transforms(v, z)} = {v \in Node : Transforms(v, z) /\ PairReady(v, z)}
    BY <1>1
  <2> QED
    BY <2>1, <2>2 DEF Written, WrittenGood
<1> DEFINE V == U \cup Written(z)
<1>4. (U \ Written(z)) \cup WrittenGood(z) = V
  BY <1>3
<1>5. \A n \in Node \ erased : <<n, z>> \in V
  <2> SUFFICES ASSUME NEW n \in Node \ erased PROVE <<n, z>> \in V
    OBVIOUS
  <2>1. CASE Transforms(n, z) \/ Dot(n, z)
    BY <2>1 DEF Written
  <2>2. CASE ~Transforms(n, z) /\ ~Dot(n, z)
    BY <1>0, <2>2, TransformedEarlier DEF Ugood
  <2> QED
    BY <2>1, <2>2
<1>6. Cardinality(erased) <= M
  BY DEF IInv, ErasedBounded
<1>7. decode_uncoupled(V, z) = V \cup {<<n, z>> : n \in erased}
  BY <1>5, <1>6 DEF decode_uncoupled
<1>8. V \cup {<<n, z>> : n \in erased} = V \cup {<<n, z>> : n \in Node}
  BY <1>0, <1>5
<1> QED
  BY <1>0, <1>4, <1>7, <1>8

(* decode_erasures preserves IInv. *)
LEMMA DecodeErasuresIInv ==
  ASSUME IInv, NEW z \in Plane, decode_erasures(z)
  PROVE  IInv'
<1>1. /\ pc = "decode" /\ pc' = pc /\ NextOf(z, uncoupled)
      /\ uncoupled' = uncoupled \cup {z} /\ UNCHANGED <<erased, iscore, recovered, C>>
  BY DEF decode_erasures
<1>2. U' = U \cup Written(z) \cup {<<n, z>> : n \in Node}
  BY DecodeErasuresU
<1>3. U \subseteq U' /\ \A n \in Node : <<n, z>> \in U'
  BY <1>2
<1>4. Score(erased, z) = iscore
  BY <1>1 DEF NextOf, Layer
<1>5. TypeOK' /\ IscoreInRange' /\ InputUntouched'
  <2>1. Written(z) \subseteq Node \X Plane
    BY PairTypes DEF Written
  <2>2. U' \subseteq Node \X Plane
    BY <1>2, <2>1 DEF IInv, TypeOK
  <2> QED
    BY <1>1, <2>2 DEF IInv, TypeOK, IscoreInRange, InputUntouched
<1>6. ErasedBounded' /\ ExactlyMErased' /\ SurvivorsRight'
  BY <1>1 DEF IInv, ErasedBounded, ExactlyMErased, SurvivorsRight, InCall, Cgood
<1>7. ScheduleKept'
  BY <1>1, <1>4 DEF IInv, TypeOK, ScheduleKept, Running
<1>8. UncoupledPlanesRight'
  BY <1>1, <1>3 DEF IInv, UncoupledPlanesRight, Ugood
<1>9. PairsTransformed'
  <2> SUFFICES ASSUME NEW a \in uncoupled \cup {z}, NEW n \in Node \ erased,
                      a[n[2]] < n[1]
               PROVE  <<node_sw(n, a), z_sw(n, a)>> \in U'
    BY <1>1 DEF PairsTransformed, Ugood
  <2>1. CASE a \in uncoupled
    BY <1>3, <2>1 DEF IInv, PairsTransformed, Ugood
  <2>2. CASE a = z
    BY <1>2, <2>2 DEF Written, Transforms
  <2> QED
    BY <2>1, <2>2
<1>10. StoredRight'
  BY <1>1 DEF IInv, StoredRight, Cgood, StoresOwn, Coupled, Type1
<1> QED
  BY <1>5, <1>6, <1>7, <1>8, <1>9, <1>10 DEF IInv

---------------------------------------------------------------------------
(* The recovery of plane z stores only right sub-chunks.                   *)

(* What recovering a plane reads is right. *)
LEMMA RecoverAllReady ==
  ASSUME IInv, pc = "recover", NEW z \in Plane, Score(erased, z) = iscore,
         NEW n \in erased
  PROVE  RecoverReady(n, z)
<1>0. /\ erased \subseteq Node /\ n \in Node
      /\ node_sw(n, z) \in Node /\ z_sw(n, z) \in Plane
  BY PairTypes DEF IInv, TypeOK
<1>1. \A w \in Plane, v \in Node : Score(erased, w) = iscore => Ugood(v, w)
  BY DEF IInv, ScheduleKept, Layer, UncoupledPlanesRight
<1>2. Ugood(n, z)
  BY <1>0, <1>1
<1>3. Type1(n, z) => Cgood(node_sw(n, z), z_sw(n, z))
  BY <1>0 DEF IInv, SurvivorsRight, InCall, Type1
<1>4. Coupled(n, z) => Ugood(node_sw(n, z), z_sw(n, z))
  BY <1>0, <1>1, ErasedBothScore DEF Coupled
<1> QED
  BY <1>2, <1>3, <1>4 DEF RecoverReady

(* Recovering a plane stores right cells and damages none. *)
LEMMA RecoverPlaneC ==
  ASSUME IInv, NEW z \in Plane, RecoverPlane(z)
  PROVE  /\ C' \in [Node -> [Pos -> Plane \cup {Junk}]]
         /\ \A n \in Node, w \in Plane :
              /\ Cgood(n, w) => Cgood(n, w)'
              /\ <<n, w>> \in Stores(z) => Cgood(n, w)'
<1>0. /\ pc = "recover" /\ Score(erased, z) = iscore
      /\ C \in [Node -> [Pos -> Plane \cup {Junk}]]
      /\ C' = [n \in Node |-> [i \in Pos |->
             IF InCells(StoresGood(z), n, i)
             THEN CHOOSE w \in Plane : order_ind[w] = i
             ELSE IF InCells(Stores(z), n, i) THEN Junk ELSE C[n][i]]]
  BY DEF RecoverPlane, NextOf, Layer, IInv, TypeOK
<1>1. StoresGood(z) = Stores(z)
  BY <1>0, RecoverAllReady DEF Stores, StoresGood
<1>2. ASSUME NEW i \in Pos PROVE (CHOOSE w \in Plane : order_ind[w] = i) = Order[i]
  BY OrderIndUnique
<1>3. ASSUME NEW n \in Node, NEW i \in Pos
      PROVE  C'[n][i] = IF InCells(Stores(z), n, i) THEN Order[i] ELSE C[n][i]
  BY <1>0, <1>1, <1>2
<1>4. C' \in [Node -> [Pos -> Plane \cup {Junk}]]
  <2>1. ASSUME NEW n \in Node, NEW i \in Pos PROVE C'[n][i] \in Plane \cup {Junk}
    BY <1>0, <1>3, OrderIndUnique
  <2> QED
    BY <1>0, <2>1
<1>5. ASSUME NEW n \in Node, NEW w \in Plane, Cgood(n, w) \/ <<n, w>> \in Stores(z)
      PROVE  C'[n][order_ind[w]] = w
  <2>1. order_ind[w] \in Pos /\ Order[order_ind[w]] = w
    BY OrderInd
  <2>2. CASE InCells(Stores(z), n, order_ind[w])
    BY <1>3, <2>1, <2>2
  <2>3. CASE ~InCells(Stores(z), n, order_ind[w])
    <3>1. <<n, w>> \notin Stores(z)
      BY <2>3 DEF InCells
    <3> QED
      BY <1>3, <1>5, <2>1, <2>3, <3>1 DEF Cgood
  <2> QED
    BY <2>2, <2>3
<1> QED
  BY <1>4, <1>5 DEF Cgood

(* Recovering a plane preserves IInv. *)
LEMMA RecoverPlaneIInv ==
  ASSUME IInv, NEW z \in Plane, RecoverPlane(z)
  PROVE  IInv'
<1>1. /\ pc = "recover" /\ pc' = pc /\ Score(erased, z) = iscore
      /\ recovered' = recovered \cup {z} /\ UNCHANGED <<erased, iscore, uncoupled, U>>
  BY DEF RecoverPlane, NextOf, Layer
<1>2. /\ C' \in [Node -> [Pos -> Plane \cup {Junk}]]
      /\ \A n \in Node, w \in Plane :
           /\ Cgood(n, w) => Cgood(n, w)'
           /\ <<n, w>> \in Stores(z) => Cgood(n, w)'
  BY RecoverPlaneC
<1>3. TypeOK' /\ IscoreInRange' /\ InputUntouched'
  BY <1>1, <1>2 DEF IInv, TypeOK, IscoreInRange, InputUntouched
<1>4. ErasedBounded' /\ ExactlyMErased'
  BY <1>1 DEF IInv, ErasedBounded, ExactlyMErased
<1>5. SurvivorsRight'
  BY <1>1, <1>2 DEF IInv, SurvivorsRight, InCall
<1>6. ScheduleKept'
  BY <1>1 DEF IInv, TypeOK, ScheduleKept, Running, Layer
<1>7. UncoupledPlanesRight' /\ PairsTransformed'
  BY <1>1 DEF IInv, UncoupledPlanesRight, PairsTransformed, Ugood
<1>8. StoredRight'
  <2>0. erased \subseteq Node /\ recovered \subseteq Plane
    BY DEF IInv, TypeOK
  <2> SUFFICES ASSUME NEW a \in recovered \cup {z}, NEW n \in erased
               PROVE  /\ StoresOwn(n, a) => Cgood(n, a)'
                      /\ Coupled(n, a) => Cgood(node_sw(n, a), z_sw(n, a))'
    BY <1>1 DEF StoredRight, StoresOwn, Coupled, Type1
  <2>1. a \in Plane /\ n \in Node /\ node_sw(n, a) \in Node /\ z_sw(n, a) \in Plane
    BY <2>0, PairTypes
  <2>2. CASE a \in recovered
    BY <1>2, <2>1, <2>2 DEF IInv, StoredRight
  <2>3. CASE a = z
    <3>1. StoresOwn(n, z) => <<n, z>> \in Stores(z)
      BY DEF Stores
    <3>2. Coupled(n, z) => <<node_sw(n, z), z_sw(n, z)>> \in Stores(z)
      BY DEF Stores
    <3> QED
      BY <1>2, <2>1, <2>3, <3>1, <3>2
  <2> QED
    BY <2>2, <2>3
<1> QED
  BY <1>3, <1>4, <1>5, <1>6, <1>7, <1>8 DEF IInv

---------------------------------------------------------------------------
(* The theorems.                                                           *)

(* IInv holds before the first call. *)
LEMMA InitIInv == Init => IInv
<1> SUFFICES ASSUME Init PROVE IInv
  OBVIOUS
<1> USE DEF Init
<1>1. TypeOK
  BY QTypes DEF TypeOK
<1>2. ErasedBounded
  BY FS_EmptySet, ProfileAssumption DEF ErasedBounded
<1> QED
  BY <1>1, <1>2 DEF IInv, IscoreInRange, InputUntouched, ExactlyMErased, SurvivorsRight, InCall,
     ScheduleKept, Running, UncoupledPlanesRight, PairsTransformed, StoredRight

(* IInv is inductive. *)
LEMMA NextIInv == IInv /\ [Next]_vars => IInv'
<1> SUFFICES ASSUME IInv, [Next]_vars PROVE IInv'
  OBVIOUS
<1>1. CASE Call
  BY <1>1, CallIInv
<1>2. CASE PadErasures
  BY <1>2, PadErasuresIInv
<1>3. CASE PadDone
  BY <1>3, PadDoneIInv
<1>4. ASSUME NEW z \in Plane, decode_erasures(z) PROVE IInv'
  BY <1>4, DecodeErasuresIInv
<1>5. CASE LayerUncoupled
  BY <1>5, LayerUncoupledIInv
<1>6. ASSUME NEW z \in Plane, RecoverPlane(z) PROVE IInv'
  BY <1>6, RecoverPlaneIInv
<1>7. CASE NextIscore
  BY <1>7, NextIscoreIInv
<1>9. CASE Reorder
  BY <1>9, ReorderIInv
<1>8. CASE UNCHANGED vars
  BY <1>8 DEF vars, IInv, TypeOK, IscoreInRange, InputUntouched, ErasedBounded, ExactlyMErased,
     SurvivorsRight, InCall, Cgood, ScheduleKept, Running, Layer,
     UncoupledPlanesRight, Ugood, PairsTransformed, StoredRight, StoresOwn, Type1, Coupled
<1> QED
  BY <1>1, <1>2, <1>3, <1>4, <1>5, <1>6, <1>7, <1>8, <1>9 DEF Next, Step

(* The inductive invariant of encode_chunks, decode_chunks and             *)
(* decode_layered, for every profile, plane order and erasure pattern.     *)
THEOREM InductiveInvariant == Spec => []IInv
<1>1. Init => IInv
  BY InitIInv
<1>2. IInv /\ [Next]_vars => IInv'
  BY NextIInv
<1> QED
  BY <1>1, <1>2, PTL DEF Spec

(* Every state of the codec is well typed.                                 *)
THEOREM TypeCorrect == Spec => []TypeOK
<1>1. IInv => TypeOK
  BY DEF IInv
<1> QED
  BY <1>1, InductiveInvariant, PTL

(* decode_erasures never feeds the scalar code a sub-chunk of another      *)
(* object or one that is not recovered yet.                                *)
THEOREM PlanesUncoupledRight == Spec => []UncoupledPlanesRight
<1>1. IInv => UncoupledPlanesRight
  BY DEF IInv
<1> QED
  BY <1>1, InductiveInvariant, PTL

(* Once decode_layered leaves an iscore its planes are in place everywhere.*)
THEOREM LayersFinished == Spec => []FinishedLayersRight
<1>1. IInv => FinishedLayersRight
  BY FinishedLayers
<1> QED
  BY <1>1, InductiveInvariant, PTL

(* The assertion num_erasures == m of decode_layered cannot fail.          *)
THEOREM MErased == Spec => []ExactlyMErased
<1>1. IInv => ExactlyMErased
  BY DEF IInv
<1> QED
  BY <1>1, InductiveInvariant, PTL

(* encode and decode keep their promise: at return every chunk holds, at   *)
(* sub-chunk i, the coupled sub-chunk of plane order[i].                   *)
LEMMA ReturnedRight == IInv => AllChunksRight
<1> SUFFICES ASSUME IInv, pc = "returned", NEW n \in Node, NEW i \in Pos
             PROVE  C[n][i] = Order[i]
  BY DEF AllChunksRight
<1> DEFINE z == Order[i]
<1>1. z \in Plane /\ order_ind[z] = i
  BY OrderIndUnique
<1> HIDE DEF z
<1>a. erased \in SUBSET Node /\ iscore \in Int
  BY DEF IInv, TypeOK
<1>b. Score(erased, z) <= get_max_iscore(erased) /\ get_max_iscore(erased) \in Nat
  BY <1>a, <1>1, MaxIscoreBounds
<1>c. Score(erased, z) \in Nat
  BY <1>a, <1>1, ScoreType
<1>2. /\ Score(erased, z) <= get_max_iscore(erased) /\ Score(erased, z) \in Nat
      /\ get_max_iscore(erased) \in Nat /\ iscore \in Int
  BY <1>a, <1>b, <1>c
<1>3. iscore > get_max_iscore(erased)
  BY DEF IInv, ScheduleKept
<1>4. Score(erased, z) < iscore
  BY <1>2, <1>3
<1>5. Cgood(n, z)
  BY <1>1, <1>4, FinishedLayers DEF FinishedLayersRight
<1> QED
  BY <1>1, <1>5 DEF Cgood, z

(* AllChunksRight: encode and decode return with every sub-chunk of every  *)
(* chunk at its place.                                                     *)
THEOREM ChunksRight == Spec => []AllChunksRight
BY ReturnedRight, InductiveInvariant, PTL

(* A step inside a call leaves right cells right.                          *)
LEMMA DamageNothing == IInv /\ Next => NothingDamagedStep
<1> SUFFICES ASSUME IInv, Next, pc # "idle", pc # "returned"
             PROVE  /\ \A n \in Node, w \in Plane : Cgood(n, w) => Cgood(n, w)'
                    /\ U \subseteq U'
  BY DEF NothingDamagedStep
<1>1. ~Call
  BY DEF Call, encode_chunks, decode_chunks, Begin
<1>5. ASSUME Reorder
      PROVE  (\A n \in Node, w \in Plane : Cgood(n, w) => Cgood(n, w)') /\ U' = U
  BY <1>5, ReorderC, StoredCells DEF Cgood, Reorder
<1>2. CASE PadErasures \/ PadDone \/ LayerUncoupled \/ NextIscore
  BY <1>2 DEF PadErasures, PadDone, LayerUncoupled, NextIscore, Cgood
<1>3. ASSUME NEW z \in Plane, decode_erasures(z)
      PROVE  C' = C /\ U \subseteq U'
  BY <1>3, DecodeErasuresU DEF decode_erasures
<1>4. ASSUME NEW z \in Plane, RecoverPlane(z)
      PROVE  /\ \A n \in Node, w \in Plane : Cgood(n, w) => Cgood(n, w)'
             /\ U' = U
  BY <1>4, RecoverPlaneC DEF RecoverPlane
<1> QED
  BY <1>1, <1>2, <1>3, <1>4, <1>5 DEF Next, Step, Cgood

(* No step of a call damages a sub-chunk that is already right.            *)
THEOREM StepsDamageNothing == Spec => NothingDamaged
<1>1. IInv /\ [Next]_vars => [NothingDamagedStep]_vars
  BY DamageNothing
<1> QED
  BY <1>1, InductiveInvariant, PTL DEF Spec, NothingDamaged

---------------------------------------------------------------------------
(* decode_layered implements the interface's promise.                      *)

(* A chunk is intact when all its cells are right.                         *)
LEMMA IntactCells ==
  ASSUME NEW chunk \in [Pos -> Plane \cup {Junk}]
  PROVE  chunk = Stored <=> \A z \in Plane : chunk[order_ind[z]] = z
<1>1. chunk = Stored => \A z \in Plane : chunk[order_ind[z]] = z
  BY StoredCells
<1>2. ASSUME \A z \in Plane : chunk[order_ind[z]] = z
      PROVE  \A i \in Pos : chunk[i] = Order[i]
  BY <1>2, OrderIndUnique
<1>3. (\A i \in Pos : chunk[i] = Order[i]) => chunk = Stored
  BY DEF Stored
<1> QED
  BY <1>1, <1>2, <1>3

(* The initial state maps to an initial state of ErasureCodec. *)
LEMMA InitRefines == Init => Codec!Init
BY InitIInv, RealNodes DEF Init, IInv, TypeOK, Codec!Init, phaseMap, wantedMap, chunkMap

(* encode_chunks maps to Encode: the data chunks are as they were handed   *)
(* in.                                                                     *)
LEMMA EncodeRefines == IInv' /\ encode_chunks => Codec!Encode
<1> SUFFICES ASSUME IInv', encode_chunks PROVE Codec!Encode
  OBVIOUS
<1>1. pc \in {"idle", "returned"} /\ pc' \in {"reorder", "pad"} /\ C' = EncodeInput
  BY DEF encode_chunks, Begin
<1>2. phaseMap # "busy" /\ phaseMap' = "busy" /\ wantedMap' = Real
  BY <1>1 DEF phaseMap, wantedMap
<1>3. chunkMap' \in [Real -> [Pos -> Plane \cup {Junk}]]
  BY RealNodes DEF IInv, TypeOK, chunkMap
<1>4. ASSUME NEW n \in Data PROVE chunkMap'[n] = Raw
  BY <1>1, RealNodes DEF chunkMap, EncodeInput, Real
<1> QED
  BY <1>2, <1>3, <1>4 DEF Codec!Encode, Codec!Begin

(* decode_chunks maps to Decode: the chunks it is given determine the      *)
(* object.                                                                 *)
LEMMA DecodeRefines ==
  ASSUME IInv', NEW have \in SUBSET Real, Cardinality(have) >= K, decode_chunks(have)
  PROVE  Codec!Decode
<1>1. /\ pc \in {"idle", "returned"} /\ pc' = "pad"
      /\ \A n \in have : C'[n] = Stored
  BY RealNodes DEF decode_chunks, Begin
<1>2. phaseMap # "busy" /\ phaseMap' = "busy" /\ wantedMap' = Real
  BY <1>1 DEF phaseMap, wantedMap
<1>3. chunkMap' \in [Real -> [Pos -> Plane \cup {Junk}]]
  BY RealNodes DEF IInv, TypeOK, chunkMap
<1>4. have \subseteq Codec!Intact'
  BY <1>1, RealNodes DEF Codec!Intact, chunkMap
<1> QED
  BY <1>2, <1>3, <1>4 DEF Codec!Decode, Codec!Begin

(* A step inside a call keeps intact chunks intact, the reorder loop among *)
(* them, and the step that returns does so with every chunk intact.        *)
LEMMA StepRefines == IInv /\ IInv' /\ Step => Codec!Work \/ Codec!Return
<1> SUFFICES ASSUME IInv, IInv', Step PROVE Codec!Work \/ Codec!Return
  OBVIOUS
<1>1. /\ pc \in {"reorder", "pad", "decode", "recover"}
      /\ pc' \in {"pad", "decode", "recover", "returned"}
  BY DEF Step, Reorder, PadErasures, PadDone, decode_erasures, LayerUncoupled, RecoverPlane, NextIscore
<1>2. \A n \in Node, w \in Plane : Cgood(n, w) => Cgood(n, w)'
  BY <1>1, DamageNothing DEF Next, NothingDamagedStep
<1>3. /\ C \in [Node -> [Pos -> Plane \cup {Junk}]]
      /\ C' \in [Node -> [Pos -> Plane \cup {Junk}]]
  BY DEF IInv, TypeOK
<1>4. ASSUME NEW n \in Real, C[n] = Stored PROVE C'[n] = Stored
  <2>1. n \in Node
    BY RealNodes
  <2>2. \A z \in Plane : Cgood(n, z)
    BY <1>3, <1>4, <2>1, IntactCells DEF Cgood
  <2>3. \A z \in Plane : C'[n][order_ind[z]] = z
    BY <1>2, <2>1, <2>2 DEF Cgood
  <2> QED
    BY <1>3, <2>1, <2>3, IntactCells
<1>5. CASE pc' # "returned"
  <2>1. Codec!Intact \subseteq Codec!Intact'
    BY <1>4 DEF Codec!Intact, chunkMap
  <2>2. chunkMap' \in [Real -> [Pos -> Plane \cup {Junk}]]
    BY RealNodes DEF IInv, TypeOK, chunkMap
  <2>3. phaseMap = "busy" /\ phaseMap' = "busy" /\ wantedMap' = wantedMap
    BY <1>1, <1>5 DEF phaseMap, wantedMap
  <2> QED
    BY <2>1, <2>2, <2>3 DEF Codec!Work
<1>6. CASE pc' = "returned"
  <2>1. C' = C
    BY <1>1, <1>6 DEF Step, Reorder, PadErasures, PadDone, decode_erasures, LayerUncoupled, RecoverPlane, NextIscore
  <2>2. \A n \in Node, i \in Pos : C'[n][i] = Order[i]
    <3>1. AllChunksRight'
      BY ReturnedRight, PTL
    <3> QED
      BY <1>6, <3>1 DEF AllChunksRight
  <2>3. \A n \in Node : C[n] = Stored
    BY <1>3, <2>1, <2>2 DEF Stored
  <2>4. Codec!Intact = Real /\ chunkMap' = chunkMap
    BY <2>1, <2>3, RealNodes DEF Codec!Intact, chunkMap
  <2>5. phaseMap = "busy" /\ phaseMap' = "returned" /\ wantedMap = Real /\ wantedMap' = Real
    BY <1>1, <1>6 DEF phaseMap, wantedMap
  <2> QED
    BY <2>4, <2>5 DEF Codec!Return
<1> QED
  BY <1>5, <1>6

(* The codec implements ErasureCodec's safety part: encode makes a         *)
(* codeword of the data chunks as they were handed in, decode restores it, *)
(* and no chunk of it is damaged on the way.                               *)
THEOREM CodecRefines == Spec => Codec!Safety
<1>1. Init => Codec!Init
  BY InitRefines
<1>2. IInv /\ IInv' /\ [Next]_vars => [Codec!Next]_<<phaseMap, wantedMap, chunkMap>>
  <2> SUFFICES ASSUME IInv, IInv', [Next]_vars
               PROVE  Codec!Next \/ UNCHANGED <<phaseMap, wantedMap, chunkMap>>
    OBVIOUS
  <2>1. CASE Call
    BY <2>1, EncodeRefines, DecodeRefines DEF Call, Codec!Next
  <2>2. CASE Step
    BY <2>2, StepRefines DEF Codec!Next
  <2>3. CASE UNCHANGED vars
    BY <2>3 DEF vars, phaseMap, wantedMap, chunkMap
  <2> QED
    BY <2>1, <2>2, <2>3 DEF Next
<1> QED
  BY <1>1, <1>2, InductiveInvariant, PTL DEF Spec, Codec!Safety

(* In mode clay the codec is systematic, as the interface says of all      *)
(* codes: the data chunks that encode returns, or decode restores, are the *)
(* input verbatim.  In mode myclay they are not (ReorderedIsStored).       *)
THEOREM ClayIsSystematic == ASSUME MyMode = "clay" PROVE Spec => []DataVerbatim
<1>1. IInv => DataVerbatim
  <2> SUFFICES ASSUME IInv, pc = "returned", NEW n \in Data PROVE C[n] = Raw
    BY RealNodes DEF DataVerbatim, Codec!Verbatim, phaseMap, wantedMap, chunkMap, Real
  <2>1. n \in Node /\ C[n] \in [Pos -> Plane \cup {Junk}]
    BY RealNodes DEF IInv, TypeOK
  <2>2. \A i \in Pos : C[n][i] = Order[i]
    BY <2>1, ReturnedRight DEF AllChunksRight
  <2>3. C[n] = Stored
    BY <2>1, <2>2 DEF Stored
  <2> QED
    BY <2>3, RawIsStored
<1> QED
  BY <1>1, InductiveInvariant, PTL
===========================================================================
