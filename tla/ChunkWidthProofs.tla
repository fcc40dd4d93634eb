-------------------------- MODULE ChunkWidthProofs --------------------------
(* TLAPS proofs about ChunkWidth, for every width of the replica number    *)
(* (2^31 among them), every capacity and any number of edits.              *)
EXTENDS ChunkWidth, TLAPS

(* The steps of Reconcile: the broker knows of nodes only once the set     *)
(* exists, which does not shrink before; a reconcile past changeNodeNumber *)
(* works on a chunk number whose nodes all have their pods, and only       *)
(* towards that number.                                                    *)
StepInv ==
    /\ pc # "idle" => instance \in ChunkNumbers
    /\ pc \in {"ready", "stable", "scaleDown", "done"} => exists
    /\ pc \in {"stable", "scaleDown", "done"} => nodes # 0
    /\ ~exists => nodes = 0 /\ replicas = 0
    /\ nodes = 0 => target = 0 /\ pods <= replicas
    /\ pc \in {"scaleDown", "done"} =>
          /\ nodeNumber(instance) <= replicas * halfChunkNodeNumber
          /\ target \in {0, nodeNumber(instance)}

WidthInv == TypeOK /\ StepInv /\ WrapStrandsNoSlots /\ DoneIsExact

-----------------------------------------------------------------------------
(* The remainder is the only number below the divisor that is congruent. *)
LEMMA ModUnique ==
    ASSUME NEW d \in Nat \ {0}, NEW q \in Int, NEW r \in 0 .. d - 1
    PROVE  (d * q + r) % d = r
OBVIOUS

(* What division with remainder means. *)
LEMMA DivMod ==
    ASSUME NEW m \in Int, NEW d \in Nat \ {0}
    PROVE  /\ m \div d \in Int
           /\ m % d \in 0 .. d - 1
           /\ m = d * (m \div d) + (m % d)
OBVIOUS

(* The result of the conversion is an int32 ... *)
LEMMA Int32Range ==
    ASSUME NEW n \in Int
    PROVE  Int32(n) \in -Half .. Half - 1
BY WidthAssumption DEF Int32

(* ... it keeps an int32 ... *)
LEMMA Int32Fits ==
    ASSUME NEW n \in -Half .. Half - 1
    PROVE  Int32(n) = n
BY WidthAssumption DEF Int32

(* ... and it forgets multiples of 2^32. *)
LEMMA Int32Wraps ==
    ASSUME NEW n \in Int, NEW k \in Int
    PROVE  Int32(n + k * (2 * Half)) = Int32(n)
<1> DEFINE d == 2 * Half
           q == (n + Half) \div d
           r == (n + Half) % d
<1>1. d \in Nat \ {0}
  BY WidthAssumption
<1>2. q \in Int /\ r \in 0 .. d - 1 /\ n + Half = d * q + r
  <2>1. n + Half \in Int
    BY WidthAssumption
  <2> HIDE DEF d
  <2> QED
    BY <1>1, <2>1, DivMod
<1>3. (n + k * d) + Half = d * (q + k) + r
  <2>1. d * (q + k) = d * q + k * d
    BY <1>1, <1>2
  <2> QED
    BY <1>1, <1>2, <2>1, WidthAssumption
<1>4. ((n + k * d) + Half) % d = r
  <2> HIDE DEF d, q, r
  <2>1. q + k \in Int
    BY <1>2
  <2> QED
    BY <1>1, <1>2, <1>3, <2>1, ModUnique
<1> QED
  BY <1>4 DEF Int32

(* The guard of createStorage and the value it writes agree, although they *)
(* are computed by different expressions: doubling before or after the     *)
(* conversion makes no difference.                                         *)
LEMMA GuardIsValue ==
    ASSUME NEW c \in ChunkNumbers
    PROVE  neededReplicas(c) = replicaNum(c)
<1> USE WidthAssumption DEF ChunkNumbers, neededReplicas, replicaNum, halfChunkNodeNumber
<1>1. CASE c < Half
  <2>1. Int32(c) = c
    BY <1>1, Int32Fits
  <2> QED
    BY <2>1
<1>2. CASE c >= Half
  <2>1. Int32(c) = c - 2 * Half
    <3>1. Int32((c - 2 * Half) + 1 * (2 * Half)) = Int32(c - 2 * Half)
      <4>1. c - 2 * Half \in Int /\ 1 \in Int
        OBVIOUS
      <4> QED
        BY <4>1, Int32Wraps, Zenon
    <3>2. Int32(c - 2 * Half) = c - 2 * Half
      BY <1>2, Int32Fits
    <3>3. (c - 2 * Half) + 1 * (2 * Half) = c
      OBVIOUS
    <3> QED
      BY <3>1, <3>2, <3>3
  <2>2. Int32(c * 2 + (-2) * (2 * Half)) = Int32(c * 2)
    <3>1. c * 2 \in Int /\ -2 \in Int
      OBVIOUS
    <3> QED
      BY <3>1, Int32Wraps, Zenon
  <2>3. c * 2 + (-2) * (2 * Half) = (c - 2 * Half) * 2
    OBVIOUS
  <2> QED
    BY <2>1, <2>2, <2>3
<1> QED
  BY <1>1, <1>2

(* A chunk number whose nodes all have their pods does not wrap. *)
LEMMA CoveredIsExact ==
    ASSUME NEW c \in ChunkNumbers, TypeOK,
           nodeNumber(c) <= replicas * halfChunkNodeNumber
    PROVE  replicaNum(c) = c * halfChunkNodeNumber
<1>1. c * 2 \in -Half .. Half - 1
  BY WidthAssumption
  DEF TypeOK, ChunkNumbers, nodeNumber, chunkNodeNumber, halfChunkNodeNumber
<1> QED
  BY <1>1, Int32Fits DEF replicaNum, halfChunkNodeNumber

-----------------------------------------------------------------------------
(* The invariant holds before the StatefulSet exists. *)
LEMMA InitInv == Init => WidthInv
<1> SUFFICES ASSUME Init PROVE WidthInv
  OBVIOUS
<1> USE DEF Init
<1>1. TypeOK
  <2>1. exists \in BOOLEAN
    OBVIOUS
  <2>2. replicas \in 0 .. Half - 1 /\ pods \in 0 .. Capacity /\ edits \in 0 .. MaxEdits
    BY WidthAssumption, CapacityAssumption, EditsAssumption
  <2>3. nodes \in 0 .. chunkNodeNumber * Half /\ target \in 0 .. chunkNodeNumber * Half
    BY WidthAssumption DEF chunkNodeNumber
  <2> QED
    BY <2>1, <2>2, <2>3 DEF TypeOK
<1>2. StepInv /\ WrapStrandsNoSlots /\ DoneIsExact
  BY DEF StepInv, WrapStrandsNoSlots, DoneIsExact, halfChunkNodeNumber
<1> QED
  BY <1>1, <1>2 DEF WidthInv

(* Every step keeps the invariant: one case per action. *)
LEMMA WidthStep == WidthInv /\ [Next]_vars => WidthInv'
<1> SUFFICES ASSUME WidthInv, [Next]_vars PROVE WidthInv'
  OBVIOUS
<1> USE WidthAssumption, CapacityAssumption, EditsAssumption
    DEF WidthInv, TypeOK, StepInv, WrapStrandsNoSlots, DoneIsExact,
        nodeNumber, chunkNodeNumber, halfChunkNodeNumber
<1>a. 0 \notin ChunkNumbers /\ ChunkNumbers \subseteq Nat
  BY DEF ChunkNumbers
<1>b. ASSUME instance \in ChunkNumbers
      PROVE  replicaNum(instance) \in -Half .. Half - 1
  BY <1>a, <1>b, Int32Range DEF replicaNum
<1>1. ASSUME NEW c \in ChunkNumbers, UserEdit(c)
      PROVE  WidthInv'
  BY <1>1 DEF UserEdit
<1>2. CASE SyncPods
  BY <1>2 DEF SyncPods
<1>3. CASE MigrationCommit
  BY <1>3, <1>a DEF MigrationCommit
<1>4. CASE ReconcileStart
  BY <1>4 DEF ReconcileStart
<1>5. CASE Requeue
  BY <1>5 DEF Requeue
<1>6. CASE CreateStorage
  <2>1. instance \in ChunkNumbers /\ replicaNum(instance) \in 0 .. Half - 1
    BY <1>6, <1>b DEF CreateStorage, WriteReplicas
  <2>2. replicas' >= replicas
    <3>1. CASE ~exists
      BY <1>6, <2>1, <3>1 DEF CreateStorage, WriteReplicas
    <3>2. CASE neededReplicas(instance) > replicas
      BY <1>6, <2>1, <3>2, GuardIsValue DEF CreateStorage, WriteReplicas
    <3> QED
      BY <1>6, <3>1, <3>2 DEF CreateStorage, ScalesOut
  <2> QED
    BY <1>6, <2>1, <2>2 DEF CreateStorage, WriteReplicas, GoTo
<1>7. CASE KeepReplicas
  BY <1>7 DEF KeepReplicas, ScalesOut, GoTo
<1>c. ASSUME pc \in {"ready", "stable"}, pods <= replicas,
             nodeNumber(instance) <= AvailableNodes
      PROVE  /\ instance \in ChunkNumbers
             /\ instance * 4 \in 1 .. 4 * Half
             /\ instance * 4 <= replicas * 2
  BY <1>a, <1>c DEF AvailableNodes
<1>8. CASE CreateCluster
  BY <1>8, <1>c DEF CreateCluster, GoTo
<1>9. CASE ScaleNodes
  BY <1>9, <1>c DEF ScaleNodes, AllReadyAndStable, GoTo
<1>10. CASE ScaleDown
  <2>1. replicaNum(instance) = instance * 2
    BY <1>10, CoveredIsExact DEF ScaleDown
  <2> QED
    BY <1>10, <1>a, <1>b, <2>1 DEF ScaleDown, WriteReplicas, GoTo
<1>11. CASE ClusterExists
  BY <1>11 DEF ClusterExists, GoTo
<1>12. CASE UNCHANGED vars
  BY <1>12 DEF vars
<1> QED
  BY <1>1, <1>2, <1>3, <1>4, <1>5, <1>6, <1>7, <1>8, <1>9, <1>10, <1>11, <1>12
  DEF Next, CreateStorageRefused, ReconcileMetaRefused, ScaleNodesRefused, ScaleDownWait, Finish

(* So the invariant holds in every reachable state. *)
LEMMA WidthInvariant == Spec => []WidthInv
BY InitInv, WidthStep, PTL DEF Spec

-----------------------------------------------------------------------------
(* The types of the variables: whatever the user writes in ChunkNumber,    *)
(* Spec.Replicas holds an int32 that is not negative.                      *)
THEOREM TypeCorrect == Spec => []TypeOK
<1>1. WidthInv => TypeOK
  BY DEF WidthInv
<1> QED
  BY WidthInvariant, <1>1, PTL

(* No wrapped replica number ever removes the pods of nodes with slots, in *)
(* createStorage or in scaleDownStorageStatefulSet.                        *)
THEOREM WrapIsHarmless == Spec => []WrapStrandsNoSlots
<1>1. WidthInv => WrapStrandsNoSlots
  BY DEF WidthInv
<1> QED
  BY WidthInvariant, <1>1, PTL

(* A reconcile that ends without a requeue has reached the exact numbers.  *)
THEOREM DoneExactly == Spec => []DoneIsExact
<1>1. WidthInv => DoneIsExact
  BY DEF WidthInv
<1> QED
  BY WidthInvariant, <1>1, PTL
=============================================================================
