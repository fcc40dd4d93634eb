----------------------- MODULE BrokerFailoverProofs -----------------------
(***************************************************************************)
(* Proofs about BrokerFailover, for every value of its constants.  What    *)
(* does not depend on the broker's metadata survives every failover; what  *)
(* does depend on it holds until the first one.                            *)
(***************************************************************************)
EXTENDS BrokerFailover, StorageScalingProofs

(* The replica's metadata has the types of the master's, so that a         *)
(* promotion puts a well-typed state in the master's place.                *)
ReplicaTypeOK ==
    /\ replica \in [registered : SUBSET Pods, nodeChunks : 0 .. MaxChunk,
                    slotChunks : 0 .. MaxChunk, target : 0 .. MaxChunk]
    /\ failedOver \in BOOLEAN

(* The whole of ScalingInv, as long as no replica has taken over.          *)
FirstMasterInv == ~failedOver => ScalingInv

(* The inductive invariant of the composition.                             *)
FailoverInv ==
    /\ TypeOK
    /\ ReplicaTypeOK
    /\ CopiesInv
    /\ FirstMasterInv
    /\ StrandedExplained

(* The metadata of a well-typed master is well typed.                      *)
LEMMA MetadataTyped ==
    ASSUME TypeOK
    PROVE  metadata \in [registered : SUBSET Pods, nodeChunks : 0 .. MaxChunk,
                         slotChunks : 0 .. MaxChunk, target : 0 .. MaxChunk]
BY DEF TypeOK, metadata

(* A failover changes the broker's metadata, and perhaps ends the running  *)
(* Reconcile; the StatefulSet stays as it is.                              *)
LEMMA FailoverStep ==
    ASSUME TypeOK, ReplicaTypeOK, CopiesInv, Failover
    PROVE  TypeOK' /\ CopiesInv' /\ failedOver' /\ ss' = ss
<1> USE DEF crVars, ssVars, locals
<1>1. /\ registered' \subseteq Pods
      /\ nodeChunks' \in 0 .. MaxChunk
      /\ slotChunks' \in 0 .. MaxChunk
      /\ target' \in 0 .. MaxChunk
  BY DEF Failover, Promote, ReplicaTypeOK
<1>2. /\ edits' \in 0 .. MaxEdits
      /\ faults' \in 0 .. MaxFaults
  BY MaxFaultsAssumption DEF Failover, Fault, TypeOK
<1>3. /\ pc' \in Steps
      /\ instance' \in 0 .. MaxChunk
      /\ instanceCurrent' \in BOOLEAN
      /\ held' \in StatefulSets
      /\ heldCurrent' \in BOOLEAN
      /\ proxies' \subseteq Pods
      /\ allReady' \in BOOLEAN
      /\ info' \in [withSlots : 0 .. MaxChunk, migrating : BOOLEAN]
      /\ freeFound' \in BOOLEAN
  <2>1. CASE pc \in MasterInUse
    BY <2>1, ReturnTyped DEF Failover
  <2>2. CASE pc \notin MasterInUse
    BY <2>2 DEF Failover, TypeOK
  <2> QED
    BY <2>1, <2>2
<1>4. /\ chunkNumber' = chunkNumber /\ crCache' = crCache
      /\ crSynced' = crSynced /\ queue' \in BOOLEAN
      /\ ss' = ss /\ ssCache' = ssCache /\ ssSynced' = ssSynced
      /\ pod' = pod
  BY DEF Failover
<1>5. TypeOK'
  BY <1>1, <1>2, <1>3, <1>4 DEF TypeOK
<1>6. CopiesInv'
  <2>1. CASE pc \in MasterInUse
    BY <2>1, <1>4, ReturnKeepsCopies DEF Failover
  <2>2. CASE pc \notin MasterInUse
    BY <2>2, <1>4, QuietKeepsCopies DEF Failover
  <2> QED
    BY <2>1, <2>2
<1>7. QED
  BY <1>4, <1>5, <1>6 DEF Failover, Promote

(* While the first master lives, slots get beyond the pods the set keeps   *)
(* only by a step of a reconcile whose copy of the set is outdated: of the *)
(* steps of SafeScaling only StartMigration can do it.                     *)
LEMMA StrandingStep ==
    ASSUME TypeOK, ScalingInv, [Next]_vars, ~SlotsStranded, SlotsStranded'
    PROVE  held.replicas # ss.replicas
<1> SUFFICES ASSUME held.replicas = ss.replicas PROVE FALSE
  OBVIOUS
<1> USE DEF SlotsStranded, PodsOf, Safe!PodsOf, halfChunkNodeNumber, TypeOK,
            StatefulSets
<1>1. [Safe!Next]_Safe!vars
  BY SafeStep
<1>2. CASE UNCHANGED Safe!vars
  BY <1>2 DEF Safe!vars
<1>3. CASE Safe!Deliver \/ Safe!Read \/ Safe!Forget
  BY <1>3 DEF Safe!Deliver, Safe!Read, Safe!Forget
<1>4. CASE Safe!EndMigration
  BY <1>4 DEF Safe!EndMigration
<1>5. ASSUME NEW n \in 1 .. MaxChunk, Safe!AddPods(n) PROVE FALSE
  BY <1>5 DEF Safe!AddPods
<1>6. ASSUME NEW n \in 1 .. MaxChunk, Safe!RemovePods(n) PROVE FALSE
  BY <1>6 DEF Safe!RemovePods
<1>7. ASSUME NEW n \in 1 .. MaxChunk, Safe!CreateCluster(n) PROVE FALSE
  BY <1>7 DEF Safe!CreateCluster
<1>8. ASSUME NEW n \in 1 .. MaxChunk, Safe!StartMigration(n) PROVE FALSE
  BY <1>8 DEF Safe!StartMigration
<1>9. QED
  BY <1>1, <1>2, <1>3, <1>4, <1>5, <1>6, <1>7, <1>8 DEF Safe!Next

(* The composition starts with its invariant.                              *)
LEMMA FailoverInitInv == FailoverInit => FailoverInv
<1> SUFFICES ASSUME FailoverInit PROVE FailoverInv
  OBVIOUS
<1>1. TypeOK /\ ScalingInv
  BY TypeInit, ScalingInit DEF FailoverInit
<1>2. ReplicaTypeOK
  BY <1>1, MetadataTyped DEF FailoverInit, ReplicaTypeOK
<1>3. StrandedExplained
  BY DEF FailoverInit, Init, NoStatefulSet, StrandedExplained, SlotsStranded,
     PodsOf, halfChunkNodeNumber
<1>4. QED
  BY <1>1, <1>2, <1>3 DEF FailoverInv, CopiesInv, FirstMasterInv, ScalingInv

(* A step that leaves the scaling alone keeps the explanation.             *)
LEMMA UnchangedKeepsExplained ==
    ASSUME StrandedExplained, UNCHANGED vars,
           UNCHANGED <<failedOver, strandedStale>>
    PROVE  StrandedExplained'
BY DEF StrandedExplained, SlotsStranded, PodsOf, vars, ssVars, brokerVars

(* Every step of the composition keeps its invariant, and shrinks the set  *)
(* only from a stable status: the steps of StorageScaling do, the others   *)
(* leave the set alone.                                                    *)
LEMMA FailoverNextInv ==
    ASSUME FailoverInv, [FailoverNext]_failoverVars
    PROVE  /\ FailoverInv'
           /\ ss'.replicas < ss.replicas =>
                ss.total = ss.replicas /\ ss.current = ss.replicas
<1> USE DEF FailoverInv
<1>1. CASE ScalingStep
  <2>1. [Next]_vars /\ failedOver' = failedOver
    BY <1>1 DEF ScalingStep, OnlyScaling
  <2>2. TypeOK'
    BY <2>1, TypeNext
  <2>3. replica' \in {replica, metadata'}
    BY <1>1 DEF ScalingStep, OnlyScaling, CopyKept
  <2>4. ReplicaTypeOK'
    BY <2>1, <2>2, <2>3 DEF ReplicaTypeOK, metadata, TypeOK
  <2>5. FirstMasterInv'
    BY <2>1, ScalingNext DEF FirstMasterInv
  <2>6. StrandedExplained'
    <3>1. CASE SlotsStranded
      BY <1>1, <3>1 DEF StrandedExplained, ScalingStep, OnlyScaling
    <3>2. CASE ~SlotsStranded /\ SlotsStranded' /\ ~failedOver
      BY <1>1, <2>1, <3>2, StrandingStep
         DEF StrandedExplained, FirstMasterInv, ScalingStep, OnlyScaling
    <3>3. QED
      BY <2>1, <3>1, <3>2 DEF StrandedExplained
  <2> QED
    BY <2>1, <2>2, <2>4, <2>5, <2>6, CopiesNext
<1>2. CASE SyncMeta
  <2>1. UNCHANGED vars /\ UNCHANGED <<failedOver, strandedStale>>
          /\ replica' = metadata
    BY <1>2 DEF SyncMeta
  <2>2. ReplicaTypeOK'
    BY <2>1, MetadataTyped DEF ReplicaTypeOK
  <2>3. FirstMasterInv'
    BY <2>1, ScalingNext DEF FirstMasterInv
  <2>4. StrandedExplained'
    BY <2>1, UnchangedKeepsExplained
  <2> QED
    BY <2>1, <2>2, <2>3, <2>4, TypeNext, CopiesNext
<1>3. CASE Failover
  <2>1. TypeOK' /\ CopiesInv' /\ failedOver' /\ ss' = ss
    BY <1>3, FailoverStep
  <2>2. replica' \in {replica, metadata'}
    BY <1>3 DEF Failover, CopyKept
  <2>3. ReplicaTypeOK'
    BY <1>3, <2>1, <2>2 DEF ReplicaTypeOK, metadata, TypeOK, Failover, Promote
  <2> QED
    BY <2>1, <2>3 DEF FirstMasterInv, StrandedExplained, TypeOK, StatefulSets
<1>4. CASE UNCHANGED failoverVars
  <2>1. UNCHANGED vars /\ UNCHANGED <<failedOver, strandedStale, replica>>
    BY <1>4 DEF failoverVars
  <2>2. ReplicaTypeOK'
    BY <2>1 DEF ReplicaTypeOK
  <2>3. FirstMasterInv'
    BY <2>1, ScalingNext DEF FirstMasterInv
  <2>4. StrandedExplained'
    BY <2>1, UnchangedKeepsExplained
  <2> QED
    BY <2>1, <2>2, <2>3, <2>4, TypeNext, CopiesNext
<1>5. QED
  BY <1>1, <1>2, <1>3, <1>4 DEF FailoverNext

-----------------------------------------------------------------------------
(* The invariant of the composition: types and Reconcile's knowledge of    *)
(* its copies survive any number of failovers, and until the first one     *)
(* everything that is proved of StorageScaling holds.                      *)
THEOREM FailoverInvariant == FailoverSpec => []FailoverInv
<1>1. FailoverInv /\ [FailoverNext]_failoverVars => FailoverInv'
  BY FailoverNextInv
<1>2. QED
  BY <1>1, FailoverInitInv, PTL DEF FailoverSpec

(* Whatever metadata a new master starts from, scaleDownStorageStatefulSet *)
(* shrinks the StatefulSet only from a status that the API server itself   *)
(* reports as stable.                                                      *)
THEOREM FailoverShrinksStable == FailoverSpec => ShrinkOnlyWhenStable
<1>1. FailoverInv /\ [FailoverNext]_failoverVars =>
        [ss'.replicas < ss.replicas =>
           ss.total = ss.replicas /\ ss.current = ss.replicas]_vars
  BY FailoverNextInv
<1>2. QED
  BY <1>1, FailoverInvariant, PTL DEF FailoverSpec, ShrinkOnlyWhenStable

(* Slots get stranded, in the metadata of the master, on pods the          *)
(* StatefulSet does not keep only by a failover, or by a reconcile that    *)
(* started a migration from an outdated copy of the StatefulSet.           *)
THEOREM StrandingIsExplained == FailoverSpec => []StrandedExplained
<1>1. FailoverInv => StrandedExplained
  BY DEF FailoverInv
<1>2. QED
  BY <1>1, FailoverInvariant, PTL
=============================================================================
