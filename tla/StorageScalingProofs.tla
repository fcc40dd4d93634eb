----------------------- MODULE StorageScalingProofs -----------------------
(* Proofs about StorageScaling, for every value of its constants. *)
EXTENDS StorageScaling, FiniteSetTheorems, TLAPS

(* The pods of a permitted chunk number are a permitted replica number.    *)
LEMMA PodsOfType ==
    ASSUME NEW c \in 0 .. MaxChunk
    PROVE  PodsOf(c) \in 0 .. MaxPods
BY MaxChunkAssumption DEF PodsOf, MaxPods, halfChunkNodeNumber

(* The endpoints and the running pods are counted within the same range,   *)
(* which bounds the status that the StatefulSet controller writes.         *)
LEMMA PodCount ==
    ASSUME NEW S \in SUBSET Pods
    PROVE  Cardinality(S) \in 0 .. MaxPods
<1>1. MaxPods \in Nat /\ 0 \in Int /\ MaxPods - 1 \in Int
  BY MaxChunkAssumption DEF MaxPods, PodsOf, halfChunkNodeNumber
<1>2. IsFiniteSet(Pods) /\ Cardinality(Pods) <= MaxPods
  BY <1>1, FS_Interval DEF Pods
<1>3. IsFiniteSet(S) /\ Cardinality(S) <= Cardinality(Pods)
  BY <1>2, FS_Subset
<1>4. QED
  BY <1>1, <1>2, <1>3, FS_CardinalityType

(* The values that stand for "none" have the types of their variables.     *)
LEMMA NoneTyped ==
    /\ NoStatefulSet \in StatefulSets
    /\ NoInfo \in [withSlots : 0 .. MaxChunk, migrating : BOOLEAN]
<1>1. MaxPods \in Nat
  BY MaxChunkAssumption DEF MaxPods, PodsOf, halfChunkNodeNumber
<1>2. QED
  BY <1>1, MaxChunkAssumption DEF NoStatefulSet, StatefulSets, NoInfo

(* A return leaves well-typed locals.                                      *)
LEMMA ReturnTyped ==
    ASSUME Return
    PROVE  /\ pc' \in Steps
           /\ instance' \in 0 .. MaxChunk
           /\ instanceCurrent' \in BOOLEAN
           /\ held' \in StatefulSets
           /\ heldCurrent' \in BOOLEAN
           /\ proxies' \subseteq Pods
           /\ allReady' \in BOOLEAN
           /\ info' \in [withSlots : 0 .. MaxChunk, migrating : BOOLEAN]
           /\ freeFound' \in BOOLEAN
<1>1. instanceCurrent' \in BOOLEAN /\ heldCurrent' \in BOOLEAN
  BY DEF Return
<1>2. allReady' \in BOOLEAN /\ freeFound' \in BOOLEAN
  BY DEF Return
<1>3. held' \in StatefulSets
  BY NoneTyped DEF Return
<1>4. info' \in [withSlots : 0 .. MaxChunk, migrating : BOOLEAN]
  BY NoneTyped DEF Return
<1>5. pc' \in Steps /\ instance' \in 0 .. MaxChunk /\ proxies' \subseteq Pods
  BY MaxChunkAssumption DEF Return, Steps
<1>6. QED
  BY <1>1, <1>2, <1>3, <1>4, <1>5

(* A requeue is a return that queues a request.                            *)
LEMMA RequeueTyped ==
    ASSUME Requeue
    PROVE  Return /\ queue' \in BOOLEAN
BY DEF Requeue

(* The operator starts in a well-typed state.                              *)
LEMMA TypeInit == Init => TypeOK
<1> SUFFICES ASSUME Init PROVE TypeOK
  OBVIOUS
<1>1. crSynced \in BOOLEAN /\ queue \in BOOLEAN /\ ssSynced \in BOOLEAN
  BY DEF Init
<1>2. instanceCurrent \in BOOLEAN /\ heldCurrent \in BOOLEAN
  BY DEF Init
<1>3. allReady \in BOOLEAN /\ freeFound \in BOOLEAN
  BY DEF Init
<1>4. ss \in StatefulSets /\ ssCache \in StatefulSets /\ held \in StatefulSets
  BY NoneTyped DEF Init
<1>5. info \in [withSlots : 0 .. MaxChunk, migrating : BOOLEAN]
  BY NoneTyped DEF Init
<1>6. pod \in [Pods -> {"absent", "running", "terminating"}]
  BY DEF Init
<1>7. QED
  BY <1>1, <1>2, <1>3, <1>4, <1>5, <1>6, MaxChunkAssumption,
     MaxEditsAssumption, MaxFaultsAssumption DEF Init, TypeOK, Steps

(* Every step of the operator or its environment keeps the types.          *)
LEMMA TypeNext == TypeOK /\ [Next]_vars => TypeOK'
<1> SUFFICES ASSUME TypeOK, [Next]_vars PROVE TypeOK'
  OBVIOUS
<1> USE MaxChunkAssumption, MaxEditsAssumption, MaxFaultsAssumption
    DEF crVars, ssVars, brokerVars, budgets, locals
<1>1. ASSUME NEW n \in 1 .. MaxChunk, UserEdit(n) PROVE TypeOK'
  <2>1. crSynced' \in BOOLEAN
    BY <1>1 DEF UserEdit, TypeOK
  <2>2. instanceCurrent' \in BOOLEAN
    BY <1>1 DEF UserEdit, TypeOK
  <2> QED
    BY <1>1, <2>1, <2>2 DEF UserEdit, TypeOK, Steps
<1>2. CASE DeliverCr
  BY <1>2 DEF DeliverCr, TypeOK, Steps
<1>3. CASE DeliverSs
  BY <1>3 DEF DeliverSs, TypeOK, Steps
<1>4. CASE SyncPods
  BY <1>4 DEF SyncPods, TypeOK, Steps
<1>5. ASSUME NEW p \in Pods, PodGone(p) PROVE TypeOK'
  BY <1>5 DEF PodGone, SetPod, TypeOK, Steps
<1>6. CASE UpdateStatus
  BY <1>6, PodCount DEF UpdateStatus, ObservedStatus, Endpoints, InState,
     StatefulSets, TypeOK, Steps
<1>7. ASSUME NEW p \in Pods, KillPod(p) PROVE TypeOK'
  BY <1>7 DEF KillPod, SetPod, Fault, TypeOK, Steps
<1>8. CASE MigrationCommit
  BY <1>8 DEF MigrationCommit, migrating, TypeOK, Steps
<1>9. CASE ReconcileStart
  <2>1. queue' \in BOOLEAN
    BY <1>9 DEF ReconcileStart, TypeOK
  <2>2. instanceCurrent' \in BOOLEAN
    BY <1>9 DEF ReconcileStart, TypeOK
  <2> QED
    BY <1>9, <2>1, <2>2 DEF ReconcileStart, TypeOK, Steps
<1>10. CASE CreateStatefulSet
  BY <1>10, PodsOfType DEF CreateStatefulSet, expectedReplicas, NoStatefulSet,
     StatefulSets, TypeOK, Steps
<1>11. CASE StatefulSetExists
  BY <1>11, RequeueTyped, ReturnTyped DEF StatefulSetExists, TypeOK, Steps
<1>12. CASE ScaleUp
  BY <1>12, PodsOfType DEF ScaleUp, UpdateReplicas, expectedReplicas,
     StatefulSets, TypeOK, Steps
<1>13. CASE ScaleUpConflict
  BY <1>13, RequeueTyped, ReturnTyped DEF ScaleUpConflict, TypeOK, Steps
<1>14. CASE KeepReplicas
  BY <1>14 DEF KeepReplicas, TypeOK, Steps
<1>15. CASE SetMasterBrokerStatus
  BY <1>15 DEF SetMasterBrokerStatus, TypeOK, Steps
<1>16. CASE MasterStatusConflict
  BY <1>16, RequeueTyped, ReturnTyped DEF MasterStatusConflict, TypeOK, Steps
<1>17. CASE GetServerProxies
  BY <1>17 DEF GetServerProxies, Endpoints, TypeOK, Steps
<1>18. CASE StorageAllReady
  BY <1>18 DEF StorageAllReady, EnoughEndpoints, TypeOK, Steps
<1>19. ASSUME NEW lost \in LostCalls, ReconcileMeta1(lost) PROVE TypeOK'
  BY <1>19 DEF ReconcileMeta1, ReconcileServerProxyRegistry, LoseCall, Fault,
     TypeOK, Steps
<1>20. ASSUME NEW lost \in LostCalls, ReconcileMeta1NotReady(lost) PROVE TypeOK'
  BY <1>20, RequeueTyped, ReturnTyped DEF ReconcileMeta1NotReady,
     ReconcileServerProxyRegistry, LoseCall, Fault, TypeOK, Steps
<1>21. ASSUME NEW lost \in LostCalls, ReconcileMeta2(lost) PROVE TypeOK'
  BY <1>21 DEF ReconcileMeta2, ReconcileServerProxyRegistry, LoseCall, Fault,
     TypeOK, Steps
<1>22. CASE GetClusterInfo1
  BY <1>22 DEF GetClusterInfo1, ClusterStep, migrating, TypeOK, Steps
<1>23. CASE GetClusterInfo2
  BY <1>23 DEF GetClusterInfo2, ClusterStep, migrating, TypeOK, Steps
<1>24. CASE CreateClusterRefused
  BY <1>24, RequeueTyped, ReturnTyped DEF CreateClusterRefused, TypeOK, Steps
<1>25. CASE StorageAllReadyAndStable
  BY <1>25 DEF StorageAllReadyAndStable, TypeOK, Steps
<1>26. CASE StorageNotStable
  BY <1>26, RequeueTyped, ReturnTyped DEF StorageNotStable, TypeOK, Steps
<1>27. CASE ChangeMetaMigrating
  BY <1>27, RequeueTyped, ReturnTyped DEF ChangeMetaMigrating, TypeOK, Steps
<1>28. CASE ScaleNodes
  BY <1>28 DEF ScaleNodes, migrating, TypeOK, Steps
<1>29. CASE ScaleNodesFreeFound
  BY <1>29 DEF ScaleNodesFreeFound, TypeOK, Steps
<1>30. CASE ScaleNodesRefused
  BY <1>30, RequeueTyped, ReturnTyped DEF ScaleNodesRefused, TypeOK, Steps
<1>31. CASE RemoveFreeNodes
  BY <1>31 DEF RemoveFreeNodes, TypeOK, Steps
<1>32. CASE RemoveFreeNodesRetry
  BY <1>32, RequeueTyped, ReturnTyped DEF RemoveFreeNodesRetry, TypeOK, Steps
<1>33. CASE RemoveFreeNodesBusy
  BY <1>33, RequeueTyped, ReturnTyped DEF RemoveFreeNodesBusy, TypeOK, Steps
<1>34. CASE ScaleDown
  <2>1. ssSynced' \in BOOLEAN
    BY <1>34 DEF ScaleDown, StoreReplicas, UpdateReplicas, expectedReplicas,
       StatefulSets, TypeOK
  <2> QED
    BY <1>34, <2>1, PodsOfType DEF ScaleDown, StoreReplicas, UpdateReplicas,
       expectedReplicas, StatefulSets, TypeOK, Steps
<1>35. CASE ScaleDownWait
  BY <1>35, RequeueTyped, ReturnTyped DEF ScaleDownWait, TypeOK, Steps
<1>36. CASE ScaleDownConflict
  BY <1>36, RequeueTyped, ReturnTyped DEF ScaleDownConflict, TypeOK, Steps
<1>37. CASE Finish
  BY <1>37, ReturnTyped DEF Finish, TypeOK, Steps
<1>38. CASE Abort
  BY <1>38, RequeueTyped, ReturnTyped DEF Abort, Fault, TypeOK, Steps
<1>39. CASE UNCHANGED vars
  BY <1>39 DEF vars, TypeOK
<1>40. QED
  BY <1>1, <1>2, <1>3, <1>4, <1>5, <1>6, <1>7, <1>8, <1>9, <1>10, <1>11,
     <1>12, <1>13, <1>14, <1>15, <1>16, <1>17, <1>18, <1>19, <1>20, <1>21,
     <1>22, <1>23, <1>24, <1>25, <1>26, <1>27, <1>28, <1>29, <1>30, <1>31,
     <1>32, <1>33, <1>34, <1>35, <1>36, <1>37, <1>38, <1>39 DEF Next,
     Environment, Reconcile, StatefulSetController, CreateStorage,
     ReconcileMaster, ReconcileMeta, ChangeMeta

(* A step that touches nothing the invariant speaks of keeps it.           *)
LEMMA QuietKeepsInv ==
    ASSUME ScalingInv,
           UNCHANGED <<ss, ssCache, ssSynced, nodeChunks, slotChunks, target,
                       pc, instance, held, heldCurrent, info, freeFound>>
    PROVE  ScalingInv'
BY DEF ScalingInv, VersionsInv, HeldInv, FirstClusterInv, StableInv, ChangedInv,
   InfoInv, DoneMeansScaled, PodsOf

(* So does a return: what remains to be shown is about the StatefulSet and *)
(* the slots, which a return leaves alone.                                 *)
LEMMA ReturnKeepsInv ==
    ASSUME TypeOK, ScalingInv, Return,
           UNCHANGED <<ss, ssCache, ssSynced, slotChunks, target>>,
           nodeChunks' \in {nodeChunks, slotChunks}
    PROVE  ScalingInv'
<1>1. VersionsInv' /\ HeldInv' /\ StableInv' /\ ChangedInv' /\ InfoInv'
        /\ DoneMeansScaled'
  BY DEF Return, ScalingInv, VersionsInv, HeldInv, StableInv, ChangedInv,
     InfoInv, DoneMeansScaled
<1>2. FirstClusterInv'
  BY DEF Return, ScalingInv, FirstClusterInv, NoStatefulSet, TypeOK,
     StatefulSets
<1>3. QED
  BY <1>1, <1>2 DEF ScalingInv

(* The inductive invariant holds before the first reconcile.               *)
LEMMA ScalingInit == Init => ScalingInv
BY DEF Init, ScalingInv, VersionsInv, HeldInv, FirstClusterInv, StableInv, ChangedInv,
   InfoInv, DoneMeansScaled, PodsOf, NoStatefulSet,
   halfChunkNodeNumber

(* Every step keeps the inductive invariant: one case per action.          *)
LEMMA ScalingNext == TypeOK /\ ScalingInv /\ [Next]_vars => ScalingInv'
<1> SUFFICES ASSUME TypeOK, ScalingInv, [Next]_vars PROVE ScalingInv'
  OBVIOUS
<1> USE DEF crVars, ssVars, brokerVars, budgets, locals
<1>1. ASSUME NEW n \in 1 .. MaxChunk, UserEdit(n) PROVE ScalingInv'
  BY <1>1, QuietKeepsInv DEF UserEdit
<1>2. CASE DeliverCr
  BY <1>2, QuietKeepsInv DEF DeliverCr
<1>3. CASE DeliverSs
  BY <1>3 DEF DeliverSs, ScalingInv, VersionsInv, HeldInv, FirstClusterInv,
     StableInv, ChangedInv, InfoInv, DoneMeansScaled, TypeOK, StatefulSets
<1>4. CASE SyncPods
  BY <1>4, QuietKeepsInv DEF SyncPods
<1>5. ASSUME NEW p \in Pods, PodGone(p) PROVE ScalingInv'
  BY <1>5, QuietKeepsInv DEF PodGone, SetPod
<1>6. CASE UpdateStatus
  BY <1>6 DEF UpdateStatus, ObservedStatus, StatefulSets, ScalingInv,
       VersionsInv, HeldInv, FirstClusterInv, StableInv, ChangedInv, InfoInv, DoneMeansScaled, TypeOK, PodsOf,
       halfChunkNodeNumber
<1>7. ASSUME NEW p \in Pods, KillPod(p) PROVE ScalingInv'
  BY <1>7, QuietKeepsInv DEF KillPod, SetPod
<1>8. CASE MigrationCommit
  <2> USE <1>8 DEF MigrationCommit, migrating
  <2>1. VersionsInv' /\ HeldInv' /\ FirstClusterInv' /\ StableInv'
    BY DEF ScalingInv, VersionsInv, HeldInv, FirstClusterInv, StableInv
  <2>2. ChangedInv'
    BY DEF ScalingInv, ChangedInv
  <2>3. InfoInv' /\ DoneMeansScaled'
    BY DEF ScalingInv, ChangedInv, InfoInv, DoneMeansScaled
  <2> QED
    BY <2>1, <2>2, <2>3 DEF ScalingInv
<1>9. CASE ReconcileStart
  BY <1>9 DEF ReconcileStart, ScalingInv, VersionsInv, HeldInv, FirstClusterInv,
       StableInv, ChangedInv, InfoInv, DoneMeansScaled,
       TypeOK, PodsOf, halfChunkNodeNumber
<1>10. CASE CreateStatefulSet
  BY <1>10 DEF CreateStatefulSet, expectedReplicas, NoStatefulSet,
       StatefulSets, ScalingInv, VersionsInv, HeldInv, FirstClusterInv, StableInv,
       ChangedInv, InfoInv, DoneMeansScaled, TypeOK,
       PodsOf, halfChunkNodeNumber
<1>11. CASE StatefulSetExists
  BY <1>11, ReturnKeepsInv DEF StatefulSetExists, Requeue
<1>12. CASE ScaleUp
  <2> USE <1>12 DEF ScaleUp, UpdateReplicas, expectedReplicas, TypeOK,
                    StatefulSets
  <2>1. ss'.replicas = PodsOf(instance) /\ ss'.replicas > ss.replicas
    BY DEF ScalingInv, VersionsInv
  <2>2. ssSynced' => ss' = ss
    OBVIOUS
  <2>3. ~ssSynced'
    BY <2>1, <2>2 DEF PodsOf, halfChunkNodeNumber
  <2>4. VersionsInv'
    BY <2>3 DEF VersionsInv
  <2>5. HeldInv' /\ FirstClusterInv' /\ StableInv' /\ ChangedInv' /\ InfoInv'
          /\ DoneMeansScaled'
    BY <2>1 DEF ScalingInv, HeldInv, FirstClusterInv, StableInv, ChangedInv, InfoInv,
           DoneMeansScaled, PodsOf, halfChunkNodeNumber
  <2> QED
    BY <2>4, <2>5 DEF ScalingInv
<1>13. CASE ScaleUpConflict
  BY <1>13, ReturnKeepsInv DEF ScaleUpConflict, Requeue
<1>14. CASE KeepReplicas
  BY <1>14 DEF KeepReplicas, expectedReplicas, ScalingInv, VersionsInv,
       HeldInv, FirstClusterInv, StableInv, ChangedInv, InfoInv,
       DoneMeansScaled, TypeOK, PodsOf, halfChunkNodeNumber
<1>15. CASE SetMasterBrokerStatus
  BY <1>15 DEF SetMasterBrokerStatus, ScalingInv, VersionsInv, HeldInv,
       FirstClusterInv, StableInv, ChangedInv, InfoInv,
       DoneMeansScaled, TypeOK, PodsOf, halfChunkNodeNumber
<1>16. CASE MasterStatusConflict
  BY <1>16, ReturnKeepsInv DEF MasterStatusConflict, Requeue
<1>17. CASE GetServerProxies
  BY <1>17 DEF GetServerProxies, ScalingInv, VersionsInv, HeldInv, FirstClusterInv,
       StableInv, ChangedInv, InfoInv, DoneMeansScaled,
       TypeOK, PodsOf, halfChunkNodeNumber
<1>18. CASE StorageAllReady
  BY <1>18 DEF StorageAllReady, ScalingInv, VersionsInv, HeldInv, FirstClusterInv,
       StableInv, ChangedInv, InfoInv, DoneMeansScaled,
       TypeOK, PodsOf, halfChunkNodeNumber
<1>19. ASSUME NEW lost \in LostCalls, ReconcileMeta1(lost) PROVE ScalingInv'
  BY <1>19 DEF ReconcileMeta1, ScalingInv, VersionsInv, HeldInv, FirstClusterInv,
       StableInv, ChangedInv, InfoInv, DoneMeansScaled,
       TypeOK, PodsOf, halfChunkNodeNumber
<1>20. ASSUME NEW lost \in LostCalls, ReconcileMeta1NotReady(lost) PROVE ScalingInv'
  BY <1>20, ReturnKeepsInv DEF ReconcileMeta1NotReady, Requeue
<1>21. ASSUME NEW lost \in LostCalls, ReconcileMeta2(lost) PROVE ScalingInv'
  BY <1>21 DEF ReconcileMeta2, ScalingInv, VersionsInv, HeldInv, FirstClusterInv,
       StableInv, ChangedInv, InfoInv, DoneMeansScaled,
       TypeOK, PodsOf, halfChunkNodeNumber
<1>22. CASE GetClusterInfo1
  BY <1>22 DEF GetClusterInfo1, ClusterStep, migrating, ScalingInv,
       VersionsInv, HeldInv, FirstClusterInv, StableInv, ChangedInv, InfoInv, DoneMeansScaled, TypeOK, PodsOf,
       halfChunkNodeNumber
<1>23. CASE GetClusterInfo2
  BY <1>23 DEF GetClusterInfo2, ClusterStep, migrating, ScalingInv,
       VersionsInv, HeldInv, FirstClusterInv, StableInv, ChangedInv, InfoInv, DoneMeansScaled, TypeOK, PodsOf,
       halfChunkNodeNumber
<1>24. CASE CreateClusterRefused
  BY <1>24, ReturnKeepsInv DEF CreateClusterRefused, Requeue
<1>25. CASE StorageAllReadyAndStable
  BY <1>25 DEF StorageAllReadyAndStable, Stable, ScalingInv, VersionsInv,
       HeldInv, FirstClusterInv, StableInv, ChangedInv, InfoInv,
       DoneMeansScaled, TypeOK, PodsOf, halfChunkNodeNumber
<1>26. CASE StorageNotStable
  BY <1>26, ReturnKeepsInv DEF StorageNotStable, Requeue
<1>27. CASE ChangeMetaMigrating
  BY <1>27, ReturnKeepsInv DEF ChangeMetaMigrating, Requeue
<1>28. CASE ScaleNodes
  BY <1>28 DEF ScaleNodes, migrating, ScalingInv, VersionsInv, HeldInv,
       FirstClusterInv, StableInv, ChangedInv, InfoInv,
       DoneMeansScaled, TypeOK, PodsOf, halfChunkNodeNumber
<1>29. CASE ScaleNodesFreeFound
  BY <1>29 DEF ScaleNodesFreeFound, ScalingInv, VersionsInv, HeldInv,
       FirstClusterInv, StableInv, ChangedInv, InfoInv,
       DoneMeansScaled, TypeOK, PodsOf, halfChunkNodeNumber
<1>30. CASE ScaleNodesRefused
  BY <1>30, ReturnKeepsInv DEF ScaleNodesRefused, Requeue
<1>31. CASE RemoveFreeNodes
  BY <1>31 DEF RemoveFreeNodes, ScalingInv, VersionsInv, HeldInv, FirstClusterInv,
       StableInv, ChangedInv, InfoInv, DoneMeansScaled,
       TypeOK, PodsOf, halfChunkNodeNumber
<1>32. CASE RemoveFreeNodesRetry
  BY <1>32, ReturnKeepsInv DEF RemoveFreeNodesRetry, Requeue
<1>33. CASE RemoveFreeNodesBusy
  BY <1>33, ReturnKeepsInv DEF RemoveFreeNodesBusy, Requeue
<1>34. CASE ScaleDown
  <2> USE <1>34 DEF ScaleDown, StoreReplicas, UpdateReplicas,
                    expectedReplicas, TypeOK, StatefulSets
  <2>1. ss'.replicas = PodsOf(instance)
    OBVIOUS
  <2>2. slotChunks = instance /\ target \in {0, instance}
    BY DEF ScalingInv, InfoInv, ChangedInv
  <2>3. ssSynced' => ss' = ss /\ ssSynced
    OBVIOUS
  <2>4. VersionsInv'
    BY <2>3 DEF ScalingInv, VersionsInv
  <2>5. HeldInv' /\ FirstClusterInv'
    BY <2>1 DEF ScalingInv, HeldInv, FirstClusterInv, PodsOf, halfChunkNodeNumber
  <2>6. StableInv' /\ ChangedInv' /\ InfoInv'
    BY <2>2 DEF ScalingInv, StableInv, ChangedInv, InfoInv
  <2>7. DoneMeansScaled'
    BY <2>1, <2>2 DEF DoneMeansScaled
  <2> QED
    BY <2>4, <2>5, <2>6, <2>7 DEF ScalingInv
<1>35. CASE ScaleDownWait
  BY <1>35, ReturnKeepsInv DEF ScaleDownWait, Requeue
<1>36. CASE ScaleDownConflict
  BY <1>36, ReturnKeepsInv DEF ScaleDownConflict, Requeue
<1>37. CASE Finish
  BY <1>37, ReturnKeepsInv DEF Finish
<1>38. CASE Abort
  BY <1>38, ReturnKeepsInv DEF Abort, Requeue
<1>39. CASE UNCHANGED vars
  BY <1>39, QuietKeepsInv DEF vars
<1>40. QED
  BY <1>1, <1>2, <1>3, <1>4, <1>5, <1>6, <1>7, <1>8, <1>9, <1>10, <1>11,
     <1>12, <1>13, <1>14, <1>15, <1>16, <1>17, <1>18, <1>19, <1>20, <1>21,
     <1>22, <1>23, <1>24, <1>25, <1>26, <1>27, <1>28, <1>29, <1>30, <1>31,
     <1>32, <1>33, <1>34, <1>35, <1>36, <1>37, <1>38, <1>39 DEF Next,
     Environment, Reconcile, StatefulSetController, CreateStorage,
     ReconcileMaster, ReconcileMeta, ChangeMeta

(* The part of ScalingInv that speaks of the StatefulSet and its copies    *)
(* only.                                                                   *)
CopiesInv ==
    /\ VersionsInv
    /\ HeldInv
    /\ StableInv

(* A step that touches neither the StatefulSet nor its copies, nor the     *)
(* step of Reconcile, keeps what is known of the copies.                   *)
LEMMA QuietKeepsCopies ==
    ASSUME CopiesInv,
           UNCHANGED <<ss, ssCache, ssSynced, pc, instance, held, heldCurrent>>
    PROVE  CopiesInv'
BY DEF CopiesInv, VersionsInv, HeldInv, StableInv, PodsOf

(* A return drops the copy and leaves the StatefulSet alone.               *)
LEMMA ReturnKeepsCopies ==
    ASSUME CopiesInv, Return, UNCHANGED <<ss, ssCache, ssSynced>>
    PROVE  CopiesInv'
BY DEF Return, CopiesInv, VersionsInv, HeldInv, StableInv

(* So does a step of Reconcile that passes no check but goes on with the   *)
(* copy it holds.                                                          *)
LEMMA AdvanceKeepsCopies ==
    ASSUME CopiesInv,
           pc \notin {"idle", "createStorage"},
           pc' \in {"changeMeta", "removeFreeNodes", "registry2", "cluster2",
                    "scaleDown"}
             => pc \in {"changeMeta", "removeFreeNodes", "registry2",
                        "cluster2", "scaleDown"},
           UNCHANGED <<ss, ssCache, ssSynced, instance, held, heldCurrent>>
    PROVE  CopiesInv'
BY DEF CopiesInv, VersionsInv, HeldInv, StableInv, PodsOf

(* Reconcile's knowledge of its copies does not rest on the broker: every  *)
(* step of StorageScaling keeps it, and shrinks the set only from a stable *)
(* status, whatever metadata the broker has.                               *)
LEMMA CopiesNext ==
    ASSUME TypeOK, CopiesInv, [Next]_vars
    PROVE  /\ CopiesInv'
           /\ ss'.replicas < ss.replicas =>
                ss.total = ss.replicas /\ ss.current = ss.replicas
<1> DEFINE Shrink == ss'.replicas < ss.replicas =>
                       ss.total = ss.replicas /\ ss.current = ss.replicas
<1> DEFINE Kept == CopiesInv' /\ Shrink
<1> SUFFICES Kept
  OBVIOUS
<1> USE DEF crVars, ssVars, brokerVars, budgets, locals
<1>0. ss' = ss => Shrink
  BY DEF TypeOK, StatefulSets
<1> HIDE DEF Shrink
<1>1. ASSUME NEW n \in 1 .. MaxChunk, UserEdit(n) PROVE Kept
  BY <1>1, <1>0, QuietKeepsCopies DEF UserEdit
<1>2. CASE DeliverCr
  BY <1>2, <1>0, QuietKeepsCopies DEF DeliverCr
<1>3. CASE DeliverSs
  BY <1>3, <1>0 DEF DeliverSs, CopiesInv, VersionsInv, HeldInv, StableInv
<1>4. CASE SyncPods
  BY <1>4, <1>0, QuietKeepsCopies DEF SyncPods
<1>5. ASSUME NEW p \in Pods, PodGone(p) PROVE Kept
  BY <1>5, <1>0, QuietKeepsCopies DEF PodGone, SetPod
<1>6. CASE UpdateStatus
  <2>1. ss'.replicas = ss.replicas /\ ss.replicas \in Int
    BY <1>6 DEF UpdateStatus, ObservedStatus, TypeOK, StatefulSets
  <2>2. Shrink
    BY <2>1 DEF Shrink
  <2>3. CopiesInv'
    BY <1>6 DEF UpdateStatus, CopiesInv, VersionsInv, HeldInv, StableInv,
       PodsOf
  <2> QED
    BY <2>2, <2>3
<1>7. ASSUME NEW p \in Pods, KillPod(p) PROVE Kept
  BY <1>7, <1>0, QuietKeepsCopies DEF KillPod, SetPod
<1>8. CASE MigrationCommit
  BY <1>8, <1>0, QuietKeepsCopies DEF MigrationCommit
<1>9. CASE ReconcileStart
  BY <1>9, <1>0 DEF ReconcileStart, TypeOK, CopiesInv, VersionsInv,
     HeldInv, StableInv
<1>10. CASE CreateStatefulSet
  <2>1. ss.replicas = 0 /\ ss'.replicas = PodsOf(instance) /\ held' = ss'
    BY <1>10 DEF CreateStatefulSet, expectedReplicas, NoStatefulSet
  <2>2. Shrink
    BY <2>1 DEF Shrink, PodsOf, halfChunkNodeNumber, TypeOK
  <2>3. CopiesInv'
    BY <1>10, <2>1 DEF CreateStatefulSet, CopiesInv, VersionsInv, HeldInv,
       StableInv, PodsOf, halfChunkNodeNumber, TypeOK
  <2> QED
    BY <2>2, <2>3
<1>11. CASE StatefulSetExists
  BY <1>11, <1>0, ReturnKeepsCopies DEF StatefulSetExists, Requeue
<1>12. CASE ScaleUp
  <2> USE <1>12 DEF ScaleUp, UpdateReplicas, expectedReplicas
  <2>1. ss'.replicas = PodsOf(instance) /\ ss'.replicas > ss.replicas
    BY DEF CopiesInv, VersionsInv, TypeOK, StatefulSets
  <2>2. PodsOf(instance) \in Int /\ ss.replicas \in Int
    BY DEF PodsOf, halfChunkNodeNumber, TypeOK, StatefulSets
  <2>3. Shrink
    BY <2>1, <2>2 DEF Shrink
  <2>4. ssSynced' => ss' = ss
    BY DEF TypeOK
  <2>5. ss' # ss
    BY <2>1, <2>2 DEF TypeOK, StatefulSets
  <2>6. ~ssSynced'
    BY <2>4, <2>5
  <2>7. CopiesInv'
    BY <2>1, <2>2, <2>6 DEF CopiesInv, VersionsInv, HeldInv, StableInv,
       PodsOf
  <2> QED
    BY <2>3, <2>7
<1>13. CASE ScaleUpConflict
  BY <1>13, <1>0, ReturnKeepsCopies DEF ScaleUpConflict, Requeue
<1>14. CASE KeepReplicas
  BY <1>14, <1>0 DEF KeepReplicas, expectedReplicas, CopiesInv, VersionsInv,
     HeldInv, StableInv, PodsOf, halfChunkNodeNumber, TypeOK, StatefulSets
<1>15. CASE SetMasterBrokerStatus
  BY <1>15, <1>0, AdvanceKeepsCopies DEF SetMasterBrokerStatus
<1>16. CASE MasterStatusConflict
  BY <1>16, <1>0, ReturnKeepsCopies DEF MasterStatusConflict, Requeue
<1>17. CASE GetServerProxies
  BY <1>17, <1>0, AdvanceKeepsCopies DEF GetServerProxies
<1>18. CASE StorageAllReady
  BY <1>18, <1>0, AdvanceKeepsCopies DEF StorageAllReady
<1>19. ASSUME NEW lost \in LostCalls, ReconcileMeta1(lost) PROVE Kept
  BY <1>19, <1>0, AdvanceKeepsCopies DEF ReconcileMeta1
<1>20. ASSUME NEW lost \in LostCalls, ReconcileMeta1NotReady(lost) PROVE Kept
  BY <1>20, <1>0, ReturnKeepsCopies DEF ReconcileMeta1NotReady, Requeue
<1>21. ASSUME NEW lost \in LostCalls, ReconcileMeta2(lost) PROVE Kept
  BY <1>21, <1>0, AdvanceKeepsCopies DEF ReconcileMeta2
<1>22. CASE GetClusterInfo1
  BY <1>22, <1>0, AdvanceKeepsCopies DEF GetClusterInfo1, ClusterStep
<1>23. CASE GetClusterInfo2
  BY <1>23, <1>0, AdvanceKeepsCopies DEF GetClusterInfo2, ClusterStep
<1>24. CASE CreateClusterRefused
  BY <1>24, <1>0, ReturnKeepsCopies DEF CreateClusterRefused, Requeue
<1>25. CASE StorageAllReadyAndStable
  BY <1>25, <1>0 DEF StorageAllReadyAndStable, Stable, CopiesInv,
     VersionsInv, HeldInv, StableInv, PodsOf
<1>26. CASE StorageNotStable
  BY <1>26, <1>0, ReturnKeepsCopies DEF StorageNotStable, Requeue
<1>27. CASE ChangeMetaMigrating
  BY <1>27, <1>0, ReturnKeepsCopies DEF ChangeMetaMigrating, Requeue
<1>28. CASE ScaleNodes
  BY <1>28, <1>0, AdvanceKeepsCopies DEF ScaleNodes
<1>29. CASE ScaleNodesFreeFound
  BY <1>29, <1>0, AdvanceKeepsCopies DEF ScaleNodesFreeFound
<1>30. CASE ScaleNodesRefused
  BY <1>30, <1>0, ReturnKeepsCopies DEF ScaleNodesRefused, Requeue
<1>31. CASE RemoveFreeNodes
  BY <1>31, <1>0, AdvanceKeepsCopies DEF RemoveFreeNodes
<1>32. CASE RemoveFreeNodesRetry
  BY <1>32, <1>0, ReturnKeepsCopies DEF RemoveFreeNodesRetry, Requeue
<1>33. CASE RemoveFreeNodesBusy
  BY <1>33, <1>0, ReturnKeepsCopies DEF RemoveFreeNodesBusy, Requeue
<1>34. CASE ScaleDown
  <2> USE <1>34 DEF ScaleDown, StoreReplicas, UpdateReplicas,
                    expectedReplicas
  <2>1. held = ss /\ held.total = held.replicas /\ held.current = held.replicas
    BY DEF CopiesInv, VersionsInv, StableInv
  <2>2. Shrink
    BY <2>1 DEF Shrink
  <2>3. ss'.replicas = PodsOf(instance) /\ PodsOf(instance) \in Int
    BY DEF PodsOf, halfChunkNodeNumber, TypeOK, StatefulSets
  <2>4. ssSynced' => ss' = ss /\ ssSynced
    BY DEF TypeOK
  <2>5. CopiesInv'
    BY <2>3, <2>4 DEF CopiesInv, VersionsInv, HeldInv, StableInv, PodsOf
  <2> QED
    BY <2>2, <2>5
<1>35. CASE ScaleDownWait
  BY <1>35, <1>0, ReturnKeepsCopies DEF ScaleDownWait, Requeue
<1>36. CASE ScaleDownConflict
  BY <1>36, <1>0, ReturnKeepsCopies DEF ScaleDownConflict, Requeue
<1>37. CASE Finish
  BY <1>37, <1>0, ReturnKeepsCopies DEF Finish
<1>38. CASE Abort
  BY <1>38, <1>0, ReturnKeepsCopies DEF Abort, Requeue
<1>39. CASE UNCHANGED vars
  BY <1>39, <1>0, QuietKeepsCopies DEF vars
<1>40. QED
  BY <1>1, <1>2, <1>3, <1>4, <1>5, <1>6, <1>7, <1>8, <1>9, <1>10, <1>11,
     <1>12, <1>13, <1>14, <1>15, <1>16, <1>17, <1>18, <1>19, <1>20, <1>21,
     <1>22, <1>23, <1>24, <1>25, <1>26, <1>27, <1>28, <1>29, <1>30, <1>31,
     <1>32, <1>33, <1>34, <1>35, <1>36, <1>37, <1>38, <1>39 DEF Next,
     Environment, Reconcile, StatefulSetController, CreateStorage,
     ReconcileMaster, ReconcileMeta, ChangeMeta

(* A return drops the copy of the StatefulSet and nothing else that        *)
(* SafeScaling speaks of.                                                  *)
LEMMA ReturnForgets ==
    ASSUME Return, UNCHANGED <<ss, ssCache, slotChunks, target>>
    PROVE  [Safe!Next]_Safe!vars
BY DEF Return, NoStatefulSet, Safe!Next, Safe!Forget, Safe!vars

(* Every step is a step of SafeScaling or leaves its variables alone: one  *)
(* case per action.                                                        *)
LEMMA SafeStep ==
    ASSUME TypeOK, ScalingInv, [Next]_vars
    PROVE  [Safe!Next]_Safe!vars
<1> USE DEF Safe!vars
<1> USE DEF crVars, ssVars, brokerVars, budgets, locals
<1>1. CASE \E n \in 1 .. MaxChunk : UserEdit(n)
  BY <1>1 DEF UserEdit
<1>2. CASE DeliverCr
  BY <1>2 DEF DeliverCr
<1>3. CASE DeliverSs
  BY <1>3 DEF DeliverSs, Safe!Next, Safe!Deliver
<1>4. CASE SyncPods
  BY <1>4 DEF SyncPods
<1>5. CASE \E p \in Pods : PodGone(p)
  BY <1>5 DEF PodGone, SetPod
<1>6. CASE UpdateStatus
  BY <1>6 DEF UpdateStatus, ObservedStatus, TypeOK, StatefulSets
<1>7. CASE \E p \in Pods : KillPod(p)
  BY <1>7 DEF KillPod, SetPod
<1>8. CASE MigrationCommit
  BY <1>8 DEF MigrationCommit, migrating, Safe!Next, Safe!EndMigration
<1>9. CASE ReconcileStart
  BY <1>9 DEF ReconcileStart
<1>10. CASE CreateStatefulSet
  <2>1. /\ instance \in 1 .. MaxChunk
        /\ ssCache.replicas = ss.replicas
        /\ ss'.replicas = Safe!PodsOf(instance)
        /\ held'.replicas = Safe!PodsOf(instance)
        /\ Safe!PodsOf(instance) > ss.replicas
        /\ UNCHANGED <<ssCache, slotChunks, target>>
    BY <1>10 DEF CreateStatefulSet, expectedReplicas, NoStatefulSet,
       ScalingInv, HeldInv, TypeOK, PodsOf, Safe!PodsOf, halfChunkNodeNumber
  <2>2. QED
    BY <2>1 DEF Safe!Next, Safe!AddPods
<1>11. CASE StatefulSetExists
  BY <1>11, ReturnForgets DEF StatefulSetExists, Requeue
<1>12. CASE ScaleUp
  <2>1. /\ instance \in 1 .. MaxChunk
        /\ ssCache.replicas = ss.replicas
        /\ ss'.replicas = Safe!PodsOf(instance)
        /\ held'.replicas = Safe!PodsOf(instance)
        /\ Safe!PodsOf(instance) > ss.replicas
        /\ UNCHANGED <<ssCache, slotChunks, target>>
    BY <1>12 DEF ScaleUp, UpdateReplicas, expectedReplicas, ScalingInv,
       HeldInv, VersionsInv, TypeOK, StatefulSets, PodsOf, Safe!PodsOf,
       halfChunkNodeNumber
  <2>2. QED
    BY <2>1 DEF Safe!Next, Safe!AddPods
<1>13. CASE ScaleUpConflict
  BY <1>13, ReturnForgets DEF ScaleUpConflict, Requeue
<1>14. CASE KeepReplicas
  BY <1>14 DEF KeepReplicas, Safe!Next, Safe!Read
<1>15. CASE SetMasterBrokerStatus
  BY <1>15 DEF SetMasterBrokerStatus
<1>16. CASE MasterStatusConflict
  BY <1>16, ReturnForgets DEF MasterStatusConflict, Requeue
<1>17. CASE GetServerProxies
  BY <1>17 DEF GetServerProxies
<1>18. CASE StorageAllReady
  BY <1>18 DEF StorageAllReady
<1>19. CASE \E lost \in LostCalls : ReconcileMeta1(lost)
  BY <1>19 DEF ReconcileMeta1
<1>20. CASE \E lost \in LostCalls : ReconcileMeta1NotReady(lost)
  BY <1>20, ReturnForgets DEF ReconcileMeta1NotReady, Requeue
<1>21. CASE \E lost \in LostCalls : ReconcileMeta2(lost)
  BY <1>21 DEF ReconcileMeta2
<1>22. CASE GetClusterInfo1
  <2>1. CASE nodeChunks # 0
    BY <1>22, <2>1 DEF GetClusterInfo1, ClusterStep
  <2>2. CASE nodeChunks = 0
    <3>1. /\ instance \in 1 .. MaxChunk
          /\ slotChunks = 0
          /\ Safe!PodsOf(instance) <= ss.replicas
      BY <1>22, <2>2 DEF GetClusterInfo1, ScalingInv, HeldInv,
         FirstClusterInv, TypeOK, StatefulSets, PodsOf, Safe!PodsOf,
         halfChunkNodeNumber
    <3>2. QED
      BY <1>22, <2>2, <3>1 DEF GetClusterInfo1, ClusterStep, Safe!Next,
         Safe!CreateCluster
  <2>3. QED
    BY <2>1, <2>2
<1>23. CASE GetClusterInfo2
  BY <1>23 DEF GetClusterInfo2, ClusterStep, ScalingInv, FirstClusterInv
<1>24. CASE CreateClusterRefused
  BY <1>24, ReturnForgets DEF CreateClusterRefused, Requeue
<1>25. CASE StorageAllReadyAndStable
  BY <1>25 DEF StorageAllReadyAndStable
<1>26. CASE StorageNotStable
  BY <1>26, ReturnForgets DEF StorageNotStable, Requeue
<1>27. CASE ChangeMetaMigrating
  BY <1>27, ReturnForgets DEF ChangeMetaMigrating, Requeue
<1>28. CASE ScaleNodes
  <2>1. CASE instance = nodeChunks
    BY <1>28, <2>1 DEF ScaleNodes, migrating, TypeOK
  <2>2. CASE instance # nodeChunks
    <3>1. /\ instance \in 1 .. MaxChunk
          /\ slotChunks # 0
          /\ Safe!PodsOf(instance) <= held.replicas
      BY <1>28 DEF ScaleNodes, ScalingInv, HeldInv, FirstClusterInv, TypeOK,
         StatefulSets, PodsOf, Safe!PodsOf, halfChunkNodeNumber
    <3>2. QED
      BY <1>28, <2>2, <3>1 DEF ScaleNodes, migrating, Safe!Next,
         Safe!StartMigration
  <2>3. QED
    BY <2>1, <2>2
<1>29. CASE ScaleNodesFreeFound
  BY <1>29 DEF ScaleNodesFreeFound
<1>30. CASE ScaleNodesRefused
  BY <1>30, ReturnForgets DEF ScaleNodesRefused, Requeue
<1>31. CASE RemoveFreeNodes
  BY <1>31 DEF RemoveFreeNodes
<1>32. CASE RemoveFreeNodesRetry
  BY <1>32, ReturnForgets DEF RemoveFreeNodesRetry, Requeue
<1>33. CASE RemoveFreeNodesBusy
  BY <1>33, ReturnForgets DEF RemoveFreeNodesBusy, Requeue
<1>34. CASE ScaleDown
  <2>1. /\ instance \in 1 .. MaxChunk
        /\ slotChunks = instance
        /\ target <= instance
        /\ held = ss
        /\ ss'.replicas = Safe!PodsOf(instance)
        /\ held'.replicas = Safe!PodsOf(instance)
        /\ Safe!PodsOf(instance) <= ss.replicas
        /\ UNCHANGED <<ssCache, slotChunks, target>>
    BY <1>34 DEF ScaleDown, StoreReplicas, UpdateReplicas, expectedReplicas,
       ScalingInv, HeldInv, VersionsInv, InfoInv, ChangedInv, TypeOK,
       StatefulSets, PodsOf, Safe!PodsOf, halfChunkNodeNumber
  <2>2. QED
    BY <2>1 DEF Safe!Next, Safe!RemovePods, Safe!PodsOf, TypeOK, StatefulSets
<1>35. CASE ScaleDownWait
  BY <1>35, ReturnForgets DEF ScaleDownWait, Requeue
<1>36. CASE ScaleDownConflict
  BY <1>36, ReturnForgets DEF ScaleDownConflict, Requeue
<1>37. CASE Finish
  BY <1>37, ReturnForgets DEF Finish
<1>38. CASE Abort
  BY <1>38, ReturnForgets DEF Abort, Requeue
<1>39. CASE UNCHANGED vars
  BY <1>39 DEF vars
<1>40. QED
  BY <1>1, <1>2, <1>3, <1>4, <1>5, <1>6, <1>7, <1>8, <1>9, <1>10, <1>11,
       <1>12, <1>13, <1>14, <1>15, <1>16, <1>17, <1>18, <1>19, <1>20,
       <1>21, <1>22, <1>23, <1>24, <1>25, <1>26, <1>27, <1>28, <1>29,
       <1>30, <1>31, <1>32, <1>33, <1>34, <1>35, <1>36, <1>37, <1>38, <1>39
       DEF Next, Environment, Reconcile, StatefulSetController,
       CreateStorage, ReconcileMaster, ReconcileMeta, ChangeMeta

-----------------------------------------------------------------------------
(* Every reachable state is well typed: in particular the replica number   *)
(* the operator writes stays between 0 and two pods per chunk.             *)
THEOREM TypeCorrect == Spec => []TypeOK
<1>1. TypeOK /\ [Next]_vars => TypeOK'
  BY TypeNext
<1>2. QED
  BY <1>1, TypeInit, PTL DEF Spec

(* The inductive invariant holds, whatever the number of chunks, edits and *)
(* faults and however far the caches lag.                              *)
THEOREM ScalingInvariant == Spec => []ScalingInv
<1>1. TypeOK /\ ScalingInv /\ [Next]_vars => ScalingInv'
  BY ScalingNext
<1>2. QED
  BY <1>1, ScalingInit, TypeCorrect, PTL DEF Spec

(* A Reconcile that returns without requeueing has reached the chunk       *)
(* number it worked for.                                                   *)
THEOREM DoneIsScaled == Spec => []DoneMeansScaled
<1>1. ScalingInv => DoneMeansScaled
  BY DEF ScalingInv
<1>2. QED
  BY <1>1, ScalingInvariant, PTL

(* However stale the informer caches, the scale-down never removes a pod   *)
(* that owns slots or that a migration is heading for.                     *)
THEOREM ShrinkIsSafe == Spec => ShrinkKeepsSlots
<1>1. TypeOK /\ ScalingInv /\ [Next]_vars =>
        [ss'.replicas < ss.replicas =>
           /\ PodsOf(slotChunks) <= ss'.replicas
           /\ PodsOf(target) <= ss'.replicas]_vars
  <2> SUFFICES ASSUME TypeOK, ScalingInv, [Next]_vars,
                      ss'.replicas < ss.replicas
               PROVE  /\ PodsOf(slotChunks) <= ss'.replicas
                      /\ PodsOf(target) <= ss'.replicas
    OBVIOUS
  <2>1. PICK n \in 1 .. MaxChunk : Safe!RemovePods(n)
    BY SafeStep
       DEF Safe!Next, Safe!vars, Safe!Deliver, Safe!Read, Safe!Forget,
           Safe!EndMigration, Safe!AddPods, Safe!CreateCluster,
           Safe!StartMigration, Safe!PodsOf, TypeOK, StatefulSets
  <2>2. QED
    BY <2>1 DEF Safe!RemovePods, Safe!PodsOf, PodsOf, halfChunkNodeNumber,
       TypeOK
<1>2. QED
  BY <1>1, TypeCorrect, ScalingInvariant, PTL DEF Spec, ShrinkKeepsSlots

(* The scale-down starts from a StatefulSet that the API server itself     *)
(* reports as stable, although the check was made on an earlier copy.      *)
THEOREM ShrinkIsStable == Spec => ShrinkOnlyWhenStable
<1>1. TypeOK /\ ScalingInv /\ [Next]_vars =>
        [ss'.replicas < ss.replicas =>
           ss.total = ss.replicas /\ ss.current = ss.replicas]_vars
  BY CopiesNext DEF CopiesInv, ScalingInv
<1>2. QED
  BY <1>1, TypeCorrect, ScalingInvariant, PTL DEF Spec, ShrinkOnlyWhenStable

(* The operator implements SafeScaling, however far its caches lag: it     *)
(* removes pods only with the right copy of the StatefulSet and away from  *)
(* the slots, and moves slots only onto the pods of its copy.              *)
THEOREM ImplementsSafeScaling == Spec => ScalesSafely
<1>1. Init => Safe!Init
  BY DEF Init, Safe!Init, NoStatefulSet
<1>2. TypeOK /\ ScalingInv /\ [Next]_vars => [Safe!Next]_Safe!vars
  BY SafeStep
<1>3. QED
  BY <1>1, <1>2, TypeCorrect, ScalingInvariant, PTL
     DEF Spec, ScalesSafely, Safe!Spec
=============================================================================
