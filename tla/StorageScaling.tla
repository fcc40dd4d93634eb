--------------------------- MODULE StorageScaling ---------------------------
(***************************************************************************)
(* The scaling protocol of the Undermoon operator: one Reconcile at a time *)
(* (undermoon_controller.go) drives the storage StatefulSet and the        *)
(* cluster metadata kept by the master broker towards Spec.ChunkNumber,    *)
(* while the user edits the custom resource, the StatefulSet controller    *)
(* creates and deletes pods, pods are killed, slots migrate, informer      *)
(* caches lag and any call may fail.                                       *)
(*                                                                         *)
(* A chunk is four nodes on two pods; the brokers run with ordered proxies *)
(* so that a cluster of n chunks lives on the pods 0 .. 2n-1.  A           *)
(* StatefulSet is the record of its Spec.Replicas, Status.Replicas and     *)
(* Status.CurrentReplicas; replicas = 0 stands for "does not exist".       *)
(* A resourceVersion is abstracted to whether a copy is the latest version *)
(* (ssSynced, heldCurrent, crSynced, instanceCurrent).                     *)
(***************************************************************************)
EXTENDS Integers, FiniteSets

CONSTANTS
    MaxChunk,        \* the largest Spec.ChunkNumber a user asks for
    MaxEdits,        \* how often the user changes Spec.ChunkNumber
    MaxFaults        \* killed pods, failed calls and operator restarts

ASSUME MaxChunkAssumption == MaxChunk \in Nat \ {0}
ASSUME MaxEditsAssumption == MaxEdits \in Nat
ASSUME MaxFaultsAssumption == MaxFaults \in Nat

VARIABLES
    chunkNumber,     \* Spec.ChunkNumber at the API server
    crCache,         \* the operator's cached Spec.ChunkNumber
    crSynced,        \* the cached custom resource is the latest version
    queue,           \* a request waits in the work queue
    ss,              \* the storage StatefulSet at the API server
    ssCache,         \* the operator's cached copy of it
    ssSynced,        \* the cached copy is the latest version
    pod,             \* the storage pods
    registered,      \* server proxies (pods) registered at the broker
    nodeChunks,      \* chunks of the cluster (0: no cluster yet)
    slotChunks,      \* chunks that own slots
    target,          \* chunks a running migration leads to (0: none runs)
    edits,           \* user edits so far
    faults,          \* faults so far
    pc,              \* the step of Reconcile that comes next
    instance,        \* Reconcile's copy of Spec.ChunkNumber
    instanceCurrent, \* that copy has the latest resourceVersion
    held,            \* Reconcile's copy of the StatefulSet
    heldCurrent,     \* that copy has the latest resourceVersion
    proxies,         \* the proxies found in the service's endpoints
    allReady,        \* the result of storageAllReady
    info,            \* the cluster info last read from the broker
    freeFound        \* scaleNodes answered FREE_NODE_FOUND

crVars == <<chunkNumber, crCache, crSynced>>
ssVars == <<ss, ssCache, ssSynced>>
budgets == <<edits, faults>>
brokerVars == <<registered, nodeChunks, slotChunks, target>>
locals == <<instance, instanceCurrent, held, heldCurrent, proxies, allReady,
            info, freeFound>>
vars == <<crVars, queue, ssVars, pod, brokerVars, budgets, pc, locals>>

-----------------------------------------------------------------------------
(* Constants and shapes *)

halfChunkNodeNumber == 2

PodsOf(chunks) == chunks * halfChunkNodeNumber

MaxPods == PodsOf(MaxChunk)

Pods == 0 .. MaxPods - 1

FirstPods(chunks) == {p \in Pods : p < PodsOf(chunks)}

StatefulSets == [replicas : 0 .. MaxPods, total : 0 .. MaxPods,
                 current : 0 .. MaxPods]

NoStatefulSet == [replicas |-> 0, total |-> 0, current |-> 0]

NoInfo == [withSlots |-> 0, migrating |-> FALSE]

Steps == {"idle", "createStorage", "reconcileMaster", "getServerProxies",
          "storageAllReady", "registry1", "cluster1", "stable", "changeMeta",
          "removeFreeNodes", "registry2", "cluster2", "scaleDown", "done"}

InState(s) == {p \in Pods : pod[p] = s}

(* Pods listed by getEndpoints: the service publishes addresses that are   *)
(* not ready, so a terminating pod stays listed until it is gone.  The     *)
(* code lists them through an informer cache of Endpoints; its delay is    *)
(* left out, and no proof uses which pods are listed.                      *)
Endpoints == Pods \ InState("absent")

migrating == target # 0

-----------------------------------------------------------------------------
Init ==
    /\ chunkNumber \in 1 .. MaxChunk
    /\ crCache = chunkNumber
    /\ crSynced = TRUE
    /\ queue = TRUE
    /\ ss = NoStatefulSet
    /\ ssCache = NoStatefulSet
    /\ ssSynced = TRUE
    /\ pod = [p \in Pods |-> "absent"]
    /\ registered = {}
    /\ nodeChunks = 0
    /\ slotChunks = 0
    /\ target = 0
    /\ edits = 0
    /\ faults = 0
    /\ pc = "idle"
    /\ instance = 0
    /\ instanceCurrent = FALSE
    /\ held = NoStatefulSet
    /\ heldCurrent = FALSE
    /\ proxies = {}
    /\ allReady = FALSE
    /\ info = NoInfo
    /\ freeFound = FALSE

-----------------------------------------------------------------------------
(* The environment: user, API server, StatefulSet controller, broker.      *)

Fault ==
    /\ faults < MaxFaults
    /\ faults' = faults + 1
    /\ UNCHANGED edits

(* kubectl patch of /spec/chunkNumber *)
UserEdit(n) ==
    /\ n # chunkNumber
    /\ edits < MaxEdits
    /\ edits' = edits + 1
    /\ UNCHANGED faults
    /\ chunkNumber' = n
    /\ crSynced' = FALSE
    /\ instanceCurrent' = FALSE
    /\ UNCHANGED <<crCache, queue, ssVars, pod, brokerVars, pc, instance,
                   held, heldCurrent, proxies, allReady, info, freeFound>>

(* The watch on Undermoon delivers the latest object and queues a request. *)
DeliverCr ==
    /\ ~crSynced
    /\ crCache' = chunkNumber
    /\ crSynced' = TRUE
    /\ queue' = TRUE
    /\ UNCHANGED <<chunkNumber, ssVars, pod, brokerVars, budgets, pc,
                   locals>>

(* The watch on owned StatefulSets does the same for the storage set.      *)
DeliverSs ==
    /\ ~ssSynced
    /\ ssCache' = ss
    /\ ssSynced' = TRUE
    /\ queue' = TRUE
    /\ UNCHANGED <<crVars, ss, pod, brokerVars, budgets, pc, locals>>

SetPod(p, from, to) ==
    /\ pod[p] = from
    /\ pod' = [pod EXCEPT ![p] = to]
    /\ UNCHANGED <<crVars, queue, ssVars, brokerVars, pc, locals>>

(* One pass of the StatefulSet controller: with parallel pod management it *)
(* creates all the missing pods and deletes all the surplus ones.          *)
SyncPods ==
    /\ pod' = [p \in Pods |->
                 IF p < ss.replicas /\ pod[p] = "absent" THEN "running"
                 ELSE IF p >= ss.replicas /\ pod[p] = "running"
                   THEN "terminating"
                 ELSE pod[p]]
    /\ pod' # pod
    /\ UNCHANGED <<crVars, queue, ssVars, brokerVars, budgets, pc,
                   locals>>

PodGone(p) ==
    /\ SetPod(p, "terminating", "absent")
    /\ UNCHANGED budgets

(* kubectl delete pod *)
KillPod(p) ==
    /\ SetPod(p, "running", "terminating")
    /\ Fault

ObservedStatus ==
    [ss EXCEPT !.total = Cardinality(Endpoints),
               !.current = Cardinality(InState("running"))]

UpdateStatus ==
    /\ ss.replicas # 0
    /\ ss # ObservedStatus
    /\ ss' = ObservedStatus
    /\ ssSynced' = FALSE
    /\ heldCurrent' = FALSE
    /\ UNCHANGED <<crVars, queue, ssCache, pod, brokerVars, budgets, pc,
                   instance, instanceCurrent, held, proxies, allReady, info,
                   freeFound>>

(* The running migration ends and its slots live on the target chunks.     *)
MigrationCommit ==
    /\ migrating
    /\ slotChunks' = target
    /\ target' = 0
    /\ UNCHANGED <<crVars, queue, ssVars, pod, registered, nodeChunks,
                   budgets, pc, locals>>

-----------------------------------------------------------------------------
(* Reconcile.  Every return leaves through Return, which drops the locals. *)

Return ==
    /\ pc' = "idle"
    /\ instance' = 0
    /\ instanceCurrent' = FALSE
    /\ held' = NoStatefulSet
    /\ heldCurrent' = FALSE
    /\ proxies' = {}
    /\ allReady' = FALSE
    /\ info' = NoInfo
    /\ freeFound' = FALSE

(* Result{Requeue: true} and a non-nil error both put the request back.    *)
Requeue ==
    /\ Return
    /\ queue' = TRUE

ReconcileStart ==
    /\ pc = "idle"
    /\ queue
    /\ queue' = FALSE
    /\ pc' = "createStorage"
    /\ instance' = crCache
    /\ instanceCurrent' = crSynced
    /\ UNCHANGED <<crVars, ssVars, pod, brokerVars, budgets, held,
                   heldCurrent, proxies, allReady, info, freeFound>>

expectedReplicas == PodsOf(instance)

(* createStorage found no StatefulSet in the cache and created it.         *)
CreateStatefulSet ==
    /\ pc = "createStorage"
    /\ ssCache.replicas = 0
    /\ ss.replicas = 0
    /\ ss' = [NoStatefulSet EXCEPT !.replicas = expectedReplicas]
    /\ ssSynced' = FALSE
    /\ held' = ss'
    /\ heldCurrent' = TRUE
    /\ pc' = "reconcileMaster"
    /\ UNCHANGED <<crVars, queue, ssCache, pod, brokerVars, budgets,
                   instance, instanceCurrent, proxies, allReady, info,
                   freeFound>>

(* The cache has not seen the StatefulSet yet: AlreadyExists on all tries. *)
StatefulSetExists ==
    /\ pc = "createStorage"
    /\ ssCache.replicas = 0
    /\ ss.replicas # 0
    /\ Requeue
    /\ UNCHANGED <<crVars, ssVars, pod, brokerVars, budgets>>

(* Mutant: one pod per node instead of one per two nodes.                  *)
UpdateReplicasPerNode ==
    /\ ss' = [ss EXCEPT !.replicas = 2 * expectedReplicas]
    /\ ssSynced' = (ssSynced /\ ss' = ss)
    /\ UNCHANGED ssCache

(* updateStorageStatefulSet: the API server refuses a copy that is not the *)
(* latest version; an update that changes nothing makes no new version.    *)
UpdateReplicas ==
    /\ ss' = [ss EXCEPT !.replicas = expectedReplicas]
    /\ ssSynced' = (ssSynced /\ ss' = ss)
    /\ UNCHANGED ssCache

ScaleUp ==
    /\ pc = "createStorage"
    /\ ssCache.replicas # 0
    /\ expectedReplicas > ssCache.replicas
    /\ ssSynced
    /\ UpdateReplicas
    /\ held' = ss'
    /\ heldCurrent' = TRUE
    /\ pc' = "reconcileMaster"
    /\ UNCHANGED <<crVars, queue, pod, brokerVars, budgets, instance,
                   instanceCurrent, proxies, allReady, info, freeFound>>

ScaleUpConflict ==
    /\ pc = "createStorage"
    /\ ssCache.replicas # 0
    /\ expectedReplicas > ssCache.replicas
    /\ ~ssSynced
    /\ Requeue
    /\ UNCHANGED <<crVars, ssVars, pod, brokerVars, budgets>>

KeepReplicas ==
    /\ pc = "createStorage"
    /\ ssCache.replicas # 0
    /\ expectedReplicas <= ssCache.replicas
    /\ held' = ssCache
    /\ heldCurrent' = ssSynced
    /\ pc' = "reconcileMaster"
    /\ UNCHANGED <<crVars, queue, ssVars, pod, brokerVars, budgets,
                   instance, instanceCurrent, proxies, allReady, info,
                   freeFound>>

(* setMasterBrokerStatus updates the status of the copied resource: a      *)
(* conflict sends a reconcile that started from a stale resource back.     *)
(* The address it stores, and the brokers, are those of BrokerMaster.      *)
SetMasterBrokerStatus ==
    /\ pc = "reconcileMaster"
    /\ instanceCurrent
    /\ pc' = "getServerProxies"
    /\ UNCHANGED <<crVars, queue, ssVars, pod, brokerVars, budgets,
                   locals>>

MasterStatusConflict ==
    /\ pc = "reconcileMaster"
    /\ ~instanceCurrent
    /\ Requeue
    /\ UNCHANGED <<crVars, ssVars, pod, brokerVars, budgets>>

GetServerProxies ==
    /\ pc = "getServerProxies"
    /\ proxies' = Endpoints
    /\ pc' = "storageAllReady"
    /\ UNCHANGED <<crVars, queue, ssVars, pod, brokerVars, budgets,
                   instance, instanceCurrent, held, heldCurrent, allReady,
                   info, freeFound>>

EnoughEndpoints == Cardinality(Endpoints) >= expectedReplicas

StorageAllReady ==
    /\ pc = "storageAllReady"
    /\ allReady' = EnoughEndpoints
    /\ pc' = "registry1"
    /\ UNCHANGED <<crVars, queue, ssVars, pod, brokerVars, budgets,
                   instance, instanceCurrent, held, heldCurrent, proxies,
                   info, freeFound>>

(* deregisterServerProxies: registered, neither expected nor listed.       *)
DeleteList(listed) == registered \ (FirstPods(instance) \union listed)

(* The broker keeps a proxy that the cluster uses: the call fails.         *)
InUse == FirstPods(nodeChunks)

(* Register the listed proxies, then deregister the delete list.  Failed   *)
(* calls (lost) are only logged.                                           *)
ReconcileServerProxyRegistry(listed, lost) ==
    registered' = (registered \union (listed \ lost))
                    \ ((DeleteList(listed) \ InUse) \ lost)

(* At most one call of a round is lost. *)
LoseCall(lost) ==
    IF lost = {} THEN UNCHANGED budgets
                 ELSE Cardinality(lost) = 1 /\ Fault

(* The first reconcileMeta; without all pods it ends after the registry.   *)
ReconcileMeta1(lost) ==
    /\ pc = "registry1"
    /\ LoseCall(lost)
    /\ ReconcileServerProxyRegistry(proxies, lost)
    /\ proxies' = {}
    /\ pc' = "cluster1"
    /\ allReady
    /\ UNCHANGED <<crVars, queue, ssVars, pod, nodeChunks, slotChunks, target,
                   instance, instanceCurrent, held, heldCurrent, allReady,
                   info, freeFound>>

ReconcileMeta1NotReady(lost) ==
    /\ pc = "registry1"
    /\ LoseCall(lost)
    /\ ReconcileServerProxyRegistry(proxies, lost)
    /\ ~allReady
    /\ Requeue
    /\ UNCHANGED <<crVars, ssVars, pod, nodeChunks, slotChunks, target>>

(* The second reconcileMeta ignores the listed proxies and reuses the old  *)
(* value of storageAllReady.                                               *)
ReconcileMeta2(lost) ==
    /\ pc = "registry2"
    /\ LoseCall(lost)
    /\ ReconcileServerProxyRegistry({}, lost)
    /\ allReady
    /\ pc' = "cluster2"
    /\ UNCHANGED <<crVars, queue, ssVars, pod, nodeChunks, slotChunks, target,
                   locals>>

(* createCluster: the broker needs all the proxies the cluster will use.   *)
ClusterStep(next) ==
    /\ IF nodeChunks = 0
         THEN /\ FirstPods(instance) \subseteq registered
              /\ nodeChunks' = instance
              /\ slotChunks' = instance
         ELSE UNCHANGED <<nodeChunks, slotChunks>>
    /\ info' = [withSlots |-> slotChunks', migrating |-> migrating]
    /\ pc' = next
    /\ UNCHANGED <<crVars, queue, ssVars, pod, registered, target,
                   budgets, instance, instanceCurrent, held, heldCurrent,
                   proxies, allReady, freeFound>>

GetClusterInfo1 == pc = "cluster1" /\ ClusterStep("stable")

GetClusterInfo2 == pc = "cluster2" /\ ClusterStep("scaleDown")

(* NO_AVAILABLE_RESOURCE *)
CreateClusterRefused ==
    /\ pc = "cluster1"
    /\ nodeChunks = 0
    /\ ~ (FirstPods(instance) \subseteq registered)
    /\ Requeue
    /\ UNCHANGED <<crVars, ssVars, pod, brokerVars, budgets>>

Stable ==
    /\ EnoughEndpoints
    /\ held.current = held.replicas
    /\ held.total = held.replicas

StorageAllReadyAndStable ==
    /\ pc = "stable"
    /\ Stable
    /\ pc' = "changeMeta"
    /\ UNCHANGED <<crVars, queue, ssVars, pod, brokerVars, budgets,
                   locals>>

StorageNotStable ==
    /\ pc = "stable"
    /\ ~Stable
    /\ Requeue
    /\ UNCHANGED <<crVars, ssVars, pod, brokerVars, budgets>>

ChangeMetaMigrating ==
    /\ pc = "changeMeta"
    /\ info.migrating
    /\ Requeue
    /\ UNCHANGED <<crVars, ssVars, pod, brokerVars, budgets>>

FreeNodes == ~migrating /\ nodeChunks > slotChunks

(* The broker starts a migration, or has nothing to do.  Whether the       *)
(* chunks of a running scale-out already count as having slots is left     *)
(* open.                                                                   *)
ScaleNodes ==
    /\ pc = "changeMeta"
    /\ ~info.migrating
    /\ ~migrating
    /\ nodeChunks = slotChunks
    /\ FirstPods(instance) \subseteq registered \/ instance <= nodeChunks
    /\ IF instance > nodeChunks
         THEN nodeChunks' = instance /\ slotChunks' \in {slotChunks, instance}
         ELSE UNCHANGED <<nodeChunks, slotChunks>>
    /\ target' = IF instance = nodeChunks THEN 0 ELSE instance
    /\ pc' = "removeFreeNodes"
    /\ UNCHANGED <<crVars, queue, ssVars, pod, registered, budgets,
                   locals>>

(* Mutant: forgets that the chunk number was not applied. *)
ScaleNodesFreeForgotten ==
    /\ pc = "changeMeta"
    /\ ~info.migrating
    /\ FreeNodes
    /\ pc' = "removeFreeNodes"
    /\ UNCHANGED <<crVars, queue, ssVars, pod, brokerVars, budgets, locals>>

(* FREE_NODE_FOUND *)
ScaleNodesFreeFound ==
    /\ pc = "changeMeta"
    /\ ~info.migrating
    /\ FreeNodes
    /\ freeFound' = TRUE
    /\ pc' = "removeFreeNodes"
    /\ UNCHANGED <<crVars, queue, ssVars, pod, brokerVars, budgets,
                   instance, instanceCurrent, held, heldCurrent, proxies,
                   allReady, info>>

(* MIGRATION_RUNNING, or not enough registered proxies *)
ScaleNodesRefused ==
    /\ pc = "changeMeta"
    /\ ~info.migrating
    /\ \/ migrating
       \/ /\ instance > nodeChunks
          /\ nodeChunks = slotChunks
          /\ ~ (FirstPods(instance) \subseteq registered)
    /\ Requeue
    /\ UNCHANGED <<crVars, ssVars, pod, brokerVars, budgets>>

(* removeFreeNodes succeeds or answers FREE_NODE_NOT_FOUND.                *)
RemoveFreeNodes ==
    /\ pc = "removeFreeNodes"
    /\ migrating => nodeChunks = slotChunks
    /\ nodeChunks' = slotChunks
    /\ ~freeFound
    /\ pc' = "registry2"
    /\ UNCHANGED <<crVars, queue, ssVars, pod, registered, slotChunks, target,
                   budgets, locals>>

RemoveFreeNodesRetry ==
    /\ pc = "removeFreeNodes"
    /\ migrating => nodeChunks = slotChunks
    /\ nodeChunks' = slotChunks
    /\ freeFound
    /\ Requeue
    /\ UNCHANGED <<crVars, ssVars, pod, registered, slotChunks, target,
                   budgets>>

(* MIGRATION_RUNNING *)
RemoveFreeNodesBusy ==
    /\ pc = "removeFreeNodes"
    /\ migrating
    /\ Requeue
    /\ UNCHANGED <<crVars, ssVars, pod, brokerVars, budgets>>

(* The update answers with the stored object.                              *)
StoreReplicas ==
    /\ UpdateReplicas
    /\ held' = ss'
    /\ pc' = "done"
    /\ UNCHANGED <<crVars, queue, pod, brokerVars, budgets, instance,
                   instanceCurrent, heldCurrent, proxies, allReady, info,
                   freeFound>>

(* Mutant: does not wait for the slots to leave the surplus pods.          *)
ScaleDownBeforeMigration ==
    /\ pc = "scaleDown"
    /\ info.withSlots >= instance
    /\ heldCurrent
    /\ StoreReplicas

(* Mutant: writes without the resourceVersion of the copy it checked.      *)
ScaleDownUnversioned ==
    /\ pc = "scaleDown"
    /\ info.withSlots = instance
    /\ StoreReplicas

(* scaleDownStorageStatefulSet *)
ScaleDown ==
    /\ pc = "scaleDown"
    /\ info.withSlots = instance
    /\ heldCurrent
    /\ StoreReplicas

(* Mutant: returns without an error, so nothing asks for another run.      *)
ScaleDownNoRetry ==
    /\ pc = "scaleDown"
    /\ info.withSlots # instance
    /\ Return
    /\ UNCHANGED <<crVars, queue, ssVars, pod, brokerVars, budgets>>

ScaleDownWait ==
    /\ pc = "scaleDown"
    /\ info.withSlots # instance
    /\ Requeue
    /\ UNCHANGED <<crVars, ssVars, pod, brokerVars, budgets>>

ScaleDownConflict ==
    /\ pc = "scaleDown"
    /\ info.withSlots = instance
    /\ ~heldCurrent
    /\ Requeue
    /\ UNCHANGED <<crVars, ssVars, pod, brokerVars, budgets>>

(* return reconcile.Result{}, nil: nothing is requeued *)
Finish ==
    /\ pc = "done"
    /\ Return
    /\ UNCHANGED <<crVars, queue, ssVars, pod, brokerVars, budgets>>

(* A call fails, brokers or coordinators are not ready, or the operator    *)
(* restarts: Reconcile ends where it is and starts over.                   *)
Abort ==
    /\ pc \notin {"idle", "done"}
    /\ Fault
    /\ Requeue
    /\ UNCHANGED <<crVars, ssVars, pod, brokerVars>>

-----------------------------------------------------------------------------
StatefulSetController ==
    \/ SyncPods
    \/ \E p \in Pods : PodGone(p)
    \/ UpdateStatus

Environment ==
    \/ \E n \in 1 .. MaxChunk : UserEdit(n)
    \/ DeliverCr
    \/ DeliverSs
    \/ StatefulSetController
    \/ \E p \in Pods : KillPod(p)
    \/ MigrationCommit

CreateStorage ==
    CreateStatefulSet \/ StatefulSetExists \/ ScaleUp \/ ScaleUpConflict
      \/ KeepReplicas

ReconcileMaster == SetMasterBrokerStatus \/ MasterStatusConflict

(* The calls that fail in one round of the registry: none, or one of those *)
(* about the registered and the listed proxies.                            *)
LostCalls == {{}} \union {{p} : p \in registered \union proxies}

ReconcileMeta ==
    \/ \E lost \in LostCalls :
          \/ ReconcileMeta1(lost)
          \/ ReconcileMeta1NotReady(lost)
          \/ ReconcileMeta2(lost)
    \/ GetClusterInfo1
    \/ GetClusterInfo2
    \/ CreateClusterRefused

ChangeMeta ==
    ChangeMetaMigrating \/ ScaleNodes \/ ScaleNodesFreeFound
      \/ ScaleNodesRefused \/ RemoveFreeNodes \/ RemoveFreeNodesRetry
      \/ RemoveFreeNodesBusy

Reconcile ==
    \/ ReconcileStart
    \/ CreateStorage
    \/ ReconcileMaster
    \/ GetServerProxies
    \/ StorageAllReady
    \/ ReconcileMeta
    \/ StorageAllReadyAndStable
    \/ StorageNotStable
    \/ ChangeMeta
    \/ ScaleDown
    \/ ScaleDownWait
    \/ ScaleDownConflict
    \/ Finish

Next == Environment \/ Reconcile \/ Abort

Spec == Init /\ [][Next]_vars

-----------------------------------------------------------------------------
(* Properties *)

(* The types of the variables. *)
TypeOK ==
    /\ chunkNumber \in 1 .. MaxChunk
    /\ crCache \in 1 .. MaxChunk
    /\ crSynced \in BOOLEAN
    /\ queue \in BOOLEAN
    /\ ss \in StatefulSets
    /\ ssCache \in StatefulSets
    /\ ssSynced \in BOOLEAN
    /\ pod \in [Pods -> {"absent", "running", "terminating"}]
    /\ registered \subseteq Pods
    /\ nodeChunks \in 0 .. MaxChunk
    /\ slotChunks \in 0 .. MaxChunk
    /\ target \in 0 .. MaxChunk
    /\ edits \in 0 .. MaxEdits
    /\ faults \in 0 .. MaxFaults
    /\ pc \in Steps
    /\ instance \in 0 .. MaxChunk
    /\ instanceCurrent \in BOOLEAN
    /\ held \in StatefulSets
    /\ heldCurrent \in BOOLEAN
    /\ proxies \subseteq Pods
    /\ allReady \in BOOLEAN
    /\ info \in [withSlots : 0 .. MaxChunk, migrating : BOOLEAN]
    /\ freeFound \in BOOLEAN

(* However stale the caches are, a step that shrinks the StatefulSet       *)
(* leaves every slot on a remaining pod and no migration heading for a     *)
(* removed one (scaleDownStorageStatefulSet reads the node number after    *)
(* changeMeta).                                                            *)
ShrinkKeepsSlots ==
    [][ss'.replicas < ss.replicas =>
         /\ PodsOf(slotChunks) <= ss'.replicas
         /\ PodsOf(target) <= ss'.replicas]_vars

(* The StatefulSet shrinks only from a state in which its status, at the   *)
(* API server and not only in the copy that Reconcile checked some calls   *)
(* earlier, says that all its pods are there and none is terminating       *)
(* (storageAllReadyAndStable plus the resourceVersion of the held copy).   *)
ShrinkOnlyWhenStable ==
    [][ss'.replicas < ss.replicas =>
         ss.total = ss.replicas /\ ss.current = ss.replicas]_vars

(* When Reconcile returns without asking to be run again, the chunk number *)
(* it worked for is what the slots and the StatefulSet have.               *)
DoneMeansScaled ==
    pc = "done" =>
        /\ slotChunks = instance
        /\ ss.replicas = PodsOf(instance)

(* A copy marked as the latest version is the object at the API server.    *)
VersionsInv ==
    /\ ssSynced => ssCache = ss
    /\ heldCurrent => held = ss

(* From createStorage on Reconcile works for a positive chunk number and   *)
(* holds a StatefulSet with enough replicas for it.                        *)
HeldInv ==
    /\ pc # "idle" => instance # 0
    /\ pc \notin {"idle", "createStorage"} => held.replicas >= PodsOf(instance)

(* Until the cluster exists the set has only grown, so no copy of it has   *)
(* more replicas than the set; the stability check comes after             *)
(* createCluster.                                                          *)
FirstClusterInv ==
    /\ slotChunks = 0 <=> nodeChunks = 0
    /\ slotChunks = 0 =>
         /\ target = 0
         /\ ssCache.replicas <= ss.replicas
         /\ held.replicas <= ss.replicas
         /\ pc \notin {"stable", "changeMeta", "removeFreeNodes", "registry2",
                       "cluster2", "scaleDown", "done"}

(* Past storageAllReadyAndStable the held copy reports a stable set.       *)
StableInv ==
    pc \in {"changeMeta", "removeFreeNodes", "registry2", "cluster2",
            "scaleDown"} =>
        held.total = held.replicas /\ held.current = held.replicas

(* Once scaleNodes succeeded the slots are, or are migrating to, where     *)
(* this reconcile wants them.                                              *)
ChangedInv ==
    pc \in {"registry2", "cluster2", "scaleDown", "done"}
      \/ (pc = "removeFreeNodes" /\ ~freeFound) =>
        /\ target \in {0, instance}
        /\ target = 0 => slotChunks = instance

(* The node number read for the scale-down is right, or the migration has  *)
(* ended since and it is too high.                                         *)
InfoInv ==
    pc = "scaleDown" => info.withSlots = slotChunks \/ slotChunks = instance

(* Why scaling is safe, step by step of Reconcile: versions, the replicas  *)
(* held, what holds before the first cluster, what the stability check     *)
(* established, what scaleNodes established, and how fresh the cluster     *)
(* info is.  This is the inductive strengthening that the proofs use.      *)
ScalingInv ==
    /\ VersionsInv
    /\ HeldInv
    /\ FirstClusterInv
    /\ StableInv
    /\ ChangedInv
    /\ InfoInv
    /\ DoneMeansScaled

(* The operator implements SafeScaling, however far its caches lag: pods   *)
(* are removed only by a reconcile whose copy of the StatefulSet is right  *)
(* and when neither slots nor a migration need them                        *)
(* (scaleDownStorageStatefulSet), slots migrate only to pods of that copy  *)
(* (createStorage before changeMeta), the first cluster is created on pods *)
(* the set keeps, and no step changes the pods and the slots at once.      *)
Safe == INSTANCE SafeScaling WITH replicas <- ss.replicas,
                                  cache <- ssCache.replicas,
                                  view <- held.replicas

ScalesSafely == Safe!Spec

(* What the comment before storageAllReadyAndStable says it is for: when   *)
(* the check passes, no storage pod is terminating any more.  Said here    *)
(* only for a reconcile that holds the latest version of the StatefulSet,  *)
(* so that a lagging cache is no excuse.                                   *)
StableMeansNoneTerminating ==
    pc = "stable" /\ Stable /\ heldCurrent => InState("terminating") = {}

(* What the comment on keepSet says: a proxy whose pod failed, but which   *)
(* still serves slots, is not put on the delete list.                      *)
FailedInUseProxiesKept ==
    pc = "registry1" => DeleteList(proxies) \intersect FirstPods(slotChunks) = {}

(* The cluster has the chunk number of the custom resource: pods, nodes    *)
(* and slots.                                                              *)
Scaled ==
    /\ slotChunks = chunkNumber
    /\ nodeChunks = chunkNumber
    /\ ~migrating
    /\ ss.replicas = PodsOf(chunkNumber)
    /\ InState("running") = FirstPods(chunkNumber)
    /\ InState("terminating") = {}
=============================================================================
