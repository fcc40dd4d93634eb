----------------------------- MODULE ChunkWidth -----------------------------
(***************************************************************************)
(* The widths of the numbers that scaling computes with.  ChunkNumber is a *)
(* uint32; Spec.Replicas is an int32, obtained from it by two different    *)
(* expressions, one for the guard of createStorage and one for the value   *)
(* written; node numbers and pod names are counted in 64-bit ints, which   *)
(* do not overflow.  A chunk number beyond 2^30 therefore gives a replica  *)
(* number that is negative or too small.                                   *)
(*                                                                         *)
(* The other module on scaling, StorageScaling, has exact numbers and all  *)
(* interleavings; here one reconcile at a time works on fresh data, while  *)
(* the user edits the chunk number and migrations end by themselves.       *)
(***************************************************************************)
EXTENDS Integers

CONSTANTS
    Half,            \* 2^31: an int32 is in -Half .. Half - 1
    Capacity,        \* pods the Kubernetes cluster has room for
    MaxEdits         \* how often the user changes the chunk number

ASSUME WidthAssumption == Half \in Nat \ {0}
ASSUME CapacityAssumption == Capacity \in Nat
ASSUME EditsAssumption == MaxEdits \in Nat

VARIABLES
    chunkNumber,     \* Spec.ChunkNumber
    exists,          \* the storage StatefulSet exists
    replicas,        \* its Spec.Replicas
    pods,            \* its running pods
    nodes,           \* nodes with slots in the broker's metadata
    target,          \* nodes a running migration leads to (0: none runs)
    edits,           \* edits so far
    pc,              \* the step of Reconcile that comes next
    instance         \* Reconcile's copy of Spec.ChunkNumber

vars == <<chunkNumber, exists, replicas, pods, nodes, target, edits, pc,
          instance>>

(* Values of the uint32 field; the schema excludes 0.                      *)
ChunkNumbers == 1 .. 2 * Half - 1

(* The conversion int32(n) *)
Int32(n) == ((n + Half) % (2 * Half)) - Half

halfChunkNodeNumber == 2

chunkNodeNumber == 4

(* Mutant: the guard compares with the number of pods that is meant. *)
neededReplicasWide(c) == c * 2

(* int32(cr.Spec.ChunkNumber)*2, the guard of the scale-out               *)
neededReplicas(c) == Int32(Int32(c) * 2)

(* int32(int(cr.Spec.ChunkNumber) * halfChunkNodeNumber), the value written *)
replicaNum(c) == Int32(c * halfChunkNodeNumber)

(* Mutant: the node number has the width of the replica number. *)
nodeNumberNarrow(c) == Int32(c * chunkNodeNumber)

(* chunkNumber * chunkNodeNumber and int(cr.Spec.ChunkNumber) * chunkNodeNumber *)
nodeNumber(c) == c * chunkNodeNumber

(* Nodes on the registered proxies: each pod has two.                      *)
AvailableNodes == pods * (chunkNodeNumber \div halfChunkNodeNumber)

Init ==
    /\ chunkNumber \in ChunkNumbers
    /\ exists = FALSE
    /\ replicas = 0
    /\ pods = 0
    /\ nodes = 0
    /\ target = 0
    /\ edits = 0
    /\ pc = "idle"
    /\ instance = 0

-----------------------------------------------------------------------------
UserEdit(c) ==
    /\ c # chunkNumber
    /\ edits < MaxEdits
    /\ edits' = edits + 1
    /\ chunkNumber' = c
    /\ UNCHANGED <<exists, replicas, pods, nodes, target, pc, instance>>

SyncPods ==
    /\ pods' = IF replicas < Capacity THEN replicas ELSE Capacity
    /\ pods' # pods
    /\ UNCHANGED <<chunkNumber, exists, replicas, nodes, target, edits, pc,
                   instance>>

MigrationCommit ==
    /\ target # 0
    /\ nodes' = target
    /\ target' = 0
    /\ UNCHANGED <<chunkNumber, exists, replicas, pods, edits, pc, instance>>

-----------------------------------------------------------------------------
ReconcileStart ==
    /\ pc = "idle"
    /\ pc' = "createStorage"
    /\ instance' = chunkNumber
    /\ UNCHANGED <<chunkNumber, exists, replicas, pods, nodes, target, edits>>

GoTo(step) ==
    /\ pc' = step
    /\ UNCHANGED <<chunkNumber, pods, edits, instance>>

Requeue ==
    /\ pc' = "idle"
    /\ instance' = 0
    /\ UNCHANGED <<chunkNumber, exists, replicas, pods, nodes, target, edits>>

(* The API server accepts no negative replica number.                      *)
WriteReplicas(next) ==
    /\ replicaNum(instance) >= 0
    /\ exists' = TRUE
    /\ replicas' = replicaNum(instance)
    /\ GoTo(next)
    /\ UNCHANGED <<nodes, target>>

(* createStorage: the set is created, or grows, or is left alone.          *)
ScalesOut == ~exists \/ neededReplicas(instance) > replicas

CreateStorage ==
    /\ pc = "createStorage"
    /\ ScalesOut
    /\ WriteReplicas("ready")

CreateStorageRefused ==
    /\ pc = "createStorage"
    /\ ScalesOut
    /\ replicaNum(instance) < 0
    /\ Requeue

KeepReplicas ==
    /\ pc = "createStorage"
    /\ ~ScalesOut
    /\ GoTo("ready")
    /\ UNCHANGED <<exists, replicas, nodes, target>>

AllReady == pods >= replicaNum(instance)

AllReadyAndStable == AllReady /\ pods = replicas

(* createCluster in reconcileMeta, before it is known whether the set is   *)
(* stable.  The broker needs the nodes.                                    *)
CreateCluster ==
    /\ pc = "ready"
    /\ AllReady
    /\ nodes = 0
    /\ nodeNumber(instance) <= AvailableNodes
    /\ nodes' = nodeNumber(instance)
    /\ GoTo("stable")
    /\ UNCHANGED <<exists, replicas, target>>

ClusterExists ==
    /\ pc = "ready"
    /\ AllReady
    /\ nodes # 0
    /\ GoTo("stable")
    /\ UNCHANGED <<exists, replicas, nodes, target>>

(* Not ready, or NO_AVAILABLE_RESOURCE                                     *)
ReconcileMetaRefused ==
    /\ pc = "ready"
    /\ ~AllReady \/ (nodes = 0 /\ nodeNumber(instance) > AvailableNodes)
    /\ Requeue

(* changeNodeNumber                                                        *)
ScaleNodes ==
    /\ pc = "stable"
    /\ AllReadyAndStable
    /\ target = 0
    /\ nodeNumber(instance) <= AvailableNodes
    /\ target' = IF nodeNumber(instance) = nodes THEN 0 ELSE nodeNumber(instance)
    /\ GoTo("scaleDown")
    /\ UNCHANGED <<exists, replicas, nodes>>

(* Not stable, NO_AVAILABLE_RESOURCE or MIGRATION_RUNNING                  *)
ScaleNodesRefused ==
    /\ pc = "stable"
    /\ ~AllReadyAndStable \/ target # 0 \/ nodeNumber(instance) > AvailableNodes
    /\ Requeue

(* scaleDownStorageStatefulSet                                             *)
ScaleDown ==
    /\ pc = "scaleDown"
    /\ nodes = nodeNumber(instance)
    /\ WriteReplicas("done")

(* The slots are still moving, or the API server refuses the number.       *)
ScaleDownWait ==
    /\ pc = "scaleDown"
    /\ nodes # nodeNumber(instance) \/ replicaNum(instance) < 0
    /\ Requeue

Finish ==
    /\ pc = "done"
    /\ Requeue

Next ==
    \/ \E c \in ChunkNumbers : UserEdit(c)
    \/ SyncPods
    \/ MigrationCommit
    \/ ReconcileStart
    \/ CreateStorage
    \/ CreateStorageRefused
    \/ KeepReplicas
    \/ CreateCluster
    \/ ClusterExists
    \/ ReconcileMetaRefused
    \/ ScaleNodes
    \/ ScaleNodesRefused
    \/ ScaleDown
    \/ ScaleDownWait
    \/ Finish

Spec == Init /\ [][Next]_vars

-----------------------------------------------------------------------------
(* Properties *)

(* The types of the variables: the replica number is an int32.             *)
TypeOK ==
    /\ chunkNumber \in ChunkNumbers
    /\ exists \in BOOLEAN
    /\ replicas \in 0 .. Half - 1
    /\ pods \in 0 .. Capacity
    /\ nodes \in 0 .. chunkNodeNumber * Half
    /\ target \in 0 .. chunkNodeNumber * Half
    /\ edits \in 0 .. MaxEdits
    /\ pc \in {"idle", "createStorage", "ready", "stable", "scaleDown",
               "done"}
    /\ instance \in ChunkNumbers \union {0}

(* Whatever chunk number the field can hold, the StatefulSet keeps the     *)
(* pods of all nodes that have slots or are getting them: a wrapped        *)
(* replica number is never written while slots are on the pods beyond it.  *)
(* It needs the guard of createStorage to wrap like the value written, and *)
(* the node number given to the broker not to wrap.                        *)
WrapStrandsNoSlots ==
    /\ nodes <= replicas * halfChunkNodeNumber
    /\ target <= replicas * halfChunkNodeNumber

(* A reconcile that ends without a requeue has the exact number of pods    *)
(* and nodes of its chunk number, never a wrapped one.                     *)
DoneIsExact ==
    pc = "done" =>
        /\ replicas = instance * halfChunkNodeNumber
        /\ nodes = instance * chunkNodeNumber
=============================================================================
