--------------------------- MODULE BrokerFailover ---------------------------
(***************************************************************************)
(* StorageScaling with a second broker behind the master.  The master      *)
(* copies its metadata (registry, cluster, slots, migration) to its        *)
(* replicas from time to time (UNDERMOON_SYNC_META_INTERVAL); when it      *)
(* crashes, the next reconcileMaster chooses a replica, as BrokerMaster    *)
(* shows, and the scaling goes on from whatever that replica knows.  The   *)
(* operator does not know whether the replicas have seen the end of a      *)
(* migration when it removes pods.                                         *)
(***************************************************************************)
EXTENDS StorageScaling

CONSTANT MaxDisruptions   \* edits and faults together, a fault being worth
                          \* two edits

ASSUME MaxDisruptionsAssumption == MaxDisruptions \in Nat

VARIABLES
    replica,         \* the metadata of the replica with most epochs
    failedOver,      \* history: a replica has taken the master's place
    strandedStale    \* history: slots got onto pods that are gone by a
                     \* reconcile whose copy of the StatefulSet was outdated

failoverVars == <<vars, replica, failedOver, strandedStale>>

metadata == [registered |-> registered, nodeChunks |-> nodeChunks,
             slotChunks |-> slotChunks, target |-> target]

FailoverInit ==
    /\ Init
    /\ replica = metadata
    /\ failedOver = FALSE
    /\ strandedStale = FALSE

(* The master of the metadata has slots on, or moves slots to, pods that   *)
(* the StatefulSet does not keep.                                          *)
SlotsStranded ==
    \/ PodsOf(slotChunks) > ss.replicas
    \/ PodsOf(target) > ss.replicas

Disruptions == edits + 2 * faults

FaultLeft == faults < MaxFaults /\ Disruptions + 2 <= MaxDisruptions

(* The copy stays as it is.  With no fault left it will never be used, and *)
(* is that of a replica which is always up to date.                        *)
CopyKept ==
    replica' = IF FaultLeft' THEN replica ELSE metadata'

(* The master copies its metadata.                                         *)
SyncMeta ==
    /\ FaultLeft
    /\ replica # metadata
    /\ replica' = metadata
    /\ UNCHANGED <<vars, failedOver, strandedStale>>

(* The steps of Reconcile between reconcileMaster, which returns the       *)
(* address of the master, and the last call to it.                         *)
MasterInUse == {"getServerProxies", "storageAllReady", "registry1", "cluster1",
                "stable", "changeMeta", "removeFreeNodes", "registry2",
                "cluster2"}

Promote ==
    /\ registered' = replica.registered
    /\ nodeChunks' = replica.nodeChunks
    /\ slotChunks' = replica.slotChunks
    /\ target' = replica.target
    /\ failedOver' = TRUE
    /\ UNCHANGED strandedStale

(* Mutant: the StatefulSet of the brokers is not watched. *)
FailoverUnnoticed ==
    /\ FaultLeft
    /\ Fault
    /\ Promote
    /\ IF pc \in MasterInUse
         THEN Requeue
         ELSE UNCHANGED <<pc, locals, queue>>
    /\ CopyKept
    /\ UNCHANGED <<crVars, ssVars, pod>>

(* The master crashes and a replica takes its place.  A reconcile that has *)
(* still to call the old master gets an error; the changed StatefulSet of  *)
(* the brokers queues a request.                                           *)
Failover ==
    /\ FaultLeft
    /\ Fault
    /\ Promote
    /\ IF pc \in MasterInUse THEN Return ELSE UNCHANGED <<pc, locals>>
    /\ queue' = TRUE
    /\ CopyKept
    /\ UNCHANGED <<crVars, ssVars, pod>>

(* A migration ends only with the pods of the cluster running.             *)
MigrationPossible ==
    migrating /\ target' = 0 => FirstPods(nodeChunks) \subseteq InState("running")

OnlyScaling ==
    /\ Disruptions' <= MaxDisruptions
    /\ CopyKept
    /\ strandedStale' = \/ strandedStale
                        \/ /\ ~SlotsStranded /\ SlotsStranded'
                           /\ held.replicas # ss.replicas
    /\ UNCHANGED failedOver

ScalingStep ==
    /\ Next
    /\ MigrationPossible
    /\ OnlyScaling

FailoverNext ==
    \/ ScalingStep
    \/ SyncMeta
    \/ Failover

FailoverSpec == FailoverInit /\ [][FailoverNext]_failoverVars

(* Informers deliver, the StatefulSet controller and the broker make       *)
(* progress, and the single worker keeps executing the queued request.     *)
(* The copying of metadata needs no fairness.                              *)
FailoverFairness ==
    /\ WF_failoverVars(DeliverCr /\ OnlyScaling)
    /\ WF_failoverVars(DeliverSs /\ OnlyScaling)
    /\ WF_failoverVars(StatefulSetController /\ OnlyScaling)
    /\ WF_failoverVars(MigrationCommit /\ MigrationPossible /\ OnlyScaling)
    /\ WF_failoverVars(Reconcile /\ OnlyScaling)

FairFailoverSpec == FailoverSpec /\ FailoverFairness

-----------------------------------------------------------------------------
(* Properties *)

(* Slots get onto, or on the way to, pods that the StatefulSet does not    *)
(* keep in two ways only: by a failover to metadata older than a finished  *)
(* scale-down, or by a reconcile that starts a migration from a copy of    *)
(* the StatefulSet older than the operator's own last scale-down, which    *)
(* nothing between createStorage and changeMeta compares with the present  *)
(* one.                                                                    *)
StrandedExplained == SlotsStranded => failedOver \/ strandedStale

(* Once edits and faults are over, Reconcile brings the cluster to the     *)
(* chunk number of the custom resource for good, whatever metadata the new *)
(* master starts from and however old the copies it worked with, except    *)
(* when slots got onto pods that are gone in one of those two ways and     *)
(* stay there.                                                             *)
ConvergesOrStranded ==
    <>[]Scaled \/ <>[](SlotsStranded /\ (failedOver \/ strandedStale))
=============================================================================
