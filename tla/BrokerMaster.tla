---------------------------- MODULE BrokerMaster ----------------------------
(***************************************************************************)
(* The part of Reconcile that keeps one master among the memory brokers:   *)
(* it reads every broker's replica list and epoch, publishes the chosen    *)
(* master in the status of the custom resource and to the coordinators,    *)
(* lifts the master's epoch above the server proxies', configures the      *)
(* replica lists and creates the cluster where the master has none.        *)
(* Brokers keep everything in memory or in a file of their container, so a *)
(* restarted broker has epoch 0, no replicas and no cluster.  A broker     *)
(* with replicas is a master and copies its metadata to them.              *)
(*                                                                         *)
(* Each remote call is a step of its own, so brokers and coordinators may  *)
(* fail, restart, synchronise and bump epochs between any two of them.     *)
(***************************************************************************)
EXTENDS Integers, FiniteSets

CONSTANTS
    Brokers,         \* the brokers of the StatefulSet (brokerNum of them)
    Coordinators,    \* the coordinators of the StatefulSet
    NoBroker,        \* the empty address ""
    MaxEpoch,        \* brokers bump their epoch on their own up to here
    MaxFaults        \* crashes, restarts, failed calls and changes of the
                     \* chunk number

ASSUME BrokersAssumption == IsFiniteSet(Brokers) /\ NoBroker \notin Brokers
ASSUME EpochsAssumption == MaxEpoch \in Nat /\ MaxFaults \in Nat

VARIABLES
    up,              \* running brokers
    replicaAddrs,    \* the replica addresses each broker is configured with
    epoch,           \* the global epoch of each broker
    cluster,         \* brokers whose metadata holds the cluster
    coordBroker,     \* the broker each coordinator works for
    proxyEpoch,      \* the highest epoch of the server proxies within the
                     \* chunk number that Reconcile works for
    topEpoch,        \* the highest epoch of all server proxies, those beyond
                     \* that number included, which are being deleted
    status,          \* Status.MasterBrokerAddress
    queue,           \* a request waits in the work queue
    faults,          \* faults so far
    pc,              \* the step of Reconcile that comes next
    listed,          \* broker addresses read from the endpoints
    todo,            \* what the current loop has not visited yet
    masters,         \* brokers seen with replicas
    best,            \* the candidate of the epoch scan, at last the master
    bestEpoch,       \* its epoch
    lastFailed,      \* the last CONFIG SET of a coordinator failed
    maxEpoch,        \* the highest epoch getMaxEpoch saw
    missed,          \* history: the running brokers that were not listed
    clean,           \* history: nothing failed since Reconcile began
    quiet            \* history: no broker ever came back empty, and none
                     \* that ran was missed or not reached by a call, while
                     \* Reconcile ran

brokerVars == <<up, replicaAddrs, epoch, cluster>>
proxyVars == <<proxyEpoch, topEpoch>>
externVars == <<coordBroker, proxyVars>>
history == <<missed, clean, quiet>>
scanVars == <<listed, todo, masters, best, bestEpoch>>
vars == <<brokerVars, externVars, status, queue, faults, pc, scanVars,
          lastFailed, maxEpoch, history>>

brokerNum == Cardinality(Brokers)

Flagged == {b \in Brokers : replicaAddrs[b] # {}}

Init ==
    /\ up = Brokers
    /\ replicaAddrs = [b \in Brokers |-> {}]
    /\ epoch = [b \in Brokers |-> 0]
    /\ cluster = {}
    /\ coordBroker = [c \in Coordinators |-> NoBroker]
    /\ proxyEpoch = 0
    /\ topEpoch = 0
    /\ status = NoBroker
    /\ queue = TRUE
    /\ faults = 0
    /\ pc = "idle"
    /\ listed = {}
    /\ todo = {}
    /\ masters = {}
    /\ best = NoBroker
    /\ bestEpoch = 0
    /\ lastFailed = FALSE
    /\ maxEpoch = 0
    /\ missed = {}
    /\ clean = TRUE
    /\ quiet = TRUE

-----------------------------------------------------------------------------
(* Brokers, coordinators, proxies and the work queue *)

(* Something fails, or a call to something other than a broker is lost.    *)
Fault ==
    /\ faults < MaxFaults
    /\ faults' = faults + 1
    /\ clean' = FALSE
    /\ UNCHANGED <<quiet, missed>>

(* A call to a running broker is lost.                                     *)
CallLost ==
    /\ faults < MaxFaults
    /\ faults' = faults + 1
    /\ clean' = FALSE
    /\ quiet' = FALSE
    /\ UNCHANGED missed

BrokerCrash(b) ==
    /\ b \in up
    /\ Fault
    /\ up' = up \ {b}
    /\ replicaAddrs' = [replicaAddrs EXCEPT ![b] = {}]
    /\ epoch' = [epoch EXCEPT ![b] = 0]
    /\ cluster' = cluster \ {b}
    /\ UNCHANGED <<externVars, status, queue, pc, scanVars, lastFailed,
                   maxEpoch>>

(* The broker is ready again: its StatefulSet changes, a request is queued. *)
BrokerRestart(b) ==
    /\ b \notin up
    /\ up' = up \union {b}
    /\ queue' = TRUE
    /\ quiet' = (quiet /\ pc = "idle")
    /\ UNCHANGED <<replicaAddrs, epoch, cluster, externVars, status, faults, pc,
                   scanVars, lastFailed, maxEpoch, clean, missed>>

CoordinatorRestart(c) ==
    /\ coordBroker[c] # NoBroker
    /\ Fault
    /\ coordBroker' = [coordBroker EXCEPT ![c] = NoBroker]
    /\ queue' = TRUE
    /\ UNCHANGED <<brokerVars, proxyVars, status, pc, scanVars, lastFailed,
                   maxEpoch>>

(* A coordinator reports a failure or commits a migration of the cluster   *)
(* it learned of from its broker, or the master registers a new proxy.     *)
BumpEpoch(b) ==
    /\ b \in up
    /\ \/ b \in cluster /\ \E c \in Coordinators : coordBroker[c] = b
       \/ b = best /\ pc \in {"meta1", "meta2"}
    /\ epoch[b] < MaxEpoch
    /\ epoch' = [epoch EXCEPT ![b] = @ + 1]
    /\ UNCHANGED <<up, replicaAddrs, cluster, externVars, status, queue,
                   faults, pc, scanVars, lastFailed, maxEpoch, history>>

(* A master copies its metadata to a replica, the lack of a cluster too.   *)
SyncMeta(b, r) ==
    /\ b \in up /\ r \in up \intersect replicaAddrs[b]
    /\ epoch[r] < epoch[b]
    /\ epoch' = [epoch EXCEPT ![r] = epoch[b]]
    /\ cluster' = IF b \in cluster THEN cluster \union {r} ELSE cluster \ {r}
    /\ UNCHANGED <<up, replicaAddrs, externVars, status, queue, faults, pc,
                   scanVars, lastFailed, maxEpoch, history>>

(* A coordinator sends its broker's metadata to the proxies, which ignore  *)
(* an epoch lower than their own.  Proxies being deleted may get it first. *)
PushMeta(c) ==
    /\ coordBroker[c] \in up
    /\ epoch[coordBroker[c]] > proxyEpoch
    /\ proxyEpoch' = epoch[coordBroker[c]]
    /\ topEpoch' = IF proxyEpoch' > topEpoch THEN proxyEpoch' ELSE topEpoch
    /\ UNCHANGED <<brokerVars, coordBroker, status, queue, faults, pc,
                   scanVars, lastFailed, maxEpoch, history>>

PushSurplusMeta(c) ==
    /\ coordBroker[c] \in up
    /\ topEpoch > proxyEpoch
    /\ epoch[coordBroker[c]] > topEpoch
    /\ topEpoch' = epoch[coordBroker[c]]
    /\ UNCHANGED <<brokerVars, coordBroker, proxyEpoch, status, queue,
                   faults, pc, scanVars, lastFailed, maxEpoch, history>>

(* The user changes the chunk number: the proxies that the next Reconcile  *)
(* keeps have received metadata up to epoch e.  Nothing fails; it is       *)
(* counted with the faults to bound how often it happens.                  *)
Regroup(e) ==
    /\ pc = "idle"
    /\ faults < MaxFaults
    /\ faults' = faults + 1
    /\ e # proxyEpoch
    /\ proxyEpoch' = e
    /\ queue' = TRUE
    /\ UNCHANGED <<brokerVars, coordBroker, topEpoch, status, pc, scanVars,
                   lastFailed, maxEpoch, history>>

(* The proxies being deleted are gone; their StatefulSet has changed.      *)
SurplusGone ==
    /\ topEpoch # proxyEpoch
    /\ topEpoch' = proxyEpoch
    /\ queue' = TRUE
    /\ UNCHANGED <<brokerVars, coordBroker, proxyEpoch, status, faults, pc,
                   scanVars, lastFailed, maxEpoch, history>>

(* The informers resync from time to time; the worker takes a request that *)
(* comes while it is busy when it has returned.                            *)
Resync ==
    /\ pc = "idle"
    /\ ~queue
    /\ queue' = TRUE
    /\ UNCHANGED <<brokerVars, externVars, status, faults, pc, scanVars,
                   lastFailed, maxEpoch, history>>

-----------------------------------------------------------------------------
(* Reconcile *)

Return ==
    /\ pc' = "idle"
    /\ listed' = {}
    /\ todo' = {}
    /\ masters' = {}
    /\ best' = NoBroker
    /\ bestEpoch' = 0
    /\ lastFailed' = FALSE
    /\ maxEpoch' = 0

Requeue ==
    /\ Return
    /\ queue' = TRUE

(* brokerAndCoordinatorReady: all brokers but one have to be ready.        *)
ReconcileStart ==
    /\ pc = "idle"
    /\ queue
    /\ Cardinality(up) >= brokerNum - 1
    /\ queue' = FALSE
    /\ pc' = "endpoints"
    /\ clean' = TRUE
    /\ missed' = {}
    /\ UNCHANGED <<brokerVars, externVars, status, faults, scanVars,
                   lastFailed, maxEpoch, quiet>>

(* reconcileMaster lists the endpoints again, maybe fewer by now.  Only    *)
(* ready brokers are listed, as the informer cache knows them: a running   *)
(* one that fails its readiness probe, or that the cache does not show, is *)
(* missing, keeps its replicas and is counted as two faults.  That no      *)
(* broker is listed at all ends Reconcile as Abort does.                   *)
GetEndpoints(missing) ==
    /\ pc = "endpoints"
    /\ up \ missing # {}
    /\ listed' = up \ missing
    /\ todo' = up \ missing
    /\ missed' = missing
    /\ faults' = faults + 2 * Cardinality(missing)
    /\ faults' <= MaxFaults
    /\ clean' = (clean /\ missing = {})
    /\ quiet' = (quiet /\ missing = {})
    /\ pc' = "flags"
    /\ UNCHANGED <<brokerVars, externVars, status, queue, masters, best,
                   bestEpoch, lastFailed, maxEpoch>>

(* "broker addresses is empty" *)
NoEndpoints ==
    /\ pc = "endpoints"
    /\ up = {}
    /\ Requeue
    /\ UNCHANGED <<brokerVars, externVars, status, faults, history>>

(* getCurrentMaster: which of the brokers have replicas?  A failed call is *)
(* logged and the broker skipped.                                          *)
GetReplicaAddresses(b) ==
    /\ pc = "flags"
    /\ b \in todo \intersect up
    /\ todo' = todo \ {b}
    /\ masters' = IF replicaAddrs[b] # {} THEN masters \union {b} ELSE masters
    /\ UNCHANGED <<brokerVars, externVars, status, queue, faults, pc, listed,
                   best, bestEpoch, lastFailed, maxEpoch, history>>

(* A call to a broker that is down fails; one to a running broker may.     *)
CallFails(b) ==
    IF b \in up THEN CallLost ELSE UNCHANGED <<faults, history>>

SkipBroker(b) ==
    /\ pc \in {"flags", "epochs"}
    /\ b \in todo
    /\ CallFails(b)
    /\ todo' = todo \ {b}
    /\ UNCHANGED <<brokerVars, externVars, status, queue, pc, listed, masters,
                   best, bestEpoch, lastFailed, maxEpoch>>

OneFlagged ==
    /\ pc = "flags"
    /\ todo = {}
    /\ Cardinality(masters) = 1
    /\ best' \in masters
    /\ pc' = "status"
    /\ UNCHANGED <<brokerVars, externVars, status, queue, faults, listed,
                   todo, masters, bestEpoch, lastFailed, maxEpoch, history>>

(* Mutant: with no flagged broker, none is a candidate. *)
NoneOrSeveralFlaggedStrict ==
    /\ pc = "flags"
    /\ todo = {}
    /\ Cardinality(masters) # 1
    /\ todo' = masters
    /\ pc' = "epochs"
    /\ UNCHANGED <<brokerVars, externVars, status, queue, faults, listed,
                   masters, best, bestEpoch, lastFailed, maxEpoch, history>>

NoneOrSeveralFlagged ==
    /\ pc = "flags"
    /\ todo = {}
    /\ Cardinality(masters) # 1
    /\ todo' = IF masters = {} THEN listed ELSE masters
    /\ pc' = "epochs"
    /\ UNCHANGED <<brokerVars, externVars, status, queue, faults, listed,
                   masters, best, bestEpoch, lastFailed, maxEpoch, history>>

(* Mutant: keeps the first broker that answers. *)
GetEpochFirst(b) ==
    /\ pc = "epochs"
    /\ b \in todo \intersect up
    /\ todo' = todo \ {b}
    /\ IF best = NoBroker
         THEN best' = b /\ bestEpoch' = epoch[b]
         ELSE UNCHANGED <<best, bestEpoch>>
    /\ UNCHANGED <<brokerVars, externVars, status, queue, faults, pc, listed,
                   masters, lastFailed, maxEpoch, history>>

GetEpoch(b) ==
    /\ pc = "epochs"
    /\ b \in todo \intersect up
    /\ todo' = todo \ {b}
    /\ IF best = NoBroker \/ epoch[b] > bestEpoch
         THEN best' = b /\ bestEpoch' = epoch[b]
         ELSE UNCHANGED <<best, bestEpoch>>
    /\ UNCHANGED <<brokerVars, externVars, status, queue, faults, pc, listed,
                   masters, lastFailed, maxEpoch, history>>

(* With no answer at all the chosen address stays empty.                   *)
MaxEpochBroker ==
    /\ pc = "epochs"
    /\ todo = {}
    /\ pc' = "status"
    /\ UNCHANGED <<brokerVars, externVars, status, queue, faults, scanVars,
                   lastFailed, maxEpoch, history>>

(* Mutant: a schema without minLength. *)
AnyStatus(b) == TRUE

(* The schema of the status accepts no empty address.                      *)
ValidStatus(b) == b # NoBroker

(* setMasterBrokerStatus; a changed resource comes back as an event.       *)
SetMasterBrokerStatus ==
    /\ pc = "status"
    /\ ValidStatus(best)
    /\ status' = best
    /\ queue' = (queue \/ status # best)
    /\ pc' = "coordinators"
    /\ todo' = Coordinators
    /\ masters' = {}
    /\ bestEpoch' = 0
    /\ UNCHANGED <<brokerVars, externVars, faults, listed, best, lastFailed,
                   maxEpoch, history>>

MasterStatusRejected ==
    /\ pc = "status"
    /\ ~ValidStatus(best)
    /\ Requeue
    /\ UNCHANGED <<brokerVars, externVars, status, faults, history>>

(* configSetBroker: only the result of the last call decides.              *)
SetBrokerAddress(c) ==
    /\ pc = "coordinators"
    /\ c \in todo
    /\ todo' = todo \ {c}
    /\ coordBroker' = [coordBroker EXCEPT ![c] = best]
    /\ lastFailed' = FALSE
    /\ UNCHANGED <<brokerVars, proxyVars, status, queue, faults, pc, listed,
                   masters, best, bestEpoch, maxEpoch, history>>

SetBrokerAddressFails(c) ==
    /\ pc = "coordinators"
    /\ c \in todo
    /\ Fault
    /\ todo' = todo \ {c}
    /\ lastFailed' = TRUE
    /\ UNCHANGED <<brokerVars, externVars, status, queue, pc, listed, masters,
                   best, bestEpoch, maxEpoch>>

ConfigSetBrokerDone ==
    /\ pc = "coordinators"
    /\ todo = {}
    /\ ~lastFailed
    /\ pc' = "maxEpoch"
    /\ UNCHANGED <<brokerVars, externVars, status, queue, faults, scanVars,
                   lastFailed, maxEpoch, history>>

ConfigSetBrokerFailed ==
    /\ pc = "coordinators"
    /\ todo = {}
    /\ lastFailed
    /\ Requeue
    /\ UNCHANGED <<brokerVars, externVars, status, faults, history>>

(* Mutant: a proxy that does not answer counts as epoch -1. *)
GetMaxEpochNegative ==
    /\ pc = "maxEpoch"
    /\ \/ maxEpoch' = proxyEpoch /\ UNCHANGED <<faults, history>>
       \/ maxEpoch' \in -1 .. proxyEpoch - 1 /\ Fault
    /\ pc' = "fixEpoch"
    /\ UNCHANGED <<brokerVars, externVars, status, queue, scanVars,
                   lastFailed>>

(* getMaxEpoch asks the proxies within the chunk number only ("Filter the  *)
(* proxies being deleted").  One that does not answer counts as epoch 0,   *)
(* and the maximum is then that of the others.                             *)
GetMaxEpoch ==
    /\ pc = "maxEpoch"
    /\ \/ maxEpoch' = proxyEpoch /\ UNCHANGED <<faults, history>>
       \/ maxEpoch' \in 0 .. proxyEpoch - 1 /\ Fault
    /\ pc' = "fixEpoch"
    /\ UNCHANGED <<brokerVars, externVars, status, queue, scanVars,
                   lastFailed>>

(* Mutant: recovers only from a lower epoch it has just read as 0. *)
FixBrokerEpochRestarted ==
    /\ pc = "fixEpoch"
    /\ best \in up
    /\ IF epoch[best] # 0
         THEN UNCHANGED epoch
         ELSE epoch' = [epoch EXCEPT ![best] = proxyEpoch + 1]
    /\ pc' = "setMaster1"
    /\ maxEpoch' = 0
    /\ UNCHANGED <<up, replicaAddrs, cluster, externVars, status, queue,
                   faults, scanVars, lastFailed, history>>

(* fixBrokerEpoch: the recovery lifts the broker above the proxies, those  *)
(* being deleted included as long as the broker knows them.                *)
FixBrokerEpoch ==
    /\ pc = "fixEpoch"
    /\ best \in up
    /\ IF epoch[best] >= maxEpoch
         THEN UNCHANGED epoch
         ELSE \E e \in {proxyEpoch, topEpoch} :
                 epoch' = [epoch EXCEPT ![best] = e + 1]
    /\ pc' = "setMaster1"
    /\ maxEpoch' = 0
    /\ UNCHANGED <<up, replicaAddrs, cluster, externVars, status, queue,
                   faults, scanVars, lastFailed, history>>

replicaAddresses == listed \ {best}

(* setBrokerReplicas, in either of the two rounds of reconcileMeta: first  *)
(* the master learns its replicas, then every replica loses its own.       *)
SetMasterReplicas(here, next) ==
    /\ pc = here
    /\ best \in up
    /\ replicaAddrs' = [replicaAddrs EXCEPT ![best] = replicaAddresses]
    /\ todo' = replicaAddresses
    /\ pc' = next
    /\ UNCHANGED <<up, epoch, cluster, externVars, status, queue, faults,
                   listed, masters, best, bestEpoch, lastFailed, maxEpoch, history>>

(* Mutant: the replicas keep the list they had. *)
ClearReplicaNothing(b) ==
    /\ pc \in {"clear1", "clear2"}
    /\ b \in todo \intersect up
    /\ todo' = todo \ {b}
    /\ UNCHANGED <<brokerVars, externVars, status, queue, faults,
                   pc, listed, masters, best, bestEpoch, lastFailed, maxEpoch,
                   history>>

ClearReplica(b) ==
    /\ pc \in {"clear1", "clear2"}
    /\ b \in todo \intersect up
    /\ replicaAddrs' = [replicaAddrs EXCEPT ![b] = {}]
    /\ todo' = todo \ {b}
    /\ UNCHANGED <<up, epoch, cluster, externVars, status, queue, faults,
                   pc, listed, masters, best, bestEpoch, lastFailed, maxEpoch, history>>

(* The rest of reconcileMeta (the registry, then the cluster) follows.     *)
Configured(here, next) ==
    /\ pc = here
    /\ todo = {}
    /\ pc' = next
    /\ UNCHANGED <<brokerVars, externVars, status, queue, faults, scanVars,
                   lastFailed, maxEpoch, history>>

(* clusterExists, and createCluster where it does not: a new cluster makes *)
(* a new epoch.                                                            *)
CreateCluster(here, next) ==
    /\ pc = here
    /\ best \in up
    /\ cluster' = cluster \union {best}
    /\ epoch' = IF best \in cluster THEN epoch ELSE [epoch EXCEPT ![best] = @ + 1]
    /\ pc' = next
    /\ UNCHANGED <<up, replicaAddrs, externVars, status, queue, faults,
                   scanVars, lastFailed, maxEpoch, history>>

(* The storage is not ready or stable, the broker lacks proxies, or slots  *)
(* are migrating: Reconcile ends early.                                    *)
RestRequeues ==
    /\ pc \in {"meta1", "rest1", "meta2", "rest2"}
    /\ Requeue
    /\ UNCHANGED <<brokerVars, externVars, status, faults, history>>

ReconcileDone ==
    /\ pc = "rest2"
    /\ Return
    /\ UNCHANGED <<brokerVars, externVars, status, queue, faults, history>>

(* A broker call at this step returns an error, which ends Reconcile.      *)
BrokerCallFails ==
    /\ \/ /\ pc \in {"fixEpoch", "setMaster1", "meta1", "rest1", "meta2"}
          /\ CallFails(best)
       \/ \E b \in todo : pc \in {"clear1", "clear2"} /\ CallFails(b)
    /\ Requeue
    /\ UNCHANGED <<brokerVars, externVars, status>>

(* The operator restarts, or a call to the API server fails or conflicts.  *)
Abort ==
    /\ pc # "idle"
    /\ Fault
    /\ Requeue
    /\ UNCHANGED <<brokerVars, externVars, status>>

-----------------------------------------------------------------------------
Faults ==
    \/ \E b \in Brokers : BrokerCrash(b)
    \/ \E c \in Coordinators : CoordinatorRestart(c)
    \/ Abort

Meta ==
    \/ \E b \in Brokers : BumpEpoch(b) \/ (\E r \in Brokers : SyncMeta(b, r))
    \/ \E c \in Coordinators : PushMeta(c) \/ PushSurplusMeta(c)

GetCurrentMaster ==
    \/ \E missing \in SUBSET up : GetEndpoints(missing)
    \/ NoEndpoints
    \/ \E b \in Brokers : GetReplicaAddresses(b) \/ SkipBroker(b) \/ GetEpoch(b)
    \/ OneFlagged
    \/ NoneOrSeveralFlagged
    \/ MaxEpochBroker

ConfigSetBroker ==
    \/ \E c \in Coordinators : SetBrokerAddress(c) \/ SetBrokerAddressFails(c)
    \/ ConfigSetBrokerDone
    \/ ConfigSetBrokerFailed

SetBrokerReplicas ==
    \/ SetMasterReplicas("setMaster1", "clear1")
    \/ SetMasterReplicas("rest1", "clear2")
    \/ \E b \in Brokers : ClearReplica(b)
    \/ Configured("clear1", "meta1")
    \/ Configured("clear2", "meta2")

Reconcile ==
    \/ ReconcileStart
    \/ GetCurrentMaster
    \/ SetMasterBrokerStatus
    \/ MasterStatusRejected
    \/ ConfigSetBroker
    \/ GetMaxEpoch
    \/ FixBrokerEpoch
    \/ SetBrokerReplicas
    \/ CreateCluster("meta1", "rest1")
    \/ CreateCluster("meta2", "rest2")
    \/ RestRequeues
    \/ ReconcileDone
    \/ BrokerCallFails

Next ==
    \/ Faults
    \/ \E b \in Brokers : BrokerRestart(b)
    \/ Meta
    \/ \E e \in 0 .. topEpoch : Regroup(e)
    \/ SurplusGone
    \/ Resync
    \/ Reconcile

Spec == Init /\ [][Next]_vars

(* Pods come back, metadata spreads, informers resync and the worker works. *)
Fairness ==
    /\ \A b \in Brokers : WF_vars(BrokerRestart(b))
    /\ \A c \in Coordinators : WF_vars(PushMeta(c))
    /\ WF_vars(Resync)
    /\ WF_vars(Reconcile)

FairSpec == Spec /\ Fairness

-----------------------------------------------------------------------------
(* Properties *)

(* The types of the variables. *)
TypeOK ==
    /\ up \subseteq Brokers
    /\ replicaAddrs \in [Brokers -> SUBSET Brokers]
    /\ epoch \in [Brokers -> Nat]
    /\ cluster \subseteq Brokers
    /\ coordBroker \in [Coordinators -> Brokers \union {NoBroker}]
    /\ proxyEpoch \in Nat
    /\ topEpoch \in Nat
    /\ status \in Brokers \union {NoBroker}
    /\ queue \in BOOLEAN
    /\ faults \in 0 .. MaxFaults
    /\ pc \in {"idle", "endpoints", "flags", "epochs", "status", "coordinators",
               "maxEpoch", "fixEpoch", "setMaster1", "clear1", "meta1",
               "rest1", "clear2", "meta2", "rest2"}
    /\ listed \subseteq Brokers
    /\ todo \subseteq Brokers \union Coordinators
    /\ masters \subseteq Brokers
    /\ best \in Brokers \union {NoBroker}
    /\ bestEpoch \in Nat
    /\ lastFailed \in BOOLEAN
    /\ maxEpoch \in Nat
    /\ missed \subseteq Brokers
    /\ clean \in BOOLEAN
    /\ quiet \in BOOLEAN

(* When setBrokerReplicas has run, no broker but the master has replicas,  *)
(* those included that were down when the endpoints were listed; only one  *)
(* that ran and was not listed may still have some, until the next         *)
(* Reconcile that lists it.                                                *)
SingleMaster ==
    pc \in {"meta1", "rest1", "meta2", "rest2"} =>
        Flagged \ missed \subseteq {best}

(* A coordinator that works for a broker is never given the empty address  *)
(* that getCurrentMaster returns, without an error, when no broker tells   *)
(* its epoch: only its own restart (a fault) leaves it without a broker.   *)
CoordinatorsKeepABroker ==
    [][faults' = faults =>
         \A c \in Coordinators :
             coordBroker[c] # NoBroker => coordBroker'[c] # NoBroker]_vars

(* In a Reconcile during which nothing failed the master's epoch, from     *)
(* fixBrokerEpoch on, is not behind any proxy that the chunk number keeps, *)
(* and these accept its metadata, although the coordinators push metadata  *)
(* all the while.  It needs the coordinators to be switched before         *)
(* getMaxEpoch.  A proxy being deleted may stay ahead: getMaxEpoch leaves  *)
(* it out.                                                                 *)
EpochRecovered ==
    pc \in {"setMaster1", "clear1", "meta1", "rest1", "clear2", "meta2",
            "rest2"} /\ clean =>
        epoch[best] >= proxyEpoch

(* As long as no broker comes back empty, and no running broker is missing *)
(* from the endpoints or not reached by a call, while Reconcile runs, the  *)
(* cluster is created anew only when all running brokers have lost it:     *)
(* getCurrentMaster prefers a broker with the cluster to a restarted one,  *)
(* whatever crashed before.                                                *)
SurvivingMetadataWins ==
    [][quiet /\ pc \in {"meta1", "meta2"} /\ pc' \in {"rest1", "rest2"} =>
         best \in cluster \/ cluster = {}]_vars

(* After the last fault one broker alone has replicas for good, the status *)
(* and all coordinators name it, and the proxies that the chunk number     *)
(* keeps accept its metadata, however often that number changes.           *)
MasterAgreed ==
    \E m \in Brokers :
        /\ Flagged = {m}
        /\ status = m
        /\ \A c \in Coordinators : coordBroker[c] = m
        /\ epoch[m] >= proxyEpoch

Settles == <>[]MasterAgreed
=============================================================================
