--------------------------- MODULE OperatorLeader ---------------------------
(***************************************************************************)
(* The start-up of the operator (cmd/manager/main.go) under its            *)
(* Deployment of one replica.  A rollout, or the replacement of a failed   *)
(* pod, lets two pods run at the same time; leader.Become lets only the    *)
(* owner of a lock go on to the controllers.  The lock belongs to a pod    *)
(* for life: it goes away with the Pod object, and the owner keeps it when *)
(* its container restarts.                                                 *)
(*                                                                         *)
(* The other modules have one Reconcile at a time: this one shows why.     *)
(***************************************************************************)
EXTENDS Integers

CONSTANTS
    MaxPods,         \* pods the Deployment creates, numbered by age
    MaxExits,        \* failed start-ups and crashes
    ForcedDeletes    \* a Pod object may vanish before its process ends

ASSUME PodsAssumption == MaxPods \in Nat \ {0}
ASSUME ExitsAssumption == MaxExits \in Nat
ASSUME ForcedAssumption == ForcedDeletes \in BOOLEAN

VARIABLES
    pod,             \* the Pod objects
    process,         \* the step of main in each pod's container
    lock,            \* owner of the ConfigMap undermoon-operator-lock, or 0
    prometheus,      \* the cluster knows the kind ServiceMonitor
    exits            \* exits so far

vars == <<pod, process, lock, prometheus, exits>>

Pods == 1 .. MaxPods

NoPod == 0

(* The steps of main: until GetConfig, until Become returns, until the     *)
(* controllers are added, addMetrics, mgr.Start.                           *)
MainSteps == {"down", "config", "become", "setup", "metrics", "started"}

Reconciling == {p \in Pods : process[p] = "started"}

Created == {p \in Pods : pod[p] # "none"}

IsLatest(p) == p \in Created /\ \A q \in Created : q <= p

Init ==
    /\ pod = [p \in Pods |-> "none"]
    /\ process = [p \in Pods |-> "down"]
    /\ lock = NoPod
    /\ prometheus \in BOOLEAN
    /\ exits = 0

-----------------------------------------------------------------------------
(* Deployment, kubelet and garbage collector *)

CreatePod(p) ==
    /\ pod[p] = "none"
    /\ \A q \in Pods : q < p => pod[q] # "none"
    /\ pod' = [pod EXCEPT ![p] = "running"]
    /\ UNCHANGED <<process, lock, prometheus, exits>>

(* A new template: the new pod is created beside the old one.              *)
Rollout(p) ==
    /\ \E q \in Pods : q = p - 1 /\ pod[q] = "running"
    /\ CreatePod(p)

(* The Deployment keeps one pod of the latest template.                    *)
ReplacePod(p) ==
    /\ \A q \in Pods : q = p - 1 => pod[q] # "running"
    /\ CreatePod(p)

(* Mutant: a readiness probe that asks whether the controllers run. *)
PodReadyStarted(p) == pod[p] = "running" /\ process[p] = "started"

(* The pod has no readiness probe: it is ready when its container runs.    *)
PodReady(p) == pod[p] = "running" /\ process[p] # "down"

(* The rollout deletes the old pod once the new one is ready.              *)
DeletePod(p) ==
    /\ pod[p] = "running"
    /\ \E q \in Pods : q > p /\ PodReady(q)
    /\ pod' = [pod EXCEPT ![p] = "terminating"]
    /\ UNCHANGED <<process, lock, prometheus, exits>>

(* kubectl drain or delete, as long as there is a replacement to create    *)
DrainPod(p) ==
    /\ pod[p] = "running"
    /\ p < MaxPods
    /\ pod' = [pod EXCEPT ![p] = "terminating"]
    /\ UNCHANGED <<process, lock, prometheus, exits>>

(* restartPolicy Always *)
StartContainer(p) ==
    /\ pod[p] = "running"
    /\ process[p] = "down"
    /\ process' = [process EXCEPT ![p] = "config"]
    /\ UNCHANGED <<pod, lock, prometheus, exits>>

(* SIGTERM: mgr.Start returns, or the process has no handler yet and dies. *)
StopProcess(p) ==
    /\ pod[p] \in {"terminating", "gone"}
    /\ process[p] # "down"
    /\ process' = [process EXCEPT ![p] = "down"]
    /\ UNCHANGED <<pod, lock, prometheus, exits>>

(* The Pod object goes when its process has ended, or when it is forced.   *)
PodGone(p) ==
    /\ pod[p] = "terminating"
    /\ process[p] = "down" \/ ForcedDeletes
    /\ pod' = [pod EXCEPT ![p] = "gone"]
    /\ UNCHANGED <<process, lock, prometheus, exits>>

(* The garbage collector deletes the ConfigMap after its owner.            *)
CollectLock ==
    /\ lock # NoPod
    /\ pod[lock] = "gone"
    /\ lock' = NoPod
    /\ UNCHANGED <<pod, process, prometheus, exits>>

-----------------------------------------------------------------------------
(* main *)

Proceed(p, from, to) ==
    /\ process[p] = from
    /\ process' = [process EXCEPT ![p] = to]
    /\ UNCHANGED <<pod, prometheus, exits>>

(* GetWatchNamespace and GetConfig *)
GetConfig(p) ==
    /\ Proceed(p, "config", "become")
    /\ UNCHANGED lock

(* Mutant: reads and writes the lock without looking at its owner. *)
BecomeUnchecked(p) ==
    /\ Proceed(p, "become", "setup")
    /\ lock' = p

(* Mutant: waits for the lock to be free, though it may be its own. *)
BecomeFreeOnly(p) ==
    /\ lock = NoPod
    /\ Proceed(p, "become", "setup")
    /\ lock' = p

(* leader.Become: waits until the lock is free or already this pod's.      *)
Become(p) ==
    /\ lock \in {NoPod, p}
    /\ Proceed(p, "become", "setup")
    /\ lock' = p

(* manager.New, AddToScheme and AddToManager *)
AddToManager(p) ==
    /\ Proceed(p, "setup", "metrics")
    /\ UNCHANGED lock

(* Mutant: an error of CreateServiceMonitors ends the process. *)
AddMetricsRequired(p) ==
    /\ IF prometheus THEN Proceed(p, "metrics", "started")
                     ELSE Proceed(p, "metrics", "down")
    /\ UNCHANGED lock

(* addMetrics logs every error, also that there is no ServiceMonitor.      *)
AddMetrics(p) ==
    /\ Proceed(p, "metrics", "started")
    /\ UNCHANGED lock

(* Mutant: an operator that failed leaves a lock nobody owns. *)
ExitUnlocks(p) ==
    /\ process[p] # "down"
    /\ exits < MaxExits
    /\ exits' = exits + 1
    /\ process' = [process EXCEPT ![p] = "down"]
    /\ lock' = NoPod - 1
    /\ UNCHANGED <<pod, prometheus>>

(* os.Exit(1) after an error of a call that is not for metrics, or a crash *)
Exit(p) ==
    /\ process[p] # "down"
    /\ exits < MaxExits
    /\ exits' = exits + 1
    /\ process' = [process EXCEPT ![p] = "down"]
    /\ UNCHANGED <<pod, lock, prometheus>>

-----------------------------------------------------------------------------
Kubernetes(p) ==
    \/ ReplacePod(p)
    \/ DeletePod(p)
    \/ StartContainer(p)
    \/ StopProcess(p)
    \/ PodGone(p)

Main(p) ==
    GetConfig(p) \/ Become(p) \/ AddToManager(p) \/ AddMetrics(p)

Next ==
    \/ \E p \in Pods : Kubernetes(p) \/ Main(p)
    \/ \E p \in Pods : Rollout(p) \/ DrainPod(p) \/ Exit(p)
    \/ CollectLock

Spec == Init /\ [][Next]_vars

(* Kubernetes does its work and a process that can go on does; no fairness *)
(* of rollouts, drains and exits.                                          *)
Fairness ==
    /\ \A p \in Pods : WF_vars(Kubernetes(p)) /\ WF_vars(Main(p))
    /\ WF_vars(CollectLock)

FairSpec == Spec /\ Fairness

-----------------------------------------------------------------------------
(* Properties *)

(* The types of the variables. *)
TypeOK ==
    /\ pod \in [Pods -> {"none", "running", "terminating", "gone"}]
    /\ process \in [Pods -> MainSteps]
    /\ lock \in Pods \union {NoPod}
    /\ prometheus \in BOOLEAN
    /\ exits \in 0 .. MaxExits

(* Through rollouts, drains, crashes and restarts at most one operator     *)
(* runs controllers, as leader.Become comes before them, as long as no Pod *)
(* object is deleted before its process ends.                              *)
OneOperator ==
    ForcedDeletes \/ \A p, q \in Reconciling : p = q

(* Why: past Become a process has the lock, and it ends before its Pod     *)
(* object and the lock do.                                                 *)
LockInv ==
    /\ \A p \in Pods : process[p] \in {"setup", "metrics", "started"} => lock = p
    /\ \A p \in Pods : pod[p] \in {"none", "gone"} => process[p] = "down"

(* In the end the pod of the last rollout alone runs the controllers: it   *)
(* is not kept waiting by a lock, its own or an older pod's, nor by the    *)
(* metrics, and the old pod is not kept by a new one that is not ready.    *)
LatestOperatorRuns == <>[](\A p \in Pods : p \in Reconciling <=> IsLatest(p))
=============================================================================
