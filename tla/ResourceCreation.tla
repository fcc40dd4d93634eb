-------------------------- MODULE ResourceCreation --------------------------
(***************************************************************************)
(* How Reconcile creates the Kubernetes objects of a cluster: a headless   *)
(* service and a StatefulSet for the brokers, the coordinators and the     *)
(* storage, and the public storage service.  Objects are looked up in the  *)
(* informer cache and created when missing there; a create that meets an   *)
(* object the cache does not show yet fails with AlreadyExists and is      *)
(* tried three times.  Deleting the custom resource lets the garbage       *)
(* collector remove what it owns.                                          *)
(***************************************************************************)
EXTENDS Integers, Sequences

CONSTANTS
    Components,      \* the parts considered: all of broker, coordinator and
                     \* storage, or fewer where that keeps TLC fast
    MaxFaults        \* failed calls to the API server, operator restarts

ASSUME ComponentsAssumption ==
    /\ Components \subseteq {"broker", "coordinator", "storage"}
    /\ Components # {}
ASSUME MaxFaultsAssumption == MaxFaults \in Nat

VARIABLES
    crExists,        \* the custom resource exists
    crCached,        \* it does in the cache
    exists,          \* objects at the API server
    cached,          \* objects in the operator's cache
    queue,           \* a request waits in the work queue
    faults,          \* faults so far
    pc,              \* where Reconcile is
    step,            \* the object createResources is at
    attempt,         \* tries of the guard that ended with AlreadyExists
    fresh            \* this Reconcile created a StatefulSet

local == <<pc, step, attempt, fresh>>
vars == <<crExists, crCached, exists, cached, queue, faults, local>>

-----------------------------------------------------------------------------
(* The objects: a StatefulSet names the service that governs it. *)

createBrokerService == [kind |-> "Service", of |-> "broker"]

createBrokerStatefulSet == [kind |-> "StatefulSet", of |-> "broker"]

createCoordinatorService == [kind |-> "Service", of |-> "coordinator"]

createCoordinatorStatefulSet == [kind |-> "StatefulSet", of |-> "coordinator"]

createStorageService == [kind |-> "Service", of |-> "storage"]

createStoragePublicService == [kind |-> "PublicService", of |-> "storage"]

createStorageStatefulSet == [kind |-> "StatefulSet", of |-> "storage"]

createBroker == <<createBrokerService, createBrokerStatefulSet>>

createCoordinator == <<createCoordinatorService, createCoordinatorStatefulSet>>

(* Mutant: the StatefulSet before the service that governs it. *)
createStorageSwapped ==
    <<createStoragePublicService, createStorageStatefulSet,
      createStorageService>>

createStorage ==
    <<createStoragePublicService, createStorageService,
      createStorageStatefulSet>>

createResources ==
    LET Considered(component, objects) ==
          IF component \in Components THEN objects ELSE <<>>
    IN  Considered("broker", createBroker)
          \o Considered("coordinator", createCoordinator)
          \o Considered("storage", createStorage)

Resources == {createResources[i] : i \in 1 .. Len(createResources)}

StatefulSets == {r \in Resources : r.kind = "StatefulSet"}

maxTries == 3

-----------------------------------------------------------------------------
Init ==
    /\ crExists = TRUE
    /\ crCached = TRUE
    /\ exists = {}
    /\ cached = {}
    /\ queue = TRUE
    /\ faults = 0
    /\ pc = "idle"
    /\ step = 0
    /\ attempt = 0
    /\ fresh = FALSE

Fault ==
    /\ faults < MaxFaults
    /\ faults' = faults + 1

(* The user deletes the custom resource. *)
UserDelete ==
    /\ crExists
    /\ crExists' = FALSE
    /\ UNCHANGED <<crCached, exists, cached, queue, faults, local>>

DeliverCr ==
    /\ crCached # crExists
    /\ crCached' = crExists
    /\ queue' = TRUE
    /\ UNCHANGED <<crExists, exists, cached, faults, local>>

(* The cache learns of an object; only StatefulSets are watched.           *)
Deliver(r) ==
    /\ (r \in cached) # (r \in exists)
    /\ cached' = IF r \in exists THEN cached \union {r} ELSE cached \ {r}
    /\ queue' = (queue \/ r \in StatefulSets)
    /\ UNCHANGED <<crExists, crCached, exists, faults, local>>

(* The garbage collector removes what a deleted resource owned.            *)
Collect(r) ==
    /\ ~crExists
    /\ r \in exists
    /\ exists' = exists \ {r}
    /\ UNCHANGED <<crExists, crCached, cached, queue, faults, local>>

Resync ==
    /\ ~queue
    /\ crCached
    /\ queue' = TRUE
    /\ UNCHANGED <<crExists, crCached, exists, cached, faults, local>>

-----------------------------------------------------------------------------
Return ==
    /\ pc' = "idle"
    /\ step' = 0
    /\ attempt' = 0
    /\ fresh' = FALSE

Requeue ==
    /\ Return
    /\ queue' = TRUE

(* Mutant: goes on without looking whether the resource was found. *)
ReconcileStartAnyway ==
    /\ pc = "idle"
    /\ queue
    /\ queue' = FALSE
    /\ pc' = "create"
    /\ step' = 1
    /\ UNCHANGED <<crExists, crCached, exists, cached, faults, attempt, fresh>>

ReconcileStart ==
    /\ pc = "idle"
    /\ queue
    /\ crCached
    /\ queue' = FALSE
    /\ pc' = "create"
    /\ step' = 1
    /\ UNCHANGED <<crExists, crCached, exists, cached, faults, attempt, fresh>>

(* The request is about a resource that is gone: nothing to do.            *)
ReconcileGone ==
    /\ pc = "idle"
    /\ queue
    /\ ~crCached
    /\ queue' = FALSE
    /\ UNCHANGED <<crExists, crCached, exists, cached, faults, local>>

object == createResources[step]

Advance ==
    /\ attempt' = 0
    /\ IF step = Len(createResources)
         THEN pc' = "rest" /\ step' = 0
         ELSE step' = step + 1 /\ UNCHANGED pc

(* Mutant: every error is overwritten, not only that of the public service. *)
FailObjectSilently ==
    Advance /\ UNCHANGED <<queue, fresh>>

(* An error ends Reconcile, except that createStorage overwrites the one   *)
(* of the public service.                                                  *)
FailObject ==
    IF object = createStoragePublicService
      THEN Advance /\ UNCHANGED <<queue, fresh>>
      ELSE Requeue

Found ==
    /\ pc = "create"
    /\ object \in cached
    /\ Advance
    /\ UNCHANGED <<crExists, crCached, exists, cached, queue, faults, fresh>>

Create ==
    /\ pc = "create"
    /\ object \notin cached
    /\ object \notin exists
    /\ exists' = exists \union {object}
    /\ fresh' = (fresh \/ object \in StatefulSets)
    /\ Advance
    /\ UNCHANGED <<crExists, crCached, cached, queue, faults>>

(* Mutant: an off-by-one in the number of tries. *)
AlreadyExistsRetryOnceMore ==
    /\ pc = "create"
    /\ object \notin cached
    /\ object \in exists
    /\ attempt + 1 <= maxTries
    /\ attempt' = attempt + 1
    /\ UNCHANGED <<crExists, crCached, exists, cached, queue, faults, pc,
                   step, fresh>>

(* createServiceGuard and createStatefulSetGuard try again, maxTries times. *)
AlreadyExistsRetry ==
    /\ pc = "create"
    /\ object \notin cached
    /\ object \in exists
    /\ attempt + 1 < maxTries
    /\ attempt' = attempt + 1
    /\ UNCHANGED <<crExists, crCached, exists, cached, queue, faults, pc,
                   step, fresh>>

AlreadyExists ==
    /\ pc = "create"
    /\ object \notin cached
    /\ object \in exists
    /\ attempt + 1 = maxTries
    /\ FailObject
    /\ UNCHANGED <<crExists, crCached, exists, cached, faults>>

(* Get or Create fails with another error. *)
CallFails ==
    /\ pc = "create"
    /\ Fault
    /\ FailObject
    /\ UNCHANGED <<crExists, crCached, exists, cached>>

(* The rest of Reconcile waits for ready pods, updates the status, ...     *)
RestRequeues ==
    /\ pc = "rest"
    /\ Requeue
    /\ UNCHANGED <<crExists, crCached, exists, cached, faults>>

(* It succeeds only on StatefulSets that were there before, since a new    *)
(* one has no ready pods, and on a resource whose status can be updated.   *)
RestSucceeds ==
    /\ pc = "rest"
    /\ ~fresh
    /\ crExists
    /\ pc' = "done"
    /\ UNCHANGED <<crExists, crCached, exists, cached, queue, faults, step,
                   attempt, fresh>>

Finish ==
    /\ pc = "done"
    /\ Return
    /\ UNCHANGED <<crExists, crCached, exists, cached, queue, faults>>

-----------------------------------------------------------------------------
Reconcile ==
    \/ ReconcileStart
    \/ ReconcileGone
    \/ Found
    \/ Create
    \/ AlreadyExistsRetry
    \/ AlreadyExists
    \/ RestRequeues
    \/ RestSucceeds
    \/ Finish

Next ==
    \/ UserDelete
    \/ DeliverCr
    \/ \E r \in Resources : Deliver(r) \/ Collect(r)
    \/ Resync
    \/ Reconcile
    \/ CallFails

Spec == Init /\ [][Next]_vars

(* Informers deliver and resync, the garbage collector and the worker run. *)
Fairness ==
    /\ WF_vars(DeliverCr)
    /\ WF_vars(\E r \in Resources : Deliver(r))
    /\ WF_vars(\E r \in Resources : Collect(r))
    /\ WF_vars(Resync)
    /\ WF_vars(Reconcile)

FairSpec == Spec /\ Fairness

-----------------------------------------------------------------------------
(* Properties *)

(* The types of the variables. *)
TypeOK ==
    /\ {crExists, crCached, queue, fresh} \subseteq BOOLEAN
    /\ exists \subseteq Resources
    /\ cached \subseteq Resources
    /\ faults \in 0 .. MaxFaults
    /\ pc \in {"idle", "create", "rest", "done"}
    /\ step \in 0 .. Len(createResources)
    /\ attempt \in 0 .. maxTries - 1

(* As long as the custom resource exists, a StatefulSet never exists       *)
(* without the service that gives its pods their names: createBroker,      *)
(* createCoordinator and createStorage create the service first and stop   *)
(* when they cannot.                                                       *)
ServiceBeforeStatefulSet ==
    crExists =>
        \A r \in StatefulSets \intersect exists :
            [kind |-> "Service", of |-> r.of] \in exists

(* When Reconcile returns without asking for another run, every object but *)
(* the public service exists, unless the resource was deleted meanwhile.   *)
DoneMeansCreated ==
    pc = "done" /\ crExists =>
        Resources \ {createStoragePublicService} \subseteq exists

(* The service that users connect to is among them (README: "Then you can  *)
(* access the service through my-cluster:5299").                           *)
DoneMeansReachable ==
    pc = "done" /\ crExists => createStoragePublicService \in exists

(* In the end the objects are all there, or all gone with the resource,    *)
(* although a Reconcile that started before the deletion may go on         *)
(* creating them.                                                          *)
CreatedOrGone == <>[](exists = IF crExists THEN Resources ELSE {})
=============================================================================
