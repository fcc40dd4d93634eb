----------------------- MODULE ResourceCreationProofs -----------------------
(* TLAPS proofs about ResourceCreation, for every choice of components and *)
(* any number of faults.                                                   *)
EXTENDS ResourceCreation, TLAPS

(* Where Reconcile is in createResources. *)
StepInv ==
    /\ pc = "create" => step >= 1
    /\ pc # "create" => step = 0

(* As long as the resource exists nothing is removed, so that the cache    *)
(* shows only what is there and what createResources has passed stays.     *)
(* The error of the public service alone does not stop it.                 *)
PassedInv ==
    crExists =>
        /\ cached \subseteq exists
        /\ pc = "create" =>
              \A i \in 1 .. step - 1 :
                  createResources[i] \in exists \union {createStoragePublicService}
        /\ pc \in {"rest", "done"} =>
              Resources \ {createStoragePublicService} \subseteq exists

CreationInv == TypeOK /\ StepInv /\ PassedInv /\ ServiceBeforeStatefulSet

-----------------------------------------------------------------------------
(* createBroker, createCoordinator and createStorage, whichever of them    *)
(* are considered: every StatefulSet comes after its service.              *)
LEMMA ServiceIsEarlier ==
    /\ Len(createResources) \in Nat \ {0}
    /\ \A i \in 1 .. Len(createResources) :
          createResources[i].kind = "StatefulSet" =>
              \E j \in 1 .. i - 1 :
                  createResources[j] = [kind |-> "Service", of |-> createResources[i].of]
<1> USE DEF createResources, createBroker, createCoordinator, createStorage,
            createBrokerService, createBrokerStatefulSet,
            createCoordinatorService, createCoordinatorStatefulSet,
            createStorageService, createStoragePublicService, createStorageStatefulSet
<1>1. CASE Components = {"broker"}
  BY <1>1
<1>2. CASE Components = {"coordinator"}
  BY <1>2
<1>3. CASE Components = {"storage"}
  BY <1>3
<1>4. CASE Components = {"broker", "coordinator"}
  BY <1>4
<1>5. CASE Components = {"broker", "storage"}
  BY <1>5
<1>6. CASE Components = {"coordinator", "storage"}
  BY <1>6
<1>7. CASE Components = {"broker", "coordinator", "storage"}
  BY <1>7
<1>8. \/ Components = {"broker"}
      \/ Components = {"coordinator"}
      \/ Components = {"storage"}
      \/ Components = {"broker", "coordinator"}
      \/ Components = {"broker", "storage"}
      \/ Components = {"coordinator", "storage"}
      \/ Components = {"broker", "coordinator", "storage"}
  <2> HIDE DEF createResources
  <2> QED
    BY ComponentsAssumption
<1> QED
  BY <1>1, <1>2, <1>3, <1>4, <1>5, <1>6, <1>7, <1>8

(* The invariant holds when the resource is new and nothing exists. *)
LEMMA InitInv == Init => CreationInv
<1> SUFFICES ASSUME Init PROVE CreationInv
  OBVIOUS
<1> USE DEF Init
<1>1. TypeOK
  <2>1. {crExists, crCached, queue, fresh} \subseteq BOOLEAN
    OBVIOUS
  <2>2. faults \in 0 .. MaxFaults /\ attempt \in 0 .. maxTries - 1
    BY MaxFaultsAssumption DEF maxTries
  <2>3. step \in 0 .. Len(createResources)
    BY ServiceIsEarlier
  <2> QED
    BY <2>1, <2>2, <2>3 DEF TypeOK
<1>2. StepInv /\ PassedInv /\ ServiceBeforeStatefulSet
  BY DEF StepInv, PassedInv, ServiceBeforeStatefulSet
<1> QED
  BY <1>1, <1>2 DEF CreationInv

(* The step of createResources past an object that is there, or past the   *)
(* public service.                                                         *)
LEMMA AdvanceStep ==
    ASSUME CreationInv, pc = "create", Advance, UNCHANGED crExists, cached' = cached,
           exists \subseteq exists',
           crExists => object \in exists' \union {createStoragePublicService}
    PROVE  /\ pc' \in {"create", "rest"}
           /\ step' \in 0 .. Len(createResources)
           /\ attempt' \in 0 .. maxTries - 1
           /\ StepInv'
           /\ PassedInv'
<1> USE DEF CreationInv, TypeOK, StepInv
<1>1. Len(createResources) \in Nat \ {0} /\ step \in 1 .. Len(createResources)
  BY ServiceIsEarlier
<1>2. attempt' \in 0 .. maxTries - 1
  BY DEF Advance, maxTries
<1>3. CASE step = Len(createResources)
  <2>1. pc' = "rest" /\ step' = 0
    BY <1>3 DEF Advance
  <2>2. ASSUME crExists
        PROVE  Resources \ {createStoragePublicService} \subseteq exists'
    <3>1. \A i \in 1 .. Len(createResources) :
            createResources[i] \in exists' \union {createStoragePublicService}
      BY <1>1, <1>3, <2>2 DEF PassedInv, object
    <3> QED
      BY <3>1 DEF Resources
  <2> QED
    BY <1>1, <1>2, <2>1, <2>2 DEF PassedInv
<1>4. CASE step # Len(createResources)
  <2>1. pc' = "create" /\ step' = step + 1
    BY <1>4 DEF Advance
  <2>2. ASSUME crExists
        PROVE  \A i \in 1 .. step' - 1 :
                  createResources[i] \in exists' \union {createStoragePublicService}
    BY <1>1, <2>1, <2>2 DEF PassedInv, object
  <2> QED
    BY <1>1, <1>2, <1>4, <2>1, <2>2 DEF PassedInv
<1> QED
  BY <1>3, <1>4

(* Every step keeps the invariant: one case per action. *)
LEMMA CreationStep == CreationInv /\ [Next]_vars => CreationInv'
<1> SUFFICES ASSUME CreationInv, [Next]_vars PROVE CreationInv'
  OBVIOUS
<1> USE DEF CreationInv, local
<1>a. Len(createResources) \in Nat \ {0}
  BY ServiceIsEarlier
<1>1. CASE UserDelete
  BY <1>1 DEF UserDelete, TypeOK, StepInv, PassedInv, ServiceBeforeStatefulSet
<1>2. CASE DeliverCr
  BY <1>2 DEF DeliverCr, TypeOK, StepInv, PassedInv, ServiceBeforeStatefulSet
<1>3. ASSUME NEW r \in Resources, Deliver(r)
      PROVE  CreationInv'
  BY <1>3 DEF Deliver, TypeOK, StepInv, PassedInv, ServiceBeforeStatefulSet
<1>4. ASSUME NEW r \in Resources, Collect(r)
      PROVE  CreationInv'
  BY <1>4 DEF Collect, TypeOK, StepInv, PassedInv, ServiceBeforeStatefulSet
<1>5. CASE Resync
  BY <1>5 DEF Resync, TypeOK, StepInv, PassedInv, ServiceBeforeStatefulSet
<1>6. CASE ReconcileStart
  <2>1. TypeOK'
    <3>1. {crExists, crCached, queue, fresh}' \subseteq BOOLEAN
      BY <1>6 DEF ReconcileStart, TypeOK
    <3>2. step' \in 0 .. Len(createResources)
      BY <1>6, <1>a DEF ReconcileStart
    <3> QED
      BY <1>6, <3>1, <3>2 DEF ReconcileStart, TypeOK
  <2>2. StepInv' /\ PassedInv'
    BY <1>6 DEF ReconcileStart, StepInv, PassedInv
  <2>3. ServiceBeforeStatefulSet'
    BY <1>6 DEF ReconcileStart, ServiceBeforeStatefulSet
  <2> QED
    BY <2>1, <2>2, <2>3
<1>7. CASE ReconcileGone
  BY <1>7 DEF ReconcileGone, TypeOK, StepInv, PassedInv, ServiceBeforeStatefulSet
<1>8. CASE Found
  <2>1. crExists => object \in exists'
    BY <1>8 DEF Found, PassedInv
  <2>2. /\ pc' \in {"create", "rest"}
        /\ step' \in 0 .. Len(createResources)
        /\ attempt' \in 0 .. maxTries - 1
        /\ StepInv'
        /\ PassedInv'
    BY <1>8, <2>1, AdvanceStep DEF Found
  <2>3. TypeOK' /\ ServiceBeforeStatefulSet'
    BY <1>8, <2>2 DEF Found, TypeOK, ServiceBeforeStatefulSet
  <2> QED
    BY <2>2, <2>3
<1>9. CASE Create
  <2>1. /\ pc' \in {"create", "rest"}
        /\ step' \in 0 .. Len(createResources)
        /\ attempt' \in 0 .. maxTries - 1
        /\ StepInv'
        /\ PassedInv'
    BY <1>9, AdvanceStep DEF Create
  <2>2. step \in 1 .. Len(createResources) /\ object \in Resources
    BY <1>9, <1>a DEF Create, TypeOK, StepInv, object, Resources
  <2>3. TypeOK'
    BY <1>9, <2>1, <2>2 DEF Create, TypeOK
  <2>4. ServiceBeforeStatefulSet'
    <3>1. ASSUME crExists, object.kind = "StatefulSet"
          PROVE  [kind |-> "Service", of |-> object.of] \in exists
      <4>1. PICK j \in 1 .. step - 1 :
              createResources[j] = [kind |-> "Service", of |-> object.of]
        BY <2>2, <3>1, ServiceIsEarlier DEF object
      <4>2. createResources[j] # createStoragePublicService
        BY <4>1 DEF createStoragePublicService
      <4> QED
        BY <1>9, <3>1, <4>1, <4>2 DEF Create, PassedInv
    <3> QED
      BY <1>9, <3>1 DEF Create, ServiceBeforeStatefulSet, StatefulSets
  <2> QED
    BY <2>1, <2>3, <2>4
<1>10. CASE AlreadyExistsRetry
  <2>1. TypeOK'
    BY <1>10 DEF AlreadyExistsRetry, TypeOK, maxTries
  <2> QED
    BY <1>10, <2>1 DEF AlreadyExistsRetry, StepInv, PassedInv, ServiceBeforeStatefulSet
<1>11. ASSUME Return, queue' \in BOOLEAN, faults' \in 0 .. MaxFaults,
              UNCHANGED <<crExists, crCached, exists, cached>>
       PROVE  CreationInv'
  <2>1. TypeOK'
    <3>1. {crExists, crCached, queue, fresh}' \subseteq BOOLEAN
      BY <1>11 DEF Return, TypeOK
    <3>2. step' \in 0 .. Len(createResources) /\ attempt' \in 0 .. maxTries - 1
      BY <1>11, <1>a DEF Return, maxTries
    <3> QED
      BY <1>11, <3>1, <3>2 DEF Return, TypeOK
  <2> QED
    BY <1>11, <2>1 DEF Return, StepInv, PassedInv, ServiceBeforeStatefulSet
<1>12. ASSUME pc = "create", FailObject, faults' \in 0 .. MaxFaults,
              UNCHANGED <<crExists, crCached, exists, cached>>
       PROVE  CreationInv'
  <2>1. CASE object = createStoragePublicService
    <3>1. Advance /\ UNCHANGED <<queue, fresh>>
      BY <1>12, <2>1 DEF FailObject
    <3>2. /\ pc' \in {"create", "rest"}
          /\ step' \in 0 .. Len(createResources)
          /\ attempt' \in 0 .. maxTries - 1
          /\ StepInv'
          /\ PassedInv'
      BY <1>12, <2>1, <3>1, AdvanceStep
    <3>3. TypeOK' /\ ServiceBeforeStatefulSet'
      BY <1>12, <3>1, <3>2 DEF TypeOK, ServiceBeforeStatefulSet
    <3> QED
      BY <3>2, <3>3
  <2>2. CASE object # createStoragePublicService
    BY <1>11, <1>12, <2>2 DEF FailObject, Requeue
  <2> QED
    BY <2>1, <2>2
<1>13. CASE AlreadyExists
  BY <1>12, <1>13 DEF AlreadyExists, TypeOK
<1>14. CASE CallFails
  <2>1. faults' \in 0 .. MaxFaults
    BY <1>14, MaxFaultsAssumption DEF CallFails, Fault, TypeOK
  <2> QED
    BY <1>12, <1>14, <2>1 DEF CallFails
<1>15. CASE RestRequeues
  BY <1>11, <1>15 DEF RestRequeues, Requeue, TypeOK
<1>16. CASE RestSucceeds
  BY <1>16 DEF RestSucceeds, TypeOK, StepInv, PassedInv, ServiceBeforeStatefulSet
<1>17. CASE Finish
  <2>1. queue' \in BOOLEAN
    BY <1>17 DEF Finish, TypeOK
  <2> QED
    BY <1>11, <1>17, <2>1 DEF Finish, TypeOK
<1>18. CASE UNCHANGED vars
  BY <1>18 DEF vars, TypeOK, StepInv, PassedInv, ServiceBeforeStatefulSet
<1> QED
  BY <1>1, <1>2, <1>3, <1>4, <1>5, <1>6, <1>7, <1>8, <1>9, <1>10,
     <1>13, <1>14, <1>15, <1>16, <1>17, <1>18
  DEF Next, Reconcile

(* So the invariant holds in every reachable state. *)
LEMMA CreationInvariant == Spec => []CreationInv
BY InitInv, CreationStep, PTL DEF Spec

-----------------------------------------------------------------------------
(* The types of the variables, the position in createResources included.   *)
THEOREM TypeCorrect == Spec => []TypeOK
<1>1. CreationInv => TypeOK
  BY DEF CreationInv
<1> QED
  BY CreationInvariant, <1>1, PTL

(* Stale caches, AlreadyExists, failed calls and the overwritten error of  *)
(* the public service never leave a StatefulSet without its service.       *)
THEOREM ServicesFirst == Spec => []ServiceBeforeStatefulSet
<1>1. CreationInv => ServiceBeforeStatefulSet
  BY DEF CreationInv
<1> QED
  BY CreationInvariant, <1>1, PTL

(* A Reconcile that asks for no other run has created all but the public   *)
(* service.                                                                *)
THEOREM DoneCreated == Spec => []DoneMeansCreated
<1>1. CreationInv => DoneMeansCreated
  BY DEF CreationInv, PassedInv, DoneMeansCreated
<1> QED
  BY CreationInvariant, <1>1, PTL
=============================================================================
