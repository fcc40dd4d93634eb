------------------------ MODULE OperatorLeaderProofs ------------------------
(* TLAPS proofs about OperatorLeader, for any number of pods and exits.    *)
EXTENDS OperatorLeader, TLAPS

USE PodsAssumption, ExitsAssumption, ForcedAssumption

(* Every pod is in one of these steps, and nobody owns a free lock.        *)
LEMMA NoPodIsNoPod == NoPod \notin Pods
  BY DEF NoPod, Pods

(* The types of the variables hold initially. *)
LEMMA TypeInit == Init => TypeOK
  BY DEF Init, TypeOK, MainSteps

(* Every step of Kubernetes and of main preserves the types. *)
LEMMA TypeStep == TypeOK /\ [Next]_vars => TypeOK'
<1> SUFFICES ASSUME TypeOK, [Next]_vars PROVE TypeOK'
  OBVIOUS
<1> USE DEF TypeOK, MainSteps
<1>1. ASSUME NEW p \in Pods, Kubernetes(p) PROVE TypeOK'
  <2>1. CASE ReplacePod(p)
    BY <2>1 DEF ReplacePod, CreatePod
  <2>2. CASE DeletePod(p)
    BY <2>2 DEF DeletePod
  <2>3. CASE StartContainer(p)
    BY <2>3 DEF StartContainer
  <2>4. CASE StopProcess(p)
    BY <2>4 DEF StopProcess
  <2>5. CASE PodGone(p)
    BY <2>5 DEF PodGone
  <2> QED
    BY <1>1, <2>1, <2>2, <2>3, <2>4, <2>5 DEF Kubernetes
<1>2. ASSUME NEW p \in Pods, Main(p) PROVE TypeOK'
  BY <1>2 DEF Main, GetConfig, Become, AddToManager, AddMetrics, Proceed
<1>3. ASSUME NEW p \in Pods, Rollout(p) \/ DrainPod(p) \/ Exit(p) PROVE TypeOK'
  BY <1>3 DEF Rollout, CreatePod, DrainPod, Exit
<1>4. CASE CollectLock
  BY <1>4 DEF CollectLock
<1>5. CASE UNCHANGED vars
  BY <1>5 DEF vars
<1> QED
  BY <1>1, <1>2, <1>3, <1>4, <1>5 DEF Next

(* The variables of the start-up model keep their types. *)
THEOREM TypeCorrect == Spec => []TypeOK
  BY TypeInit, TypeStep, PTL DEF Spec

(* Without forced deletions, each step keeps the lock with the process     *)
(* that is past leader.Become.                                             *)
LEMMA LockStep ==
    ~ForcedDeletes /\ TypeOK /\ LockInv /\ [Next]_vars => LockInv'
<1> SUFFICES ASSUME ~ForcedDeletes, TypeOK, LockInv, [Next]_vars PROVE LockInv'
  OBVIOUS
<1> USE NoPodIsNoPod DEF TypeOK, MainSteps, LockInv
<1>1. ASSUME NEW p \in Pods, Kubernetes(p) PROVE LockInv'
  <2>1. CASE ReplacePod(p)
    BY <2>1 DEF ReplacePod, CreatePod
  <2>2. CASE DeletePod(p)
    BY <2>2 DEF DeletePod
  <2>3. CASE StartContainer(p)
    BY <2>3 DEF StartContainer
  <2>4. CASE StopProcess(p)
    BY <2>4 DEF StopProcess
  <2>5. CASE PodGone(p)
    BY <2>5 DEF PodGone
  <2> QED
    BY <1>1, <2>1, <2>2, <2>3, <2>4, <2>5 DEF Kubernetes
<1>2. ASSUME NEW p \in Pods, Main(p) PROVE LockInv'
  <2>1. CASE GetConfig(p)
    BY <2>1 DEF GetConfig, Proceed
  <2>2. CASE Become(p)
    BY <2>2 DEF Become, Proceed
  <2>3. CASE AddToManager(p)
    BY <2>3 DEF AddToManager, Proceed
  <2>4. CASE AddMetrics(p)
    BY <2>4 DEF AddMetrics, Proceed
  <2> QED
    BY <1>2, <2>1, <2>2, <2>3, <2>4 DEF Main
<1>3. ASSUME NEW p \in Pods, Rollout(p) \/ DrainPod(p) \/ Exit(p) PROVE LockInv'
  <2>1. CASE Rollout(p)
    BY <2>1 DEF Rollout, CreatePod
  <2>2. CASE DrainPod(p)
    BY <2>2 DEF DrainPod
  <2>3. CASE Exit(p)
    BY <2>3 DEF Exit
  <2> QED
    BY <1>3, <2>1, <2>2, <2>3
<1>4. CASE CollectLock
  BY <1>4 DEF CollectLock
<1>5. CASE UNCHANGED vars
  BY <1>5 DEF vars
<1> QED
  BY <1>1, <1>2, <1>3, <1>4, <1>5 DEF Next

(* At most one operator runs controllers, whatever pods are created,       *)
(* drained, restarted and deleted, unless deletions are forced.            *)
THEOREM OneOperatorRuns == Spec => []OneOperator
<1>1. CASE ForcedDeletes
  <2>1. OneOperator
    BY <1>1 DEF OneOperator
  <2> QED
    BY <2>1, PTL
<1>2. CASE ~ForcedDeletes
  <2>1. Init => LockInv
    BY DEF Init, LockInv
  <2>2. TypeOK /\ LockInv /\ [Next]_vars => LockInv'
    BY <1>2, LockStep
  <2>3. LockInv => OneOperator
    BY DEF LockInv, OneOperator, Reconciling
  <2> QED
    BY <2>1, <2>2, <2>3, TypeCorrect, PTL DEF Spec
<1> QED
  BY <1>1, <1>2
=============================================================================
