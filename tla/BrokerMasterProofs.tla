------------------------- MODULE BrokerMasterProofs -------------------------
(* TLAPS proofs about BrokerMaster, for any number of brokers and          *)
(* coordinators and any number of faults.                                  *)
EXTENDS BrokerMaster, FiniteSetTheorems, TLAPS

(* A broker that is down has nothing in its memory, a cluster makes an     *)
(* epoch, and the proxies that are kept are among all proxies.             *)
MemoryInv ==
    /\ \A b \in Brokers \ up : replicaAddrs[b] = {} /\ b \notin cluster /\ epoch[b] = 0
    /\ \A b \in cluster : epoch[b] >= 1
    /\ proxyEpoch <= topEpoch

(* The local variables of Reconcile.  Every broker with replicas is one    *)
(* whose address was listed or that ran without being listed: one that     *)
(* comes back later has none.                                              *)
ScanInv ==
    /\ pc \in {"idle", "endpoints"} => masters = {} /\ best = NoBroker /\ bestEpoch = 0
    /\ pc \notin {"idle", "endpoints"} =>
          (Flagged \ missed) \union masters \subseteq listed /\ best \in listed \union {NoBroker}
    /\ pc = "flags" => best = NoBroker
    /\ pc \in {"flags", "epochs", "clear1", "clear2"} => todo \subseteq listed
    /\ pc = "coordinators" => todo \subseteq Coordinators
    /\ pc \notin {"idle", "endpoints", "flags", "epochs", "status"} => best \in listed
    /\ best = NoBroker => bestEpoch = 0

(* setBrokerReplicas clears whoever else is listed and has replicas. *)
FlagInv ==
    /\ pc \in {"clear1", "clear2"} => Flagged \subseteq {best} \union todo \union missed
    /\ SingleMaster

(* As long as nothing fails, the coordinators work for the chosen broker   *)
(* from configSetBroker on, and the proxies hear from no other.            *)
SwitchInv ==
    clean =>
        /\ pc = "coordinators" => \A c \in Coordinators \ todo : coordBroker[c] = best
        /\ pc \in {"maxEpoch", "fixEpoch", "setMaster1", "clear1", "meta1", "rest1",
                   "clear2", "meta2", "rest2"} =>
              \A c \in Coordinators : coordBroker[c] = best
        /\ pc = "fixEpoch" => maxEpoch >= proxyEpoch \/ epoch[best] >= proxyEpoch

-----------------------------------------------------------------------------
(* What getCurrentMaster relies on in quiet times. *)

(* A broker that Reconcile may choose: it has the cluster, or no broker    *)
(* has, and then its epoch is not behind.                                  *)
Good(b) == b \in cluster \/ (cluster = {} /\ \A x \in Brokers : epoch[x] <= epoch[b])

(* Epochs tell who has the cluster. *)
Ahead == \A r \in cluster, b \in Brokers \ cluster : epoch[b] < epoch[r]

(* The epoch scan: it has seen a broker with the cluster ... *)
SeenCluster ==
    /\ best \in up => best \in cluster
    /\ \A b \in up \ cluster : epoch[b] < bestEpoch

(* ... or those that have it are still ahead of it. *)
NotSeenYet ==
    /\ cluster \subseteq todo
    /\ \A b \in up \ todo : best # NoBroker /\ epoch[b] <= bestEpoch
    /\ best \in up => epoch[best] = bestEpoch
    /\ best # NoBroker => \A r \in cluster : bestEpoch < epoch[r]

QuietInv ==
    quiet =>
        /\ Ahead
        /\ \A b \in Flagged : Good(b)
        /\ \A b, r \in Flagged : b = r
        /\ pc \notin {"idle", "endpoints"} => up \subseteq listed
        /\ pc = "flags" =>
              /\ \A b, r \in Flagged \union masters : b = r
              /\ Flagged \subseteq todo \union masters
              /\ masters \intersect up \subseteq Flagged
        /\ pc = "epochs" =>
              /\ Flagged = {}
              /\ best \notin todo
              /\ SeenCluster \/ NotSeenYet
        /\ pc \notin {"idle", "endpoints", "flags", "epochs"} =>
              /\ Flagged \subseteq {best}
              /\ best \in up => Good(best)
        /\ pc = "fixEpoch" => maxEpoch <= proxyEpoch

MasterInv ==
    /\ TypeOK
    /\ MemoryInv
    /\ ScanInv
    /\ FlagInv
    /\ SwitchInv
    /\ EpochRecovered
    /\ QuietInv

-----------------------------------------------------------------------------
(* The ways in which a Reconcile ends. *)
Returns ==
    /\ Return
    /\ queue' \in {TRUE, queue}
    /\ UNCHANGED <<faults, history>> \/ Fault \/ CallLost
    /\ UNCHANGED <<brokerVars, externVars, status>>

(* The steps of Next, one disjunct for each action. *)
LEMMA ActionCases ==
    ASSUME [Next]_vars
    PROVE  \/ \E b \in Brokers : BrokerCrash(b)
           \/ \E b \in Brokers : BrokerRestart(b)
           \/ \E c \in Coordinators : CoordinatorRestart(c)
           \/ \E b \in Brokers : BumpEpoch(b)
           \/ \E b \in Brokers, r \in Brokers : SyncMeta(b, r)
           \/ \E c \in Coordinators : PushMeta(c)
           \/ \E c \in Coordinators : PushSurplusMeta(c)
           \/ \E e \in 0 .. topEpoch : Regroup(e)
           \/ SurplusGone
           \/ Resync
           \/ ReconcileStart
           \/ \E missing \in SUBSET up : GetEndpoints(missing)
           \/ \E b \in Brokers : GetReplicaAddresses(b)
           \/ \E b \in Brokers : SkipBroker(b)
           \/ OneFlagged
           \/ NoneOrSeveralFlagged
           \/ \E b \in Brokers : GetEpoch(b)
           \/ MaxEpochBroker
           \/ SetMasterBrokerStatus
           \/ \E c \in Coordinators : SetBrokerAddress(c)
           \/ \E c \in Coordinators : SetBrokerAddressFails(c)
           \/ ConfigSetBrokerDone
           \/ GetMaxEpoch
           \/ FixBrokerEpoch
           \/ SetMasterReplicas("setMaster1", "clear1") \/ SetMasterReplicas("rest1", "clear2")
           \/ \E b \in Brokers : ClearReplica(b)
           \/ Configured("clear1", "meta1") \/ Configured("clear2", "meta2")
           \/ CreateCluster("meta1", "rest1") \/ CreateCluster("meta2", "rest2")
           \/ Returns
           \/ UNCHANGED vars
<1>1. NoEndpoints \/ MasterStatusRejected \/ ConfigSetBrokerFailed \/ RestRequeues => Returns
  BY DEF NoEndpoints, MasterStatusRejected, ConfigSetBrokerFailed, RestRequeues, Requeue,
         Returns
<1>2. ReconcileDone => Returns
  BY DEF ReconcileDone, Returns
<1>3. BrokerCallFails => Returns
  BY DEF BrokerCallFails, CallFails, Requeue, Returns
<1>4. Abort => Returns
  BY DEF Abort, Requeue, Returns
<1> QED
  BY <1>1, <1>2, <1>3, <1>4
  DEF Next, Faults, Meta, Reconcile, GetCurrentMaster, ConfigSetBroker, SetBrokerReplicas

(* The types of the variables are kept. *)
LEMMA TypeStep ==
    ASSUME TypeOK, [Next]_vars
    PROVE  TypeOK'
<1> USE BrokersAssumption, EpochsAssumption DEF TypeOK, brokerVars, externVars, proxyVars, scanVars
<1>a. ASSUME Fault \/ CallLost \/ UNCHANGED <<faults, history>>
      PROVE  /\ faults' \in 0 .. MaxFaults /\ clean' \in BOOLEAN /\ quiet' \in BOOLEAN
             /\ missed' \subseteq Brokers
  <2>1. faults' \in 0 .. MaxFaults
    BY <1>a DEF Fault, CallLost
  <2>2. clean' \in BOOLEAN /\ quiet' \in BOOLEAN
    BY <1>a DEF Fault, CallLost, history
  <2>3. missed' \subseteq Brokers
    BY <1>a DEF Fault, CallLost, history
  <2> QED
    BY <2>1, <2>2, <2>3
<1>1. ASSUME NEW b \in Brokers, BrokerCrash(b)
      PROVE  TypeOK'
  BY <1>1, <1>a DEF BrokerCrash
<1>2. ASSUME NEW b \in Brokers, BrokerRestart(b)
      PROVE  TypeOK'
  BY <1>2 DEF BrokerRestart, history
<1>3. ASSUME NEW c \in Coordinators, CoordinatorRestart(c)
      PROVE  TypeOK'
  BY <1>3, <1>a DEF CoordinatorRestart
<1>4. ASSUME NEW b \in Brokers, BumpEpoch(b)
      PROVE  TypeOK'
  BY <1>4 DEF BumpEpoch, history
<1>5. ASSUME NEW b \in Brokers, NEW r \in Brokers, SyncMeta(b, r)
      PROVE  TypeOK'
  BY <1>5 DEF SyncMeta, history
<1>6. ASSUME NEW c \in Coordinators, PushMeta(c)
      PROVE  TypeOK'
  BY <1>6 DEF PushMeta, history
<1>7. CASE Resync
  BY <1>7 DEF Resync, history
<1>8. CASE ReconcileStart
  BY <1>8 DEF ReconcileStart, history
<1>9. ASSUME NEW missing \in SUBSET up, GetEndpoints(missing)
      PROVE  TypeOK'
  <2>1. Cardinality(missing) \in Nat
    BY FS_Subset, FS_CardinalityType
  <2>2. faults' \in 0 .. MaxFaults
    BY <1>9, <2>1 DEF GetEndpoints
  <2>3. clean' \in BOOLEAN /\ quiet' \in BOOLEAN
    BY <1>9 DEF GetEndpoints
  <2> QED
    BY <1>9, <2>2, <2>3 DEF GetEndpoints
<1>10. ASSUME NEW b \in Brokers, GetReplicaAddresses(b)
      PROVE  TypeOK'
  BY <1>10 DEF GetReplicaAddresses, history
<1>11. ASSUME NEW b \in Brokers, SkipBroker(b)
      PROVE  TypeOK'
  BY <1>11, <1>a DEF SkipBroker, CallFails
<1>12. CASE OneFlagged
  BY <1>12 DEF OneFlagged, history
<1>13. CASE NoneOrSeveralFlagged
  BY <1>13 DEF NoneOrSeveralFlagged, history
<1>14. ASSUME NEW b \in Brokers, GetEpoch(b)
      PROVE  TypeOK'
  BY <1>14 DEF GetEpoch, history
<1>15. CASE MaxEpochBroker
  BY <1>15 DEF MaxEpochBroker, history
<1>16. CASE SetMasterBrokerStatus
  BY <1>16 DEF SetMasterBrokerStatus, ValidStatus, history
<1>17. ASSUME NEW c \in Coordinators, SetBrokerAddress(c)
      PROVE  TypeOK'
  BY <1>17 DEF SetBrokerAddress, history
<1>18. ASSUME NEW c \in Coordinators, SetBrokerAddressFails(c)
      PROVE  TypeOK'
  BY <1>18, <1>a DEF SetBrokerAddressFails
<1>19. CASE ConfigSetBrokerDone
  BY <1>19 DEF ConfigSetBrokerDone, history
<1>20. CASE GetMaxEpoch
  BY <1>20, <1>a DEF GetMaxEpoch
<1>21. CASE FixBrokerEpoch
  BY <1>21 DEF FixBrokerEpoch, history
<1>22. ASSUME SetMasterReplicas("setMaster1", "clear1") \/ SetMasterReplicas("rest1", "clear2")
      PROVE  TypeOK'
  BY <1>22 DEF SetMasterReplicas, replicaAddresses, history
<1>23. ASSUME NEW b \in Brokers, ClearReplica(b)
      PROVE  TypeOK'
  BY <1>23 DEF ClearReplica, history
<1>24. ASSUME Configured("clear1", "meta1") \/ Configured("clear2", "meta2")
      PROVE  TypeOK'
  BY <1>24 DEF Configured, history
<1>25. ASSUME CreateCluster("meta1", "rest1") \/ CreateCluster("meta2", "rest2")
      PROVE  TypeOK'
  BY <1>25 DEF CreateCluster, history
<1>26. CASE Returns
  <2>1. queue' \in BOOLEAN
    BY <1>26 DEF Returns
  <2> QED
    BY <1>26, <2>1, <1>a DEF Returns, Return
<1>27. CASE UNCHANGED vars
  BY <1>27 DEF vars, history
<1>28. ASSUME NEW c \in Coordinators, PushSurplusMeta(c)
      PROVE  TypeOK'
  BY <1>28 DEF PushSurplusMeta, history
<1>29. ASSUME NEW e \in 0 .. topEpoch, Regroup(e)
      PROVE  TypeOK'
  BY <1>29 DEF Regroup, history
<1>30. CASE SurplusGone
  BY <1>30 DEF SurplusGone, history
<1> QED
  BY <1>1, <1>2, <1>3, <1>4, <1>5, <1>6, <1>7, <1>8, <1>9, <1>10, <1>11,
     <1>12, <1>13, <1>14, <1>15, <1>16, <1>17, <1>18, <1>19, <1>20, <1>21,
     <1>22, <1>23, <1>24, <1>25, <1>26, <1>27, <1>28, <1>29, <1>30, ActionCases

(* Only a running broker is written to, and a crash takes all it had. *)
LEMMA MemoryStep ==
    ASSUME TypeOK, MemoryInv, [Next]_vars
    PROVE  MemoryInv'
<1> USE DEF TypeOK, MemoryInv, brokerVars, externVars, proxyVars
<1>1. ASSUME NEW b \in Brokers, BrokerCrash(b)
      PROVE  MemoryInv'
  BY <1>1 DEF BrokerCrash, Fault
<1>2. ASSUME NEW b \in Brokers, BrokerRestart(b)
      PROVE  MemoryInv'
  BY <1>2 DEF BrokerRestart
<1>3. ASSUME NEW c \in Coordinators, CoordinatorRestart(c)
      PROVE  MemoryInv'
  BY <1>3 DEF CoordinatorRestart, Fault
<1>4. ASSUME NEW b \in Brokers, BumpEpoch(b)
      PROVE  MemoryInv'
  BY <1>4 DEF BumpEpoch
<1>5. ASSUME NEW b \in Brokers, NEW r \in Brokers, SyncMeta(b, r)
      PROVE  MemoryInv'
  BY <1>5 DEF SyncMeta
<1>6. ASSUME NEW c \in Coordinators, PushMeta(c)
      PROVE  MemoryInv'
  BY <1>6 DEF PushMeta
<1>7. CASE Resync
  BY <1>7 DEF Resync
<1>8. CASE ReconcileStart
  BY <1>8 DEF ReconcileStart
<1>9. ASSUME NEW missing \in SUBSET up, GetEndpoints(missing)
      PROVE  MemoryInv'
  BY <1>9 DEF GetEndpoints
<1>10. ASSUME NEW b \in Brokers, GetReplicaAddresses(b)
      PROVE  MemoryInv'
  BY <1>10 DEF GetReplicaAddresses
<1>11. ASSUME NEW b \in Brokers, SkipBroker(b)
      PROVE  MemoryInv'
  BY <1>11 DEF SkipBroker, CallFails, CallLost
<1>12. CASE OneFlagged
  BY <1>12 DEF OneFlagged
<1>13. CASE NoneOrSeveralFlagged
  BY <1>13 DEF NoneOrSeveralFlagged
<1>14. ASSUME NEW b \in Brokers, GetEpoch(b)
      PROVE  MemoryInv'
  BY <1>14 DEF GetEpoch
<1>15. CASE MaxEpochBroker
  BY <1>15 DEF MaxEpochBroker
<1>16. CASE SetMasterBrokerStatus
  BY <1>16 DEF SetMasterBrokerStatus, ValidStatus
<1>17. ASSUME NEW c \in Coordinators, SetBrokerAddress(c)
      PROVE  MemoryInv'
  BY <1>17 DEF SetBrokerAddress
<1>18. ASSUME NEW c \in Coordinators, SetBrokerAddressFails(c)
      PROVE  MemoryInv'
  BY <1>18 DEF SetBrokerAddressFails, Fault
<1>19. CASE ConfigSetBrokerDone
  BY <1>19 DEF ConfigSetBrokerDone
<1>20. CASE GetMaxEpoch
  BY <1>20 DEF GetMaxEpoch, Fault
<1>21. CASE FixBrokerEpoch
  BY <1>21 DEF FixBrokerEpoch
<1>22. ASSUME SetMasterReplicas("setMaster1", "clear1") \/ SetMasterReplicas("rest1", "clear2")
      PROVE  MemoryInv'
  BY <1>22 DEF SetMasterReplicas, replicaAddresses
<1>23. ASSUME NEW b \in Brokers, ClearReplica(b)
      PROVE  MemoryInv'
  BY <1>23 DEF ClearReplica
<1>24. ASSUME Configured("clear1", "meta1") \/ Configured("clear2", "meta2")
      PROVE  MemoryInv'
  BY <1>24 DEF Configured
<1>25. ASSUME CreateCluster("meta1", "rest1") \/ CreateCluster("meta2", "rest2")
      PROVE  MemoryInv'
  BY <1>25 DEF CreateCluster
<1>26. CASE Returns
  BY <1>26 DEF Returns, Return, Fault, CallLost
<1>27. CASE UNCHANGED vars
  BY <1>27 DEF vars
<1>28. ASSUME NEW c \in Coordinators, PushSurplusMeta(c)
      PROVE  MemoryInv'
  BY <1>28 DEF PushSurplusMeta
<1>29. ASSUME NEW e \in 0 .. topEpoch, Regroup(e)
      PROVE  MemoryInv'
  BY <1>29 DEF Regroup
<1>30. CASE SurplusGone
  BY <1>30 DEF SurplusGone
<1> QED
  BY <1>1, <1>2, <1>3, <1>4, <1>5, <1>6, <1>7, <1>8, <1>9, <1>10, <1>11,
     <1>12, <1>13, <1>14, <1>15, <1>16, <1>17, <1>18, <1>19, <1>20, <1>21,
     <1>22, <1>23, <1>24, <1>25, <1>26, <1>27, <1>28, <1>29, <1>30, ActionCases

(* The brokers with replicas are running when the endpoints are listed,    *)
(* and Reconcile makes a master only of a listed broker.                   *)
LEMMA ScanStep ==
    ASSUME TypeOK, MemoryInv, ScanInv, [Next]_vars
    PROVE  ScanInv'
<1> USE BrokersAssumption DEF TypeOK, MemoryInv, ScanInv, Flagged, brokerVars, scanVars, history
<1>1. ASSUME NEW b \in Brokers, BrokerCrash(b)
      PROVE  ScanInv'
  BY <1>1 DEF BrokerCrash, Fault
<1>2. ASSUME NEW b \in Brokers, BrokerRestart(b)
      PROVE  ScanInv'
  BY <1>2 DEF BrokerRestart
<1>3. ASSUME NEW c \in Coordinators, CoordinatorRestart(c)
      PROVE  ScanInv'
  BY <1>3 DEF CoordinatorRestart, Fault
<1>4. ASSUME NEW b \in Brokers, BumpEpoch(b)
      PROVE  ScanInv'
  BY <1>4 DEF BumpEpoch
<1>5. ASSUME NEW b \in Brokers, NEW r \in Brokers, SyncMeta(b, r)
      PROVE  ScanInv'
  BY <1>5 DEF SyncMeta
<1>6. ASSUME NEW c \in Coordinators, PushMeta(c)
      PROVE  ScanInv'
  BY <1>6 DEF PushMeta
<1>7. CASE Resync
  BY <1>7 DEF Resync
<1>8. CASE ReconcileStart
  BY <1>8 DEF ReconcileStart
<1>9. ASSUME NEW missing \in SUBSET up, GetEndpoints(missing)
      PROVE  ScanInv'
  BY <1>9 DEF GetEndpoints
<1>10. ASSUME NEW b \in Brokers, GetReplicaAddresses(b)
      PROVE  ScanInv'
  BY <1>10 DEF GetReplicaAddresses
<1>11. ASSUME NEW b \in Brokers, SkipBroker(b)
      PROVE  ScanInv'
  BY <1>11 DEF SkipBroker, CallFails, CallLost
<1>12. CASE OneFlagged
  BY <1>12 DEF OneFlagged
<1>13. CASE NoneOrSeveralFlagged
  BY <1>13 DEF NoneOrSeveralFlagged
<1>14. ASSUME NEW b \in Brokers, GetEpoch(b)
      PROVE  ScanInv'
  BY <1>14 DEF GetEpoch
<1>15. CASE MaxEpochBroker
  BY <1>15 DEF MaxEpochBroker
<1>16. CASE SetMasterBrokerStatus
  BY <1>16 DEF SetMasterBrokerStatus, ValidStatus
<1>17. ASSUME NEW c \in Coordinators, SetBrokerAddress(c)
      PROVE  ScanInv'
  BY <1>17 DEF SetBrokerAddress
<1>18. ASSUME NEW c \in Coordinators, SetBrokerAddressFails(c)
      PROVE  ScanInv'
  BY <1>18 DEF SetBrokerAddressFails, Fault
<1>19. CASE ConfigSetBrokerDone
  BY <1>19 DEF ConfigSetBrokerDone
<1>20. CASE GetMaxEpoch
  BY <1>20 DEF GetMaxEpoch, Fault
<1>21. CASE FixBrokerEpoch
  BY <1>21 DEF FixBrokerEpoch
<1>22. ASSUME SetMasterReplicas("setMaster1", "clear1") \/ SetMasterReplicas("rest1", "clear2")
      PROVE  ScanInv'
  BY <1>22 DEF SetMasterReplicas, replicaAddresses
<1>23. ASSUME NEW b \in Brokers, ClearReplica(b)
      PROVE  ScanInv'
  BY <1>23 DEF ClearReplica
<1>24. ASSUME Configured("clear1", "meta1") \/ Configured("clear2", "meta2")
      PROVE  ScanInv'
  BY <1>24 DEF Configured
<1>25. ASSUME CreateCluster("meta1", "rest1") \/ CreateCluster("meta2", "rest2")
      PROVE  ScanInv'
  BY <1>25 DEF CreateCluster
<1>26. CASE Returns
  BY <1>26 DEF Returns, Return, Fault, CallLost
<1>27. CASE UNCHANGED vars
  BY <1>27 DEF vars
<1>28. ASSUME NEW c \in Coordinators, PushSurplusMeta(c)
      PROVE  ScanInv'
  BY <1>28 DEF PushSurplusMeta
<1>29. ASSUME NEW e \in 0 .. topEpoch, Regroup(e)
      PROVE  ScanInv'
  BY <1>29 DEF Regroup
<1>30. CASE SurplusGone
  BY <1>30 DEF SurplusGone
<1> QED
  BY <1>1, <1>2, <1>3, <1>4, <1>5, <1>6, <1>7, <1>8, <1>9, <1>10, <1>11,
     <1>12, <1>13, <1>14, <1>15, <1>16, <1>17, <1>18, <1>19, <1>20, <1>21,
     <1>22, <1>23, <1>24, <1>25, <1>26, <1>27, <1>28, <1>29, <1>30, ActionCases

(* SetMasterReplicas puts every listed broker but the master on the list   *)
(* of those to clear, and ClearReplica takes one off when it is clear.     *)
LEMMA FlagStep ==
    ASSUME TypeOK, ScanInv, FlagInv, [Next]_vars
    PROVE  FlagInv'
<1> USE DEF TypeOK, ScanInv, FlagInv, SingleMaster, Flagged, brokerVars, scanVars, history
<1>1. ASSUME NEW b \in Brokers, BrokerCrash(b)
      PROVE  FlagInv'
  BY <1>1 DEF BrokerCrash, Fault
<1>2. ASSUME NEW b \in Brokers, BrokerRestart(b)
      PROVE  FlagInv'
  BY <1>2 DEF BrokerRestart
<1>3. ASSUME NEW c \in Coordinators, CoordinatorRestart(c)
      PROVE  FlagInv'
  BY <1>3 DEF CoordinatorRestart, Fault
<1>4. ASSUME NEW b \in Brokers, BumpEpoch(b)
      PROVE  FlagInv'
  BY <1>4 DEF BumpEpoch
<1>5. ASSUME NEW b \in Brokers, NEW r \in Brokers, SyncMeta(b, r)
      PROVE  FlagInv'
  BY <1>5 DEF SyncMeta
<1>6. ASSUME NEW c \in Coordinators, PushMeta(c)
      PROVE  FlagInv'
  BY <1>6 DEF PushMeta
<1>7. CASE Resync
  BY <1>7 DEF Resync
<1>8. CASE ReconcileStart
  BY <1>8 DEF ReconcileStart
<1>9. ASSUME NEW missing \in SUBSET up, GetEndpoints(missing)
      PROVE  FlagInv'
  BY <1>9 DEF GetEndpoints
<1>10. ASSUME NEW b \in Brokers, GetReplicaAddresses(b)
      PROVE  FlagInv'
  BY <1>10 DEF GetReplicaAddresses
<1>11. ASSUME NEW b \in Brokers, SkipBroker(b)
      PROVE  FlagInv'
  BY <1>11 DEF SkipBroker, CallFails, CallLost
<1>12. CASE OneFlagged
  BY <1>12 DEF OneFlagged
<1>13. CASE NoneOrSeveralFlagged
  BY <1>13 DEF NoneOrSeveralFlagged
<1>14. ASSUME NEW b \in Brokers, GetEpoch(b)
      PROVE  FlagInv'
  BY <1>14 DEF GetEpoch
<1>15. CASE MaxEpochBroker
  BY <1>15 DEF MaxEpochBroker
<1>16. CASE SetMasterBrokerStatus
  BY <1>16 DEF SetMasterBrokerStatus, ValidStatus
<1>17. ASSUME NEW c \in Coordinators, SetBrokerAddress(c)
      PROVE  FlagInv'
  BY <1>17 DEF SetBrokerAddress
<1>18. ASSUME NEW c \in Coordinators, SetBrokerAddressFails(c)
      PROVE  FlagInv'
  BY <1>18 DEF SetBrokerAddressFails, Fault
<1>19. CASE ConfigSetBrokerDone
  BY <1>19 DEF ConfigSetBrokerDone
<1>20. CASE GetMaxEpoch
  BY <1>20 DEF GetMaxEpoch, Fault
<1>21. CASE FixBrokerEpoch
  BY <1>21 DEF FixBrokerEpoch
<1>22. ASSUME SetMasterReplicas("setMaster1", "clear1") \/ SetMasterReplicas("rest1", "clear2")
      PROVE  FlagInv'
  BY <1>22 DEF SetMasterReplicas, replicaAddresses
<1>23. ASSUME NEW b \in Brokers, ClearReplica(b)
      PROVE  FlagInv'
  BY <1>23 DEF ClearReplica
<1>24. ASSUME Configured("clear1", "meta1") \/ Configured("clear2", "meta2")
      PROVE  FlagInv'
  BY <1>24 DEF Configured
<1>25. ASSUME CreateCluster("meta1", "rest1") \/ CreateCluster("meta2", "rest2")
      PROVE  FlagInv'
  BY <1>25 DEF CreateCluster
<1>26. CASE Returns
  BY <1>26 DEF Returns, Return, Fault, CallLost
<1>27. CASE UNCHANGED vars
  BY <1>27 DEF vars
<1>28. ASSUME NEW c \in Coordinators, PushSurplusMeta(c)
      PROVE  FlagInv'
  BY <1>28 DEF PushSurplusMeta
<1>29. ASSUME NEW e \in 0 .. topEpoch, Regroup(e)
      PROVE  FlagInv'
  BY <1>29 DEF Regroup
<1>30. CASE SurplusGone
  BY <1>30 DEF SurplusGone
<1> QED
  BY <1>1, <1>2, <1>3, <1>4, <1>5, <1>6, <1>7, <1>8, <1>9, <1>10, <1>11,
     <1>12, <1>13, <1>14, <1>15, <1>16, <1>17, <1>18, <1>19, <1>20, <1>21,
     <1>22, <1>23, <1>24, <1>25, <1>26, <1>27, <1>28, <1>29, <1>30, ActionCases

(* After configSetBroker the epoch that proxies receive is the master's,   *)
(* whose epoch only falls in a crash.                                      *)
LEMMA SwitchStep ==
    ASSUME TypeOK, MemoryInv, ScanInv, SwitchInv, EpochRecovered, [Next]_vars
    PROVE  (SwitchInv /\ EpochRecovered)'
<1> USE BrokersAssumption
    DEF TypeOK, ScanInv, SwitchInv, EpochRecovered,
        brokerVars, externVars, proxyVars, scanVars, history
<1>1. ASSUME NEW b \in Brokers, BrokerCrash(b)
      PROVE  (SwitchInv /\ EpochRecovered)'
  BY <1>1 DEF BrokerCrash, Fault
<1>2. ASSUME NEW b \in Brokers, BrokerRestart(b)
      PROVE  (SwitchInv /\ EpochRecovered)'
  BY <1>2 DEF BrokerRestart
<1>3. ASSUME NEW c \in Coordinators, CoordinatorRestart(c)
      PROVE  (SwitchInv /\ EpochRecovered)'
  BY <1>3 DEF CoordinatorRestart, Fault
<1>4. ASSUME NEW b \in Brokers, BumpEpoch(b)
      PROVE  (SwitchInv /\ EpochRecovered)'
  BY <1>4 DEF BumpEpoch
<1>5. ASSUME NEW b \in Brokers, NEW r \in Brokers, SyncMeta(b, r)
      PROVE  (SwitchInv /\ EpochRecovered)'
  BY <1>5 DEF SyncMeta
<1>6. ASSUME NEW c \in Coordinators, PushMeta(c)
      PROVE  (SwitchInv /\ EpochRecovered)'
  BY <1>6 DEF PushMeta
<1>7. CASE Resync
  BY <1>7 DEF Resync
<1>8. CASE ReconcileStart
  BY <1>8 DEF ReconcileStart
<1>9. ASSUME NEW missing \in SUBSET up, GetEndpoints(missing)
      PROVE  (SwitchInv /\ EpochRecovered)'
  BY <1>9 DEF GetEndpoints
<1>10. ASSUME NEW b \in Brokers, GetReplicaAddresses(b)
      PROVE  (SwitchInv /\ EpochRecovered)'
  BY <1>10 DEF GetReplicaAddresses
<1>11. ASSUME NEW b \in Brokers, SkipBroker(b)
      PROVE  (SwitchInv /\ EpochRecovered)'
  BY <1>11 DEF SkipBroker, CallFails, CallLost
<1>12. CASE OneFlagged
  BY <1>12 DEF OneFlagged
<1>13. CASE NoneOrSeveralFlagged
  BY <1>13 DEF NoneOrSeveralFlagged
<1>14. ASSUME NEW b \in Brokers, GetEpoch(b)
      PROVE  (SwitchInv /\ EpochRecovered)'
  BY <1>14 DEF GetEpoch
<1>15. CASE MaxEpochBroker
  BY <1>15 DEF MaxEpochBroker
<1>16. CASE SetMasterBrokerStatus
  BY <1>16 DEF SetMasterBrokerStatus, ValidStatus
<1>17. ASSUME NEW c \in Coordinators, SetBrokerAddress(c)
      PROVE  (SwitchInv /\ EpochRecovered)'
  BY <1>17 DEF SetBrokerAddress
<1>18. ASSUME NEW c \in Coordinators, SetBrokerAddressFails(c)
      PROVE  (SwitchInv /\ EpochRecovered)'
  BY <1>18 DEF SetBrokerAddressFails, Fault
<1>19. CASE ConfigSetBrokerDone
  BY <1>19 DEF ConfigSetBrokerDone
<1>20. CASE GetMaxEpoch
  BY <1>20 DEF GetMaxEpoch, Fault
<1>21. CASE FixBrokerEpoch
  <2>1. proxyEpoch <= topEpoch
    BY DEF MemoryInv
  <2> QED
    BY <1>21, <2>1 DEF FixBrokerEpoch
<1>22. ASSUME SetMasterReplicas("setMaster1", "clear1") \/ SetMasterReplicas("rest1", "clear2")
      PROVE  (SwitchInv /\ EpochRecovered)'
  BY <1>22 DEF SetMasterReplicas, replicaAddresses
<1>23. ASSUME NEW b \in Brokers, ClearReplica(b)
      PROVE  (SwitchInv /\ EpochRecovered)'
  BY <1>23 DEF ClearReplica
<1>24. ASSUME Configured("clear1", "meta1") \/ Configured("clear2", "meta2")
      PROVE  (SwitchInv /\ EpochRecovered)'
  BY <1>24 DEF Configured
<1>25. ASSUME CreateCluster("meta1", "rest1") \/ CreateCluster("meta2", "rest2")
      PROVE  (SwitchInv /\ EpochRecovered)'
  BY <1>25 DEF CreateCluster
<1>26. CASE Returns
  BY <1>26 DEF Returns, Return, Fault, CallLost
<1>27. CASE UNCHANGED vars
  BY <1>27 DEF vars
<1>28. ASSUME NEW c \in Coordinators, PushSurplusMeta(c)
      PROVE  (SwitchInv /\ EpochRecovered)'
  BY <1>28 DEF PushSurplusMeta
<1>29. ASSUME NEW e \in 0 .. topEpoch, Regroup(e)
      PROVE  (SwitchInv /\ EpochRecovered)'
  BY <1>29 DEF Regroup
<1>30. CASE SurplusGone
  BY <1>30 DEF SurplusGone
<1> QED
  BY <1>1, <1>2, <1>3, <1>4, <1>5, <1>6, <1>7, <1>8, <1>9, <1>10, <1>11,
     <1>12, <1>13, <1>14, <1>15, <1>16, <1>17, <1>18, <1>19, <1>20, <1>21,
     <1>22, <1>23, <1>24, <1>25, <1>26, <1>27, <1>28, <1>29, <1>30, ActionCases

(* The heart of the argument: the scan of getCurrentMaster finds a broker  *)
(* with the cluster while there is one.  A crash only takes brokers away,  *)
(* a synchronisation copies from a good broker, and every step that gives  *)
(* a broker a new epoch keeps those with the cluster ahead.                *)
LEMMA QuietStep ==
    ASSUME TypeOK, MemoryInv, ScanInv, QuietInv, [Next]_vars
    PROVE  QuietInv'
<1> USE BrokersAssumption
    DEF TypeOK, MemoryInv, ScanInv, QuietInv, Flagged, Good, Ahead, SeenCluster,
        NotSeenYet, brokerVars, externVars, proxyVars, scanVars, history
<1>1. ASSUME NEW b \in Brokers, BrokerCrash(b)
      PROVE  QuietInv'
  <2>1. /\ UNCHANGED <<proxyEpoch, pc, listed, todo, masters, best, bestEpoch,
                       maxEpoch, quiet>>
        /\ up' = up \ {b} /\ cluster' = cluster \ {b}
        /\ replicaAddrs' = [replicaAddrs EXCEPT ![b] = {}]
        /\ epoch' = [epoch EXCEPT ![b] = 0]
    BY <1>1 DEF BrokerCrash, Fault
  <2>2. Flagged' = Flagged \ {b}
    BY <2>1
  <2>3. quiet => Ahead'
    BY <2>1
  <2>4. \A x \in Brokers \ {b} : Good(x) => Good(x)'
    BY <2>1
  <2>5. SeenCluster => SeenCluster'
    BY <2>1
  <2>6. NotSeenYet => NotSeenYet'
    BY <2>1
  <2> HIDE DEF Flagged, Good, Ahead, SeenCluster, NotSeenYet
  <2>7. Flagged \subseteq Brokers
    BY DEF Flagged
  <2> QED
    BY <2>1, <2>2, <2>3, <2>4, <2>5, <2>6, <2>7
<1>2. ASSUME NEW b \in Brokers, BrokerRestart(b)
      PROVE  QuietInv'
  BY <1>2 DEF BrokerRestart
<1>3. ASSUME NEW c \in Coordinators, CoordinatorRestart(c)
      PROVE  QuietInv'
  BY <1>3 DEF CoordinatorRestart, Fault
<1>4. ASSUME NEW b \in Brokers, BumpEpoch(b)
      PROVE  QuietInv'
  BY <1>4 DEF BumpEpoch
<1>5. ASSUME NEW b \in Brokers, NEW r \in Brokers, SyncMeta(b, r)
      PROVE  QuietInv'
  <2>1. /\ UNCHANGED <<up, replicaAddrs, proxyEpoch, pc, listed, todo, masters, best,
                       maxEpoch, quiet>>
        /\ b \in Flagged /\ r \in up /\ epoch[r] < epoch[b]
        /\ epoch' = [epoch EXCEPT ![r] = epoch[b]]
        /\ cluster' = IF b \in cluster THEN cluster \union {r} ELSE cluster \ {r}
    BY <1>5 DEF SyncMeta
  <2>2. quiet => Good(b) /\ pc # "epochs"
    BY <2>1
  <2>3. quiet => Ahead'
    BY <2>1, <2>2
  <2>4. quiet => Good(b)'
    BY <2>1, <2>2
  <2>5. UNCHANGED Flagged
    BY <2>1
  <2>6. quiet /\ best \in up /\ Good(best) => Good(best)'
    BY <2>1, <2>2
  <2> HIDE DEF Flagged, Good, Ahead, SeenCluster, NotSeenYet
  <2> QED
    BY <2>1, <2>2, <2>3, <2>4, <2>5, <2>6
<1>6. ASSUME NEW c \in Coordinators, PushMeta(c)
      PROVE  QuietInv'
  BY <1>6 DEF PushMeta
<1>7. CASE Resync
  BY <1>7 DEF Resync
<1>8. CASE ReconcileStart
  BY <1>8 DEF ReconcileStart
<1>9. ASSUME NEW missing \in SUBSET up, GetEndpoints(missing)
      PROVE  QuietInv'
  BY <1>9 DEF GetEndpoints
<1>10. ASSUME NEW b \in Brokers, GetReplicaAddresses(b)
      PROVE  QuietInv'
  BY <1>10 DEF GetReplicaAddresses
<1>11. ASSUME NEW b \in Brokers, SkipBroker(b)
      PROVE  QuietInv'
  <2>1. CASE b \in up
    BY <1>11, <2>1 DEF SkipBroker, CallFails, CallLost
  <2>2. CASE b \notin up
    <3>1. b \notin Flagged /\ b \notin cluster
      BY <2>2
    <3>2. UNCHANGED <<brokerVars, proxyEpoch, pc, listed, masters, best, bestEpoch,
                      maxEpoch, quiet>>
      BY <1>11, <2>2 DEF SkipBroker, CallFails
    <3>3. pc \in {"flags", "epochs"} /\ todo' = todo \ {b}
      BY <1>11 DEF SkipBroker
    <3> QED
      BY <2>2, <3>1, <3>2, <3>3
  <2> QED
    BY <2>1, <2>2
<1>12. CASE OneFlagged
  <2>1. /\ UNCHANGED <<up, replicaAddrs, epoch, cluster, listed, todo, masters, quiet>>
        /\ pc = "flags" /\ pc' = "status" /\ todo = {} /\ best' \in masters
    BY <1>12 DEF OneFlagged
  <2>2. quiet => Flagged \subseteq {best'}
    BY <2>1
  <2>3. quiet /\ best' \in up => best' \in Flagged
    BY <2>1
  <2> QED
    BY <2>1, <2>2, <2>3
<1>13. CASE NoneOrSeveralFlagged
  <2>1. quiet => masters = {}
    <3>1. SUFFICES ASSUME quiet, NEW b \in masters PROVE FALSE
      OBVIOUS
    <3>2. masters = {b}
      BY <1>13, <3>1 DEF NoneOrSeveralFlagged
    <3>3. Cardinality(masters) = 1
      BY <3>2, FS_Singleton
    <3> QED
      BY <1>13, <3>3 DEF NoneOrSeveralFlagged
  <2>2. cluster \subseteq up /\ Flagged \subseteq up
    OBVIOUS
  <2>3. quiet => Flagged = {} /\ todo' = listed /\ best = NoBroker /\ NoBroker \notin listed
    BY <1>13, <2>1 DEF NoneOrSeveralFlagged
  <2>4. /\ UNCHANGED <<brokerVars, listed, masters, best, bestEpoch, quiet>>
        /\ pc = "flags" /\ pc' = "epochs"
    BY <1>13 DEF NoneOrSeveralFlagged
  <2> QED
    BY <2>2, <2>3, <2>4
<1>14. ASSUME NEW b \in Brokers, GetEpoch(b)
      PROVE  QuietInv'
  <2>1. /\ UNCHANGED <<up, replicaAddrs, epoch, cluster, listed, masters, quiet>>
        /\ pc = "epochs" /\ pc' = "epochs"
        /\ b \in todo \intersect up /\ todo' = todo \ {b}
        /\ IF best = NoBroker \/ epoch[b] > bestEpoch
             THEN best' = b /\ bestEpoch' = epoch[b]
             ELSE UNCHANGED <<best, bestEpoch>>
    BY <1>14 DEF GetEpoch
  <2>2. best \notin todo => best' \notin todo'
    BY <2>1
  <2>3. quiet /\ SeenCluster => SeenCluster'
    BY <2>1
  <2>4. quiet /\ NotSeenYet /\ b \in cluster => SeenCluster'
    BY <2>1
  <2>5. quiet /\ NotSeenYet /\ b \notin cluster => NotSeenYet'
    BY <2>1
  <2>6. UNCHANGED Flagged /\ (Ahead => Ahead')
    BY <2>1
  <2> HIDE DEF Good, Ahead, Flagged, SeenCluster, NotSeenYet
  <2> QED
    BY <2>1, <2>2, <2>3, <2>4, <2>5, <2>6
<1>15. CASE MaxEpochBroker
  <2>1. /\ UNCHANGED <<brokerVars, listed, todo, best, bestEpoch, quiet>>
        /\ pc = "epochs" /\ pc' = "status" /\ todo = {}
    BY <1>15 DEF MaxEpochBroker
  <2>2. SeenCluster /\ best \in up => Good(best)
    OBVIOUS
  <2>3. NotSeenYet /\ best \in up => Good(best)
    BY <2>1
  <2> QED
    BY <2>1, <2>2, <2>3
<1>16. CASE SetMasterBrokerStatus
  BY <1>16 DEF SetMasterBrokerStatus, ValidStatus
<1>17. ASSUME NEW c \in Coordinators, SetBrokerAddress(c)
      PROVE  QuietInv'
  BY <1>17 DEF SetBrokerAddress
<1>18. ASSUME NEW c \in Coordinators, SetBrokerAddressFails(c)
      PROVE  QuietInv'
  BY <1>18 DEF SetBrokerAddressFails, Fault
<1>19. CASE ConfigSetBrokerDone
  BY <1>19 DEF ConfigSetBrokerDone
<1>20. CASE GetMaxEpoch
  <2>1. maxEpoch' <= proxyEpoch
    BY <1>20 DEF GetMaxEpoch
  <2>2. /\ UNCHANGED <<up, replicaAddrs, epoch, cluster, proxyEpoch, listed, best, quiet>>
        /\ pc = "maxEpoch" /\ pc' = "fixEpoch"
    BY <1>20 DEF GetMaxEpoch, Fault
  <2> QED
    BY <2>1, <2>2
<1>21. CASE FixBrokerEpoch
  <2>1. /\ UNCHANGED <<up, replicaAddrs, cluster, listed, best, quiet>>
        /\ pc = "fixEpoch" /\ pc' = "setMaster1" /\ best \in up
        /\ IF epoch[best] >= maxEpoch
             THEN epoch' = epoch
             ELSE \E e \in {proxyEpoch, topEpoch} : epoch' = [epoch EXCEPT ![best] = e + 1]
    BY <1>21 DEF FixBrokerEpoch
  <2>2. quiet => /\ epoch'[best] >= epoch[best]
                 /\ \A x \in Brokers \ {best} : epoch'[x] = epoch[x]
    BY <2>1
  <2>3. quiet => Ahead' /\ Good(best)'
    BY <2>1, <2>2
  <2> QED
    BY <2>1, <2>2, <2>3
<1>22. ASSUME SetMasterReplicas("setMaster1", "clear1") \/ SetMasterReplicas("rest1", "clear2")
      PROVE  QuietInv'
  <2>1. /\ UNCHANGED <<up, epoch, cluster, listed, best, quiet>>
        /\ replicaAddrs' = [replicaAddrs EXCEPT ![best] = replicaAddresses]
        /\ best \in up
        /\ pc \in {"setMaster1", "rest1"} /\ pc' \in {"clear1", "clear2"}
    BY <1>22 DEF SetMasterReplicas
  <2>2. quiet => Flagged' \subseteq {best}
    BY <2>1
  <2> QED
    BY <2>1, <2>2
<1>23. ASSUME NEW b \in Brokers, ClearReplica(b)
      PROVE  QuietInv'
  BY <1>23 DEF ClearReplica
<1>24. ASSUME Configured("clear1", "meta1") \/ Configured("clear2", "meta2")
      PROVE  QuietInv'
  <2>1. /\ UNCHANGED <<up, replicaAddrs, epoch, cluster, listed, best, quiet>>
        /\ pc \in {"clear1", "clear2"} /\ pc' \in {"meta1", "meta2"}
    BY <1>24 DEF Configured
  <2> QED
    BY <2>1
<1>25. ASSUME CreateCluster("meta1", "rest1") \/ CreateCluster("meta2", "rest2")
      PROVE  QuietInv'
  <2>1. /\ UNCHANGED <<up, replicaAddrs, listed, best, quiet>>
        /\ cluster' = cluster \union {best}
        /\ epoch' = IF best \in cluster THEN epoch ELSE [epoch EXCEPT ![best] = @ + 1]
        /\ best \in up
        /\ pc \in {"meta1", "meta2"} /\ pc' \in {"rest1", "rest2"}
    BY <1>25 DEF CreateCluster
  <2>2. quiet => Ahead'
    BY <2>1
  <2> QED
    BY <2>1, <2>2
<1>26. CASE Returns
  BY <1>26 DEF Returns, Return, Fault, CallLost
<1>27. CASE UNCHANGED vars
  BY <1>27 DEF vars
<1>28. ASSUME NEW c \in Coordinators, PushSurplusMeta(c)
      PROVE  QuietInv'
  BY <1>28 DEF PushSurplusMeta
<1>29. ASSUME NEW e \in 0 .. topEpoch, Regroup(e)
      PROVE  QuietInv'
  BY <1>29 DEF Regroup
<1>30. CASE SurplusGone
  BY <1>30 DEF SurplusGone
<1> QED
  BY <1>1, <1>2, <1>3, <1>4, <1>5, <1>6, <1>7, <1>8, <1>9, <1>10, <1>11,
     <1>12, <1>13, <1>14, <1>15, <1>16, <1>17, <1>18, <1>19, <1>20, <1>21,
     <1>22, <1>23, <1>24, <1>25, <1>26, <1>27, <1>28, <1>29, <1>30, ActionCases

(* Before the first reconcile no broker has replicas or metadata. *)
LEMMA InitInv == Init => MasterInv
<1> SUFFICES ASSUME Init PROVE MasterInv
  OBVIOUS
<1> USE DEF Init
<1>1. TypeOK
  <2>1. queue \in BOOLEAN /\ lastFailed \in BOOLEAN /\ clean \in BOOLEAN /\ quiet \in BOOLEAN
    OBVIOUS
  <2>2. faults \in 0 .. MaxFaults
    BY EpochsAssumption
  <2> QED
    BY <2>1, <2>2 DEF TypeOK
<1>2. MemoryInv /\ Flagged = {}
  BY DEF MemoryInv, Flagged
<1>3. ScanInv /\ FlagInv /\ SwitchInv /\ EpochRecovered
  BY <1>2 DEF ScanInv, FlagInv, SingleMaster, SwitchInv, EpochRecovered
<1>4. QuietInv
  BY <1>2 DEF QuietInv, Ahead
<1> QED
  BY <1>1, <1>2, <1>3, <1>4 DEF MasterInv

(* So the invariant holds in every reachable state. *)
LEMMA MasterInvariant == Spec => []MasterInv
<1>1. ASSUME MasterInv, [Next]_vars
      PROVE  MasterInv'
  BY <1>1, TypeStep, MemoryStep, ScanStep, FlagStep, SwitchStep, QuietStep DEF MasterInv
<1> QED
  BY InitInv, <1>1, PTL DEF Spec

-----------------------------------------------------------------------------
(* The types of the variables, for any number of brokers, coordinators and *)
(* faults.                                                                 *)
THEOREM TypeCorrect == Spec => []TypeOK
<1>1. MasterInv => TypeOK
  BY DEF MasterInv
<1> QED
  BY MasterInvariant, <1>1, PTL

(* Whatever crashes and restarts while reconcileMeta runs, only the broker *)
(* it configures has replicas when setBrokerReplicas has returned, apart   *)
(* from one that ran and was not among the endpoints.                      *)
THEOREM OneMaster == Spec => []SingleMaster
<1>1. MasterInv => SingleMaster
  BY DEF MasterInv, FlagInv
<1> QED
  BY MasterInvariant, <1>1, PTL

(* Without a failure the order of configSetBroker, getMaxEpoch and         *)
(* fixBrokerEpoch leaves no proxy that the chunk number keeps ahead of the *)
(* master, whatever the proxies being deleted have received.               *)
THEOREM EpochsRecover == Spec => []EpochRecovered
<1>1. MasterInv => EpochRecovered
  BY DEF MasterInv
<1> QED
  BY MasterInvariant, <1>1, PTL

(* No step of Reconcile gives a coordinator the empty broker address.      *)
THEOREM CoordinatorsKeepTheirs == Spec => CoordinatorsKeepABroker
<1>1. ASSUME MasterInv, [Next]_vars, faults' = faults,
             NEW c \in Coordinators, coordBroker[c] # NoBroker
      PROVE  coordBroker'[c] # NoBroker
  <2> USE DEF MasterInv, TypeOK
  <2>1. ASSUME NEW d \in Coordinators, CoordinatorRestart(d)
        PROVE  FALSE
    BY <1>1, <2>1 DEF CoordinatorRestart, Fault
  <2>2. ASSUME NEW d \in Coordinators, SetBrokerAddress(d)
        PROVE  coordBroker'[c] # NoBroker
    <3>1. best # NoBroker
      BY <1>1, <2>2, BrokersAssumption DEF ScanInv, SetBrokerAddress
    <3> QED
      BY <1>1, <2>2, <3>1 DEF SetBrokerAddress
  <2>3. ASSUME ~ \E d \in Coordinators : CoordinatorRestart(d) \/ SetBrokerAddress(d)
        PROVE  UNCHANGED coordBroker
    BY <1>1, <2>3, ActionCases
    DEF BrokerCrash, BrokerRestart, BumpEpoch, SyncMeta, PushMeta, PushSurplusMeta,
        Regroup, SurplusGone, Resync, ReconcileStart,
        GetEndpoints, GetReplicaAddresses, SkipBroker, OneFlagged, NoneOrSeveralFlagged,
        GetEpoch, MaxEpochBroker, SetMasterBrokerStatus, SetBrokerAddressFails,
        ConfigSetBrokerDone, GetMaxEpoch, FixBrokerEpoch, SetMasterReplicas, ClearReplica,
        Configured, CreateCluster, Returns, externVars,
        vars
  <2> QED
    BY <1>1, <2>1, <2>2, <2>3
<1>2. MasterInv /\ [Next]_vars =>
        [faults' = faults =>
           \A c \in Coordinators :
               coordBroker[c] # NoBroker => coordBroker'[c] # NoBroker]_vars
  BY <1>1
<1> QED
  BY MasterInvariant, <1>2, PTL DEF Spec, CoordinatorsKeepABroker

(* In quiet times the cluster is created anew only when no broker has it,  *)
(* whatever crashed before, however the epochs went and whoever had        *)
(* replicas.                                                               *)
THEOREM MetadataSurvives == Spec => SurvivingMetadataWins
<1>1. ASSUME MasterInv, [Next]_vars, quiet,
             pc \in {"meta1", "meta2"}, pc' \in {"rest1", "rest2"}
      PROVE  best \in cluster \/ cluster = {}
  <2>1. CreateCluster("meta1", "rest1") \/ CreateCluster("meta2", "rest2")
    BY <1>1, ActionCases
    DEF BrokerCrash, BrokerRestart, CoordinatorRestart, BumpEpoch, SyncMeta, PushMeta, PushSurplusMeta,
        Regroup, SurplusGone, Resync,
        ReconcileStart, GetEndpoints, GetReplicaAddresses, SkipBroker, OneFlagged,
        NoneOrSeveralFlagged, GetEpoch, MaxEpochBroker, SetMasterBrokerStatus,
        SetBrokerAddress, SetBrokerAddressFails, ConfigSetBrokerDone, GetMaxEpoch,
        FixBrokerEpoch, SetMasterReplicas, ClearReplica, Configured, Returns, Return, vars
  <2>2. best \in up
    BY <2>1 DEF CreateCluster
  <2> QED
    BY <1>1, <2>2 DEF MasterInv, QuietInv, Good
<1>2. MasterInv /\ [Next]_vars =>
        [quiet /\ pc \in {"meta1", "meta2"} /\ pc' \in {"rest1", "rest2"} =>
           best \in cluster \/ cluster = {}]_vars
  BY <1>1
<1> QED
  BY MasterInvariant, <1>2, PTL DEF Spec, SurvivingMetadataWins
=============================================================================
