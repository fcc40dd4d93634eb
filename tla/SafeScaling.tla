---------------------------- MODULE SafeScaling ----------------------------
(***************************************************************************)
(* What the operator promises about scaling, with everything else left     *)
(* out.  The storage StatefulSet has a number of pods, numbered from 0, a  *)
(* chunk is two pods, and the first slotChunks chunks of the cluster own   *)
(* slots.  The operator knows the replica number only through an informer  *)
(* cache that lags and a copy read from it.                                *)
(*                                                                         *)
(* The two directions differ.  Pods are taken away only by an operator     *)
(* whose copy is right, when no chunk that owns slots, or that a migration *)
(* leads to, lives on them.  A migration is started for pods of the copy,  *)
(* which may be outdated; only the first cluster, created before any pod   *)
(* is ever taken away, is sure to be put on pods that the set keeps.       *)
(***************************************************************************)
EXTENDS Integers

CONSTANT MaxChunk    \* the largest chunk number the cluster is scaled to

VARIABLES
    replicas,        \* pods the storage StatefulSet keeps
    cache,           \* that number in the operator's informer cache
    view,            \* the operator's copy of it (0: none)
    slotChunks,      \* chunks whose nodes own slots
    target           \* chunks a running migration leads to (0: none)

vars == <<replicas, cache, view, slotChunks, target>>

PodsOf(chunks) == 2 * chunks

Init ==
    /\ replicas = 0
    /\ cache = 0
    /\ view = 0
    /\ slotChunks = 0
    /\ target = 0

Deliver ==
    /\ cache' = replicas
    /\ UNCHANGED <<replicas, view, slotChunks, target>>

Read ==
    /\ view' = cache
    /\ UNCHANGED <<replicas, cache, slotChunks, target>>

Forget ==
    /\ view' = 0
    /\ UNCHANGED <<replicas, cache, slotChunks, target>>

AddPods(n) ==
    /\ cache = replicas
    /\ PodsOf(n) > replicas
    /\ replicas' = PodsOf(n)
    /\ view' = PodsOf(n)
    /\ UNCHANGED <<cache, slotChunks, target>>

RemovePods(n) ==
    /\ view = replicas
    /\ PodsOf(n) < replicas
    /\ slotChunks <= n
    /\ target <= n
    /\ replicas' = PodsOf(n)
    /\ view' = PodsOf(n)
    /\ UNCHANGED <<cache, slotChunks, target>>

CreateCluster(n) ==
    /\ slotChunks = 0
    /\ PodsOf(n) <= replicas
    /\ slotChunks' = n
    /\ UNCHANGED <<replicas, cache, view, target>>

StartMigration(n) ==
    /\ slotChunks # 0
    /\ target = 0
    /\ PodsOf(n) <= view
    /\ slotChunks' \in {slotChunks, n}
    /\ target' = n
    /\ UNCHANGED <<replicas, cache, view>>

EndMigration ==
    /\ target # 0
    /\ slotChunks' = target
    /\ target' = 0
    /\ UNCHANGED <<replicas, cache, view>>

Next ==
    \/ Deliver
    \/ Read
    \/ Forget
    \/ EndMigration
    \/ \E n \in 1 .. MaxChunk :
          AddPods(n) \/ RemovePods(n) \/ CreateCluster(n) \/ StartMigration(n)

Spec == Init /\ [][Next]_vars
============================================================================
