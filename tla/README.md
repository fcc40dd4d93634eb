# A TLA+ model of the Undermoon operator

The operator (`src/pkg/controller/undermoon`) runs Redis clusters on Kubernetes.
A custom resource `Undermoon` asks for `spec.chunkNumber` chunks; a chunk is
four Redis nodes on two storage pods. One reconcile loop creates the Kubernetes
objects, keeps one master among three in-memory brokers, registers the storage
pods (server proxies) at that master, and scales pods and cluster metadata
towards the chunk number.

## Inventory

| Component | State it keeps | Operations | Interacts with |
|---|---|---|---|
| Reconcile loop (`undermoon_controller.go`) | none between runs; within one: a copy of the resource, of the StatefulSets, listed endpoints, cluster info | `Reconcile`, a fixed sequence of calls with early returns that requeue | all below; watches on `Undermoon` and owned StatefulSets |
| Storage controller (`storage_controller.go`, `storage.go`) | storage StatefulSet, two services | create, scale up, readiness, stability, list proxies, scale down, `getMaxEpoch` | API server through caches, proxies |
| Meta controller (`meta_controller.go`, `broker_client.go`) | the broker's registry, cluster and epoch | `reconcileMeta`, `changeMeta`, `fixBrokerEpoch` | master broker over HTTP |
| Broker controller (`broker_controller.go`, `broker.go`) | broker StatefulSet, replica lists in the brokers, `status.masterBrokerAddress` | create, `getCurrentMaster`, `setMasterBrokerStatus` | brokers, API server |
| Coordinator controller (`coordinator_controller.go`, `coordinator.go`) | coordinator StatefulSet, broker address in each coordinator | create, `configSetBroker` | coordinators over the Redis protocol |
| Utilities (`utils.go`) | pool of Redis clients | create guards, `getEndpoints` | |
| Manager (`cmd/manager`, `deploy/operator.yaml`) | leader lock | `main`: configuration, `leader.Become`, controllers, metrics | Deployment, garbage collector |
| Cluster client (`chaostest/cluster_client.py`) | a pool of connections for each address | `get_or_create_client`, `exec` with MOVED redirections | server proxies |
| Chaos checker (`chaostest/chaos_check_service.py`) | keys known to be set, keys known to be deleted | rounds of writes, reads and deletes | cluster client |
| Chaos controller (`chaostest/test_controller.py`) | none | random scaling and killing | user side |

What is hard here: informer caches lag behind the API server; every remote call
may fail or be followed by a crash; the user may edit the chunk number while an
earlier one is being worked on; pods terminate slowly and stay listed; slots
migrate on their own; brokers lose everything at a restart and their replicas lag
behind; a rollout lets two operators run; a call that timed out may still take effect;
chunk numbers are cut to 32 bits; several errors are only logged. PROJECT.json lists these hazards at the lines where they bite.

What makes each part correct: no pod disappears while it owns slots and no slot
moves to a disappearing pod; a reconcile that reports success has done its work;
there is one master, and the proxies accept its metadata; no coordinator is told
an empty broker address; objects are created before what depends on them and
vanish with the resource; and all of it ends where the resource says. There is one
operator at work. The chaos test blames the cluster only for the cluster's faults.

## Modules

| Module | Models |
|---|---|
| `SafeScaling` | abstract specification of scaling: replica number and slots only |
| `StorageScaling` | `createStorage`, `getServerProxies` … `scaleDownStorageStatefulSet`: the scaling half of Reconcile with user, StatefulSet controller, pods, broker and caches |
| `StorageScalingProofs` | the TLAPS proofs about it |
| `BrokerMaster` | `brokerAndCoordinatorReady` … `fixBrokerEpoch` and `setBrokerReplicas`: the election half of Reconcile with brokers, coordinators and proxies |
| `BrokerMasterProofs` | the TLAPS proofs about it |
| `BrokerFailover` | `StorageScaling` composed with a replica broker that lags behind and takes over |
| `BrokerFailoverProofs` | the TLAPS proofs about the composition, on top of those about `StorageScaling` |
| `ChunkWidth` | the 32-bit arithmetic on chunk numbers in `createStorage`, `updateStorageStatefulSet`, `scaleNodes` and `scaleDownStorageStatefulSet` |
| `ChunkWidthProofs` | the TLAPS proofs about it |
| `ResourceCreation` | `createResources` with the create guards, caches, deletion and garbage collection |
| `ResourceCreationProofs` | the TLAPS proofs about it |
| `OperatorLeader` | `main` of the operator under its Deployment: leader lock, metrics, exits |
| `OperatorLeaderProofs` | the TLAPS proofs about it |
| `ClusterClient` | the chaos test's cluster client against migrating and removed proxies |
| `ClusterClientProofs` | the TLAPS proofs about it |
| `KeyChecker` | the chaos test's key checker over a store whose replies get lost |
| `KeyCheckerProofs` | the TLAPS proofs about it |
| `MC*` | the instances for TLC |

`pc` is the step of Reconcile that comes next; between two steps the rest of the
world may move. Every step is one remote call, or calls whose separation nothing
can observe. `Return` drops the locals, `Requeue` also queues the request: a
result with `Requeue: true`, and an error, both do that. Backoff and the 3 s and
10 s delays are left out, as no property depends on time.

### StorageScaling

`ss` is the StatefulSet at the API server, `ssCache` the informer's copy, `held`
the copy in `resource.storageStatefulSet`. A resourceVersion is only ever
compared for being the latest, so it is a Boolean per copy: an update with a copy
that is not the latest fails with a conflict (`ScaleUpConflict`,
`ScaleDownConflict`, `MasterStatusConflict`). An update that changes nothing makes
no new version, as on the real API server. `DeliverCr` and `DeliverSs` bring the latest object;
a copy of an intermediate version is what an earlier delivery leaves behind.

Cluster sizes are chunk counts: the brokers are started with ordered proxies, so
a cluster of n chunks is on the pods 0 … 2n-1. `NodeNumberWithSlots` is
`slotChunks`, `IsMigrating` is `target # 0`.

External parts, modelled from how `src/` uses them: the StatefulSet controller
(parallel pod management: one pass creates and deletes every pod at once; status
updates are separate and later), pod termination, and the broker
(`MIGRATION_RUNNING`, `FREE_NODE_FOUND`, `NO_AVAILABLE_RESOURCE`, no deregistration
of a proxy in use). Whether nodes added by a running scale-out already count as
having slots is left open; the results hold either way. Endpoints list every pod
that is not gone, since the storage service publishes addresses that are not
ready. The broker's metadata does not get lost in this module; crashes of brokers
are the subject of `BrokerMaster`, and here a failing call is `Abort`. The address
that `setMasterBrokerStatus` stores does not change either, so that the update
only acts as a version check.

The StatefulSet is read from a cache that may be of any age, older than the operator's own last
update too (`storage_controller.go:103`), and no condition excludes that. What depends on it:

* a *shrink* is safe with any cache (`ShrinkKeepsSlots`, `ShrinkOnlyWhenStable`), since the update
  fails with a conflict unless the copy is the latest, and success is honest (`DoneMeansScaled`);
* a *migration* is not: right after a scale-down, a cached copy with the old replica number and
  status passes every check, and slots start to move to pods that are terminating. Only the first
  cluster is sure to be created on pods that the set keeps, as nothing was ever taken away before
  (`FirstClusterInv`).

`SafeScaling` says exactly this, with the replica number, its cached and its held copy, and the slots
as the only state: pods are added with a cache that is right, removed with a copy that is right and
never under slots, and migrations are started for the pods of the copy. `ScalesSafely` is that
StorageScaling implements it. What the outdated copies can lead to in the end is the subject of
`BrokerFailover`.

Endpoints, unlike the StatefulSet, are read live, although they come from a cache too
(`utils.go:58`). A cache that lags behind lists pods that are gone, or not yet those that are new.
The first is what terminating pods already do here: they are listed as long as they exist, and the
registry is filled from the list without regard to whether a pod is going away. The second makes
`storageAllReady` false and is a requeue, which `KillPod` leads to as well. No safety property looks at
the list, and the liveness properties only need the cache to catch up.

### BrokerMaster

A broker with a non-empty replica list is flagged as a master. `listed`, `todo`,
`masters`, `best`, `bestEpoch` are the locals of `reconcileMaster` and
`getCurrentMaster`; loops take the listed addresses in any order. A call to a
broker that is down fails; a call to a running one may fail at the price of a
fault. `getMaxEpoch` leaves out the proxies beyond the chunk number ("Filter the
proxies being deleted", `storage_controller.go:243`), which may run for a while, own slots and have
newer metadata than the others. So the epochs of the proxies are represented by two
numbers: `proxyEpoch`, the highest of those within the chunk number, which `getMaxEpoch` returns
(or anything lower when a call failed), and `topEpoch`, the highest of all. An edit of the chunk
number changes which proxies count (`Regroup`), and surplus ones vanish (`SurplusGone`). `fixEpoch`
(external) lifts the broker above the proxies it knows, the surplus ones included or not.
`EpochRecovered` and `Settles` are about `proxyEpoch`: a surplus proxy that is ahead ignores
the master's metadata until it is gone, or counts again, or the master's epoch passes its own.

The endpoints of the brokers list ready ones only, and through a cache, so that a running broker may
be missing and keep its replica list. `GetEndpoints(missing)` chooses which; `missed` (a history
variable) is what `SingleMaster` makes an exception for, and `Settles` shows that the exception
does not last. After each `setBrokerReplicas` comes
`createCluster` (`meta1`, `meta2`), which creates the cluster if the master has none; `rest1`
and `rest2` stand for the rest of Reconcile: it may requeue at any time or go on.

`cluster` is the set of brokers that hold the metadata of the cluster. A broker writes
it to a file of its container, not to a volume, so a restarted pod comes back without.
The election never asks which broker has the cluster; it goes by replica lists
and epochs. `SurvivingMetadataWins` says that this is enough while `quiet` holds (a history
variable): no broker came back empty, and no running broker was missing from the endpoints or not
reached by a call, while Reconcile ran.
Crashes stay possible at any step. Without that condition the property fails:

* a master that crashes after `reconcileMaster` chose it and is back, empty, before
  `setBrokerReplicas` is given its replicas and a new cluster, while a replica still has
  the old metadata;
* two lost calls in one election hide both brokers that have the cluster.

No document promises otherwise, so this is stated as an assumption and not as a finding.

### BrokerFailover

The scaling of `StorageScaling` with one more variable: the metadata of the replica that
would take over. `SyncMeta` copies the master's, `Failover` puts the copy in the master's
place, ends a reconcile that still has to call the old master, and queues a request, as the
broker's StatefulSet is watched. A migration ends only if the pods it needs run
(`MigrationPossible`). Slots can get onto pods that the StatefulSet does not keep in two ways, and
`StrandedExplained` says that there is no third: by a failover to old metadata (`failedOver`), and
by a reconcile that starts a migration with an outdated copy of the StatefulSet (`strandedStale`;
both are history variables). `ConvergesOrStranded` says that the scaling ends, unless slots are there
for good.

Both ways are real. A scale-in has moved the slots, the master says so, and
`scaleDownStorageStatefulSet` removes the pods (`storage_controller.go:140`); the master crashes
before its replicas have copied the end of the migration (they do every
`UNDERMOON_SYNC_META_INTERVAL`). The broker that takes over still has slots, or the
migration, on the removed pods. The migration cannot end, `changeMeta` keeps requeueing, and
`createStorage` does not bring the pods back because it looks at the chunk number alone. TLC
finds such a behaviour when `<>[]Scaled` is asked for instead of `ConvergesOrStranded`, and
`ShrinkKeepsSlots` fails for a failover between `getClusterInfo` and the update of the set.

The other way takes no fault, but three edits (chunks 2, 1, 2, 1): after the scale-down to one
chunk the cache still has the set of two, `createStorage` finds nothing to grow for the new chunk
number 2, the old status counts as stable, and slots start to move to the pods that
are being removed; if the user goes back to 1 before the cache has caught up, nothing ever asks for
these pods again. With the last edit left out, the next reconcile grows the set and the
migration ends.

`Disruptions` bounds edits and faults together, a fault being worth two edits: the run has three
edits, or one edit and one fault.

### ChunkWidth

`Int32` is Go's conversion. The guard of the scale-out and the value written are different
expressions, `int32(ChunkNumber)*2` and `int32(int(ChunkNumber)*2)`; node numbers are 64-bit
`int`. `Half` stands for 2^31. The rest is one reconcile at a time on fresh data, as
`StorageScaling` covers the interleavings. A chunk number beyond 2^30 gives a negative replica
number, which the API server refuses, or one that is too small; then the broker finds too few
nodes, and the reconcile repeats, without harm to the slots, until the user corrects the number.
The steps are those of the code: `createCluster` needs only enough ready pods
(`storageAllReady`), and whether the set is stable is looked at after it. What is left out is
memory: `genStorageStatefulSetAddrs` (`storage.go:308`) builds all `2 * ChunkNumber` names and
addresses, in 64 bits and several times in a reconcile, so with a chunk number in the billions the
operator may well run out of memory there; PROJECT.json lists it as a hazard without a property.

### ResourceCreation

An object is its kind and component. `createResources` is the sequence of objects
in the order of the code; `step` walks through it. Only StatefulSets are watched,
so only they queue a request when the cache learns of them. An object's pods are
not ready in the reconcile that created it (`fresh`), so that one requeues.

### OperatorLeader

Pods are numbered by age. `process` is the step of `main` in a pod's container: `GetConfig`,
`Become`, `AddToManager`, `AddMetrics`, then `started`, which is where Reconcile runs. The lock
is the ConfigMap of `leader.Become` (external): its owner is the pod, not the process, so a
restarted container finds its own lock and goes on, and it is free only when the garbage
collector has removed it after the Pod object. Every error in `main` exits, except in
`addMetrics`, which only logs. The Deployment has one replica and no readiness probe: a new pod is
ready, and the old one deleted, before the new one has the lock; with a probe that waits for
the controllers, a rollout would block for ever (mutant `PodReadyStarted`). `ForcedDeletes`
names what the lock cannot help against: a Pod object deleted by force while its process runs.

### ClusterClient

Coroutines switch only at an `await`, so `get_or_create_client` is three steps. A client is named
by the coroutine that created it; `open` is what has not been closed. The server proxies are
external: a proxy outside the migration names either side, the two sides name the one that
serves, a removed one names `UNDERMOON_DEFAULT_REDIRECTION_ADDRESS`, which `storage.go` sets to the
first proxy. The slot migrates once during a request; the comment in `exec` counts on
the same. The client has one startup node, the service.

### KeyChecker

A round sends single-key calls together and multi-key calls one after the other. A call is
served at some time (`Serve`), and returns or fails at any time, before or after that; a write that
was given up may still be served (`ServeLate`) or is lost. `Corrupt` is what the test is there to
find. `due` is a history variable: the tracked keys that were wrong when the reads started and for
which no call failed yet. Keys carry the time of their write, so no key is written twice.

## Runs

| Run | Result | Bounds | Shows |
|---|---|---|---|
| `scaling_safety` | pass, 2.5 M states | 2 chunks, 2 edits, 1 fault, arbitrarily stale cache | `DoneMeansScaled`, `ShrinkKeepsSlots`, `ShrinkOnlyWhenStable`, the inductive `ScalingInv`; `ScalesSafely`: StorageScaling implements SafeScaling |
| `scaling_terminating` | violation | 2 edits, no fault | see Findings |
| `scaling_delete_list` | violation | 1 edit, 1 fault | see Findings |
| `failover` | pass, 0.7 M | 2 chunks, 3 edits or 1 edit and 1 fault, arbitrarily stale cache, failover at any step | `StrandedExplained`, `ConvergesOrStranded`, `ShrinkOnlyWhenStable` |
| `chunk_width` | pass, 60 000 | 5-bit integers, all chunk numbers, room for 8 pods, 2 edits | `WrapStrandsNoSlots`, `DoneIsExact` |
| `master_safety` | pass, 5.3 M | 3 brokers, 1 coordinator, 3 faults, epochs to 2, symmetric | `SingleMaster`, `EpochRecovered`, `CoordinatorsKeepABroker`, `SurvivingMetadataWins` |
| `master_liveness` | pass, 0.7 M | 3 brokers, 2 coordinators, 2 faults, no spontaneous epochs | `Settles`, `EpochRecovered` |
| `creation` | pass, 0.2 M | broker and storage, 2 faults | `ServiceBeforeStatefulSet`, `DoneMeansCreated`, `CreatedOrGone` |
| `creation_public` | violation | broker and storage, 2 faults | see Findings |
| `operator_leader` | pass, 83 000 | 4 pods, 3 exits | `OneOperator`, `LatestOperatorRuns` |
| `cluster_client` | pass, 22 000 | 2 requests, 3 proxies and 2 removed ones | `OneOpenClientPerAddress`, `RedirectionsSuffice` |
| `key_checker` | pass, 0.5 M | 4 keys, restart at 3, 2 corrupted keys | `NoFalseAlarm`, `ReadsMissNothing` |

Why the bounds are enough: two chunk numbers allow every direction of scaling,
two edits a reversal during a scaling, which is where the stale copies matter; one
fault hits every step of every reconcile, and the proofs cover all other values. Three edits
are the least with which an outdated copy strands slots for good.
Three brokers are what the code deploys (`brokerNum`); three faults include the loss
of all brokers and a second fault during recovery; a change of the chunk number counts as a fault
and a running broker missing from the endpoints as two, so that the bound leaves room for one
of each. Two coordinators, in `master_liveness`, tell the last
call of `configSetBroker` from an earlier one; a third adds none. The safety properties of
`master_safety` ask for no more than one (that of the epochs is checked with two as well), and all
are proved for any number. Two of the three
components suffice for `creation`, as broker and coordinator are created by
the same code. Wrapping does not depend on the width, so `chunk_width` has
a `Half` of 16 with room for 8 pods: chunk numbers that fit, that fit only in the integer, and that
wrap to negative, zero, too small and fitting replica numbers. Four pods allow two rollouts and a
replacement in between. Two requests make every race for a connection, two removed proxies
a redirection from one to the other. Four keys fill a checker and start the next while writes of
the first are late.

Deadlock is not checked in the scaling, failover, creation and leader runs: a converged
cluster, a deleted one, and an operator that has started rest. In the others something always
goes on (the resync in BrokerMaster, the next reconcile, request or round) and deadlock is
checked.

Each property has mutants in the modules (operators whose comment starts with
"Mutant"): a variant of one definition with a plausible bug, which the property
detects. They are used by no specification.

### Fairness

Informers deliver what they watch, and pods terminate and come back: guarantees of
Kubernetes. The worker goes on with the queued request: controller-runtime has
one worker per controller and reconciles requeue. A migration that runs ends; this is
the broker's job. `Resync` stands for the periodic resync of the informers, which the
manager leaves at its default (10 h) in `cmd/manager/main.go`. `BrokerMaster`
needs it: after a swallowed error of `configSetBroker` nothing else triggers another
reconcile. `ResourceCreation` needs it for the public service. No fairness is assumed
of edits, faults, `BumpEpoch` or `SyncMeta`. In `BrokerFailover` a migration needs its pods, so
its fairness is that of a migration that can end. In `OperatorLeader` Kubernetes does its work
(it starts containers, stops and removes pods, collects the lock) and a process that is not waiting
for the lock goes on; rollouts, drains and exits happen or not. Since edits and faults are bounded,
the liveness properties say what happens after the last one.

## Findings

* `StableMeansNoneTerminating` (`undermoon_controller.go:172`): scale down, then up
  again before the removed pods are gone. The scale-up writes the old replica number,
  the status in the same object still has the old counts, the terminating pods are
  still listed, and the check "wait for those TERMINATING pods to be killed
  completely" passes, although the copy is the latest version. `Status.ObservedGeneration`
  is not looked at. Slots may then move to pods that restart; the replica number keeps them.
  With an outdated copy (see StorageScaling) it may not.
* `FailedInUseProxiesKept` (`meta_controller.go:112`): during a scale-down a killed
  pod of the chunk being removed is neither expected nor listed, so its proxy is put on
  the delete list while it owns slots, unlike the comment says. Only the broker's
  refusal protects it.
* `DoneMeansReachable` (`storage_controller.go:28`): the error of creating the public
  service is overwritten. A reconcile may end without an error and without the service.
  `CreatedOrGone` shows that a later resync repairs it.

## Proofs

`StorageScalingProofs` holds for every `MaxChunk`, `MaxEdits` and `MaxFaults` and caches of any age, from
the assumptions in `StorageScaling` alone.

* `TypeCorrect`: `[]TypeOK`, by one case per action. `PodCount` bounds the counts
  in the status by the number of pods.
* `ScalingInvariant`: `[]ScalingInv`, the inductive strengthening. `DoneMeansScaled`
  is not inductive: at the write it needs to know that the node number read
  two steps before is right (`InfoInv`), for which the slots must be, or be
  migrating to, where this reconcile wants them (`ChangedInv`), which `scaleNodes`
  established. A migration stays on the pods of the copy because the held copy has enough replicas
  (`HeldInv`), and the first cluster on those of the set because nothing shrinks before it
  (`FirstClusterInv`). A shrink from a stable set needs `StableInv` (about the held copy)
  and `VersionsInv` (a copy with the latest version is the object).
* `DoneIsScaled` follows.
* `ShrinkIsSafe`, `ShrinkIsStable`: action properties. `StepEffects` lists how a step may
  change the replica number and the slots; only `ScaleDown` shrinks, and at that
  step the invariant gives the result.
* `ImplementsSafeScaling`: every step is a step of SafeScaling or leaves replica number, copies and
  slots alone (`SafeStep`), from the same facts and without a condition on the caches.

`BrokerFailoverProofs` holds for the same constants and any number of failovers.

* `FailoverInvariant`: `[]FailoverInv`. A failover replaces the broker's metadata at any step, so
  that `ChangedInv`, `InfoInv` and the slots' place on the kept pods are lost. What speaks of the
  StatefulSet and its copies only (`VersionsInv`, `HeldInv`, `StableInv`, together `CopiesInv`) is
  inductive by itself: `CopiesNext` proves it without the rest of `ScalingInv`. Until the first
  failover the whole of `ScalingInv` holds, by `ScalingNext`.
* `FailoverShrinksStable`: the scale-down is from a stable set after any failover too.
* `StrandingIsExplained`: `[]StrandedExplained`, the safety half of `ConvergesOrStranded`. A step that
  strands slots shrinks the set, which `ShrinkKeepsSlots` excludes before a failover, or starts a
  migration, which stays within the pods of the held copy: that copy then differs from the set.

`BrokerMasterProofs` holds for any finite set of brokers, any coordinators, faults and epochs. The
inductive invariant is `MasterInv`.

* `OneMaster`: `[]SingleMaster`. It needs that the brokers with replicas are among those listed or
  missed (`ScanInv`: a broker that was down when the endpoints were read comes back without), and
  that the loops of `setBrokerReplicas` still have to visit everyone else who has some (`FlagInv`).
* `EpochsRecover`: `[]EpochRecovered`. Between `getMaxEpoch` and `fixEpoch` the proxies may hear newer
  epochs, but only from the chosen broker, since the coordinators were switched before
  (`SwitchInv`); then that broker itself is not behind. The statement is about the proxies within the
  chunk number, which does not change for a reconcile; `fixEpoch` goes at least above those
  (`MemoryInv`: they are among all proxies).
* `CoordinatorsKeepTheirs`: past the update of the status `best` is a broker (`ScanInv`): the empty
  address does not get through the schema.
* `MetadataSurvives`: `QuietInv` says what the epoch scan of `getCurrentMaster` relies on. Brokers
  with the cluster are ahead of the others (`Ahead`); during the scan either one of them has been
  seen, and all others are below `bestEpoch` (`SeenCluster`), or all of them are still to be visited
  (`NotSeenYet`). A crash removes brokers from both sides. A flagged broker is `Good`: it has the
  cluster, or none has.

`ChunkWidthProofs` holds for every `Half`, the 2^31 of an int32 included, which TLC cannot reach.

* `WrapIsHarmless`, `DoneExactly`: `WidthInv` adds to the two properties that past
  `changeNodeNumber` the nodes asked for all have pods, and that before the first cluster there
  are no more pods than replicas (`StepInv`). The conversion is
  characterised by its range, what it keeps and what it forgets (`Int32Range`, `Int32Fits`,
  `Int32Wraps`). `GuardIsValue` is the point of the proof: doubling before or after the conversion is
  the same, so the guard of `createStorage` is about the value that is written.

`ResourceCreationProofs` holds for every non-empty choice of components and any number of faults.

* `ServicesFirst`, `DoneCreated`: `PassedInv` says that, while the resource exists, all objects that
  `createResources` has passed exist, with the public service, whose error is overwritten, as the
  only exception, and that the cache shows nothing that is not there. `ServiceIsEarlier` is a fact
  about the sequence: every StatefulSet comes after its service.

`ClusterClientProofs` holds for any coroutines, proxies and removed proxies.

* `OneClient`: needs only that a client being connected is not in the map yet (`CreateInv`).
* `FiveTriesSuffice`: `Hops` counts the redirections a request can still meet from an address, those
  included that the switch of the migration is yet to cause: at most four. Each redirection
  lowers it (`RedirectsCount`), the switch never raises it, so tries and hops together stay within
  `RETRY_TIMES` (`HopsInv`).

`OperatorLeaderProofs` holds for any number of pods and exits.

* `TypeCorrect`, by one case per action.
* `OneOperatorRuns`: `[]OneOperator`. That two processes have started says nothing of the lock;
  `LockInv` adds that every process past `Become` has it, and, for the garbage collector, that no
  process outlives its Pod object, which only a forced deletion breaks.

`KeyCheckerProofs` holds for any keys, any `MAX_KVS` and any number of corrupted keys.

* `NoFalseAlarmEver`: `[]NoFalseAlarm`. The strengthening `CheckerInv` says what every round awaits
  (`RoundInv`), that what the checker believes is right but for corrupted keys and that no late
  write touches a key it believes something about (`TrackInv`), the same of the calls in flight
  (`CallInv`, `TodoInv`), and that a key being written is in one call and tracked nowhere
  (`WritesInv`), which is what `kvs.pop()` before a delete is for. All but `RoundInv` is
  given up during the last deletes, which do not pop their keys: nothing is read after them.
* `ReadsMissNothingEver`: `[]ReadsMissNothing`. `DueInv`: for each key that is due a call is under way
  whose answer will show it, or one is still to be sent: its own GET, or the MGET of its group.
* `TypeCorrect` is part of the same induction.

Each module also proves its `TypeCorrect` (of BrokerFailover it is part of `FailoverInv`). Every inductive invariant was checked by TLC, with the
bounds of the module's run, before it was proved. The assumptions are those named in the modules;
TLC evaluates them in the runs.

Only model-checked, as fairness is out of the prover's reach: `Settles`, `CreatedOrGone`,
`LatestOperatorRuns` and `ConvergesOrStranded`. The three properties of the violation runs are false.
Every other property of a run is a theorem.

## Not modelled

* The Redis client pool (`utils.go`): a memo table used by one worker. Its clients reconnect by
  name, so a caller cannot tell a kept client from a new one.
* The encoding of the clients' calls, pod templates, formatting of names and logging: data that
  no property tells apart.
* Generated and registration code, Helm charts, end-to-end tests.
* `check_service.py`: the rounds of the chaos checker, but the first failed call ends the process.
* `storeReplicaAddresses`, `storageReady`, `brokerAllReady` and `coordiantorAllReady`, which have no
  caller.
* Slot migration itself, and what the proxies do with their metadata: not in this repository.

## Plan

All components of the plan are modelled, and all safety properties of the runs are proved. What
is left: further safety halves of the liveness properties, as `StrandingIsExplained` is one.
