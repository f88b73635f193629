# A TLA+ model of the SteerD Presto operator

The operator turns every `Presto` custom resource into a Presto cluster: two
services, three config maps, a replica set with the coordinator, one with the
workers and, if asked for, a horizontal pod autoscaler. It is one process with
one reconcile thread, driven by watches and by a periodic event. This
directory models the reconcile loop together with the parts of Kubernetes it
depends on, the dispatch of requests for several Prestos, and the content of
the objects together with the servers that run with it; checks them with TLC on
small instances, and proves their main safety properties with TLAPS for all
instances.

Source files without a directory are under `src/pkg/controller/presto/`.

## The system

| Part | State | Operations |
|---|---|---|
| API server (external) | the Presto with spec and status, the owned objects | create (generated or fixed name), update (optimistic concurrency), status update, delete |
| Informer caches (external) | a lagging copy of each resource type | deliver a change, queue the owner's request |
| Work queue, registration, ticker (`presto_controller.go` 51-128) | at most one request per Presto, `registeredPrestos` | queue, register, unregister, tick |
| Reconcile (`presto_controller.go` 148-288) | local copy of the Presto, current stage | get, assign the uuid, eight stages, report the phase |
| Stages (`presto_controller.go` 290-549, `services.go`, `presto_pods.go`, `hpa_handler.go`, `common_util.go`) | - | look up in the cache, create, update or delete, then `updateStatus` |
| `updateStatus`, `getPresto` (566-645, 717-734) | - | list the Presto again, change the copy, write its status |
| Users and other controllers (external) | - | create, edit, relabel, delete the Presto; delete owned objects; resize replica sets; collect garbage |
| Configuration files, catalogs, pod templates (`presto_properties.go`, `catalog.go`, `presto_pods.go`) | - | pure functions of the spec |
| Shutdown script (`constants.go` 17-42) | where it has come to | ask over HTTP, then HTTPS, to shut down; wait |
| Presto's servers, kubelet, clients (external) | running, joined, tasks | start, join, drain, terminate, connect |
| CPU usage (`presto_controller.go` 647-697) | - | a percentage for the status |
| Webhook, start-up, generated code | - | not part of the control loop |

What makes the code hard to test:

- Every read is from a cache that lags, every write goes to the API server. A
  stage may look for an object that was created a moment ago and not find it.
- `Reconcile` works with one copy of the Presto and `updateStatus` with
  another one, listed later and by name only. Between the two the Presto may
  have been edited, relabelled, deleted, or deleted and created again.
- Creating an object and recording it in the status are two writes. The second
  may be refused or fail, and its error is ignored.
- One reconcile handles one object. What starts the next one is a watch event
  or the periodic event; `RequeueAfter: 0` starts nothing.
- Calls fail, or succeed with the answer lost. The process may end at any point.
- A nil pointer in the autoscaling settings ends the process.
- Objects of one cluster are built from the spec at different times; ports,
  HTTPS, path and catalogs may be edited in between.
- The ticker's goroutine sends on an unbuffered channel while it ranges over a
  map that the reconciler changes.

`PROJECT.json` lists these hazards with the line where each bites.

## Modules

| Module | Content |
|---|---|
| `PrestoKinds` | the eight kinds of objects, in the order of the stages |
| `PrestoReconciler` | the reconcile loop and its properties, for one Presto name |
| `PrestoLifecycle` | what the loop promises: an abstract specification without caches, queue or process |
| `PrestoImplements` | the refinement mapping between the two |
| `PrestoDispatch` | several Prestos: watch, map of registrations, ticker, channel, work queue |
| `PrestoConfig` | names, labels, ports, configuration files, catalogs and pod templates, as functions of the spec |
| `PrestoPods` | a cluster built with `PrestoConfig`, one stage at a time, and its servers at work |
| `MCPrestoReconciler`, `MCPrestoDispatch`, `MCPrestoPods` | instances for TLC |
| `PrestoReconciler_proofs` | proofs: type correctness, registration |
| `PrestoBuild_proofs` | proofs: order of creation, truth of the status, uuids (their owner, their number, no return to an old one) |
| `PrestoChecked_proofs` | proof: nothing is built from a refused spec |
| `PrestoRest_proofs` | proof: the watches drive a started cluster to its end |
| `PrestoRefinement_proofs` | proof: `PrestoReconciler` implements `PrestoLifecycle` |
| `PrestoDispatch_proofs` | proofs: types, no request is lost, a forgotten Presto stays forgotten |
| `PrestoConfig_proofs`, `PrestoPods_proofs` | proofs: selectors, ports, properties, catalogs; types, clients, catalogs, servers that can start and join, script and tasks |

The components meet in three places. `PrestoReconciler` decides when each
object is built and from which version of the spec; `PrestoPods` takes over
what it guarantees (the order of the stages, any edit in between) and adds what
the objects contain. `PrestoDispatch` keeps of a reconcile what it does to the
map of registrations, and adds the other Prestos. `PrestoLifecycle` is what
remains of `PrestoReconciler` for an observer of the API server.

## The reconcile loop

### State

- `presto`, `objs`: what the API server stores. `uid` 0 means "no such Presto".
  An object has its kind, the uid of its owner, the cluster uuid in its labels
  and name, an instance number `n` (generated name suffix or cluster IP), and
  the spec it was built from.
- `seen`, `listed`: the caches. Resource versions are not counted: `behind`
  holds the identities whose cached version is not the stored one, which is all
  a compare-and-swap write depends on.
- `queued`, `registered`, `up`: the request, the entry of `registeredPrestos`,
  the process.
- `pc`, `at`, `local`, `wrs`, `upd`: the reconcile thread: next call, stage,
  the variables `presto` and `workerReplicaSet` of `Reconcile`, and the update
  about to be written.
- `uids`, `issued`: counters for fresh uids and uuids. `made`: history of all
  created objects. `budget`: what is left of the bounds.

### Actions

One step is one write to the API server with the cached reads directly before
it, or one cached read that is followed by another read. Between any two steps
the caches, users and other controllers move.

| Action | Code |
|---|---|
| `Reconcile`, `ReconcileNotFound`, `ReconcileGetFails` | `Reconcile` 148-174 |
| `AssignUuid` | 174-188, with `updateStatus` |
| `HeadlessServiceConfig`, `ServiceConfig`, `RelistService` | the service stages, `services.go` |
| `CoordinatorConfig`, `WorkerConfig`, `CatalogConfig` | the config map stages, `createConfigMap` |
| `CoordinatorReplicaset`, `WorkerReplicaset` | the replica set stages, `presto_pods.go` |
| `HpaReplicaset`, `HpaPanics` | the autoscaler stage, `hpa_handler.go` |
| `ReportPhase` | 259-287 |
| `UpdateStatus` | the `updateStatus` call at the end of a stage |
| `StageCallFails` | a failing list, create, update or delete in a stage |
| `DeliverPresto`, `DeliverOwned` | watches of `add`, `GenerationChangedPredicate` |
| `Tick` | the goroutine of `newReconciler` |
| `Crash`, `Restart` | external: end and start of the process |
| `CreatePresto` ... `ReplicaSetReports` | external: users and other controllers |

A failed call appears twice: without effect (`StageCallFails`), and with its
effect but the answer lost (the second branch of `Create`, `UpdateObject`,
`DeleteHpa`, `AssignUuid`). In `UpdateStatus` a lost answer equals success,
since its callers ignore the result.

### Abstractions

- A name is its kind and uuid; a name recorded in the status is that uuid. The
  address in the status is the uuid and the instance of the service it was read
  from.
- A spec says which stages refuse it (`invalid`); why (service type, HTTPS
  settings, reserved properties, quantities) is left out. Where it is refused
  follows the code: config map content is built before the lookup, replica set
  templates only when one has to be created.
- `ErrorReason`, `CurrentWorkers`, CPU texts and times are left out: they are
  written and never read by the operator.
- A list that finds several objects returns any of them.
- `CollectGarbage` removes all orphaned objects in one step.
- A panic in a reconcile ends the process: controller-runtime 0.4 does not
  recover it.

## The lifecycle

`PrestoLifecycle` has five variables: the Presto that exists, its uuid, the
names and the state in its status, and the set of objects ever built. A Presto
appears and disappears; it is named as long as nothing was built for it; an
object is built after the mandatory objects of the lower kinds, never under
the uuid of another Presto, and for no other cluster once the present one has
an object; the status records names of objects that were
built, and Ready only after a complete cluster. `PrestoImplements` maps these
variables to what the API server stores and to the history `made`. That every
step of the loop is a step of the lifecycle or leaves it alone is checked in
the runs `build` and `recreate` and proved for all instances.

## Dispatch

| Action | Code |
|---|---|
| `DeliverPresto` | the watch of Prestos (`presto_controller.go` 97-101) |
| `Tick`, `StartRange`, `Visit` | the goroutine of `newReconciler` (66-79): `Range` visits the keys of the map at its start, skips those deleted meanwhile, and sends without a lock |
| `Receive`, `Distribute`, `HandleGeneric` | the watch of the channel (91-95): two goroutines of controller-runtime with a bounded channel between them |
| `Take` | one thread (`MaxConcurrentReconciles`, 86-87) |
| `Get`, `Unregister`, `Register` | `Reconcile` 151-172 |
| `ReconcileEnds`, `ReconcileFails` | the result of a reconcile; a failed one is added again later |
| `Change`, `Add`, `AddDelayed`, `Done`, `Crash` | external: users, the work queue, the process |

The work queue is client-go's: a request is queued once, not while it is
processed, and again at the end if it was added meanwhile (`dirty`). The rest
of a reconcile, after the registration, is one step. An event for an owned
object is left out: it adds a request as any other event does.

## Configuration and pods

`PrestoConfig` has one operator per function of the code. A file of properties
is the set of its lines; a quantity is an integer, possibly negative, or
`Unparsable`; a catalog's
content, a secret and an additional file are single values; of `jvm.config`
only the `-Xmx` options are kept, in their order. A name is its prefix with the
first part of the uuid. What the stages refuse (`RefusedAlways`,
`RefusedOnCreate`) is kept apart from what the API server refuses (`Rejected`,
external).

`PrestoPods` builds the seven mandatory objects one after the other
(`Build(k)`), each from the spec at that time. The servers read what the
objects say: they start if the configuration is one Presto accepts, a worker
joins if its discovery URI resolves through the headless service to a port on
which the coordinator serves HTTP, and a terminated worker runs the shutdown
script (`RequestOverHttp`, `RequestOverHttps`, `WaitForServer`) against its own
server within the grace period. Presto's servers, the kubelet, DNS and the
clients are external; of each only what the operator's configuration decides
is modelled. One worker stands for all: workers do not act on each other.

## Properties and runs

Of the reconcile loop, safety: `BuildOrder`, `StatusNamesMade`,
`ReadyMeansBuilt`, `UuidHasOneOwner`, `AtMostTwoUuids`, `UuidStableOnceBuilt`
and `NoWayBack` (properties of steps), `RegistrationTracksCache`, `NoStall`,
`AcceptedSpecsOnly`, `AddressKept` (a property of steps), `LifecycleImplemented`
(refinement). Liveness:
`ClusterBuilt`, `AddressRecorded`, `AutoscalerFollowsSpec`, `WorkersReported`,
`DeletionCleansUp`. Of the dispatch: `NoLostRequest`, `NoRevival` (a property
of steps), and the liveness properties `EveryPrestoReconciled`,
`DeletedPrestoForgotten`, `SendsGetThrough`. Of configuration and pods:
`ClientsMeetCoordinator`, `TasksSurviveShutdown`, `ScriptBlocks`,
`CatalogsComplete`, `WorkableCanJoin`, `WaitsForDraining`, and the liveness
properties `WorkersJoin`, `TerminationEnds`. Each is stated in words above its definition.

A reader might expect one uuid per Presto. It is not so: a reconcile that read
a copy without a uuid writes a new one over a uuid assigned meanwhile. While
the cache still shows the replaced uuid, objects are built under it; nothing
refers to them any more, and they go when their owner is deleted. What does
hold is that a uuid is replaced only before anything is built
(`UuidStableOnceBuilt`), that no third one is built under (`AtMostTwoUuids`),
and that from the first object under the present uuid on nothing more is built
under the old one (`NoWayBack`).

Nor is the address in the status always the cluster's own. An update computed
for a deleted Presto, or for a uuid that was replaced, may put the address of
the former service into the status of the present one, where it stays: the code
records an address only if there is none (run `stale_address`). What holds is
that a Presto with a valid spec comes to have an address (`AddressRecorded`) and
that the right one, once recorded, is not overwritten while the service exists
(`AddressKept`).

The stages that check the spec in every reconcile are those of the external
service and of the two configurations (`Checked`); the catalogs are never
refused, and the templates only when a replica set is to be created.

Several properties of `PrestoPods` exempt settings under which the cluster does
not work and which the operator neither refuses nor repairs: ports or HTTPS
edited between two stages, a replaced `config.properties`, HTTP switched off by
the user, a path edited between the config map and the template, a grace period
of 0, a memory that gives no heap. For these the project checks only that
the termination of a worker still ends; `PROJECT.json` says so at each hazard.
`CatalogsComplete` has no such exemption: it says what the directory holds after
any edit.

| Run | Starts from | What happens | Checked | States |
|---|---|---|---|---|
| `build` | nothing | one failed or unanswered call, one premature periodic event, a running or failed coordinator | `TypeOK`, `BuildOrder`, `StatusNamesMade`, `ReadyMeansBuilt`, `NoStall`, `LifecycleImplemented`, no deadlock | 1.0 million |
| `recreate` | nothing | deletion and recreation, or an edit between two refused specs, or relabelling; a crash; a premature event | `UuidHasOneOwner`, `AtMostTwoUuids`, `RegistrationTracksCache`, `AcceptedSpecsOnly`, `UuidStableOnceBuilt`, `NoWayBack`, `AddressKept`, `ClusterBuilt`, `DeletionCleansUp`, `LifecycleImplemented` | 0.3 million |
| `disturbed` | new Presto, or built cluster with or without an autoscaler | a failed call during the build; two edits of count and autoscaling (also to refused quantities, to bounds the API server refuses, or to a missing one, which ends the process) with a failed call or with a resize by the autoscaler; an edit with an owned object deleted; deletion of the Presto | `NoStall`, `ClusterBuilt`, `AutoscalerFollowsSpec`, `AddressRecorded`, `DeletionCleansUp`, `WorkersReported` | 0.4 million |
| `pods` | nothing built | one of 24 specs, one edit to any other at any point of the build; a worker with up to two tasks is terminated again and again | `TypeOK` and the eight properties of configuration and pods | 91 thousand |
| `dispatch` | no Presto | two Prestos, three creations or deletions, one failed reconcile or crash, a channel of size one | `TypeOK`, `NoLostRequest`, `NoRevival`, `EveryPrestoReconciled`, `DeletedPrestoForgotten`, `SendsGetThrough`, no deadlock | 145 thousand |

Deadlock is not checked where the Presto may be deleted for good, or the spec
is refused and not edited any more: then there is nothing left to do.

Each property is accompanied by a mutant, a plausible bug in the code it is
about (defined next to the original and marked as such), which TLC shows to
violate it.

### Bounds

- One Presto name. `MaxUid` 2 suffices for a reconcile of the first Presto to
  meet the second one.
- `MaxNames` limits instances of one kind and uuid that are known at one time.
  Two let a duplicate replica set, or a service created again, exist beside the
  first. With `MaxNames` 1 (`recreate`, `stale_address`) the specs are refused
  at the external service or at the first config map: the runs are about uuids,
  which the first objects already carry, and about the address of the service.
  `ClusterBuilt` then says that all objects before the refused stage are built.
- `MaxRaces` limits periodic events and garbage collections while a reconcile or
  a delivery is under way. Without it they would be enabled everywhere; one is
  enough to start a reconcile from every stale cache. While nothing is under
  way they are free.
- `MaxFaults`, `MaxCrashes`, `MaxEdits`, `MaxDeletes`, `MaxChurn` count what the
  names say. Each can strike at every point.
- `disturbed` starts from a Presto just created (`Fresh`) or from the end of a
  build without refused status writes (`Settled`, `Scaled`), which TLC reaches
  from `Init`. Each initial state has its own share of the bounds (`Left`), so
  that the disturbances meet in pairs.
- `pods`: the specs are those that some operator of `PrestoConfig` tells apart:
  ports with and without HTTPS, each refusal, reserved properties, HTTP
  switched off on either side, an HTTPS port that clashes with the HTTP port,
  replaced files, heap options, another path, negative quantities and ones that
  do not parse, more memory for the coordinator, no grace period, and catalogs
  that clash. One edit gives every pair of specs at every point of the
  build. Two tasks suffice for a worker that finishes one and is given another
  while it drains.
- `dispatch`: two Prestos, so that one can be forgotten for the other, and a
  channel of size one, so that it is full when the second event comes (the
  library's default is 1024). Three changes give a creation, a deletion and a
  creation again of one Presto, or a race of two.

The proofs hold for every value of these bounds.

### Fairness

Weak fairness of the reconciler, of each informer, of the ticker, of the
restart and of the garbage collector. The controller runs one worker that takes
every request; informers deliver every change in the end; the ticker is an
endless loop; the operator is a Deployment whose pod is restarted; the garbage
collector is a control loop. Nothing is assumed of users, of the autoscaler or
of failures. The steps of the reconciler share one fairness condition, since
the thread only has to go on; which instance a list returns stays open.

In `dispatch`, each goroutine (ticker, the two behind the channel, the
reconcile thread) takes its next step, the ticker ticks, and the informer and
the work queue deliver what they hold. In `pods`, Kubernetes starts the pods it
can start and removes ended ones, a worker announces itself until it is known,
the script goes on, and a server asked to shut down finishes its tasks. Nothing
is assumed of the reconciler, users and clients there, and not that the grace
period ever ends.

### Statements of the repository that do not hold

| Run | Statement | What happens |
|---|---|---|
| `two_coordinators` | `presto_pods.go` 155: "If the resource doesn't exist, we'll create it" | It exists but is not in the cache: a second coordinator is created. |
| `lost_names` | `docs/status.md` 62-79: the status of a Ready cluster has all names | The status copy is old, the write is refused, and nobody writes the name again. |
| `missing_bound` | `hpa_handler.go` 140: "MinReplicas cannot be null" is an error | With an autoscaler present the nil pointer is dereferenced first. |
| `headless` | `docs/service.md` 5: workers discover the coordinator by the headless service | If it is deleted, the external service, which has the same label, is taken for it. |
| `stale_target` | `docs/autoscaling.md` 5: "Presto Operator uses HPA to scale up and down Presto workers" | A deleted worker replica set is created again under another generated name; the autoscaler keeps the old target. |
| `stale_address` | `docs/status.md` 65: the status shows the coordinator's address, "10.8.10.201:8100/30002" | An update computed for a deleted Presto or a replaced uuid reaches the present status; the address is not empty and never replaced. |
| `coordinator_memory` | `docs/prestoresource.md` 55: "Coordinator and worker are used to specify the properties of coordinator and worker." | The coordinator's container gets the workers' memory limit (`presto_pods.go` 214), its heap follows its own. |

## Proofs

For all `Specs`, `Labels`, `Phases` and bounds, assuming only their types
(`SpecsAssumption`, `BoundsAssumption`, `PhasesAssumption`):

| Theorem | Establishes |
|---|---|
| `TypeCorrect` | `TypeOK` |
| `Registration` | `RegistrationTracksCache` |
| `CreationInOrder` | `BuildOrder` |
| `StatusIsTruthful` | `StatusNamesMade` |
| `ReadyIsTruthful` | `ReadyMeansBuilt` |
| `OneOwnerPerUuid` | `UuidHasOneOwner` |
| `UuidIsStable` | `UuidStableOnceBuilt` |
| `TwoUuidsAtMost` | `AtMostTwoUuids` |
| `NeverGoesBack` | `NoWayBack` |
| `Implementation` | `LifecycleImplemented` |
| `OnlyAcceptedSpecs` | `AcceptedSpecsOnly` |
| `WatchesSuffice` | `NoStall` |

`CreationInOrder` to `Implementation` rest on one inductive invariant, `BuildInv`:

- `CopiesInv`: the local copy is never newer than the cached one, nor that one
  than the stored one; the cache equals the store unless `behind` says
  otherwise. This is what optimistic concurrency gives: an accepted status was
  computed from the stored copy.
- `UuidInv`: a uuid is used by the copies and objects of one Presto only, and
  none larger than `issued` is in use.
- `FreshInv`: a copy without a uuid is of a Presto for which nothing has been
  created; so is the local copy while it waits to assign one.
- `MadeInv`: stored and cached objects were created, in order.
- `StageInv`: at a stage, the objects of all earlier stages have been created
  for the local copy, and the update about to be written is true.

`BuildOrder` alone is not inductive: that a stage finds an object in the cache
helps only if the object belongs to the same Presto, which needs `UuidInv`. The
steps are grouped: the eleven stage actions have a common effect
(`StageEffect`), proved for each of them and then used once; `AssignUuid` and
`UpdateStatus` use `CopiesInv`; the others change at most one copy.

`TwoUuidsAtMost` and `NeverGoesBack` need one more invariant each. They say how
the uuids of the copies and of the objects relate, and for that every step is
one of four (`FourSteps`): it moves a copy to a cache or to the thread, it
builds objects under the local uuid, it assigns a uuid, or the Presto appears or
disappears.

- `TwoUuids`: no Presto has three uuids, counting those of the three copies
  besides those of the objects. `AtMostTwoUuids` alone says nothing of a uuid
  that is stored and not used yet. Only an assignment adds a uuid, and by
  `CopiesInv` and `FreshInv` the copy it starts from is the stored one and
  nothing has been built, so at most the replaced uuid is still in use.
- `CaughtUp`: once an object exists under the present uuid, the cache and the
  thread have that uuid too. For the step that builds the first such object this
  needs that the cache is never behind a local copy that has caught up with the
  store.

`Implementation` shows that the initial states map to one initial state of the
lifecycle and that every step maps to a step or to none, with one lemma per
group of actions: an accepted status was computed from the stored copy
(`CopiesInv`), so `UpdateStatus` is `Record`; an object that a stage creates
meets the conditions of the abstract `Build` by `StageInv`, `UuidInv` and
`CaughtUp`; a Presto that waits for its uuid has nothing built by `FreshInv`.

`OnlyAcceptedSpecs` needs `CheckedInv`: the stage that a reconcile has come to
vouches for the spec it works with, also while the status with the external
address is written between two stages, and the cached objects satisfy the
property as the stored ones do.

`WatchesSuffice` needs `BuildInv` and `RestInv`. `NoStall` speaks of the moment
when nothing is left to do and says nothing of the steps before it. `RestInv`
says what holds at each point of `Reconcile` if nothing will wake the operator
again (`Awake`: a request is waiting, or a change that the watches and
`GenerationChangedPredicate` let through is to be delivered):

- at a stage, the copy has the stored spec, and the objects of the earlier
  stages are there (`AtPoint`), because
- the caches differ from the store only in what is to be delivered
  (`CacheInv`);
- two copies of a Presto with the same generation have the same spec
  (`GenInv`), so a difference that matters passes the predicate;
- if a copy has another uuid than the store, nothing was created with the
  stored one (`StoredUuidInv`): a change of the uuid does not pass the
  predicate, but then the cluster has not been started.

TLC checked `RestInv` as an invariant of small instances before it was proved.

For any finite set of Prestos and any size of the channel
(`DispatchAssumption`):

| Theorem | Establishes |
|---|---|
| `DispatchTypes` | `TypeOK`: one reconcile at a time, the channel within its size |
| `NoRequestIsLost` | `NoLostRequest` |
| `ForgottenForGood` | `NoRevival` |

`NoLostRequest` alone is not inductive: when a reconcile that has read the
cache changes the map, nothing says that a change after the read is known. The
invariant `DispatchInv` adds `StaleComes` (if the cache has changed since `Get`,
a request or an event for this Presto is waiting) and `DirtyQueued` (a dirty
Presto is in the queue or being processed, so that `Add` may ignore it).

`ForgottenForGood` needs the types only: every place in which a Presto can be is
part of `Forgotten`, except the keys that the running `Range` has copied, and
`Visit` sends none that is not in the map.

For all specs (`ConfAssumption`: the fields have their Go types, quantities are
integers or do not parse, a map of properties has one value per key, and the properties by which a server learns
where to listen have values it can read):

| Theorem | Establishes |
|---|---|
| `ExternalSelectsCoordinator`, `HeadlessSelectsCluster` | whom the services select, for any two uuids |
| `PortsDiffer`, `ServiceTargetsListener` | the ports of service and coordinator agree |
| `AcceptedConfigsAgree` | the config maps of a spec that is not refused lead workers and clients to the coordinator, whatever properties the user adds |
| `CatalogsKept`, `CatalogContent` | the catalog directory, with its content, for a config map and a template of different specs |
| `ClientsReachCoordinator` | `ClientsMeetCoordinator` |
| `CatalogsAreComplete` | `CatalogsComplete` |
| `ScriptWaits` | `ScriptBlocks` |
| `TasksAreFinished` | `TasksSurviveShutdown` |
| `PodsTypes` | `TypeOK` of `PrestoPods` |
| `WorkableClusters` | `WorkableCanJoin` |
| `ScriptWaitsForDraining` | `WaitsForDraining` |

Those about `PrestoPods` use the invariants `ObjectsInv` (the content of an
object is what its stage writes for the spec it was built from, the earlier
objects exist, and the checked stages accepted that spec), `PodsInv` (a server
that runs has its objects) and `ScriptInv` (where the script is, the server is
in a state that explains it, unless one of the listed reasons holds).
`PodsTypes` adds `ControlInv`, the types of the other variables. That a heap
option is a number rests on `ObjectsInv`: a config map exists only for a memory
that parses. `WorkableClusters` shows that a memory of at least one MiB gives a
heap, and that the lines of a generated
file have one value per key, so that each server reads the port the operator
wrote, whichever specs the objects were built from.

### Only model-checked

All liveness: TLAPS can prove neither that an action is enabled nor what follows
from fairness. For four of them, a safe part that they rest on is proved:

| Liveness | Its safe part |
|---|---|
| `ClusterBuilt` | `NoStall`: a started cluster never rests incomplete |
| `WorkersJoin` | `WorkableCanJoin`: nothing the operator wrote is in the way |
| `TerminationEnds` | `WaitsForDraining`: the script waits only for a server that ends |
| `DeletedPrestoForgotten` | `NoRevival`: what is forgotten stays forgotten |

Nothing of this kind is proved for `AddressRecorded`, `AutoscalerFollowsSpec`,
`WorkersReported`, `DeletionCleansUp`, `EveryPrestoReconciled` and
`SendsGetThrough`. `AddressKept` is a property of steps that is only
model-checked: its proof would need the history of every cached service.

## Not modelled

- The CPU percentage (`getCPUUsage`): it enters a text of the status; no
  decision depends on it and it has no state.
- `ErrorReason`, `CurrentWorkers` and `ModificationTime` of the status; the
  image name and the service fields that are passed through unchanged.
- Two uuids that share their first eight characters: a coincidence of random
  numbers. `PrestoReconciler` gives each uuid its own names.
- A shutdown script of the user's own: nothing is known of what it does.
- The webhook, which no code registers, start-up and flags, generated code.
