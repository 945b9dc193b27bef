# Verification of cluster-api-provider-oxide

TLA+ models of the Cluster API infrastructure provider for Oxide, model-checked
with TLC, with proofs checked by TLAPS. Paths below are those of the repository.

## The system

The provider is one process (the *manager*, `src/cmd/main.go`) that runs two
controllers against two stores: the Kubernetes API server, which holds the
objects users and Cluster API write, and the Oxide control plane, which holds
instances, disks and floating IPs. No transaction spans the two, nothing is kept
on disk, and every read of an object comes from an informer cache that lags.

| Part | State it keeps | Operations |
|---|---|---|
| OxideMachine controller (`src/internal/controller/oxidemachine_controller.go`) | none between reconciles; within one, a copy of the object that the deferred patch sends back | `Reconcile`, `ensureInstance`, `ensureInstanceRunning`, address listing, `handleDelete`, `ensureInstanceDeleted`, `ensureDiskDeleted`, `SetupWithManager` |
| OxideCluster controller (`.../oxidecluster_controller.go`) | the same | `Reconcile`, `ensureFloatingIPExists`, `floatingIPAllocator`, `reconcileFloatingIPAttachment`, `ensureFloatingIPDeleted`, `oxideMachineToOxideCluster`, `SetupWithManager` |
| Resource names (`.../naming.go`) | none | `getInstanceName`, `getBootDiskName`, `getFloatingIPName`, `hashTruncateName` |
| Provider ids (`src/internal/cloud/provider.go`) | none | `NewProviderID`, `InstanceIDFromProviderID` |
| Oxide client (`src/internal/cloud/oxide.go`) | a token and a timeout of 30 s | the twelve calls of `OxideClient` |
| API types (`src/api/v1alpha1`) | the objects' fields | OxideCluster, OxideMachine, OxideMachineTemplate, conditions |
| Manager (`src/cmd/main.go`) | leader lease, off by default | start, stop |
| controller-runtime, Cluster API's patch and paused helpers (libraries) | caches, workqueues | modelled from how the controllers use them |
| Oxide control plane, user, Cluster API (outside) | instances, disks, IPs; owner references, bootstrap data, pausing, deletion | modelled from what the controllers ask of them |

How they interact:

- **Watches.** A change of an object reaches its controller as an event that
  updates the cache and queues the key. Events of Machines, pause transitions of
  Clusters and, for the cluster controller, every event of an OxideMachine queue
  keys as well. The queue holds a key once, whatever the number of events.
- **Reconcile.** One worker per controller reads the object from the cache, makes
  cloud calls one by one, and changes its copy. When it returns, the deferred
  patch sends what differs from the copy it started with: conditions, then
  metadata and spec, then status, in three requests. The conditions are merged
  into the cached object under an optimistic lock, and are refused when that is out of
  date or the condition changed meanwhile (`Conflict`); the other two go to whatever
  version is stored. Errors and `RequeueAfter` put the key back.
- **Pausing.** `EnsurePausedCondition` ends the reconcile when it changes the
  condition, and then only the event of its own patch continues the work.
- **Machines and clusters.** The cluster controller reads the control plane's
  OxideMachines (life, provider id, provisioned) from its cache and moves the
  floating IP between their instances. The machine controller never reads the
  floating IP. Both act on the same instances in Oxide.

What is hard about it, and what makes each part correct:

| Component | Hard behaviour | Correct when |
|---|---|---|
| OxideMachine controller | the finalizer is stored after the instance was created; the cache lags behind the provider id; a lost reply of a creation; a patch of three parts that fails in part; the run state changes between a view and the action on it; a disk that is still detaching | at most one instance per object, a provider id that is set once and never dangles, no deletion of what is live, no release of an object that still has resources, no key forgotten, deletion and provisioning end |
| OxideCluster controller | detach and attach are two calls; targets and holders are stale; the IP exists before it is recorded; a deletion is refused while the IP is attached; the order of the deletions of the cluster and of its owner | one stable endpoint that exists, an IP taken only from a machine that is going away, an IP on a live machine whenever nothing is left to do, a deletion that leaves no IP behind |
| Resource names | two objects with one name, by joining or by truncation | names fit, and names of objects differ |
| Provider ids | one that does not parse | the other machines are served as before, or nothing is moved |
| Manager | a crash between any two steps; a second manager that takes over with an old cache | all of the above all the same |

`PROJECT.json` lists the hazards one by one, with the lines where they bite and
the properties that would catch each.

## The modules

| Module | What it models |
|---|---|
| `MachineLifecycle` | what an OxideMachine and its resources look like from outside: the abstract specification |
| `OxideMachineReconciler` | the OxideMachine controller, its cache, queue and patch, the Oxide control plane, the user, faults |
| `OxideMachineProperties` | its properties, the refinement mapping to `MachineLifecycle`, the inductive invariants |
| `OxideMachineProofs`, `OxideMachineLifecycleProofs`, `OxideMachineWakeupProofs` | TLAPS proofs: the safety of machines and their instances; the refinement; that no machine is forgotten |
| `OxideMachineMC` | values of the constants, constraints and symmetry for TLC; names come from `ResourceNames` |
| `OxideManagers`, `OxideManagersMC` | two processes of the manager, with or without leader election: two instances of `OxideMachineReconciler` on one API server and one Oxide project |
| `OxideManagersProofs` | TLAPS proofs: what of the safety of machines carries over to two processes, with a leader and without |
| `ResourceNames`, `ResourceNamesProofs` | the functions of `naming.go` over sequences of characters, and TLAPS proofs about them |
| `OxideClusterReconciler` | the OxideCluster controller; it extends `MachineLifecycle` for the machines it watches |
| `OxideClusterProperties`, `OxideClusterMC` | the same for this controller |
| `OxideClusterProofs`, `OxideClusterAttachmentProofs`, `OxideClusterRestProofs` | TLAPS proofs: the versions of the object and its endpoint; where the floating IP is; what holds when nothing is left to do |

The two controllers are checked one at a time and meet in `MachineLifecycle`.
`OxideMachineReconciler` implements it (`ImplementsLifecycle`), and
`OxideClusterReconciler` is checked against machines that do anything that
`MachineLifecycle` allows. So the cluster controller's results do not
depend on details of the machine controller, and the state space of one controller
is never multiplied by that of the other.

### State and code

`api` and `cache` are the objects as the API server and the informer have them;
`cluster`, `cache` and `machineCache` are that for the cluster controller. An
object has the fields that its reconciler reads or writes. `seen` is the object
that `patch.NewHelper` keeps, `obj` the one that `Reconcile` changes, `again`
whether it is to return an error or `RequeueAfter`. `pc` is the next cloud call or
the next request of the patch: between two values of `pc` there is one
call, so that a crash, an event, the user or the control plane can come between
any two calls. `ListAddresses` is the exception: its two calls only read, one after the
other. `queue`/`queued` is the workqueue; taking a key out and
putting it back when an error is returned are both in the actions.

Every call has its outcomes: it works, it works and its reply is lost, it has no
effect and fails, it is refused. A fault needs `Fault(kind)`: the constant
`Faults` names the kinds that an instance of the model has, and `Settle` ends all
faults at some time (`quiet`), which the liveness properties need.

`instance`, `bootDisk` and `dataDisks` are indexed by *name*, because that is how the
controller finds them, and `InstanceName` is any function from machines to
names, so that colliding names are an instance of the model. `late` holds,
in both models, the creations whose call timed out, or whose caller crashed, while the
control plane still works on them; `LandCreate` carries one out, or finds the name taken.
The cluster model has the one floating IP of the cluster's name; a late creation of it keeps the host it was asked for.

A definition marked *altered* is a plausible mistake in the definition after it
(a dropped case, a wrong order, a missing return of an error). It is not used by the
specification. Each property was tested by putting one of them in place of the
right definition and seeing TLC find the property violated; the pairs are under
`mutants` in `PROJECT.json`.

### Two managers

`OxideManagers` has two copies, `A` and `B`, of the variables of a process (cache, queue,
worker) and one of everything outside. Actions of a process leave the other's variables
alone; the user and the control plane act once, and each process learns of it when its
own `Sync` comes. A worker takes steps only while `MayWork`: with `--leader-elect`, which
is off by default, while its process has the lease `holder`. A process that ends, for
whatever reason (`main` exits as soon as `mgr.Start` returns, also when the lease could not be
renewed), drops the lease and what it had in memory. A process told to stop cancels the
context of the reconcile that is under way, so that its deferred patch fails: the same
action. The lease is taken to be exclusive, that is, its holder ends before it expires.

### Names and provider ids

A string is a sequence of characters. `getResourceName` joins prefix, namespace and name
and, when the result is too long, cuts it and adds the hash, an operator constant. The
runs with two machines compute their `InstanceName` with it, over a small alphabet:
`machine_two` has machine `c` in namespaces `a` and `b`, `machine_one_name` has `c` in
`a-b` and `b-c` in `a`.

Provider ids are instance ids. `Unparsable` names further control plane machines whose
provider id a user wrote: `InstanceIDFromProviderID` fails when the list, which is in
no particular order, has one of them where it is looked at (`ParseMayFail`), and always
when it must be looked at (`ParseMustFail`).

## What the runs check

| Run | Instance | Result |
|---|---|---|
| `machine_safety` | 1 machine, 2 instance ids, data disks, call/restart/pause/guest faults | 550k states. No step of the controller touches what is live, provider ids are real and stable, releases are clean, no key is lost (`NoLostWakeup`, and the invariant `WakeInv` behind it), and every step is a step of `MachineLifecycle` |
| `machine_two` | 2 machines with their own names, restarts | 537k states. No two machines share an instance; the inductive invariants `IndInv` and `OwnInv` hold |
| `machine_liveness` | 1 machine, call/restart/guest faults, fairness | 222k states. Deletion completes; provisioning completes unless the instance has failed |
| `machine_stray` | 1 machine, 2 ids, pause/slow/operator faults, fairness | 313k states. No key is lost and deletion completes even when creations land late and instances disappear out of band |
| `managers` | 1 machine, 2 ids, 2 processes, leader election, restarts, fairness | 159k states. Live machines are spared and have their instance, no key is lost with a leader, releases are clean, deletion completes; the invariants `BeliefsInv` and `LeaseInv` behind the safety properties hold |
| `cluster_two` | 2 machines, unparsable ids, call faults | 428k states. The IP is taken only from a machine that is being deleted, and is on a live machine at rest; the invariants `AttachmentInv` and `RestInv` behind this hold |
| `cluster_faults` | 1 machine, 2 addresses, call/slow/restart/pause/host faults | 752k states. The endpoint is stored once, is the requested one and exists, and nothing is at rest without it, also when creations land late; the invariant `EndpointInv` holds |
| `cluster_liveness` | 1 machine, restart/leftover faults, fairness | 124k states. The IP is gone when the cluster is; before that it ends up on a live machine and the condition says so; a deletion waits for nothing but an attached IP; a teardown ends with nothing left unless somebody else's instance holds the IP |
| `machine_orphan`, `machine_data_disks`, `machine_one_name`, `cluster_host` | smallest that show it | violations, see *Findings* |

`CHECK_DEADLOCK` is off everywhere because the system does stop: when all machines
are gone and the queue is empty there is nothing left to do.

### Bounds

- *One machine* shows every interleaving of one worker with events, the user, the
  control plane and faults. Machines meet in only three places: they share the
  worker, they may share a name, and the IP moves between them.
  `machine_two`, `machine_one_name` and `cluster_two` are about these.
- *Two instance ids* allow one instance to be lost or destroyed and another to be
  made: enough for a provider id to dangle or to change. An id is used once.
- *Two addresses* are one that is asked for and one that is not.
- The constraint `Unsettled` cuts off the states after `Settle` in safety runs:
  every step possible there is possible before it, in the same state but for
  `quiet`. It is not used in the runs with liveness properties.
- The cluster runs are cut further by constraints, each of which leaves the case it cuts to
  another run or to the proofs, which have none of them.
  `OneEventPending` (both): the cache is behind for one object at most, the cluster or one
  machine; which one still varies. `ClusterStays` (`cluster_two`): the cluster and its owner
  are not deleted, which `cluster_faults` covers. `RecordedFirst` (`cluster_two`): no machine
  is provisioned while its provider id is unrecorded, and the cluster not before its host is; the
  controller does not see such a machine as a candidate. `ClusterGoesFirst`
  (`cluster_faults`): machines are not deleted before the cluster, which `cluster_two`
  is about. `PausedBetween` (`cluster_faults`): the owner is paused between reconciles only,
  since a reconcile reads this when it begins. `LandsBeforeInstances` (`cluster_faults`): no
  creation of a floating IP is under way any more once a machine has an instance, since
  late creations meet the endpoint, not the machines.
- `ClusterReleaseIsClean` is checked in `cluster_liveness`, with crashes at any step and no
  failing calls; that it holds with these as well is proved. With late creations it does
  not hold (see *The cluster controller*).
- `machine_two` leaves out failing calls, which `machine_safety` has.
- `managers` has two processes and restarts of either at any step, so that leadership
  changes hands any number of times; failing calls are left to `machine_safety`, and guest failures, late creations and
  operators, which `OxideManagers` leaves out altogether, to the other machine runs. Its
  refinement of `MachineLifecycle` and `ProviderIDStable` are not claimed: a new leader
  with an old cache may create again the instance of a machine that is being deleted, and
  store another provider id; the deletion that follows removes that instance too.
  Without leader election two workers act at a time and a release may leave an instance
  behind; the mutant of `ReleaseIsClean` in this run shows it. What does hold without is
  a matter of the proofs: two workers that act at a time, of two processes, have too many states.
- `cluster_liveness` leaves out pauses, which `cluster_faults` has for safety
  and for rest states (`EndpointAtRest`).
- Symmetry: ids among themselves, and two machines together with their names;
  only in runs without liveness properties. `managers` and `machine_stray`, which have them, use
  the constraint `IdsInOrder` instead: every behaviour is one in which the ids are handed
  out in a fixed order, after renaming them.

### Fairness

`WF(WorkerStep)`: the process runs, and a cloud call returns or times out.
`SF(StartReconcile(m))`: the workqueue is first in, first out, so that a key that is
queued again and again is served, although taking it is disabled while the worker
is busy with another one. `WF(Sync)`: watches deliver. `WF(Boots)`, `WF(Stops)`,
`WF(DetachDisk)`: the control plane finishes transitions it shows as in progress.
`WF(Settle)`: faults end. No fairness is assumed of the user, of Cluster API, of
stray transitions or of late creations. In the cluster model the machines'
`ControllerStep` is weakly fair while `MachineServed`, which is what `machine_liveness` is
about: the cluster is not paused and the machine controller still finds the OxideCluster,
which it reads in every reconcile. `WF(TearDown)`: Cluster API, once the deletion of its
Cluster was asked for, deletes the machines and, when they are gone, the OxideCluster.
`TeardownCompletes` has this order as an assumption: an OxideCluster that a user deletes
first may disappear before the machines do, and these then keep their finalizers. In
`OxideManagers` each worker is fair while it may work, and a free lease is taken.
Backoff delays are not modelled: a key that was put back may be taken at
any later time.

## What is proved

The theorems are about every set of machines, names, ids and addresses, every
assignment of names, and every choice of faults that their assumptions allow. All
invariants, action properties and the refinement that the runs check are theorems,
those of two processes included; liveness is not (see *What is not proved*).

### The machine controller

| Theorem | Assumes | Says |
|---|---|---|
| `TypeCorrect` | - | `Spec => []TypeOK` |
| `Order` | - | `[]OrderInv` |
| `Invariance` | `Undisturbed`, `DistinctNames` | `[]IndInv` |
| `ProvidersAreReal` | both | `[]LiveMachineHasInstance` |
| `LiveMachinesAreSpared` | `DistinctNames` | `[]SparesLiveMachines` |
| `Readiness` | `Undisturbed` | `[](NothingLate /\ ReadyToRelease)` |
| `ReleasesAreClean` | `Undisturbed` | `ReleaseIsClean` |
| `ProviderIDsAreStable` | both | `ProviderIDStable` |
| `Ownership` | both | `[]OwnInv` |
| `ProvidersAreDistinct` | both | `[]DistinctProviderIDs` |
| `Refinement` | both | `ImplementsLifecycle` |
| `Wakefulness` | - | `[]WakeInv` |
| `NoMachineIsForgotten` | - | `[]NoLostWakeup` |

`Undisturbed`: no creation is carried out after its call timed out, and nobody
else deletes instances. `DistinctNames`: no two machines have one name. Neither is
guaranteed by the code: without the second the properties fail
(`machine_one_name`); a late creation can land after the disk was found to be gone, and
an instance that an operator deletes leaves the provider id dangling. What needs only one
of them is stated with that one: sparing live machines rests on the order of versions and
on who has a name (`DeletesItsOwn`), a clean release on what the worker found, whoever else
has the name.
Failing calls, lost replies, partial patches, crashes, pauses and guest failures
are all covered. The rest are assumptions on constants: `InstanceName` is a
function from machines to names, `NoId` is not an id, `NoMachine` not a machine.

None of the properties is inductive: all that the worker does rests
on a cached object, which is an old version of the stored one. The parts of `IndInv` are

1. `ObjectsAreOrdered`: the cached object *precedes* the stored one (life only
   moves on, a finalizer and an owner stay until the object goes, so does the presence of a
   provider id), and a provider id or a deletion timestamp never comes without the finalizer;
2. `WorkerIsConsistent`: `seen` precedes the cached object, `obj` sets a provider id
   only on a live object that had none, and never drops the finalizer of a live one;
   in the calls of a deletion, `seen` is being deleted;
3. `ProvidersExist`: while a machine may still be seen live, by the cache or by
   the worker, stored, cached and in-memory provider ids all name the instance
   under the machine's name. A creation runs into the conflict and adopts that instance;
4. `ReadyToRelease`: the worker holds a copy without finalizer only when the instance
   and the disk are gone, and looks at the disk only when the instance is gone;
5. `NothingLate`, from the absence of slow creations.

`Precedes` is what makes merge patches without a version safe: a patch that
was computed from an old version can only carry fields that are still unset in the
stored object. Each part has a step lemma; those of 3 and 4 summarise the eleven
cloud calls first, in `CallOutcome`, which knows no more than `OrderInv`, and `CallEffect`,
which adds part 3. The first two parts and the types are `OrderInv`, which
needs no assumption: which instances exist plays no part in it.

`OwnInv` adds what the refinement needs. An instance's id belongs to one name and is known
to one machine (`IdsAreOwned`, and with it `DistinctProviderIDs`); whoever still believes in
the deletion of an object that is gone finds nothing left to delete (`GoneIsClean`, since
a step that removes something after the object went would not be one of
`MachineLifecycle`); and an object becomes provisioned in memory only with its instance
(`ProvisionedExists`). `Refinement` then maps each step: a creation to
`CreateInstance`, a part of the patch to `RecordProviderID`, `Provision` or `Release`, the
user's request to `RequestDelete`, the removal of an instance or a disk to
`DestroyInstance` or `DestroyDisk`, and everything else (views, events, restarts,
conditions) to a stutter.

`WakeInv` says, per point of the reconcile, why the key comes back. As long as no event came
since `Take`, the worker's `seen` is what the cache holds (`SeenIsCached`). When the calls are
over without an error or a `RequeueAfter`, one of three reasons holds (`Concluded`): the
machine is complete, it is live and its bootstrap data is still missing (or arrived and
queued it), or it is being deleted and its finalizer may go. The patch stores
this or makes the key come back (`SpecStored`). So a free worker leaves either a finished
machine, or an object that differs from the cache.

### The cluster controller

| Theorem | Assumes | Says |
|---|---|---|
| `TypeCorrectness` | - | `Spec => []TypeOK` |
| `Versions` | - | `[]ClusterInv` |
| `ClusterReadiness` | - | `[]ReleaseInv` |
| `ReleaseTheorem` | `NothingSlow` | `ClusterReleaseIsClean` |
| `Endpoint` | `OneSourceOfAddress` | `[]EndpointInv` |
| `EndpointIsStable` | the same | `EndpointStable` |
| `EndpointHasIp` | the same | `[]EndpointExists` |
| `Attachment` | - | `[](ClusterInv /\ AttachmentInv)` |
| `MovesAreDue` | - | `[]MovesOnlyFromDeleted` |
| `Conclusions` | - | `[]RestInv` |
| `EndpointIsSettled` | - | `[]EndpointAtRest` |
| `AttachmentIsSettled` | - | `[]AttachmentAtRest` |

`OneSourceOfAddress`: not both a user who asks for an address and a floating IP of the
cluster's name that is left over. With both the host is overwritten (`cluster_host`).
`NothingSlow`: no creation of a floating IP is carried out after its call timed out or its
caller crashed. The code does not guarantee it. When `FloatingIpCreate` times out, the deferred patch
still stores the finalizer; when the cluster is then deleted, `FloatingIpDelete` finds nothing;
and a creation that lands after that leaves an IP which nobody looks for. The other
theorems allow late creations. Beyond that, `NoId`, `NoAddress` and `Stranger` are assumed
to differ from real ids and addresses; failing calls, lost replies, partial patches, restarts and
pauses may all happen.

Four invariants about the controller at work, each inductive together with those before
it, and a fifth, `ReleaseInv`, that adds to the first what a release needs:

1. `ClusterInv`: nobody believes in a deletion or an owner that is not there, and the worker
   gives up the finalizer in memory only of an object that it saw being deleted; what has no
   address is held by nobody, and the IP is there while the worker places it. `ReleaseInv`
   adds, for `NothingSlow`: the finalizer is given up only after the floating IP is gone,
   and the IP does not come back, because the worker that would create it is the one that
   releases. The patch is the only step that ends a deletion, hence `ClusterReleaseIsClean`.
2. `EndpointInv`: until a deletion has been seen, the stored host is the address of the
   existing IP. Whoever has a version without the host, the cache or the worker, will find
   the IP and write the same host; if the IP does not exist, everybody has the host
   already, and it is created with that address. A creation that lands late is for the host that its
   caller had, so while the IP does not exist, those under way are for the stored host.
3. `AttachmentInv`: machines own their ids, and lose instances only to deletions; the
   cache is an old version of each machine; and the cache has told whose instance holds the IP
   (`HoldersAreKnown`), because the worker takes every target from it. While the worker
   decides, the IP is where it was read or lost with its instance (`IpIsCurrent`).
   So a holder that is not among the cached machines is not one of the machines at all,
   which is why an old cache does not make `reconcileFloatingIPAttachment` take the IP from a
   healthy one: `MovesOnlyFromDeleted`.
4. `RestInv`: without an event since it began a reconcile works on what the cache holds
   (`SeenIsCached`), so if the cache is up to date the IP ends where it should be (`Placed`,
   `WorkerWillConclude`); parts of the patch that did not fail are stored (`PartsAreStored`),
   and when the cache does not differ after the last part, the stored object is what the
   worker had in memory. A machine's step after which no event is on its way has changed
   nothing that this controller reads (`DeliveredBefore`), and takes the IP only from a
   machine that is being deleted (`MachinePlaced`).

### Two managers

| Theorem | Assumes | Says |
|---|---|---|
| `ManagersTypeCorrect` | - | `Spec => []TypeOK` |
| `BothInOrder` | - | `OrderInv` of both processes, always |
| `Beliefs` | `DistinctNames` | `[]BeliefsInv` |
| `ProvidersAreRealForBoth` | `DistinctNames` | `[]LiveMachineHasInstance` |
| `BothSpareLiveMachines` | `DistinctNames` | `[]SparesLiveMachines` |
| `LeadersWorkAlone` | - | `[]LeaseInv` |
| `NothingIsLostWithALeader` | `LeaderElection` | `[]NoLostWakeup` |
| `LeadersReleaseClean` | `LeaderElection` | `ReleaseIsClean` |

For one process, a step of the two is one of three: a step of its own
(`PA!Next`), one that it does not notice, or one of the other's worker, cache or restart
(`BesideA`); `StepsOfA` and `StepsOfB` say so. For the first kind the step lemmas of
`OxideMachineProofs` and `OxideMachineWakeupProofs` apply as they stand, through an instance of
those modules. For the third there is one more lemma per invariant, under *What a process
does to another one* in `OxideMachineProofs`: what a worker does to the stored objects is
going on from older to newer versions (`LaterObjects`), so that whoever was behind is
behind still (`OrderBeside`).

The first five theorems hold with and without leader election. `ProvidersExist` is not
invariant here: its worker is trusted with whatever it has seen as live, and a process
with an old cache may still take for live what the other one has already deleted, instance
included. `BeliefsInv` has instead `LiveIdsAreReal`, which speaks of machines that *are* live: everyone
who knows a provider id of one knows its instance. A worker that runs a creation against
an instance that exists adopts it, and none removes one of a live machine
(`KeepsLiveIds`), so this survives any interleaving of the two.

The last three need the lease. `LeaseInv` says that a process without it is between two
reconciles with all its keys queued (`Waits`), which is how it starts after it ended. Hence
what the leader believes about a release (`ReadyToRelease`), and its reasons to come back
(`WakeInv`), are touched by no other worker while they matter. Without leader election the first
is false: another process may create an instance anew between the look at the disk and
the patch that releases the object, the mutant of `ReleaseIsClean` in `managers`.

### Names

`ResourceNamesProofs` is about every alphabet, prefix, namespace and name, and every hash.

| Theorem | Assumes | Says |
|---|---|---|
| `ResourceNamesFit` | a hash and its dash are not longer than the limit | no resource name is longer than `maxResourceLength` |
| `NamesAreOwn` | both names fit without truncation, and the namespaces have no dash | objects with one resource name are one object |

The second is `DistinctNames` for the objects it covers; both assumptions are needed:
with a dash in the namespace two names may join alike, and truncated names differ only
in a 32-bit hash. Its proof compares the two names place by place: the first dash after the prefix
is where the namespace ends (`RestType`, `JoinType`), and a name that fits is
what was joined (`FullName`), since neither lower case nor trimming changes it.

### What is not proved

The liveness properties (`DeletionCompletes`, `ProvisioningCompletes`, `AttachmentConverges`,
`ClusterDeletionCompletes`, `TeardownCompletes`) rest on fairness, which is out of the proof
system's reach: they are only model-checked, the two processes' `DeletionCompletes` included.
That the four `violation` runs fail is shown by their counterexamples. `ProviderIDStable` and
`ImplementsLifecycle` are proved of one process and do not hold of two (see *Bounds*). That two names
that were truncated differ would be a statement about the hash, of which nothing is known.

## Findings

1. **An instance may be orphaned** (`machine_orphan`). `Reconcile` adds the
   finalizer in memory (`oxidemachine_controller.go:149`), creates the instance,
   and only then stores the finalizer. An object that is deleted in between
   disappears at once, and its instance and disk stay; a crash before the patch only leaves more
   time for that.
   The end-to-end test states that deletion removes the managed resources.
2. **Data disks are never deleted** (`machine_data_disks`). `handleDelete` deletes
   the instance and the boot disk; the disks of `Spec.DataDisks` outlive the machine.
3. **Two machines may adopt one instance** (`machine_one_name`). Machine `c` of
   namespace `a-b` and machine `b-c` of namespace `a` have one instance name. The
   second creation conflicts, adopts the first one's instance and stores its
   id, which the type calls unique.
4. **The endpoint a user asks for may be overwritten** (`cluster_host`). When a floating
   IP with the cluster's name exists, its address replaces the requested one.

## What is not modelled

- The construction of `InstanceCreateParams`, of the addresses and of the floating
  IP request: data that no property tells apart. Addresses are known or not.
- FNV: the hash is a constant of `ResourceNames`. That two truncated names collide is
  an assignment of names like any other.
- The default port of the endpoint, which is stored with the host, and the cluster's
  Ready condition, which nobody reads. The reasons of conditions: that only a reason
  changes is not a change.
- An OxideCluster or a credentials secret that stays unreadable: then nothing
  progresses, as the code says. Reading them may fail for a while.
- An OxideCluster whose name is not that of its Cluster: the machine controller looks it up
  by the cluster-name label (`oxidemachine_controller.go:119`) and never finds it. Two
  OxideClusters whose names join alike, which share a floating IP as machines share an
  instance.
- Two processes of the cluster controller.
- Detaching, attaching and deleting, stopping and starting that are carried out after
  their call timed out: only creations are. A detach that comes late takes the IP from the machine that has
  it without an event, and the cluster has no endpoint until another reconcile.
- That informers of a process without the lease start only when it is elected: a standby
  of `OxideManagers` may have a filled cache of any age, which allows more than the code does.
- Backoff and `RequeueAfter` delays, and the informers' periodic resync, which is hours
  apart and on which nothing here relies.
- The OxideMachineTemplate type, generated code, charts and tests, and the flags, probes
  and metrics of `main`: no behaviour of their own.

## Plan

Done: `MachineLifecycle`; the machine controller with its properties, inductive invariants,
theorems and the proof of its refinement; the cluster controller with its properties,
unparsable provider ids, teardown, inductive invariants and theorems; two managers with
their theorems; resource names with two theorems.

What could follow: two processes of the cluster controller, which would need
`AttachmentInv` for an IP that another worker moves; `NamesAreOwn` for truncated names whose
hashes are assumed to differ.
