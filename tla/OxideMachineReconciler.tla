---------------------- MODULE OxideMachineReconciler ----------------------
(***************************************************************************)
(* The OxideMachine controller: one worker that takes OxideMachine keys    *)
(* from a workqueue, reads the object from the informer's cache, brings    *)
(* the machine's Oxide instance and boot disk to the desired state with    *)
(* one cloud call per step, and sends what it changed in memory back to    *)
(* the API server when Reconcile returns (the deferred patch, one request  *)
(* each for the conditions, for metadata and spec, and for the status).    *)
(*                                                                         *)
(* Around it are the API server and its cache, the Oxide control plane,    *)
(* the user and Cluster API (owner references, bootstrap data, pausing,    *)
(* deletion), and the faults the code handles: calls that fail, replies    *)
(* that are lost, a crash of the manager at any step.  Faults stop when    *)
(* quiet becomes TRUE; nothing else depends on quiet.                      *)
(*                                                                         *)
(* A definition marked "altered" is not part of the specification: it is a *)
(* plausible mistake in the one after it, and takes its place when the     *)
(* properties are tested against the mistake.                              *)
(***************************************************************************)
EXTENDS FiniteSets

CONSTANTS
    Machines,        \* OxideMachine objects, each known by its namespace and name
    Names,           \* names of instances and of boot disks in the Oxide project
    InstanceName,    \* getInstanceName: the name the reconciler derives for a machine
    InstanceIds,     \* ids the control plane hands out; one creation uses one up
    NoId,            \* the empty provider id, or the id of no instance
    WithDataDisks,   \* machines whose spec asks for data disks
    NoMachine,       \* the worker holds no key
    Faults           \* the kinds of faults that may happen

ASSUME NamesAssumption == InstanceName \in [Machines -> Names]
ASSUME NoIdAssumption == NoId \notin InstanceIds
ASSUME NoMachineAssumption == NoMachine \notin Machines

\* call: a call fails or its reply is lost; restart: the manager stops and starts;
\* pause: the Cluster is paused and unpaused; guest: an instance stops or fails by
\* itself; slow: a creation is carried out after its call timed out; operator: an
\* instance is deleted out of band.
FaultKinds == {"call", "restart", "pause", "guest", "slow", "operator"}
ASSUME FaultsAssumption == Faults \subseteq FaultKinds

Conditions == {"unset", "false", "true"}
Ids == InstanceIds \cup {NoId}

\* An OxideMachine as far as its reconciler reads or writes it.
Object == [life: {"live", "deleting", "gone"},  \* deleting: it has a deletion timestamp
           owned: BOOLEAN,                      \* it has an owner Machine
           paused: Conditions,                  \* the Paused condition
           finalizer: BOOLEAN,                  \* it has the MachineFinalizer
           providerID: Ids,                     \* Spec.ProviderID
           ready: Conditions,                   \* the Ready condition
           provisioned: BOOLEAN,                \* Status.Initialization.Provisioned
           addresses: BOOLEAN]                  \* Status.Addresses is not empty

NewObject == [life |-> "live", owned |-> FALSE, paused |-> "unset", finalizer |-> FALSE,
              providerID |-> NoId, ready |-> "unset", provisioned |-> FALSE,
              addresses |-> FALSE]
\* Its owner may be set when it is created, or later.
NewObjects == {NewObject, [NewObject EXCEPT !.owned = TRUE]}
Tombstone == [NewObject EXCEPT !.life = "gone"]

RunStates == {"starting", "running", "stopping", "stopped", "failed"}
Instance == [id: Ids, state: RunStates \cup {"absent"}]
NoInstance == [id |-> NoId, state |-> "absent"]
DiskStates == {"absent", "attached", "detaching", "detached", "faulted"}

\* Where the worker is: the next cloud call or the next part of the patch.
CloudCalls == {"viewInstance", "createInstance", "adoptInstance", "startInstance",
               "listAddresses", "viewForDelete", "stopInstance", "deleteInstance",
               "viewDisk", "deleteDisk"}
Patches == {"patchConditions", "patchSpec", "patchStatus"}

VARIABLES
    api,            \* the OxideMachine objects the API server stores
    cache,          \* the same objects as the informer last delivered them
    clusterPaused,  \* the owner Cluster is paused
    bootstrapped,   \* machines whose owner Machine names its bootstrap secret
    queue,          \* the workqueue
    pc,             \* what the worker does next
    key,            \* the machine the worker reconciles
    seen,           \* the object as it was when the patch helper was made
    obj,            \* the object as Reconcile has changed it in memory
    target,         \* the id of the instance that the last view or creation returned
    again,          \* Reconcile is to return an error or RequeueAfter
    instance,       \* the instance each name denotes
    bootDisk,       \* the state of the boot disk of each name
    dataDisks,      \* names whose data disks exist
    used,           \* instance ids that were handed out
    late,           \* creations that timed out and may still be carried out
    quiet           \* no more faults

apiVars == <<api, cache, clusterPaused, bootstrapped>>
workerVars == <<pc, key, seen, obj, target, again>>
cloudVars == <<instance, bootDisk, dataDisks, used, late>>
vars == <<apiVars, queue, workerVars, cloudVars, quiet>>

ManagerTypeOK ==
    /\ api \in [Machines -> Object]
    /\ cache \in [Machines -> Object]
    /\ clusterPaused \in BOOLEAN
    /\ bootstrapped \subseteq Machines
    /\ queue \subseteq Machines
    /\ quiet \in BOOLEAN

WorkerTypeOK ==
    /\ pc \in CloudCalls \cup Patches \cup {"idle"}
    /\ key \in Machines \cup {NoMachine}
    /\ (key = NoMachine) <=> (pc = "idle")
    /\ seen \in Object
    /\ obj \in Object
    /\ target \in Ids
    /\ again \in BOOLEAN

CloudTypeOK ==
    /\ instance \in [Names -> Instance]
    /\ bootDisk \in [Names -> DiskStates]
    /\ dataDisks \subseteq Names
    /\ used \subseteq InstanceIds
    /\ late \subseteq Names

TypeOK == ManagerTypeOK /\ WorkerTypeOK /\ CloudTypeOK

\* Altered: events of objects that exist already are filtered out.
ListedNone == {}
\* The keys that the events of the first list put into the queue.
Listed == Machines

Init ==
    /\ api \in [Machines -> NewObjects]
    /\ cache = api
    /\ clusterPaused \in BOOLEAN /\ (clusterPaused => "pause" \in Faults)
    /\ bootstrapped = {}
    /\ queue = Listed
    /\ pc = "idle"
    /\ key = NoMachine
    /\ seen = Tombstone
    /\ obj = Tombstone
    /\ target = NoId
    /\ again = FALSE
    /\ instance = [n \in Names |-> NoInstance]
    /\ bootDisk = [n \in Names |-> "absent"]
    /\ dataDisks = {}
    /\ used = {}
    /\ late = {}
    /\ quiet = FALSE

\* Altered: every object gets the same name.
nameForAll == CHOOSE n \in Names : TRUE
name == InstanceName[key]

Fault(kind) == ~quiet /\ kind \in Faults

-----------------------------------------------------------------------------
(***************************************************************************)
(* The start of Reconcile.  A read that fails before the patch helper      *)
(* exists only puts the key back, which is a stuttering step.              *)
(***************************************************************************)

Take(m) == pc = "idle" /\ m \in queue

\* The object is gone or has no owner Machine yet: nothing to do.
ReconcileSkip(m) ==
    /\ Take(m)
    /\ cache[m].life = "gone" \/ ~cache[m].owned
    /\ queue' = queue \ {m}
    /\ UNCHANGED <<apiVars, workerVars, cloudVars, quiet>>

PausedStatus == IF clusterPaused THEN "true" ELSE "false"

\* EnsurePausedCondition returns early when the cluster is paused, and also when
\* it had to change the condition: the event of its own patch is what brings the
\* key back.  When the patch or its reply is lost, the error does.
EnsurePausedCondition(m) ==
    /\ Take(m)
    /\ cache[m].life # "gone" /\ cache[m].owned
    /\ \/ /\ cache[m].paused = PausedStatus
          /\ clusterPaused
          /\ UNCHANGED api
          /\ queue' = queue \ {m}
       \/ /\ cache[m].paused # PausedStatus
          /\ api[m].life # "gone"
          /\ api' = [api EXCEPT ![m].paused = PausedStatus]
          /\ queue' = queue \ {m} \/ (Fault("call") /\ queue' = queue)
    /\ UNCHANGED <<cache, clusterPaused, bootstrapped, workerVars, cloudVars, quiet>>

\* Altered: a machine whose instance does not run any more is made anew.
FirstCallRemediates(m) ==
    IF cache[m].life = "deleting" \/ (cache[m].provisioned /\ cache[m].ready = "false")
    THEN "viewForDelete"
    ELSE IF cache[m].providerID # NoId THEN "viewInstance"
    ELSE IF m \in bootstrapped THEN "createInstance"
    ELSE "patchConditions"
\* What Reconcile does first: delete, look the instance up, create it, or wait
\* for the bootstrap data.
FirstCall(m) ==
    IF cache[m].life = "deleting" THEN "viewForDelete"
    ELSE IF cache[m].providerID # NoId THEN "viewInstance"
    ELSE IF m \in bootstrapped THEN "createInstance"
    ELSE "patchConditions"

\* Past the paused check the deferred patch is armed with what the cache holds,
\* and a machine that is not being deleted gets its finalizer, in memory.  When
\* the OxideCluster or the credentials cannot be read, Reconcile returns before
\* that; when the bootstrap secret cannot, after it, which is CallFails at
\* createInstance.
Reconcile(m) ==
    /\ Take(m)
    /\ cache[m].life # "gone" /\ cache[m].owned
    /\ ~clusterPaused /\ cache[m].paused = "false"
    /\ queue' = queue \ {m}
    /\ key' = m
    /\ seen' = cache[m]
    /\ \/ /\ pc' = FirstCall(m)
          /\ obj' = CASE FirstCall(m) = "viewForDelete" -> cache[m]
                      [] FirstCall(m) = "patchConditions" ->
                           [cache[m] EXCEPT !.finalizer = TRUE, !.ready = "false"]
                      [] OTHER -> [cache[m] EXCEPT !.finalizer = TRUE]
          /\ again' = FALSE
       \/ /\ Fault("call")
          /\ pc' = "patchConditions"
          /\ obj' = cache[m]
          /\ again' = TRUE
    /\ UNCHANGED <<target, apiVars, cloudVars, quiet>>

\* Reconcile is about to return: o goes to the API server, and the key is to
\* come back if retry.
Return(o, retry) ==
    /\ pc' = "patchConditions"
    /\ obj' = o
    /\ again' = retry
    /\ target' = NoId
    /\ UNCHANGED <<key, seen>>

NotReady == [obj EXCEPT !.ready = "false"]

\* A cloud call that has no effect and returns an error.
CallFails ==
    /\ Fault("call")
    /\ pc \in CloudCalls
    /\ Return(obj, TRUE)
    /\ UNCHANGED <<apiVars, queue, cloudVars, quiet>>

-----------------------------------------------------------------------------
(***************************************************************************)
(* ensureInstance and ensureInstanceRunning.                               *)
(***************************************************************************)

\* Altered: an instance that has stopped is only waited for.
StartableNever == {}
\* The run state in which the reconciler starts an instance.
Startable == {"stopped"}

\* What follows once instance i is known: start it, record that it runs, or wait.
EnsureInstanceRunning(o, i) ==
    \/ /\ i.state \in Startable
       /\ pc' = "startInstance"
       /\ obj' = o
       /\ target' = i.id
       /\ UNCHANGED <<key, seen, again>>
    \/ /\ i.state = "running"
       /\ LET running == [o EXCEPT !.ready = "true", !.provisioned = TRUE]
          IN  \/ o.addresses /\ Return(running, FALSE)
              \/ /\ ~o.addresses
                 /\ pc' = "listAddresses"
                 /\ obj' = running
                 /\ target' = i.id
                 /\ UNCHANGED <<key, seen, again>>
    \/ /\ i.state \in RunStates \ (Startable \cup {"running"})
       /\ Return([o EXCEPT !.ready = "false"], TRUE)

\* The provider id is set: the instance is looked up by its name.
EnsureInstanceView ==
    /\ pc = "viewInstance"
    /\ \/ EnsureInstanceRunning(obj, instance[name])
       \/ instance[name] = NoInstance /\ Return(obj, TRUE)
    /\ UNCHANGED <<apiVars, queue, cloudVars, quiet>>

\* The names a new instance takes are free.
Creatable(n) == instance[n] = NoInstance /\ bootDisk[n] = "absent" /\ n \notin dataDisks

\* The control plane carries out a creation under name n.
Launch(n, id) ==
    /\ Creatable(n)
    /\ id \in InstanceIds \ used
    /\ used' = used \cup {id}
    /\ instance' = [instance EXCEPT ![n] = [id |-> id, state |-> "starting"]]
    /\ bootDisk' = [bootDisk EXCEPT ![n] = "attached"]
    /\ dataDisks' = IF \E m \in WithDataDisks : InstanceName[m] = n
                    THEN dataDisks \cup {n} ELSE dataDisks

\* InstanceCreate: carried out and answered, carried out and the reply lost,
\* refused because a name is taken, or timed out with the creation under way.
EnsureInstanceCreate ==
    /\ pc = "createInstance"
    /\ \/ \E id \in InstanceIds :
            /\ Launch(name, id)
            /\ \/ EnsureInstanceRunning([obj EXCEPT !.providerID = id],
                                        [id |-> id, state |-> "starting"])
               \/ Fault("call") /\ Return(obj, TRUE)
            /\ UNCHANGED late
       \/ /\ ~Creatable(name)
          /\ pc' = "adoptInstance"
          /\ UNCHANGED <<key, seen, obj, target, again, cloudVars>>
       \/ /\ Fault("slow")
          /\ late' = late \cup {name}
          /\ Return(obj, TRUE)
          /\ UNCHANGED <<instance, bootDisk, dataDisks, used>>
    /\ UNCHANGED <<apiVars, queue, quiet>>

\* After a conflict the instance of that name is adopted, whoever created it.
EnsureInstanceAdopt ==
    /\ pc = "adoptInstance"
    /\ \/ EnsureInstanceRunning([obj EXCEPT !.providerID = instance[name].id], instance[name])
       \/ instance[name] = NoInstance /\ Return(obj, TRUE)
    /\ UNCHANGED <<apiVars, queue, cloudVars, quiet>>

\* InstanceStart names the instance by id; it only changes one that is stopped.
InstanceStart ==
    LET startable == {n \in Names : instance[n].id = target /\ instance[n].state = "stopped"}
    IN  /\ pc = "startInstance"
        /\ instance' = [n \in Names |-> IF n \in startable
                                        THEN [instance[n] EXCEPT !.state = "starting"]
                                        ELSE instance[n]]
        /\ \/ Return(NotReady, TRUE) /\ \E n \in Names : instance[n].id = target
           \/ Return(obj, TRUE) /\ (startable # {} => Fault("call"))
        /\ UNCHANGED <<apiVars, queue, bootDisk, dataDisks, used, late, quiet>>

\* The lists of the network interfaces and, with an IP pool, of the external IPs: two
\* calls that only read, one after the other, in one step.
ListAddresses ==
    /\ pc = "listAddresses"
    /\ \/ /\ \E n \in Names : instance[n].id = target
          /\ Return([obj EXCEPT !.addresses = TRUE], FALSE)
       \/ /\ \A n \in Names : instance[n].id # target
          /\ Return(obj, TRUE)
    /\ UNCHANGED <<apiVars, queue, cloudVars, quiet>>

-----------------------------------------------------------------------------
(***************************************************************************)
(* handleDelete: ensureInstanceDeleted, ensureDiskDeleted, and the         *)
(* finalizer.  Ready becomes false once ensureInstanceDeleted returned     *)
(* without an error.                                                       *)
(***************************************************************************)

\* The next step of the deletion, or the end of this round.
GoTo(call, o) == pc' = call /\ obj' = o /\ UNCHANGED <<key, seen, target, again>>

\* Altered: an instance that is not found is an error.
InstanceGoneIsError == Return(obj, TRUE)
\* Whichever call finds that there is no instance, the disk is next.
InstanceGone == GoTo("viewDisk", NotReady)

\* Altered: an instance that has failed is waited for.
DestroyableStoppedOnly == {"stopped"}
\* The run states in which the reconciler deletes an instance.
Destroyable == {"stopped", "failed"}

EnsureInstanceDeleted ==
    /\ pc = "viewForDelete"
    /\ CASE instance[name] = NoInstance -> InstanceGone
         [] instance[name].state = "running" -> GoTo("stopInstance", obj)
         [] instance[name].state \in Destroyable -> GoTo("deleteInstance", obj)
         [] OTHER -> Return(NotReady, TRUE)
    /\ UNCHANGED <<apiVars, queue, cloudVars, quiet>>

\* InstanceStop works on whatever state the instance has come to since the view.
InstanceStop ==
    /\ pc = "stopInstance"
    /\ \/ /\ instance[name] = NoInstance
          /\ InstanceGone
          /\ UNCHANGED instance
       \/ /\ instance[name].state \in {"starting", "running"}
          /\ instance' = [instance EXCEPT ![name].state = "stopping"]
          /\ Return(NotReady, TRUE) \/ (Fault("call") /\ Return(obj, TRUE))
       \/ /\ instance[name].state \in {"stopping", "stopped", "failed"}
          /\ Return(NotReady, TRUE) \/ Return(obj, TRUE)
          /\ UNCHANGED instance
    /\ UNCHANGED <<apiVars, queue, bootDisk, dataDisks, used, late, quiet>>

\* The control plane deletes the instance named n; its boot disk is let go.
Remove(n) ==
    /\ instance' = [instance EXCEPT ![n] = NoInstance]
    /\ bootDisk' = [bootDisk EXCEPT ![n] = IF @ = "attached" THEN "detaching" ELSE @]
    /\ UNCHANGED <<dataDisks, used, late>>

\* InstanceDelete; one that has been started meanwhile is refused.
InstanceDelete ==
    /\ pc = "deleteInstance"
    /\ \/ /\ instance[name] = NoInstance
          /\ InstanceGone
          /\ UNCHANGED cloudVars
       \/ /\ instance[name].state \in {"stopped", "failed"}
          /\ Remove(name)
          /\ Return(NotReady, TRUE) \/ (Fault("call") /\ Return(obj, TRUE))
       \/ /\ instance[name].state \in {"starting", "running", "stopping"}
          /\ Return(obj, TRUE)
          /\ UNCHANGED cloudVars
    /\ UNCHANGED <<apiVars, queue, quiet>>

RemoveFinalizer == Return([obj EXCEPT !.finalizer = FALSE], FALSE)

\* Altered: a disk that is being detached counts as gone.
GoneOnceDetaching == {"absent", "detaching"}
\* What DiskView answers when the disk is gone.
Gone == {"absent"}

EnsureDiskDeleted ==
    /\ pc = "viewDisk"
    /\ CASE bootDisk[name] \in Gone -> RemoveFinalizer
         [] bootDisk[name] \in {"detached", "faulted"} -> GoTo("deleteDisk", obj)
         [] OTHER -> Return(obj, TRUE)
    /\ UNCHANGED <<apiVars, queue, cloudVars, quiet>>

\* DiskDelete; a disk that is attached is refused.
DiskDelete ==
    /\ pc = "deleteDisk"
    /\ \/ /\ bootDisk[name] \in {"absent", "detached", "faulted"}
          /\ bootDisk' = [bootDisk EXCEPT ![name] = "absent"]
          /\ RemoveFinalizer \/ (Fault("call") /\ Return(obj, TRUE))
       \/ /\ bootDisk[name] \in {"attached", "detaching"}
          /\ Return(obj, TRUE)
          /\ UNCHANGED bootDisk
    /\ UNCHANGED <<apiVars, queue, instance, dataDisks, used, late, quiet>>

-----------------------------------------------------------------------------
(***************************************************************************)
(* The deferred patch: three merge patches of the fields that differ       *)
(* between seen and obj.  Metadata, spec and status go to whatever version *)
(* of the object is stored; the conditions only to the cached one.         *)
(***************************************************************************)

\* A field is sent only if Reconcile changed it.
MergeField(before, after, stored) == IF after # before THEN after ELSE stored

\* Altered: the whole object is sent.
MergeAll(part, a) ==
    IF part = "patchSpec" /\ seen.finalizer /\ ~obj.finalizer /\ a.life = "deleting"
    THEN Tombstone
    ELSE [obj EXCEPT !.life = a.life, !.owned = a.owned, !.paused = a.paused]
\* Object a after the fields of part were merged into it.  Taking the last
\* finalizer from an object that is being deleted removes the object.
Merge(part, a) ==
    CASE part = "patchConditions" -> [a EXCEPT !.ready = MergeField(seen.ready, obj.ready, @)]
      [] part = "patchSpec" ->
           IF seen.finalizer /\ ~obj.finalizer /\ a.life = "deleting"
           THEN Tombstone
           ELSE [a EXCEPT
                   !.finalizer = MergeField(seen.finalizer, obj.finalizer, @),
                   !.providerID = MergeField(seen.providerID, obj.providerID, @)]
      [] part = "patchStatus" ->
           [a EXCEPT
              !.provisioned = MergeField(seen.provisioned, obj.provisioned, @),
              !.addresses = MergeField(seen.addresses, obj.addresses, @)]

NothingToMerge(part) ==
    CASE part = "patchConditions" -> obj.ready = seen.ready
      [] part = "patchSpec" ->
           obj.finalizer = seen.finalizer /\ obj.providerID = seen.providerID
      [] part = "patchStatus" ->
           obj.provisioned = seen.provisioned /\ obj.addresses = seen.addresses

\* Altered: the worker forgets to let its key go.
FreeKeepsKey ==
    /\ pc' = "idle"
    /\ seen' = Tombstone /\ obj' = Tombstone
    /\ target' = NoId /\ again' = FALSE /\ UNCHANGED key
\* Reconcile returned: the worker is free.
Free ==
    /\ pc' = "idle" /\ key' = NoMachine
    /\ seen' = Tombstone /\ obj' = Tombstone
    /\ target' = NoId /\ again' = FALSE

\* Altered: an error of the patch is not returned.
AfterPartForgets(failed) ==
    IF pc = "patchStatus"
    THEN /\ Free
         /\ queue' = IF again THEN queue \cup {key} ELSE queue
    ELSE /\ pc' = IF pc = "patchConditions" THEN "patchSpec" ELSE "patchStatus"
         /\ UNCHANGED <<queue, key, seen, obj, target, again>>
\* One part went through or not; a part that failed makes the key come back, and
\* the later parts are sent all the same.
AfterPart(failed) ==
    IF pc = "patchStatus"
    THEN /\ Free
         /\ queue' = IF again \/ failed THEN queue \cup {key} ELSE queue
    ELSE /\ pc' = IF pc = "patchConditions" THEN "patchSpec" ELSE "patchStatus"
         /\ again' = (again \/ failed)
         /\ UNCHANGED <<queue, key, seen, obj, target>>

\* The conditions are merged into the cached object under an optimistic lock: they
\* are refused while the cache is behind, and when the stored condition is neither
\* the one that Reconcile began with nor the one it wants.
Conflict ==
    /\ pc = "patchConditions"
    /\ cache[key] # api[key] \/ api[key].ready \notin {seen.ready, obj.ready}

PatchOxideMachine ==
    /\ pc \in Patches
    /\ \/ NothingToMerge(pc) /\ AfterPart(FALSE) /\ UNCHANGED api
       \/ /\ ~NothingToMerge(pc) /\ api[key].life # "gone" /\ ~Conflict
          /\ api' = [api EXCEPT ![key] = Merge(pc, @)]
          /\ AfterPart(FALSE) \/ (Fault("call") /\ AfterPart(TRUE))
       \/ /\ ~NothingToMerge(pc)
          /\ Fault("call") \/ api[key].life = "gone" \/ Conflict
          /\ AfterPart(TRUE)
          /\ UNCHANGED api
    /\ UNCHANGED <<cache, clusterPaused, bootstrapped, cloudVars, quiet>>

-----------------------------------------------------------------------------
(***************************************************************************)
(* The manager: watch events and restarts.                                 *)
(***************************************************************************)

\* The informer delivers the object's latest version and queues its key.
Sync(m) ==
    /\ cache[m] # api[m]
    /\ cache' = [cache EXCEPT ![m] = api[m]]
    /\ queue' = queue \cup {m}
    /\ UNCHANGED <<api, clusterPaused, bootstrapped, workerVars, cloudVars, quiet>>

\* The manager stops at any step; its successor lists all objects first.
Restart ==
    /\ Fault("restart")
    /\ Free
    /\ cache' = api
    /\ queue' = Listed
    /\ UNCHANGED <<api, clusterPaused, bootstrapped, cloudVars, quiet>>

-----------------------------------------------------------------------------
(***************************************************************************)
(* The user and Cluster API.                                               *)
(***************************************************************************)

SetOwner(m) ==
    /\ api[m].life = "live" /\ ~api[m].owned
    /\ api' = [api EXCEPT ![m].owned = TRUE]
    /\ UNCHANGED <<cache, clusterPaused, bootstrapped, queue, workerVars, cloudVars, quiet>>

\* The owner Machine is told the name of its bootstrap secret; a watch on
\* Machines queues the OxideMachine.
SetBootstrapData(m) ==
    /\ m \notin bootstrapped
    /\ bootstrapped' = bootstrapped \cup {m}
    /\ queue' = queue \cup {m}
    /\ UNCHANGED <<api, cache, clusterPaused, workerVars, cloudVars, quiet>>

\* An object without a finalizer is removed at once.
RequestDelete(m) ==
    /\ api[m].life = "live"
    /\ api' = [api EXCEPT ![m] = IF @.finalizer THEN [@ EXCEPT !.life = "deleting"] ELSE Tombstone]
    /\ UNCHANGED <<cache, clusterPaused, bootstrapped, queue, workerVars, cloudVars, quiet>>

\* Altered: the controller does not watch Clusters.
PauseTransitionIgnored == {}
\* The keys that a pause transition of the Cluster puts into the queue.
PauseTransition == Machines

TogglePause ==
    /\ Fault("pause")
    /\ clusterPaused' = ~clusterPaused
    /\ queue' = queue \cup PauseTransition
    /\ UNCHANGED <<api, cache, bootstrapped, workerVars, cloudVars, quiet>>

-----------------------------------------------------------------------------
(***************************************************************************)
(* The Oxide control plane.                                                *)
(***************************************************************************)

ChangeState(n, from, to) ==
    /\ instance[n].state = from
    /\ instance' = [instance EXCEPT ![n].state = to]
    /\ UNCHANGED <<apiVars, queue, workerVars, bootDisk, dataDisks, used, late, quiet>>

Boots(n) == ChangeState(n, "starting", "running")
Stops(n) == ChangeState(n, "stopping", "stopped")

\* The guest shuts down, the instance fails, or it is restarted after a failure.
StrayTransition(n) ==
    /\ Fault("guest")
    /\ \/ ChangeState(n, "running", "stopped")
       \/ ChangeState(n, "starting", "failed")
       \/ ChangeState(n, "running", "failed")
       \/ ChangeState(n, "failed", "starting")

\* A disk that is being detached ends detached or faulted.
DetachDisk(n) ==
    /\ bootDisk[n] = "detaching"
    /\ \E s \in {"detached", "faulted"} : bootDisk' = [bootDisk EXCEPT ![n] = s]
    /\ UNCHANGED <<apiVars, queue, workerVars, instance, dataDisks, used, late, quiet>>

\* A creation whose call timed out is carried out after all, or given up.
LandCreate(n) ==
    /\ n \in late
    /\ late' = late \ {n}
    /\ \/ \E id \in InstanceIds : Launch(n, id)
       \/ UNCHANGED <<instance, bootDisk, dataDisks, used>>
    /\ UNCHANGED <<apiVars, queue, workerVars, quiet>>

OperatorDeletesInstance(n) ==
    /\ Fault("operator")
    /\ instance[n] # NoInstance
    /\ Remove(n)
    /\ UNCHANGED <<apiVars, queue, workerVars, quiet>>

\* From here on no call fails, nothing crashes, and nobody pauses.
Settle ==
    /\ ~quiet
    /\ quiet' = TRUE
    /\ UNCHANGED <<apiVars, queue, workerVars, cloudVars>>

-----------------------------------------------------------------------------

StartReconcile(m) == ReconcileSkip(m) \/ EnsurePausedCondition(m) \/ Reconcile(m)

WorkerStep ==
    \/ CallFails
    \/ EnsureInstanceView \/ EnsureInstanceCreate \/ EnsureInstanceAdopt
    \/ InstanceStart \/ ListAddresses
    \/ EnsureInstanceDeleted \/ InstanceStop \/ InstanceDelete
    \/ EnsureDiskDeleted \/ DiskDelete
    \/ PatchOxideMachine

ManagerStep == Restart \/ \E m \in Machines : StartReconcile(m) \/ Sync(m)

UserStep ==
    \/ TogglePause
    \/ \E m \in Machines : SetOwner(m) \/ SetBootstrapData(m) \/ RequestDelete(m)

CloudStep ==
    \E n \in Names :
        \/ Boots(n) \/ Stops(n) \/ StrayTransition(n) \/ DetachDisk(n)
        \/ LandCreate(n) \/ OperatorDeletesInstance(n)

Next == WorkerStep \/ ManagerStep \/ UserStep \/ CloudStep \/ Settle

Spec == Init /\ [][Next]_vars

(***************************************************************************)
(* Fairness: the worker runs, the workqueue (first in, first out) serves   *)
(* every key, watch events arrive, the control plane finishes what it is   *)
(* doing, and faults end.  The user owes nothing.                          *)
(***************************************************************************)
Fairness ==
    /\ WF_vars(WorkerStep)
    /\ \A m \in Machines : SF_vars(StartReconcile(m)) /\ WF_vars(Sync(m))
    /\ \A n \in Names : WF_vars(Boots(n)) /\ WF_vars(Stops(n)) /\ WF_vars(DetachDisk(n))
    /\ WF_vars(Settle)

FairSpec == Spec /\ Fairness
==============================================================================
