----------------------- MODULE OxideMachineWakeupProofs -----------------------
(***************************************************************************)
(* No machine is forgotten: NoLostWakeup, for all names and all faults.    *)
(***************************************************************************)
EXTENDS OxideMachineProofs

USE NamesAssumption, NoIdAssumption, NoMachineAssumption

-----------------------------------------------------------------------------
(***************************************************************************)
(* Instances have ids.                                                     *)
(***************************************************************************)

\* An id that is handed out is an id.
LEMMA LaunchHasId ==
    ASSUME TypeOK, InstancesHaveIds, NEW n \in Names, NEW id \in InstanceIds, Launch(n, id)
    PROVE  InstancesHaveIds'
<1>1. /\ instance'[n].id # NoId
      /\ \A x \in Names \ {n} : instance'[x] = instance[x]
  BY DEF Launch, TypeOK, CloudTypeOK
<1> QED
  BY <1>1 DEF InstancesHaveIds

\* What is removed has no state either.
LEMMA RemoveHasId ==
    ASSUME TypeOK, InstancesHaveIds, NEW n \in Names, Remove(n)
    PROVE  InstancesHaveIds'
<1>1. \A x \in Names : instance'[x] = instance[x] \/ instance'[x] = NoInstance
  BY DEF Remove, TypeOK, CloudTypeOK
<1> QED
  BY <1>1, NoInstanceFacts DEF InstancesHaveIds

\* A present instance only changes its state.
LEMMA StateHasId ==
    ASSUME TypeOK, InstancesHaveIds, NEW n \in Names, NEW s, instance[n].state # "absent",
           instance' = [instance EXCEPT ![n].state = s]
    PROVE  InstancesHaveIds'
<1>1. \A x \in Names : \/ instance'[x] = instance[x]
                       \/ x = n /\ instance'[x].id = instance[x].id
  BY DEF TypeOK, CloudTypeOK, Instance
<1> QED
  BY <1>1 DEF InstancesHaveIds

\* The same when the worker starts what has stopped.
LEMMA StartHasId ==
    ASSUME TypeOK, InstancesHaveIds, InstanceStart
    PROVE  InstancesHaveIds'
<1>1. ASSUME NEW x \in Names
      PROVE  \/ instance'[x] = instance[x]
             \/ instance[x].state = "stopped" /\ instance'[x].id = instance[x].id
  BY DEF InstanceStart, TypeOK, CloudTypeOK, Instance
<1> QED
  BY <1>1 DEF InstancesHaveIds

\* Every step keeps the ids.
LEMMA IdsStep ==
    ASSUME TypeOK, InstancesHaveIds, Next
    PROVE  InstancesHaveIds'
<1>1. CASE instance' = instance
  BY <1>1 DEF InstancesHaveIds
<1>2. CASE CallStep
  <2>1. pc # "idle"
    BY <1>2 DEF CallStep, CallFails, CloudCalls, EnsureInstanceView, EnsureInstanceCreate,
                EnsureInstanceAdopt, InstanceStart, ListAddresses, EnsureInstanceDeleted,
                InstanceStop, InstanceDelete, EnsureDiskDeleted, DiskDelete
  <2>2. name \in Names
    BY <2>1, BusyType
  <2>3. CASE EnsureInstanceCreate
    BY <1>1, <2>2, <2>3, LaunchHasId DEF EnsureInstanceCreate, cloudVars
  <2>4. CASE InstanceStart
    BY <2>4, StartHasId
  <2>5. CASE InstanceStop
    BY <1>1, <2>2, <2>5, StateHasId DEF InstanceStop
  <2>6. CASE InstanceDelete
    BY <1>1, <2>2, <2>6, RemoveHasId DEF InstanceDelete, cloudVars
  <2>7. CASE \/ CallFails \/ EnsureInstanceView \/ EnsureInstanceAdopt \/ ListAddresses
             \/ EnsureInstanceDeleted \/ EnsureDiskDeleted \/ DiskDelete
    BY <1>1, <2>7 DEF CallFails, EnsureInstanceView, EnsureInstanceAdopt, ListAddresses,
                      EnsureInstanceDeleted, EnsureDiskDeleted, DiskDelete, cloudVars
  <2> QED
    BY <1>2, <2>3, <2>4, <2>5, <2>6, <2>7 DEF CallStep
<1>3. ASSUME NEW n \in Names,
             \/ Boots(n) \/ Stops(n) \/ StrayTransition(n) \/ DetachDisk(n)
             \/ LandCreate(n) \/ OperatorDeletesInstance(n)
      PROVE  InstancesHaveIds'
  <2>1. CASE Boots(n) \/ Stops(n) \/ StrayTransition(n)
    BY <2>1, StateHasId DEF Boots, Stops, StrayTransition, ChangeState
  <2>2. CASE DetachDisk(n)
    BY <1>1, <2>2 DEF DetachDisk
  <2>3. CASE LandCreate(n)
    BY <1>1, <2>3, LaunchHasId DEF LandCreate
  <2>4. CASE OperatorDeletesInstance(n)
    BY <2>4, RemoveHasId DEF OperatorDeletesInstance
  <2> QED
    BY <1>3, <2>1, <2>2, <2>3, <2>4
<1>4. CASE Elsewhere
  BY <1>1, <1>4, ElsewhereEffect DEF cloudVars
<1> QED
  BY <1>2, <1>3, <1>4, StepKinds DEF CloudStep

-----------------------------------------------------------------------------
(***************************************************************************)
(* What the worker concludes.                                              *)
(***************************************************************************)

\* What a cloud call leaves alone.
LEMMA CallFrame ==
    ASSUME CallStep
    PROVE  /\ pc # "idle" /\ pc' # "idle" /\ pc' # "patchStatus"
           /\ UNCHANGED <<api, cache, clusterPaused, bootstrapped, queue, key, seen>>
<1>1. CASE CallFails \/ ListAddresses \/ EnsureInstanceView \/ EnsureInstanceAdopt
  BY <1>1 DEF CallFails, ListAddresses, EnsureInstanceView, EnsureInstanceAdopt, Return,
              EnsureInstanceRunning, CloudCalls, apiVars
<1>2. CASE EnsureInstanceCreate
  BY <1>2 DEF EnsureInstanceCreate, Return, EnsureInstanceRunning, apiVars
<1>3. CASE InstanceStart
  BY <1>3 DEF InstanceStart, Return, apiVars
<1>4. CASE EnsureInstanceDeleted \/ InstanceStop \/ InstanceDelete
  BY <1>4 DEF EnsureInstanceDeleted, InstanceStop, InstanceDelete, InstanceGone, Return, GoTo,
              apiVars
<1>5. CASE EnsureDiskDeleted \/ DiskDelete
  BY <1>5 DEF EnsureDiskDeleted, DiskDelete, RemoveFinalizer, Return, GoTo, apiVars
<1> QED
  BY <1>1, <1>2, <1>3, <1>4, <1>5 DEF CallStep

\* A reconcile that gives up, or goes on with the deletion, owes nothing yet.
LEMMA LaterConcludes ==
    ASSUME \/ pc' = "patchConditions" /\ again'
           \/ pc' \in {"adoptInstance", "stopInstance", "deleteInstance", "viewDisk", "deleteDisk"}
    PROVE  WorkerWillConclude'
BY DEF WorkerWillConclude, Patches

\* Once the instance of a live machine with a provider id is known: it is to be called
\* again, or there is another call, or the machine has all that it needs.
LEMMA RunningConcludes ==
    ASSUME NEW o \in Object, NEW i \in Instance, o.providerID # NoId, seen.life = "live",
           UNCHANGED <<key, seen, bootstrapped, queue>>, EnsureInstanceRunning(o, i)
    PROVE  WorkerWillConclude'
<1>1. CASE pc' = "startInstance" /\ obj' = o
  BY <1>1 DEF WorkerWillConclude, Patches
<1>2. CASE pc' = "listAddresses" /\ obj'.providerID = o.providerID /\ obj'.provisioned
  BY <1>2 DEF WorkerWillConclude, Patches
<1>3. CASE /\ pc' = "patchConditions" /\ ~again' /\ obj'.addresses
           /\ obj'.providerID = o.providerID /\ obj'.provisioned
  BY <1>3 DEF WorkerWillConclude, Concluded
<1>4. CASE pc' = "patchConditions" /\ again'
  BY <1>4, LaterConcludes
<1> QED
  BY <1>1, <1>2, <1>3, <1>4, RunningOutcome

\* The calls.
LEMMA CallConcludes ==
    ASSUME OrderInv, InstancesHaveIds, WorkerWillConclude, CallStep
    PROVE  WorkerWillConclude'
<1>1. /\ pc # "idle" /\ UNCHANGED <<key, seen, bootstrapped, queue>>
  BY CallFrame
<1>2. /\ name \in Names /\ obj \in Object /\ seen \in Object
      /\ instance[name] \in Instance /\ WorkerIsConsistent
  BY <1>1, OrderFacts DEF OrderInv, TypeOK, CloudTypeOK
<1>3. ASSUME NEW o, Return(o, TRUE) PROVE WorkerWillConclude'
  BY <1>3, LaterConcludes DEF Return
<1>4. CASE CallFails
  BY <1>3, <1>4 DEF CallFails
<1>5. CASE EnsureInstanceView
  <2>1. seen.life = "live" /\ obj.providerID # NoId
    BY <1>1, <1>2, <1>5 DEF EnsureInstanceView, WorkerIsConsistent, WorkerWillConclude
  <2> QED
    BY <1>1, <1>2, <1>3, <1>5, <2>1, RunningConcludes DEF EnsureInstanceView
<1>6. CASE EnsureInstanceCreate
  <2>1. seen.life = "live"
    BY <1>1, <1>2, <1>6 DEF EnsureInstanceCreate, WorkerIsConsistent
  <2>2. ASSUME NEW id \in InstanceIds,
               EnsureInstanceRunning([obj EXCEPT !.providerID = id],
                                     [id |-> id, state |-> "starting"])
        PROVE  WorkerWillConclude'
    <3> DEFINE o == [obj EXCEPT !.providerID = id]
               i == [id |-> id, state |-> "starting"]
    <3>1. o \in Object /\ o.providerID # NoId /\ i \in Instance
      BY <1>2 DEF Object, Ids, Instance, RunStates
    <3>2. EnsureInstanceRunning(o, i)
      BY <2>2
    <3> HIDE DEF o, i
    <3> QED
      BY <1>1, <2>1, <3>1, <3>2, RunningConcludes
  <2>3. CASE pc' = "adoptInstance"
    BY <2>3, LaterConcludes
  <2> QED
    BY <1>3, <1>6, <2>2, <2>3 DEF EnsureInstanceCreate
<1>7. CASE EnsureInstanceAdopt
  <2>1. seen.life = "live"
    BY <1>1, <1>2, <1>7 DEF EnsureInstanceAdopt, WorkerIsConsistent
  <2>2. CASE EnsureInstanceRunning([obj EXCEPT !.providerID = instance[name].id], instance[name])
    <3> DEFINE o == [obj EXCEPT !.providerID = instance[name].id]
    <3>1. instance[name].state # "absent"
      BY <1>2, <2>2 DEF EnsureInstanceRunning, Startable, RunStates
    <3>2. instance[name].id # NoId
      BY <1>2, <3>1 DEF InstancesHaveIds
    <3>3. o \in Object /\ o.providerID # NoId
      BY <1>2, <3>2 DEF Object, Instance
    <3>4. EnsureInstanceRunning(o, instance[name])
      BY <2>2
    <3> HIDE DEF o
    <3> QED
      BY <1>1, <1>2, <2>1, <3>3, <3>4, RunningConcludes
  <2> QED
    BY <1>3, <1>7, <2>2 DEF EnsureInstanceAdopt
<1>8. CASE InstanceStart
  BY <1>3, <1>8 DEF InstanceStart
<1>9. CASE ListAddresses
  <2> DEFINE o == [obj EXCEPT !.addresses = TRUE]
  <2>1. /\ seen.life = "live" /\ obj.providerID # NoId /\ obj.provisioned
    BY <1>1, <1>2, <1>9 DEF ListAddresses, WorkerIsConsistent, WorkerWillConclude
  <2>2. o.providerID # NoId /\ o.provisioned /\ o.addresses
    BY <1>2, <2>1 DEF Object
  <2>3. Return(o, FALSE) \/ Return(obj, TRUE)
    BY <1>9 DEF ListAddresses
  <2> HIDE DEF o
  <2>4. CASE Return(o, FALSE)
    BY <1>1, <2>1, <2>2, <2>4 DEF Return, WorkerWillConclude, Concluded
  <2> QED
    BY <1>3, <2>3, <2>4
<1>10. CASE EnsureInstanceDeleted \/ InstanceStop \/ InstanceDelete
  <2>1. \/ Return(obj, TRUE) \/ Return(NotReady, TRUE)
        \/ pc' \in {"stopInstance", "deleteInstance", "viewDisk"}
    BY <1>10 DEF EnsureInstanceDeleted, InstanceStop, InstanceDelete, InstanceGone, GoTo
  <2> QED
    BY <1>3, <2>1, LaterConcludes
<1>11. CASE EnsureDiskDeleted \/ DiskDelete
  <2> DEFINE o == [obj EXCEPT !.finalizer = FALSE]
  <2>1. seen.life = "deleting" /\ ~o.finalizer
    BY <1>1, <1>2, <1>11 DEF EnsureDiskDeleted, DiskDelete, WorkerIsConsistent, Object
  <2>2. Return(o, FALSE) \/ Return(obj, TRUE) \/ pc' = "deleteDisk"
    BY <1>11 DEF EnsureDiskDeleted, DiskDelete, RemoveFinalizer, GoTo
  <2> HIDE DEF o
  <2>3. CASE Return(o, FALSE)
    BY <1>1, <2>1, <2>3 DEF Return, WorkerWillConclude, Concluded
  <2> QED
    BY <1>3, <2>2, <2>3, LaterConcludes
<1> QED
  BY <1>4, <1>5, <1>6, <1>7, <1>8, <1>9, <1>10, <1>11 DEF CallStep

\* What a part of the patch that went through does.
PartStored ==
    \/ NothingToMerge(pc) /\ api' = api
    \/ api[key].life # "gone" /\ api' = [api EXCEPT ![key] = Merge(pc, @)]

\* The patch ends in these two ways, part by part.
LEMMA PatchOutcome ==
    ASSUME PatchOxideMachine
    PROVE  /\ pc \in Patches /\ pc # "idle"
           /\ UNCHANGED <<cache, clusterPaused, bootstrapped>>
           /\ \E f \in BOOLEAN : AfterPart(f) /\ (~f => PartStored)
           /\ api' = api \/ (api[key].life # "gone" /\ api' = [api EXCEPT ![key] = Merge(pc, @)])
BY DEF PatchOxideMachine, PartStored, Patches

\* Metadata and spec that went through are stored.
LEMMA SpecIsStored ==
    ASSUME OrderInv, pc = "patchSpec", PartStored
    PROVE  /\ seen.life = "deleting" /\ ~obj.finalizer => api'[key].life = "gone"
           /\ seen.life = "live" /\ obj.providerID # NoId
                => api'[key].providerID # NoId \/ api'[key].life = "gone"
<1>1. /\ pc # "idle" /\ key \in Machines /\ obj \in Object /\ seen \in Object
      /\ api[key] \in Object /\ Precedes(seen, api[key]) /\ WellFormed(seen)
      /\ api \in [Machines -> Object]
  BY OrderFacts DEF OrderInv, TypeOK, ManagerTypeOK, WorkerIsConsistent
<1>2. CASE NothingToMerge(pc) /\ api' = api
  <2>1. obj.finalizer = seen.finalizer /\ obj.providerID = seen.providerID
    BY <1>2 DEF NothingToMerge
  <2>2. seen.life = "deleting" => obj.finalizer
    BY <1>1, <2>1 DEF WellFormed
  <2>3. seen.providerID # NoId => api[key].providerID # NoId \/ api[key].life = "gone"
    BY <1>1 DEF Precedes
  <2> QED
    BY <1>2, <2>1, <2>2, <2>3
<1>3. CASE api[key].life # "gone" /\ api' = [api EXCEPT ![key] = Merge(pc, @)]
  <2> DEFINE b == Merge("patchSpec", api[key])
  <2>1. api'[key] = b
    BY <1>1, <1>3
  <2>2. CASE seen.finalizer /\ ~obj.finalizer /\ api[key].life = "deleting"
    BY <2>1, <2>2, TombstoneFacts DEF Merge
  <2>3. CASE ~(seen.finalizer /\ ~obj.finalizer /\ api[key].life = "deleting")
    <3>1. ~(seen.life = "deleting" /\ ~obj.finalizer)
      BY <1>1, <1>3, <2>3 DEF WellFormed, Precedes, Object
    <3>2. b.providerID = IF obj.providerID # seen.providerID THEN obj.providerID
                         ELSE api[key].providerID
      BY <1>1, <2>3 DEF Merge, MergeField, Object
    <3>3. seen.providerID # NoId => api[key].providerID # NoId
      BY <1>1, <1>3 DEF Precedes
    <3> HIDE DEF b
    <3> QED
      BY <2>1, <3>1, <3>2, <3>3
  <2> QED
    BY <2>2, <2>3
<1> QED
  BY <1>2, <1>3 DEF PartStored

\* The patch.
LEMMA PatchConcludes ==
    ASSUME OrderInv, WorkerWillConclude, PatchOxideMachine
    PROVE  WorkerWillConclude'
<1>1. pc \in Patches /\ pc # "idle" /\ bootstrapped' = bootstrapped
  BY PatchOutcome
<1>2. PICK f \in BOOLEAN : AfterPart(f) /\ (~f => PartStored)
  BY PatchOutcome
<1>3. CASE pc = "patchStatus"
  BY <1>2, <1>3 DEF AfterPart, Free, WorkerWillConclude
<1>4. CASE pc # "patchStatus"
  <2>1. /\ pc' = IF pc = "patchConditions" THEN "patchSpec" ELSE "patchStatus"
        /\ again' = (again \/ f) /\ UNCHANGED <<queue, key, seen, obj>>
    BY <1>2, <1>4 DEF AfterPart
  <2>2. ~again' => Concluded'
    BY <1>1, <2>1 DEF WorkerWillConclude, Concluded
  <2>3. pc' = "patchStatus" /\ ~again' => SpecStored'
    <3> SUFFICES ASSUME pc' = "patchStatus", ~again' PROVE SpecStored'
      OBVIOUS
    <3>1. pc = "patchSpec" /\ ~f
      BY <1>1, <1>4, <2>1 DEF Patches
    <3> QED
      BY <1>2, <2>1, <3>1, SpecIsStored DEF SpecStored
  <2> QED
    BY <1>1, <2>1, <2>2, <2>3 DEF WorkerWillConclude, Patches
<1> QED
  BY <1>3, <1>4

\* The start.
LEMMA ReconcileConcludes ==
    ASSUME OrderInv, NEW m \in Machines, Reconcile(m)
    PROVE  WorkerWillConclude'
<1>1. cache[m] \in Object /\ cache[m].life # "gone"
  BY DEF OrderInv, TypeOK, ManagerTypeOK, Reconcile
<1>2. key' = m /\ seen' = cache[m] /\ bootstrapped' = bootstrapped
  BY DEF Reconcile, apiVars
<1>3. CASE pc' = "patchConditions" /\ again'
  BY <1>3, LaterConcludes
<1>4. CASE /\ pc' = FirstCall(m)
           /\ obj' = CASE FirstCall(m) = "viewForDelete" -> cache[m]
                       [] FirstCall(m) = "patchConditions" ->
                            [cache[m] EXCEPT !.finalizer = TRUE, !.ready = "false"]
                       [] OTHER -> [cache[m] EXCEPT !.finalizer = TRUE]
  <2>1. CASE FirstCall(m) \in {"viewForDelete", "createInstance"}
    BY <1>4, <2>1 DEF WorkerWillConclude, Patches
  <2>2. CASE FirstCall(m) = "viewInstance"
    <3>1. cache[m].providerID # NoId
      BY <2>2 DEF FirstCall
    <3>2. obj'.providerID # NoId
      BY <1>1, <1>4, <2>2, <3>1 DEF Object
    <3> QED
      BY <1>4, <2>2, <3>2 DEF WorkerWillConclude, Patches
  <2>3. CASE FirstCall(m) = "patchConditions"
    <3>1. m \notin bootstrapped /\ cache[m].life = "live"
      BY <1>1, <2>3 DEF FirstCall, Object
    <3> QED
      BY <1>2, <1>4, <2>3, <3>1 DEF WorkerWillConclude, Concluded
  <2> QED
    BY <2>1, <2>2, <2>3 DEF FirstCall
<1> QED
  BY <1>3, <1>4 DEF Reconcile

\* Events and the others leave the worker alone and take no key from the queue of a worker
\* that is busy; a machine that gets its bootstrap data is queued; objects only progress.
LEMMA EventConcludes ==
    ASSUME OrderInv, WorkerWillConclude, UNCHANGED workerVars,
           pc # "idle" => /\ queue \subseteq queue'
                          /\ bootstrapped' \subseteq bootstrapped \cup queue'
                          /\ api'[key].life = "gone" \/
                               /\ api[key].life # "gone"
                               /\ api'[key].providerID = api[key].providerID
    PROVE  WorkerWillConclude'
<1>1. CASE pc = "idle"
  BY <1>1 DEF WorkerWillConclude, workerVars
<1>2. CASE pc # "idle"
  <2>1. UNCHANGED <<pc, key, seen, obj, again>>
    BY DEF workerVars
  <2>2. Concluded => Concluded'
    BY <1>2, <2>1 DEF Concluded
  <2>3. SpecStored => SpecStored'
    BY <1>2, <2>1 DEF SpecStored
  <2> QED
    BY <1>2, <2>1, <2>2, <2>3 DEF WorkerWillConclude
<1> QED
  BY <1>1, <1>2

\* What the user and Cluster API do to an object in the meantime.
LEMMA UserObjects ==
    ASSUME OrderInv, NEW m \in Machines, SetOwner(m) \/ RequestDelete(m), NEW x \in Machines
    PROVE  \/ api'[x].life = "gone"
           \/ api[x].life # "gone" /\ api'[x].providerID = api[x].providerID
           \/ api'[x] = api[x]
<1>1. api[m] \in Object /\ api \in [Machines -> Object]
  BY DEF OrderInv, TypeOK, ManagerTypeOK
<1>2. CASE SetOwner(m)
  BY <1>1, <1>2 DEF SetOwner, Object
<1>3. CASE RequestDelete(m)
  <2> DEFINE b == [api[m] EXCEPT !.life = "deleting"]
  <2>1. b.providerID = api[m].providerID
    BY <1>1 DEF Object
  <2>2. api[m].life = "live" /\ api' = [api EXCEPT ![m] = IF api[m].finalizer THEN b ELSE Tombstone]
    BY <1>3 DEF RequestDelete
  <2> HIDE DEF b
  <2> QED
    BY <1>1, <2>1, <2>2, TombstoneFacts
<1> QED
  BY <1>2, <1>3

\* Every step keeps what the worker is to conclude.
LEMMA ConcludeStep ==
    ASSUME OrderInv, InstancesHaveIds, WorkerWillConclude, Next
    PROVE  WorkerWillConclude'
<1>1. CASE CallStep
  BY <1>1, CallConcludes
<1>2. CASE PatchOxideMachine
  BY <1>2, PatchConcludes
<1>3. CASE Restart
  BY <1>3 DEF Restart, Free, WorkerWillConclude
<1>4. ASSUME NEW m \in Machines, Reconcile(m) PROVE WorkerWillConclude'
  BY <1>4, ReconcileConcludes
<1>5. CASE CloudStep \/ TogglePause \/ Settle \/ \E m \in Machines : Sync(m) \/ SetBootstrapData(m)
  <2>1. /\ UNCHANGED workerVars /\ api' = api /\ queue \subseteq queue'
        /\ bootstrapped' \subseteq bootstrapped \cup queue'
    BY <1>5 DEF CloudStep, Boots, Stops, StrayTransition, ChangeState, DetachDisk, LandCreate,
                OperatorDeletesInstance, TogglePause, Settle, Sync, SetBootstrapData, apiVars
  <2>2. api'[key].life = "gone" \/ (api[key].life # "gone" /\ api'[key].providerID = api[key].providerID)
    BY <2>1
  <2> QED
    BY <2>1, <2>2, EventConcludes
<1>6. ASSUME NEW m \in Machines, ReconcileSkip(m) \/ EnsurePausedCondition(m)
      PROVE  WorkerWillConclude'
  BY <1>6 DEF ReconcileSkip, EnsurePausedCondition, Take, workerVars, WorkerWillConclude
<1>7. ASSUME NEW m \in Machines, SetOwner(m) \/ RequestDelete(m)
      PROVE  WorkerWillConclude'
  <2>1. UNCHANGED <<workerVars, queue, bootstrapped>>
    BY <1>7 DEF SetOwner, RequestDelete
  <2>2. pc # "idle" => key \in Machines
    BY OrderFacts
  <2>3. pc # "idle" => \/ api'[key].life = "gone"
                       \/ api[key].life # "gone" /\ api'[key].providerID = api[key].providerID
    BY <1>7, <2>2, UserObjects
  <2> QED
    BY <2>1, <2>3, EventConcludes
<1> QED
  BY <1>1, <1>2, <1>3, <1>4, <1>5, <1>6, <1>7, StepKinds DEF Elsewhere, StartReconcile

-----------------------------------------------------------------------------
(***************************************************************************)
(* Events.                                                                 *)
(***************************************************************************)

\* Only Take removes a key from the queue, and an event that changes the cache adds it.
LEMMA SeenStep ==
    ASSUME OrderInv, SeenIsCached, Next
    PROVE  SeenIsCached'
<1>1. CASE CallStep
  BY <1>1, CallFrame DEF SeenIsCached
<1>2. CASE PatchOxideMachine
  <2>1. PICK f \in BOOLEAN : AfterPart(f)
    BY <1>2, PatchOutcome
  <2>2. pc' = "idle" \/ UNCHANGED <<queue, key, seen>>
    BY <2>1 DEF AfterPart, Free
  <2> QED
    BY <1>2, <2>2, PatchOutcome DEF SeenIsCached
<1>3. CASE Restart
  BY <1>3 DEF Restart, Free, SeenIsCached
<1>4. ASSUME NEW m \in Machines, Reconcile(m) PROVE SeenIsCached'
  BY <1>4 DEF Reconcile, apiVars, SeenIsCached
<1>5. ASSUME NEW m \in Machines, Sync(m) PROVE SeenIsCached'
  <2>1. UNCHANGED <<pc, key, seen>> /\ queue' = queue \cup {m} /\ cache' = [cache EXCEPT ![m] = api[m]]
    BY <1>5 DEF Sync, workerVars
  <2>2. key # m => cache'[key] = cache[key]
    BY <2>1 DEF OrderInv, TypeOK, ManagerTypeOK
  <2> QED
    BY <2>1, <2>2 DEF SeenIsCached
<1>6. CASE CloudStep \/ TogglePause \/ Settle
  <2>1. UNCHANGED <<cache, pc, key, seen>> /\ queue \subseteq queue'
    BY <1>6 DEF CloudStep, Boots, Stops, StrayTransition, ChangeState, DetachDisk, LandCreate,
                OperatorDeletesInstance, TogglePause, Settle, apiVars, workerVars
  <2> QED
    BY <2>1 DEF SeenIsCached
<1>7. ASSUME NEW m \in Machines, SetBootstrapData(m) \/ SetOwner(m) \/ RequestDelete(m)
      PROVE  SeenIsCached'
  <2>1. UNCHANGED <<cache, pc, key, seen>> /\ queue \subseteq queue'
    BY <1>7 DEF SetBootstrapData, SetOwner, RequestDelete, workerVars
  <2> QED
    BY <2>1 DEF SeenIsCached
<1>8. ASSUME NEW m \in Machines, ReconcileSkip(m) \/ EnsurePausedCondition(m)
      PROVE  SeenIsCached'
  BY <1>8 DEF ReconcileSkip, EnsurePausedCondition, Take, workerVars, SeenIsCached
<1> QED
  BY <1>1, <1>2, <1>3, <1>4, <1>5, <1>6, <1>7, <1>8, StepKinds DEF Elsewhere, StartReconcile

\* A worker that ends without an error and without an event has finished its machine.
LEMMA EndIsFinished ==
    ASSUME OrderInv, SeenIsCached, WorkerWillConclude, PatchOxideMachine, pc = "patchStatus",
           NEW m \in Machines, m = key, m \notin queue', cache'[m] = api'[m]
    PROVE  ~Unfinished(m)'
<1>0. ASSUME api'[m].life = "deleting" \/ (api'[m].life = "live" /\ m \in bootstrapped)
      PROVE  api'[m].providerID # NoId /\ api'[m].provisioned /\ api'[m].addresses
             /\ api'[m].life = "live"
  <2>1. /\ key \in Machines /\ obj \in Object /\ seen \in Object /\ api[key] \in Object
        /\ api \in [Machines -> Object]
    BY OrderFacts DEF OrderInv, TypeOK, ManagerTypeOK
  <2>2. PICK f \in BOOLEAN : AfterPart(f) /\ (~f => PartStored)
    BY PatchOutcome
  <2>3. queue' = (IF again \/ f THEN queue \cup {key} ELSE queue)
    BY <2>2 DEF AfterPart
  <2>4. ~again /\ PartStored /\ key \notin queue /\ pc # "idle"
    BY <2>2, <2>3
  <2>5. api'[key] = seen
    BY <2>4, PatchOutcome DEF SeenIsCached
  <2>6. Concluded /\ SpecStored
    BY <2>4 DEF WorkerWillConclude, Patches
  <2>7. /\ api'[key].life = api[key].life /\ api'[key].providerID = api[key].providerID
        /\ obj.provisioned = api'[key].provisioned \/ obj.provisioned = seen.provisioned
        /\ obj.addresses = api'[key].addresses \/ obj.addresses = seen.addresses
    <3> DEFINE b == Merge("patchStatus", api[key])
    <3>1. /\ b.life = api[key].life /\ b.providerID = api[key].providerID
          /\ obj.provisioned = b.provisioned \/ obj.provisioned = seen.provisioned
          /\ obj.addresses = b.addresses \/ obj.addresses = seen.addresses
      BY <2>1 DEF Merge, MergeField, Object
    <3>2. \/ api' = api /\ obj.provisioned = seen.provisioned /\ obj.addresses = seen.addresses
          \/ api' = [api EXCEPT ![key] = b]
      BY <2>4 DEF PartStored, NothingToMerge
    <3> HIDE DEF b
    <3> QED
      BY <2>1, <3>1, <3>2
  <2>8. seen.life = "live" /\ obj.providerID # NoId /\ obj.provisioned /\ obj.addresses
    <3>1. ~(seen.life = "deleting" /\ ~obj.finalizer)
      BY <1>0, <2>5, <2>6, <2>7 DEF SpecStored
    <3>2. ~(seen.life = "live" /\ (key \in bootstrapped => key \in queue))
      BY <1>0, <2>4, <2>5
    <3> QED
      BY <2>6, <3>1, <3>2 DEF Concluded
  <2>9. api'[key].provisioned /\ api'[key].addresses /\ api'[key].life = "live"
    BY <2>5, <2>7, <2>8
  <2>10. api'[key].providerID # NoId
    BY <2>6, <2>7, <2>8, <2>9 DEF SpecStored
  <2> QED
    BY <2>9, <2>10
<1>1. bootstrapped' = bootstrapped
  BY PatchOutcome
<1> QED
  BY <1>0, <1>1 DEF Unfinished

\* What a machine that nobody touches needs for its wakeup not to be lost.
LEMMA WakeupFrame ==
    ASSUME NoLostWakeup, NEW m \in Machines,
           api'[m] = api[m], cache'[m] = cache[m], clusterPaused' = clusterPaused,
           m \in bootstrapped' => m \in bootstrapped, m \in queue => m \in queue',
           key = m => key' = m, Unfinished(m)'
    PROVE  m \in queue' \/ key' = m \/ cache'[m] # api'[m]
BY DEF NoLostWakeup, Unfinished

\* Every step keeps unfinished machines from being forgotten.
LEMMA WakeupStep ==
    ASSUME OrderInv, SeenIsCached, WorkerWillConclude, NoLostWakeup, Next
    PROVE  NoLostWakeup'
<1> SUFFICES ASSUME NEW x \in Machines, Unfinished(x)'
             PROVE  x \in queue' \/ key' = x \/ cache'[x] # api'[x]
  BY DEF NoLostWakeup
<1>1. /\ api \in [Machines -> Object] /\ cache \in [Machines -> Object]
      /\ Precedes(cache[x], api[x])
  BY DEF OrderInv, TypeOK, ManagerTypeOK, ObjectsAreOrdered
<1>2. CASE CallStep
  BY <1>2, CallFrame, WakeupFrame
<1>3. CASE PatchOxideMachine
  <2>1. UNCHANGED <<cache, clusterPaused, bootstrapped>>
    BY <1>3, PatchOutcome
  <2>2. PICK f \in BOOLEAN : AfterPart(f)
    BY <1>3, PatchOutcome
  <2>3. CASE x # key
    <3>1. api'[x] = api[x]
      BY <1>1, <1>3, <2>3, PatchOutcome
    <3>2. queue \subseteq queue'
      BY <2>2 DEF AfterPart
    <3> QED
      BY <2>1, <2>3, <3>1, <3>2, WakeupFrame
  <2>4. CASE x = key /\ pc # "patchStatus"
    BY <2>2, <2>4 DEF AfterPart
  <2>5. CASE x = key /\ pc = "patchStatus"
    BY <1>3, <2>5, EndIsFinished
  <2> QED
    BY <2>3, <2>4, <2>5
<1>4. CASE Restart
  BY <1>4 DEF Restart, Listed
<1>5. CASE TogglePause
  BY <1>5 DEF TogglePause, PauseTransition
<1>6. CASE CloudStep \/ Settle
  <2>1. UNCHANGED <<api, cache, clusterPaused, bootstrapped, queue, key>>
    BY <1>6 DEF CloudStep, Boots, Stops, StrayTransition, ChangeState, DetachDisk, LandCreate,
                OperatorDeletesInstance, Settle, apiVars, workerVars
  <2> QED
    BY <2>1, WakeupFrame
<1>7. ASSUME NEW m \in Machines, ReconcileSkip(m)
      PROVE  x \in queue' \/ key' = x \/ cache'[x] # api'[x]
  <2>1. /\ UNCHANGED <<api, cache, clusterPaused, bootstrapped, key>> /\ queue' = queue \ {m}
        /\ cache[m].life = "gone" \/ ~cache[m].owned
    BY <1>7 DEF ReconcileSkip, apiVars, workerVars
  <2>2. CASE x = m
    BY <2>1, <2>2 DEF Unfinished
  <2>3. CASE x # m
    BY <2>1, <2>3, WakeupFrame
  <2> QED
    BY <2>2, <2>3
<1>8. ASSUME NEW m \in Machines, EnsurePausedCondition(m)
      PROVE  x \in queue' \/ key' = x \/ cache'[x] # api'[x]
  <2>1. /\ UNCHANGED <<cache, clusterPaused, bootstrapped, key>> /\ queue \ {m} \subseteq queue'
    BY <1>8 DEF EnsurePausedCondition, workerVars
  <2>2. CASE x = m
    <3>1. ~clusterPaused
      BY <2>1, <2>2 DEF Unfinished
    <3>2. cache[m].paused # PausedStatus /\ api' = [api EXCEPT ![m].paused = PausedStatus]
      BY <1>8, <3>1 DEF EnsurePausedCondition
    <3>3. api'[m].paused = PausedStatus
      BY <1>1, <3>2 DEF Object
    <3> QED
      BY <2>1, <2>2, <3>2, <3>3
  <2>3. CASE x # m
    <3>1. api'[x] = api[x]
      BY <1>1, <1>8, <2>3 DEF EnsurePausedCondition
    <3> QED
      BY <2>1, <2>3, <3>1, WakeupFrame
  <2> QED
    BY <2>2, <2>3
<1>9. ASSUME NEW m \in Machines, Reconcile(m)
      PROVE  x \in queue' \/ key' = x \/ cache'[x] # api'[x]
  <2>1. /\ UNCHANGED <<api, cache, clusterPaused, bootstrapped>> /\ queue' = queue \ {m}
        /\ key' = m /\ pc = "idle"
    BY <1>9 DEF Reconcile, Take, apiVars
  <2>2. key # x
    BY <2>1 DEF OrderInv, TypeOK, WorkerTypeOK
  <2> QED
    BY <2>1, <2>2, WakeupFrame
<1>10. ASSUME NEW m \in Machines, Sync(m)
       PROVE  x \in queue' \/ key' = x \/ cache'[x] # api'[x]
  <2>1. /\ UNCHANGED <<api, clusterPaused, bootstrapped, key>> /\ queue' = queue \cup {m}
        /\ x # m => cache'[x] = cache[x]
    BY <1>1, <1>10 DEF Sync, workerVars
  <2> QED
    BY <2>1, WakeupFrame
<1>11. ASSUME NEW m \in Machines, SetBootstrapData(m)
       PROVE  x \in queue' \/ key' = x \/ cache'[x] # api'[x]
  <2>1. /\ UNCHANGED <<api, cache, clusterPaused, key>> /\ queue' = queue \cup {m}
        /\ bootstrapped' = bootstrapped \cup {m}
    BY <1>11 DEF SetBootstrapData, workerVars
  <2> QED
    BY <2>1, WakeupFrame
<1>12. ASSUME NEW m \in Machines, SetOwner(m) \/ RequestDelete(m)
       PROVE  x \in queue' \/ key' = x \/ cache'[x] # api'[x]
  <2>1. UNCHANGED <<cache, clusterPaused, bootstrapped, queue, key>> /\ api[m].life = "live"
    BY <1>12 DEF SetOwner, RequestDelete, workerVars
  <2>2. CASE x # m
    <3>1. api'[x] = api[x]
      BY <1>1, <1>12, <2>2 DEF SetOwner, RequestDelete
    <3> QED
      BY <2>1, <2>2, <3>1, WakeupFrame
  <2>3. CASE x = m /\ SetOwner(m)
    <3>1. api'[m].owned /\ ~api[m].owned
      BY <1>1, <2>3 DEF SetOwner, Object
    <3> QED
      BY <1>1, <2>1, <2>3, <3>1 DEF Precedes
  <2>4. CASE x = m /\ RequestDelete(m)
    <3>1. api'[m].life # "live"
      BY <1>1, <2>4, TombstoneFacts DEF RequestDelete, Object
    <3>2. cache[m].life = "live"
      BY <1>1, <2>1, <2>4 DEF Precedes, Object
    <3> QED
      BY <2>1, <2>4, <3>1, <3>2
  <2> QED
    BY <1>12, <2>2, <2>3, <2>4
<1> QED
  BY <1>2, <1>3, <1>4, <1>5, <1>6, <1>7, <1>8, <1>9, <1>10, <1>11, <1>12, StepKinds
     DEF Elsewhere, StartReconcile

\* The initial states.
LEMMA InitWake == Init => WakeInv
BY NoInstanceFacts DEF Init, Listed, WakeInv, NoLostWakeup, SeenIsCached, WorkerWillConclude,
                       InstancesHaveIds

\* Every step.
LEMMA WakeStep == ASSUME OrderInv, WakeInv, Next PROVE WakeInv'
BY WakeupStep, SeenStep, ConcludeStep, IdsStep DEF WakeInv, OrderInv

\* A step that changes no variable.
LEMMA StutterWake == ASSUME WakeInv, UNCHANGED vars PROVE WakeInv'
<1>1. UNCHANGED <<api, cache, clusterPaused, bootstrapped, queue, pc, key, seen, obj, again, instance>>
  BY DEF vars, apiVars, workerVars, cloudVars
<1>2. NoLostWakeup'
  BY <1>1 DEF WakeInv, NoLostWakeup, Unfinished
<1>3. SeenIsCached' /\ InstancesHaveIds'
  BY <1>1 DEF WakeInv, SeenIsCached, InstancesHaveIds
<1>4. WorkerWillConclude'
  BY <1>1 DEF WakeInv, WorkerWillConclude, Concluded, SpecStored
<1> QED
  BY <1>2, <1>3, <1>4 DEF WakeInv

(***************************************************************************)
(* A worker between Take and the end of its patch knows what its reconcile *)
(* will be done with, unless it is to be called again, or an event has     *)
(* queued its machine since.                                               *)
(***************************************************************************)
THEOREM Wakefulness == Spec => []WakeInv
<1>1. Init => WakeInv
  BY InitWake
<1>2. OrderInv /\ WakeInv /\ [Next]_vars => WakeInv'
  BY WakeStep, StutterWake
<1> QED
  BY <1>1, <1>2, Order, PTL DEF Spec

(***************************************************************************)
(* A machine that still has to be deleted or to be provisioned is queued,  *)
(* being reconciled, or an event for it is on its way: whatever the names  *)
(* are, and whatever calls, patches and instances failed.                  *)
(***************************************************************************)
THEOREM NoMachineIsForgotten == Spec => []NoLostWakeup
<1>1. WakeInv => NoLostWakeup
  BY DEF WakeInv
<1> QED
  BY <1>1, Wakefulness, PTL
==============================================================================
