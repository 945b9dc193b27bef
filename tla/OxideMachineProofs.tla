-------------------------- MODULE OxideMachineProofs --------------------------
(***************************************************************************)
(* Proofs about the OxideMachine controller for every set of machines,     *)
(* names and instance ids, and for every assignment of names.              *)
(***************************************************************************)
EXTENDS OxideMachineProperties, TLAPS

USE NamesAssumption, NoIdAssumption, NoMachineAssumption

-----------------------------------------------------------------------------
(***************************************************************************)
(* Type correctness.                                                       *)
(***************************************************************************)

\* The objects that exist at first, and the absent object, are well typed.
LEMMA InitialObjects == NewObjects \subseteq Object /\ Tombstone \in Object
<1>1. NewObject \in Object
  BY DEF NewObject, Object, Conditions, Ids
<1>2. [NewObject EXCEPT !.owned = TRUE] \in Object
  BY <1>1 DEF Object
<1>3. [NewObject EXCEPT !.life = "gone"] \in Object
  BY <1>1 DEF Object
<1> QED
  BY <1>1, <1>2, <1>3 DEF NewObjects, Tombstone

\* The initial states are well typed.
LEMMA InitType == Init => TypeOK
<1> SUFFICES ASSUME Init PROVE TypeOK
  OBVIOUS
<1>1. NoInstance \in Instance
  BY DEF NoInstance, Instance, Ids
<1>2. ManagerTypeOK
  BY InitialObjects DEF Init, Listed, ManagerTypeOK
<1>3. WorkerTypeOK
  BY InitialObjects DEF Init, WorkerTypeOK, Ids
<1>4. CloudTypeOK
  BY <1>1 DEF Init, CloudTypeOK, DiskStates
<1> QED
  BY <1>2, <1>3, <1>4 DEF TypeOK

\* What a step leaves alone keeps its type.
LEMMA FrameType ==
    ASSUME TypeOK
    PROVE  /\ UNCHANGED <<apiVars, queue, quiet>> => ManagerTypeOK'
           /\ UNCHANGED workerVars => WorkerTypeOK'
           /\ UNCHANGED cloudVars => CloudTypeOK'
BY DEF TypeOK, ManagerTypeOK, WorkerTypeOK, CloudTypeOK, apiVars, workerVars, cloudVars

\* A worker between Take and Free holds a machine and an object of the right types.
LEMMA BusyType ==
    ASSUME TypeOK, pc # "idle"
    PROVE  key \in Machines /\ name \in Names /\ obj \in Object /\ seen \in Object
BY DEF TypeOK, WorkerTypeOK, name

\* The updates of the object in memory.
LEMMA UpdateType ==
    ASSUME NEW o \in Object, NEW i \in Ids
    PROVE  /\ [o EXCEPT !.ready = "false"] \in Object
           /\ [o EXCEPT !.ready = "true", !.provisioned = TRUE] \in Object
           /\ [o EXCEPT !.providerID = i] \in Object
           /\ [o EXCEPT !.finalizer = TRUE] \in Object
           /\ [o EXCEPT !.finalizer = FALSE] \in Object
           /\ [o EXCEPT !.finalizer = TRUE, !.ready = "false"] \in Object
           /\ [o EXCEPT !.addresses = TRUE] \in Object
           /\ [o EXCEPT !.owned = TRUE] \in Object
           /\ [o EXCEPT !.life = "deleting"] \in Object
           /\ \A s \in Conditions : [o EXCEPT !.paused = s] \in Object
BY DEF Object, Conditions

\* The three ways a step of the worker ends.
LEMMA ReturnType ==
    ASSUME TypeOK, pc # "idle", NEW o \in Object, NEW r \in BOOLEAN, Return(o, r)
    PROVE  WorkerTypeOK'
BY DEF TypeOK, WorkerTypeOK, Return, Patches, Ids

\* Going on to the next cloud call of a deletion keeps the worker well typed.
LEMMA GoToType ==
    ASSUME TypeOK, pc # "idle", NEW o \in Object, NEW c \in CloudCalls, GoTo(c, o)
    PROVE  WorkerTypeOK'
BY DEF TypeOK, WorkerTypeOK, GoTo, CloudCalls

\* So does what follows once the instance of a machine is known.
LEMMA RunningType ==
    ASSUME TypeOK, pc # "idle", NEW o \in Object, NEW i \in Instance,
           EnsureInstanceRunning(o, i)
    PROVE  WorkerTypeOK'
<1>1. i.id \in Ids
  BY DEF Instance
<1>2. CASE i.state \in Startable
  BY <1>1, <1>2, ReturnType, UpdateType
     DEF EnsureInstanceRunning, TypeOK, WorkerTypeOK, CloudCalls, Startable, Ids
<1>3. CASE i.state = "running"
  BY <1>1, <1>3, ReturnType, UpdateType
     DEF EnsureInstanceRunning, TypeOK, WorkerTypeOK, CloudCalls, Startable, Ids
<1>4. CASE i.state \notin Startable \cup {"running"}
  BY <1>4, ReturnType, UpdateType DEF EnsureInstanceRunning, Ids
<1> QED
  BY <1>2, <1>3, <1>4

\* The steps of the worker between Take and the patch.
LEMMA CallType ==
    ASSUME TypeOK,
           \/ CallFails \/ EnsureInstanceView \/ EnsureInstanceCreate \/ EnsureInstanceAdopt
           \/ InstanceStart \/ ListAddresses \/ EnsureInstanceDeleted \/ InstanceStop
           \/ InstanceDelete \/ EnsureDiskDeleted \/ DiskDelete
    PROVE  WorkerTypeOK'
<1>1. pc # "idle"
  BY DEF CallFails, CloudCalls, EnsureInstanceView, EnsureInstanceCreate, EnsureInstanceAdopt,
         InstanceStart, ListAddresses, EnsureInstanceDeleted, InstanceStop, InstanceDelete,
         EnsureDiskDeleted, DiskDelete
<1>2. /\ key \in Machines /\ name \in Names /\ obj \in Object /\ NotReady \in Object
      /\ [obj EXCEPT !.addresses = TRUE] \in Object
      /\ [obj EXCEPT !.finalizer = FALSE] \in Object
  BY <1>1, BusyType, UpdateType DEF NotReady, Ids
<1>3. instance[name] \in Instance /\ instance[name].id \in Ids
  BY <1>2 DEF TypeOK, CloudTypeOK, Instance
<1>4. CASE CallFails
  BY <1>1, <1>2, <1>4, ReturnType DEF CallFails
<1>5. CASE EnsureInstanceView
  BY <1>1, <1>2, <1>3, <1>5, ReturnType, RunningType DEF EnsureInstanceView
<1>6. CASE EnsureInstanceCreate
  <2>1. ASSUME NEW id \in InstanceIds
        PROVE  /\ [obj EXCEPT !.providerID = id] \in Object
               /\ [id |-> id, state |-> "starting"] \in Instance
    BY <1>2, UpdateType DEF Ids, Instance, RunStates
  <2>2. CASE \E id \in InstanceIds :
               EnsureInstanceRunning([obj EXCEPT !.providerID = id],
                                     [id |-> id, state |-> "starting"])
    BY <1>1, <2>1, <2>2, RunningType
  <2>3. CASE Return(obj, TRUE)
    BY <1>1, <1>2, <2>3, ReturnType
  <2>4. CASE pc' = "adoptInstance" /\ UNCHANGED <<key, seen, obj, target, again, cloudVars>>
    BY <1>1, <2>4 DEF TypeOK, WorkerTypeOK, CloudCalls
  <2> QED
    BY <1>6, <2>2, <2>3, <2>4 DEF EnsureInstanceCreate
<1>7. CASE EnsureInstanceAdopt
  <2>1. [obj EXCEPT !.providerID = instance[name].id] \in Object
    BY <1>2, <1>3, UpdateType
  <2> QED
    BY <1>1, <1>2, <1>3, <1>7, <2>1, ReturnType, RunningType DEF EnsureInstanceAdopt
<1>8. CASE InstanceStart
  BY <1>1, <1>2, <1>8, ReturnType DEF InstanceStart
<1>9. CASE ListAddresses
  BY <1>1, <1>2, <1>9, ReturnType DEF ListAddresses
<1>10. CASE EnsureInstanceDeleted
  BY <1>1, <1>2, <1>10, ReturnType, GoToType DEF EnsureInstanceDeleted, InstanceGone, CloudCalls
<1>11. CASE InstanceStop
  BY <1>1, <1>2, <1>11, ReturnType, GoToType DEF InstanceStop, InstanceGone, CloudCalls
<1>12. CASE InstanceDelete
  BY <1>1, <1>2, <1>12, ReturnType, GoToType DEF InstanceDelete, InstanceGone, CloudCalls
<1>13. CASE EnsureDiskDeleted
  BY <1>1, <1>2, <1>13, ReturnType, GoToType DEF EnsureDiskDeleted, RemoveFinalizer, CloudCalls
<1>14. CASE DiskDelete
  BY <1>1, <1>2, <1>14, ReturnType DEF DiskDelete, RemoveFinalizer
<1> QED
  BY <1>4, <1>5, <1>6, <1>7, <1>8, <1>9, <1>10, <1>11, <1>12, <1>13, <1>14

\* The cloud's variables are changed by the worker, the control plane and operators.
LEMMA CloudType ==
    ASSUME TypeOK,
           \/ EnsureInstanceCreate \/ InstanceStart \/ InstanceStop \/ InstanceDelete
           \/ DiskDelete \/ CloudStep
    PROVE  CloudTypeOK'
<1>1. NoInstance \in Instance
  BY DEF NoInstance, Instance, Ids
<1>2. ASSUME pc # "idle" PROVE key \in Machines /\ name \in Names
  BY <1>2, BusyType
<1>3. ASSUME NEW n \in Names, NEW id \in InstanceIds, Launch(n, id)
      PROVE  /\ instance' \in [Names -> Instance] /\ bootDisk' \in [Names -> DiskStates]
             /\ dataDisks' \subseteq Names /\ used' \subseteq InstanceIds
  <2>1. [id |-> id, state |-> "starting"] \in Instance
    BY DEF Instance, Ids, RunStates
  <2> QED
    BY <1>3, <2>1 DEF Launch, TypeOK, CloudTypeOK, DiskStates
<1>4. ASSUME NEW n \in Names, NEW from \in RunStates, NEW to \in RunStates,
             ChangeState(n, from, to)
      PROVE  CloudTypeOK'
  BY <1>4 DEF ChangeState, TypeOK, CloudTypeOK, Instance
<1>5. ASSUME NEW n \in Names, Remove(n) PROVE CloudTypeOK'
  BY <1>1, <1>5 DEF Remove, TypeOK, CloudTypeOK, DiskStates
<1>6. CASE EnsureInstanceCreate
  <2>1. pc # "idle"
    BY <1>6 DEF EnsureInstanceCreate
  <2> QED
    BY <1>2, <1>3, <1>6, <2>1 DEF EnsureInstanceCreate, TypeOK, CloudTypeOK, cloudVars
<1>7. CASE InstanceStart
  BY <1>7 DEF InstanceStart, TypeOK, CloudTypeOK, Instance, RunStates
<1>8. CASE InstanceStop
  <2>1. name \in Names
    BY <1>2, <1>8 DEF InstanceStop
  <2>2. [instance[name] EXCEPT !.state = "stopping"] \in Instance
    BY <2>1 DEF TypeOK, CloudTypeOK, Instance, RunStates
  <2>3. instance' \in [Names -> Instance]
    <3>1. instance' = [instance EXCEPT ![name].state = "stopping"] \/ instance' = instance
      BY <1>8 DEF InstanceStop
    <3> QED
      BY <2>1, <2>2, <3>1 DEF TypeOK, CloudTypeOK
  <2> QED
    BY <1>8, <2>3 DEF InstanceStop, TypeOK, CloudTypeOK
<1>9. CASE InstanceDelete
  BY <1>2, <1>5, <1>9, FrameType DEF InstanceDelete
<1>10. CASE DiskDelete
  <2>1. name \in Names
    BY <1>2, <1>10 DEF DiskDelete
  <2>2. bootDisk' = [bootDisk EXCEPT ![name] = "absent"] \/ bootDisk' = bootDisk
    BY <1>10 DEF DiskDelete
  <2>3. bootDisk' \in [Names -> DiskStates]
    BY <2>1, <2>2 DEF TypeOK, CloudTypeOK, DiskStates
  <2> QED
    BY <1>10, <2>3 DEF DiskDelete, TypeOK, CloudTypeOK
<1>11. CASE CloudStep
  <2> PICK n \in Names : \/ Boots(n) \/ Stops(n) \/ StrayTransition(n) \/ DetachDisk(n)
                         \/ LandCreate(n) \/ OperatorDeletesInstance(n)
    BY <1>11 DEF CloudStep
  <2>1. CASE Boots(n) \/ Stops(n) \/ StrayTransition(n)
    BY <1>4, <2>1 DEF Boots, Stops, StrayTransition, RunStates
  <2>2. CASE DetachDisk(n)
    BY <2>2 DEF DetachDisk, TypeOK, CloudTypeOK, DiskStates
  <2>3. CASE LandCreate(n)
    BY <1>3, <2>3 DEF LandCreate, TypeOK, CloudTypeOK
  <2>4. CASE OperatorDeletesInstance(n)
    BY <1>5, <2>4 DEF OperatorDeletesInstance
  <2> QED
    BY <2>1, <2>2, <2>3, <2>4
<1> QED
  BY <1>6, <1>7, <1>8, <1>9, <1>10, <1>11

\* Every part of the deferred patch makes an object of an object.
LEMMA MergeType ==
    ASSUME TypeOK, pc # "idle", NEW part \in Patches, NEW a \in Object
    PROVE  Merge(part, a) \in Object
<1>1. obj \in Object
  BY BusyType
<1>2. CASE part = "patchConditions"
  BY <1>1, <1>2 DEF Merge, MergeField, Object, Conditions
<1>3. CASE part = "patchSpec"
  BY <1>1, <1>3, InitialObjects DEF Merge, MergeField, Object
<1>4. CASE part = "patchStatus"
  BY <1>1, <1>4 DEF Merge, MergeField, Object
<1> QED
  BY <1>2, <1>3, <1>4 DEF Patches

\* A worker that is free is well typed.
LEMMA FreeType == ASSUME TypeOK, Free PROVE WorkerTypeOK'
BY InitialObjects DEF Free, WorkerTypeOK, Ids

\* After a part of the patch the worker and the queue are well typed.
LEMMA AfterPartType ==
    ASSUME TypeOK, pc \in Patches, NEW f \in BOOLEAN, AfterPart(f)
    PROVE  WorkerTypeOK' /\ queue' \subseteq Machines
<1>1. key \in Machines /\ queue \subseteq Machines
  BY BusyType DEF Patches, TypeOK, ManagerTypeOK
<1>2. CASE pc = "patchStatus"
  BY <1>1, <1>2, FreeType DEF AfterPart
<1>3. CASE pc # "patchStatus"
  BY <1>1, <1>3 DEF AfterPart, TypeOK, WorkerTypeOK, Patches
<1> QED
  BY <1>2, <1>3

\* A request of the deferred patch keeps worker, objects and queue well typed.
LEMMA PatchType ==
    ASSUME TypeOK, PatchOxideMachine
    PROVE  WorkerTypeOK' /\ ManagerTypeOK'
<1>1. pc \in Patches /\ pc # "idle" /\ key \in Machines
  BY BusyType DEF PatchOxideMachine, Patches
<1>2. Merge(pc, api[key]) \in Object
  BY <1>1, MergeType DEF TypeOK, ManagerTypeOK
<1>3. api' \in [Machines -> Object]
  BY <1>1, <1>2 DEF PatchOxideMachine, TypeOK, ManagerTypeOK
<1>4. WorkerTypeOK' /\ queue' \subseteq Machines
  BY <1>1, AfterPartType DEF PatchOxideMachine
<1> QED
  BY <1>3, <1>4 DEF PatchOxideMachine, TypeOK, ManagerTypeOK

\* The start of Reconcile leaves the worker well typed.
LEMMA ReconcileType ==
    ASSUME TypeOK, NEW m \in Machines, Reconcile(m)
    PROVE  WorkerTypeOK'
<1>1. cache[m] \in Object
  BY DEF TypeOK, ManagerTypeOK
<1>2. FirstCall(m) \in CloudCalls \cup Patches
  BY DEF FirstCall, CloudCalls, Patches
<1>3. obj' \in Object
  BY <1>1, UpdateType DEF Reconcile, Ids
<1> QED
  BY <1>1, <1>2, <1>3 DEF Reconcile, TypeOK, WorkerTypeOK, Patches, CloudCalls

\* The steps that change the objects, their cached copies or the queue.
LEMMA ManagerType ==
    ASSUME TypeOK,
           NEW m \in Machines,
           \/ ReconcileSkip(m) \/ EnsurePausedCondition(m) \/ Reconcile(m) \/ Sync(m)
           \/ SetOwner(m) \/ SetBootstrapData(m) \/ RequestDelete(m)
    PROVE  ManagerTypeOK'
<1>1. /\ [api[m] EXCEPT !.owned = TRUE] \in Object
      /\ [api[m] EXCEPT !.life = "deleting"] \in Object
      /\ \A s \in Conditions : [api[m] EXCEPT !.paused = s] \in Object
      /\ Tombstone \in Object
  BY UpdateType, InitialObjects DEF TypeOK, ManagerTypeOK, Ids
<1>2. CASE EnsurePausedCondition(m)
  BY <1>1, <1>2 DEF EnsurePausedCondition, TypeOK, ManagerTypeOK, PausedStatus, Conditions
<1>3. CASE SetOwner(m)
  BY <1>1, <1>3 DEF SetOwner, TypeOK, ManagerTypeOK
<1>4. CASE RequestDelete(m)
  BY <1>1, <1>4 DEF RequestDelete, TypeOK, ManagerTypeOK
<1>5. CASE ReconcileSkip(m) \/ Reconcile(m)
  BY <1>5 DEF ReconcileSkip, Reconcile, TypeOK, ManagerTypeOK, apiVars
<1>6. CASE Sync(m) \/ SetBootstrapData(m)
  BY <1>6 DEF Sync, SetBootstrapData, TypeOK, ManagerTypeOK
<1> QED
  BY <1>2, <1>3, <1>4, <1>5, <1>6

\* Every step preserves TypeOK.
LEMMA NextType == TypeOK /\ [Next]_vars => TypeOK'
<1> SUFFICES ASSUME TypeOK, [Next]_vars PROVE TypeOK'
  OBVIOUS
<1>1. CASE UNCHANGED vars
  BY <1>1, FrameType DEF TypeOK, vars
<1>2. CASE WorkerStep
  <2>1. CASE PatchOxideMachine
    BY <2>1, PatchType, FrameType DEF PatchOxideMachine, TypeOK
  <2>2. CASE \/ CallFails \/ EnsureInstanceView \/ EnsureInstanceAdopt \/ ListAddresses
             \/ EnsureInstanceDeleted \/ EnsureDiskDeleted
    BY <2>2, CallType, FrameType
       DEF CallFails, EnsureInstanceView, EnsureInstanceAdopt, ListAddresses,
           EnsureInstanceDeleted, EnsureDiskDeleted, TypeOK
  <2>3. CASE \/ EnsureInstanceCreate \/ InstanceStart \/ InstanceStop \/ InstanceDelete
             \/ DiskDelete
    BY <2>3, CallType, CloudType, FrameType
       DEF EnsureInstanceCreate, InstanceStart, InstanceStop, InstanceDelete, DiskDelete, TypeOK
  <2> QED
    BY <1>2, <2>1, <2>2, <2>3 DEF WorkerStep
<1>3. CASE ManagerStep
  <2>1. CASE Restart
    <3>1. ManagerTypeOK'
      BY <2>1 DEF Restart, Listed, TypeOK, ManagerTypeOK
    <3> QED
      BY <2>1, <3>1, FreeType, FrameType DEF Restart, TypeOK
  <2>2. ASSUME NEW m \in Machines, StartReconcile(m) \/ Sync(m) PROVE TypeOK'
    BY <2>2, ManagerType, ReconcileType, FrameType
       DEF StartReconcile, ReconcileSkip, EnsurePausedCondition, Reconcile, Sync, TypeOK
  <2> QED
    BY <1>3, <2>1, <2>2 DEF ManagerStep
<1>4. CASE UserStep
  <2>1. CASE TogglePause
    <3>1. ManagerTypeOK'
      BY <2>1 DEF TogglePause, PauseTransition, TypeOK, ManagerTypeOK
    <3> QED
      BY <2>1, <3>1, FrameType DEF TogglePause, TypeOK
  <2>2. ASSUME NEW m \in Machines, SetOwner(m) \/ SetBootstrapData(m) \/ RequestDelete(m)
        PROVE  TypeOK'
    BY <2>2, ManagerType, FrameType DEF SetOwner, SetBootstrapData, RequestDelete, TypeOK
  <2> QED
    BY <1>4, <2>1, <2>2 DEF UserStep
<1>5. CASE CloudStep
  <2>1. UNCHANGED <<apiVars, queue, quiet>> /\ UNCHANGED workerVars
    BY <1>5 DEF CloudStep, Boots, Stops, StrayTransition, ChangeState, DetachDisk, LandCreate,
                OperatorDeletesInstance
  <2> QED
    BY <1>5, <2>1, CloudType, FrameType DEF TypeOK
<1>6. CASE Settle
  <2>1. ManagerTypeOK'
    BY <1>6 DEF Settle, TypeOK, ManagerTypeOK, apiVars
  <2> QED
    BY <1>6, <2>1, FrameType DEF Settle, TypeOK
<1> QED
  BY <1>1, <1>2, <1>3, <1>4, <1>5, <1>6 DEF Next

(***************************************************************************)
(* The state of the objects, of the worker and of the cloud is always what *)
(* the declarations of the code's types and the cloud's states allow.      *)
(***************************************************************************)
THEOREM TypeCorrect == Spec => []TypeOK
<1>1. Init => TypeOK
  BY InitType
<1>2. TypeOK /\ [Next]_vars => TypeOK'
  BY NextType
<1> QED
  BY <1>1, <1>2, PTL DEF Spec

-----------------------------------------------------------------------------
(***************************************************************************)
(* The inductive invariant.                                                *)
(***************************************************************************)

\* Nobody but the reconciler deletes instances or creates them late.
Undisturbed == "slow" \notin Faults /\ "operator" \notin Faults

\* No two machines have namespaces and names that give the same resource names.
DistinctNames ==
    \A m1, m2 \in Machines : InstanceName[m1] = InstanceName[m2] => m1 = m2

\* What a new object and an absent one have in their fields.
LEMMA TombstoneFacts ==
    /\ Tombstone.life = "gone" /\ Tombstone.providerID = NoId /\ ~Tombstone.finalizer
    /\ \A o \in NewObjects : o.life = "live" /\ o.providerID = NoId /\ ~o.finalizer
<1>1. NewObject.life = "live" /\ NewObject.providerID = NoId /\ ~NewObject.finalizer
  BY DEF NewObject
<1>2. NewObject \in Object
  BY DEF NewObject, Object, Conditions, Ids
<1> DEFINE ownedObject == [NewObject EXCEPT !.owned = TRUE]
<1>3. ownedObject.life = "live" /\ ownedObject.providerID = NoId /\ ~ownedObject.finalizer
  BY <1>1, <1>2 DEF Object
<1>4. Tombstone.life = "gone" /\ Tombstone.providerID = NoId /\ ~Tombstone.finalizer
  BY <1>1, <1>2 DEF Tombstone, Object
<1>5. NewObjects = {NewObject, ownedObject}
  BY DEF NewObjects
<1> HIDE DEF ownedObject
<1> QED
  BY <1>1, <1>3, <1>4, <1>5

\* An object is an earlier version of itself.
LEMMA PrecedesReflexive == ASSUME NEW o PROVE Precedes(o, o)
BY DEF Precedes

\* An earlier version of an earlier version is an earlier version.
LEMMA PrecedesTransitive ==
    ASSUME NEW o \in Object, NEW c \in Object, NEW a \in Object,
           Precedes(o, c), Precedes(c, a)
    PROVE  Precedes(o, a)
BY DEF Precedes, Object

\* The initial states satisfy the invariant.
LEMMA InitIndInv == Init => IndInv
<1> SUFFICES ASSUME Init PROVE IndInv
  OBVIOUS
<1>1. TypeOK
  BY InitType
<1>2. \A m \in Machines : api[m] \in NewObjects /\ cache[m] = api[m]
  BY DEF Init
<1>3. ObjectsAreOrdered
  BY <1>2, TombstoneFacts, PrecedesReflexive DEF ObjectsAreOrdered, WellFormed
<1>4. pc = "idle"
  BY DEF Init
<1>5. WorkerIsConsistent /\ ReadyToRelease
  BY <1>4 DEF WorkerIsConsistent, ReadyToRelease, Patches, CloudCalls
<1>6. ProvidersExist
  BY <1>2, <1>4, TombstoneFacts DEF ProvidersExist
<1>7. NothingLate
  BY DEF Init, NothingLate
<1> QED
  BY <1>1, <1>3, <1>5, <1>6, <1>7 DEF IndInv

\* What the order says of the worker's machine, spelled out.
LEMMA OrderFacts ==
    ASSUME OrderInv, pc # "idle"
    PROVE  /\ key \in Machines /\ name \in Names
           /\ obj \in Object /\ seen \in Object
           /\ api[key] \in Object /\ cache[key] \in Object
           /\ Precedes(seen, api[key])
<1>1. key \in Machines /\ name \in Names /\ obj \in Object /\ seen \in Object
  BY BusyType DEF OrderInv
<1>2. Precedes(seen, api[key])
  BY <1>1, PrecedesTransitive
     DEF OrderInv, ObjectsAreOrdered, WorkerIsConsistent, TypeOK, ManagerTypeOK
<1> QED
  BY <1>1, <1>2 DEF OrderInv, TypeOK, ManagerTypeOK

\* A part of the deferred patch leads to a later version of the stored object,
\* with the finalizer if it has the provider id.
LEMMA MergeOrder ==
    ASSUME OrderInv, pc \in Patches, api[key].life # "gone"
    PROVE  /\ WellFormed(Merge(pc, api[key]))
           /\ Precedes(api[key], Merge(pc, api[key]))
<1> DEFINE a == api[key]
<1>1. /\ a \in Object /\ obj \in Object /\ seen \in Object
      /\ WellFormed(a) /\ Precedes(seen, a)
      /\ WorkerIsConsistent /\ pc # "idle"
  BY OrderFacts DEF OrderInv, ObjectsAreOrdered, Patches
<1>2. CASE pc = "patchConditions"
  BY <1>1, <1>2 DEF Merge, MergeField, WellFormed, Precedes, Object
<1>3. CASE pc = "patchSpec"
  <2>1. CASE seen.finalizer /\ ~obj.finalizer /\ a.life = "deleting"
    BY <1>3, <2>1, TombstoneFacts DEF Merge, MergeField, WellFormed, Precedes
  <2>2. CASE ~(seen.finalizer /\ ~obj.finalizer /\ a.life = "deleting")
    <3> DEFINE b == Merge("patchSpec", a)
    <3>1. /\ b.life = a.life
          /\ b.finalizer = (IF obj.finalizer # seen.finalizer THEN obj.finalizer
                            ELSE a.finalizer)
          /\ b.providerID = (IF obj.providerID # seen.providerID THEN obj.providerID
                             ELSE a.providerID)
      BY <1>1, <2>2 DEF Merge, MergeField, Object
    <3>2. seen.finalizer /\ ~obj.finalizer => FALSE
      BY <1>1, <2>2 DEF WorkerIsConsistent, Precedes, Object
    <3>3. a.finalizer => b.finalizer
      BY <1>1, <3>1, <3>2 DEF Object
    <3>4. obj.providerID # seen.providerID => b.finalizer
      BY <1>1, <3>1 DEF WorkerIsConsistent, Precedes, Object
    <3>5. a.providerID # NoId => b.providerID # NoId
      BY <1>1, <3>1 DEF WorkerIsConsistent
    <3>6. a.owned => b.owned
      BY <1>1, <2>2 DEF Merge, MergeField, Object
    <3> QED
      BY <1>1, <1>3, <3>1, <3>3, <3>4, <3>5, <3>6 DEF WellFormed, Precedes
  <2> QED
    BY <2>1, <2>2
<1>4. CASE pc = "patchStatus"
  BY <1>1, <1>4 DEF Merge, MergeField, WellFormed, Precedes, Object
<1> QED
  BY <1>2, <1>3, <1>4 DEF Patches

\* The steps that leave the objects and their cached copies alone.
Unseen ==
    \/ CallFails \/ EnsureInstanceView \/ EnsureInstanceCreate \/ EnsureInstanceAdopt
    \/ InstanceStart \/ ListAddresses \/ EnsureInstanceDeleted \/ InstanceStop
    \/ InstanceDelete \/ EnsureDiskDeleted \/ DiskDelete
    \/ CloudStep \/ TogglePause \/ Settle
    \/ \E m \in Machines : ReconcileSkip(m) \/ Reconcile(m) \/ SetBootstrapData(m)

\* Such a step changes no object and no cached copy.
LEMMA UnseenFrame == Unseen => UNCHANGED <<api, cache>>
<1>1. CASE \/ CallFails \/ EnsureInstanceView \/ EnsureInstanceCreate \/ EnsureInstanceAdopt
           \/ InstanceStart \/ ListAddresses \/ EnsureInstanceDeleted \/ InstanceStop
           \/ InstanceDelete \/ EnsureDiskDeleted \/ DiskDelete \/ TogglePause \/ Settle
  BY <1>1 DEF CallFails, EnsureInstanceView, EnsureInstanceCreate, EnsureInstanceAdopt,
       InstanceStart, ListAddresses, EnsureInstanceDeleted, InstanceStop, InstanceDelete,
       EnsureDiskDeleted, DiskDelete, TogglePause, Settle, apiVars
<1>2. CASE CloudStep
  BY <1>2 DEF CloudStep, Boots, Stops, StrayTransition, ChangeState, DetachDisk, LandCreate,
              OperatorDeletesInstance, apiVars
<1>3. CASE \E m \in Machines : ReconcileSkip(m) \/ Reconcile(m) \/ SetBootstrapData(m)
  BY <1>3 DEF ReconcileSkip, Reconcile, SetBootstrapData, apiVars
<1> QED
  BY <1>1, <1>2, <1>3 DEF Unseen

\* Next is such a step or one of the few that change an object or a copy of it.
LEMMA NextCases ==
    ASSUME Next
    PROVE  \/ Unseen \/ PatchOxideMachine \/ Restart
           \/ \E m \in Machines : EnsurePausedCondition(m) \/ Sync(m) \/ SetOwner(m)
                                  \/ RequestDelete(m)
BY DEF Next, WorkerStep, ManagerStep, StartReconcile, UserStep, Unseen

\* Every object is a later version of what it was.
LaterObjects == \A m \in Machines : Precedes(api[m], api'[m])

\* Replacing one object by a later, well-formed version of it keeps the order.
LEMMA OrderedUpdate ==
    ASSUME OrderInv, NEW m \in Machines, NEW b \in Object, WellFormed(b), Precedes(api[m], b),
           api' = [api EXCEPT ![m] = b], cache' = cache
    PROVE  ObjectsAreOrdered' /\ LaterObjects
<1> SUFFICES ASSUME NEW x \in Machines
             PROVE  /\ WellFormed(api'[x]) /\ WellFormed(cache'[x])
                    /\ Precedes(cache'[x], api'[x]) /\ Precedes(api[x], api'[x])
  BY DEF ObjectsAreOrdered, LaterObjects
<1>1. /\ api[x] \in Object /\ cache[x] \in Object
      /\ WellFormed(api[x]) /\ WellFormed(cache[x]) /\ Precedes(cache[x], api[x])
  BY DEF OrderInv, TypeOK, ManagerTypeOK, ObjectsAreOrdered
<1>2. CASE x = m
  <2>1. api'[x] = b /\ cache'[x] = cache[x]
    BY <1>2 DEF OrderInv, TypeOK, ManagerTypeOK
  <2>2. Precedes(cache[x], b)
    BY <1>1, <1>2, PrecedesTransitive
  <2> QED
    BY <1>1, <1>2, <2>1, <2>2
<1>3. CASE x # m
  <2>1. api'[x] = api[x] /\ cache'[x] = cache[x]
    BY <1>3 DEF OrderInv, TypeOK, ManagerTypeOK
  <2> QED
    BY <1>1, <2>1, PrecedesReflexive
<1> QED
  BY <1>2, <1>3

\* Every step keeps the stored and the cached objects in order.
LEMMA OrderedStep ==
    ASSUME OrderInv, Next
    PROVE  ObjectsAreOrdered' /\ LaterObjects
<1>0. api' = api => LaterObjects
  BY PrecedesReflexive DEF LaterObjects
<1>1. CASE Unseen
  BY <1>0, <1>1, UnseenFrame DEF OrderInv, ObjectsAreOrdered
<1>2. CASE PatchOxideMachine
  <2>1. pc \in Patches /\ pc # "idle" /\ cache' = cache
    BY <1>2 DEF PatchOxideMachine, Patches
  <2>2. CASE api' = api
    BY <1>0, <2>1, <2>2 DEF OrderInv, ObjectsAreOrdered
  <2>3. CASE api[key].life # "gone" /\ api' = [api EXCEPT ![key] = Merge(pc, @)]
    <3>1. key \in Machines /\ Merge(pc, api[key]) \in Object
      BY <2>1, OrderFacts, MergeType DEF OrderInv
    <3> QED
      BY <2>1, <2>3, <3>1, MergeOrder, OrderedUpdate
  <2> QED
    BY <1>2, <2>2, <2>3 DEF PatchOxideMachine
<1>3. CASE Restart
  <2>1. api' = api /\ cache' = api
    BY <1>3 DEF Restart
  <2> QED
    BY <1>0, <2>1, PrecedesReflexive DEF OrderInv, ObjectsAreOrdered
<1>4. ASSUME NEW m \in Machines, EnsurePausedCondition(m) PROVE ObjectsAreOrdered' /\ LaterObjects
  <2>1. CASE api' = api
    BY <1>0, <1>4, <2>1 DEF EnsurePausedCondition, OrderInv, ObjectsAreOrdered
  <2>2. CASE api[m].life # "gone" /\ api' = [api EXCEPT ![m].paused = PausedStatus]
    <3> DEFINE b == [api[m] EXCEPT !.paused = PausedStatus]
    <3>1. api[m] \in Object /\ b \in Object /\ WellFormed(api[m])
      BY UpdateType DEF PausedStatus, Conditions, OrderInv, TypeOK, ManagerTypeOK,
                        ObjectsAreOrdered, Ids
    <3>2. /\ b.life = api[m].life /\ b.finalizer = api[m].finalizer
          /\ b.providerID = api[m].providerID /\ b.owned = api[m].owned
      BY <3>1 DEF Object
    <3>3. WellFormed(b) /\ Precedes(api[m], b)
      BY <2>2, <3>1, <3>2 DEF WellFormed, Precedes
    <3> QED
      BY <1>4, <2>2, <3>1, <3>3, OrderedUpdate DEF EnsurePausedCondition
  <2> QED
    BY <1>4, <2>1, <2>2 DEF EnsurePausedCondition
<1>5. ASSUME NEW m \in Machines, Sync(m) PROVE ObjectsAreOrdered' /\ LaterObjects
  BY <1>0, <1>5, PrecedesReflexive DEF Sync, OrderInv, ObjectsAreOrdered, TypeOK, ManagerTypeOK
<1>6. ASSUME NEW m \in Machines, SetOwner(m) PROVE ObjectsAreOrdered' /\ LaterObjects
  <2> DEFINE b == [api[m] EXCEPT !.owned = TRUE]
  <2>1. api[m] \in Object /\ b \in Object /\ WellFormed(api[m])
    BY UpdateType DEF OrderInv, TypeOK, ManagerTypeOK, ObjectsAreOrdered, Ids
  <2>2. /\ b.life = api[m].life /\ b.finalizer = api[m].finalizer
        /\ b.providerID = api[m].providerID /\ b.owned
    BY <2>1 DEF Object
  <2>3. WellFormed(b) /\ Precedes(api[m], b)
    BY <1>6, <2>1, <2>2 DEF SetOwner, WellFormed, Precedes
  <2> QED
    BY <1>6, <2>1, <2>3, OrderedUpdate DEF SetOwner
<1>7. ASSUME NEW m \in Machines, RequestDelete(m) PROVE ObjectsAreOrdered' /\ LaterObjects
  <2> DEFINE b == IF api[m].finalizer THEN [api[m] EXCEPT !.life = "deleting"] ELSE Tombstone
  <2>1. api[m] \in Object /\ b \in Object /\ WellFormed(api[m])
    BY UpdateType, InitialObjects
       DEF OrderInv, TypeOK, ManagerTypeOK, ObjectsAreOrdered, Ids
  <2>2. CASE api[m].finalizer
    <3>1. /\ b.life = "deleting" /\ b.finalizer /\ b.providerID = api[m].providerID
          /\ b.owned = api[m].owned
      BY <2>1, <2>2 DEF Object
    <3> QED
      BY <1>7, <2>1, <2>2, <3>1, OrderedUpdate DEF RequestDelete, WellFormed, Precedes
  <2>3. CASE ~api[m].finalizer
    <3>1. WellFormed(b) /\ Precedes(api[m], b)
      BY <2>3, TombstoneFacts DEF WellFormed, Precedes
    <3> QED
      BY <1>7, <2>1, <3>1, OrderedUpdate DEF RequestDelete
  <2> QED
    BY <2>2, <2>3
<1> QED
  BY <1>1, <1>2, <1>3, <1>4, <1>5, <1>6, <1>7, NextCases

\* Object o is what the worker may have made of the object it has seen.
Allowed(o) ==
    /\ o.providerID # seen.providerID
         => seen.life = "live" /\ seen.providerID = NoId /\ o.finalizer
    /\ seen.life = "live" /\ seen.finalizer => o.finalizer

\* Returning from Reconcile with an allowed object keeps the worker consistent.
LEMMA ReturnConsistent ==
    ASSUME OrderInv, pc # "idle", cache' = cache, NEW o \in Object, NEW r, Allowed(o), Return(o, r)
    PROVE  WorkerIsConsistent'
BY DEF OrderInv, WorkerIsConsistent, Allowed, Return, Precedes, WellFormed

\* So does going on to the next cloud call of a deletion.
LEMMA GoToConsistent ==
    ASSUME OrderInv, pc # "idle", cache' = cache, NEW o \in Object, NEW c, Allowed(o), GoTo(c, o),
           c \in {"viewForDelete", "stopInstance", "deleteInstance", "viewDisk", "deleteDisk"},
           seen.life = "deleting"
    PROVE  WorkerIsConsistent'
BY DEF OrderInv, WorkerIsConsistent, Allowed, GoTo, Precedes, WellFormed

\* So does what follows once the instance of a live machine is known.
LEMMA RunningConsistent ==
    ASSUME OrderInv, pc # "idle", cache' = cache, NEW o \in Object, NEW i \in Instance,
           Allowed(o), o.finalizer, seen.life = "live", EnsureInstanceRunning(o, i)
    PROVE  WorkerIsConsistent'
<1> DEFINE r == [o EXCEPT !.ready = "true", !.provisioned = TRUE]
           w == [o EXCEPT !.ready = "false"]
<1>1. /\ r \in Object /\ r.providerID = o.providerID /\ r.finalizer = o.finalizer
      /\ w \in Object /\ w.providerID = o.providerID /\ w.finalizer = o.finalizer
  BY DEF Object, Conditions
<1>2. Allowed(r) /\ Allowed(w)
  BY <1>1 DEF Allowed
<1>3. CASE i.state \in Startable
  BY <1>3 DEF EnsureInstanceRunning, Startable, RunStates, OrderInv, WorkerIsConsistent,
              Allowed, Precedes, WellFormed
<1>4. CASE i.state = "running"
  <2>1. CASE Return(r, FALSE)
    BY <1>1, <1>2, <2>1, ReturnConsistent
  <2>2. CASE pc' = "listAddresses" /\ obj' = r /\ UNCHANGED <<key, seen>>
    BY <1>1, <2>2 DEF OrderInv, WorkerIsConsistent, Allowed, Precedes, WellFormed
  <2> QED
    BY <1>4, <2>1, <2>2 DEF EnsureInstanceRunning, Startable
<1>5. CASE i.state \notin Startable \cup {"running"}
  BY <1>1, <1>2, <1>5, ReturnConsistent DEF EnsureInstanceRunning
<1> QED
  BY <1>3, <1>4, <1>5

\* The steps between Take and the patch.
LEMMA CallConsistent ==
    ASSUME OrderInv,
           \/ CallFails \/ EnsureInstanceView \/ EnsureInstanceCreate \/ EnsureInstanceAdopt
           \/ InstanceStart \/ ListAddresses \/ EnsureInstanceDeleted \/ InstanceStop
           \/ InstanceDelete \/ EnsureDiskDeleted \/ DiskDelete
    PROVE  WorkerIsConsistent'
<1>1. pc # "idle" /\ pc \notin Patches
  BY DEF CallFails, CloudCalls, Patches, EnsureInstanceView, EnsureInstanceCreate,
         EnsureInstanceAdopt, InstanceStart, ListAddresses, EnsureInstanceDeleted, InstanceStop,
         InstanceDelete, EnsureDiskDeleted, DiskDelete
<1>2. cache' = cache
  BY UnseenFrame DEF Unseen
<1>3. /\ name \in Names /\ obj \in Object /\ seen \in Object /\ WorkerIsConsistent
      /\ instance[name] \in Instance
  BY <1>1, OrderFacts DEF OrderInv, TypeOK, CloudTypeOK
<1>4. Allowed(obj)
  BY <1>1, <1>3 DEF WorkerIsConsistent, Allowed
<1>5. NotReady \in Object /\ Allowed(NotReady)
  <2>1. /\ NotReady \in Object /\ NotReady.providerID = obj.providerID
        /\ NotReady.finalizer = obj.finalizer
    BY <1>3 DEF NotReady, Object, Conditions
  <2> QED
    BY <1>4, <2>1 DEF Allowed
<1>6. ASSUME NEW i \in Ids, seen.life = "live", seen.providerID = NoId, obj.finalizer
      PROVE  /\ [obj EXCEPT !.providerID = i] \in Object
             /\ [obj EXCEPT !.providerID = i].finalizer
             /\ Allowed([obj EXCEPT !.providerID = i])
  <2> DEFINE o == [obj EXCEPT !.providerID = i]
  <2>1. o \in Object /\ o.finalizer = obj.finalizer
    BY <1>3 DEF Object
  <2> QED
    BY <1>6, <2>1 DEF Allowed
<1>7. CASE CallFails
  BY <1>1, <1>2, <1>3, <1>4, <1>7, ReturnConsistent DEF CallFails
<1>8. CASE EnsureInstanceView
  <2>1. seen.life = "live" /\ obj.finalizer
    BY <1>1, <1>3, <1>8 DEF EnsureInstanceView, WorkerIsConsistent
  <2> QED
    BY <1>1, <1>2, <1>3, <1>4, <1>8, <2>1, ReturnConsistent, RunningConsistent
       DEF EnsureInstanceView
<1>9. CASE EnsureInstanceCreate
  <2>1. seen.life = "live" /\ obj.finalizer /\ seen.providerID = NoId
    BY <1>1, <1>3, <1>9 DEF EnsureInstanceCreate, WorkerIsConsistent
  <2>2. ASSUME NEW id \in InstanceIds,
               EnsureInstanceRunning([obj EXCEPT !.providerID = id],
                                     [id |-> id, state |-> "starting"])
        PROVE  WorkerIsConsistent'
    <3>1. [id |-> id, state |-> "starting"] \in Instance
      BY DEF Ids, Instance, RunStates
    <3>2. /\ [obj EXCEPT !.providerID = id] \in Object
          /\ [obj EXCEPT !.providerID = id].finalizer
          /\ Allowed([obj EXCEPT !.providerID = id])
      BY <1>6, <2>1 DEF Ids
    <3> HIDE DEF Allowed
    <3> QED
      BY <1>1, <1>2, <2>1, <2>2, <3>1, <3>2, RunningConsistent
  <2>3. CASE Return(obj, TRUE)
    BY <1>1, <1>2, <1>3, <1>4, <2>3, ReturnConsistent
  <2>4. CASE pc' = "adoptInstance" /\ UNCHANGED <<key, seen, obj, target, again, cloudVars>>
    BY <1>1, <1>2, <1>3, <2>1, <2>4 DEF WorkerIsConsistent, Precedes, WellFormed
  <2> QED
    BY <1>9, <2>2, <2>3, <2>4 DEF EnsureInstanceCreate
<1>10. CASE EnsureInstanceAdopt
  <2>1. seen.life = "live" /\ obj.finalizer /\ seen.providerID = NoId
    BY <1>1, <1>3, <1>10 DEF EnsureInstanceAdopt, WorkerIsConsistent
  <2>2. instance[name].id \in Ids
    BY <1>3 DEF Instance
  <2>3. /\ [obj EXCEPT !.providerID = instance[name].id] \in Object
        /\ [obj EXCEPT !.providerID = instance[name].id].finalizer
        /\ Allowed([obj EXCEPT !.providerID = instance[name].id])
    BY <1>6, <2>1, <2>2
  <2> QED
    BY <1>1, <1>2, <1>3, <1>4, <1>10, <2>1, <2>3, ReturnConsistent, RunningConsistent
       DEF EnsureInstanceAdopt
<1>11. CASE InstanceStart
  BY <1>1, <1>2, <1>3, <1>4, <1>5, <1>11, ReturnConsistent DEF InstanceStart
<1>12. CASE ListAddresses
  <2> DEFINE o == [obj EXCEPT !.addresses = TRUE]
  <2>1. o \in Object /\ o.providerID = obj.providerID /\ o.finalizer = obj.finalizer
    BY <1>3 DEF Object
  <2>2. Allowed(o)
    BY <1>4, <2>1 DEF Allowed
  <2> QED
    BY <1>1, <1>2, <1>3, <1>4, <1>12, <2>1, <2>2, ReturnConsistent DEF ListAddresses
<1>13. CASE EnsureInstanceDeleted \/ InstanceStop \/ InstanceDelete
  <2>1. seen.life = "deleting"
    BY <1>1, <1>3, <1>13
       DEF EnsureInstanceDeleted, InstanceStop, InstanceDelete, WorkerIsConsistent
  <2> QED
    BY <1>1, <1>2, <1>3, <1>4, <1>5, <1>13, <2>1, ReturnConsistent, GoToConsistent
       DEF EnsureInstanceDeleted, InstanceGone, InstanceStop, InstanceDelete
<1>14. CASE EnsureDiskDeleted \/ DiskDelete
  <2> DEFINE o == [obj EXCEPT !.finalizer = FALSE]
  <2>1. seen.life = "deleting"
    BY <1>1, <1>3, <1>14 DEF EnsureDiskDeleted, DiskDelete, WorkerIsConsistent
  <2>2. o \in Object /\ o.providerID = obj.providerID
    BY <1>3 DEF Object
  <2>3. Allowed(o)
    BY <1>4, <2>1, <2>2 DEF Allowed
  <2> QED
    BY <1>1, <1>2, <1>3, <1>4, <1>14, <2>1, <2>2, <2>3, ReturnConsistent, GoToConsistent
       DEF EnsureDiskDeleted, DiskDelete, RemoveFinalizer
<1> QED
  BY <1>7, <1>8, <1>9, <1>10, <1>11, <1>12, <1>13, <1>14

\* The start of Reconcile makes the worker consistent with what the cache holds.
LEMMA ReconcileConsistent ==
    ASSUME OrderInv, NEW m \in Machines, Reconcile(m)
    PROVE  WorkerIsConsistent'
<1>1. cache[m] \in Object /\ WellFormed(cache[m])
  BY DEF OrderInv, TypeOK, ManagerTypeOK, ObjectsAreOrdered
<1>2. cache' = cache /\ key' = m /\ seen' = cache[m] /\ cache[m].life # "gone"
  BY DEF Reconcile, apiVars
<1> DEFINE f == [cache[m] EXCEPT !.finalizer = TRUE]
           w == [cache[m] EXCEPT !.finalizer = TRUE, !.ready = "false"]
<1>3. f \in Object /\ f.providerID = cache[m].providerID /\ f.finalizer
  BY <1>1 DEF Object
<1>4. w \in Object /\ w.providerID = cache[m].providerID /\ w.finalizer
  BY <1>1 DEF Object, Conditions
<1>5. obj' \in {cache[m], f, w}
  BY DEF Reconcile
<1> HIDE DEF f, w
<1>6. obj' \in Object /\ obj'.providerID = cache[m].providerID
  BY <1>1, <1>3, <1>4, <1>5
<1>7. cache[m].finalizer => obj'.finalizer
  BY <1>3, <1>4, <1>5
<1>8. CASE pc' = "patchConditions"
  BY <1>1, <1>2, <1>6, <1>7, <1>8, PrecedesReflexive DEF WorkerIsConsistent, WellFormed, Precedes
<1>9. CASE pc' = FirstCall(m) /\ pc' # "patchConditions"
  <2>1. CASE cache[m].life = "deleting"
    BY <1>1, <1>2, <1>6, <1>7, <1>9, <2>1, PrecedesReflexive
       DEF WorkerIsConsistent, FirstCall, WellFormed, Precedes
  <2>2. CASE cache[m].life = "live"
    <3>1. /\ pc' \in {"viewInstance", "createInstance"}
          /\ pc' = "createInstance" => cache[m].providerID = NoId
      BY <1>9, <2>2 DEF FirstCall
    <3>2. obj'.finalizer
      BY <1>1, <1>9, <2>2, <3>1 DEF Reconcile, Object, Conditions
    <3> QED
      BY <1>1, <1>2, <1>6, <1>7, <2>2, <3>1, <3>2, PrecedesReflexive
         DEF WorkerIsConsistent, WellFormed, Precedes
  <2> QED
    BY <1>1, <1>2, <2>1, <2>2 DEF Object
<1> QED
  BY <1>8, <1>9 DEF Reconcile

\* Every step keeps the worker consistent.
LEMMA ConsistentStep ==
    ASSUME OrderInv, Next
    PROVE  WorkerIsConsistent'
<1>1. CASE \/ CallFails \/ EnsureInstanceView \/ EnsureInstanceCreate \/ EnsureInstanceAdopt
           \/ InstanceStart \/ ListAddresses \/ EnsureInstanceDeleted \/ InstanceStop
           \/ InstanceDelete \/ EnsureDiskDeleted \/ DiskDelete
  BY <1>1, CallConsistent
<1>2. CASE PatchOxideMachine
  <2>1. pc \in Patches /\ pc # "idle" /\ cache' = cache
    BY <1>2 DEF PatchOxideMachine, Patches
  <2>2. PICK f \in BOOLEAN : AfterPart(f)
    BY <1>2 DEF PatchOxideMachine
  <2>3. CASE pc = "patchStatus"
    BY <2>2, <2>3 DEF AfterPart, Free, WorkerIsConsistent
  <2>4. CASE pc # "patchStatus"
    <3>1. pc' \in Patches /\ UNCHANGED <<key, seen, obj>>
      BY <2>1, <2>2, <2>4 DEF AfterPart, Patches
    <3> QED
      BY <2>1, <3>1 DEF OrderInv, WorkerIsConsistent, Patches, Precedes, WellFormed
  <2> QED
    BY <2>3, <2>4
<1>3. CASE Restart
  BY <1>3 DEF Restart, Free, WorkerIsConsistent
<1>4. ASSUME NEW m \in Machines, Reconcile(m) PROVE WorkerIsConsistent'
  BY <1>4, ReconcileConsistent
<1>5. ASSUME NEW m \in Machines, Sync(m) PROVE WorkerIsConsistent'
  <2>1. CASE pc = "idle"
    BY <1>5, <2>1 DEF Sync, workerVars, WorkerIsConsistent
  <2>2. CASE pc # "idle"
    <3>1. Precedes(seen, api[key]) /\ Precedes(seen, cache[key]) /\ key \in Machines
      BY <2>2, OrderFacts DEF OrderInv, WorkerIsConsistent
    <3>2. cache'[key] = api[key] \/ cache'[key] = cache[key]
      BY <1>5, <3>1 DEF Sync, OrderInv, TypeOK, ManagerTypeOK
    <3>3. Precedes(seen, cache'[key])
      BY <3>1, <3>2
    <3> QED
      BY <1>5, <2>2, <3>3 DEF Sync, workerVars, OrderInv, WorkerIsConsistent, WellFormed, Precedes
  <2> QED
    BY <2>1, <2>2
<1>6. CASE UNCHANGED workerVars /\ UNCHANGED cache
  BY <1>6 DEF workerVars, OrderInv, WorkerIsConsistent, WellFormed, Precedes
<1>7. CASE CloudStep \/ TogglePause \/ Settle
  <2>1. UNCHANGED workerVars
    BY <1>7 DEF CloudStep, Boots, Stops, StrayTransition, ChangeState, DetachDisk, LandCreate,
                OperatorDeletesInstance, TogglePause, Settle
  <2> QED
    BY <1>6, <1>7, <2>1, UnseenFrame DEF Unseen
<1>8. ASSUME NEW m \in Machines,
             \/ ReconcileSkip(m) \/ EnsurePausedCondition(m) \/ SetOwner(m)
             \/ SetBootstrapData(m) \/ RequestDelete(m)
      PROVE  WorkerIsConsistent'
  BY <1>6, <1>8 DEF ReconcileSkip, EnsurePausedCondition, SetOwner, SetBootstrapData,
                    RequestDelete, apiVars
<1> QED
  BY <1>1, <1>2, <1>3, <1>4, <1>5, <1>7, <1>8
     DEF Next, WorkerStep, ManagerStep, StartReconcile, UserStep

\* A step that changes no variable.
LEMMA StutterOrder == ASSUME OrderInv, UNCHANGED vars PROVE OrderInv'
<1>1. TypeOK'
  BY NextType DEF OrderInv
<1>2. UNCHANGED <<api, cache, pc, key, seen, obj>>
  BY DEF vars, apiVars, workerVars
<1>3. ObjectsAreOrdered' /\ WorkerIsConsistent'
  BY <1>2 DEF OrderInv, ObjectsAreOrdered, WorkerIsConsistent
<1> QED
  BY <1>1, <1>3 DEF OrderInv

(***************************************************************************)
(* The cache lags behind the API server, and the worker behind the cache,  *)
(* but never on another course: an object is only finalized, provided,     *)
(* owned, deleted, and gone for good, in this order.  For all names and    *)
(* all faults.                                                             *)
(***************************************************************************)
THEOREM Order == Spec => []OrderInv
<1>1. Init => OrderInv
  BY InitIndInv DEF IndInv, OrderInv
<1>2. OrderInv /\ [Next]_vars => OrderInv'
  <2> SUFFICES ASSUME OrderInv, [Next]_vars PROVE OrderInv'
    OBVIOUS
  <2>1. TypeOK'
    BY NextType DEF OrderInv
  <2>2. CASE Next
    BY <2>1, <2>2, OrderedStep, ConsistentStep DEF OrderInv
  <2>3. CASE UNCHANGED vars
    BY <2>3, StutterOrder
  <2> QED
    BY <2>2, <2>3
<1> QED
  BY <1>1, <1>2, PTL DEF Spec

\* What the invariant says of it.
LEMMA BusyFacts ==
    ASSUME IndInv, pc # "idle"
    PROVE  /\ key \in Machines /\ name \in Names
           /\ obj \in Object /\ seen \in Object
           /\ api[key] \in Object /\ cache[key] \in Object
           /\ Precedes(seen, api[key])
           /\ seen.life = "live" /\ api[key].providerID # NoId
                => instance[name].id = api[key].providerID
<1>1. OrderInv
  BY DEF IndInv, OrderInv
<1>2. seen.life = "live" /\ api[key].providerID # NoId
        => instance[name].id = api[key].providerID
  BY <1>1, OrderFacts DEF IndInv, ProvidersExist, Intact, InstanceOf, name
<1> QED
  BY <1>1, <1>2, OrderFacts

\* How the cloud's instances keep or change their identity in a step.
KeepsIds == \A n \in Names : instance'[n].id = instance[n].id
KeepsOtherIds == \A n \in Names \ {name} : instance'[n].id = instance[n].id
Creates == instance[name] = NoInstance /\ KeepsOtherIds
Removes == pc = "deleteInstance" /\ KeepsOtherIds

\* What a step between Take and the patch does to the finalizer in memory: it stays,
\* and if the disk is next the instance is gone; or instance and disk are gone.
KeepsFinalizer ==
    /\ obj'.finalizer = obj.finalizer
    /\ pc' \in {"viewDisk", "deleteDisk"} => instance'[name] = NoInstance
IsClean == instance'[name] = NoInstance /\ bootDisk'[name] = "absent" /\ pc' \in Patches

CallStep ==
    \/ CallFails \/ EnsureInstanceView \/ EnsureInstanceCreate \/ EnsureInstanceAdopt
    \/ InstanceStart \/ ListAddresses \/ EnsureInstanceDeleted \/ InstanceStop
    \/ InstanceDelete \/ EnsureDiskDeleted \/ DiskDelete

\* What Return does to the worker.
LEMMA ReturnEffect ==
    ASSUME NEW o, NEW r, Return(o, r)
    PROVE  pc' = "patchConditions" /\ key' = key /\ seen' = seen /\ obj' = o
BY DEF Return

\* Once the instance is known its id and the finalizer in memory stay as they are.
LEMMA RunningEffect ==
    ASSUME NEW o \in Object, NEW i \in Instance, EnsureInstanceRunning(o, i)
    PROVE  /\ pc' \in {"startInstance", "listAddresses", "patchConditions"}
           /\ key' = key /\ seen' = seen
           /\ obj'.providerID = o.providerID /\ obj'.finalizer = o.finalizer
<1>1. CASE i.state \in Startable
  BY <1>1 DEF EnsureInstanceRunning, Startable, RunStates
<1>2. CASE i.state = "running"
  BY <1>2 DEF EnsureInstanceRunning, Return, Startable, Object
<1>3. CASE i.state \notin Startable \cup {"running"}
  BY <1>3 DEF EnsureInstanceRunning, Return, Object
<1> QED
  BY <1>1, <1>2, <1>3

\* The three ways to go on once the instance is known.
LEMMA RunningOutcome ==
    ASSUME NEW o \in Object, NEW i \in Instance, EnsureInstanceRunning(o, i)
    PROVE  \/ i.state = "stopped" /\ pc' = "startInstance" /\ obj' = o
           \/ /\ i.state = "running"
              /\ obj'.providerID = o.providerID /\ obj'.provisioned
              /\ \/ pc' = "listAddresses"
                 \/ pc' = "patchConditions" /\ ~again' /\ obj'.addresses
           \/ /\ pc' = "patchConditions" /\ again'
              /\ obj'.providerID = o.providerID /\ obj'.provisioned = o.provisioned
<1>1. CASE i.state \in Startable
  BY <1>1 DEF EnsureInstanceRunning, Startable, RunStates
<1>2. CASE i.state = "running"
  <2> DEFINE r == [o EXCEPT !.ready = "true", !.provisioned = TRUE]
  <2>1. r.providerID = o.providerID /\ r.provisioned /\ r.addresses = o.addresses
    BY DEF Object
  <2>2. \/ o.addresses /\ Return(r, FALSE)
        \/ pc' = "listAddresses" /\ obj' = r
    BY <1>2 DEF EnsureInstanceRunning, Startable
  <2> HIDE DEF r
  <2> QED
    BY <1>2, <2>1, <2>2 DEF Return
<1>3. CASE i.state \notin Startable \cup {"running"}
  <2> DEFINE r == [o EXCEPT !.ready = "false"]
  <2>1. r.providerID = o.providerID /\ r.provisioned = o.provisioned
    BY DEF Object
  <2>2. Return(r, TRUE)
    BY <1>3 DEF EnsureInstanceRunning
  <2> HIDE DEF r
  <2> QED
    BY <2>1, <2>2 DEF Return
<1> QED
  BY <1>1, <1>2, <1>3

\* No instance has no id.
LEMMA NoInstanceFacts == NoInstance.id = NoId /\ NoInstance.state = "absent"
BY DEF NoInstance

\* What a cloud call may do to the ids of instances and to the finalizer in memory.
LEMMA CallOutcome ==
    ASSUME OrderInv, CallStep
    PROVE  /\ pc \in CloudCalls /\ pc' # "idle" /\ key' = key /\ seen' = seen
           /\ obj'.providerID = obj.providerID \/ obj'.providerID = instance'[name].id
           /\ ReadyToRelease => KeepsFinalizer \/ IsClean
           /\ KeepsIds \/ Creates \/ Removes
<1>1. pc \in CloudCalls /\ pc # "idle"
  BY DEF CallStep, CallFails, CloudCalls, EnsureInstanceView, EnsureInstanceCreate,
         EnsureInstanceAdopt, InstanceStart, ListAddresses, EnsureInstanceDeleted, InstanceStop,
         InstanceDelete, EnsureDiskDeleted, DiskDelete
<1>2. /\ name \in Names /\ obj \in Object /\ seen \in Object
      /\ instance \in [Names -> Instance] /\ bootDisk \in [Names -> DiskStates]
  BY <1>1, OrderFacts DEF OrderInv, TypeOK, CloudTypeOK
<1>3. /\ NotReady.providerID = obj.providerID /\ NotReady.finalizer = obj.finalizer
  BY <1>2 DEF NotReady, Object
<1>4. CASE \/ CallFails \/ EnsureInstanceView \/ EnsureInstanceAdopt \/ ListAddresses
           \/ EnsureInstanceDeleted \/ EnsureDiskDeleted
  <2>1. instance' = instance /\ bootDisk' = bootDisk /\ KeepsIds
    BY <1>4 DEF CallFails, EnsureInstanceView, EnsureInstanceAdopt, ListAddresses,
                EnsureInstanceDeleted, EnsureDiskDeleted, cloudVars, KeepsIds
  <2>2. CASE CallFails
    BY <1>1, <2>1, <2>2, ReturnEffect DEF CallFails, KeepsFinalizer
  <2>3. CASE EnsureInstanceView
    BY <1>1, <1>2, <2>1, <2>3, ReturnEffect, RunningEffect
       DEF EnsureInstanceView, KeepsFinalizer
  <2>4. CASE EnsureInstanceAdopt
    <3> DEFINE o == [obj EXCEPT !.providerID = instance[name].id]
    <3>1. /\ o \in Object /\ o.providerID = instance[name].id /\ o.finalizer = obj.finalizer
          /\ instance[name] \in Instance
      BY <1>2 DEF Object, Instance
    <3>2. EnsureInstanceRunning(o, instance[name]) \/ Return(obj, TRUE)
      BY <2>4 DEF EnsureInstanceAdopt
    <3> HIDE DEF o
    <3> QED
      BY <1>1, <2>1, <3>1, <3>2, ReturnEffect, RunningEffect DEF KeepsFinalizer
  <2>5. CASE ListAddresses
    <3> DEFINE o == [obj EXCEPT !.addresses = TRUE]
    <3>1. o.providerID = obj.providerID /\ o.finalizer = obj.finalizer
      BY <1>2 DEF Object
    <3>2. Return(o, FALSE) \/ Return(obj, TRUE)
      BY <2>5 DEF ListAddresses
    <3> HIDE DEF o
    <3> QED
      BY <1>1, <2>1, <3>1, <3>2, ReturnEffect DEF KeepsFinalizer
  <2>6. CASE EnsureInstanceDeleted
    BY <1>1, <1>3, <2>1, <2>6, ReturnEffect
       DEF EnsureInstanceDeleted, InstanceGone, GoTo, KeepsFinalizer
  <2>7. CASE EnsureDiskDeleted
    <3> DEFINE o == [obj EXCEPT !.finalizer = FALSE]
    <3>1. o.providerID = obj.providerID
      BY <1>2 DEF Object
    <3>2. ReadyToRelease => instance[name] = NoInstance
      BY <2>7 DEF EnsureDiskDeleted, ReadyToRelease
    <3>3. \/ bootDisk[name] = "absent" /\ Return(o, FALSE)
          \/ GoTo("deleteDisk", obj)
          \/ Return(obj, TRUE)
      BY <1>2, <2>7 DEF EnsureDiskDeleted, Gone, RemoveFinalizer
    <3> HIDE DEF o
    <3> QED
      BY <1>1, <2>1, <3>1, <3>2, <3>3, ReturnEffect DEF GoTo, KeepsFinalizer, IsClean, Patches
  <2> QED
    BY <1>4, <2>2, <2>3, <2>4, <2>5, <2>6, <2>7
<1>5. CASE EnsureInstanceCreate
  <2>1. ASSUME NEW id \in InstanceIds, Launch(name, id)
        PROVE  Creates /\ instance'[name].id = id
    BY <1>2, <2>1 DEF Launch, Creatable, Creates, KeepsOtherIds
  <2>2. ASSUME NEW id \in InstanceIds, Launch(name, id),
               EnsureInstanceRunning([obj EXCEPT !.providerID = id],
                                     [id |-> id, state |-> "starting"])
        PROVE  /\ pc' \in {"startInstance", "listAddresses", "patchConditions"}
               /\ key' = key /\ seen' = seen /\ Creates
               /\ obj'.providerID = instance'[name].id /\ obj'.finalizer = obj.finalizer
    <3> DEFINE o == [obj EXCEPT !.providerID = id]
               i == [id |-> id, state |-> "starting"]
    <3>1. o \in Object /\ o.providerID = id /\ o.finalizer = obj.finalizer /\ i \in Instance
      BY <1>2 DEF Object, Ids, Instance, RunStates
    <3>2. EnsureInstanceRunning(o, i)
      BY <2>2
    <3> HIDE DEF o, i
    <3> QED
      BY <2>1, <2>2, <3>1, <3>2, RunningEffect
  <2>3. \/ \E id \in InstanceIds :
             /\ Launch(name, id)
             /\ \/ EnsureInstanceRunning([obj EXCEPT !.providerID = id],
                                         [id |-> id, state |-> "starting"])
                \/ Return(obj, TRUE)
        \/ /\ pc' = "adoptInstance" /\ key' = key /\ seen' = seen /\ obj' = obj
           /\ instance' = instance
        \/ Return(obj, TRUE) /\ instance' = instance
    BY <1>5 DEF EnsureInstanceCreate, cloudVars
  <2>4. instance' = instance => KeepsIds
    BY DEF KeepsIds
  <2> QED
    BY <1>1, <2>1, <2>2, <2>3, <2>4, ReturnEffect DEF KeepsFinalizer
<1>6. CASE InstanceStart
  <2>1. KeepsIds
    BY <1>2, <1>6 DEF InstanceStart, KeepsIds, Instance
  <2>2. pc' = "patchConditions" /\ key' = key /\ seen' = seen /\ obj' \in {obj, NotReady}
    BY <1>6, ReturnEffect DEF InstanceStart
  <2> QED
    BY <1>1, <1>3, <2>1, <2>2 DEF KeepsFinalizer
<1>7. CASE InstanceStop
  <2>1. KeepsIds
    <3>1. instance' = instance \/ instance' = [instance EXCEPT ![name].state = "stopping"]
      BY <1>7 DEF InstanceStop
    <3> QED
      BY <1>2, <3>1 DEF KeepsIds, Instance
  <2>2. \/ instance[name] = NoInstance /\ instance' = instance /\ GoTo("viewDisk", NotReady)
        \/ Return(NotReady, TRUE) \/ Return(obj, TRUE)
    BY <1>7 DEF InstanceStop, InstanceGone
  <2> QED
    BY <1>1, <1>3, <2>1, <2>2, ReturnEffect DEF GoTo, KeepsFinalizer
<1>8. CASE InstanceDelete
  <2>1. KeepsIds \/ Removes
    <3>1. \/ instance' = instance
          \/ pc = "deleteInstance" /\ instance' = [instance EXCEPT ![name] = NoInstance]
      BY <1>8 DEF InstanceDelete, Remove, cloudVars
    <3> QED
      BY <1>2, <3>1 DEF KeepsIds, KeepsOtherIds, Removes
  <2>2. \/ instance[name] = NoInstance /\ instance' = instance /\ GoTo("viewDisk", NotReady)
        \/ Return(NotReady, TRUE) \/ Return(obj, TRUE)
    BY <1>8 DEF InstanceDelete, InstanceGone, cloudVars
  <2> QED
    BY <1>1, <1>3, <2>1, <2>2, ReturnEffect DEF GoTo, KeepsFinalizer
<1>9. CASE DiskDelete
  <2> DEFINE o == [obj EXCEPT !.finalizer = FALSE]
  <2>1. o.providerID = obj.providerID
    BY <1>2 DEF Object
  <2>2. (ReadyToRelease => instance[name] = NoInstance) /\ instance' = instance
    BY <1>9 DEF DiskDelete, ReadyToRelease
  <2>3. \/ bootDisk' = [bootDisk EXCEPT ![name] = "absent"] /\ Return(o, FALSE)
        \/ Return(obj, TRUE)
    BY <1>9 DEF DiskDelete, RemoveFinalizer
  <2>4. KeepsIds
    BY <2>2 DEF KeepsIds
  <2>5. CASE bootDisk' = [bootDisk EXCEPT ![name] = "absent"] /\ Return(o, FALSE)
    <3>1. bootDisk'[name] = "absent"
      BY <1>2, <2>5
    <3> HIDE DEF o
    <3> QED
      BY <1>1, <2>1, <2>2, <2>4, <2>5, <3>1, ReturnEffect DEF IsClean, Patches
  <2>6. CASE Return(obj, TRUE)
    BY <1>1, <2>4, <2>6, ReturnEffect DEF KeepsFinalizer
  <2> QED
    BY <2>3, <2>5, <2>6
<1> QED
  BY <1>4, <1>5, <1>6, <1>7, <1>8, <1>9 DEF CallStep

\* The same from the whole invariant.
LEMMA CallEffect ==
    ASSUME IndInv, CallStep
    PROVE  /\ pc \in CloudCalls /\ pc' # "idle" /\ key' = key /\ seen' = seen
           /\ obj'.providerID = obj.providerID \/ obj'.providerID = instance'[name].id
           /\ KeepsFinalizer \/ IsClean
           /\ KeepsIds \/ Creates \/ Removes
BY CallOutcome DEF IndInv, OrderInv

\* The control plane by itself neither makes nor removes anything.
LEMMA CloudEffect ==
    ASSUME TypeOK, NothingLate, Undisturbed, CloudStep
    PROVE  /\ UNCHANGED <<api, cache, workerVars>> /\ late' = {} /\ KeepsIds
           /\ \A n \in Names :
                 /\ instance[n] = NoInstance => instance'[n] = NoInstance
                 /\ bootDisk[n] = "absent" => bootDisk'[n] = "absent"
<1>1. late = {}
  BY DEF NothingLate, Undisturbed
<1>2. instance \in [Names -> Instance] /\ bootDisk \in [Names -> DiskStates]
  BY DEF TypeOK, CloudTypeOK
<1>3. PICK n \in Names : Boots(n) \/ Stops(n) \/ StrayTransition(n) \/ DetachDisk(n)
  BY <1>1 DEF CloudStep, LandCreate, OperatorDeletesInstance, Fault, Undisturbed
<1>4. ASSUME NEW from \in RunStates, NEW to \in RunStates, ChangeState(n, from, to)
      PROVE  /\ KeepsIds /\ bootDisk' = bootDisk /\ late' = late
             /\ UNCHANGED <<api, cache, workerVars>>
             /\ \A x \in Names : instance[x] = NoInstance => instance'[x] = NoInstance
  <2>1. /\ instance[n].state = from /\ NoInstance.state = "absent"
        /\ instance' = [instance EXCEPT ![n].state = to]
    BY <1>4 DEF ChangeState, NoInstance
  <2>2. instance[n] # NoInstance
    BY <2>1 DEF RunStates
  <2>3. KeepsIds
    BY <1>2, <2>1 DEF KeepsIds, Instance
  <2>4. \A x \in Names : instance[x] = NoInstance => instance'[x] = NoInstance
    BY <1>2, <2>1, <2>2
  <2> QED
    BY <1>4, <2>3, <2>4 DEF ChangeState, apiVars
<1>5. CASE Boots(n) \/ Stops(n) \/ StrayTransition(n)
  BY <1>1, <1>4, <1>5 DEF Boots, Stops, StrayTransition, RunStates
<1>6. CASE DetachDisk(n)
  <2>1. KeepsIds /\ instance' = instance
    BY <1>6 DEF DetachDisk, KeepsIds
  <2>2. \A x \in Names : bootDisk[x] = "absent" => bootDisk'[x] = "absent"
    BY <1>2, <1>6 DEF DetachDisk
  <2> QED
    BY <1>1, <1>6, <2>1, <2>2 DEF DetachDisk, apiVars
<1> QED
  BY <1>3, <1>5, <1>6

\* Other steps leave the cloud alone.
Elsewhere ==
    \/ PatchOxideMachine \/ Restart \/ TogglePause \/ Settle
    \/ \E m \in Machines : \/ StartReconcile(m) \/ Sync(m)
                           \/ SetOwner(m) \/ SetBootstrapData(m) \/ RequestDelete(m)

\* The other steps leave the Oxide project alone.
LEMMA ElsewhereEffect == Elsewhere => UNCHANGED cloudVars
BY DEF Elsewhere, PatchOxideMachine, Restart, TogglePause, Settle, StartReconcile, ReconcileSkip,
       EnsurePausedCondition, Reconcile, Sync, SetOwner, SetBootstrapData, RequestDelete

\* Every step is a cloud call, a step of the control plane, or one of the others.
LEMMA StepKinds == Next => CallStep \/ CloudStep \/ Elsewhere
BY DEF Next, WorkerStep, ManagerStep, UserStep, CallStep, Elsewhere

\* The worker is left alone, no provider id is set, and no instance changes its id.
LEMMA ProvidersFrame ==
    ASSUME IndInv, KeepsIds, UNCHANGED <<cache, pc, key, seen, obj>>,
           \A m \in Machines : api'[m].providerID \in {api[m].providerID, NoId}
    PROVE  ProvidersExist'
<1>1. \A m \in Machines : Intact(m)' => Intact(m)
  BY DEF Intact
<1>2. \A m \in Machines : InstanceOf(m).id' = InstanceOf(m).id
  BY DEF KeepsIds, InstanceOf
<1>3. pc # "idle" => instance'[name].id = instance[name].id /\ name' = name
  BY BusyType DEF KeepsIds, name, IndInv
<1> QED
  BY <1>1, <1>2, <1>3 DEF IndInv, ProvidersExist

\* A cloud call leaves every provider id with its instance.
LEMMA ProvidersCall ==
    ASSUME IndInv, DistinctNames, CallStep
    PROVE  ProvidersExist'
<1>1. /\ pc \in CloudCalls /\ pc # "idle" /\ pc' # "idle" /\ key' = key /\ seen' = seen
      /\ name' = name /\ api' = api /\ cache' = cache
  BY CallEffect, UnseenFrame DEF CallStep, Unseen, CloudCalls, name
<1>2. \A m \in Machines : Intact(m)' <=> Intact(m)
  BY <1>1 DEF Intact
<1>3. ASSUME NEW m \in Machines, Intact(m), InstanceOf(m).id # NoId
      PROVE  InstanceOf(m).id' = InstanceOf(m).id
  <2>1. InstanceName[m] \in Names /\ InstanceName[key] = name /\ key \in Machines
    BY <1>1, BusyFacts DEF name
  <2>2. CASE KeepsIds
    BY <2>1, <2>2 DEF KeepsIds, InstanceOf
  <2>3. CASE Creates
    <3>1. InstanceName[m] # name
      BY <1>3, <2>3 DEF Creates, InstanceOf, NoInstance
    <3> QED
      BY <2>1, <2>3, <3>1 DEF Creates, KeepsOtherIds, InstanceOf
  <2>4. CASE Removes
    <3>1. seen.life = "deleting" /\ Precedes(seen, cache[key])
      BY <1>1, <2>4 DEF Removes, IndInv, WorkerIsConsistent
    <3>2. m # key
      BY <1>3, <3>1 DEF Intact, Precedes
    <3> QED
      BY <2>1, <2>4, <3>2 DEF Removes, KeepsOtherIds, InstanceOf, DistinctNames
  <2> QED
    BY <2>2, <2>3, <2>4, CallEffect
<1>4. ASSUME NEW m \in Machines
      PROVE  /\ Intact(m)' /\ api'[m].providerID # NoId
                  => InstanceOf(m).id' = api'[m].providerID
             /\ cache'[m].life = "live" /\ cache'[m].providerID # NoId
                  => InstanceOf(m).id' = cache'[m].providerID
  BY <1>1, <1>2, <1>3 DEF IndInv, ProvidersExist, Intact
<1>5. ASSUME seen.life = "live", obj'.providerID # NoId
      PROVE  instance'[name].id = obj'.providerID
  <2>1. CASE obj'.providerID = obj.providerID
    <3> PICK m \in Machines : m = key
      BY <1>1, BusyFacts
    <3>1. Intact(m) /\ InstanceOf(m) = instance[name] /\ InstanceOf(m).id' = instance'[name].id
      BY <1>1, <1>5 DEF Intact, InstanceOf, name
    <3>2. instance[name].id = obj.providerID
      BY <1>1, <1>5, <2>1 DEF IndInv, ProvidersExist
    <3>3. InstanceOf(m).id # NoId
      BY <1>5, <2>1, <3>1, <3>2
    <3> QED
      BY <1>3, <2>1, <3>1, <3>2, <3>3
  <2> QED
    BY <2>1, CallEffect
<1> QED
  BY <1>1, <1>4, <1>5 DEF ProvidersExist

\* An object that becomes live in the cache, or is taken from it, has its instance.
LEMMA ProvidersElsewhere ==
    ASSUME IndInv, Elsewhere
    PROVE  ProvidersExist'
<1>1. instance' = instance /\ KeepsIds
  BY ElsewhereEffect DEF cloudVars, KeepsIds
<1>2. \A m \in Machines : InstanceOf(m)' = InstanceOf(m)
  BY <1>1 DEF InstanceOf
<1>3. ASSUME NEW m \in Machines
      PROVE  /\ api[m] \in Object /\ cache[m] \in Object
             /\ WellFormed(api[m]) /\ Precedes(cache[m], api[m])
             /\ api[m].life = "live" => cache[m].life = "live"
             /\ api[m].life = "gone" => api[m].providerID = NoId
  BY TombstoneFacts
     DEF IndInv, TypeOK, ManagerTypeOK, ObjectsAreOrdered, Precedes, WellFormed, Object
<1>4. CASE PatchOxideMachine
  <2>1. pc \in Patches /\ pc # "idle" /\ cache' = cache
    BY <1>4 DEF PatchOxideMachine, Patches
  <2>2. key \in Machines /\ obj \in Object /\ seen \in Object
    BY <2>1, BusyFacts
  <2>3. PICK f \in BOOLEAN : AfterPart(f)
    BY <1>4 DEF PatchOxideMachine
  <2>4. /\ pc' = "idle" \/ (pc' # "idle" /\ key' = key /\ seen' = seen /\ obj' = obj)
    BY <2>1, <2>3 DEF AfterPart, Free
  <2>5. \A m \in Machines : Intact(m)' => Intact(m)
    BY <2>1, <2>4 DEF Intact
  <2>6. ASSUME NEW m \in Machines, Intact(m), api'[m].providerID # NoId
        PROVE  InstanceOf(m).id = api'[m].providerID
    <3>1. CASE api'[m] = api[m]
      BY <2>6, <3>1 DEF IndInv, ProvidersExist
    <3>2. CASE api'[m] # api[m]
      <4>1. m = key /\ api[key].life # "gone" /\ api'[m] = Merge(pc, api[key])
        BY <1>4, <2>2, <3>2 DEF PatchOxideMachine, IndInv, TypeOK, ManagerTypeOK
      <4>2. CASE Merge(pc, api[key]).providerID = api[key].providerID
        BY <2>6, <4>1, <4>2 DEF IndInv, ProvidersExist
      <4>3. CASE Merge(pc, api[key]).providerID # api[key].providerID
        <5>1. /\ obj.providerID # seen.providerID
              /\ Merge(pc, api[key]).providerID = obj.providerID
          <6>1. CASE pc = "patchSpec"
            <7>1. CASE seen.finalizer /\ ~obj.finalizer /\ api[key].life = "deleting"
              BY <2>6, <4>1, <6>1, <7>1, TombstoneFacts DEF Merge, MergeField
            <7> QED
              BY <1>3, <2>2, <4>1, <4>3, <6>1, <7>1 DEF Merge, MergeField, Object
          <6>2. CASE pc # "patchSpec"
            BY <1>3, <2>1, <2>2, <4>1, <4>3, <6>2 DEF Merge, MergeField, Patches, Object
          <6> QED
            BY <6>1, <6>2
        <5>2. seen.life = "live" /\ obj.providerID # NoId
          BY <2>1, <2>6, <4>1, <5>1 DEF IndInv, WorkerIsConsistent
        <5> QED
          BY <2>1, <4>1, <5>1, <5>2 DEF IndInv, ProvidersExist, InstanceOf, name
      <4> QED
        BY <4>2, <4>3
    <3> QED
      BY <3>1, <3>2
  <2>7. ASSUME NEW m \in Machines
        PROVE  /\ Intact(m)' /\ api'[m].providerID # NoId
                    => InstanceOf(m).id' = api'[m].providerID
               /\ cache'[m].life = "live" /\ cache'[m].providerID # NoId
                    => InstanceOf(m).id' = cache'[m].providerID
    BY <1>2, <2>1, <2>5, <2>6 DEF IndInv, ProvidersExist
  <2>8. pc' # "idle" /\ seen'.life = "live" /\ obj'.providerID # NoId
          => instance'[name'].id = obj'.providerID
    BY <1>1, <2>1, <2>4 DEF IndInv, ProvidersExist, name
  <2> QED
    BY <2>7, <2>8 DEF ProvidersExist
<1>5. CASE Restart
  <2>1. api' = api /\ cache' = api /\ pc' = "idle"
    BY <1>5 DEF Restart, Free
  <2>2. \A m \in Machines : Intact(m)' => api[m].life = "live"
    BY <2>1 DEF Intact
  <2>3. \A m \in Machines : api[m].life = "live" => Intact(m)
    BY <1>3 DEF Intact
  <2> QED
    BY <1>2, <2>1, <2>2, <2>3 DEF IndInv, ProvidersExist
<1>6. ASSUME NEW m \in Machines, Sync(m) PROVE ProvidersExist'
  <2>1. /\ api' = api /\ UNCHANGED <<pc, key, seen, obj>>
        /\ cache' = [cache EXCEPT ![m] = api[m]]
    BY <1>6 DEF Sync, workerVars
  <2>2. ASSUME NEW x \in Machines
        PROVE  /\ cache'[x] = cache[x] \/ cache'[x] = api[x]
               /\ cache'[x].life = "live" => cache[x].life = "live"
    BY <1>3, <2>1 DEF IndInv, TypeOK, ManagerTypeOK
  <2>3. \A x \in Machines : Intact(x)' => Intact(x)
    BY <2>1, <2>2 DEF Intact
  <2>4. \A x \in Machines : cache[x].life = "live" => Intact(x)
    BY DEF Intact
  <2>5. name' = name
    BY <2>1 DEF name
  <2> QED
    BY <1>1, <1>2, <2>1, <2>2, <2>3, <2>4, <2>5 DEF IndInv, ProvidersExist
<1>7. ASSUME NEW m \in Machines, Reconcile(m) PROVE ProvidersExist'
  <2>1. /\ api' = api /\ cache' = cache /\ key' = m /\ seen' = cache[m] /\ pc = "idle"
    BY <1>7 DEF Reconcile, apiVars, Take
  <2>2. obj'.providerID = cache[m].providerID
    BY <1>3, <1>7 DEF Reconcile, Object, Conditions
  <2>3. \A x \in Machines : Intact(x)' => Intact(x)
    BY <2>1 DEF Intact
  <2>4. name' = InstanceName[m]
    BY <2>1 DEF name
  <2> QED
    BY <1>1, <1>2, <2>1, <2>2, <2>3, <2>4 DEF IndInv, ProvidersExist, InstanceOf
<1>8. ASSUME UNCHANGED <<cache, pc, key, seen, obj>>,
             \A m \in Machines : api'[m].providerID \in {api[m].providerID, NoId}
      PROVE  ProvidersExist'
  BY <1>1, <1>8, ProvidersFrame
<1>9. CASE TogglePause \/ Settle \/ \E m \in Machines : ReconcileSkip(m) \/ SetBootstrapData(m)
  <2>1. UNCHANGED <<api, cache, pc, key, seen, obj>>
    BY <1>9 DEF TogglePause, Settle, ReconcileSkip, SetBootstrapData, apiVars, workerVars
  <2> QED
    BY <1>8, <2>1
<1>10. ASSUME NEW m \in Machines,
              EnsurePausedCondition(m) \/ SetOwner(m) \/ RequestDelete(m)
       PROVE  ProvidersExist'
  <2>1. UNCHANGED <<cache, pc, key, seen, obj>>
    BY <1>10 DEF EnsurePausedCondition, SetOwner, RequestDelete, workerVars
  <2>2. api' = api \/ \E b \in Object : /\ api' = [api EXCEPT ![m] = b]
                                        /\ b.providerID \in {api[m].providerID, NoId}
    <3>1. CASE EnsurePausedCondition(m)
      <4> DEFINE b == [api[m] EXCEPT !.paused = PausedStatus]
      <4>1. b \in Object /\ b.providerID = api[m].providerID
        BY <1>3 DEF Object, PausedStatus, Conditions
      <4>2. api' = api \/ api' = [api EXCEPT ![m] = b]
        BY <3>1 DEF EnsurePausedCondition
      <4> HIDE DEF b
      <4> QED
        BY <4>1, <4>2
    <3>2. CASE SetOwner(m)
      <4> DEFINE b == [api[m] EXCEPT !.owned = TRUE]
      <4>1. b \in Object /\ b.providerID = api[m].providerID
        BY <1>3 DEF Object
      <4>2. api' = [api EXCEPT ![m] = b]
        BY <3>2 DEF SetOwner
      <4> HIDE DEF b
      <4> QED
        BY <4>1, <4>2
    <3>3. CASE RequestDelete(m)
      <4> DEFINE b == [api[m] EXCEPT !.life = "deleting"]
      <4>1. b \in Object /\ b.providerID = api[m].providerID
        BY <1>3 DEF Object
      <4>2. api' = [api EXCEPT ![m] = b] \/ api' = [api EXCEPT ![m] = Tombstone]
        BY <3>3 DEF RequestDelete
      <4> HIDE DEF b
      <4> QED
        BY <4>1, <4>2, TombstoneFacts, InitialObjects
    <3> QED
      BY <1>10, <3>1, <3>2, <3>3
  <2>3. \A x \in Machines : api'[x].providerID \in {api[x].providerID, NoId}
    BY <2>2 DEF IndInv, TypeOK, ManagerTypeOK
  <2> QED
    BY <1>8, <2>1, <2>3
<1> QED
  BY <1>4, <1>5, <1>6, <1>7, <1>9, <1>10 DEF Elsewhere, StartReconcile

\* Every step does.
LEMMA ProvidersStep ==
    ASSUME IndInv, Undisturbed, DistinctNames, Next
    PROVE  ProvidersExist'
<1>1. CASE CloudStep
  BY <1>1, CloudEffect, ProvidersFrame DEF workerVars, IndInv
<1> QED
  BY <1>1, StepKinds, ProvidersCall, ProvidersElsewhere

\* Every step preserves that the finalizer is given up only when the cloud is clean.
LEMMA ReleaseStep ==
    ASSUME OrderInv, NothingLate, ReadyToRelease, Undisturbed, Next
    PROVE  ReadyToRelease'
<1>1. CASE CallStep
  <2>1. pc \in CloudCalls /\ seen' = seen /\ name' = name
    BY <1>1, CallOutcome DEF name
  <2>2. seen.finalizer => obj.finalizer
    BY <2>1 DEF ReadyToRelease
  <2>3. CASE KeepsFinalizer
    BY <2>1, <2>2, <2>3 DEF KeepsFinalizer, ReadyToRelease
  <2>4. CASE IsClean
    BY <2>1, <2>4 DEF IsClean, ReadyToRelease, Patches, CloudCalls
  <2> QED
    BY <1>1, <2>3, <2>4, CallOutcome
<1>2. CASE CloudStep
  <2>1. UNCHANGED <<pc, key, seen, obj>> /\ name' = name
    BY <1>2, CloudEffect DEF workerVars, name, OrderInv
  <2>2. CASE pc = "idle"
    BY <2>1, <2>2 DEF ReadyToRelease, Patches, CloudCalls
  <2>3. CASE pc # "idle"
    <3>1. name \in Names
      BY <2>3, OrderFacts
    <3>2. /\ instance[name] = NoInstance => instance'[name] = NoInstance
          /\ bootDisk[name] = "absent" => bootDisk'[name] = "absent"
      <4>1. \A n \in Names :
               /\ instance[n] = NoInstance => instance'[n] = NoInstance
               /\ bootDisk[n] = "absent" => bootDisk'[n] = "absent"
        BY <1>2, CloudEffect DEF OrderInv
      <4> QED
        BY <3>1, <4>1
    <3>3. /\ pc \in CloudCalls /\ seen.finalizer => obj.finalizer
          /\ pc \in {"viewDisk", "deleteDisk"} => instance'[name] = NoInstance
          /\ pc \in Patches /\ seen.finalizer /\ ~obj.finalizer
               => instance'[name] = NoInstance /\ bootDisk'[name] = "absent"
      BY <3>2 DEF ReadyToRelease
    <3> QED
      BY <2>1, <3>3, Zenon DEF ReadyToRelease
  <2> QED
    BY <2>2, <2>3
<1>3. CASE PatchOxideMachine
  <2>1. pc \in Patches /\ UNCHANGED cloudVars
    BY <1>3 DEF PatchOxideMachine
  <2>2. PICK f \in BOOLEAN : AfterPart(f)
    BY <1>3 DEF PatchOxideMachine
  <2>3. pc' = "idle" \/ (pc' \in Patches /\ UNCHANGED <<key, seen, obj>> /\ name' = name)
    BY <2>1, <2>2 DEF AfterPart, Free, Patches, name
  <2>4. CASE pc' = "idle"
    BY <2>4 DEF ReadyToRelease, Patches, CloudCalls
  <2>5. CASE pc' \in Patches /\ UNCHANGED <<key, seen, obj>> /\ name' = name
    <3>1. instance' = instance /\ bootDisk' = bootDisk
      BY <2>1 DEF cloudVars
    <3>2. pc' \notin CloudCalls /\ pc' \notin {"viewDisk", "deleteDisk"}
      BY <2>5 DEF Patches, CloudCalls
    <3> QED
      BY <2>1, <2>5, <3>1, <3>2 DEF ReadyToRelease
  <2> QED
    BY <2>3, <2>4, <2>5
<1>4. ASSUME NEW m \in Machines, Reconcile(m) PROVE ReadyToRelease'
  <2>1. /\ seen' = cache[m] /\ cache[m] \in Object
        /\ pc' \in {"viewForDelete", "viewInstance", "createInstance", "patchConditions"}
    BY <1>4 DEF Reconcile, FirstCall, OrderInv, TypeOK, ManagerTypeOK
  <2>2. cache[m].finalizer => obj'.finalizer
    BY <1>4, <2>1 DEF Reconcile, Object, Conditions
  <2> QED
    BY <2>1, <2>2 DEF ReadyToRelease
<1>5. CASE Restart
  BY <1>5 DEF Restart, Free, ReadyToRelease, Patches, CloudCalls
<1>6. CASE UNCHANGED <<pc, key, seen, obj, instance, bootDisk>>
  <2>1. name' = name
    BY <1>6 DEF name
  <2> QED
    BY <1>6, <2>1 DEF ReadyToRelease
<1>7. CASE TogglePause \/ Settle
  BY <1>6, <1>7 DEF TogglePause, Settle, workerVars, cloudVars
<1>8. ASSUME NEW m \in Machines,
             \/ ReconcileSkip(m) \/ EnsurePausedCondition(m) \/ Sync(m) \/ SetOwner(m)
             \/ SetBootstrapData(m) \/ RequestDelete(m)
      PROVE  ReadyToRelease'
  BY <1>6, <1>8 DEF ReconcileSkip, EnsurePausedCondition, Sync, SetOwner, SetBootstrapData,
                    RequestDelete, workerVars, cloudVars
<1> QED
  BY <1>1, <1>2, <1>3, <1>4, <1>5, <1>7, <1>8, StepKinds DEF Elsewhere, StartReconcile

\* No creation becomes late when Faults has no slow ones.
LEMMA NothingLateStep ==
    ASSUME TypeOK, NothingLate, Undisturbed, Next
    PROVE  NothingLate'
<1>1. late = {}
  BY DEF NothingLate, Undisturbed
<1>2. CASE CallStep
  BY <1>1, <1>2
     DEF CallStep, CallFails, EnsureInstanceView, EnsureInstanceCreate, EnsureInstanceAdopt,
         InstanceStart, ListAddresses, EnsureInstanceDeleted, InstanceStop, InstanceDelete,
         Remove, EnsureDiskDeleted, DiskDelete, cloudVars, Fault, Undisturbed, NothingLate
<1>3. CASE CloudStep
  BY <1>3, CloudEffect DEF NothingLate
<1>4. CASE Elsewhere
  BY <1>1, <1>4, ElsewhereEffect DEF cloudVars, NothingLate
<1> QED
  BY <1>2, <1>3, <1>4, StepKinds

\* A step that changes no variable preserves the invariant.
LEMMA StutterIndInv == ASSUME IndInv, UNCHANGED vars PROVE IndInv'
<1>1. TypeOK'
  BY NextType DEF IndInv
<1>2. UNCHANGED <<api, cache, pc, key, seen, obj, instance, bootDisk, late>> /\ name' = name
  BY DEF vars, apiVars, workerVars, cloudVars, name
<1>3. ObjectsAreOrdered' /\ WorkerIsConsistent' /\ ReadyToRelease' /\ NothingLate'
  BY <1>2 DEF IndInv, ObjectsAreOrdered, WorkerIsConsistent, ReadyToRelease, NothingLate
<1>4. KeepsIds /\ UNCHANGED <<cache, pc, key, seen, obj>>
      /\ \A m \in Machines : api'[m].providerID \in {api[m].providerID, NoId}
  BY <1>2 DEF KeepsIds
<1> QED
  BY <1>1, <1>3, <1>4, ProvidersFrame DEF IndInv

(***************************************************************************)
(* The invariant that the safety properties of the reconciler rest on is   *)
(* inductive when nothing is created late or deleted out of band and no    *)
(* two machines share a name.                                              *)
(***************************************************************************)
THEOREM Invariance ==
    ASSUME Undisturbed, DistinctNames
    PROVE  Spec => []IndInv
<1>1. Init => IndInv
  BY InitIndInv
<1>2. IndInv /\ [Next]_vars => IndInv'
  <2> SUFFICES ASSUME IndInv, [Next]_vars PROVE IndInv'
    OBVIOUS
  <2>1. CASE Next
    <3>1. OrderInv /\ TypeOK'
      BY <2>1, NextType DEF IndInv, OrderInv
    <3>2. ObjectsAreOrdered' /\ WorkerIsConsistent'
      BY <2>1, <3>1, OrderedStep, ConsistentStep
    <3> QED
      BY <2>1, <3>1, <3>2, ProvidersStep, ReleaseStep, NothingLateStep DEF IndInv
  <2>2. CASE UNCHANGED vars
    BY <2>2, StutterIndInv
  <2> QED
    BY <2>1, <2>2
<1> QED
  BY <1>1, <1>2, PTL DEF Spec

(***************************************************************************)
(* ensureInstance: the provider id of a machine that is not being deleted  *)
(* is that of the instance which has the machine's name.                   *)
(***************************************************************************)
THEOREM ProvidersAreReal ==
    ASSUME Undisturbed, DistinctNames
    PROVE  Spec => []LiveMachineHasInstance
<1>1. IndInv => LiveMachineHasInstance
  <2> SUFFICES ASSUME IndInv, NEW m \in Machines,
                      api[m].life = "live", api[m].providerID # NoId
               PROVE  InstanceOf(m).id = api[m].providerID
    BY DEF LiveMachineHasInstance
  <2>1. Intact(m)
    BY DEF IndInv, ObjectsAreOrdered, Precedes, Intact, TypeOK, ManagerTypeOK, Object
  <2> QED
    BY <2>1 DEF IndInv, ProvidersExist
<1> QED
  BY <1>1, Invariance, PTL

\* A worker that deletes has seen its machine deleted, and only has that machine's name.
LEMMA DeletesItsOwn == ASSUME OrderInv, DistinctNames PROVE SparesLiveMachines
<1> SUFFICES ASSUME pc \in {"stopInstance", "deleteInstance", "deleteDisk"},
                    NEW m \in Machines, InstanceName[m] = name
             PROVE  api[m].life # "live"
  BY DEF SparesLiveMachines
<1>1. m = key
  BY OrderFacts DEF DistinctNames, name
<1>2. seen.life = "deleting" /\ Precedes(seen, api[key])
  BY OrderFacts DEF OrderInv, WorkerIsConsistent
<1> QED
  BY <1>1, <1>2 DEF Precedes

(***************************************************************************)
(* handleDelete: the worker is never about to stop or delete what belongs  *)
(* to a machine that nobody asked to delete, whatever the faults are.      *)
(***************************************************************************)
THEOREM LiveMachinesAreSpared ==
    ASSUME DistinctNames
    PROVE  Spec => []SparesLiveMachines
<1>1. OrderInv => SparesLiveMachines
  BY DeletesItsOwn
<1> QED
  BY <1>1, Order, PTL

\* Only the patch takes an object away that is being deleted.
LEMMA CleanStep ==
    ASSUME OrderInv, ReadyToRelease, Next
    PROVE  CleanRelease
<1> SUFFICES ASSUME NEW m \in Machines, api[m].life = "deleting", api'[m].life = "gone"
             PROVE  InstanceOf(m) = NoInstance /\ BootDiskOf(m) = "absent"
  BY DEF CleanRelease
<1>1. CASE Unseen
  BY <1>1, UnseenFrame
<1>2. CASE PatchOxideMachine
  <2>1. pc \in Patches /\ pc # "idle"
    BY <1>2 DEF PatchOxideMachine, Patches
  <2>2. /\ key \in Machines /\ obj \in Object /\ seen \in Object /\ api[key] \in Object
    BY <2>1, OrderFacts
  <2>3. m = key /\ Merge(pc, api[key]).life = "gone"
    BY <1>2, <2>2 DEF PatchOxideMachine, OrderInv, TypeOK, ManagerTypeOK
  <2>4. seen.finalizer /\ ~obj.finalizer
    BY <2>1, <2>2, <2>3 DEF Merge, MergeField, Patches, Object
  <2> QED
    BY <2>1, <2>3, <2>4 DEF ReadyToRelease, InstanceOf, BootDiskOf, name
<1>3. CASE Restart
  BY <1>3 DEF Restart
<1>4. ASSUME NEW x \in Machines,
             EnsurePausedCondition(x) \/ Sync(x) \/ SetOwner(x) \/ RequestDelete(x)
      PROVE  FALSE
  <2>1. api[x] \in Object /\ api \in [Machines -> Object]
    BY DEF OrderInv, TypeOK, ManagerTypeOK
  <2>2. CASE EnsurePausedCondition(x)
    BY <2>1, <2>2 DEF EnsurePausedCondition, Object
  <2>3. CASE Sync(x)
    BY <2>3 DEF Sync
  <2>4. CASE SetOwner(x)
    BY <2>1, <2>4 DEF SetOwner, Object
  <2>5. CASE RequestDelete(x)
    BY <2>1, <2>5 DEF RequestDelete, Object
  <2> QED
    BY <1>4, <2>2, <2>3, <2>4, <2>5
<1> QED
  BY <1>1, <1>2, <1>3, <1>4, NextCases

\* A step that changes no variable.
LEMMA StutterReady ==
    ASSUME NothingLate, ReadyToRelease, UNCHANGED vars
    PROVE  NothingLate' /\ ReadyToRelease'
<1>1. UNCHANGED <<pc, seen, obj, instance, bootDisk, late>> /\ name' = name
  BY DEF vars, workerVars, cloudVars, name
<1> QED
  BY <1>1 DEF ReadyToRelease, NothingLate

(***************************************************************************)
(* The finalizer is given up in memory only when instance and boot disk    *)
(* are gone, and they stay so until the patch: whatever the names are.     *)
(***************************************************************************)
THEOREM Readiness ==
    ASSUME Undisturbed
    PROVE  Spec => [](NothingLate /\ ReadyToRelease)
<1> DEFINE Inv == NothingLate /\ ReadyToRelease
<1>1. Init => Inv
  BY InitIndInv DEF IndInv
<1>2. OrderInv /\ Inv /\ [Next]_vars => Inv'
  <2> SUFFICES ASSUME OrderInv, Inv, [Next]_vars PROVE Inv'
    OBVIOUS
  <2>1. CASE Next
    BY <2>1, ReleaseStep, NothingLateStep DEF OrderInv
  <2>2. CASE UNCHANGED vars
    BY <2>2, StutterReady
  <2> QED
    BY <2>1, <2>2
<1> QED
  BY <1>1, <1>2, Order, PTL DEF Spec

(***************************************************************************)
(* handleDelete: whatever removes the finalizer of a deleted machine finds *)
(* its instance and its boot disk gone.                                    *)
(***************************************************************************)
THEOREM ReleasesAreClean ==
    ASSUME Undisturbed
    PROVE  Spec => ReleaseIsClean
<1>1. OrderInv /\ ReadyToRelease /\ [Next]_vars => [CleanRelease]_vars
  BY CleanStep
<1> QED
  BY <1>1, Readiness, Order, PTL DEF Spec, ReleaseIsClean

\* A part of the deferred patch never leads to another provider id.
LEMMA MergeKeepsProvider ==
    ASSUME IndInv, pc \in Patches, api[key].providerID # NoId,
           Merge(pc, api[key]).life # "gone"
    PROVE  Merge(pc, api[key]).providerID = api[key].providerID
<1> DEFINE a == api[key]
<1>1. /\ a \in Object /\ obj \in Object /\ seen \in Object /\ pc # "idle"
  BY BusyFacts DEF Patches
<1>2. CASE pc = "patchConditions"
  BY <1>1, <1>2 DEF Merge, Object
<1>3. CASE pc = "patchSpec"
  <2>1. CASE seen.finalizer /\ ~obj.finalizer /\ a.life = "deleting"
    BY <1>3, <2>1, TombstoneFacts DEF Merge
  <2>2. CASE ~(seen.finalizer /\ ~obj.finalizer /\ a.life = "deleting")
    <3>1. Merge(pc, a).providerID = (IF obj.providerID # seen.providerID THEN obj.providerID
                                     ELSE a.providerID)
      BY <1>1, <1>3, <2>2 DEF Merge, MergeField, Object
    <3>2. CASE obj.providerID # seen.providerID
      <4>1. seen.life = "live" /\ obj.providerID # NoId
        BY <1>1, <3>2 DEF IndInv, WorkerIsConsistent
      <4>2. obj.providerID = instance[name].id
        BY <1>1, <4>1 DEF IndInv, ProvidersExist
      <4> QED
        BY <1>1, <3>1, <3>2, <4>1, <4>2, BusyFacts
    <3> QED
      BY <3>1, <3>2
  <2> QED
    BY <2>1, <2>2
<1>4. CASE pc = "patchStatus"
  BY <1>1, <1>4 DEF Merge, Object
<1> QED
  BY <1>2, <1>3, <1>4 DEF Patches

(***************************************************************************)
(* ensureInstance with stale caches, conflicts, lost replies and restarts: *)
(* a stored provider id is not replaced by another one.                    *)
(***************************************************************************)
THEOREM ProviderIDsAreStable ==
    ASSUME Undisturbed, DistinctNames
    PROVE  Spec => ProviderIDStable
<1>1. IndInv /\ [Next]_vars => [KeepsProviderID]_vars
  <2> SUFFICES ASSUME IndInv, Next, NEW m \in Machines,
                      api[m].providerID # NoId, api'[m].life # "gone"
               PROVE  api'[m].providerID = api[m].providerID
    BY DEF KeepsProviderID
  <2>1. CASE Unseen
    BY <2>1, UnseenFrame
  <2>2. CASE PatchOxideMachine
    <3>1. pc \in Patches /\ pc # "idle"
      BY <2>2 DEF PatchOxideMachine, Patches
    <3>2. key \in Machines
      BY <3>1, BusyFacts
    <3>3. CASE api'[m] # api[m]
      <4>1. /\ m = key /\ api[key].life # "gone" /\ api'[m] = Merge(pc, api[key])
        BY <2>2, <3>2, <3>3 DEF PatchOxideMachine, IndInv, TypeOK, ManagerTypeOK
      <4> QED
        BY <3>1, <4>1, MergeKeepsProvider
    <3> QED
      BY <3>3
  <2>3. CASE Restart
    BY <2>3 DEF Restart
  <2>4. ASSUME NEW x \in Machines,
               EnsurePausedCondition(x) \/ Sync(x) \/ SetOwner(x) \/ RequestDelete(x)
        PROVE  api'[m].providerID = api[m].providerID
    <3>1. api[x] \in Object /\ api \in [Machines -> Object]
      BY DEF IndInv, TypeOK, ManagerTypeOK
    <3>2. CASE EnsurePausedCondition(x)
      BY <3>1, <3>2 DEF EnsurePausedCondition, Object
    <3>3. CASE Sync(x)
      BY <3>3 DEF Sync
    <3>4. CASE SetOwner(x)
      BY <3>1, <3>4 DEF SetOwner, Object
    <3>5. CASE RequestDelete(x)
      BY <3>1, <3>5, TombstoneFacts DEF RequestDelete, Object
    <3> QED
      BY <2>4, <3>2, <3>3, <3>4, <3>5
  <2> QED
    BY <2>1, <2>2, <2>3, <2>4, NextCases
<1> QED
  BY <1>1, Invariance, PTL DEF Spec, ProviderIDStable

-----------------------------------------------------------------------------
(***************************************************************************)
(* What a process of the manager does to another one that works on the     *)
(* same objects and instances: OxideManagersProofs.                        *)
(***************************************************************************)

\* Who believes in an instance of a live machine goes on being right.
KeepsLiveIds ==
    \A m \in Machines :
        api'[m].life = "live" /\ InstanceOf(m).id # NoId => InstanceOf(m).id' = InstanceOf(m).id

\* What is live has been live.
LEMMA LiveBefore ==
    ASSUME TypeOK, LaterObjects, NEW m \in Machines, api'[m].life = "live"
    PROVE  api[m].life = "live"
BY DEF TypeOK, ManagerTypeOK, LaterObjects, Precedes, Object

\* The instance of a live machine is neither replaced nor removed.
LEMMA IdsOfTheLive ==
    ASSUME OrderInv, NothingLate, Undisturbed, DistinctNames, Next
    PROVE  KeepsLiveIds
<1> SUFFICES ASSUME NEW m \in Machines, api'[m].life = "live", InstanceOf(m).id # NoId
             PROVE  InstanceOf(m).id' = InstanceOf(m).id
  BY DEF KeepsLiveIds
<1>1. InstanceName[m] \in Names
  OBVIOUS
<1>2. KeepsIds => InstanceOf(m).id' = InstanceOf(m).id
  BY <1>1 DEF KeepsIds, InstanceOf
<1>3. CASE CallStep
  <2>1. api' = api /\ pc # "idle"
    BY <1>3, UnseenFrame, CallOutcome DEF CallStep, Unseen, CloudCalls
  <2>2. InstanceName[key] = name /\ key \in Machines
    BY <2>1, OrderFacts DEF name
  <2>3. CASE Creates
    <3>1. InstanceName[m] # name
      BY <2>3, NoInstanceFacts DEF Creates, InstanceOf
    <3> QED
      BY <1>1, <2>3, <3>1 DEF Creates, KeepsOtherIds, InstanceOf
  <2>4. CASE Removes
    <3>1. seen.life = "deleting" /\ Precedes(seen, api[key])
      BY <2>1, <2>4, OrderFacts DEF Removes, OrderInv, WorkerIsConsistent
    <3>2. m # key
      BY <2>1, <3>1 DEF Precedes
    <3> QED
      BY <1>1, <2>2, <2>4, <3>2 DEF Removes, KeepsOtherIds, InstanceOf, DistinctNames
  <2> QED
    BY <1>2, <1>3, <2>3, <2>4, CallOutcome
<1>4. CASE CloudStep
  BY <1>2, <1>4, CloudEffect DEF OrderInv
<1>5. CASE Elsewhere
  BY <1>5, ElsewhereEffect DEF cloudVars, InstanceOf
<1> QED
  BY <1>3, <1>4, <1>5, StepKinds

\* A part of the patch stores no other provider id than the object's or the worker's.
LEMMA MergedProvider ==
    ASSUME OrderInv, pc \in Patches, Merge(pc, api[key]).life # "gone"
    PROVE  Merge(pc, api[key]).providerID \in {api[key].providerID, obj.providerID}
<1> DEFINE a == api[key]
<1>1. a \in Object /\ obj \in Object /\ seen \in Object
  BY OrderFacts DEF Patches
<1>2. CASE pc = "patchSpec"
  <2>1. CASE seen.finalizer /\ ~obj.finalizer /\ a.life = "deleting"
    BY <1>2, <2>1, TombstoneFacts DEF Merge
  <2> QED
    BY <1>1, <1>2, <2>1 DEF Merge, MergeField, Object
<1>3. CASE pc # "patchSpec"
  BY <1>1, <1>3 DEF Merge, Patches, Object
<1> QED
  BY <1>2, <1>3

\* What the objects and the cache know of live machines, in the next state.
LEMMA LiveIdsFrame ==
    ASSUME KeepsLiveIds,
           \A m \in Machines : api'[m].life = "live" =>
               {api'[m].providerID, cache'[m].providerID} \subseteq {NoId, InstanceOf(m).id},
           pc' # "idle" => key' \in Machines,
           pc' # "idle" /\ api'[key'].life = "live" =>
               obj'.providerID \in {NoId, instance[name'].id, instance'[name'].id}
    PROVE  LiveIdsAreReal'
<1>1. ASSUME pc' # "idle", api'[key'].life = "live"
      PROVE  obj'.providerID \in {NoId, instance'[name'].id}
  <2>1. PICK m \in Machines : m = key'
    BY <1>1
  <2>2. InstanceOf(m).id = instance[name'].id /\ InstanceOf(m).id' = instance'[name'].id
    BY <2>1 DEF InstanceOf, name
  <2> QED
    BY <1>1, <2>1, <2>2 DEF KeepsLiveIds
<1> QED
  BY <1>1 DEF LiveIdsAreReal, KeepsLiveIds

\* Every step preserves that beliefs about live machines are right.
LEMMA LiveIdsStep ==
    ASSUME OrderInv, LiveIdsAreReal, NothingLate, Undisturbed, DistinctNames, Next
    PROVE  LiveIdsAreReal'
<1>1. KeepsLiveIds /\ LaterObjects
  BY IdsOfTheLive, OrderedStep
<1>2. \A m \in Machines : api'[m].life = "live" => api[m].life = "live"
  BY <1>1, LiveBefore DEF OrderInv
<1>3. /\ api \in [Machines -> Object] /\ cache \in [Machines -> Object]
      /\ pc # "idle" => key \in Machines
  BY OrderFacts DEF OrderInv, TypeOK, ManagerTypeOK
<1>4. CASE /\ api' = api /\ cache' = cache /\ key' = key /\ (pc' = "idle" <=> pc = "idle")
           /\ obj'.providerID = obj.providerID \/ obj'.providerID = instance'[name].id
  <2>1. name' = name
    BY <1>4 DEF name
  <2> QED
    BY <1>1, <1>3, <1>4, <2>1, LiveIdsFrame DEF LiveIdsAreReal
<1>5. CASE CallStep
  BY <1>4, <1>5, CallOutcome, UnseenFrame DEF CallStep, Unseen, CloudCalls
<1>6. CASE CloudStep
  BY <1>4, <1>6, CloudEffect DEF OrderInv, workerVars
<1>7. CASE PatchOxideMachine
  <2>1. pc \in Patches /\ pc # "idle" /\ cache' = cache
    BY <1>7 DEF PatchOxideMachine, Patches
  <2>2. pc' = "idle" \/ UNCHANGED <<key, obj>>
    BY <1>7 DEF PatchOxideMachine, AfterPart, Free
  <2>3. ASSUME NEW m \in Machines, api'[m].life = "live"
        PROVE  api'[m].providerID \in {NoId, InstanceOf(m).id}
    <3>1. CASE api'[m] = api[m]
      BY <2>3, <3>1 DEF LiveIdsAreReal
    <3>2. CASE api'[m] # api[m]
      <4>1. m = key /\ api'[m] = Merge(pc, api[key])
        BY <1>3, <1>7, <2>1, <3>2 DEF PatchOxideMachine
      <4>2. Merge(pc, api[key]).providerID \in {api[key].providerID, obj.providerID}
        BY <2>1, <2>3, <4>1, MergedProvider
      <4> QED
        BY <1>2, <2>1, <2>3, <4>1, <4>2 DEF LiveIdsAreReal, InstanceOf, name
    <3> QED
      BY <3>1, <3>2
  <2>4. pc' # "idle" => name' = name
    BY <2>2 DEF name
  <2> QED
    BY <1>1, <1>2, <1>3, <2>1, <2>2, <2>3, <2>4, LiveIdsFrame DEF LiveIdsAreReal
<1>8. CASE Restart
  BY <1>1, <1>8, LiveIdsFrame DEF Restart, Free, LiveIdsAreReal
<1>9. ASSUME NEW m \in Machines, Sync(m) PROVE LiveIdsAreReal'
  <2>1. /\ api' = api /\ UNCHANGED <<pc, key, obj>> /\ name' = name
        /\ \A x \in Machines : cache'[x] = cache[x] \/ cache'[x] = api[x]
    BY <1>3, <1>9 DEF Sync, workerVars, name
  <2> QED
    BY <1>1, <1>3, <2>1, LiveIdsFrame DEF LiveIdsAreReal
<1>10. ASSUME NEW m \in Machines, Reconcile(m) PROVE LiveIdsAreReal'
  <2>1. api' = api /\ cache' = cache /\ key' = m /\ name' = InstanceName[m]
    BY <1>10 DEF Reconcile, apiVars, name
  <2>2. obj'.providerID = cache[m].providerID
    BY <1>3, <1>10 DEF Reconcile, Object, Conditions
  <2> QED
    BY <1>1, <1>3, <2>1, <2>2, LiveIdsFrame DEF LiveIdsAreReal, InstanceOf
<1>11. ASSUME UNCHANGED <<cache, pc, key, obj>>,
              \A m \in Machines : api'[m].providerID \in {api[m].providerID, NoId}
       PROVE  LiveIdsAreReal'
  <2>1. name' = name
    BY <1>11 DEF name
  <2> QED
    BY <1>1, <1>2, <1>3, <1>11, <2>1, LiveIdsFrame DEF LiveIdsAreReal
<1>12. CASE TogglePause \/ Settle \/ \E m \in Machines : ReconcileSkip(m) \/ SetBootstrapData(m)
  <2>1. UNCHANGED <<api, cache, pc, key, obj>>
    BY <1>12 DEF TogglePause, Settle, ReconcileSkip, SetBootstrapData, apiVars, workerVars
  <2> QED
    BY <1>11, <2>1
<1>13. ASSUME NEW m \in Machines, EnsurePausedCondition(m) \/ SetOwner(m) \/ RequestDelete(m)
       PROVE  LiveIdsAreReal'
  <2>1. UNCHANGED <<cache, pc, key, obj>>
    BY <1>13 DEF EnsurePausedCondition, SetOwner, RequestDelete, workerVars
  <2>2. \A x \in Machines : api'[x].providerID \in {api[x].providerID, NoId}
    BY <1>3, <1>13, TombstoneFacts
       DEF EnsurePausedCondition, SetOwner, RequestDelete, Object
  <2> QED
    BY <1>11, <2>1, <2>2
<1> QED
  BY <1>5, <1>6, <1>7, <1>8, <1>9, <1>10, <1>12, <1>13, StepKinds DEF Elsewhere, StartReconcile

\* A step that changes no variable.
LEMMA StutterLiveIds == ASSUME LiveIdsAreReal, UNCHANGED vars PROVE LiveIdsAreReal'
<1>1. UNCHANGED <<api, cache, pc, key, obj, instance>>
  BY DEF vars, apiVars, workerVars, cloudVars
<1> QED
  BY <1>1 DEF LiveIdsAreReal, InstanceOf, name

\* A process that stands still stays behind the objects that another one changes.
LEMMA OrderBeside ==
    ASSUME OrderInv, LaterObjects, api' \in [Machines -> Object],
           \A m \in Machines : WellFormed(api'[m]), UNCHANGED <<cache, workerVars>>
    PROVE  ObjectsAreOrdered' /\ WorkerIsConsistent'
<1>1. ASSUME NEW m \in Machines
      PROVE  WellFormed(cache[m]) /\ Precedes(cache[m], api'[m])
  <2>1. /\ cache[m] \in Object /\ api[m] \in Object /\ api'[m] \in Object
        /\ Precedes(cache[m], api[m]) /\ Precedes(api[m], api'[m]) /\ WellFormed(cache[m])
    BY DEF OrderInv, TypeOK, ManagerTypeOK, ObjectsAreOrdered, LaterObjects
  <2> QED
    BY <2>1, PrecedesTransitive
<1>2. ObjectsAreOrdered'
  BY <1>1 DEF ObjectsAreOrdered
<1>3. WorkerIsConsistent'
  BY DEF OrderInv, WorkerIsConsistent, workerVars
<1> QED
  BY <1>2, <1>3

\* And is right about the machines that are live, as long as it was.
LEMMA LiveIdsBeside ==
    ASSUME OrderInv, LiveIdsAreReal, LaterObjects, KeepsLiveIds, UNCHANGED <<cache, workerVars>>,
           \A m \in Machines : api'[m].life = "live"
                                 => api'[m].providerID \in {NoId, InstanceOf(m).id'}
    PROVE  LiveIdsAreReal'
<1>1. ASSUME NEW m \in Machines, api'[m].life = "live"
      PROVE  /\ cache'[m].providerID \in {NoId, InstanceOf(m).id'}
             /\ InstanceOf(m).id # NoId => InstanceOf(m).id' = InstanceOf(m).id
             /\ api[m].life = "live"
  BY <1>1, LiveBefore DEF OrderInv, LiveIdsAreReal, KeepsLiveIds
<1>2. ASSUME pc # "idle", api'[key].life = "live"
      PROVE  obj.providerID \in {NoId, instance'[name].id}
  <2>1. PICK m \in Machines : m = key
    BY <1>2, OrderFacts
  <2>2. InstanceOf(m).id = instance[name].id /\ InstanceOf(m).id' = instance'[name].id
    BY <2>1 DEF InstanceOf, name
  <2> QED
    BY <1>1, <1>2, <2>1, <2>2 DEF LiveIdsAreReal
<1>3. UNCHANGED <<pc, key, obj>> /\ name' = name
  BY DEF workerVars, name
<1> QED
  BY <1>1, <1>2, <1>3 DEF LiveIdsAreReal
==============================================================================
