-------------------------- MODULE OxideManagersProofs --------------------------
(***************************************************************************)
(* Proofs about two processes of the manager: what each of them relies on  *)
(* is kept by its own steps, as OxideMachineProofs has it for one process, *)
(* and by the steps of the other one.                                      *)
(***************************************************************************)
EXTENDS OxideManagers, TLAPS

\* The two processes again, with what is proved of one.
PA == INSTANCE OxideMachineWakeupProofs WITH
        cache <- cacheA, queue <- queueA, pc <- pcA, key <- keyA,
        seen <- seenA, obj <- objA, target <- targetA, again <- againA
PB == INSTANCE OxideMachineWakeupProofs WITH
        cache <- cacheB, queue <- queueB, pc <- pcB, key <- keyB,
        seen <- seenB, obj <- objB, target <- targetB, again <- againB

USE NamesAssumption, NoIdAssumption, NoMachineAssumption, FaultsAssumption
    DEF PA!FaultKinds, PB!FaultKinds

-----------------------------------------------------------------------------
(***************************************************************************)
(* A and PA, B and PB: the same definitions under two names.               *)
(***************************************************************************)

\* The data.
LEMMA SameData ==
    /\ A!Object = PA!Object /\ A!Tombstone = PA!Tombstone /\ A!NewObjects = PA!NewObjects
    /\ A!Instance = PA!Instance /\ A!NoInstance = PA!NoInstance
    /\ A!Patches = PA!Patches /\ A!CloudCalls = PA!CloudCalls
    /\ B!Object = PB!Object /\ B!Tombstone = PB!Tombstone /\ B!NewObjects = PB!NewObjects
    /\ B!Instance = PB!Instance /\ B!NoInstance = PB!NoInstance
    /\ B!Patches = PB!Patches /\ B!CloudCalls = PB!CloudCalls
    /\ PA!Object = PB!Object /\ PA!Tombstone = PB!Tombstone
    /\ PA!Instance = PB!Instance /\ PA!NoInstance = PB!NoInstance
BY DEF A!Object, A!Tombstone, A!NewObjects, A!NewObject, A!Instance, A!NoInstance, A!Patches,
       A!CloudCalls, A!Conditions, A!Ids, A!RunStates,
       PA!Object, PA!Tombstone, PA!NewObjects, PA!NewObject, PA!Instance, PA!NoInstance,
       PA!Patches, PA!CloudCalls, PA!Conditions, PA!Ids, PA!RunStates,
       B!Object, B!Tombstone, B!NewObjects, B!NewObject, B!Instance, B!NoInstance, B!Patches,
       B!CloudCalls, B!Conditions, B!Ids, B!RunStates,
       PB!Object, PB!Tombstone, PB!NewObjects, PB!NewObject, PB!Instance, PB!NoInstance,
       PB!Patches, PB!CloudCalls, PB!Conditions, PB!Ids, PB!RunStates
\* What the worker of A does.
LEMMA SameWorkerA == A!WorkerStep => PA!WorkerStep
<1>1. A!PatchOxideMachine => PA!PatchOxideMachine
  BY SameData DEF A!PatchOxideMachine, A!NothingToMerge, A!Conflict, A!Merge, A!MergeField,
         A!AfterPart, A!Free, A!Fault, A!cloudVars, PA!PatchOxideMachine, PA!NothingToMerge,
         PA!Conflict, PA!Merge, PA!MergeField, PA!AfterPart, PA!Free, PA!Fault, PA!cloudVars
<1>2. /\ A!CallFails => PA!CallFails
      /\ A!EnsureInstanceView => PA!EnsureInstanceView
      /\ A!EnsureInstanceAdopt => PA!EnsureInstanceAdopt
      /\ A!ListAddresses => PA!ListAddresses
  BY SameData DEF A!CallFails, A!EnsureInstanceView, A!EnsureInstanceAdopt, A!ListAddresses,
         A!EnsureInstanceRunning, A!Startable, A!Return, A!name, A!Fault, A!apiVars, A!cloudVars,
         A!RunStates, PA!CallFails, PA!EnsureInstanceView, PA!EnsureInstanceAdopt,
         PA!ListAddresses, PA!EnsureInstanceRunning, PA!Startable, PA!Return, PA!name, PA!Fault,
         PA!apiVars, PA!cloudVars, PA!RunStates
<1>3. /\ A!EnsureInstanceCreate => PA!EnsureInstanceCreate
      /\ A!InstanceStart => PA!InstanceStart
  BY SameData DEF A!EnsureInstanceCreate, A!InstanceStart, A!EnsureInstanceRunning, A!Startable,
         A!Creatable, A!Launch, A!Return, A!NotReady, A!name, A!Fault, A!apiVars, A!cloudVars,
         A!RunStates, PA!EnsureInstanceCreate, PA!InstanceStart, PA!EnsureInstanceRunning,
         PA!Startable, PA!Creatable, PA!Launch, PA!Return, PA!NotReady, PA!name, PA!Fault,
         PA!apiVars, PA!cloudVars, PA!RunStates
<1>4. /\ A!EnsureInstanceDeleted => PA!EnsureInstanceDeleted
      /\ A!InstanceStop => PA!InstanceStop
      /\ A!InstanceDelete => PA!InstanceDelete
  BY SameData DEF A!EnsureInstanceDeleted, A!InstanceStop, A!InstanceDelete, A!Return, A!GoTo,
         A!NotReady, A!InstanceGone, A!Destroyable, A!Remove, A!name, A!Fault, A!apiVars,
         A!cloudVars, PA!EnsureInstanceDeleted, PA!InstanceStop, PA!InstanceDelete, PA!Return,
         PA!GoTo, PA!NotReady, PA!InstanceGone, PA!Destroyable, PA!Remove, PA!name, PA!Fault,
         PA!apiVars, PA!cloudVars
<1>5. /\ A!EnsureDiskDeleted => PA!EnsureDiskDeleted
      /\ A!DiskDelete => PA!DiskDelete
  BY SameData DEF A!EnsureDiskDeleted, A!DiskDelete, A!Return, A!GoTo, A!RemoveFinalizer, A!Gone,
         A!name, A!Fault, A!apiVars, A!cloudVars, PA!EnsureDiskDeleted, PA!DiskDelete, PA!Return,
         PA!GoTo, PA!RemoveFinalizer, PA!Gone, PA!name, PA!Fault, PA!apiVars, PA!cloudVars
<1> QED
  BY <1>1, <1>2, <1>3, <1>4, <1>5 DEF A!WorkerStep, PA!WorkerStep

\* How A starts a reconcile.
LEMMA SameStartA ==
    ASSUME NEW m \in Machines, A!StartReconcile(m) PROVE PA!StartReconcile(m)
BY SameData DEF A!StartReconcile, A!ReconcileSkip, A!EnsurePausedCondition, A!PausedStatus,
       A!Reconcile, A!FirstCall, A!Take, A!Fault, A!apiVars, A!workerVars, A!cloudVars,
       PA!StartReconcile, PA!ReconcileSkip, PA!EnsurePausedCondition, PA!PausedStatus,
       PA!Reconcile, PA!FirstCall, PA!Take, PA!Fault, PA!apiVars, PA!workerVars, PA!cloudVars

\* Its informers and restarts.
LEMMA SameManagerA ==
    /\ A!Restart => PA!Restart
    /\ \A m \in Machines : A!Sync(m) => PA!Sync(m)
BY SameData DEF A!Restart, A!Sync, A!Free, A!Listed, A!Fault, A!workerVars, A!cloudVars,
       PA!Restart, PA!Sync, PA!Free, PA!Listed, PA!Fault, PA!workerVars, PA!cloudVars

\* What the worker of B does.
LEMMA SameWorkerB == B!WorkerStep => PB!WorkerStep
<1>1. B!PatchOxideMachine => PB!PatchOxideMachine
  BY SameData DEF B!PatchOxideMachine, B!NothingToMerge, B!Conflict, B!Merge, B!MergeField,
         B!AfterPart, B!Free, B!Fault, B!cloudVars, PB!PatchOxideMachine, PB!NothingToMerge,
         PB!Conflict, PB!Merge, PB!MergeField, PB!AfterPart, PB!Free, PB!Fault, PB!cloudVars
<1>2. /\ B!CallFails => PB!CallFails
      /\ B!EnsureInstanceView => PB!EnsureInstanceView
      /\ B!EnsureInstanceAdopt => PB!EnsureInstanceAdopt
      /\ B!ListAddresses => PB!ListAddresses
  BY SameData DEF B!CallFails, B!EnsureInstanceView, B!EnsureInstanceAdopt, B!ListAddresses,
         B!EnsureInstanceRunning, B!Startable, B!Return, B!name, B!Fault, B!apiVars, B!cloudVars,
         B!RunStates, PB!CallFails, PB!EnsureInstanceView, PB!EnsureInstanceAdopt,
         PB!ListAddresses, PB!EnsureInstanceRunning, PB!Startable, PB!Return, PB!name, PB!Fault,
         PB!apiVars, PB!cloudVars, PB!RunStates
<1>3. /\ B!EnsureInstanceCreate => PB!EnsureInstanceCreate
      /\ B!InstanceStart => PB!InstanceStart
  BY SameData DEF B!EnsureInstanceCreate, B!InstanceStart, B!EnsureInstanceRunning, B!Startable,
         B!Creatable, B!Launch, B!Return, B!NotReady, B!name, B!Fault, B!apiVars, B!cloudVars,
         B!RunStates, PB!EnsureInstanceCreate, PB!InstanceStart, PB!EnsureInstanceRunning,
         PB!Startable, PB!Creatable, PB!Launch, PB!Return, PB!NotReady, PB!name, PB!Fault,
         PB!apiVars, PB!cloudVars, PB!RunStates
<1>4. /\ B!EnsureInstanceDeleted => PB!EnsureInstanceDeleted
      /\ B!InstanceStop => PB!InstanceStop
      /\ B!InstanceDelete => PB!InstanceDelete
  BY SameData DEF B!EnsureInstanceDeleted, B!InstanceStop, B!InstanceDelete, B!Return, B!GoTo,
         B!NotReady, B!InstanceGone, B!Destroyable, B!Remove, B!name, B!Fault, B!apiVars,
         B!cloudVars, PB!EnsureInstanceDeleted, PB!InstanceStop, PB!InstanceDelete, PB!Return,
         PB!GoTo, PB!NotReady, PB!InstanceGone, PB!Destroyable, PB!Remove, PB!name, PB!Fault,
         PB!apiVars, PB!cloudVars
<1>5. /\ B!EnsureDiskDeleted => PB!EnsureDiskDeleted
      /\ B!DiskDelete => PB!DiskDelete
  BY SameData DEF B!EnsureDiskDeleted, B!DiskDelete, B!Return, B!GoTo, B!RemoveFinalizer, B!Gone,
         B!name, B!Fault, B!apiVars, B!cloudVars, PB!EnsureDiskDeleted, PB!DiskDelete, PB!Return,
         PB!GoTo, PB!RemoveFinalizer, PB!Gone, PB!name, PB!Fault, PB!apiVars, PB!cloudVars
<1> QED
  BY <1>1, <1>2, <1>3, <1>4, <1>5 DEF B!WorkerStep, PB!WorkerStep

\* How B starts a reconcile.
LEMMA SameStartB ==
    ASSUME NEW m \in Machines, B!StartReconcile(m) PROVE PB!StartReconcile(m)
BY SameData DEF B!StartReconcile, B!ReconcileSkip, B!EnsurePausedCondition, B!PausedStatus,
       B!Reconcile, B!FirstCall, B!Take, B!Fault, B!apiVars, B!workerVars, B!cloudVars,
       PB!StartReconcile, PB!ReconcileSkip, PB!EnsurePausedCondition, PB!PausedStatus,
       PB!Reconcile, PB!FirstCall, PB!Take, PB!Fault, PB!apiVars, PB!workerVars, PB!cloudVars

\* Its informers and restarts.
LEMMA SameManagerB ==
    /\ B!Restart => PB!Restart
    /\ \A m \in Machines : B!Sync(m) => PB!Sync(m)
BY SameData DEF B!Restart, B!Sync, B!Free, B!Listed, B!Fault, B!workerVars, B!cloudVars,
       PB!Restart, PB!Sync, PB!Free, PB!Listed, PB!Fault, PB!workerVars, PB!cloudVars
\* The user and the control plane, as A sees them.
LEMMA SameOutsideA ==
    /\ A!TogglePause => PA!TogglePause
    /\ \A m \in Machines : /\ A!SetBootstrapData(m) => PA!SetBootstrapData(m)
                           /\ A!SetOwner(m) => PA!SetOwner(m)
                           /\ A!RequestDelete(m) => PA!RequestDelete(m)
    /\ \A n \in Names : /\ A!Boots(n) => PA!Boots(n)
                        /\ A!Stops(n) => PA!Stops(n)
                        /\ A!DetachDisk(n) => PA!DetachDisk(n)
    /\ A!Settle => PA!Settle
BY SameData
   DEF A!TogglePause, A!PauseTransition, A!SetBootstrapData, A!SetOwner, A!RequestDelete, A!Boots,
       A!Stops, A!ChangeState, A!DetachDisk, A!Settle, A!Fault, A!apiVars, A!workerVars,
       A!cloudVars, PA!TogglePause, PA!PauseTransition, PA!SetBootstrapData, PA!SetOwner,
       PA!RequestDelete, PA!Boots, PA!Stops, PA!ChangeState, PA!DetachDisk, PA!Settle, PA!Fault,
       PA!apiVars, PA!workerVars, PA!cloudVars

\* The same as B sees them; what they do does not depend on who does it.
LEMMA SameOutsideB ==
    /\ B!TogglePause => PB!TogglePause
    /\ \A m \in Machines :
          /\ B!SetBootstrapData(m) => PB!SetBootstrapData(m)
          /\ A!SetOwner(m) /\ UNCHANGED managerB => PB!SetOwner(m)
          /\ A!RequestDelete(m) /\ UNCHANGED managerB => PB!RequestDelete(m)
    /\ UNCHANGED managerB =>
          /\ \A n \in Names : /\ A!Boots(n) => PB!Boots(n)
                              /\ A!Stops(n) => PB!Stops(n)
                              /\ A!DetachDisk(n) => PB!DetachDisk(n)
          /\ A!Settle => PB!Settle
BY SameData
   DEF B!TogglePause, B!PauseTransition, B!SetBootstrapData, A!SetOwner, A!RequestDelete, A!Boots,
       A!Stops, A!ChangeState, A!DetachDisk, A!Settle, B!Fault, B!workerVars, B!cloudVars,
       A!apiVars, A!cloudVars, PB!TogglePause, PB!PauseTransition, PB!SetBootstrapData,
       PB!SetOwner, PB!RequestDelete, PB!Boots, PB!Stops, PB!ChangeState, PB!DetachDisk,
       PB!Settle, PB!Fault, PB!apiVars, PB!workerVars, PB!cloudVars, managerB

\* The initial states.
LEMMA SameInit == Init => PA!Init /\ PB!Init /\ holder = Nobody
BY SameData DEF Init, A!Init, A!Listed, PA!Init, PA!Listed, B!Init, B!Listed, PB!Init, PB!Listed

-----------------------------------------------------------------------------
(***************************************************************************)
(* Every step is, for each of the processes, one that it could take or see *)
(* by itself, one that it does not notice, or one of the other's worker.   *)
(***************************************************************************)

BesideA == PB!Next /\ MayWork("B") /\ UNCHANGED <<managerA, holder>>
BesideB == PA!Next /\ MayWork("A") /\ UNCHANGED <<managerB, holder>>

\* What the worker of a process does, and what its informers and restarts do.
LEMMA OwnStepsA ==
    /\ A!WorkerStep => PA!Next
    /\ \A m \in Machines : A!StartReconcile(m) \/ A!Sync(m) => PA!Next
    /\ A!Restart => PA!Next
BY SameWorkerA, SameStartA, SameManagerA DEF PA!Next, PA!ManagerStep

\* The same of B.
LEMMA OwnStepsB ==
    /\ B!WorkerStep => PB!Next
    /\ \A m \in Machines : B!StartReconcile(m) \/ B!Sync(m) => PB!Next
    /\ B!Restart => PB!Next
BY SameWorkerB, SameStartB, SameManagerB DEF PB!Next, PB!ManagerStep

\* The steps of everybody else.
LEMMA OutsideSteps ==
    User \/ Settle \/ (\E n \in Names : CloudFinishes(n)) => PA!Next /\ PB!Next
<1>1. User => PA!Next /\ PB!Next
  BY SameOutsideA, SameOutsideB
     DEF User, PA!Next, PA!UserStep, PB!Next, PB!UserStep
<1>2. Settle => PA!Next /\ PB!Next
  BY SameOutsideA, SameOutsideB DEF Settle, PA!Next, PB!Next
<1>3. (\E n \in Names : CloudFinishes(n)) => PA!Next /\ PB!Next
  BY SameOutsideA, SameOutsideB
     DEF CloudFinishes, PA!Next, PA!CloudStep, PB!Next, PB!CloudStep
<1> QED
  BY <1>1, <1>2, <1>3

\* What one process does not notice of the other.
LEMMA UnnoticedA ==
    \/ RestartB \/ TakeLease("A") \/ TakeLease("B") \/ (\E m \in Machines : SyncB(m))
      => UNCHANGED PA!vars
BY DEF RestartB, TakeLease, SyncB, B!Restart, B!Sync, B!cloudVars, outside, managerA, PA!vars,
       PA!apiVars, PA!workerVars, PA!cloudVars

\* The same of B.
LEMMA UnnoticedB ==
    \/ RestartA \/ TakeLease("A") \/ TakeLease("B") \/ (\E m \in Machines : SyncA(m))
      => UNCHANGED PB!vars
BY DEF RestartA, TakeLease, SyncA, A!Restart, A!Sync, A!cloudVars, outside, managerB, PB!vars,
       PB!apiVars, PB!workerVars, PB!cloudVars

\* Together.
LEMMA StepsOfA == Next => PA!Next \/ UNCHANGED PA!vars \/ BesideA
BY OwnStepsA, OwnStepsB, OutsideSteps, UnnoticedA
   DEF Next, WorkA, WorkB, StartA, StartB, SyncA, RestartA, BesideA

\* The same of B.
LEMMA StepsOfB == Next => PB!Next \/ UNCHANGED PB!vars \/ BesideB
BY OwnStepsA, OwnStepsB, OutsideSteps, UnnoticedB
   DEF Next, WorkA, WorkB, StartA, StartB, SyncB, RestartB, BesideB

-----------------------------------------------------------------------------
(***************************************************************************)
(* Without the lease: the order of what the processes have seen.           *)
(***************************************************************************)

\* A process's own steps keep the order.
LEMMA OrderOwnA == ASSUME PA!OrderInv, PA!Next PROVE PA!OrderInv'
<1>1. PA!TypeOK'
  BY PA!NextType DEF PA!OrderInv
<1> QED
  BY <1>1, PA!OrderedStep, PA!ConsistentStep DEF PA!OrderInv

\* The same of B.
LEMMA OrderOwnB == ASSUME PB!OrderInv, PB!Next PROVE PB!OrderInv'
<1>1. PB!TypeOK'
  BY PB!NextType DEF PB!OrderInv
<1> QED
  BY <1>1, PB!OrderedStep, PB!ConsistentStep DEF PB!OrderInv

\* The objects and the Oxide project are the same for both.
LEMMA SameOutside ==
    /\ PA!LaterObjects <=> PB!LaterObjects
    /\ PA!KeepsLiveIds <=> PB!KeepsLiveIds
    /\ PA!InstancesHaveIds <=> PB!InstancesHaveIds
    /\ PA!NothingLate <=> PB!NothingLate
    /\ PA!DistinctNames <=> PB!DistinctNames
    /\ PA!Undisturbed /\ PB!Undisturbed
BY DEF PA!LaterObjects, PB!LaterObjects, PA!Precedes, PB!Precedes, PA!KeepsLiveIds,
       PB!KeepsLiveIds, PA!InstanceOf, PB!InstanceOf, PA!InstancesHaveIds, PB!InstancesHaveIds,
       PA!NothingLate, PB!NothingLate, PA!DistinctNames, PB!DistinctNames, PA!Undisturbed,
       PB!Undisturbed

\* What stands beside a process that works stays well typed and in order.
LEMMA OrderBesideA ==
    ASSUME PA!OrderInv, PB!OrderInv, BesideA
    PROVE  PA!OrderInv'
<1>1. PB!OrderInv' /\ PB!LaterObjects /\ UNCHANGED managerA
  BY OrderOwnB, PB!OrderedStep DEF BesideA
<1>2. PB!TypeOK' /\ PB!ObjectsAreOrdered'
  BY <1>1 DEF PB!OrderInv
<1>3. PA!TypeOK'
  BY <1>1, <1>2, SameData
     DEF PA!OrderInv, PA!TypeOK, PA!ManagerTypeOK, PA!WorkerTypeOK, PA!CloudTypeOK,
         PB!TypeOK, PB!ManagerTypeOK, PB!CloudTypeOK, PA!DiskStates, PB!DiskStates, managerA
<1>4. \A m \in Machines : PA!WellFormed(api'[m])
  BY <1>2, SameData DEF PB!ObjectsAreOrdered, PB!WellFormed, PA!WellFormed
<1>5. api' \in [Machines -> PA!Object]
  BY <1>3 DEF PA!TypeOK, PA!ManagerTypeOK
<1>6. UNCHANGED <<cacheA, PA!workerVars>>
  BY <1>1 DEF managerA, PA!workerVars
<1> QED
  BY <1>1, <1>3, <1>4, <1>5, <1>6, PA!OrderBeside, SameOutside DEF PA!OrderInv

\* The same of B.
LEMMA OrderBesideB ==
    ASSUME PB!OrderInv, PA!OrderInv, BesideB
    PROVE  PB!OrderInv'
<1>1. PA!OrderInv' /\ PA!LaterObjects /\ UNCHANGED managerB
  BY OrderOwnA, PA!OrderedStep DEF BesideB
<1>2. PA!TypeOK' /\ PA!ObjectsAreOrdered'
  BY <1>1 DEF PA!OrderInv
<1>3. PB!TypeOK'
  BY <1>1, <1>2, SameData
     DEF PB!OrderInv, PB!TypeOK, PB!ManagerTypeOK, PB!WorkerTypeOK, PB!CloudTypeOK,
         PA!TypeOK, PA!ManagerTypeOK, PA!CloudTypeOK, PB!DiskStates, PA!DiskStates, managerB
<1>4. \A m \in Machines : PB!WellFormed(api'[m])
  BY <1>2, SameData DEF PA!ObjectsAreOrdered, PA!WellFormed, PB!WellFormed
<1>5. api' \in [Machines -> PB!Object]
  BY <1>3 DEF PB!TypeOK, PB!ManagerTypeOK
<1>6. UNCHANGED <<cacheB, PB!workerVars>>
  BY <1>1 DEF managerB, PB!workerVars
<1> QED
  BY <1>1, <1>3, <1>4, <1>5, <1>6, PB!OrderBeside, SameOutside DEF PB!OrderInv

\* Every step keeps the order.
LEMMA OrderOfA ==
    ASSUME PA!OrderInv, PB!OrderInv, Next
    PROVE  PA!OrderInv'
BY StepsOfA, OrderOwnA, PA!StutterOrder, OrderBesideA

\* The same of B.
LEMMA OrderOfB ==
    ASSUME PB!OrderInv, PA!OrderInv, Next
    PROVE  PB!OrderInv'
BY StepsOfB, OrderOwnB, PB!StutterOrder, OrderBesideB

\* A step that changes no variable is one for each of them.
LEMMA SameStutter == UNCHANGED vars => UNCHANGED PA!vars /\ UNCHANGED PB!vars
BY DEF vars, outside, managerA, managerB, PA!vars, PA!apiVars, PA!workerVars, PA!cloudVars,
       PB!vars, PB!apiVars, PB!workerVars, PB!cloudVars

(***************************************************************************)
(* Each process's cache and worker lag behind the API server on a course   *)
(* of their own, in whatever order the two of them, or only the leader,    *)
(* work: for all names.                                                    *)
(***************************************************************************)
THEOREM BothInOrder == Spec => [](PA!OrderInv /\ PB!OrderInv)
<1>1. Init => PA!OrderInv /\ PB!OrderInv
  BY SameInit, PA!InitIndInv, PB!InitIndInv
     DEF PA!IndInv, PB!IndInv, PA!OrderInv, PB!OrderInv
<1>2. PA!OrderInv /\ PB!OrderInv /\ [Next]_vars => PA!OrderInv' /\ PB!OrderInv'
  BY SameStutter, OrderOfA, OrderOfB, PA!StutterOrder, PB!StutterOrder
<1> QED
  BY <1>1, <1>2, PTL DEF Spec

\* The properties of one process, under both names.
LEMMA SameState ==
    /\ PA!TypeOK /\ PB!TypeOK => A!TypeOK /\ B!TypeOK
    /\ PA!ObjectsAreOrdered /\ PA!WorkerIsConsistent => A!ObjectsAreOrdered /\ A!WorkerIsConsistent
    /\ PB!ObjectsAreOrdered /\ PB!WorkerIsConsistent => B!ObjectsAreOrdered /\ B!WorkerIsConsistent
<1>1. PA!TypeOK /\ PB!TypeOK => A!TypeOK /\ B!TypeOK
  BY SameData
     DEF A!TypeOK, A!ManagerTypeOK, A!WorkerTypeOK, A!CloudTypeOK, A!Ids, A!DiskStates,
         PA!TypeOK, PA!ManagerTypeOK, PA!WorkerTypeOK, PA!CloudTypeOK, PA!Ids, PA!DiskStates,
         B!TypeOK, B!ManagerTypeOK, B!WorkerTypeOK, B!CloudTypeOK, B!Ids, B!DiskStates,
         PB!TypeOK, PB!ManagerTypeOK, PB!WorkerTypeOK, PB!CloudTypeOK, PB!Ids, PB!DiskStates
<1>2. /\ PA!ObjectsAreOrdered => A!ObjectsAreOrdered
      /\ PB!ObjectsAreOrdered => B!ObjectsAreOrdered
  BY SameData
     DEF A!ObjectsAreOrdered, A!WellFormed, A!Precedes, PA!ObjectsAreOrdered, PA!WellFormed,
         PA!Precedes, B!ObjectsAreOrdered, B!WellFormed, B!Precedes, PB!ObjectsAreOrdered,
         PB!WellFormed, PB!Precedes
<1>3. /\ PA!WorkerIsConsistent => A!WorkerIsConsistent
      /\ PB!WorkerIsConsistent => B!WorkerIsConsistent
  BY SameData
     DEF A!WorkerIsConsistent, A!WellFormed, A!Precedes, PA!WorkerIsConsistent, PA!WellFormed,
         PA!Precedes, B!WorkerIsConsistent, B!WellFormed, B!Precedes, PB!WorkerIsConsistent,
         PB!WellFormed, PB!Precedes
<1> QED
  BY <1>1, <1>2, <1>3

(***************************************************************************)
(* The state of the objects, of both processes and of the cloud is always  *)
(* what their types allow, and the lease is free or with one of them.      *)
(***************************************************************************)
THEOREM ManagersTypeCorrect == Spec => []TypeOK
<1> DEFINE HolderOK == holder \in {"A", "B", Nobody}
<1>1. Init => HolderOK
  BY DEF Init
<1>2. HolderOK /\ [Next]_vars => HolderOK'
  BY DEF Next, vars, WorkA, WorkB, StartA, StartB, SyncA, SyncB, RestartA, RestartB, Drops,
         TakeLease, User, Settle, CloudFinishes
<1>3. PA!OrderInv /\ PB!OrderInv /\ HolderOK => TypeOK
  BY SameState DEF PA!OrderInv, PB!OrderInv, TypeOK
<1> QED
  BY <1>1, <1>2, <1>3, BothInOrder, PTL DEF Spec

-----------------------------------------------------------------------------
(***************************************************************************)
(* Without the lease: what the processes believe of live machines.         *)
(***************************************************************************)

\* No two machines have namespaces and names that give the same resource names.
DistinctNames ==
    \A m1, m2 \in Machines : InstanceName[m1] = InstanceName[m2] => m1 = m2

\* A process's own steps.
LEMMA LiveIdsOwnA ==
    ASSUME PA!OrderInv, PA!LiveIdsAreReal, PA!NothingLate, DistinctNames, PA!Next
    PROVE  PA!LiveIdsAreReal' /\ PA!KeepsLiveIds /\ PA!LaterObjects /\ PA!NothingLate'
<1>1. PA!DistinctNames /\ PA!Undisturbed
  BY SameOutside DEF DistinctNames, PA!DistinctNames
<1> QED
  BY <1>1, PA!LiveIdsStep, PA!IdsOfTheLive, PA!OrderedStep, PA!NothingLateStep DEF PA!OrderInv

\* The same of B.
LEMMA LiveIdsOwnB ==
    ASSUME PB!OrderInv, PB!LiveIdsAreReal, PB!NothingLate, DistinctNames, PB!Next
    PROVE  PB!LiveIdsAreReal' /\ PB!KeepsLiveIds /\ PB!LaterObjects /\ PB!NothingLate'
<1>1. PB!DistinctNames /\ PB!Undisturbed
  BY SameOutside DEF DistinctNames, PB!DistinctNames
<1> QED
  BY <1>1, PB!LiveIdsStep, PB!IdsOfTheLive, PB!OrderedStep, PB!NothingLateStep DEF PB!OrderInv

\* The other one's.
LEMMA LiveIdsBesideA ==
    ASSUME PA!OrderInv, PA!LiveIdsAreReal, PB!OrderInv, PB!LiveIdsAreReal, PB!NothingLate,
           DistinctNames, BesideA
    PROVE  PA!LiveIdsAreReal'
<1>1. PB!LiveIdsAreReal' /\ PB!KeepsLiveIds /\ PB!LaterObjects /\ UNCHANGED managerA
  BY LiveIdsOwnB DEF BesideA
<1>2. \A m \in Machines : api'[m].life = "live"
                            => api'[m].providerID \in {NoId, PA!InstanceOf(m).id'}
  BY <1>1 DEF PB!LiveIdsAreReal, PB!InstanceOf, PA!InstanceOf
<1>3. UNCHANGED <<cacheA, PA!workerVars>>
  BY <1>1 DEF managerA, PA!workerVars
<1> QED
  BY <1>1, <1>2, <1>3, PA!LiveIdsBeside, SameOutside

\* The same of B.
LEMMA LiveIdsBesideB ==
    ASSUME PB!OrderInv, PB!LiveIdsAreReal, PA!OrderInv, PA!LiveIdsAreReal, PA!NothingLate,
           DistinctNames, BesideB
    PROVE  PB!LiveIdsAreReal'
<1>1. PA!LiveIdsAreReal' /\ PA!KeepsLiveIds /\ PA!LaterObjects /\ UNCHANGED managerB
  BY LiveIdsOwnA DEF BesideB
<1>2. \A m \in Machines : api'[m].life = "live"
                            => api'[m].providerID \in {NoId, PB!InstanceOf(m).id'}
  BY <1>1 DEF PA!LiveIdsAreReal, PA!InstanceOf, PB!InstanceOf
<1>3. UNCHANGED <<cacheB, PB!workerVars>>
  BY <1>1 DEF managerB, PB!workerVars
<1> QED
  BY <1>1, <1>2, <1>3, PB!LiveIdsBeside, SameOutside

\* Any step.
LEMMA LiveIdsOfA ==
    ASSUME PA!OrderInv, PA!LiveIdsAreReal, PB!OrderInv, PB!LiveIdsAreReal, PA!NothingLate,
           DistinctNames, Next
    PROVE  PA!LiveIdsAreReal'
BY StepsOfA, LiveIdsOwnA, PA!StutterLiveIds, LiveIdsBesideA, SameOutside

\* The same of B.
LEMMA LiveIdsOfB ==
    ASSUME PB!OrderInv, PB!LiveIdsAreReal, PA!OrderInv, PA!LiveIdsAreReal, PB!NothingLate,
           DistinctNames, Next
    PROVE  PB!LiveIdsAreReal'
BY StepsOfB, LiveIdsOwnB, PB!StutterLiveIds, LiveIdsBesideB, SameOutside

\* No creation becomes late.
LEMMA LateStep ==
    ASSUME PA!OrderInv, PB!OrderInv, PA!NothingLate, Next
    PROVE  PA!NothingLate'
<1>1. PA!Next => PA!NothingLate'
  BY PA!NothingLateStep, SameOutside DEF PA!OrderInv
<1>2. BesideA => PA!NothingLate'
  BY PB!NothingLateStep, SameOutside
     DEF BesideA, PB!OrderInv, PA!NothingLate, PB!NothingLate
<1>3. UNCHANGED PA!vars => PA!NothingLate'
  BY DEF PA!vars, PA!cloudVars, PA!NothingLate
<1> QED
  BY <1>1, <1>2, <1>3, StepsOfA

\* The initial states.
LEMMA InitBeliefs == Init => PA!LiveIdsAreReal /\ PB!LiveIdsAreReal /\ PA!NothingLate
<1> SUFFICES ASSUME Init PROVE PA!LiveIdsAreReal /\ PB!LiveIdsAreReal /\ PA!NothingLate
  OBVIOUS
<1>1. PA!Init /\ PB!Init
  BY SameInit
<1>2. /\ pcA = "idle" /\ pcB = "idle" /\ late = {}
      /\ \A m \in Machines : /\ api[m] \in PA!NewObjects /\ cacheA[m] = api[m]
                             /\ cacheB[m] = api[m]
  BY <1>1 DEF PA!Init, PB!Init
<1>3. \A m \in Machines : api[m].providerID = NoId
  BY <1>2, PA!TombstoneFacts
<1> QED
  BY <1>2, <1>3 DEF PA!LiveIdsAreReal, PB!LiveIdsAreReal, PA!NothingLate

\* What one process believes, under both names.
LEMMA SameBeliefs ==
    /\ PA!LiveIdsAreReal => A!LiveIdsAreReal
    /\ PB!LiveIdsAreReal => B!LiveIdsAreReal
    /\ PA!NothingLate => A!NothingLate
BY DEF A!LiveIdsAreReal, A!InstanceOf, A!name, PA!LiveIdsAreReal, PA!InstanceOf, PA!name,
       B!LiveIdsAreReal, B!InstanceOf, B!name, PB!LiveIdsAreReal, PB!InstanceOf, PB!name,
       A!NothingLate, PA!NothingLate

(***************************************************************************)
(* Whoever knows a provider id of a machine that is stored as live knows   *)
(* that of its instance, also when both workers are at work: a process     *)
(* with an old cache only adopts the instance that it finds, and never     *)
(* removes one of a live machine.  Of a machine that is being deleted a    *)
(* process that has not seen this yet may know an id that is gone.         *)
(***************************************************************************)
THEOREM Beliefs ==
    ASSUME DistinctNames
    PROVE  Spec => []BeliefsInv
<1> DEFINE Inv == PA!LiveIdsAreReal /\ PB!LiveIdsAreReal /\ PA!NothingLate
<1>1. Init => Inv
  BY InitBeliefs
<1>2. PA!OrderInv /\ PB!OrderInv /\ Inv /\ [Next]_vars => Inv'
  <2> SUFFICES ASSUME PA!OrderInv, PB!OrderInv, Inv, [Next]_vars PROVE Inv'
    OBVIOUS
  <2>1. CASE Next
    BY <2>1, LiveIdsOfA, LiveIdsOfB, LateStep, SameOutside
  <2>2. CASE UNCHANGED vars
    <3>1. UNCHANGED PA!vars /\ UNCHANGED PB!vars
      BY <2>2, SameStutter
    <3>2. PA!NothingLate'
      BY <3>1 DEF PA!vars, PA!cloudVars, PA!NothingLate
    <3> QED
      BY <3>1, <3>2, PA!StutterLiveIds, PB!StutterLiveIds
  <2> QED
    BY <2>1, <2>2
<1>3. PA!OrderInv /\ PB!OrderInv /\ Inv => BeliefsInv
  BY SameState, SameBeliefs
     DEF PA!OrderInv, PB!OrderInv, A!OrderInv, B!OrderInv, BeliefsInv
<1> QED
  BY <1>1, <1>2, <1>3, BothInOrder, PTL DEF Spec

(***************************************************************************)
(* The provider id of a machine that is not being deleted names the        *)
(* instance that exists, whoever created or recorded it.                   *)
(***************************************************************************)
THEOREM ProvidersAreRealForBoth ==
    ASSUME DistinctNames
    PROVE  Spec => []LiveMachineHasInstance
<1>1. BeliefsInv => LiveMachineHasInstance
  BY DEF BeliefsInv, LiveMachineHasInstance, A!LiveIdsAreReal, A!LiveMachineHasInstance
<1> QED
  BY <1>1, Beliefs, PTL

(***************************************************************************)
(* Neither worker is ever about to stop or delete what belongs to a        *)
(* machine that nobody deleted, however old its cache is.                  *)
(***************************************************************************)
THEOREM BothSpareLiveMachines ==
    ASSUME DistinctNames
    PROVE  Spec => []SparesLiveMachines
<1>1. PA!OrderInv /\ PB!OrderInv => PA!SparesLiveMachines /\ PB!SparesLiveMachines
  BY PA!DeletesItsOwn, PB!DeletesItsOwn DEF DistinctNames, PA!DistinctNames, PB!DistinctNames
<1>2. PA!SparesLiveMachines /\ PB!SparesLiveMachines => SparesLiveMachines
  BY DEF SparesLiveMachines, A!SparesLiveMachines, A!name, PA!SparesLiveMachines, PA!name,
         B!SparesLiveMachines, B!name, PB!SparesLiveMachines, PB!name
<1> QED
  BY <1>1, <1>2, BothInOrder, PTL

-----------------------------------------------------------------------------
(***************************************************************************)
(* With the lease: what the leader relies on beyond that.                  *)
(***************************************************************************)

\* A process waits until it is elected.
LEMMA WaitsOfA ==
    ASSUME LeaderElection, Waits("A", pcA, queueA), Next
    PROVE  Waits("A", pcA, queueA)'
<1> SUFFICES ASSUME holder' # "A" PROVE pcA' = "idle" /\ queueA' = Machines
  BY DEF Waits
<1>1. CASE holder # "A"
  <2>1. pcA = "idle" /\ queueA = Machines
    BY <1>1 DEF Waits
  <2>2. CASE RestartA
    BY <2>2 DEF RestartA, A!Restart, A!Free, A!Listed
  <2>3. CASE \/ WorkB \/ RestartB \/ Settle \/ TakeLease("A") \/ TakeLease("B")
             \/ \E m \in Machines : StartB(m) \/ SyncB(m)
             \/ \E n \in Names : CloudFinishes(n)
    BY <2>1, <2>3
       DEF WorkB, RestartB, StartB, SyncB, Settle, TakeLease, CloudFinishes, managerA, A!Settle,
           A!Boots, A!Stops, A!DetachDisk, A!ChangeState, A!workerVars
  <2>4. CASE User \/ \E m \in Machines : SyncA(m)
    BY <2>1, <2>4
       DEF User, SyncA, A!Sync, A!TogglePause, A!PauseTransition, A!SetBootstrapData, A!SetOwner,
           A!RequestDelete, A!workerVars
  <2> QED
    BY <1>1, <2>2, <2>3, <2>4 DEF Next, WorkA, StartA, MayWork
<1>2. CASE holder = "A"
  <2>1. RestartA
    BY <1>2, NobodyAssumption
       DEF Next, WorkA, WorkB, RestartB, Drops, StartA, StartB, SyncA, SyncB, TakeLease, User,
           Settle, CloudFinishes
  <2> QED
    BY <2>1 DEF RestartA, A!Restart, A!Free, A!Listed
<1> QED
  BY <1>1, <1>2

\* The same of B.
LEMMA WaitsOfB ==
    ASSUME LeaderElection, Waits("B", pcB, queueB), Next
    PROVE  Waits("B", pcB, queueB)'
<1> SUFFICES ASSUME holder' # "B" PROVE pcB' = "idle" /\ queueB' = Machines
  BY DEF Waits
<1>1. CASE holder # "B"
  <2>1. pcB = "idle" /\ queueB = Machines
    BY <1>1 DEF Waits
  <2>2. CASE RestartB
    BY <2>2 DEF RestartB, B!Restart, B!Free, B!Listed
  <2>3. CASE \/ WorkA \/ RestartA \/ Settle \/ TakeLease("B") \/ TakeLease("A")
             \/ \E m \in Machines : StartA(m) \/ SyncA(m)
             \/ \E n \in Names : CloudFinishes(n)
    BY <2>1, <2>3
       DEF WorkA, RestartA, StartA, SyncA, Settle, TakeLease, CloudFinishes, managerB
  <2>4. CASE User \/ \E m \in Machines : SyncB(m)
    BY <2>1, <2>4
       DEF User, SyncB, B!Sync, B!TogglePause, B!PauseTransition, B!SetBootstrapData, managerB,
           B!workerVars
  <2> QED
    BY <1>1, <2>2, <2>3, <2>4 DEF Next, WorkB, StartB, MayWork
<1>2. CASE holder = "B"
  <2>1. RestartB
    BY <1>2, NobodyAssumption
       DEF Next, WorkB, WorkA, RestartA, Drops, StartB, StartA, SyncB, SyncA, TakeLease, User,
           Settle, CloudFinishes
  <2> QED
    BY <2>1 DEF RestartB, B!Restart, B!Free, B!Listed
<1> QED
  BY <1>1, <1>2

\* Between two reconciles, and with every machine queued, nothing is owed.
LEMMA IdleIsReadyA ==
    ASSUME pcA' = "idle", queueA' = Machines, PA!InstancesHaveIds'
    PROVE  PA!WakeInv' /\ PA!ReadyToRelease'
BY DEF PA!WakeInv, PA!NoLostWakeup, PA!SeenIsCached, PA!WorkerWillConclude, PA!ReadyToRelease,
       PA!Patches, PA!CloudCalls

\* The same of B.
LEMMA IdleIsReadyB ==
    ASSUME pcB' = "idle", queueB' = Machines, PB!InstancesHaveIds'
    PROVE  PB!WakeInv' /\ PB!ReadyToRelease'
BY DEF PB!WakeInv, PB!NoLostWakeup, PB!SeenIsCached, PB!WorkerWillConclude, PB!ReadyToRelease,
       PB!Patches, PB!CloudCalls

\* The steps of the other's worker, who leads then.
LEMMA LeaseBesideA ==
    ASSUME LeaderElection, Waits("A", pcA, queueA), PB!OrderInv, PB!WakeInv, BesideA
    PROVE  PA!WakeInv' /\ PA!ReadyToRelease'
<1>1. holder = "B" /\ pcA' = pcA /\ queueA' = queueA
  BY DEF BesideA, MayWork, managerA
<1>2. pcA' = "idle" /\ queueA' = Machines
  BY <1>1 DEF Waits
<1>3. PB!InstancesHaveIds'
  BY PB!IdsStep DEF BesideA, PB!OrderInv, PB!WakeInv
<1>4. PA!InstancesHaveIds'
  BY <1>3 DEF PA!InstancesHaveIds, PB!InstancesHaveIds
<1> QED
  BY <1>2, <1>4, IdleIsReadyA

\* The same of B.
LEMMA LeaseBesideB ==
    ASSUME LeaderElection, Waits("B", pcB, queueB), PA!OrderInv, PA!WakeInv, BesideB
    PROVE  PB!WakeInv' /\ PB!ReadyToRelease'
<1>1. holder = "A" /\ pcB' = pcB /\ queueB' = queueB
  BY DEF BesideB, MayWork, managerB
<1>2. pcB' = "idle" /\ queueB' = Machines
  BY <1>1 DEF Waits
<1>3. PA!InstancesHaveIds'
  BY PA!IdsStep DEF BesideB, PA!OrderInv, PA!WakeInv
<1>4. PB!InstancesHaveIds'
  BY <1>3 DEF PB!InstancesHaveIds, PA!InstancesHaveIds
<1> QED
  BY <1>2, <1>4, IdleIsReadyB

\* Any step.
LEMMA LeaseOfA ==
    ASSUME LeaderElection, Waits("A", pcA, queueA), PA!OrderInv, PA!WakeInv,
           PA!ReadyToRelease, PA!NothingLate, PB!OrderInv, PB!WakeInv, Next
    PROVE  PA!WakeInv' /\ PA!ReadyToRelease'
<1>1. PA!Next => PA!WakeInv' /\ PA!ReadyToRelease'
  BY PA!WakeStep, PA!ReleaseStep, SameOutside
<1>2. UNCHANGED PA!vars => PA!WakeInv' /\ PA!ReadyToRelease'
  BY PA!StutterWake, PA!StutterReady
<1> QED
  BY <1>1, <1>2, StepsOfA, LeaseBesideA

\* The same of B.
LEMMA LeaseOfB ==
    ASSUME LeaderElection, Waits("B", pcB, queueB), PB!OrderInv, PB!WakeInv,
           PB!ReadyToRelease, PB!NothingLate, PA!OrderInv, PA!WakeInv, Next
    PROVE  PB!WakeInv' /\ PB!ReadyToRelease'
<1>1. PB!Next => PB!WakeInv' /\ PB!ReadyToRelease'
  BY PB!WakeStep, PB!ReleaseStep, SameOutside
<1>2. UNCHANGED PB!vars => PB!WakeInv' /\ PB!ReadyToRelease'
  BY PB!StutterWake, PB!StutterReady
<1> QED
  BY <1>1, <1>2, StepsOfB, LeaseBesideB

\* What a leader relies on, under both names.
LEMMA SameLease ==
    /\ PA!WakeInv => A!WakeInv
    /\ PB!WakeInv => B!WakeInv
    /\ PA!ReadyToRelease => A!ReadyToRelease
    /\ PB!ReadyToRelease => B!ReadyToRelease
BY SameData
   DEF A!WakeInv, A!NoLostWakeup, A!Unfinished, A!SeenIsCached, A!WorkerWillConclude,
       A!Concluded, A!SpecStored, A!InstancesHaveIds, A!ReadyToRelease, A!name,
       PA!WakeInv, PA!NoLostWakeup, PA!Unfinished, PA!SeenIsCached, PA!WorkerWillConclude,
       PA!Concluded, PA!SpecStored, PA!InstancesHaveIds, PA!ReadyToRelease, PA!name,
       B!WakeInv, B!NoLostWakeup, B!Unfinished, B!SeenIsCached, B!WorkerWillConclude,
       B!Concluded, B!SpecStored, B!InstancesHaveIds, B!ReadyToRelease, B!name,
       PB!WakeInv, PB!NoLostWakeup, PB!Unfinished, PB!SeenIsCached, PB!WorkerWillConclude,
       PB!Concluded, PB!SpecStored, PB!InstancesHaveIds, PB!ReadyToRelease, PB!name

\* The invariant that leader election adds.
ProvedLease ==
    /\ Waits("A", pcA, queueA) /\ PA!WakeInv /\ PA!ReadyToRelease
    /\ Waits("B", pcB, queueB) /\ PB!WakeInv /\ PB!ReadyToRelease
    /\ PA!NothingLate

\* Every step keeps it.
LEMMA LeaseStep ==
    ASSUME LeaderElection, PA!OrderInv, PB!OrderInv, ProvedLease, [Next]_vars
    PROVE  ProvedLease'
<1>1. CASE Next
  BY <1>1, LeaseOfA, LeaseOfB, WaitsOfA, WaitsOfB, LateStep, SameOutside DEF ProvedLease
<1>2. CASE UNCHANGED vars
  <2>1. UNCHANGED PA!vars /\ UNCHANGED PB!vars
    BY <1>2, SameStutter
  <2>2. Waits("A", pcA, queueA)' /\ Waits("B", pcB, queueB)'
    BY <1>2 DEF ProvedLease, Waits, vars, managerA, managerB
  <2> QED
    BY <2>1, <2>2, PA!StutterWake, PA!StutterReady, PB!StutterWake, PB!StutterReady, SameOutside
       DEF ProvedLease
<1> QED
  BY <1>1, <1>2

\* The initial states.
LEMMA InitLease == Init => ProvedLease
<1> SUFFICES ASSUME Init PROVE ProvedLease
  OBVIOUS
<1>1. PA!Init /\ PB!Init
  BY SameInit
<1>2. PA!IndInv /\ PB!IndInv /\ PA!WakeInv /\ PB!WakeInv
  BY <1>1, PA!InitIndInv, PB!InitIndInv, PA!InitWake, PB!InitWake
<1>3. Waits("A", pcA, queueA) /\ Waits("B", pcB, queueB)
  BY <1>1 DEF PA!Init, PB!Init, PA!Listed, PB!Listed, Waits
<1> QED
  BY <1>2, <1>3 DEF ProvedLease, PA!IndInv, PB!IndInv

\* It holds throughout.
LEMMA LeaseHolds == ASSUME LeaderElection PROVE Spec => []ProvedLease
<1>1. PA!OrderInv /\ PB!OrderInv /\ ProvedLease /\ [Next]_vars => ProvedLease'
  BY LeaseStep
<1> QED
  BY <1>1, InitLease, BothInOrder, PTL DEF Spec

(***************************************************************************)
(* A process that does not lead is between two reconciles with every       *)
(* machine queued; the leader finds what it must conclude, and may release *)
(* what it releases, as if it had always been alone: for all names.        *)
(***************************************************************************)
THEOREM LeadersWorkAlone == Spec => []LeaseInv
<1>1. CASE LeaderElection
  <2>1. ProvedLease => LeaseInv
    BY SameLease DEF ProvedLease, LeaseInv
  <2> QED
    BY <1>1, <2>1, LeaseHolds, PTL
<1>2. CASE ~LeaderElection
  <2>1. LeaseInv
    BY <1>2 DEF LeaseInv
  <2> QED
    BY <2>1, PTL
<1> QED
  BY <1>1, <1>2

(***************************************************************************)
(* What one leader had queued is not lost with it: a machine that still    *)
(* has to be deleted or to be provisioned is queued, being reconciled, or  *)
(* an event for it is on its way, for whoever leads.                       *)
(***************************************************************************)
THEOREM NothingIsLostWithALeader ==
    ASSUME LeaderElection
    PROVE  Spec => []NoLostWakeup
<1>1. LeaseInv => NoLostWakeup
  BY DEF LeaseInv, NoLostWakeup, A!WakeInv, B!WakeInv
<1> QED
  BY <1>1, LeadersWorkAlone, PTL

(***************************************************************************)
(* An object that is being deleted only disappears when its instance and   *)
(* its boot disk are gone, whoever led while it was deleted.               *)
(***************************************************************************)
THEOREM LeadersReleaseClean ==
    ASSUME LeaderElection
    PROVE  Spec => ReleaseIsClean
<1>1. PA!OrderInv /\ PB!OrderInv /\ ProvedLease /\ [Next]_vars => [A!CleanRelease]_(A!vars)
  <2> SUFFICES ASSUME PA!OrderInv, PB!OrderInv, ProvedLease, Next
               PROVE  A!CleanRelease \/ UNCHANGED A!vars
    BY DEF vars, outside, managerA, A!vars, A!apiVars, A!workerVars, A!cloudVars
  <2>1. PA!CleanRelease => A!CleanRelease
    BY SameData DEF PA!CleanRelease, PA!InstanceOf, PA!BootDiskOf, A!CleanRelease, A!InstanceOf,
                    A!BootDiskOf
  <2>2. PB!CleanRelease => A!CleanRelease
    BY SameData DEF PB!CleanRelease, PB!InstanceOf, PB!BootDiskOf, A!CleanRelease, A!InstanceOf,
                    A!BootDiskOf
  <2>3. UNCHANGED PA!vars => UNCHANGED A!vars
    BY DEF PA!vars, PA!apiVars, PA!workerVars, PA!cloudVars, A!vars, A!apiVars, A!workerVars,
           A!cloudVars
  <2> QED
    BY <2>1, <2>2, <2>3, StepsOfA, PA!CleanStep, PB!CleanStep DEF BesideA, ProvedLease
<1> QED
  BY <1>1, LeaseHolds, BothInOrder, PTL DEF Spec, ReleaseIsClean, A!ReleaseIsClean
==============================================================================
