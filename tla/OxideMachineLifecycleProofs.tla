---------------------- MODULE OxideMachineLifecycleProofs ----------------------
(***************************************************************************)
(* More about the OxideMachine controller, resting on the invariant that   *)
(* OxideMachineProofs establishes: no two machines share an instance, and  *)
(* the controller implements MachineLifecycle.                             *)
(***************************************************************************)
EXTENDS OxideMachineProofs

USE NamesAssumption, NoIdAssumption, NoMachineAssumption

-----------------------------------------------------------------------------
(***************************************************************************)
(* What a step does to instances and boot disks.                           *)
(***************************************************************************)

\* The same instances and disks are there, whatever became of their states.
KeepsResources ==
    /\ used' = used
    /\ \A n \in Names :
          /\ instance'[n].id = instance[n].id
          /\ instance'[n] = NoInstance <=> instance[n] = NoInstance
          /\ instance[n].state # "absent" => instance'[n].state # "absent"
          /\ bootDisk'[n] = "absent" <=> bootDisk[n] = "absent"

\* The worker has made an instance, removed one, or removed a disk.
Launches == pc = "createInstance" /\ \E id \in InstanceIds : Launch(name, id)
RemovesInstance ==
    pc = "deleteInstance" /\ instance[name].state \in {"stopped", "failed"} /\ Remove(name)
RemovesDisk ==
    /\ pc = "deleteDisk"
    /\ bootDisk' = [bootDisk EXCEPT ![name] = "absent"]
    /\ UNCHANGED <<instance, used>>

\* What is not touched is kept.
LEMMA UntouchedResources == UNCHANGED <<instance, bootDisk, used>> => KeepsResources
BY DEF KeepsResources

\* A call does one of these to instances and disks.
LEMMA CallResources ==
    ASSUME IndInv, CallStep
    PROVE  KeepsResources \/ Launches \/ RemovesInstance \/ RemovesDisk
<1>1. pc # "idle"
  BY CallEffect DEF CloudCalls
<1>2. name \in Names /\ instance \in [Names -> Instance]
  BY <1>1, BusyFacts DEF IndInv, TypeOK, CloudTypeOK
<1>3. CASE \/ CallFails \/ EnsureInstanceView \/ EnsureInstanceAdopt \/ ListAddresses
           \/ EnsureInstanceDeleted \/ EnsureDiskDeleted
  <2>1. UNCHANGED <<instance, bootDisk, used>>
    BY <1>3 DEF CallFails, EnsureInstanceView, EnsureInstanceAdopt, ListAddresses,
                EnsureInstanceDeleted, EnsureDiskDeleted, cloudVars
  <2> QED
    BY <2>1, UntouchedResources
<1>4. CASE EnsureInstanceCreate
  <2>1. \/ \E id \in InstanceIds : Launch(name, id)
        \/ UNCHANGED <<instance, bootDisk, used>>
    BY <1>4 DEF EnsureInstanceCreate, cloudVars
  <2> QED
    BY <1>4, <2>1, UntouchedResources DEF Launches, EnsureInstanceCreate
<1>5. CASE InstanceStart
  <2>1. ASSUME NEW n \in Names
        PROVE  /\ instance'[n].id = instance[n].id
               /\ \/ instance'[n] = instance[n]
                  \/ instance[n].state = "stopped" /\ instance'[n].state = "starting"
    BY <1>2, <1>5 DEF InstanceStart, Instance
  <2>2. NoInstance.state = "absent"
    BY DEF NoInstance
  <2>3. \A n \in Names : /\ instance'[n] = NoInstance <=> instance[n] = NoInstance
                         /\ instance[n].state # "absent" => instance'[n].state # "absent"
    BY <2>1, <2>2
  <2> QED
    BY <1>5, <2>1, <2>3 DEF InstanceStart, KeepsResources
<1>6. CASE InstanceStop
  <2>1. \/ instance' = instance
        \/ /\ instance[name].state \in {"starting", "running"}
           /\ instance' = [instance EXCEPT ![name].state = "stopping"]
    BY <1>6 DEF InstanceStop
  <2>2. ASSUME NEW n \in Names
        PROVE  /\ instance'[n].id = instance[n].id
               /\ \/ instance'[n] = instance[n]
                  \/ instance[n].state # "absent" /\ instance'[n].state = "stopping"
    BY <1>2, <2>1 DEF Instance
  <2>3. NoInstance.state = "absent"
    BY DEF NoInstance
  <2>4. \A n \in Names : /\ instance'[n] = NoInstance <=> instance[n] = NoInstance
                         /\ instance[n].state # "absent" => instance'[n].state # "absent"
    BY <2>2, <2>3
  <2> QED
    BY <1>6, <2>2, <2>4 DEF InstanceStop, KeepsResources
<1>7. CASE InstanceDelete
  <2>1. \/ UNCHANGED <<instance, bootDisk, used>>
        \/ instance[name].state \in {"stopped", "failed"} /\ Remove(name)
    BY <1>7 DEF InstanceDelete, cloudVars
  <2> QED
    BY <1>7, <2>1, UntouchedResources DEF RemovesInstance, InstanceDelete
<1>8. CASE DiskDelete
  <2>1. \/ UNCHANGED <<instance, bootDisk, used>>
        \/ /\ bootDisk' = [bootDisk EXCEPT ![name] = "absent"]
           /\ UNCHANGED <<instance, used>>
    BY <1>8 DEF DiskDelete
  <2> QED
    BY <1>8, <2>1, UntouchedResources DEF RemovesDisk, DiskDelete
<1> QED
  BY <1>3, <1>4, <1>5, <1>6, <1>7, <1>8 DEF CallStep

\* The control plane by itself keeps them all.
LEMMA CloudResources ==
    ASSUME IndInv, Undisturbed, CloudStep
    PROVE  KeepsResources
<1>1. late = {}
  BY DEF IndInv, NothingLate, Undisturbed
<1>2. instance \in [Names -> Instance] /\ bootDisk \in [Names -> DiskStates]
  BY DEF IndInv, TypeOK, CloudTypeOK
<1>3. PICK n \in Names : Boots(n) \/ Stops(n) \/ StrayTransition(n) \/ DetachDisk(n)
  BY <1>1 DEF CloudStep, LandCreate, OperatorDeletesInstance, Fault, Undisturbed
<1>4. ASSUME NEW from \in RunStates, NEW to \in RunStates, ChangeState(n, from, to)
      PROVE  KeepsResources
  <2>1. /\ from # "absent" /\ to # "absent" /\ instance[n].state = from
        /\ instance' = [instance EXCEPT ![n].state = to]
    BY <1>4 DEF ChangeState, RunStates
  <2>2. ASSUME NEW x \in Names
        PROVE  /\ instance'[x].id = instance[x].id
               /\ \/ instance'[x] = instance[x]
                  \/ instance[x].state # "absent" /\ instance'[x].state # "absent"
    BY <1>2, <2>1 DEF Instance
  <2>3. NoInstance.state = "absent"
    BY DEF NoInstance
  <2>4. \A x \in Names : /\ instance'[x] = NoInstance <=> instance[x] = NoInstance
                         /\ instance[x].state # "absent" => instance'[x].state # "absent"
    BY <2>2, <2>3
  <2> QED
    BY <1>4, <2>2, <2>4 DEF ChangeState, KeepsResources
<1>5. CASE Boots(n) \/ Stops(n) \/ StrayTransition(n)
  BY <1>4, <1>5 DEF Boots, Stops, StrayTransition, RunStates
<1>6. CASE DetachDisk(n)
  <2>1. instance' = instance /\ used' = used
    BY <1>6 DEF DetachDisk
  <2>2. \A x \in Names : bootDisk'[x] = "absent" <=> bootDisk[x] = "absent"
    BY <1>2, <1>6 DEF DetachDisk
  <2> QED
    BY <2>1, <2>2 DEF KeepsResources
<1> QED
  BY <1>3, <1>5, <1>6

-----------------------------------------------------------------------------
(***************************************************************************)
(* What a step does to the stored objects, as far as MachineLifecycle      *)
(* tells objects apart.                                                    *)
(***************************************************************************)

KeepsFieldsOf(m) ==
    /\ api'[m].life = api[m].life
    /\ api'[m].providerID = api[m].providerID
    /\ api'[m].provisioned = api[m].provisioned
KeepsFields == \A m \in Machines : KeepsFieldsOf(m)
KeepsOthers(m) == \A x \in Machines \ {m} : api'[x] = api[x]

\* A part of the patch stores the provider id, or that the machine is provisioned, or
\* takes the last finalizer of a machine that is being deleted.
RecordsID ==
    /\ pc = "patchSpec" /\ obj.providerID # seen.providerID
    /\ api[key].life # "gone" /\ KeepsOthers(key)
    /\ api'[key].life = api[key].life /\ api'[key].provisioned = api[key].provisioned
    /\ api'[key].providerID = obj.providerID
RecordsProvisioned ==
    /\ pc = "patchStatus" /\ obj.provisioned # seen.provisioned
    /\ api[key].life # "gone" /\ KeepsOthers(key)
    /\ api'[key].life = api[key].life /\ api'[key].providerID = api[key].providerID
    /\ api'[key].provisioned = obj.provisioned
Releases ==
    /\ pc = "patchSpec" /\ seen.finalizer /\ ~obj.finalizer
    /\ api[key].life = "deleting" /\ KeepsOthers(key)
    /\ api'[key] = Tombstone

\* The user asks for the deletion of machine m.
Asks(m) ==
    /\ api[m].life = "live" /\ KeepsOthers(m)
    /\ \/ /\ api[m].finalizer /\ api'[m].life = "deleting"
          /\ api'[m].providerID = api[m].providerID
          /\ api'[m].provisioned = api[m].provisioned
       \/ ~api[m].finalizer /\ api'[m] = Tombstone

\* What is not touched is kept.
LEMMA UntouchedObjects == api' = api => KeepsFields
BY DEF KeepsFields, KeepsFieldsOf

\* Nor does the change of another field matter.
LEMMA OtherFields ==
    ASSUME IndInv, NEW m \in Machines, NEW b \in Object, api' = [api EXCEPT ![m] = b],
           b.life = api[m].life, b.providerID = api[m].providerID,
           b.provisioned = api[m].provisioned
    PROVE  KeepsFields
BY DEF KeepsFields, KeepsFieldsOf, IndInv, TypeOK, ManagerTypeOK

\* What a part of the patch does.
LEMMA PatchObjects ==
    ASSUME IndInv, PatchOxideMachine
    PROVE  KeepsFields \/ RecordsID \/ RecordsProvisioned \/ Releases
<1>1. pc \in Patches /\ pc # "idle"
  BY DEF PatchOxideMachine, Patches
<1>2. /\ key \in Machines /\ obj \in Object /\ seen \in Object /\ api[key] \in Object
      /\ api \in [Machines -> Object]
  BY <1>1, BusyFacts DEF IndInv, TypeOK, ManagerTypeOK
<1>3. CASE api' = api
  BY <1>3, UntouchedObjects
<1>4. CASE api[key].life # "gone" /\ api' = [api EXCEPT ![key] = Merge(pc, @)]
  <2> DEFINE b == Merge(pc, api[key])
  <2>1. b \in Object /\ api' = [api EXCEPT ![key] = b]
    BY <1>1, <1>2, <1>4, MergeType DEF IndInv
  <2>2. api'[key] = b /\ KeepsOthers(key)
    BY <1>2, <1>4 DEF KeepsOthers
  <2>3. CASE pc = "patchConditions"
    <3>1. b.life = api[key].life /\ b.providerID = api[key].providerID
          /\ b.provisioned = api[key].provisioned
      BY <1>2, <2>3 DEF Merge, Object
    <3> HIDE DEF b
    <3> QED
      BY <1>2, <2>1, <3>1, OtherFields
  <2>4. CASE pc = "patchSpec"
    <3>1. CASE seen.finalizer /\ ~obj.finalizer /\ api[key].life = "deleting"
      <4>1. b = Tombstone
        BY <2>4, <3>1 DEF Merge
      <4> HIDE DEF b
      <4> QED
        BY <2>2, <2>4, <3>1, <4>1 DEF Releases
    <3>2. CASE ~(seen.finalizer /\ ~obj.finalizer /\ api[key].life = "deleting")
      <4>1. /\ b.life = api[key].life /\ b.provisioned = api[key].provisioned
            /\ b.providerID = IF obj.providerID # seen.providerID THEN obj.providerID
                              ELSE api[key].providerID
        BY <1>2, <2>4, <3>2 DEF Merge, MergeField, Object
      <4> HIDE DEF b
      <4>2. CASE obj.providerID # seen.providerID
        BY <1>4, <2>2, <2>4, <4>1, <4>2 DEF RecordsID
      <4>3. CASE obj.providerID = seen.providerID
        BY <1>2, <2>1, <4>1, <4>3, OtherFields
      <4> QED
        BY <4>2, <4>3
    <3> QED
      BY <3>1, <3>2
  <2>5. CASE pc = "patchStatus"
    <3>1. /\ b.life = api[key].life /\ b.providerID = api[key].providerID
          /\ b.provisioned = IF obj.provisioned # seen.provisioned THEN obj.provisioned
                             ELSE api[key].provisioned
      BY <1>2, <2>5 DEF Merge, MergeField, Object
    <3> HIDE DEF b
    <3>2. CASE obj.provisioned # seen.provisioned
      BY <1>4, <2>2, <2>5, <3>1, <3>2 DEF RecordsProvisioned
    <3>3. CASE obj.provisioned = seen.provisioned
      BY <1>2, <2>1, <3>1, <3>3, OtherFields
    <3> QED
      BY <3>2, <3>3
  <2> QED
    BY <1>1, <2>3, <2>4, <2>5 DEF Patches
<1> QED
  BY <1>3, <1>4 DEF PatchOxideMachine

\* The other steps only tell what the user asks for.
LEMMA ManagerObjects ==
    ASSUME IndInv,
           NEW m \in Machines,
           EnsurePausedCondition(m) \/ Sync(m) \/ SetOwner(m) \/ RequestDelete(m)
    PROVE  KeepsFields \/ Asks(m)
<1>1. api[m] \in Object /\ api \in [Machines -> Object]
  BY DEF IndInv, TypeOK, ManagerTypeOK
<1>2. CASE EnsurePausedCondition(m)
  <2> DEFINE b == [api[m] EXCEPT !.paused = PausedStatus]
  <2>1. /\ b \in Object /\ b.life = api[m].life /\ b.providerID = api[m].providerID
        /\ b.provisioned = api[m].provisioned
    BY <1>1 DEF Object, PausedStatus, Conditions
  <2>2. api' = api \/ api' = [api EXCEPT ![m] = b]
    BY <1>2 DEF EnsurePausedCondition
  <2> HIDE DEF b
  <2> QED
    BY <2>1, <2>2, OtherFields, UntouchedObjects
<1>3. CASE Sync(m)
  BY <1>3, UntouchedObjects DEF Sync
<1>4. CASE SetOwner(m)
  <2> DEFINE b == [api[m] EXCEPT !.owned = TRUE]
  <2>1. /\ b \in Object /\ b.life = api[m].life /\ b.providerID = api[m].providerID
        /\ b.provisioned = api[m].provisioned
    BY <1>1 DEF Object
  <2>2. api' = [api EXCEPT ![m] = b]
    BY <1>4 DEF SetOwner
  <2> HIDE DEF b
  <2> QED
    BY <2>1, <2>2, OtherFields
<1>5. CASE RequestDelete(m)
  <2> DEFINE b == [api[m] EXCEPT !.life = "deleting"]
  <2>1. /\ b.life = "deleting" /\ b.providerID = api[m].providerID
        /\ b.provisioned = api[m].provisioned
    BY <1>1 DEF Object
  <2>2. /\ api[m].life = "live" /\ KeepsOthers(m)
        /\ api'[m] = IF api[m].finalizer THEN b ELSE Tombstone
    BY <1>1, <1>5 DEF RequestDelete, KeepsOthers
  <2> HIDE DEF b
  <2> QED
    BY <2>1, <2>2 DEF Asks
<1> QED
  BY <1>2, <1>3, <1>4, <1>5

\* A step changes the objects in one of these ways, or what is in the cloud, not both.
LEMMA StepEffects ==
    ASSUME IndInv, Undisturbed, Next
    PROVE  \/ KeepsFields /\ (KeepsResources \/ Launches \/ RemovesInstance \/ RemovesDisk)
           \/ UNCHANGED cloudVars /\ (RecordsID \/ RecordsProvisioned \/ Releases)
           \/ UNCHANGED cloudVars /\ \E m \in Machines : Asks(m)
<1>1. CASE CallStep \/ CloudStep
  <2>1. api' = api
    BY <1>1, UnseenFrame DEF CallStep, Unseen
  <2> QED
    BY <1>1, <2>1, CallResources, CloudResources, UntouchedObjects
<1>2. CASE Elsewhere
  <2>1. UNCHANGED cloudVars /\ KeepsResources
    BY <1>2, ElsewhereEffect, UntouchedResources DEF cloudVars
  <2>2. CASE PatchOxideMachine
    BY <2>1, <2>2, PatchObjects
  <2>3. CASE \E m \in Machines : EnsurePausedCondition(m) \/ Sync(m) \/ SetOwner(m)
                                 \/ RequestDelete(m)
    BY <2>1, <2>3, ManagerObjects
  <2>4. CASE \/ Restart \/ TogglePause \/ Settle
             \/ \E m \in Machines : ReconcileSkip(m) \/ Reconcile(m) \/ SetBootstrapData(m)
    <3>1. api' = api
      BY <2>4 DEF Restart, TogglePause, Settle, ReconcileSkip, Reconcile, SetBootstrapData, apiVars
    <3> QED
      BY <2>1, <3>1, UntouchedObjects
  <2> QED
    BY <1>2, <2>2, <2>3, <2>4 DEF Elsewhere, StartReconcile
<1> QED
  BY <1>1, <1>2, StepKinds

-----------------------------------------------------------------------------
(***************************************************************************)
(* The first further part of the invariant: OwnInv.                        *)
(***************************************************************************)

\* New and absent objects are not provisioned.
LEMMA NotProvisioned ==
    Tombstone.provisioned = FALSE /\ \A o \in NewObjects : o.provisioned = FALSE
<1>1. NewObject.provisioned = FALSE /\ NewObject \in Object
  BY DEF NewObject, Object, Conditions, Ids
<1> QED
  BY <1>1 DEF Tombstone, NewObjects, Object

\* The initial states.
LEMMA InitOwn == Init => OwnInv
<1> SUFFICES ASSUME Init PROVE OwnInv
  OBVIOUS
<1>1. /\ \A n \in Names : instance[n] = NoInstance
      /\ \A m \in Machines : api[m] \in NewObjects /\ cache[m] = api[m]
      /\ pc = "idle"
  BY DEF Init
<1>2. IdsAreOwned
  BY <1>1, NoInstanceFacts, TombstoneFacts DEF IdsAreOwned
<1>3. GoneIsClean /\ ProvisionedExists
  BY <1>1, TombstoneFacts DEF GoneIsClean, ProvisionedExists
<1> QED
  BY <1>2, <1>3 DEF OwnInv

\* What the worker knows of its machine in its calls.
LEMMA LaunchFacts ==
    ASSUME IndInv, Launches
    PROVE  /\ pc # "idle" /\ key \in Machines /\ name \in Names
           /\ seen.life = "live" /\ api[key].providerID = NoId
           /\ instance[name] = NoInstance /\ bootDisk[name] = "absent"
<1>1. pc # "idle" /\ seen.life = "live"
  BY DEF Launches, IndInv, WorkerIsConsistent
<1>2. instance[name] = NoInstance /\ bootDisk[name] = "absent"
  BY DEF Launches, Launch, Creatable
<1> QED
  BY <1>1, <1>2, BusyFacts, NoInstanceFacts

\* Ids stay owned when instances are made or removed.
LEMMA OwnedResources ==
    ASSUME IndInv, IdsAreOwned, KeepsFields,
           KeepsResources \/ Launches \/ RemovesInstance \/ RemovesDisk
    PROVE  IdsAreOwned'
<1>1. instance \in [Names -> Instance]
  BY DEF IndInv, TypeOK, CloudTypeOK
<1>2. \A m \in Machines : api'[m].providerID = api[m].providerID
  BY DEF KeepsFields, KeepsFieldsOf
<1>3. CASE KeepsResources
  BY <1>2, <1>3 DEF KeepsResources, IdsAreOwned
<1>4. CASE Launches
  <2>1. name \in Names /\ NoId \notin InstanceIds
    BY <1>4, LaunchFacts
  <2>2. PICK id \in InstanceIds : Launch(name, id)
    BY <1>4 DEF Launches
  <2>3. /\ id \notin used /\ used' = used \cup {id} /\ id # NoId
        /\ instance'[name].id = id /\ instance'[name].state = "starting"
        /\ \A n \in Names \ {name} : instance'[n] = instance[n]
    BY <1>1, <2>1, <2>2 DEF Launch
  <2>4. \A n \in Names : instance[n].id = NoId \/ instance[n].id \in used
    BY NoInstanceFacts DEF IdsAreOwned
  <2>5. ASSUME NEW n \in Names
        PROVE  /\ instance'[n] # NoInstance
                    => instance'[n].state # "absent" /\ instance'[n].id \in used'
               /\ \A x \in Names \ {n} : instance'[n].id # NoId => instance'[n].id # instance'[x].id
    <3>1. CASE n = name
      BY <2>3, <2>4, <3>1
    <3>2. CASE n # name
      BY <2>3, <2>4, <3>2 DEF IdsAreOwned
    <3> QED
      BY <3>1, <3>2
  <2>6. ASSUME NEW m \in Machines, api'[m].providerID # NoId
        PROVE  /\ api'[m].providerID \in used'
               /\ \A n \in Names \ {InstanceName[m]} : instance'[n].id # api'[m].providerID
    <3>1. /\ api'[m].providerID \in used
          /\ \A n \in Names \ {InstanceName[m]} : instance[n].id # api'[m].providerID
      BY <1>2, <2>6 DEF IdsAreOwned
    <3> QED
      BY <2>3, <3>1
  <2> QED
    BY <2>5, <2>6 DEF IdsAreOwned
<1>5. CASE RemovesInstance
  <2>1. name \in Names
    BY <1>5, BusyFacts DEF RemovesInstance
  <2>2. /\ used' = used /\ instance'[name] = NoInstance
        /\ \A n \in Names \ {name} : instance'[n] = instance[n]
    BY <1>1, <1>5, <2>1 DEF RemovesInstance, Remove
  <2>3. \A n \in Names : instance'[n] = instance[n] \/ instance'[n] = NoInstance
    BY <2>2
  <2> QED
    BY <1>2, <2>2, <2>3, NoInstanceFacts DEF IdsAreOwned
<1>6. CASE RemovesDisk
  BY <1>2, <1>6 DEF RemovesDisk, IdsAreOwned
<1> QED
  BY <1>3, <1>4, <1>5, <1>6

\* The provider id that is stored is the id of the machine's instance.
LEMMA RecordFacts ==
    ASSUME IndInv, RecordsID
    PROVE  /\ pc # "idle" /\ key \in Machines /\ name \in Names /\ seen.life = "live"
           /\ obj.providerID # NoId /\ instance[name].id = obj.providerID
           /\ api[key].providerID \in {NoId, obj.providerID}
<1>1. pc # "idle" /\ seen.life = "live" /\ seen.providerID = NoId /\ obj.providerID # NoId
  BY DEF RecordsID, IndInv, WorkerIsConsistent
<1>2. instance[name].id = obj.providerID
  BY <1>1 DEF IndInv, ProvidersExist
<1> QED
  BY <1>1, <1>2, BusyFacts

\* Ids stay owned when objects change.
LEMMA OwnedObjects ==
    ASSUME IndInv, IdsAreOwned, UNCHANGED cloudVars,
           RecordsID \/ RecordsProvisioned \/ Releases \/ \E m \in Machines : Asks(m)
    PROVE  IdsAreOwned'
<1>1. UNCHANGED <<instance, used>>
  BY DEF cloudVars
<1>2. CASE \A m \in Machines : api'[m].providerID \in {api[m].providerID, NoId}
  BY <1>1, <1>2 DEF IdsAreOwned
<1>3. CASE RecordsID
  <2>1. /\ key \in Machines /\ name \in Names /\ obj.providerID # NoId
        /\ instance[name].id = obj.providerID /\ name = InstanceName[key]
    BY <1>3, RecordFacts DEF name
  <2>2. instance[name] # NoInstance
    BY <2>1, NoInstanceFacts
  <2>3. /\ obj.providerID \in used
        /\ \A n \in Names \ {InstanceName[key]} : instance[n].id # obj.providerID
    BY <2>1, <2>2 DEF IdsAreOwned
  <2>4. /\ api'[key].providerID = obj.providerID
        /\ \A x \in Machines \ {key} : api'[x] = api[x]
    BY <1>3 DEF RecordsID, KeepsOthers
  <2>5. ASSUME NEW m \in Machines, api'[m].providerID # NoId
        PROVE  /\ api'[m].providerID \in used
               /\ \A n \in Names \ {InstanceName[m]} : instance[n].id # api'[m].providerID
    BY <2>3, <2>4, <2>5 DEF IdsAreOwned
  <2> QED
    BY <1>1, <2>5 DEF IdsAreOwned
<1>4. CASE RecordsProvisioned
  BY <1>2, <1>4 DEF RecordsProvisioned, KeepsOthers
<1>5. CASE Releases
  BY <1>2, <1>5, TombstoneFacts DEF Releases, KeepsOthers
<1>6. CASE \E m \in Machines : Asks(m)
  BY <1>2, <1>6, TombstoneFacts DEF Asks, KeepsOthers
<1> QED
  BY <1>3, <1>4, <1>5, <1>6

\* Every step keeps the ids owned.
LEMMA OwnedStep ==
    ASSUME IndInv, IdsAreOwned, Undisturbed, Next
    PROVE  IdsAreOwned'
BY StepEffects, OwnedResources, OwnedObjects

\* What is gone stays gone, except for what a launch makes.
LEMMA NothingLeftStays ==
    ASSUME IndInv, KeepsResources \/ RemovesInstance \/ RemovesDisk \/ UNCHANGED cloudVars,
           NEW m \in Machines, NothingLeft(m)
    PROVE  NothingLeft(m)'
<1>1. /\ InstanceName[m] \in Names
      /\ instance \in [Names -> Instance] /\ bootDisk \in [Names -> DiskStates]
  BY DEF IndInv, TypeOK, CloudTypeOK
<1>2. instance[InstanceName[m]] = NoInstance /\ bootDisk[InstanceName[m]] = "absent"
  BY DEF NothingLeft, InstanceOf, BootDiskOf
<1>3. instance'[InstanceName[m]] = NoInstance /\ bootDisk'[InstanceName[m]] = "absent"
  <2>1. CASE KeepsResources
    BY <1>1, <1>2, <2>1 DEF KeepsResources
  <2>2. CASE RemovesInstance
    BY <1>1, <1>2, <2>2 DEF RemovesInstance, Remove
  <2>3. CASE RemovesDisk
    BY <1>1, <1>2, <2>3 DEF RemovesDisk
  <2>4. CASE UNCHANGED cloudVars
    BY <1>2, <2>4 DEF cloudVars
  <2> QED
    BY <2>1, <2>2, <2>3, <2>4
<1> QED
  BY <1>3 DEF NothingLeft, InstanceOf, BootDiskOf

\* A worker that still believes in a machine that is gone finds nothing of it.
LEMMA GoneStep ==
    ASSUME IndInv, GoneIsClean, Undisturbed, DistinctNames, Next
    PROVE  GoneIsClean'
<1>1. ASSUME NEW m \in Machines
      PROVE  /\ api[m] \in Object /\ cache[m] \in Object /\ Precedes(cache[m], api[m])
             /\ api \in [Machines -> Object] /\ cache \in [Machines -> Object]
  BY DEF IndInv, TypeOK, ManagerTypeOK, ObjectsAreOrdered
\* The cloud's steps and the calls.
<1>2. CASE CallStep \/ CloudStep
  <2>1. api' = api /\ cache' = cache
    BY <1>2, UnseenFrame DEF CallStep, Unseen
  <2>2. (pc' = "idle" <=> pc = "idle") /\ key' = key /\ seen' = seen
    BY <1>2, CallEffect, CloudEffect DEF CloudCalls, workerVars, IndInv
  <2>3. KeepsResources \/ Launches \/ RemovesInstance \/ RemovesDisk
    BY <1>2, CallResources, CloudResources
  <2>4. CASE ~Launches
    <3>1. \A m \in Machines : NothingLeft(m) => NothingLeft(m)'
      BY <2>3, <2>4, NothingLeftStays
    <3>2. pc # "idle" => key \in Machines
      BY BusyFacts
    <3>3. \A m \in Machines : cache[m].life = "deleting" /\ api[m].life = "gone"
                                => NothingLeft(m)'
      BY <3>1 DEF GoneIsClean
    <3>4. pc # "idle" /\ api[key].life = "gone" =>
            /\ seen.life = "deleting" => NothingLeft(key)
            /\ seen.life = "live" => cache[key].life # "deleting"
      BY DEF GoneIsClean
    <3> QED
      BY <2>1, <2>2, <3>1, <3>2, <3>3, <3>4 DEF GoneIsClean, NothingLeft, InstanceOf, BootDiskOf
  <2>5. CASE Launches
    <3>1. pc # "idle" /\ seen.life = "live" /\ key \in Machines /\ name \in Names
      BY <2>5, LaunchFacts
    <3>2. \A n \in Names \ {name} : instance'[n] = instance[n] /\ bootDisk'[n] = bootDisk[n]
      BY <2>5, <3>1 DEF Launches, Launch, IndInv, TypeOK, CloudTypeOK
    <3>3. ASSUME NEW m \in Machines, cache[m].life = "deleting", api[m].life = "gone"
          PROVE  NothingLeft(m)'
      <4>1. m # key
        BY <3>1, <3>3 DEF GoneIsClean
      <4>2. InstanceName[m] \in Names \ {name}
        BY <3>1, <4>1 DEF DistinctNames, name
      <4> QED
        BY <3>2, <3>3, <4>2 DEF GoneIsClean, NothingLeft, InstanceOf, BootDiskOf
    <3>4. seen'.life # "deleting"
      BY <2>2, <3>1
    <3> QED
      BY <2>1, <2>2, <3>3, <3>4 DEF GoneIsClean
  <2> QED
    BY <2>4, <2>5
\* The others leave the cloud alone.
<1>3. CASE Elsewhere
  <2>1. instance' = instance /\ bootDisk' = bootDisk
    BY <1>3, ElsewhereEffect DEF cloudVars
  <2>2. CASE PatchOxideMachine
    <3>1. pc \in Patches /\ pc # "idle" /\ key \in Machines /\ cache' = cache
      BY <2>2, BusyFacts DEF PatchOxideMachine, Patches
    <3>2. pc' = "idle" \/ (key' = key /\ seen' = seen)
      <4> PICK f \in BOOLEAN : AfterPart(f)
        BY <2>2 DEF PatchOxideMachine
      <4> QED
        BY DEF AfterPart, Free
    <3>3. /\ \A x \in Machines \ {key} : api'[x].life = api[x].life
          /\ \/ api'[key].life = api[key].life
             \/ Releases
      BY <2>2, <3>1, PatchObjects
         DEF KeepsFields, KeepsFieldsOf, KeepsOthers, RecordsID, RecordsProvisioned, Releases
    <3>4. Releases => NothingLeft(key) /\ seen.life = "deleting"
      <4> SUFFICES ASSUME Releases PROVE NothingLeft(key) /\ seen.life = "deleting"
        OBVIOUS
      <4>1. instance[name] = NoInstance /\ bootDisk[name] = "absent"
        BY <3>1 DEF Releases, IndInv, ReadyToRelease
      <4>2. seen.life = "deleting"
        BY <3>1, BusyFacts DEF Releases, IndInv, WorkerIsConsistent, Object
      <4> QED
        BY <4>1, <4>2 DEF NothingLeft, InstanceOf, BootDiskOf, name
    <3>5. ASSUME NEW m \in Machines, cache'[m].life = "deleting", api'[m].life = "gone"
          PROVE  NothingLeft(m)'
      BY <2>1, <3>1, <3>3, <3>4, <3>5 DEF GoneIsClean, NothingLeft, InstanceOf, BootDiskOf
    <3>6. CASE pc' = "idle"
      BY <3>5, <3>6 DEF GoneIsClean
    <3>7. CASE key' = key /\ seen' = seen
      <4>1. api'[key].life = "gone" =>
              /\ seen.life = "deleting" => NothingLeft(key)
              /\ seen.life = "live" => cache[key].life # "deleting"
        BY <3>1, <3>3, <3>4 DEF GoneIsClean
      <4> QED
        BY <2>1, <3>1, <3>5, <3>7, <4>1 DEF GoneIsClean, NothingLeft, InstanceOf, BootDiskOf
    <3> QED
      BY <3>2, <3>6, <3>7
  <2>3. CASE Restart
    BY <2>3 DEF Restart, Free, GoneIsClean
  <2>4. ASSUME NEW m \in Machines, Reconcile(m) PROVE GoneIsClean'
    <3>1. api' = api /\ cache' = cache /\ key' = m /\ seen' = cache[m]
      BY <2>4 DEF Reconcile, apiVars
    <3> QED
      BY <2>1, <3>1 DEF GoneIsClean, NothingLeft, InstanceOf, BootDiskOf
  <2>5. ASSUME NEW m \in Machines, Sync(m) PROVE GoneIsClean'
    <3>1. /\ api' = api /\ UNCHANGED <<pc, key, seen>>
          /\ cache' = [cache EXCEPT ![m] = api[m]]
      BY <2>5 DEF Sync, workerVars
    <3>2. \A x \in Machines : cache'[x] = cache[x] \/ cache'[x] = api[x]
      BY <1>1, <3>1
    <3>3. pc # "idle" => key \in Machines
      BY BusyFacts
    <3> QED
      BY <2>1, <3>1, <3>2, <3>3 DEF GoneIsClean, NothingLeft, InstanceOf, BootDiskOf
  <2>6. ASSUME UNCHANGED <<cache, pc, key, seen>>,
               \A m \in Machines : \/ api'[m].life = api[m].life
                                   \/ api[m].life = "live"
        PROVE  GoneIsClean'
    <3>1. pc # "idle" => key \in Machines /\ Precedes(seen, api[key])
      BY BusyFacts
    <3>2. \A m \in Machines : api[m].life = "live" => cache[m].life # "deleting"
      BY <1>1 DEF Precedes
    <3>3. pc # "idle" /\ api[key].life = "live" => seen.life # "deleting"
      BY <3>1 DEF Precedes
    <3> QED
      BY <2>1, <2>6, <3>1, <3>2, <3>3 DEF GoneIsClean, NothingLeft, InstanceOf, BootDiskOf
  <2>7. CASE TogglePause \/ Settle \/ \E m \in Machines : ReconcileSkip(m) \/ SetBootstrapData(m)
    <3>1. UNCHANGED <<api, cache, pc, key, seen>>
      BY <2>7 DEF TogglePause, Settle, ReconcileSkip, SetBootstrapData, apiVars, workerVars
    <3> QED
      BY <2>6, <3>1
  <2>8. ASSUME NEW m \in Machines, EnsurePausedCondition(m) \/ SetOwner(m) \/ RequestDelete(m)
        PROVE  GoneIsClean'
    <3>1. UNCHANGED <<cache, pc, key, seen>>
      BY <2>8 DEF EnsurePausedCondition, SetOwner, RequestDelete, workerVars
    <3>2. KeepsFields \/ Asks(m)
      BY <2>8, ManagerObjects
    <3>3. \A x \in Machines : api'[x].life = api[x].life \/ api[x].life = "live"
      BY <3>2 DEF KeepsFields, KeepsFieldsOf, Asks, KeepsOthers
    <3> QED
      BY <2>6, <3>1, <3>3
  <2> QED
    BY <1>3, <2>2, <2>3, <2>4, <2>5, <2>7, <2>8 DEF Elsewhere, StartReconcile
<1> QED
  BY <1>2, <1>3, StepKinds

\* A call makes a machine provisioned in memory only while its instance runs.
LEMMA CallProvisioned ==
    ASSUME IndInv, CallStep
    PROVE  \/ obj'.provisioned = obj.provisioned
           \/ /\ obj'.provisioned /\ seen.life = "live"
              /\ instance[name].state = "running" /\ instance' = instance
<1>1. pc # "idle"
  BY CallEffect DEF CloudCalls
<1>2. name \in Names /\ obj \in Object /\ instance[name] \in Instance
  BY <1>1, BusyFacts DEF IndInv, TypeOK, CloudTypeOK
<1>3. NotReady.provisioned = obj.provisioned
  BY <1>2 DEF NotReady, Object
<1>4. CASE EnsureInstanceView
  <2>1. instance' = instance /\ seen.life = "live"
    BY <1>4 DEF EnsureInstanceView, cloudVars, IndInv, WorkerIsConsistent
  <2>2. EnsureInstanceRunning(obj, instance[name]) \/ Return(obj, TRUE)
    BY <1>4 DEF EnsureInstanceView
  <2> QED
    BY <1>2, <2>1, <2>2, RunningOutcome, ReturnEffect
<1>5. CASE EnsureInstanceAdopt
  <2> DEFINE o == [obj EXCEPT !.providerID = instance[name].id]
  <2>1. instance' = instance /\ seen.life = "live"
    BY <1>5 DEF EnsureInstanceAdopt, cloudVars, IndInv, WorkerIsConsistent
  <2>2. EnsureInstanceRunning(o, instance[name]) \/ Return(obj, TRUE)
    BY <1>5 DEF EnsureInstanceAdopt
  <2>3. o \in Object /\ o.provisioned = obj.provisioned
    BY <1>2 DEF Object, Instance
  <2> HIDE DEF o
  <2> QED
    BY <1>2, <2>1, <2>2, <2>3, RunningOutcome, ReturnEffect
<1>6. CASE EnsureInstanceCreate
  <2>1. ASSUME NEW id \in InstanceIds,
               EnsureInstanceRunning([obj EXCEPT !.providerID = id],
                                     [id |-> id, state |-> "starting"])
        PROVE  obj'.provisioned = obj.provisioned
    <3> DEFINE o == [obj EXCEPT !.providerID = id]
               i == [id |-> id, state |-> "starting"]
    <3>1. o \in Object /\ o.provisioned = obj.provisioned /\ i \in Instance /\ i.state = "starting"
      BY <1>2 DEF Object, Ids, Instance, RunStates
    <3>2. EnsureInstanceRunning(o, i)
      BY <2>1
    <3> HIDE DEF o, i
    <3> QED
      BY <3>1, <3>2, RunningOutcome
  <2>2. \/ \E id \in InstanceIds :
             EnsureInstanceRunning([obj EXCEPT !.providerID = id],
                                   [id |-> id, state |-> "starting"])
        \/ obj' = obj
    BY <1>6, ReturnEffect DEF EnsureInstanceCreate
  <2> QED
    BY <2>1, <2>2
<1>7. CASE CallFails \/ InstanceStart \/ EnsureInstanceDeleted \/ InstanceStop \/ InstanceDelete
  <2>1. obj' \in {obj, NotReady}
    BY <1>7, ReturnEffect
       DEF CallFails, InstanceStart, EnsureInstanceDeleted, InstanceStop, InstanceDelete,
           InstanceGone, GoTo
  <2> QED
    BY <1>3, <2>1
<1>8. CASE ListAddresses \/ EnsureDiskDeleted \/ DiskDelete
  <2> DEFINE o == [obj EXCEPT !.addresses = TRUE]
             p == [obj EXCEPT !.finalizer = FALSE]
  <2>1. o.provisioned = obj.provisioned /\ p.provisioned = obj.provisioned
    BY <1>2 DEF Object
  <2>2. obj' \in {obj, o, p}
    BY <1>8, ReturnEffect DEF ListAddresses, EnsureDiskDeleted, DiskDelete, RemoveFinalizer, GoTo
  <2> HIDE DEF o, p
  <2> QED
    BY <2>1, <2>2
<1> QED
  BY <1>4, <1>5, <1>6, <1>7, <1>8 DEF CallStep

\* A machine that is provisioned in memory keeps its instance until that is stored.
LEMMA ProvisionedStep ==
    ASSUME IndInv, ProvisionedExists, Undisturbed, Next
    PROVE  ProvisionedExists'
<1>1. CASE CallStep
  <2>1. pc # "idle" /\ seen' = seen /\ name' = name /\ name \in Names
    BY <1>1, CallEffect, BusyFacts DEF CloudCalls, name
  <2>2. instance[name] # NoInstance /\ seen.life = "live" => instance'[name] # NoInstance
    <3>1. CASE KeepsResources
      BY <2>1, <3>1 DEF KeepsResources
    <3>2. CASE Launches
      BY <3>2, LaunchFacts
    <3>3. CASE RemovesInstance
      BY <3>3 DEF RemovesInstance, IndInv, WorkerIsConsistent
    <3>4. CASE RemovesDisk
      BY <3>4 DEF RemovesDisk
    <3> QED
      BY <1>1, <3>1, <3>2, <3>3, <3>4, CallResources
  <2>3. instance[name].state = "running" => instance[name] # NoInstance
    BY NoInstanceFacts
  <2> QED
    BY <1>1, <2>1, <2>2, <2>3, CallProvisioned DEF ProvisionedExists
<1>2. CASE CloudStep
  <2>1. KeepsResources /\ UNCHANGED <<pc, key, seen, obj>> /\ name' = name
    BY <1>2, CloudResources, CloudEffect DEF workerVars, name, IndInv
  <2>2. pc # "idle" => name \in Names
    BY BusyFacts
  <2> QED
    BY <2>1, <2>2 DEF ProvisionedExists, KeepsResources
<1>3. CASE Elsewhere
  <2>1. instance' = instance
    BY <1>3, ElsewhereEffect DEF cloudVars
  <2>2. CASE UNCHANGED <<pc, key, seen, obj>>
    <3>1. name' = name
      BY <2>2 DEF name
    <3> QED
      BY <2>1, <2>2, <3>1 DEF ProvisionedExists
  <2>3. CASE PatchOxideMachine \/ Restart
    <3>1. \/ pc # "idle" /\ key' = key /\ seen' = seen /\ obj' = obj /\ name' = name
          \/ pc' = "idle"
      BY <2>3 DEF PatchOxideMachine, AfterPart, Restart, Free, Patches, name
    <3> QED
      BY <2>1, <3>1 DEF ProvisionedExists
  <2>4. ASSUME NEW m \in Machines, Reconcile(m) PROVE ProvisionedExists'
    <3>1. cache[m] \in Object
      BY DEF IndInv, TypeOK, ManagerTypeOK
    <3>2. seen' = cache[m] /\ obj'.provisioned = cache[m].provisioned
      BY <2>4, <3>1 DEF Reconcile, Object
    <3> QED
      BY <3>2 DEF ProvisionedExists
  <2>5. CASE \/ TogglePause \/ Settle
             \/ \E m \in Machines : \/ ReconcileSkip(m) \/ EnsurePausedCondition(m) \/ Sync(m)
                                    \/ SetOwner(m) \/ SetBootstrapData(m) \/ RequestDelete(m)
    BY <2>2, <2>5 DEF TogglePause, Settle, ReconcileSkip, EnsurePausedCondition, Sync, SetOwner,
                      SetBootstrapData, RequestDelete, workerVars
  <2> QED
    BY <1>3, <2>3, <2>4, <2>5 DEF Elsewhere, StartReconcile
<1> QED
  BY <1>1, <1>2, <1>3, StepKinds

\* A step that changes no variable.
LEMMA StutterOwn == ASSUME OwnInv, UNCHANGED vars PROVE OwnInv'
<1>1. /\ UNCHANGED <<api, cache, pc, key, seen, obj, instance, bootDisk, used>>
  BY DEF vars, apiVars, workerVars, cloudVars
<1>2. IdsAreOwned'
  BY <1>1 DEF OwnInv, IdsAreOwned
<1>3. GoneIsClean'
  BY <1>1 DEF OwnInv, GoneIsClean, NothingLeft, InstanceOf, BootDiskOf
<1>4. ProvisionedExists'
  BY <1>1 DEF OwnInv, ProvisionedExists, name
<1> QED
  BY <1>2, <1>3, <1>4 DEF OwnInv

(***************************************************************************)
(* Every instance has one owner, which alone has its id; who believes that *)
(* a machine is being deleted that is gone finds nothing of it; and only   *)
(* machines with an instance become provisioned.                           *)
(***************************************************************************)
THEOREM Ownership ==
    ASSUME Undisturbed, DistinctNames
    PROVE  Spec => []OwnInv
<1>1. Init => OwnInv
  BY InitOwn
<1>2. IndInv /\ OwnInv /\ [Next]_vars => OwnInv'
  <2> SUFFICES ASSUME IndInv, OwnInv, [Next]_vars PROVE OwnInv'
    OBVIOUS
  <2>1. CASE Next
    BY <2>1, OwnedStep, GoneStep, ProvisionedStep DEF OwnInv
  <2>2. CASE UNCHANGED vars
    BY <2>2, StutterOwn
  <2> QED
    BY <2>1, <2>2
<1> QED
  BY <1>1, <1>2, Invariance, PTL DEF Spec

(***************************************************************************)
(* No instance is the provider of two machines, whatever calls and patches *)
(* failed: a provider id that is stored is that of the machine's own       *)
(* instance, and ids are not used again.                                   *)
(***************************************************************************)
THEOREM ProvidersAreDistinct ==
    ASSUME Undisturbed, DistinctNames
    PROVE  Spec => []DistinctProviderIDs
<1>1. Init => DistinctProviderIDs
  BY TombstoneFacts DEF Init, DistinctProviderIDs
<1>2. IndInv /\ OwnInv /\ DistinctProviderIDs /\ [Next]_vars => DistinctProviderIDs'
  <2> SUFFICES ASSUME IndInv, OwnInv, DistinctProviderIDs, [Next]_vars
               PROVE  DistinctProviderIDs'
    OBVIOUS
  <2>1. CASE \A m \in Machines : api'[m].providerID \in {api[m].providerID, NoId}
    BY <2>1 DEF DistinctProviderIDs
  <2>2. CASE RecordsID
    <3>1. /\ key \in Machines /\ name \in Names /\ name = InstanceName[key]
          /\ instance[name].id = obj.providerID
      BY <2>2, RecordFacts DEF name
    <3>2. /\ api'[key].providerID = obj.providerID
          /\ \A x \in Machines \ {key} : api'[x] = api[x]
      BY <2>2 DEF RecordsID, KeepsOthers
    <3>3. ASSUME NEW m \in Machines \ {key}
          PROVE  api[m].providerID # NoId => api[m].providerID # obj.providerID
      <4>1. name # InstanceName[m]
        BY <3>1 DEF DistinctNames
      <4> QED
        BY <3>1, <4>1 DEF OwnInv, IdsAreOwned
    <3> QED
      BY <3>2, <3>3, RecordFacts DEF DistinctProviderIDs
  <2>3. CASE RecordsProvisioned
    BY <2>1, <2>3 DEF RecordsProvisioned, KeepsOthers
  <2>4. CASE Releases \/ \E m \in Machines : Asks(m)
    BY <2>1, <2>4, TombstoneFacts DEF Releases, Asks, KeepsOthers
  <2>5. CASE KeepsFields
    BY <2>1, <2>5 DEF KeepsFields, KeepsFieldsOf
  <2>6. CASE UNCHANGED vars
    BY <2>1, <2>6 DEF vars, apiVars
  <2> QED
    BY <2>2, <2>3, <2>4, <2>5, <2>6, StepEffects
<1> QED
  BY <1>1, <1>2, Invariance, Ownership, PTL DEF Spec

-----------------------------------------------------------------------------
(***************************************************************************)
(* Refinement: the controller implements MachineLifecycle.                 *)
(***************************************************************************)

\* The initial states map to initial states.
LEMMA LifecycleInit == Init => Lifecycle!MachineInit
<1> SUFFICES ASSUME Init PROVE Lifecycle!MachineInit
  OBVIOUS
<1>1. \A m \in Machines : api[m].life = "live" /\ api[m].providerID = NoId
                          /\ api[m].provisioned = FALSE
  BY TombstoneFacts, NotProvisioned DEF Init
<1>2. \A m \in Machines : InstanceOf(m).id = NoId /\ BootDiskOf(m) = "absent"
  BY NoInstanceFacts DEF Init, InstanceOf, BootDiskOf
<1> QED
  BY <1>1, <1>2 DEF Lifecycle!MachineInit, Init

\* A step that keeps instances and disks changes no resource of MachineLifecycle, and
\* one that keeps the fields of the objects no object of it.
LEMMA LifecycleFrame ==
    /\ KeepsResources => UNCHANGED Lifecycle!resourceVars
    /\ KeepsFields => UNCHANGED Lifecycle!objectVars
<1>1. ASSUME KeepsResources PROVE UNCHANGED Lifecycle!resourceVars
  <2>1. \A m \in Machines : /\ InstanceOf(m).id' = InstanceOf(m).id
                            /\ BootDiskOf(m)' = "absent" <=> BootDiskOf(m) = "absent"
    BY <1>1 DEF KeepsResources, InstanceOf, BootDiskOf
  <2>2. used' = used
    BY <1>1 DEF KeepsResources
  <2> QED
    BY <2>1, <2>2 DEF Lifecycle!resourceVars
<1>2. ASSUME KeepsFields PROVE UNCHANGED Lifecycle!objectVars
  BY <1>2 DEF KeepsFields, KeepsFieldsOf, Lifecycle!objectVars
<1> QED
  BY <1>1, <1>2

\* The instance and the disk of machine m change, those of no other machine do.
LEMMA OtherMachines ==
    ASSUME DistinctNames, NEW m \in Machines,
           \A n \in Names \ {InstanceName[m]} :
               instance'[n].id = instance[n].id /\ (bootDisk'[n] = "absent" <=> bootDisk[n] = "absent")
    PROVE  \A x \in Machines \ {m} :
               /\ instance'[InstanceName[x]].id = instance[InstanceName[x]].id
               /\ bootDisk'[InstanceName[x]] = "absent" <=> bootDisk[InstanceName[x]] = "absent"
<1> SUFFICES ASSUME NEW x \in Machines \ {m}
             PROVE  InstanceName[x] \in Names \ {InstanceName[m]}
  OBVIOUS
<1> QED
  BY DEF DistinctNames

\* Launching an instance is CreateInstance.
LEMMA LaunchRefines ==
    ASSUME IndInv, DistinctNames, KeepsFields, Launches
    PROVE  Lifecycle!CreateInstance(key)
<1>1. /\ key \in Machines /\ name \in Names /\ name = InstanceName[key]
      /\ api[key].providerID = NoId
      /\ instance[name] = NoInstance /\ bootDisk[name] = "absent"
  BY LaunchFacts DEF name
<1>2. PICK id \in InstanceIds : Launch(name, id)
  BY DEF Launches
<1>3. /\ instance \in [Names -> Instance] /\ bootDisk \in [Names -> DiskStates]
  BY DEF IndInv, TypeOK, CloudTypeOK
<1>4. /\ id \in InstanceIds \ used /\ used' = used \cup {id}
      /\ instance'[name].id = id /\ bootDisk'[name] = "attached"
      /\ \A n \in Names \ {name} : instance'[n] = instance[n] /\ bootDisk'[n] = bootDisk[n]
  BY <1>1, <1>2, <1>3 DEF Launch
<1>5. \A x \in Machines \ {key} :
         /\ instance'[InstanceName[x]].id = instance[InstanceName[x]].id
         /\ bootDisk'[InstanceName[x]] = "absent" <=> bootDisk[InstanceName[x]] = "absent"
  BY <1>1, <1>4, OtherMachines
<1>6. [x \in Machines |-> InstanceOf(x).id]'
        = [[x \in Machines |-> InstanceOf(x).id] EXCEPT ![key] = id]
  BY <1>1, <1>4, <1>5 DEF InstanceOf
<1>7. {x \in Machines : BootDiskOf(x) # "absent"}'
        = {x \in Machines : BootDiskOf(x) # "absent"} \cup {key}
  BY <1>1, <1>4, <1>5 DEF BootDiskOf
<1>8. InstanceOf(key).id = NoId /\ key \notin {x \in Machines : BootDiskOf(x) # "absent"}
  BY <1>1, NoInstanceFacts DEF InstanceOf, BootDiskOf
<1>9. UNCHANGED Lifecycle!objectVars
  BY LifecycleFrame
<1> QED
  BY <1>1, <1>4, <1>6, <1>7, <1>8, <1>9 DEF Lifecycle!CreateInstance

\* A machine of which the worker is about to remove something is being deleted.
LEMMA RemovalFacts ==
    ASSUME IndInv, OwnInv, pc \in {"deleteInstance", "deleteDisk"},
           instance[name] # NoInstance \/ bootDisk[name] # "absent"
    PROVE  key \in Machines /\ name \in Names /\ api[key].life = "deleting"
<1>1. pc # "idle" /\ seen.life = "deleting"
  BY DEF IndInv, WorkerIsConsistent
<1>2. key \in Machines /\ name \in Names /\ api[key] \in Object /\ Precedes(seen, api[key])
  BY <1>1, BusyFacts
<1>3. api[key].life # "gone"
  BY <1>1 DEF OwnInv, GoneIsClean, NothingLeft, InstanceOf, BootDiskOf, name
<1> QED
  BY <1>1, <1>2, <1>3 DEF Precedes, Object

\* Removing an instance is DestroyInstance.
LEMMA RemoveInstanceRefines ==
    ASSUME IndInv, OwnInv, DistinctNames, KeepsFields, RemovesInstance
    PROVE  Lifecycle!DestroyInstance(key)
<1>1. instance[name] # NoInstance
  BY NoInstanceFacts DEF RemovesInstance
<1>2. /\ key \in Machines /\ name \in Names /\ name = InstanceName[key]
      /\ api[key].life = "deleting"
  BY <1>1, RemovalFacts DEF RemovesInstance, name
<1>3. /\ instance \in [Names -> Instance] /\ bootDisk \in [Names -> DiskStates]
      /\ used \subseteq InstanceIds
  BY DEF IndInv, TypeOK, CloudTypeOK
<1>4. instance[name].id # NoId
  BY <1>1, <1>2, <1>3 DEF OwnInv, IdsAreOwned
<1>5. /\ used' = used /\ instance'[name].id = NoId
      /\ bootDisk'[name] = "absent" <=> bootDisk[name] = "absent"
      /\ \A n \in Names \ {name} : instance'[n] = instance[n] /\ bootDisk'[n] = bootDisk[n]
  BY <1>2, <1>3, NoInstanceFacts DEF RemovesInstance, Remove
<1>6. \A x \in Machines \ {key} :
         /\ instance'[InstanceName[x]].id = instance[InstanceName[x]].id
         /\ bootDisk'[InstanceName[x]] = "absent" <=> bootDisk[InstanceName[x]] = "absent"
  BY <1>2, <1>5, OtherMachines
<1>7. [x \in Machines |-> InstanceOf(x).id]'
        = [[x \in Machines |-> InstanceOf(x).id] EXCEPT ![key] = NoId]
  BY <1>2, <1>5, <1>6 DEF InstanceOf
<1>8. {x \in Machines : BootDiskOf(x) # "absent"}' = {x \in Machines : BootDiskOf(x) # "absent"}
  BY <1>2, <1>5, <1>6 DEF BootDiskOf
<1>9. UNCHANGED Lifecycle!objectVars
  BY LifecycleFrame
<1> QED
  BY <1>2, <1>4, <1>5, <1>7, <1>8, <1>9 DEF Lifecycle!DestroyInstance, InstanceOf

\* Removing a disk is DestroyDisk, or nothing when there was none.
LEMMA RemoveDiskRefines ==
    ASSUME IndInv, OwnInv, DistinctNames, KeepsFields, RemovesDisk
    PROVE  Lifecycle!DestroyDisk(key) \/ UNCHANGED Lifecycle!machineVars
<1>1. pc # "idle" /\ instance[name] = NoInstance
  BY DEF RemovesDisk, IndInv, ReadyToRelease
<1>2. key \in Machines /\ name \in Names /\ name = InstanceName[key]
  BY <1>1, BusyFacts DEF name
<1>3. /\ used' = used /\ instance' = instance /\ bootDisk'[name] = "absent"
      /\ \A n \in Names \ {name} : bootDisk'[n] = bootDisk[n]
  BY <1>2 DEF RemovesDisk, IndInv, TypeOK, CloudTypeOK
<1>4. UNCHANGED Lifecycle!objectVars
  BY LifecycleFrame
<1>5. CASE bootDisk[name] = "absent"
  <2>1. KeepsResources
    BY <1>3, <1>5 DEF KeepsResources
  <2> QED
    BY <1>4, <2>1, LifecycleFrame DEF Lifecycle!machineVars
<1>6. CASE bootDisk[name] # "absent"
  <2>1. api[key].life = "deleting"
    BY <1>6, RemovalFacts DEF RemovesDisk
  <2>2. \A x \in Machines \ {key} :
           /\ instance'[InstanceName[x]].id = instance[InstanceName[x]].id
           /\ bootDisk'[InstanceName[x]] = "absent" <=> bootDisk[InstanceName[x]] = "absent"
    BY <1>2, <1>3, OtherMachines
  <2>3. {x \in Machines : BootDiskOf(x) # "absent"}'
          = {x \in Machines : BootDiskOf(x) # "absent"} \ {key}
    BY <1>2, <1>3, <2>2 DEF BootDiskOf
  <2>4. InstanceOf(key).id = NoId
    BY <1>1, <1>2, NoInstanceFacts DEF InstanceOf
  <2>5. [x \in Machines |-> InstanceOf(x).id]' = [x \in Machines |-> InstanceOf(x).id]
    BY <1>3 DEF InstanceOf
  <2> QED
    BY <1>2, <1>3, <1>4, <2>1, <2>3, <2>4, <2>5 DEF Lifecycle!DestroyDisk
<1> QED
  BY <1>5, <1>6

\* The patch that stores the provider id is RecordProviderID, or changes nothing.
LEMMA RecordIDRefines ==
    ASSUME IndInv, RecordsID, UNCHANGED cloudVars, NEW m \in Machines, m = key
    PROVE  Lifecycle!RecordProviderID(m) \/ UNCHANGED Lifecycle!machineVars
<1>1. /\ obj.providerID # NoId /\ InstanceOf(m).id = obj.providerID
      /\ api[m].providerID \in {NoId, obj.providerID}
  BY RecordFacts DEF InstanceOf, name
<1>2. /\ api[m].life # "gone" /\ api'[m].life = api[m].life
      /\ api'[m].provisioned = api[m].provisioned
      /\ api'[m].providerID = obj.providerID
      /\ \A x \in Machines \ {m} : api'[x] = api[x]
  BY DEF RecordsID, KeepsOthers
<1>3. UNCHANGED Lifecycle!resourceVars
  BY UntouchedResources, LifecycleFrame DEF cloudVars
<1>4. /\ [x \in Machines |-> api[x].life]' = [x \in Machines |-> api[x].life]
      /\ [x \in Machines |-> api[x].provisioned]' = [x \in Machines |-> api[x].provisioned]
  BY <1>2
<1>5. [x \in Machines |-> api[x].providerID]'
        = [[x \in Machines |-> api[x].providerID] EXCEPT ![m] = obj.providerID]
  BY <1>1, <1>2
<1>6. CASE api[m].providerID = NoId
  BY <1>1, <1>2, <1>3, <1>4, <1>5, <1>6 DEF Lifecycle!RecordProviderID
<1>7. CASE api[m].providerID = obj.providerID
  <2>1. \A x \in Machines : api'[x].providerID = api[x].providerID
    BY <1>2, <1>7
  <2> QED
    BY <1>3, <1>4, <2>1 DEF Lifecycle!machineVars, Lifecycle!objectVars
<1> QED
  BY <1>1, <1>6, <1>7

\* The patch that stores the status is Provision.
LEMMA ProvisionRefines ==
    ASSUME IndInv, OwnInv, RecordsProvisioned, UNCHANGED cloudVars, NEW m \in Machines, m = key
    PROVE  Lifecycle!Provision(m)
<1>1. pc # "idle" /\ obj.provisioned # seen.provisioned
  BY DEF RecordsProvisioned
<1>2. name \in Names /\ name = InstanceName[m]
  BY <1>1, BusyFacts DEF name
<1>3. obj.provisioned /\ instance[name] # NoInstance
  BY <1>1 DEF OwnInv, ProvisionedExists
<1>4. InstanceOf(m).id # NoId
  BY <1>2, <1>3 DEF OwnInv, IdsAreOwned, IndInv, TypeOK, CloudTypeOK, InstanceOf
<1>5. /\ api[m].life # "gone" /\ api'[m].life = api[m].life
      /\ api'[m].providerID = api[m].providerID
      /\ api'[m].provisioned = TRUE
      /\ \A x \in Machines \ {m} : api'[x] = api[x]
  BY <1>1, <1>3, BusyFacts DEF RecordsProvisioned, KeepsOthers, Object
<1>6. UNCHANGED Lifecycle!resourceVars
  BY UntouchedResources, LifecycleFrame DEF cloudVars
<1>7. /\ [x \in Machines |-> api[x].life]' = [x \in Machines |-> api[x].life]
      /\ [x \in Machines |-> api[x].providerID]' = [x \in Machines |-> api[x].providerID]
  BY <1>5
<1>8. [x \in Machines |-> api[x].provisioned]'
        = [[x \in Machines |-> api[x].provisioned] EXCEPT ![m] = TRUE]
  BY <1>2, <1>5
<1> QED
  BY <1>2, <1>4, <1>5, <1>6, <1>7, <1>8 DEF Lifecycle!Provision

\* An object that becomes the tombstone disappears.
LEMMA TombstoneDisappears ==
    ASSUME NEW m \in Machines, api'[m] = Tombstone, KeepsOthers(m), UNCHANGED cloudVars
    PROVE  Lifecycle!Disappear(m)
<1>1. UNCHANGED Lifecycle!resourceVars
  BY UntouchedResources, LifecycleFrame DEF cloudVars
<1>2. /\ Tombstone.life = "gone" /\ Tombstone.providerID = NoId /\ Tombstone.provisioned = FALSE
  BY TombstoneFacts, NotProvisioned
<1>3. \A x \in Machines \ {m} : api'[x] = api[x]
  BY DEF KeepsOthers
<1>4. /\ [x \in Machines |-> api[x].life]' = [[x \in Machines |-> api[x].life] EXCEPT ![m] = "gone"]
      /\ [x \in Machines |-> api[x].providerID]'
           = [[x \in Machines |-> api[x].providerID] EXCEPT ![m] = NoId]
      /\ [x \in Machines |-> api[x].provisioned]'
           = [[x \in Machines |-> api[x].provisioned] EXCEPT ![m] = FALSE]
  BY <1>2, <1>3
<1> QED
  BY <1>1, <1>4 DEF Lifecycle!Disappear

\* The patch that takes the last finalizer is Release.
LEMMA ReleaseRefines ==
    ASSUME IndInv, Releases, UNCHANGED cloudVars, NEW m \in Machines, m = key
    PROVE  Lifecycle!Release(m)
<1>1. pc \in Patches /\ pc # "idle" /\ api[m].life = "deleting"
  BY DEF Releases, Patches
<1>2. instance[name] = NoInstance /\ bootDisk[name] = "absent"
  BY <1>1 DEF Releases, IndInv, ReadyToRelease
<1>3. InstanceOf(m).id = NoId /\ m \notin {x \in Machines : BootDiskOf(x) # "absent"}
  BY <1>2, NoInstanceFacts DEF InstanceOf, BootDiskOf, name
<1>4. Lifecycle!Disappear(m)
  BY TombstoneDisappears DEF Releases
<1> QED
  BY <1>1, <1>3, <1>4 DEF Lifecycle!Release

\* What the user asks for is RequestDelete.
LEMMA AskRefines ==
    ASSUME IndInv, NEW m \in Machines, Asks(m), UNCHANGED cloudVars
    PROVE  Lifecycle!RequestDelete(m)
<1>1. api[m].life = "live" /\ KeepsOthers(m)
  BY DEF Asks
<1>2. CASE ~api[m].finalizer /\ api'[m] = Tombstone
  <2>1. api[m].providerID = NoId
    BY <1>2 DEF IndInv, ObjectsAreOrdered, WellFormed
  <2> QED
    BY <1>1, <1>2, <2>1, TombstoneDisappears DEF Lifecycle!RequestDelete
<1>3. CASE /\ api'[m].life = "deleting"
           /\ api'[m].providerID = api[m].providerID
           /\ api'[m].provisioned = api[m].provisioned
  <2>1. \A x \in Machines \ {m} : api'[x] = api[x]
    BY <1>1 DEF KeepsOthers
  <2>2. UNCHANGED Lifecycle!resourceVars
    BY UntouchedResources, LifecycleFrame DEF cloudVars
  <2>3. /\ [x \in Machines |-> api[x].life]'
             = [[x \in Machines |-> api[x].life] EXCEPT ![m] = "deleting"]
        /\ [x \in Machines |-> api[x].providerID]' = [x \in Machines |-> api[x].providerID]
        /\ [x \in Machines |-> api[x].provisioned]' = [x \in Machines |-> api[x].provisioned]
    BY <1>3, <2>1
  <2> QED
    BY <1>1, <2>2, <2>3 DEF Lifecycle!RequestDelete
<1> QED
  BY <1>2, <1>3 DEF Asks

\* Every step maps to a step of MachineLifecycle, or to none.
LEMMA LifecycleStep ==
    ASSUME IndInv, OwnInv, Undisturbed, DistinctNames, Next
    PROVE  Lifecycle!MachineNext \/ UNCHANGED Lifecycle!machineVars
<1>1. CASE KeepsFields /\ KeepsResources
  BY <1>1, LifecycleFrame DEF Lifecycle!machineVars
<1>2. CASE KeepsFields /\ Launches
  BY <1>2, LaunchRefines, LaunchFacts DEF Lifecycle!MachineNext, Lifecycle!ControllerStep
<1>3. CASE KeepsFields /\ RemovesInstance
  <2>1. key \in Machines
    BY <1>3, BusyFacts DEF RemovesInstance
  <2> QED
    BY <1>3, <2>1, RemoveInstanceRefines DEF Lifecycle!MachineNext, Lifecycle!ControllerStep
<1>4. CASE KeepsFields /\ RemovesDisk
  <2>1. key \in Machines
    BY <1>4, BusyFacts DEF RemovesDisk
  <2> QED
    BY <1>4, <2>1, RemoveDiskRefines DEF Lifecycle!MachineNext, Lifecycle!ControllerStep
<1>5. CASE UNCHANGED cloudVars /\ RecordsID
  <2>1. PICK m \in Machines : m = key
    BY <1>5, RecordFacts
  <2> QED
    BY <1>5, <2>1, RecordIDRefines DEF Lifecycle!MachineNext, Lifecycle!ControllerStep
<1>6. CASE UNCHANGED cloudVars /\ RecordsProvisioned
  <2>1. PICK m \in Machines : m = key
    BY <1>6, BusyFacts DEF RecordsProvisioned
  <2> QED
    BY <1>6, <2>1, ProvisionRefines DEF Lifecycle!MachineNext, Lifecycle!ControllerStep
<1>7. CASE UNCHANGED cloudVars /\ Releases
  <2>1. PICK m \in Machines : m = key
    BY <1>7, BusyFacts DEF Releases
  <2> QED
    BY <1>7, <2>1, ReleaseRefines DEF Lifecycle!MachineNext, Lifecycle!ControllerStep
<1>8. CASE UNCHANGED cloudVars /\ \E m \in Machines : Asks(m)
  BY <1>8, AskRefines DEF Lifecycle!MachineNext
<1> QED
  BY <1>1, <1>2, <1>3, <1>4, <1>5, <1>6, <1>7, <1>8, StepEffects

(***************************************************************************)
(* Caches, retries, partial patches, faults and all: what the controller   *)
(* does to the objects and to the Oxide project is what MachineLifecycle   *)
(* says, one step for one step.                                            *)
(***************************************************************************)
THEOREM Refinement ==
    ASSUME Undisturbed, DistinctNames
    PROVE  Spec => ImplementsLifecycle
<1>1. Init => Lifecycle!MachineInit
  BY LifecycleInit
<1>2. IndInv /\ OwnInv /\ [Next]_vars => [Lifecycle!MachineNext]_(Lifecycle!machineVars)
  <2> SUFFICES ASSUME IndInv, OwnInv, [Next]_vars
               PROVE  Lifecycle!MachineNext \/ UNCHANGED Lifecycle!machineVars
    OBVIOUS
  <2>1. CASE Next
    BY <2>1, LifecycleStep
  <2>2. CASE UNCHANGED vars
    <3>1. UNCHANGED <<api, instance, bootDisk, used>>
      BY <2>2 DEF vars, apiVars, cloudVars
    <3> QED
      BY <3>1, UntouchedObjects, UntouchedResources, LifecycleFrame DEF Lifecycle!machineVars
  <2> QED
    BY <2>1, <2>2
<1> QED
  BY <1>1, <1>2, Invariance, Ownership, PTL
     DEF Spec, ImplementsLifecycle, Lifecycle!MachineSpec
==============================================================================
