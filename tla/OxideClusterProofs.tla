-------------------------- MODULE OxideClusterProofs --------------------------
(***************************************************************************)
(* The versions of the OxideCluster and its endpoint: TypeOK,              *)
(* ClusterReleaseIsClean, EndpointStable and EndpointExists, for all       *)
(* machines, addresses and faults.                                         *)
(***************************************************************************)
EXTENDS OxideClusterProperties, TLAPS

USE NoIdAssumption, NoAddressAssumption, StrangerAssumption

-----------------------------------------------------------------------------
(***************************************************************************)
(* Records.                                                                *)
(***************************************************************************)

\* What is left of an object that is gone.
LEMMA TombstoneFacts ==
    /\ ClusterTombstone \in Cluster
    /\ ClusterTombstone.life = "gone" /\ ClusterTombstone.host = NoAddress
    /\ ~ClusterTombstone.finalizer /\ ~ClusterTombstone.provisioned
BY DEF ClusterTombstone, NewCluster, Cluster, Hosts, Conditions

LEMMA NoIpFacts ==
    /\ NoFloatingIp \in FloatingIp
    /\ NoFloatingIp.address = NoAddress /\ NoFloatingIp.holder = NoId
BY DEF NoFloatingIp, FloatingIp, Hosts

\* The floating IP without its holder.
LEMMA DetachedFacts ==
    ASSUME fip \in FloatingIp
    PROVE  /\ Detached \in FloatingIp
           /\ Detached.address = fip.address /\ Detached.holder = NoId
BY DEF Detached, FloatingIp

\* The machines as their watchers see them.
LEMMA CurrentFacts ==
    ASSUME MachineTypeOK, NEW m \in Machines
    PROVE  /\ Current(m) \in Machine
           /\ Current(m).life = life[m] /\ Current(m).providerID = providerID[m]
           /\ Current(m).provisioned = provisioned[m]
BY DEF Current, Machine, MachineTypeOK

\* What Reconcile changes in memory: the finalizer, the endpoint, and the condition.
LEMMA ObjectFacts ==
    ASSUME NEW c \in Cluster, NEW b \in BOOLEAN
    PROVE  /\ [c EXCEPT !.finalizer = b] \in Cluster
           /\ [c EXCEPT !.finalizer = b].finalizer = b
           /\ [c EXCEPT !.finalizer = b].host = c.host
           /\ [c EXCEPT !.finalizer = b].provisioned = c.provisioned
           /\ [c EXCEPT !.finalizer = b].attached = c.attached
BY DEF Cluster

LEMMA AttachedFacts ==
    ASSUME obj \in Cluster, NEW i
    PROVE  /\ Attached(i) \in Cluster
           /\ Attached(i).finalizer = obj.finalizer /\ Attached(i).host = obj.host
           /\ Attached(i).provisioned = obj.provisioned
           /\ Attached(i).attached = IF i.holder # NoId THEN "true" ELSE "false"
BY DEF Attached, Cluster, Conditions

-----------------------------------------------------------------------------
(***************************************************************************)
(* Types.                                                                  *)
(***************************************************************************)

\* The machines and their instances.
LEMMA MachineTypes ==
    ASSUME MachineTypeOK, NEW m \in Machines, ControllerStep(m) \/ RequestDelete(m)
    PROVE  MachineTypeOK'
<1>1. CASE CreateInstance(m)
  BY <1>1 DEF CreateInstance, objectVars, MachineTypeOK
<1>2. CASE RecordProviderID(m)
  BY <1>2 DEF RecordProviderID, resourceVars, MachineTypeOK
<1>3. CASE Provision(m)
  BY <1>3 DEF Provision, resourceVars, MachineTypeOK
<1>4. CASE DestroyInstance(m) \/ DestroyDisk(m)
  BY <1>4 DEF DestroyInstance, DestroyDisk, objectVars, MachineTypeOK
<1>5. CASE Disappear(m)
  BY <1>5 DEF Disappear, resourceVars, MachineTypeOK
<1>6. CASE RequestDelete(m) /\ ~Disappear(m)
  BY <1>6 DEF RequestDelete, resourceVars, MachineTypeOK
<1> QED
  BY <1>1, <1>2, <1>3, <1>4, <1>5, <1>6 DEF ControllerStep, Release

\* What the worker holds while it reconciles.
WorkerTypeOK ==
    /\ pc \in CloudCalls \cup Patches \cup {"listMachines", "idle"}
    /\ seen \in Cluster /\ obj \in Cluster
    /\ (seen.life = "gone") <=> (pc = "idle")
    /\ ip \in FloatingIp
    /\ target \in InstanceIds \cup {NoId}
    /\ again \in BOOLEAN

\* Everything else but the machines.
SurroundingsTypeOK ==
    /\ cluster \in Cluster /\ cache \in Cluster
    /\ machineCache \in [Machines -> Machine]
    /\ ownerPaused \in BOOLEAN /\ ownerDeleted \in BOOLEAN /\ queued \in BOOLEAN
    /\ fip \in FloatingIp /\ late \subseteq Hosts /\ quiet \in BOOLEAN

LEMMA TypeParts == TypeOK <=> MachineTypeOK /\ WorkerTypeOK /\ SurroundingsTypeOK
BY DEF TypeOK, WorkerTypeOK, SurroundingsTypeOK

LEMMA TypePartsNext == MachineTypeOK' /\ WorkerTypeOK' /\ SurroundingsTypeOK' => TypeOK'
BY DEF TypeOK, WorkerTypeOK, SurroundingsTypeOK

\* The ways in which a call ends.
LEMMA ReturnTypes ==
    ASSUME WorkerTypeOK, pc # "idle", NEW o \in Cluster, NEW r \in BOOLEAN, Return(o, r)
    PROVE  WorkerTypeOK'
BY NoIpFacts DEF WorkerTypeOK, Return, Patches

LEMMA ProvisionedTypes ==
    ASSUME WorkerTypeOK, pc # "idle", NEW i \in FloatingIp, Provisioned(i)
    PROVE  WorkerTypeOK'
<1> DEFINE o == [obj EXCEPT !.host = i.address, !.provisioned = TRUE]
<1>1. o \in Cluster
  BY DEF WorkerTypeOK, Cluster, FloatingIp
<1>2. pc' = "listMachines" /\ ip' = i /\ obj' = o /\ UNCHANGED <<seen, target, again>>
  BY DEF Provisioned
<1> HIDE DEF o
<1> QED
  BY <1>1, <1>2 DEF WorkerTypeOK

\* The merge of a part.
LEMMA MergeTypes ==
    ASSUME TypeOK, pc \in Patches, cluster.life # "gone"
    PROVE  Merge(pc, cluster) \in Cluster
<1>1. cluster \in Cluster /\ obj \in Cluster /\ seen \in Cluster
  BY DEF TypeOK
<1>2. CASE pc = "patchConditions"
  BY <1>1, <1>2 DEF Merge, MergeField, Cluster
<1>3. CASE pc = "patchSpec"
  BY <1>1, <1>3, TombstoneFacts DEF Merge, MergeField, Cluster
<1>4. CASE pc = "patchStatus"
  BY <1>1, <1>4 DEF Merge, MergeField, Cluster
<1> QED
  BY <1>2, <1>3, <1>4 DEF Patches

\* After a part of the patch.
LEMMA AfterPartTypes ==
    ASSUME TypeOK, pc \in Patches, NEW f \in BOOLEAN, AfterPart(f)
    PROVE  WorkerTypeOK' /\ queued' \in BOOLEAN
<1>1. WorkerTypeOK /\ pc # "idle" /\ queued \in BOOLEAN
  BY DEF TypeOK, WorkerTypeOK, Patches
<1>2. CASE pc = "patchStatus"
  BY <1>1, <1>2, TombstoneFacts, NoIpFacts DEF AfterPart, Free, WorkerTypeOK
<1>3. CASE pc # "patchStatus"
  BY <1>1, <1>3 DEF AfterPart, WorkerTypeOK, Patches
<1> QED
  BY <1>2, <1>3

\* The steps of the worker between Take and the patch.
CallStep ==
    \/ CallFails
    \/ EnsureFloatingIpView \/ EnsureFloatingIpCreate \/ EnsureFloatingIpDeleted
    \/ ListMachines \/ DetachFloatingIp \/ AttachFloatingIp

\* What a creation may do to the floating IP.
LEMMA CreateOutcome ==
    ASSUME TypeOK, EnsureFloatingIpCreate
    PROVE  /\ pc = "createIp"
           /\ \/ /\ fip = NoFloatingIp /\ fip' \in FloatingIp
                 /\ fip'.holder = NoId /\ fip'.address # NoAddress
                 /\ obj.host # NoAddress => fip'.address = obj.host
                 /\ late' = late /\ (Provisioned(fip') \/ Return(obj, TRUE))
              \/ fip' = fip /\ late' = late /\ Return(obj, TRUE)
              \/ fip' = fip /\ late' = late \cup {obj.host} /\ Return(obj, TRUE)
<1>1. obj.host \in Addresses \cup {NoAddress}
  BY DEF TypeOK, Cluster, Hosts
<1> QED
  BY <1>1 DEF EnsureFloatingIpCreate, Allocates, FloatingIp, Hosts

\* All that a call may touch.
LEMMA CallFrame ==
    ASSUME CallStep
    PROVE  /\ pc \in CloudCalls \cup {"listMachines"} /\ pc # "idle"
           /\ UNCHANGED <<machineVars, apiVars, cacheVars, queued, quiet, seen>>
           /\ late' = late \/ (EnsureFloatingIpCreate /\ late' = late \cup {obj.host})
BY DEF CallStep, CallFails, EnsureFloatingIpView, EnsureFloatingIpCreate, RemoveFinalizer,
       EnsureFloatingIpDeleted, DeletionRefused, ListMachines, Place, DetachFloatingIp,
       AttachFloatingIp, Return, Provisioned, CloudCalls

\* What nobody touched keeps its type.
LEMMA FrameTypes ==
    ASSUME TypeOK
    PROVE  /\ UNCHANGED machineVars => MachineTypeOK'
           /\ UNCHANGED workerVars => WorkerTypeOK'
           /\ UNCHANGED <<apiVars, cacheVars, queued, fip, late, quiet>> => SurroundingsTypeOK'
BY DEF TypeOK, MachineTypeOK, WorkerTypeOK, SurroundingsTypeOK, machineVars, objectVars,
       resourceVars, workerVars, apiVars, cacheVars

\* The outcomes of ListMachines.
LEMMA PlaceOutcome ==
    ASSUME TypeOK, Place
    PROVE  \E t \in InstanceIds \cup {NoId} :
              /\ IF Ready = {} THEN t = NoId
                 ELSE t # NoId /\ \E m \in Ready : machineCache[m].providerID = t
              /\ \/ /\ ShouldAttach /\ ip.holder # NoId
                    /\ pc' = "detachIp" /\ target' = t /\ UNCHANGED <<seen, obj, ip, again>>
                 \/ /\ ShouldAttach /\ ip.holder = NoId /\ t # NoId
                    /\ pc' = "attachIp" /\ target' = t /\ UNCHANGED <<seen, obj, ip, again>>
                 \/ /\ ~ShouldAttach \/ (ip.holder = NoId /\ t = NoId)
                    /\ Return(Attached(ip), FALSE)
<1>1. ASSUME NEW m \in Ready
      PROVE  machineCache[m].providerID \in InstanceIds /\ machineCache[m].providerID # NoId
  BY DEF Ready, TypeOK, Machine
<1>2. Ready = {} \/ \E m \in Ready : TRUE
  OBVIOUS
<1> QED
  BY <1>1, <1>2 DEF Place

\* A call changes the worker's variables and the floating IP.
LEMMA CallTypes ==
    ASSUME TypeOK, CallStep
    PROVE  TypeOK'
<1>1. /\ pc # "idle" /\ pc \in CloudCalls \cup {"listMachines"}
      /\ UNCHANGED <<machineVars, apiVars, cacheVars, queued, quiet, seen>>
  BY CallFrame
<1>2. WorkerTypeOK /\ obj \in Cluster /\ fip \in FloatingIp /\ ip \in FloatingIp
  BY TypeParts DEF WorkerTypeOK, SurroundingsTypeOK
<1>3. ASSUME Return(obj, TRUE) PROVE WorkerTypeOK'
  BY <1>1, <1>2, <1>3, ReturnTypes
<1>4. ASSUME RemoveFinalizer PROVE WorkerTypeOK'
  BY <1>1, <1>2, <1>4, ReturnTypes, ObjectFacts DEF RemoveFinalizer
<1>5. ASSUME NEW i, Return(Attached(i), FALSE) PROVE WorkerTypeOK'
  BY <1>1, <1>2, <1>5, ReturnTypes, AttachedFacts
<1>6. WorkerTypeOK'
  <2>1. CASE CallFails
    BY <1>3, <2>1 DEF CallFails
  <2>2. CASE EnsureFloatingIpView
    <3>1. CASE Provisioned(fip)
      BY <1>1, <1>2, <3>1, ProvisionedTypes
    <3>2. CASE pc' = "createIp" /\ UNCHANGED <<seen, obj, ip, target, again>>
      BY <1>1, <1>2, <3>2 DEF WorkerTypeOK, CloudCalls
    <3> QED
      BY <2>2, <3>1, <3>2 DEF EnsureFloatingIpView
  <2>3. CASE EnsureFloatingIpCreate
    BY <1>1, <1>2, <1>3, <2>3, CreateOutcome, ProvisionedTypes
  <2>4. CASE EnsureFloatingIpDeleted
    BY <1>3, <1>4, <2>4 DEF EnsureFloatingIpDeleted, DeletionRefused
  <2>5. CASE ListMachines
    <3>1. CASE Place
      <4>1. PICK t \in InstanceIds \cup {NoId} :
               \/ pc' \in {"detachIp", "attachIp"} /\ target' = t /\ UNCHANGED <<seen, obj, ip, again>>
               \/ Return(Attached(ip), FALSE)
        BY <3>1, PlaceOutcome
      <4>2. CASE pc' \in {"detachIp", "attachIp"} /\ target' = t /\ UNCHANGED <<seen, obj, ip, again>>
        BY <1>1, <1>2, <4>2 DEF WorkerTypeOK, CloudCalls
      <4> QED
        BY <1>5, <4>1, <4>2
    <3> QED
      BY <1>3, <2>5, <3>1 DEF ListMachines
  <2>6. CASE DetachFloatingIp
    <3>1. CASE pc' = "attachIp" /\ ip' = Detached /\ UNCHANGED <<seen, obj, target, again>>
      BY <1>1, <1>2, <3>1, DetachedFacts DEF WorkerTypeOK, CloudCalls
    <3> QED
      BY <1>3, <1>5, <2>6, <3>1 DEF DetachFloatingIp
  <2>7. CASE AttachFloatingIp
    BY <1>3, <1>5, <2>7 DEF AttachFloatingIp
  <2> QED
    BY <2>1, <2>2, <2>3, <2>4, <2>5, <2>6, <2>7 DEF CallStep
<1>7. fip' \in FloatingIp
  <2>1. CASE EnsureFloatingIpCreate
    BY <1>2, <2>1, CreateOutcome
  <2>2. CASE EnsureFloatingIpDeleted
    BY <1>2, <2>2, NoIpFacts DEF EnsureFloatingIpDeleted
  <2>3. CASE DetachFloatingIp
    BY <1>2, <2>3, DetachedFacts DEF DetachFloatingIp
  <2>4. CASE AttachFloatingIp
    BY <1>2, <2>4 DEF AttachFloatingIp, FloatingIp, WorkerTypeOK
  <2>5. CASE CallFails \/ EnsureFloatingIpView \/ ListMachines
    BY <1>2, <2>5 DEF CallFails, EnsureFloatingIpView, ListMachines
  <2> QED
    BY <2>1, <2>2, <2>3, <2>4, <2>5 DEF CallStep
<1>8. MachineTypeOK'
  BY <1>1, FrameTypes
<1>9. SurroundingsTypeOK'
  <2>1. SurroundingsTypeOK
    BY TypeParts
  <2>2. UNCHANGED <<cluster, ownerPaused, ownerDeleted, cache, machineCache, queued, quiet>>
    BY <1>1 DEF apiVars, cacheVars
  <2>3. late' \subseteq Hosts
    BY <1>2, <2>1, CallFrame DEF SurroundingsTypeOK, Cluster
  <2> QED
    BY <1>7, <2>1, <2>2, <2>3 DEF SurroundingsTypeOK
<1> QED
  BY <1>6, <1>8, <1>9, TypePartsNext

\* The patch.
LEMMA PatchTypes ==
    ASSUME TypeOK, PatchOxideCluster
    PROVE  TypeOK'
<1>1. /\ pc \in Patches
      /\ UNCHANGED <<machineVars, ownerPaused, ownerDeleted, cacheVars, fip, late, quiet>>
      /\ \E f \in BOOLEAN : AfterPart(f)
      /\ cluster' = cluster \/ (cluster.life # "gone" /\ cluster' = Merge(pc, cluster))
  BY DEF PatchOxideCluster
<1>2. WorkerTypeOK' /\ queued' \in BOOLEAN
  BY <1>1, AfterPartTypes
<1>3. cluster' \in Cluster
  BY <1>1, MergeTypes DEF TypeOK
<1>4. MachineTypeOK'
  BY <1>1, FrameTypes
<1>5. SurroundingsTypeOK'
  BY <1>1, <1>2, <1>3, TypeParts DEF SurroundingsTypeOK, cacheVars
<1> QED
  BY <1>2, <1>4, <1>5, TypePartsNext

\* The start of a reconcile.
LEMMA ReconcileTypes ==
    ASSUME TypeOK, Reconcile
    PROVE  TypeOK'
<1>1. /\ cache \in Cluster /\ cache.life # "gone" /\ WorkerTypeOK
      /\ [cache EXCEPT !.finalizer = TRUE] \in Cluster
  BY ObjectFacts DEF TypeOK, Reconcile, WorkerTypeOK
<1>2. /\ seen' = cache /\ UNCHANGED <<ip, target>> /\ again' \in BOOLEAN
      /\ pc' \in {"deleteIp", "patchConditions", "viewIp"}
      /\ obj' \in {cache, [cache EXCEPT !.finalizer = TRUE]}
  BY DEF Reconcile
<1>3. WorkerTypeOK'
  BY <1>1, <1>2 DEF WorkerTypeOK, CloudCalls, Patches
<1>4. UNCHANGED <<machineVars, apiVars, cacheVars, fip, late, quiet>> /\ queued' = FALSE
  BY DEF Reconcile
<1>5. MachineTypeOK'
  BY <1>4, FrameTypes
<1>6. SurroundingsTypeOK'
  BY <1>4, TypeParts DEF SurroundingsTypeOK, apiVars, cacheVars
<1> QED
  BY <1>3, <1>5, <1>6, TypePartsNext

\* The steps of a reconcile that ends at once.
LEMMA SkipTypes ==
    ASSUME TypeOK, ReconcileSkip \/ EnsurePausedCondition
    PROVE  TypeOK'
<1>1. UNCHANGED <<machineVars, ownerPaused, ownerDeleted, cacheVars, workerVars, fip, late, quiet>>
  BY DEF ReconcileSkip, EnsurePausedCondition, apiVars
<1>2. queued' \in BOOLEAN
  BY DEF ReconcileSkip, EnsurePausedCondition
<1>3. cluster' = cluster \/ cluster' = [cluster EXCEPT !.paused = PausedStatus]
  BY DEF ReconcileSkip, EnsurePausedCondition, apiVars
<1>4. cluster' \in Cluster
  BY <1>3 DEF TypeOK, Cluster, PausedStatus, Conditions
<1>5. SurroundingsTypeOK'
  BY <1>1, <1>2, <1>4, TypeParts DEF SurroundingsTypeOK, cacheVars
<1> QED
  BY <1>1, <1>5, FrameTypes, TypePartsNext

\* The manager.
LEMMA ManagerTypes ==
    ASSUME TypeOK, ManagerStep
    PROVE  TypeOK'
<1>1. MachineTypeOK /\ WorkerTypeOK /\ SurroundingsTypeOK
  BY TypeParts
<1>2. CASE SyncCluster
  <2>1. SurroundingsTypeOK'
    BY <1>1, <1>2 DEF SyncCluster, SurroundingsTypeOK, apiVars
  <2> QED
    BY <1>2, <2>1, FrameTypes, TypePartsNext DEF SyncCluster
<1>3. ASSUME NEW m \in Machines, SyncMachine(m) PROVE TypeOK'
  <2>1. SurroundingsTypeOK'
    BY <1>1, <1>3, CurrentFacts DEF SyncMachine, SurroundingsTypeOK, apiVars
  <2> QED
    BY <1>3, <2>1, FrameTypes, TypePartsNext DEF SyncMachine
<1>4. CASE Restart
  <2>1. \A m \in Machines : Current(m) \in Machine
    BY <1>1, CurrentFacts
  <2>2. SurroundingsTypeOK'
    BY <1>1, <1>4, <2>1 DEF Restart, SurroundingsTypeOK, apiVars
  <2>3. WorkerTypeOK'
    BY <1>4, TombstoneFacts, NoIpFacts DEF Restart, Free, WorkerTypeOK
  <2> QED
    BY <1>4, <2>2, <2>3, FrameTypes, TypePartsNext DEF Restart
<1> QED
  BY <1>2, <1>3, <1>4 DEF ManagerStep

\* A creation that was under way.
LEMMA LandOutcome ==
    ASSUME TypeOK, LandCreate
    PROVE  /\ UNCHANGED <<machineVars, apiVars, cacheVars, queued, workerVars, quiet>>
           /\ late' \subseteq late
           /\ \/ fip' = fip
              \/ /\ fip = NoFloatingIp /\ fip' \in FloatingIp
                 /\ fip'.holder = NoId /\ fip'.address # NoAddress
                 /\ \E h \in late : h # NoAddress => fip'.address = h
<1>1. PICK h \in late :
         /\ late' = late \ {h}
         /\ \/ fip = NoFloatingIp /\ fip' \in [address: Allocates(h), holder: {NoId}]
            \/ UNCHANGED fip
  BY DEF LandCreate
<1>2. h \in Addresses \cup {NoAddress}
  BY DEF TypeOK, Hosts
<1>3. ASSUME fip' \in [address: Allocates(h), holder: {NoId}]
      PROVE  /\ fip' \in FloatingIp /\ fip'.holder = NoId /\ fip'.address # NoAddress
             /\ h # NoAddress => fip'.address = h
  BY <1>2, <1>3 DEF Allocates, FloatingIp, Hosts
<1> QED
  BY <1>1, <1>3 DEF LandCreate

LEMMA LandTypes ==
    ASSUME TypeOK, LandCreate
    PROVE  TypeOK'
<1>1. SurroundingsTypeOK'
  BY TypeParts, LandOutcome DEF SurroundingsTypeOK, apiVars, cacheVars
<1> QED
  BY <1>1, LandOutcome, FrameTypes, TypePartsNext

\* The user, Cluster API and the machines.
LEMMA OtherTypes ==
    ASSUME TypeOK, UserStep \/ Settle \/ \E m \in Machines : StepMachine(m)
    PROVE  TypeOK'
<1>1. MachineTypeOK /\ WorkerTypeOK /\ SurroundingsTypeOK
  BY TypeParts
<1>2. UNCHANGED <<workerVars, cacheVars>>
  BY DEF UserStep, Settle, StepMachine, SetOwner, TogglePause, DeleteOwner, DeleteCluster,
         DeleteMachine
<1>3. MachineTypeOK'
  <2>1. ASSUME NEW m \in Machines, DeleteMachine(m) \/ StepMachine(m) PROVE MachineTypeOK'
    BY <1>1, <2>1, MachineTypes DEF DeleteMachine, StepMachine
  <2>2. CASE SetOwner \/ TogglePause \/ DeleteOwner \/ DeleteCluster \/ Settle
    BY <2>2, FrameTypes DEF SetOwner, TogglePause, DeleteOwner, DeleteCluster, Settle
  <2> QED
    BY <2>1, <2>2 DEF UserStep
<1>4. cluster' \in Cluster
  <2>1. CASE SetOwner
    BY <1>1, <2>1 DEF SetOwner, SurroundingsTypeOK, Cluster
  <2>2. CASE DeleteCluster
    BY <1>1, <2>2, TombstoneFacts DEF DeleteCluster, SurroundingsTypeOK, Cluster
  <2>3. CASE cluster' = cluster
    BY <1>1, <2>3 DEF SurroundingsTypeOK
  <2> QED
    BY <2>1, <2>2, <2>3
       DEF UserStep, Settle, StepMachine, TogglePause, DeleteOwner, DeleteMachine, apiVars
<1>5. /\ fip' \in {fip, Detached} /\ queued' \in {queued, TRUE} /\ quiet' \in BOOLEAN
      /\ ownerPaused' \in BOOLEAN /\ ownerDeleted' \in BOOLEAN /\ late' = late
  BY <1>1 DEF UserStep, Settle, StepMachine, SetOwner, TogglePause, DeleteOwner, DeleteCluster,
              DeleteMachine, SurroundingsTypeOK, apiVars
<1>6. SurroundingsTypeOK'
  BY <1>1, <1>2, <1>4, <1>5, DetachedFacts DEF SurroundingsTypeOK, cacheVars
<1> QED
  BY <1>2, <1>3, <1>6, FrameTypes, TypePartsNext

\* Every step.
LEMMA StepTypes ==
    ASSUME TypeOK, Next
    PROVE  TypeOK'
BY CallTypes, PatchTypes, ReconcileTypes, SkipTypes, ManagerTypes, OtherTypes, LandTypes
   DEF Next, WorkerStep, StartReconcile, CallStep

\* The start.
LEMMA InitTypes == Init => TypeOK
<1> SUFFICES ASSUME Init PROVE TypeOK
  OBVIOUS
<1>1. MachineTypeOK
  BY DEF Init, MachineInit, MachineTypeOK
<1>2. ASSUME NEW h \in Hosts PROVE NewCluster(h) \in Cluster
  BY DEF NewCluster, Cluster, Conditions
<1>3. cluster \in Cluster /\ cache \in Cluster
  BY <1>2 DEF Init, Hosts
<1>4. machineCache \in [Machines -> Machine]
  BY <1>1, CurrentFacts DEF Init
<1>5. fip \in FloatingIp
  BY NoIpFacts DEF Init, FloatingIp, Hosts
<1>6. WorkerTypeOK
  BY TombstoneFacts, NoIpFacts DEF Init, WorkerTypeOK
<1>7. SurroundingsTypeOK
  BY <1>3, <1>4, <1>5 DEF Init, SurroundingsTypeOK
<1> QED
  BY <1>1, <1>6, <1>7, TypeParts

LEMMA StutterTypes == ASSUME TypeOK, UNCHANGED vars PROVE TypeOK'
BY FrameTypes, TypePartsNext DEF vars

(***************************************************************************)
(* The variables of the OxideCluster controller, and of the machines it    *)
(* works on, have their types in every reachable state.                    *)
(***************************************************************************)
THEOREM TypeCorrectness == Spec => []TypeOK
<1>1. TypeOK /\ [Next]_vars => TypeOK'
  BY StepTypes, StutterTypes
<1> QED
  BY <1>1, InitTypes, PTL DEF Spec

-----------------------------------------------------------------------------
(***************************************************************************)
(* The steps, as far as the invariants need them.                          *)
(***************************************************************************)

\* The steps that leave the worker alone.
Elsewhere ==
    \/ ReconcileSkip \/ EnsurePausedCondition \/ SyncCluster \/ UserStep \/ LandCreate \/ Settle
    \/ \E m \in Machines : SyncMachine(m) \/ StepMachine(m)

LEMMA StepKinds == Next <=> CallStep \/ PatchOxideCluster \/ Reconcile \/ Restart \/ Elsewhere
BY DEF Next, WorkerStep, StartReconcile, ManagerStep, CallStep, Elsewhere

\* What becomes of the object in such a step: it may be deleted, and nothing that the
\* reconciler writes changes.
LEMMA ObjectElsewhere ==
    ASSUME TypeOK, Elsewhere
    PROVE  \/ cluster' = cluster
           \/ /\ cluster.life # "gone" /\ cluster'.life \in {cluster.life, "deleting"}
              /\ cluster'.finalizer = cluster.finalizer /\ cluster'.host = cluster.host
              /\ cluster'.provisioned = cluster.provisioned
              /\ cluster'.attached = cluster.attached
              /\ cluster.owned => cluster'.owned
              /\ cluster.life = "deleting" => cluster'.life = "deleting"
           \/ cluster.life = "live" /\ cluster' = ClusterTombstone
<1>1. cluster \in Cluster
  BY DEF TypeOK
<1>2. CASE SetOwner
  BY <1>1, <1>2 DEF SetOwner, Cluster
<1>3. CASE DeleteCluster
  BY <1>1, <1>3 DEF DeleteCluster, Cluster
<1>4. CASE EnsurePausedCondition
  BY <1>1, <1>4 DEF EnsurePausedCondition, Cluster
<1>5. CASE UNCHANGED cluster
  BY <1>5
<1> QED
  BY <1>2, <1>3, <1>4, <1>5
     DEF Elsewhere, ReconcileSkip, SyncCluster, SyncMachine, UserStep, TogglePause, DeleteOwner,
         DeleteMachine, LandCreate, Settle, StepMachine, apiVars

\* What else may happen in such a step.
LEMMA FrameElsewhere ==
    ASSUME TypeOK, Elsewhere
    PROVE  /\ UNCHANGED <<pc, seen, obj, ip, target, again>>
           /\ cache' = cache \/ (cache' = cluster /\ cluster' = cluster)
           /\ \/ fip' = fip /\ late' \subseteq late
              \/ fip.holder # NoId /\ fip' = Detached /\ late' = late
              \/ LandCreate /\ fip = NoFloatingIp
<1>1. CASE ReconcileSkip \/ EnsurePausedCondition \/ SyncCluster \/ Settle
  BY <1>1 DEF ReconcileSkip, EnsurePausedCondition, SyncCluster, Settle, workerVars, cacheVars,
              apiVars
<1>2. CASE UserStep
  BY <1>2 DEF UserStep, SetOwner, TogglePause, DeleteOwner, DeleteCluster, DeleteMachine,
              workerVars, cacheVars
<1>3. CASE \E m \in Machines : SyncMachine(m) \/ StepMachine(m)
  BY <1>3 DEF SyncMachine, StepMachine, LosesInstance, workerVars, cacheVars
<1>4. CASE LandCreate
  BY <1>4, LandOutcome DEF workerVars, cacheVars
<1> QED
  BY <1>1, <1>2, <1>3, <1>4 DEF Elsewhere

\* The merge of a part changes the fields of that part that Reconcile changed.
LEMMA MergeFacts ==
    ASSUME TypeOK, pc \in Patches, NEW b, b = Merge(pc, cluster)
    PROVE  \/ /\ pc = "patchSpec" /\ seen.finalizer /\ ~obj.finalizer
              /\ cluster.life = "deleting" /\ b = ClusterTombstone
           \/ /\ b.life = cluster.life /\ b.owned = cluster.owned
              /\ b.attached = IF pc = "patchConditions" /\ obj.attached # seen.attached
                              THEN obj.attached ELSE cluster.attached
              /\ b.finalizer = IF pc = "patchSpec" /\ obj.finalizer # seen.finalizer
                               THEN obj.finalizer ELSE cluster.finalizer
              /\ b.host = IF pc = "patchSpec" /\ obj.host # seen.host
                          THEN obj.host ELSE cluster.host
              /\ b.provisioned = IF pc = "patchStatus" /\ obj.provisioned # seen.provisioned
                                 THEN obj.provisioned ELSE cluster.provisioned
<1>1. cluster \in Cluster
  BY DEF TypeOK
<1>2. CASE pc = "patchConditions"
  BY <1>1, <1>2 DEF Merge, MergeField, Cluster
<1>3. CASE pc = "patchSpec"
  BY <1>1, <1>3 DEF Merge, MergeField, Cluster
<1>4. CASE pc = "patchStatus"
  BY <1>1, <1>4 DEF Merge, MergeField, Cluster
<1> QED
  BY <1>2, <1>3, <1>4 DEF Patches

\* The patch as a whole.
LEMMA PatchOutcome ==
    ASSUME PatchOxideCluster
    PROVE  /\ pc \in Patches /\ pc # "idle"
           /\ UNCHANGED <<machineVars, ownerPaused, ownerDeleted, cache, machineCache, fip, late, quiet>>
           /\ cluster' = cluster \/ (cluster.life # "gone" /\ cluster' = Merge(pc, cluster))
           /\ \/ pc' = "idle" /\ seen' = ClusterTombstone /\ ip' = NoFloatingIp /\ target' = NoId
              \/ pc' \in Patches /\ pc' # "idle" /\ UNCHANGED <<seen, obj, ip, target, queued>>
BY DEF PatchOxideCluster, AfterPart, Free, Patches, cacheVars

-----------------------------------------------------------------------------
(***************************************************************************)
(* The versions of the object, and what the worker does to it.             *)
(***************************************************************************)

LEMMA VersionsStep ==
    ASSUME TypeOK, VersionsAreOrdered, Next
    PROVE  VersionsAreOrdered'
<1>1. CASE CallStep
  BY <1>1, CallFrame DEF VersionsAreOrdered, apiVars, cacheVars
<1>2. CASE PatchOxideCluster
  <2>1. cluster' = cluster \/ cluster' = ClusterTombstone
        \/ (cluster.life # "gone" /\ cluster'.life = cluster.life /\ cluster'.owned = cluster.owned)
    BY <1>2, PatchOutcome, MergeFacts
  <2>2. cache' = cache /\ (seen' = seen \/ seen' = ClusterTombstone)
    BY <1>2, PatchOutcome
  <2> QED
    BY <2>1, <2>2, TombstoneFacts DEF VersionsAreOrdered
<1>3. CASE Reconcile
  BY <1>3 DEF Reconcile, VersionsAreOrdered, apiVars, cacheVars
<1>4. CASE Restart
  BY <1>4, TombstoneFacts DEF Restart, Free, VersionsAreOrdered, apiVars
<1>5. CASE Elsewhere
  <2>1. seen' = seen /\ (cache' = cache \/ (cache' = cluster /\ cluster' = cluster))
    BY <1>5, FrameElsewhere
  <2>2. CASE cluster' = cluster
    <3>1. cache.life \in {"live", "deleting", "gone"}
      BY DEF TypeOK, Cluster
    <3> QED
      BY <2>1, <2>2, <3>1 DEF VersionsAreOrdered
  <2>3. CASE cluster' # cluster
    BY <1>5, <2>1, <2>3, ObjectElsewhere, TombstoneFacts DEF VersionsAreOrdered
  <2> QED
    BY <2>2, <2>3
<1> QED
  BY <1>1, <1>2, <1>3, <1>4, <1>5, StepKinds

\* A floating IP always has an address, until it is deleted.
LEMMA IpStep ==
    ASSUME TypeOK, IpIsWhole, Next
    PROVE  IpIsWhole'
<1>1. fip \in FloatingIp /\ obj \in Cluster
  BY DEF TypeOK
<1>2. CASE CallStep
  <2>1. CASE CallFails
    BY <2>1 DEF CallFails, Return, IpIsWhole
  <2>6. CASE EnsureFloatingIpView
    BY <2>6, NoIpFacts DEF EnsureFloatingIpView, Provisioned, IpIsWhole
  <2>7. CASE ListMachines
    BY <2>7 DEF ListMachines, Place, Return, IpIsWhole
  <2>2. CASE EnsureFloatingIpCreate
    <3>1. \/ fip'.address # NoAddress
          \/ fip' = fip /\ pc' = "patchConditions"
      BY <2>2, CreateOutcome DEF Return
    <3> QED
      BY <3>1 DEF IpIsWhole
  <2>3. CASE EnsureFloatingIpDeleted
    BY <2>3, NoIpFacts DEF EnsureFloatingIpDeleted, RemoveFinalizer, DeletionRefused, Return, IpIsWhole
  <2>4. CASE DetachFloatingIp
    <3>1. /\ pc = "detachIp"
          /\ fip' = fip \/ (fip.holder # NoId /\ fip' = Detached)
      BY <2>4 DEF DetachFloatingIp, Return
    <3> QED
      BY <1>1, <3>1, DetachedFacts, NoIpFacts DEF IpIsWhole
  <2>5. CASE AttachFloatingIp
    <3>1. pc = "attachIp"
      BY <2>5 DEF AttachFloatingIp
    <3>2. fip' = fip \/ fip' = [fip EXCEPT !.holder = target]
      BY <2>5 DEF AttachFloatingIp
    <3>3. fip'.address = fip.address
      BY <1>1, <3>2 DEF FloatingIp
    <3> QED
      BY <3>1, <3>3 DEF IpIsWhole
  <2> QED
    BY <1>2, <2>1, <2>2, <2>3, <2>4, <2>5, <2>6, <2>7 DEF CallStep
<1>3. CASE PatchOxideCluster
  BY <1>3, PatchOutcome DEF IpIsWhole, Patches
<1>4. CASE Reconcile
  BY <1>4 DEF Reconcile, IpIsWhole
<1>5. CASE Restart
  BY <1>5 DEF Restart, Free, IpIsWhole
<1>6. CASE Elsewhere
  <2>1. /\ pc' = pc
        /\ fip' = fip \/ (fip.holder # NoId /\ fip' = Detached) \/ fip'.address # NoAddress
    BY <1>6, FrameElsewhere, LandOutcome
  <2> QED
    BY <1>1, <2>1, DetachedFacts, NoIpFacts DEF IpIsWhole
<1> QED
  BY <1>2, <1>3, <1>4, <1>5, <1>6, StepKinds

\* Ending a call with the object as it is, or with its Attached condition set.
LEMMA ReturnConsistent ==
    ASSUME TypeOK, pc # "idle", seen' = seen, pc' = "patchConditions",
           obj'.host = obj.host /\ obj'.provisioned = obj.provisioned,
           seen.life = "deleting" => obj.host = seen.host /\ obj.provisioned = seen.provisioned,
           seen.finalizer /\ ~obj'.finalizer => seen.life = "deleting"
    PROVE  WorkerIsConsistent'
BY DEF WorkerIsConsistent, Patches

\* Calls: only ensureFloatingIPDeleted gives the finalizer up.
LEMMA CallConsistent ==
    ASSUME ClusterInv, CallStep
    PROVE  WorkerIsConsistent'
<1>1. TypeOK /\ obj \in Cluster /\ pc # "idle" /\ seen' = seen /\ pc \in CloudCalls \cup {"listMachines"}
  BY CallFrame DEF ClusterInv, TypeOK
<1>2. /\ WorkerIsConsistent
      /\ seen.life = "deleting" => obj.host = seen.host /\ obj.provisioned = seen.provisioned
      /\ seen.finalizer => obj.finalizer
  BY <1>1 DEF ClusterInv, WorkerIsConsistent, CloudCalls, Patches
<1>3. ASSUME Return(obj, TRUE) PROVE WorkerIsConsistent'
  BY <1>1, <1>2, <1>3, ReturnConsistent DEF Return
<1>4. ASSUME NEW i, Return(Attached(i), FALSE) PROVE WorkerIsConsistent'
  BY <1>1, <1>2, <1>4, AttachedFacts, ReturnConsistent DEF Return
<1>5. CASE CallFails \/ AttachFloatingIp
  BY <1>3, <1>4, <1>5 DEF CallFails, AttachFloatingIp
<1>6. ASSUME NEW i, Provisioned(i), pc \in {"viewIp", "createIp"} PROVE WorkerIsConsistent'
  <2> DEFINE o == [obj EXCEPT !.host = i.address, !.provisioned = TRUE]
  <2>1. o.finalizer = obj.finalizer
    BY <1>1 DEF Cluster
  <2>2. pc' = "listMachines" /\ obj' = o
    BY <1>6 DEF Provisioned
  <2>3. seen.life = "live" /\ obj.finalizer
    BY <1>1, <1>2, <1>6 DEF WorkerIsConsistent
  <2> HIDE DEF o
  <2> QED
    BY <1>1, <2>1, <2>2, <2>3 DEF WorkerIsConsistent
<1>7. CASE EnsureFloatingIpView
  <2>1. CASE pc' = "createIp" /\ UNCHANGED <<seen, obj, ip, target, again>>
    BY <1>1, <1>2, <1>7, <2>1 DEF EnsureFloatingIpView, WorkerIsConsistent
  <2> QED
    BY <1>6, <1>7, <2>1 DEF EnsureFloatingIpView
<1>8. CASE EnsureFloatingIpCreate
  BY <1>1, <1>3, <1>6, <1>8, CreateOutcome
<1>9. CASE EnsureFloatingIpDeleted
  <2>1. seen.life = "deleting"
    BY <1>1, <1>2, <1>9 DEF EnsureFloatingIpDeleted, WorkerIsConsistent
  <2>2. CASE RemoveFinalizer
    BY <1>1, <1>2, <2>1, <2>2, ObjectFacts, ReturnConsistent DEF RemoveFinalizer, Return
  <2> QED
    BY <1>3, <1>9, <2>2 DEF EnsureFloatingIpDeleted, DeletionRefused
<1>10. CASE ListMachines
  <2>1. CASE Place
    <3>1. \/ pc' \in {"detachIp", "attachIp"} /\ UNCHANGED <<seen, obj>>
          \/ Return(Attached(ip), FALSE)
      BY <2>1 DEF Place
    <3>2. CASE pc' \in {"detachIp", "attachIp"} /\ UNCHANGED <<seen, obj>>
      BY <1>1, <1>2, <1>10, <3>2 DEF ListMachines, WorkerIsConsistent
    <3> QED
      BY <1>4, <3>1, <3>2
  <2> QED
    BY <1>3, <1>10, <2>1 DEF ListMachines
<1>11. CASE DetachFloatingIp
  <2>1. CASE pc' = "attachIp" /\ UNCHANGED <<seen, obj>>
    BY <1>1, <1>2, <1>11, <2>1 DEF DetachFloatingIp, WorkerIsConsistent
  <2> QED
    BY <1>3, <1>4, <1>11, <2>1 DEF DetachFloatingIp
<1> QED
  BY <1>5, <1>7, <1>8, <1>9, <1>10, <1>11 DEF CallStep

\* All steps.
LEMMA ConsistentStep ==
    ASSUME ClusterInv, Next
    PROVE  WorkerIsConsistent'
<1>1. TypeOK /\ WorkerIsConsistent
  BY DEF ClusterInv
<1>2. CASE PatchOxideCluster
  <2>1. pc' = "idle" \/ (pc \in Patches /\ pc' \in Patches /\ pc # "idle" /\ UNCHANGED <<seen, obj>>)
    BY <1>2, PatchOutcome
  <2> QED
    BY <1>1, <2>1 DEF WorkerIsConsistent, Patches
<1>3. CASE Reconcile
  <2> DEFINE o == [cache EXCEPT !.finalizer = TRUE]
  <2>1. o.finalizer /\ o.host = cache.host /\ o.provisioned = cache.provisioned
    BY <1>1, ObjectFacts DEF TypeOK
  <2>2. /\ seen' = cache
        /\ \/ pc' = "deleteIp" /\ obj' = cache /\ cache.life = "deleting"
           \/ pc' = "patchConditions" /\ obj' = cache
           \/ pc' = "viewIp" /\ obj' = o /\ cache.life = "live"
    BY <1>1, <1>3 DEF Reconcile, BeingDeleted, TypeOK, Cluster
  <2> HIDE DEF o
  <2> QED
    BY <2>1, <2>2 DEF WorkerIsConsistent
<1>4. CASE Restart
  BY <1>4 DEF Restart, Free, WorkerIsConsistent
<1>5. CASE Elsewhere
  <2>1. UNCHANGED <<pc, seen, obj>>
    BY <1>1, <1>5, FrameElsewhere
  <2> QED
    BY <1>1, <2>1 DEF WorkerIsConsistent
<1> QED
  BY <1>2, <1>3, <1>4, <1>5, CallConsistent, StepKinds

\* At the start nothing has been deleted yet.
LEMMA InitCluster == Init => ClusterInv
<1> SUFFICES ASSUME Init PROVE ClusterInv
  OBVIOUS
<1>1. ASSUME NEW h PROVE NewCluster(h).life = "live"
  BY DEF NewCluster
<1>2. cluster.life = "live" /\ cache.life = "live"
  BY <1>1 DEF Init
<1>3. VersionsAreOrdered
  BY <1>2, TombstoneFacts DEF Init, VersionsAreOrdered
<1>4. fip.address = NoAddress => fip = NoFloatingIp
  BY DEF Init
<1> QED
  BY <1>3, <1>4, InitTypes DEF Init, ClusterInv, IpIsWhole, WorkerIsConsistent

LEMMA StepCluster == ASSUME ClusterInv, Next PROVE ClusterInv'
BY StepTypes, VersionsStep, IpStep, ConsistentStep DEF ClusterInv

LEMMA StutterCluster == ASSUME ClusterInv, UNCHANGED vars PROVE ClusterInv'
<1>1. UNCHANGED <<cluster, cache, pc, seen, obj, fip>>
  BY DEF vars, apiVars, cacheVars, workerVars
<1> QED
  BY <1>1, StutterTypes DEF ClusterInv, VersionsAreOrdered, WorkerIsConsistent, IpIsWhole

(***************************************************************************)
(* The cache and the worker never take the cluster for deleted or owned    *)
(* when it is not, and the worker gives up the finalizer only of an object *)
(* that it saw being deleted.                                              *)
(***************************************************************************)
THEOREM Versions == Spec => []ClusterInv
<1>1. ClusterInv /\ [Next]_vars => ClusterInv'
  BY StepCluster, StutterCluster
<1> QED
  BY <1>1, InitCluster, PTL DEF Spec

-----------------------------------------------------------------------------
(***************************************************************************)
(* The release.                                                            *)
(***************************************************************************)

\* Only a creation whose call times out is carried out late.
LEMMA LateStep ==
    ASSUME TypeOK, NothingLate, Next
    PROVE  NothingLate'
<1> SUFFICES ASSUME "slow" \notin Faults PROVE late' = {}
  BY DEF NothingLate
<1>1. late = {}
  BY DEF NothingLate
<1>2. CASE CallStep
  BY <1>1, <1>2 DEF CallStep, CallFails, EnsureFloatingIpView, EnsureFloatingIpCreate, Fault,
       EnsureFloatingIpDeleted, ListMachines, DetachFloatingIp, AttachFloatingIp
<1>3. CASE PatchOxideCluster \/ Reconcile \/ Restart
  BY <1>1, <1>3, PatchOutcome DEF Reconcile, Restart
<1>4. CASE Elsewhere
  <2>1. ~LandCreate
    BY <1>1 DEF LandCreate
  <2> QED
    BY <1>1, <1>4, <2>1, FrameElsewhere
<1> QED
  BY <1>2, <1>3, <1>4, StepKinds

\* Once the floating IP is gone nothing brings it back before the patch.
LEMMA ReadinessStep ==
    ASSUME ClusterInv, ReadyToRelease, late = {}, Next
    PROVE  ReadyToRelease'
<1>1. TypeOK /\ WorkerIsConsistent /\ obj \in Cluster
  BY DEF ClusterInv, TypeOK
<1>2. CASE CallStep
  <2>1. pc # "idle" /\ seen' = seen /\ pc \notin Patches
    BY <1>2, CallFrame DEF CloudCalls, Patches
  <2>2. seen.finalizer => obj.finalizer
    BY <1>1, <2>1 DEF WorkerIsConsistent
  <2>3. CASE EnsureFloatingIpDeleted /\ fip' = NoFloatingIp
    BY <2>3 DEF ReadyToRelease
  <2>4. ASSUME Return(obj, TRUE) PROVE ReadyToRelease'
    BY <2>1, <2>2, <2>4 DEF Return, ReadyToRelease
  <2>5. CASE EnsureFloatingIpDeleted /\ fip' # NoFloatingIp
    BY <2>4, <2>5 DEF EnsureFloatingIpDeleted, DeletionRefused
  <2>6. ASSUME obj'.finalizer = obj.finalizer PROVE ReadyToRelease'
    BY <2>1, <2>2, <2>6 DEF ReadyToRelease
  <2>7. ASSUME NEW i, Return(Attached(i), FALSE) PROVE ReadyToRelease'
    BY <1>1, <2>6, <2>7, AttachedFacts DEF Return
  <2>8. ASSUME NEW i, Provisioned(i) PROVE ReadyToRelease'
    <3>1. obj'.finalizer = obj.finalizer
      BY <1>1, <2>8 DEF Provisioned, Cluster
    <3> QED
      BY <2>6, <3>1
  <2>9. ASSUME obj' = obj PROVE ReadyToRelease'
    BY <2>6, <2>9
  <2>10. CASE CallFails \/ EnsureFloatingIpView
    BY <2>4, <2>8, <2>9, <2>10 DEF CallFails, EnsureFloatingIpView
  <2>11. CASE EnsureFloatingIpCreate
    BY <1>1, <2>4, <2>8, <2>11, CreateOutcome
  <2>12. CASE ListMachines \/ DetachFloatingIp \/ AttachFloatingIp
    BY <2>4, <2>7, <2>9, <2>12 DEF ListMachines, Place, DetachFloatingIp, AttachFloatingIp
  <2> QED
    BY <1>2, <2>3, <2>5, <2>10, <2>11, <2>12 DEF CallStep
<1>3. CASE PatchOxideCluster
  BY <1>3, PatchOutcome DEF ReadyToRelease
<1>4. CASE Reconcile
  <2>1. seen' = cache /\ (obj' = cache \/ obj' = [cache EXCEPT !.finalizer = TRUE])
    BY <1>4 DEF Reconcile
  <2>2. [cache EXCEPT !.finalizer = TRUE].finalizer
    BY <1>1, ObjectFacts DEF TypeOK
  <2> QED
    BY <2>1, <2>2 DEF ReadyToRelease
<1>5. CASE Restart
  BY <1>5 DEF Restart, Free, ReadyToRelease
<1>6. CASE Elsewhere
  <2>1. ~LandCreate
    BY DEF LandCreate
  <2>2. UNCHANGED <<pc, seen, obj>> /\ (fip' = fip \/ fip.holder # NoId)
    BY <1>1, <1>6, <2>1, FrameElsewhere
  <2> QED
    BY <2>2, NoIpFacts DEF ReadyToRelease
<1> QED
  BY <1>2, <1>3, <1>4, <1>5, <1>6, StepKinds

LEMMA StepRelease == ASSUME ReleaseInv, Next PROVE ReleaseInv'
<1>1. ClusterInv' /\ NothingLate'
  BY StepCluster, LateStep DEF ReleaseInv, ClusterInv
<1>2. "slow" \notin Faults => ReadyToRelease'
  BY ReadinessStep DEF ReleaseInv, NothingLate
<1> QED
  BY <1>1, <1>2 DEF ReleaseInv

LEMMA StutterRelease == ASSUME ReleaseInv, UNCHANGED vars PROVE ReleaseInv'
<1>1. UNCHANGED <<pc, seen, obj, fip, late>>
  BY DEF vars, workerVars
<1> QED
  BY <1>1, StutterCluster DEF ReleaseInv, NothingLate, ReadyToRelease

(***************************************************************************)
(* Without creations that are carried out after their call timed out, the  *)
(* worker gives up the finalizer in memory only after the floating IP is   *)
(* gone, and the IP stays away until the patch has released the object.    *)
(***************************************************************************)
THEOREM ClusterReadiness == Spec => []ReleaseInv
<1>1. ReleaseInv /\ [Next]_vars => ReleaseInv'
  BY StepRelease, StutterRelease
<1>2. Init => ReleaseInv
  BY InitCluster DEF Init, ReleaseInv, NothingLate, ReadyToRelease
<1> QED
  BY <1>1, <1>2, PTL DEF Spec

\* The patch is the only step that ends a deletion.
LEMMA ReleaseStep ==
    ASSUME ClusterInv, ReadyToRelease, Next
    PROVE  CleanRelease
<1> SUFFICES ASSUME cluster.life = "deleting", cluster'.life = "gone" PROVE fip = NoFloatingIp
  BY DEF CleanRelease
<1>1. TypeOK
  BY DEF ClusterInv
<1>2. CASE PatchOxideCluster
  <2>1. /\ pc \in Patches /\ pc # "idle"
        /\ cluster' = Merge(pc, cluster)
    BY <1>2, PatchOutcome
  <2>2. seen.finalizer /\ ~obj.finalizer
    BY <1>1, <2>1, MergeFacts
  <2> QED
    BY <2>1, <2>2 DEF ReadyToRelease
<1>3. CASE CallStep \/ Reconcile \/ Restart
  BY <1>3, CallFrame DEF Reconcile, Restart, apiVars
<1>4. CASE Elsewhere
  BY <1>1, <1>4, ObjectElsewhere
<1> QED
  BY <1>2, <1>3, <1>4, StepKinds

(***************************************************************************)
(* No creation of a floating IP is carried out after its call timed out.   *)
(* Nothing in the code guarantees it: an IP that is created after          *)
(* FloatingIpDelete answered "not found" is left behind.                   *)
(***************************************************************************)
NothingSlow == "slow" \notin Faults

(***************************************************************************)
(* ensureFloatingIPDeleted: when the cluster disappears from a deletion,   *)
(* its floating IP is gone, as long as no creation is carried out late.    *)
(***************************************************************************)
THEOREM ReleaseTheorem == ASSUME NothingSlow PROVE Spec => ClusterReleaseIsClean
<1>1. ReleaseInv /\ [Next]_vars => [CleanRelease]_vars
  BY ReleaseStep DEF ReleaseInv, NothingSlow
<1> QED
  BY <1>1, ClusterReadiness, PTL DEF Spec, ClusterReleaseIsClean

-----------------------------------------------------------------------------
(***************************************************************************)
(* The endpoint.                                                           *)
(***************************************************************************)

\* Calls.  An IP that has to be created gets the address that the endpoint names.
LEMMA EndpointCall ==
    ASSUME EndpointInv, CallStep
    PROVE  EndpointIsKept'
<1>1. /\ UNCHANGED <<cluster, cache, seen>> /\ pc # "idle" /\ TypeOK
      /\ fip \in FloatingIp /\ obj \in Cluster /\ cache.life \in {"live", "deleting", "gone"}
  BY CallFrame DEF EndpointInv, ClusterInv, TypeOK, Cluster, apiVars, cacheVars
<1>2. EndpointIsKept /\ WorkerIsConsistent /\ VersionsAreOrdered /\ IpIsWhole
  BY DEF EndpointInv, ClusterInv
<1>3. ASSUME fip'.address = fip.address, late' = late, obj'.host = obj.host,
             obj'.provisioned = obj.provisioned
      PROVE  EndpointIsKept'
  BY <1>1, <1>2, <1>3 DEF EndpointIsKept, Serving
<1>4. ASSUME fip'.address = fip.address, late' = late, Return(obj, TRUE) PROVE EndpointIsKept'
  BY <1>3, <1>4 DEF Return
<1>5. ASSUME fip'.address = fip.address, late' = late, NEW i, Return(Attached(i), FALSE)
      PROVE  EndpointIsKept'
  BY <1>1, <1>3, <1>5, AttachedFacts DEF Return
<1>6. ASSUME Provisioned(fip')
      PROVE  obj'.host = fip'.address
  BY <1>1, <1>6 DEF Provisioned, Cluster
<1>7. CASE CallFails
  BY <1>4, <1>7 DEF CallFails
<1>8. CASE EnsureFloatingIpView
  <2>1. fip' = fip /\ late' = late
    BY <1>8 DEF EnsureFloatingIpView
  <2>2. CASE Provisioned(fip) /\ fip # NoFloatingIp
    BY <1>1, <1>2, <1>6, <2>1, <2>2 DEF EndpointIsKept, Serving, IpIsWhole
  <2> QED
    BY <1>3, <1>8, <2>1, <2>2 DEF EnsureFloatingIpView
<1>9. CASE EnsureFloatingIpCreate
  <2>1. pc = "createIp" /\ obj.host = seen.host /\ obj.provisioned = seen.provisioned
    BY <1>1, <1>2, <1>9 DEF EnsureFloatingIpCreate, WorkerIsConsistent
  <2>2. CASE /\ fip = NoFloatingIp /\ fip'.address # NoAddress /\ late' = late
             /\ obj.host # NoAddress => fip'.address = obj.host
             /\ Provisioned(fip') \/ Return(obj, TRUE)
    <3>1. obj'.host = seen.host \/ obj'.host = fip'.address
      BY <1>6, <2>1, <2>2 DEF Return
    <3> QED
      BY <1>1, <1>2, <2>1, <2>2, <3>1, NoIpFacts DEF EndpointIsKept, Serving
  <2>3. CASE fip' = fip /\ late' = late \cup {obj.host} /\ Return(obj, TRUE)
    <3>1. UNCHANGED <<cluster, cache, seen, obj, fip>> /\ pc' # "idle"
      BY <1>1, <2>3 DEF Return
    <3>2. Serving /\ cluster.life # "gone" /\ fip.address = NoAddress => obj.host = cluster.host
      BY <1>1, <1>2, <2>1 DEF EndpointIsKept
    <3> QED
      BY <1>1, <1>2, <2>3, <3>1, <3>2 DEF EndpointIsKept, Serving
  <2> QED
    BY <1>1, <1>4, <1>9, <2>2, <2>3, CreateOutcome
<1>10. CASE EnsureFloatingIpDeleted
  <2>1. ~Serving'
    BY <1>1, <1>2, <1>10
       DEF EnsureFloatingIpDeleted, WorkerIsConsistent, VersionsAreOrdered, Serving
  <2> QED
    BY <2>1 DEF EndpointIsKept
<1>11. CASE ListMachines
  BY <1>3, <1>4, <1>5, <1>11 DEF ListMachines, Place
<1>12. CASE DetachFloatingIp
  <2>1. fip'.address = fip.address /\ late' = late
    BY <1>1, <1>12, DetachedFacts DEF DetachFloatingIp
  <2> QED
    BY <1>3, <1>4, <1>5, <1>12, <2>1 DEF DetachFloatingIp
<1>13. CASE AttachFloatingIp
  <2>1. fip'.address = fip.address /\ late' = late
    BY <1>1, <1>13 DEF AttachFloatingIp, FloatingIp
  <2> QED
    BY <1>4, <1>5, <1>13, <2>1 DEF AttachFloatingIp
<1> QED
  BY <1>7, <1>8, <1>9, <1>10, <1>11, <1>12, <1>13 DEF CallStep

\* The merged object.  Its host only changes when there was none.
LEMMA EndpointPatch ==
    ASSUME EndpointInv, PatchOxideCluster
    PROVE  EndpointIsKept' /\ KeepsHost
<1>1. EndpointIsKept /\ WorkerIsConsistent /\ VersionsAreOrdered /\ TypeOK
  BY DEF EndpointInv, ClusterInv
<1>2. /\ pc \in Patches /\ pc # "idle" /\ UNCHANGED <<cache, fip, late>>
      /\ \/ pc' = "idle" /\ seen' = ClusterTombstone
         \/ pc' # "idle" /\ UNCHANGED <<seen, obj>>
  BY PatchOutcome
<1>3. Serving' => Serving
  BY <1>2, TombstoneFacts DEF Serving
<1>4. seen.life \in {"live", "deleting"} /\ cluster \in Cluster
  BY <1>1, <1>2 DEF TypeOK, Cluster
<1>5. CASE cluster' = cluster
  BY <1>1, <1>2, <1>3, <1>5 DEF EndpointIsKept, KeepsHost
<1>6. CASE cluster.life # "gone" /\ cluster' = ClusterTombstone
  BY <1>1, <1>2, <1>3, <1>6, TombstoneFacts DEF EndpointIsKept, KeepsHost
<1>7. CASE /\ cluster.life # "gone" /\ cluster'.life = cluster.life
           /\ cluster'.host = IF pc = "patchSpec" /\ obj.host # seen.host
                              THEN obj.host ELSE cluster.host
           /\ cluster'.provisioned = IF pc = "patchStatus" /\ obj.provisioned # seen.provisioned
                                     THEN obj.provisioned ELSE cluster.provisioned
  <2>1. obj.host # seen.host => Serving
    BY <1>1, <1>2, <1>4 DEF WorkerIsConsistent, Serving
  <2>2. CASE cluster'.host = cluster.host
    BY <1>1, <1>2, <1>3, <1>7, <2>2 DEF EndpointIsKept, KeepsHost
  <2>3. CASE cluster'.host # cluster.host
    <3>1. /\ obj.host # seen.host /\ cluster'.host = obj.host
          /\ fip.address # NoAddress /\ obj.host = fip.address
      BY <1>1, <1>2, <1>7, <2>1, <2>3 DEF EndpointIsKept
    <3>2. cluster.host = NoAddress
      BY <1>1, <2>1, <2>3, <3>1 DEF EndpointIsKept
    <3>3. cache.host = NoAddress /\ seen.host = NoAddress
      BY <1>1, <1>2, <1>7, <2>1, <3>1, <3>2 DEF EndpointIsKept
    <3> QED
      BY <1>1, <1>2, <1>3, <1>7, <3>1, <3>2, <3>3, TombstoneFacts DEF EndpointIsKept, KeepsHost
  <2> QED
    BY <2>2, <2>3
<1> QED
  BY <1>1, <1>2, <1>5, <1>6, <1>7, PatchOutcome, MergeFacts

\* All steps.
LEMMA StepEndpoint ==
    ASSUME EndpointInv, Next
    PROVE  EndpointInv' /\ KeepsHost
<1>1. EndpointIsKept /\ WorkerIsConsistent /\ VersionsAreOrdered /\ TypeOK /\ ClusterInv
  BY DEF EndpointInv, ClusterInv
<1>2. SUFFICES EndpointIsKept' /\ KeepsHost
  BY <1>1, StepCluster DEF EndpointInv
<1>3. /\ cache.life \in {"live", "deleting", "gone"} /\ fip \in FloatingIp /\ cache \in Cluster
      /\ cluster.life \in {"live", "deleting", "gone"}
  BY <1>1 DEF TypeOK, Cluster
<1>4. CASE CallStep
  BY <1>4, CallFrame, EndpointCall DEF KeepsHost, apiVars
<1>5. CASE PatchOxideCluster
  BY <1>5, EndpointPatch
<1>6. CASE Reconcile
  <2>1. /\ seen' = cache /\ UNCHANGED <<cluster, cache, fip, late>> /\ pc = "idle"
        /\ obj' \in {cache, [cache EXCEPT !.finalizer = TRUE]}
    BY <1>6 DEF Reconcile, Take, apiVars, cacheVars
  <2>2. obj'.host = cache.host /\ obj'.provisioned = cache.provisioned
    BY <1>3, <2>1, ObjectFacts
  <2> QED
    BY <1>1, <2>1, <2>2 DEF EndpointIsKept, Serving, KeepsHost
<1>7. CASE Restart
  <2>1. /\ cache' = cluster /\ UNCHANGED <<cluster, fip, late>> /\ pc' = "idle" /\ seen' = ClusterTombstone
    BY <1>7 DEF Restart, Free, apiVars
  <2>2. Serving' => Serving
    BY <1>1, <1>3, <2>1, TombstoneFacts DEF Serving, VersionsAreOrdered
  <2> QED
    BY <1>1, <1>3, <2>1, <2>2, TombstoneFacts DEF EndpointIsKept, VersionsAreOrdered, KeepsHost
<1>9. CASE LandCreate
  <2>1. UNCHANGED <<cluster, cache, pc, seen, obj>> /\ late' \subseteq late
    BY <1>1, <1>9, LandOutcome DEF apiVars, cacheVars, workerVars
  <2>2. CASE fip' = fip
    BY <1>1, <2>1, <2>2 DEF EndpointIsKept, Serving, KeepsHost
  <2>3. CASE fip = NoFloatingIp /\ fip'.address # NoAddress
             /\ \E h \in late : h # NoAddress => fip'.address = h
    <3>1. Serving /\ cluster.host # NoAddress => fip'.address = cluster.host
      BY <1>1, <2>3, NoIpFacts, TombstoneFacts DEF EndpointIsKept, VersionsAreOrdered
    <3> QED
      BY <1>1, <2>1, <2>3, <3>1, NoIpFacts DEF EndpointIsKept, Serving, KeepsHost
  <2> QED
    BY <1>1, <1>9, <2>2, <2>3, LandOutcome
<1>8. CASE Elsewhere /\ ~LandCreate
  <2>1. /\ UNCHANGED <<pc, seen, obj>> /\ fip'.address = fip.address /\ late' \subseteq late
        /\ cache' = cache \/ (cache' = cluster /\ cluster' = cluster)
    BY <1>1, <1>3, <1>8, FrameElsewhere, DetachedFacts
  <2>2. Serving' => Serving
    BY <1>1, <1>3, <2>1 DEF Serving, VersionsAreOrdered
  <2>3. CASE cluster' = cluster
    BY <1>1, <2>1, <2>2, <2>3, TombstoneFacts DEF EndpointIsKept, VersionsAreOrdered, KeepsHost
  <2>4. CASE cache' = cache /\ cluster' = ClusterTombstone
    BY <1>1, <2>1, <2>2, <2>4, TombstoneFacts DEF EndpointIsKept, KeepsHost
  <2>5. CASE /\ cache' = cache /\ cluster.life # "gone" /\ cluster'.life # "gone"
             /\ cluster'.host = cluster.host /\ cluster'.provisioned = cluster.provisioned
    BY <1>1, <2>1, <2>2, <2>5 DEF EndpointIsKept, KeepsHost
  <2> QED
    BY <1>1, <1>8, <2>1, <2>3, <2>4, <2>5, ObjectElsewhere
<1> QED
  BY <1>4, <1>5, <1>6, <1>7, <1>8, <1>9, StepKinds

LEMMA StutterEndpoint == ASSUME EndpointInv, UNCHANGED vars PROVE EndpointInv'
<1>1. UNCHANGED <<cluster, cache, pc, seen, obj, fip, late>>
  BY DEF vars, apiVars, cacheVars, workerVars
<1> QED
  BY <1>1, StutterCluster DEF EndpointInv, EndpointIsKept, Serving

\* At the start the user's address is the only one, or the floating IP's.
LEMMA InitEndpoint == OneSourceOfAddress /\ Init => EndpointInv
<1> SUFFICES ASSUME OneSourceOfAddress, Init PROVE EndpointInv
  OBVIOUS
<1>1. ASSUME NEW h PROVE NewCluster(h).host = h /\ ~NewCluster(h).provisioned
  BY DEF NewCluster
<1>2. cache = cluster /\ ~cluster.provisioned /\ pc = "idle" /\ late = {}
  BY <1>1 DEF Init
<1>3. cluster.host = NoAddress \/ fip.address = NoAddress
  BY <1>1, NoIpFacts DEF Init, OneSourceOfAddress
<1> QED
  BY <1>2, <1>3, InitCluster DEF EndpointInv, EndpointIsKept

(***************************************************************************)
(* ensureFloatingIPExists with stale caches and lost replies: until a      *)
(* deletion is seen, the endpoint that is stored is the address of the     *)
(* floating IP, and whoever works on a version without it finds that IP.   *)
(***************************************************************************)
THEOREM Endpoint == OneSourceOfAddress /\ Spec => []EndpointInv
<1>1. EndpointInv /\ [Next]_vars => EndpointInv'
  BY StepEndpoint, StutterEndpoint
<1> QED
  BY <1>1, InitEndpoint, PTL DEF Spec

(***************************************************************************)
(* ensureFloatingIPExists stores the endpoint's host once, and keeps the   *)
(* one that the user asked for, unless there is both a user who asks and   *)
(* a floating IP of the cluster's name already.                            *)
(***************************************************************************)
THEOREM EndpointIsStable == ASSUME OneSourceOfAddress PROVE Spec => EndpointStable
<1>1. EndpointInv /\ [Next]_vars => [KeepsHost]_vars
  BY StepEndpoint
<1> QED
  BY <1>1, Endpoint, PTL DEF Spec, EndpointStable

(***************************************************************************)
(* The endpoint of a provisioned cluster that nobody deleted is the        *)
(* address of an existing floating IP.                                     *)
(***************************************************************************)
THEOREM EndpointHasIp == ASSUME OneSourceOfAddress PROVE Spec => []EndpointExists
<1>1. EndpointInv => EndpointExists
  <2> SUFFICES ASSUME EndpointInv PROVE EndpointExists
    OBVIOUS
  <2>1. EndpointIsKept /\ VersionsAreOrdered /\ cache.life \in {"live", "deleting", "gone"}
    BY DEF EndpointInv, ClusterInv, TypeOK, Cluster
  <2>2. cluster.life = "live" => Serving
    BY <2>1 DEF VersionsAreOrdered, Serving
  <2> QED
    BY <2>1, <2>2 DEF EndpointIsKept, EndpointExists
<1> QED
  BY <1>1, Endpoint, PTL
==============================================================================
