------------------------ MODULE OxideClusterRestProofs ------------------------
(***************************************************************************)
(* What holds when nothing is left to be done: EndpointAtRest and          *)
(* AttachmentAtRest, for all machines, addresses and faults.               *)
(***************************************************************************)
EXTENDS OxideClusterAttachmentProofs

USE NoIdAssumption, NoAddressAssumption, StrangerAssumption

\* What the earlier proofs established, and what this one adds.
BaseInv == ClusterInv /\ AttachmentInv

LEMMA BaseParts ==
    ASSUME BaseInv
    PROVE  /\ TypeOK /\ MachineTypeOK /\ VersionsAreOrdered /\ WorkerIsConsistent /\ IpIsWhole
           /\ IdsAreOwned /\ InstancesAreKept /\ MachinesAreOrdered /\ HoldersAreKnown /\ IpIsCurrent
           /\ fip \in FloatingIp /\ ip \in FloatingIp /\ obj \in Cluster /\ seen \in Cluster
           /\ cluster \in Cluster /\ cache \in Cluster
BY DEF BaseInv, ClusterInv, AttachmentInv, TypeOK

\* The machines that can hold the IP, and what an IP that is lost or moves away means.
HeldIfPossible == (\E m \in Machines : CanHold(m)) => fip.holder # NoId /\ OnLiveMachine

\* With an up-to-date cache the candidates are the machines that can hold the IP.
LEMMA ReadyCanHold ==
    ASSUME MachineTypeOK, Delivered, NEW m \in Machines
    PROVE  /\ m \in Ready <=> CanHold(m)
           /\ machineCache[m].life = life[m] /\ machineCache[m].providerID = providerID[m]
BY CurrentFacts DEF Delivered, Ready, CanHold

LEMMA AtRestIsPlaced ==
    /\ AttachmentAtRest <=> (AtRest /\ Served => Placed(cluster.attached))
    /\ AtRest => Delivered
BY DEF AttachmentAtRest, AtRest, Placed

-----------------------------------------------------------------------------
(***************************************************************************)
(* Where a call leaves the IP.                                             *)
(***************************************************************************)

\* The IP stays where it is, or nowhere.
LEMMA StaysPlaced ==
    ASSUME BaseInv, pc = "listMachines", ~ShouldAttach \/ (ip.holder = NoId /\ Ready = {}), Delivered
    PROVE  /\ HeldIfPossible
           /\ (\A m \in Machines : life[m] # "deleting") => (ip.holder # NoId <=> fip.holder # NoId)
<1>1. /\ MachineTypeOK /\ InstancesAreKept /\ IpIsCurrent
      /\ \A m \in Machines : life[m] \in {"live", "deleting", "gone"}
  BY BaseParts DEF MachineTypeOK
<1>2. CASE ip.holder = NoId
  <2>1. Ready = {} /\ fip.holder = NoId
    BY <1>1, <1>2 DEF ShouldAttach, IpIsCurrent
  <2>2. \A m \in Machines : ~CanHold(m)
    BY <1>1, <2>1, ReadyCanHold
  <2> QED
    BY <1>2, <2>1, <2>2 DEF HeldIfPossible
<1>3. CASE ip.holder # NoId
  <2>1. PICK h \in Holders : TRUE
    BY <1>3 DEF ShouldAttach
  <2>2. h \in Machines /\ life[h] # "gone" /\ providerID[h] = ip.holder
    BY <1>1, <2>1, ReadyCanHold DEF Holders
  <2>3. (\E m \in Machines : CanHold(m)) => life[h] = "live"
    BY <1>1, <1>3, <2>1, <2>2, ReadyCanHold DEF ShouldAttach
  <2>4. fip.holder # ip.holder => fip.holder = NoId /\ life[h] = "deleting"
    BY <1>1, <1>3, <2>2 DEF IpIsCurrent, InstancesAreKept
  <2> QED
    BY <1>3, <2>2, <2>3, <2>4 DEF HeldIfPossible, OnLiveMachine
<1> QED
  BY <1>2, <1>3

\* A step that leaves the machines alone.
LEMMA PlacedNext ==
    ASSUME MachinesSame,
           Delivered =>
             /\ (\E m \in Machines : CanHold(m)) =>
                   fip'.holder # NoId /\ \E m \in Machines : life[m] = "live" /\ fip'.holder = providerID[m]
             /\ (\A m \in Machines : life[m] # "deleting") => (obj'.attached = "true" <=> fip'.holder # NoId)
    PROVE  Placed(obj.attached)'
BY DEF MachinesSame, Placed, Delivered, Current, CanHold, OnLiveMachine

\* A reconcile that ends without an error has done what it should.
LEMMA Conclusion ==
    ASSUME BaseInv, MachinesSame, WorkerWillConclude,
           pc \in {"listMachines", "detachIp", "attachIp"},
           fip'.address = fip.address,
           NEW i, Return(Attached(i), FALSE),
           ~queued /\ Delivered =>
             /\ (\E m \in Machines : CanHold(m)) =>
                   fip'.holder # NoId /\ \E m \in Machines : life[m] = "live" /\ fip'.holder = providerID[m]
             /\ (\A m \in Machines : life[m] # "deleting") => (i.holder # NoId <=> fip'.holder # NoId),
           queued' = queued
    PROVE  WorkerWillConclude' /\ TargetIsReady'
<1>1. /\ pc' = "patchConditions" /\ obj'.finalizer = obj.finalizer /\ obj'.host = obj.host
      /\ obj'.provisioned = obj.provisioned
      /\ obj'.attached = IF i.holder # NoId THEN "true" ELSE "false"
  BY BaseParts, AttachedFacts DEF Return
<1>2. obj'.attached = "true" <=> i.holder # NoId
  BY <1>1
<1>3. ~queued => Placed(obj.attached)'
  BY <1>2, PlacedNext
<1>4. obj'.finalizer /\ obj'.provisioned /\ obj'.host = fip'.address /\ fip'.address # NoAddress
  BY <1>1, BaseParts DEF WorkerWillConclude, WorkerIsConsistent, IpIsWhole
<1>5. WorkerWillConclude'
  BY <1>1, <1>3, <1>4 DEF WorkerWillConclude
<1>6. TargetIsReady'
  BY <1>1 DEF TargetIsReady
<1> QED
  BY <1>5, <1>6

\* Calls.
LEMMA CallRest ==
    ASSUME BaseInv, RestInv, CallStep
    PROVE  RestInv'
<1>1. /\ pc # "idle" /\ UNCHANGED <<machineVars, apiVars, cacheVars, queued, quiet, seen>>
      /\ TargetIsReady /\ WorkerWillConclude /\ SeenIsCached
  BY CallFrame DEF RestInv
<1>2. MachinesSame /\ UNCHANGED <<machineCache, cache, cluster, queued, seen>> /\ Ready' = Ready
  BY <1>1 DEF MachinesSame, machineVars, objectVars, resourceVars, cacheVars, apiVars, Ready
<1>3. pc' # "idle" /\ seen'.life = seen.life
  BY <1>1, BaseParts, CallTypes DEF TypeOK
<1>4. ~AtRest'
  BY <1>3 DEF AtRest
<1>5. EndpointAtRest' /\ AttachmentAtRest'
  BY <1>4 DEF EndpointAtRest, AttachmentAtRest
<1>6. SeenIsCached'
  BY <1>1, <1>2 DEF SeenIsCached
<1>7. pc' \notin {"patchSpec", "patchStatus"}
  BY DEF CallStep, CallFails, EnsureFloatingIpView, EnsureFloatingIpCreate, RemoveFinalizer,
         EnsureFloatingIpDeleted, DeletionRefused, ListMachines, Place, DetachFloatingIp,
         AttachFloatingIp, Return, Provisioned
<1>8. PartsAreStored'
  BY <1>7 DEF PartsAreStored
<1>9. SUFFICES WorkerWillConclude' /\ TargetIsReady'
  BY <1>5, <1>6, <1>8 DEF RestInv
<1>10. ASSUME Return(obj, TRUE) PROVE WorkerWillConclude' /\ TargetIsReady'
  BY <1>10 DEF Return, WorkerWillConclude, TargetIsReady
<1>11. ASSUME Provisioned(fip') PROVE WorkerWillConclude' /\ TargetIsReady'
  <2>1. pc' = "listMachines" /\ obj'.provisioned /\ obj'.host = fip'.address
    BY <1>11, BaseParts DEF Provisioned, Cluster
  <2> QED
    BY <2>1 DEF WorkerWillConclude, TargetIsReady, Patches
<1>12. ASSUME pc \in {"listMachines", "detachIp"}, pc' \in {"detachIp", "attachIp"}, obj' = obj,
              fip'.address = fip.address,
              ~queued => /\ target' = NoId => Ready = {}
                         /\ target' # NoId => \E m \in Ready : machineCache[m].providerID = target'
       PROVE  WorkerWillConclude' /\ TargetIsReady'
  BY <1>1, <1>2, <1>12 DEF WorkerWillConclude, TargetIsReady, Patches
<1>13. CASE CallFails
  BY <1>10, <1>13 DEF CallFails
<1>14. CASE EnsureFloatingIpView
  <2>1. CASE pc' = "createIp"
    BY <2>1 DEF WorkerWillConclude, TargetIsReady, Patches
  <2> QED
    BY <1>11, <1>14, <2>1 DEF EnsureFloatingIpView
<1>15. CASE EnsureFloatingIpCreate
  BY <1>10, <1>11, <1>15, BaseParts, CreateOutcome
<1>16. CASE EnsureFloatingIpDeleted
  <2>1. seen'.life = "deleting"
    BY <1>1, <1>2, <1>16, BaseParts DEF EnsureFloatingIpDeleted, WorkerIsConsistent
  <2>2. pc' = "patchConditions"
    BY <1>16 DEF EnsureFloatingIpDeleted, RemoveFinalizer, DeletionRefused, Return
  <2> QED
    BY <2>1, <2>2 DEF WorkerWillConclude, TargetIsReady
<1>17. CASE ListMachines
  <2>1. fip' = fip /\ pc = "listMachines"
    BY <1>17 DEF ListMachines
  <2>2. CASE Place
    <3>1. PICK t \in InstanceIds \cup {NoId} :
             /\ IF Ready = {} THEN t = NoId
                ELSE t # NoId /\ \E m \in Ready : machineCache[m].providerID = t
             /\ \/ /\ ShouldAttach /\ ip.holder # NoId
                   /\ pc' = "detachIp" /\ target' = t /\ UNCHANGED <<seen, obj, ip, again>>
                \/ /\ ShouldAttach /\ ip.holder = NoId /\ t # NoId
                   /\ pc' = "attachIp" /\ target' = t /\ UNCHANGED <<seen, obj, ip, again>>
                \/ /\ ~ShouldAttach \/ (ip.holder = NoId /\ t = NoId)
                   /\ Return(Attached(ip), FALSE)
      BY <2>2, BaseParts, PlaceOutcome
    <3>2. CASE pc' \in {"detachIp", "attachIp"} /\ target' = t /\ obj' = obj
      BY <1>12, <2>1, <3>1, <3>2
    <3>3. CASE (~ShouldAttach \/ (ip.holder = NoId /\ t = NoId)) /\ Return(Attached(ip), FALSE)
      <4>1. ~ShouldAttach \/ (ip.holder = NoId /\ Ready = {})
        BY <3>1, <3>3
      <4>2. Delivered =>
              /\ (\E m \in Machines : CanHold(m)) =>
                   fip'.holder # NoId /\ \E m \in Machines : life[m] = "live" /\ fip'.holder = providerID[m]
              /\ (\A m \in Machines : life[m] # "deleting") => (ip.holder # NoId <=> fip'.holder # NoId)
        BY <2>1, <4>1, StaysPlaced DEF HeldIfPossible, OnLiveMachine
      <4> QED
        BY <1>1, <1>2, <2>1, <3>3, <4>2, Conclusion
    <3> QED
      BY <3>1, <3>2, <3>3
  <2> QED
    BY <1>10, <1>17, <2>2 DEF ListMachines
<1>18. CASE DetachFloatingIp
  <2>1. CASE pc' = "attachIp" /\ obj' = obj /\ target' = target /\ fip' = Detached
    BY <1>1, <1>12, <1>18, <2>1, BaseParts, DetachedFacts DEF DetachFloatingIp, TargetIsReady
  <2>2. CASE target = NoId /\ fip' = Detached /\ Return(Attached(Detached), FALSE)
    <3>1. ~queued => Ready = {}
      BY <1>1, <1>18, <2>2 DEF DetachFloatingIp, TargetIsReady
    <3>2. ~queued /\ Delivered => \A m \in Machines : ~CanHold(m)
      BY <3>1, BaseParts, ReadyCanHold
    <3>3. fip'.address = fip.address /\ fip'.holder = NoId /\ Detached.holder = NoId
      BY <2>2, BaseParts, DetachedFacts
    <3>4. pc = "detachIp"
      BY <1>18 DEF DetachFloatingIp
    <3> QED
      BY <1>1, <1>2, <2>2, <3>2, <3>3, <3>4, Conclusion
  <2> QED
    BY <1>10, <1>18, <2>1, <2>2 DEF DetachFloatingIp
<1>19. CASE AttachFloatingIp
  <2>1. CASE fip' = [fip EXCEPT !.holder = target] /\ Return(Attached(fip'), FALSE)
    <3>1. pc = "attachIp" /\ target # NoId
      BY <1>19, BaseParts DEF AttachFloatingIp, IpIsCurrent
    <3>2. fip'.address = fip.address /\ fip'.holder = target
      BY <2>1, BaseParts DEF FloatingIp
    <3>3. ~queued => \E m \in Ready : machineCache[m].providerID = target
      BY <1>1, <3>1 DEF TargetIsReady
    <3>4. ~queued /\ Delivered => \E m \in Machines : life[m] = "live" /\ target = providerID[m]
      BY <3>3, BaseParts, ReadyCanHold DEF Ready
    <3> QED
      BY <1>1, <1>2, <2>1, <3>1, <3>2, <3>4, Conclusion
  <2> QED
    BY <1>10, <1>19, <2>1 DEF AttachFloatingIp
<1> QED
  BY <1>13, <1>14, <1>15, <1>16, <1>17, <1>18, <1>19 DEF CallStep

-----------------------------------------------------------------------------
(***************************************************************************)
(* The machines.                                                           *)
(***************************************************************************)

\* A machine's step that leaves no event on its way has changed nothing that is read.
LEMMA DeliveredBefore ==
    ASSUME BaseInv, NEW m \in Machines, ControllerStep(m) \/ RequestDelete(m),
           UNCHANGED machineCache, Delivered'
    PROVE  Delivered /\ UNCHANGED <<life, providerID, provisioned>>
<1>1. TypeOK /\ MachineTypeOK /\ MachinesAreOrdered /\ MachineTypeOK'
  BY BaseParts, MachineTypes
<1>2. ASSUME NEW x \in Machines
      PROVE  /\ machineCache[x].life = life'[x] /\ machineCache[x].providerID = providerID'[x]
             /\ machineCache[x].provisioned = provisioned'[x]
             /\ machineCache[x] = Current(x)'
  BY DEF Delivered, Current
<1>3. life'[m] = life[m] /\ providerID'[m] = providerID[m] /\ provisioned'[m] = provisioned[m]
  BY <1>1, <1>2, MachineOutcome DEF MachinesAreOrdered, MachineTypeOK
<1>4. \A x \in Machines : life'[x] = life[x] /\ providerID'[x] = providerID[x]
                          /\ provisioned'[x] = provisioned[x]
  BY <1>1, <1>3, MachineOutcome
<1>5. UNCHANGED <<life, providerID, provisioned>>
  BY <1>1, <1>4 DEF MachineTypeOK
<1>6. Delivered
  BY <1>2, <1>4 DEF Delivered, Current
<1> QED
  BY <1>5, <1>6

\* Nor has it taken the IP from a machine that was to keep it.
LEMMA MachinePlaced ==
    ASSUME BaseInv, NEW m \in Machines, ControllerStep(m) \/ RequestDelete(m),
           fip' = IF LosesInstance(m) THEN Detached ELSE fip,
           UNCHANGED machineCache, Delivered'
    PROVE  /\ Delivered
           /\ HeldIfPossible => HeldIfPossible'
           /\ (\A x \in Machines : life'[x] # "deleting")
                => /\ \A x \in Machines : life[x] # "deleting"
                   /\ fip'.holder # NoId <=> fip.holder # NoId
<1>1. Delivered /\ UNCHANGED <<life, providerID, provisioned>>
  BY DeliveredBefore
<1>2. CASE fip' = fip
  BY <1>1, <1>2 DEF HeldIfPossible, CanHold, OnLiveMachine
<1>3. CASE LosesInstance(m)
  <2>1. fip.holder # NoId /\ fip.holder = instanceId[m] /\ instanceId'[m] = NoId
    BY <1>3 DEF LosesInstance
  <2>2. life[m] = "deleting"
    BY <2>1, BaseParts, MachineOutcome
  <2>3. ASSUME NEW x \in Machines, life[x] = "live", fip.holder = providerID[x] PROVE FALSE
    <3>1. instanceId[x] = fip.holder /\ x # m
      BY <2>1, <2>2, <2>3, BaseParts DEF InstancesAreKept
    <3> QED
      BY <2>1, <3>1, BaseParts DEF IdsAreOwned, Knows
  <2>4. ~OnLiveMachine
    BY <2>3 DEF OnLiveMachine
  <2>5. HeldIfPossible => HeldIfPossible'
    BY <1>1, <2>4 DEF HeldIfPossible, CanHold
  <2> QED
    BY <1>1, <2>2, <2>5
<1> QED
  BY <1>2, <1>3

LEMMA MachineRest ==
    ASSUME BaseInv, RestInv, NEW m \in Machines, ControllerStep(m) \/ RequestDelete(m),
           fip' = IF LosesInstance(m) THEN Detached ELSE fip,
           UNCHANGED <<apiVars, cacheVars, queued, workerVars>>
    PROVE  RestInv'
<1>1. /\ UNCHANGED <<cluster, ownerPaused, ownerDeleted, cache, machineCache, pc, seen, obj, target, again>>
      /\ Ready' = Ready /\ fip'.address = fip.address
  BY BaseParts, DetachedFacts DEF apiVars, cacheVars, workerVars, Ready
<1>2. SeenIsCached' /\ TargetIsReady' /\ PartsAreStored'
  BY <1>1 DEF RestInv, SeenIsCached, TargetIsReady, PartsAreStored
<1>3. ASSUME NEW a, Placed(a), Delivered'
      PROVE  /\ HeldIfPossible'
             /\ (\A x \in Machines : life'[x] # "deleting") => (a = "true" <=> fip'.holder # NoId)
  BY <1>1, <1>3, MachinePlaced DEF Placed, HeldIfPossible
<1>4. Placed(obj.attached) => Placed(obj.attached)'
  BY <1>1, <1>3 DEF Placed, HeldIfPossible
<1>5. Placed(cluster.attached) => Placed(cluster.attached)'
  BY <1>1, <1>3 DEF Placed, HeldIfPossible
<1>6. WorkerWillConclude'
  BY <1>1, <1>4 DEF RestInv, WorkerWillConclude
<1>7. AtRest' /\ Served' => AtRest /\ Served
  <2>1. Delivered' => Delivered
    BY <1>1, DeliveredBefore
  <2> QED
    BY <1>1, <2>1 DEF AtRest, Served
<1>8. EndpointAtRest'
  BY <1>1, <1>7 DEF RestInv, EndpointAtRest
<1>9. AttachmentAtRest'
  BY <1>5, <1>7, AtRestIsPlaced DEF RestInv, AttachmentAtRest, AtRest, Placed
<1> QED
  BY <1>2, <1>6, <1>8, <1>9 DEF RestInv

-----------------------------------------------------------------------------
(***************************************************************************)
(* The patch.                                                              *)
(***************************************************************************)

\* A part that did not fail is stored, or there was nothing to store.
LEMMA PartOutcome ==
    ASSUME TypeOK, PatchOxideCluster, cluster'.life # "gone",
           IF pc = "patchStatus" THEN ~queued' ELSE ~again'
    PROVE  /\ ~again /\ cluster.life # "gone" /\ (pc = "patchStatus" => ~queued)
           /\ \/ NothingToMerge(pc) /\ cluster' = cluster
              \/ cluster' = Merge(pc, cluster)
           /\ cluster'.attached = IF pc = "patchConditions" /\ obj.attached # seen.attached
                                  THEN obj.attached ELSE cluster.attached
           /\ cluster'.finalizer = IF pc = "patchSpec" /\ obj.finalizer # seen.finalizer
                                   THEN obj.finalizer ELSE cluster.finalizer
           /\ cluster'.host = IF pc = "patchSpec" /\ obj.host # seen.host
                              THEN obj.host ELSE cluster.host
           /\ cluster'.provisioned = IF pc = "patchStatus" /\ obj.provisioned # seen.provisioned
                                     THEN obj.provisioned ELSE cluster.provisioned
<1>1. pc \in Patches /\ again \in BOOLEAN /\ queued \in BOOLEAN
  BY DEF TypeOK, PatchOxideCluster
<1>2. PICK failed \in BOOLEAN :
         /\ AfterPart(failed)
         /\ \/ failed
            \/ NothingToMerge(pc) /\ cluster' = cluster
            \/ cluster.life # "gone" /\ cluster' = Merge(pc, cluster)
  BY DEF PatchOxideCluster
<1>3. ~failed /\ ~again /\ (pc = "patchStatus" => ~queued)
  BY <1>1, <1>2 DEF AfterPart
<1>4. CASE NothingToMerge(pc) /\ cluster' = cluster
  BY <1>1, <1>3, <1>4 DEF NothingToMerge, Patches
<1>5. CASE cluster.life # "gone" /\ cluster' = Merge(pc, cluster)
  BY <1>1, <1>3, <1>5, MergeFacts, TombstoneFacts
<1> QED
  BY <1>2, <1>3, <1>4, <1>5

LEMMA PatchRest ==
    ASSUME BaseInv, RestInv, PatchOxideCluster
    PROVE  RestInv'
<1>1. /\ pc \in Patches /\ pc # "idle"
      /\ UNCHANGED <<ownerPaused, ownerDeleted, cache, machineCache, fip>> /\ MachinesSame
  BY PatchOutcome DEF MachinesSame, machineVars, objectVars, resourceVars
<1>2. SeenIsCached /\ WorkerWillConclude /\ PartsAreStored
  BY DEF RestInv
<1>3. CASE pc # "patchStatus"
  <2>1. /\ pc' = IF pc = "patchConditions" THEN "patchSpec" ELSE "patchStatus"
        /\ UNCHANGED <<queued, seen, obj, ip, target>>
        /\ ~again' => ~again
    BY <1>3 DEF PatchOxideCluster, AfterPart
  <2>2. SeenIsCached' /\ TargetIsReady' /\ EndpointAtRest' /\ AttachmentAtRest'
    BY <1>1, <1>2, <2>1 DEF SeenIsCached, TargetIsReady, EndpointAtRest, AttachmentAtRest, AtRest
  <2>3. Placed(obj.attached) => Placed(obj.attached)'
    BY <1>1, <2>1 DEF MachinesSame, Placed, Delivered, Current, CanHold, OnLiveMachine
  <2>4. WorkerWillConclude'
    BY <1>1, <1>2, <2>1, <2>3 DEF WorkerWillConclude, Patches
  <2>5. PartsAreStored'
    <3> SUFFICES ASSUME ~again', cluster'.life # "gone" PROVE PartsAreStored'
      BY DEF PartsAreStored
    <3>1. NothingToMerge(pc) /\ cluster' = cluster => (pc = "patchSpec" => obj.finalizer = seen.finalizer /\ obj.host = seen.host)
      BY DEF NothingToMerge
    <3> QED
      BY <1>1, <1>2, <1>3, <2>1, <3>1, BaseParts, PartOutcome DEF PartsAreStored, Patches
  <2> QED
    BY <2>2, <2>4, <2>5 DEF RestInv
<1>4. CASE pc = "patchStatus"
  <2>1. pc' = "idle"
    BY <1>4 DEF PatchOxideCluster, AfterPart, Free
  <2>2. SeenIsCached' /\ TargetIsReady' /\ WorkerWillConclude' /\ PartsAreStored'
    BY <2>1 DEF SeenIsCached, TargetIsReady, WorkerWillConclude, PartsAreStored, Patches
  <2>3. ASSUME AtRest', Served'
        PROVE  /\ cluster'.finalizer /\ cluster'.provisioned
               /\ cluster'.host = fip'.address /\ fip'.address # NoAddress
               /\ Placed(cluster.attached)'
    <3>1. ~queued' /\ cache = cluster' /\ cluster'.life = "live" /\ ~ownerDeleted
      BY <1>1, <2>3 DEF AtRest, Served
    <3>2. /\ ~again /\ cluster.life # "gone" /\ ~queued
          /\ cluster'.attached = cluster.attached /\ cluster'.finalizer = cluster.finalizer
          /\ cluster'.host = cluster.host
          /\ cluster'.provisioned = IF obj.provisioned # seen.provisioned
                                    THEN obj.provisioned ELSE cluster.provisioned
      BY <1>4, <3>1, BaseParts, PartOutcome
    <3>3. cache = seen
      BY <1>1, <1>2, <3>2 DEF SeenIsCached
    <3>4. /\ obj.finalizer /\ obj.provisioned /\ obj.host = fip.address
          /\ fip.address # NoAddress /\ Placed(obj.attached)
      BY <1>1, <1>2, <3>1, <3>2, <3>3 DEF WorkerWillConclude
    <3>5. /\ cluster'.attached = obj.attached /\ cluster'.finalizer = obj.finalizer
          /\ cluster'.host = obj.host
      BY <1>2, <1>4, <3>1, <3>2, <3>3 DEF PartsAreStored
    <3>6. cluster'.provisioned = obj.provisioned
      BY <3>1, <3>2, <3>3
    <3>7. Placed(cluster.attached)'
      BY <1>1, <3>4, <3>5 DEF MachinesSame, Placed, Delivered, Current, CanHold, OnLiveMachine
    <3> QED
      BY <1>1, <3>4, <3>5, <3>6, <3>7
  <2>4. EndpointAtRest'
    BY <2>3 DEF EndpointAtRest
  <2>5. AttachmentAtRest'
    BY <2>3 DEF AttachmentAtRest, AtRest, Placed
  <2> QED
    BY <2>2, <2>4, <2>5 DEF RestInv
<1> QED
  BY <1>3, <1>4

-----------------------------------------------------------------------------
(***************************************************************************)
(* The other steps.                                                        *)
(***************************************************************************)

\* A reconcile that ends before its first call leaves an object that is not served, or
\* an event.
LEMMA EarlyReturnRest ==
    ASSUME BaseInv, RestInv, ReconcileSkip \/ EnsurePausedCondition
    PROVE  RestInv'
<1>1. pc' = "idle" /\ cache' = cache /\ ownerPaused' = ownerPaused
  BY DEF ReconcileSkip, EnsurePausedCondition, Take, workerVars, cacheVars, apiVars
<1>2. SeenIsCached' /\ TargetIsReady' /\ WorkerWillConclude' /\ PartsAreStored'
  BY <1>1 DEF SeenIsCached, TargetIsReady, WorkerWillConclude, PartsAreStored, Patches
<1>3. ~(AtRest' /\ Served')
  <2>1. CASE ReconcileSkip
    BY <1>1, <2>1 DEF ReconcileSkip, AtRest, Served
  <2>2. CASE EnsurePausedCondition
    <3>1. CASE ownerPaused
      BY <1>1, <3>1 DEF Served
    <3>2. CASE cache.paused # PausedStatus /\ cluster' = [cluster EXCEPT !.paused = PausedStatus]
      <4>1. cluster'.paused = PausedStatus
        BY <3>2, BaseParts DEF Cluster
      <4> QED
        BY <1>1, <3>2, <4>1 DEF AtRest
    <3> QED
      BY <2>2, <3>1, <3>2 DEF EnsurePausedCondition
  <2> QED
    BY <2>1, <2>2
<1>4. EndpointAtRest' /\ AttachmentAtRest'
  BY <1>3 DEF EndpointAtRest, AttachmentAtRest
<1> QED
  BY <1>2, <1>4 DEF RestInv

\* After an event the key is in the queue.
LEMMA EventRest ==
    ASSUME BaseInv, RestInv, queued', UNCHANGED <<cluster, ownerDeleted, fip>>,
           UNCHANGED <<pc, seen, obj, target, again>> \/ pc' = "idle"
    PROVE  RestInv'
<1>1. SeenIsCached' /\ TargetIsReady' /\ EndpointAtRest' /\ AttachmentAtRest'
  BY DEF SeenIsCached, TargetIsReady, EndpointAtRest, AttachmentAtRest, AtRest
<1>2. WorkerWillConclude' /\ PartsAreStored'
  BY DEF RestInv, WorkerWillConclude, PartsAreStored, Patches
<1> QED
  BY <1>1, <1>2 DEF RestInv

\* The user and Cluster API may change the cluster under the worker's feet.
LEMMA UserRest ==
    ASSUME BaseInv, RestInv, SetOwner \/ DeleteOwner \/ DeleteCluster \/ Settle
    PROVE  RestInv'
<1>1. /\ MachinesSame /\ UNCHANGED <<cache, queued, pc, seen, obj, target, again, fip, ownerPaused>>
      /\ ownerDeleted' \in {ownerDeleted, TRUE} /\ Ready' = Ready
  BY DEF SetOwner, DeleteOwner, DeleteCluster, Settle, MachinesSame, machineVars, objectVars,
         resourceVars, cacheVars, workerVars, apiVars, Ready
<1>2. Placed(obj.attached) => Placed(obj.attached)'
  BY <1>1 DEF MachinesSame, Placed, Delivered, Current, CanHold, OnLiveMachine
<1>3. SeenIsCached' /\ TargetIsReady' /\ WorkerWillConclude'
  BY <1>1, <1>2 DEF RestInv, SeenIsCached, TargetIsReady, WorkerWillConclude, MachinesSame
<1>4. PartsAreStored'
  <2>1. Elsewhere
    BY DEF Elsewhere, UserStep
  <2>2. cluster'.life # "gone" =>
          /\ cluster.life # "gone" /\ cluster'.attached = cluster.attached
          /\ cluster'.finalizer = cluster.finalizer /\ cluster'.host = cluster.host
    BY <2>1, BaseParts, ObjectElsewhere, TombstoneFacts
  <2> QED
    BY <1>1, <2>2 DEF RestInv, PartsAreStored
<1>5. CASE Settle
  <2>1. cluster' = cluster /\ ownerDeleted' = ownerDeleted /\ ownerPaused' = ownerPaused
    BY <1>5 DEF Settle, apiVars
  <2>2. (AtRest' /\ Served' => AtRest /\ Served)
        /\ (Placed(cluster.attached) => Placed(cluster.attached)')
    BY <1>1, <2>1 DEF AtRest, Served, MachinesSame, Placed, Delivered, Current, CanHold, OnLiveMachine
  <2>3. EndpointAtRest' /\ AttachmentAtRest'
    BY <1>1, <2>1, <2>2, AtRestIsPlaced DEF RestInv, EndpointAtRest, AttachmentAtRest, AtRest, Placed
  <2> QED
    BY <1>3, <1>4, <2>3 DEF RestInv
<1>6. CASE SetOwner \/ DeleteOwner \/ DeleteCluster
  <2>1. ~(AtRest' /\ Served')
    <3>1. CASE SetOwner
      <4>1. cluster'.owned /\ ~cluster.owned /\ cluster.life # "gone"
        BY <3>1, BaseParts DEF SetOwner, Cluster
      <4> QED
        BY <1>1, <4>1, BaseParts DEF AtRest, VersionsAreOrdered
    <3>2. CASE DeleteOwner
      BY <3>2 DEF DeleteOwner, Served
    <3>3. CASE DeleteCluster
      <4>1. cluster'.life # "live"
        BY <3>3, BaseParts, TombstoneFacts DEF DeleteCluster, Cluster
      <4> QED
        BY <4>1 DEF Served
    <3> QED
      BY <1>6, <3>1, <3>2, <3>3
  <2>2. EndpointAtRest' /\ AttachmentAtRest'
    BY <2>1 DEF EndpointAtRest, AttachmentAtRest
  <2> QED
    BY <1>3, <1>4, <2>2 DEF RestInv
<1> QED
  BY <1>5, <1>6

\* A creation that lands late does so where nobody counts on an IP.
LEMMA LandRest ==
    ASSUME BaseInv, RestInv, LandCreate
    PROVE  RestInv'
<1>1. /\ UNCHANGED <<machineVars, apiVars, cacheVars, queued, workerVars, quiet>>
      /\ fip'.holder = fip.holder
      /\ fip' = fip \/ fip.address = NoAddress
  BY BaseParts, LandOutcome, NoIpFacts
<1>2. /\ UNCHANGED <<cluster, ownerPaused, ownerDeleted, cache, machineCache, queued, pc, seen, obj,
                     target, again>> /\ MachinesSame /\ Ready' = Ready
  BY <1>1 DEF apiVars, cacheVars, workerVars, MachinesSame, machineVars, objectVars, resourceVars,
              Ready
<1>3. \A a : Placed(a) <=> Placed(a)'
  BY <1>1, <1>2 DEF MachinesSame, Placed, Delivered, Current, CanHold, OnLiveMachine
<1>4. SeenIsCached' /\ TargetIsReady' /\ PartsAreStored'
  BY <1>2 DEF RestInv, SeenIsCached, TargetIsReady, PartsAreStored
<1>5. WorkerWillConclude'
  BY <1>1, <1>2, <1>3, BaseParts DEF RestInv, WorkerWillConclude, IpIsWhole
<1>6. AtRest' = AtRest /\ Served' = Served
  BY <1>2 DEF AtRest, Served, MachinesSame, Delivered, Current
<1>7. EndpointAtRest'
  BY <1>1, <1>2, <1>6 DEF RestInv, EndpointAtRest
<1>8. AttachmentAtRest'
  BY <1>1, <1>2, <1>6 DEF RestInv, AttachmentAtRest, MachinesSame, CanHold, OnLiveMachine
<1> QED
  BY <1>4, <1>5, <1>7, <1>8 DEF RestInv

\* The start of a reconcile.
LEMMA ReconcileRest ==
    ASSUME Reconcile
    PROVE  RestInv'
<1>1. /\ pc' \in {"deleteIp", "patchConditions", "viewIp"} /\ pc' # "idle"
      /\ seen' = cache /\ cache' = cache /\ ownerDeleted' = ownerDeleted
      /\ pc' = "patchConditions" => ownerDeleted \/ again'
  BY DEF Reconcile, cacheVars, apiVars
<1>2. SeenIsCached' /\ EndpointAtRest' /\ AttachmentAtRest'
  BY <1>1 DEF SeenIsCached, EndpointAtRest, AttachmentAtRest, AtRest
<1>3. TargetIsReady' /\ PartsAreStored'
  BY <1>1 DEF TargetIsReady, PartsAreStored
<1>4. WorkerWillConclude'
  BY <1>1 DEF WorkerWillConclude, Patches
<1> QED
  BY <1>2, <1>3, <1>4 DEF RestInv

\* All steps.
LEMMA StepRest ==
    ASSUME BaseInv, RestInv, Next
    PROVE  RestInv'
<1>1. CASE ManagerStep \/ TogglePause
  BY <1>1, EventRest DEF ManagerStep, SyncCluster, SyncMachine, Restart, Free, TogglePause, apiVars,
                         workerVars
<1>2. ASSUME NEW m \in Machines, StepMachine(m) PROVE RestInv'
  BY <1>2, MachineRest DEF StepMachine
<1>3. ASSUME NEW m \in Machines, DeleteMachine(m) PROVE RestInv'
  <2>1. ~LosesInstance(m)
    BY <1>3 DEF DeleteMachine, RequestDelete, Disappear, LosesInstance, resourceVars
  <2> QED
    BY <1>3, <2>1, MachineRest DEF DeleteMachine
<1> QED
  BY <1>1, <1>2, <1>3, CallRest, PatchRest, EarlyReturnRest, UserRest, LandRest, ReconcileRest
     DEF Next, WorkerStep, StartReconcile, UserStep, CallStep

LEMMA InitRest == Init => RestInv
BY DEF Init, RestInv, SeenIsCached, TargetIsReady, WorkerWillConclude, PartsAreStored,
       EndpointAtRest, AttachmentAtRest, AtRest, Patches

LEMMA StutterRest == ASSUME RestInv, UNCHANGED vars PROVE RestInv'
<1>1. UNCHANGED <<cluster, ownerPaused, ownerDeleted, cache, machineCache, queued, pc, seen, obj,
                  target, again, fip>> /\ MachinesSame /\ Ready' = Ready
  BY DEF vars, apiVars, cacheVars, workerVars, MachinesSame, machineVars, objectVars, resourceVars,
         Ready
<1>2. Delivered' = Delivered /\ OnLiveMachine' = OnLiveMachine /\ \A m \in Machines : CanHold(m)' = CanHold(m)
  BY <1>1 DEF MachinesSame, Delivered, Current, OnLiveMachine, CanHold
<1>3. SeenIsCached' /\ TargetIsReady' /\ PartsAreStored'
  BY <1>1 DEF RestInv, SeenIsCached, TargetIsReady, PartsAreStored
<1>4. WorkerWillConclude'
  BY <1>1, <1>2 DEF RestInv, WorkerWillConclude, Placed, MachinesSame
<1>5. EndpointAtRest' /\ AttachmentAtRest'
  BY <1>1, <1>2 DEF RestInv, EndpointAtRest, AttachmentAtRest, AtRest, Served, MachinesSame
<1> QED
  BY <1>3, <1>4, <1>5 DEF RestInv

(***************************************************************************)
(* What a reconcile that works on what the cache holds will leave behind   *)
(* when none of its calls and patches fail.                                *)
(***************************************************************************)
THEOREM Conclusions == Spec => []RestInv
<1>1. BaseInv /\ RestInv /\ [Next]_vars => RestInv'
  BY StepRest, StutterRest
<1> QED
  BY <1>1, InitRest, Attachment, PTL DEF Spec, BaseInv

(***************************************************************************)
(* Reconcile never asks for a later round by itself, and needs none: when  *)
(* nothing is queued and no event is on its way, a cluster that is served  *)
(* has its finalizer, is provisioned, and has the address of its floating  *)
(* IP for its endpoint.                                                    *)
(***************************************************************************)
THEOREM EndpointIsSettled == Spec => []EndpointAtRest
BY Conclusions, PTL DEF RestInv

(***************************************************************************)
(* The floating IP is then on a machine that is not being deleted if there *)
(* is a candidate, and the FloatingIPAttached condition tells the truth.   *)
(***************************************************************************)
THEOREM AttachmentIsSettled == Spec => []AttachmentAtRest
BY Conclusions, PTL DEF RestInv
==============================================================================
