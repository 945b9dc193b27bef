--------------------- MODULE OxideClusterAttachmentProofs ---------------------
(***************************************************************************)
(* Where the floating IP is: MovesOnlyFromDeleted, for all machines,       *)
(* addresses and faults.                                                   *)
(***************************************************************************)
EXTENDS OxideClusterProofs

USE NoIdAssumption, NoAddressAssumption, StrangerAssumption

-----------------------------------------------------------------------------
(***************************************************************************)
(* Machines.                                                               *)
(***************************************************************************)

\* What a machine's step changes.
LEMMA MachineOutcome ==
    ASSUME TypeOK, NEW m \in Machines, ControllerStep(m) \/ RequestDelete(m)
    PROVE  /\ used \subseteq used'
           /\ \A x \in Machines \ {m} :
                 /\ life'[x] = life[x] /\ providerID'[x] = providerID[x]
                 /\ provisioned'[x] = provisioned[x] /\ instanceId'[x] = instanceId[x]
           /\ \/ /\ life'[m] = life[m] /\ providerID'[m] = providerID[m]
                 /\ provisioned'[m] = provisioned[m]
                 /\ \/ instanceId'[m] = instanceId[m]
                    \/ life[m] = "deleting" /\ instanceId'[m] = NoId
                    \/ /\ providerID[m] = NoId /\ instanceId[m] = NoId
                       /\ instanceId'[m] \in used' \ used
              \/ /\ life[m] # "gone" /\ life'[m] = life[m] /\ instanceId'[m] = instanceId[m]
                 /\ \/ /\ providerID[m] = NoId /\ instanceId[m] # NoId
                       /\ providerID'[m] = instanceId[m] /\ provisioned'[m] = provisioned[m]
                    \/ providerID'[m] = providerID[m] /\ provisioned'[m]
              \/ /\ life[m] = "live" /\ life'[m] = "deleting" /\ instanceId'[m] = instanceId[m]
                 /\ providerID'[m] = providerID[m] /\ provisioned'[m] = provisioned[m]
              \/ /\ \/ life[m] = "live" /\ providerID[m] = NoId
                    \/ life[m] = "deleting" /\ instanceId[m] = NoId
                 /\ life'[m] = "gone" /\ providerID'[m] = NoId /\ ~provisioned'[m]
                 /\ instanceId'[m] = instanceId[m]
<1>1. MachineTypeOK
  BY TypeParts
<1>2. CASE CreateInstance(m)
  BY <1>1, <1>2 DEF CreateInstance, objectVars, MachineTypeOK
<1>3. CASE RecordProviderID(m) \/ Provision(m)
  BY <1>1, <1>3 DEF RecordProviderID, Provision, resourceVars, MachineTypeOK
<1>4. CASE DestroyInstance(m) \/ DestroyDisk(m)
  BY <1>1, <1>4 DEF DestroyInstance, DestroyDisk, objectVars, MachineTypeOK
<1>5. CASE Release(m)
  BY <1>1, <1>5 DEF Release, Disappear, resourceVars, MachineTypeOK
<1>6. CASE RequestDelete(m)
  BY <1>1, <1>6 DEF RequestDelete, Disappear, resourceVars, MachineTypeOK
<1> QED
  BY <1>2, <1>3, <1>4, <1>5, <1>6 DEF ControllerStep

\* Ids are handed out once and then only copied.
LEMMA OwnedFrom ==
    ASSUME IdsAreOwned, used \subseteq used', NEW m,
           \A x \in Machines : Knows(x)' \subseteq Knows(x) \cup IF x = m THEN used' \ used ELSE {}
    PROVE  IdsAreOwned'
BY DEF IdsAreOwned

\* A step of a machine, as far as the ids, the instances and the cache go.
LEMMA MachineOwned ==
    ASSUME TypeOK, AttachmentInv, NEW m \in Machines, ControllerStep(m) \/ RequestDelete(m),
           UNCHANGED machineCache
    PROVE  IdsAreOwned' /\ InstancesAreKept' /\ MachinesAreOrdered'
<1>1. IdsAreOwned /\ InstancesAreKept /\ MachinesAreOrdered
  BY DEF AttachmentInv
<1>2. Knows(m) \subseteq used
  BY <1>1 DEF IdsAreOwned
<1>3. ASSUME NEW x \in Machines
      PROVE  Knows(x)' \subseteq Knows(x) \cup IF x = m THEN used' \ used ELSE {}
  BY MachineOutcome DEF Knows
<1>4. IdsAreOwned'
  BY <1>1, <1>3, MachineOutcome, OwnedFrom
<1>5. InstancesAreKept'
  <2> SUFFICES ASSUME NEW x \in Machines
               PROVE  /\ life'[x] = "gone" => providerID'[x] = NoId /\ ~provisioned'[x]
                      /\ life'[x] = "live" /\ providerID'[x] # NoId => instanceId'[x] = providerID'[x]
                      /\ life'[x] = "deleting" /\ providerID'[x] # NoId
                           => instanceId'[x] \in {NoId, providerID'[x]}
    BY DEF InstancesAreKept
  <2>1. CASE x = m
    BY <1>1, <2>1, MachineOutcome DEF InstancesAreKept
  <2>2. CASE x # m
    BY <1>1, <2>2, MachineOutcome DEF InstancesAreKept
  <2> QED
    BY <2>1, <2>2
<1>6. MachinesAreOrdered'
  <2> SUFFICES ASSUME NEW x \in Machines
               PROVE  /\ machineCache[x].life = "gone"
                           => life'[x] = "gone" /\ machineCache[x].providerID = NoId
                      /\ machineCache[x].life = "deleting" => life'[x] # "live"
                      /\ machineCache[x].provisioned => provisioned'[x] \/ life'[x] = "gone"
                      /\ machineCache[x].providerID # NoId =>
                            IF life'[x] = "gone" THEN instanceId'[x] # machineCache[x].providerID
                                                 ELSE providerID'[x] = machineCache[x].providerID
    BY DEF MachinesAreOrdered
  <2>1. CASE x = m
    <3>1. machineCache[m].providerID # NoId => machineCache[m].providerID \in used
      BY <1>2 DEF Knows
    <3> QED
      BY <1>1, <2>1, <3>1, MachineOutcome DEF MachinesAreOrdered, InstancesAreKept
  <2>2. CASE x # m
    BY <1>1, <2>2, MachineOutcome DEF MachinesAreOrdered
  <2> QED
    BY <2>1, <2>2
<1> QED
  BY <1>4, <1>5, <1>6

\* What the informer delivers.
Delivers == \A x \in Machines : machineCache'[x] \in {machineCache[x], Current(x)}

LEMMA CacheOwned ==
    ASSUME TypeOK, AttachmentInv, UNCHANGED machineVars, Delivers
    PROVE  IdsAreOwned' /\ InstancesAreKept' /\ MachinesAreOrdered'
<1>1. IdsAreOwned /\ InstancesAreKept /\ MachinesAreOrdered /\ MachineTypeOK
  BY TypeParts DEF AttachmentInv
<1>2. UNCHANGED <<life, providerID, provisioned, instanceId, used>>
  BY DEF machineVars, objectVars, resourceVars
<1>3. \A x \in Machines : Knows(x)' \subseteq Knows(x)
  BY <1>1, <1>2, CurrentFacts DEF Knows, Delivers
<1>4. IdsAreOwned'
  BY <1>1, <1>2, <1>3 DEF IdsAreOwned
<1>5. InstancesAreKept'
  BY <1>1, <1>2 DEF InstancesAreKept
<1>6. MachinesAreOrdered'
  BY <1>1, <1>2, CurrentFacts DEF MachinesAreOrdered, InstancesAreKept, Delivers
<1> QED
  BY <1>4, <1>5, <1>6

\* An id belongs to one machine.
LEMMA OneOwner ==
    ASSUME IdsAreOwned, NEW m \in Machines, NEW x \in Machines, NEW id, id # NoId,
           id = machineCache[m].providerID,
           id = instanceId[x] \/ id = machineCache[x].providerID
    PROVE  x = m /\ id \in used
<1>1. id \in Knows(m) /\ id \in Knows(x)
  BY DEF Knows
<1> QED
  BY <1>1 DEF IdsAreOwned

\* What the cache has told stays known when machines take steps.
LEMMA MachineKnown ==
    ASSUME TypeOK, NEW m \in Machines, ControllerStep(m) \/ RequestDelete(m), UNCHANGED machineCache,
           NEW id, Known(id)
    PROVE  Known(id)'
<1>1. \A x \in Machines : instanceId'[x] \in {instanceId[x], NoId} \cup (used' \ used)
  BY MachineOutcome
<1>2. id \in used /\ id # NoId /\ id \in used'
  BY MachineOutcome DEF TypeOK, MachineTypeOK, Known
<1>3. \A x \in Machines : instanceId'[x] = id => machineCache[x].providerID = id
  BY <1>1, <1>2 DEF Known
<1> QED
  BY <1>2, <1>3 DEF Known

\* And when the informer delivers.
LEMMA CacheKnown ==
    ASSUME TypeOK, MachinesAreOrdered, UNCHANGED machineVars, Delivers, NEW id, Known(id)
    PROVE  Known(id)'
<1>1. id \in used /\ id # NoId /\ MachineTypeOK
  BY TypeParts DEF MachineTypeOK, Known
<1>2. UNCHANGED <<instanceId, used>>
  BY DEF machineVars, resourceVars
<1>3. ASSUME NEW x \in Machines, instanceId[x] = id PROVE machineCache'[x].providerID = id
  <2>1. machineCache[x].providerID = id
    BY <1>3 DEF Known
  <2>2. providerID[x] = id
    BY <1>1, <1>3, <2>1 DEF MachinesAreOrdered
  <2> QED
    BY <1>1, <2>1, <2>2, CurrentFacts DEF Delivers
<1> QED
  BY <1>1, <1>2, <1>3 DEF Known

\* What remains of the invariant when the worker's variables are left alone, and a
\* machine takes a step.
LEMMA MachineAttachment ==
    ASSUME TypeOK, AttachmentInv, NEW m \in Machines, ControllerStep(m) \/ RequestDelete(m),
           UNCHANGED <<machineCache, pc, ip, target>>,
           fip' = IF LosesInstance(m) THEN Detached ELSE fip
    PROVE  AttachmentInv'
<1>1. /\ IdsAreOwned /\ InstancesAreKept /\ MachinesAreOrdered /\ HoldersAreKnown /\ IpIsCurrent
      /\ MovesOnlyFromDeleted
  BY DEF AttachmentInv
<1>2. /\ fip \in FloatingIp /\ ip \in FloatingIp /\ used \subseteq InstanceIds
      /\ used' \subseteq InstanceIds
      /\ instanceId \in [Machines -> InstanceIds \cup {NoId}]
  BY MachineTypes DEF TypeOK, MachineTypeOK
<1>3. fip' = fip \/ (LosesInstance(m) /\ fip'.holder = NoId)
  BY <1>2, DetachedFacts
<1>4. HoldersAreKnown'
  <2>1. fip'.holder \in InstanceIds => Known(fip.holder) /\ fip' = fip
    BY <1>1, <1>3 DEF HoldersAreKnown
  <2>2. ip'.holder \in InstanceIds => ip'.holder \in used'
    BY <1>1, MachineOutcome DEF HoldersAreKnown
  <2>3. ASSUME NEW id, Known(id)
        PROVE  id \in used' /\ \A x \in Machines : instanceId'[x] = id => machineCache'[x].providerID = id
    BY <2>3, MachineKnown DEF Known
  <2> QED
    BY <1>1, <2>1, <2>2, <2>3 DEF HoldersAreKnown, Known
<1>5. \A x \in Machines : instanceId'[x] \in {instanceId[x], NoId} \cup (used' \ used)
  BY MachineOutcome
<1>6. fip.holder \in InstanceIds => fip.holder \in used
  BY <1>1 DEF HoldersAreKnown, Known
<1>7. IpIsCurrent'
  <2>1. ip.holder \in InstanceIds => ip.holder \in used
    BY <1>1 DEF HoldersAreKnown
  <2>2. CASE fip' = fip
    <3>1. ip.holder # NoId => ip.holder \notin used' \ used
      BY <1>2, <2>1
    <3> QED
      BY <1>1, <1>5, <2>2, <3>1 DEF IpIsCurrent
  <2>3. CASE LosesInstance(m) /\ fip'.holder = NoId
    <3>1. fip.holder # NoId /\ fip.holder = instanceId[m] /\ instanceId'[m] = NoId
      BY <2>3 DEF LosesInstance
    <3>2. \A x \in Machines \ {m} : instanceId'[x] = instanceId[x] /\ instanceId[x] # fip.holder
      BY <1>1, <3>1, MachineOutcome DEF IdsAreOwned, Knows
    <3>3. \A x \in Machines : instanceId'[x] # fip.holder
      BY <3>1, <3>2
    <3> QED
      BY <1>1, <2>3, <3>1, <3>3 DEF IpIsCurrent
  <2> QED
    BY <1>3, <2>2, <2>3
<1>8. MovesOnlyFromDeleted'
  <2> SUFFICES ASSUME pc = "detachIp", NEW x \in Machines, fip'.holder # NoId,
                      fip'.holder = instanceId'[x]
               PROVE  life'[x] = "deleting" /\ target' # NoId
    BY DEF MovesOnlyFromDeleted
  <2>1. fip' = fip
    BY <1>3
  <2>2. instanceId'[x] = instanceId[x]
    BY <1>2, <1>5, <1>6, <2>1, MachineTypes DEF MachineTypeOK, TypeOK
  <2>3. life[x] = "deleting" /\ target # NoId
    BY <1>1, <2>1, <2>2 DEF MovesOnlyFromDeleted
  <2>4. life'[x] = "deleting"
    BY <2>1, <2>2, <2>3, MachineOutcome
  <2> QED
    BY <2>3, <2>4
<1> QED
  BY <1>4, <1>7, <1>8, MachineOwned DEF AttachmentInv

\* The machines and what the cache says of them do not change.
MachinesSame == UNCHANGED <<life, providerID, provisioned, instanceId, used, machineCache>>

LEMMA SameMachines ==
    ASSUME MachinesSame
    PROVE  /\ IdsAreOwned => IdsAreOwned'
           /\ InstancesAreKept => InstancesAreKept'
           /\ MachinesAreOrdered => MachinesAreOrdered'
           /\ \A id : Known(id) <=> Known(id)'
<1> USE DEF MachinesSame
<1>1. \A m \in Machines : Knows(m)' = Knows(m)
  BY DEF Knows
<1>2. IdsAreOwned => IdsAreOwned'
  BY <1>1 DEF IdsAreOwned
<1>3. InstancesAreKept => InstancesAreKept'
  BY DEF InstancesAreKept
<1>4. MachinesAreOrdered => MachinesAreOrdered'
  BY DEF MachinesAreOrdered
<1>5. \A id : Known(id) <=> Known(id)'
  BY DEF Known
<1> QED
  BY <1>2, <1>3, <1>4, <1>5

\* ListMachines only decides to take the IP from a machine that is being deleted, and
\* when another can have it.
LEMMA PlaceMoves ==
    ASSUME TypeOK, AttachmentInv, pc = "listMachines", ShouldAttach, ip.holder # NoId,
           NEW t, Ready # {} => t # NoId,
           NEW m \in Machines, fip.holder # NoId, fip.holder = instanceId[m]
    PROVE  life[m] = "deleting" /\ t # NoId
<1>1. IdsAreOwned /\ MachinesAreOrdered /\ HoldersAreKnown /\ IpIsCurrent
  BY DEF AttachmentInv
<1>2. fip.holder \in InstanceIds /\ fip.holder = ip.holder
  BY <1>1 DEF IpIsCurrent, TypeOK, MachineTypeOK
<1>3. machineCache[m].providerID = ip.holder
  BY <1>1, <1>2 DEF HoldersAreKnown, Known
<1>4. machineCache[m].life # "gone" /\ m \in Holders
  BY <1>1, <1>3 DEF MachinesAreOrdered, Holders
<1>5. PICK h \in Holders : Ready # {} /\ machineCache[h].life = "deleting"
  BY <1>4 DEF ShouldAttach
<1>6. h = m
  BY <1>1, <1>3, <1>5, OneOwner DEF Holders
<1>7. life[m] # "live" /\ life[m] # "gone"
  BY <1>1, <1>2, <1>3, <1>5, <1>6 DEF MachinesAreOrdered
<1> QED
  BY <1>5, <1>7 DEF TypeOK, MachineTypeOK

\* The provider id of a machine that the cache has is known.
LEMMA ReadyIsKnown ==
    ASSUME IdsAreOwned, NEW m \in Ready
    PROVE  Known(machineCache[m].providerID)
<1>1. m \in Machines /\ machineCache[m].providerID # NoId
  BY DEF Ready
<1>2. machineCache[m].providerID \in used
  BY <1>1, OneOwner
<1>3. ASSUME NEW x \in Machines, instanceId[x] = machineCache[m].providerID
      PROVE  machineCache[x].providerID = machineCache[m].providerID
  BY <1>1, <1>3, OneOwner
<1> QED
  BY <1>2, <1>3 DEF Known

\* Calls.
LEMMA CallAttachment ==
    ASSUME ClusterInv, AttachmentInv, CallStep
    PROVE  AttachmentInv'
<1>1. /\ IdsAreOwned /\ InstancesAreKept /\ MachinesAreOrdered /\ HoldersAreKnown /\ IpIsCurrent
      /\ MovesOnlyFromDeleted /\ TypeOK
  BY DEF AttachmentInv, ClusterInv
<1>2. MachinesSame
  BY CallFrame DEF MachinesSame, machineVars, objectVars, resourceVars, cacheVars
<1>3. /\ IdsAreOwned' /\ InstancesAreKept' /\ MachinesAreOrdered'
      /\ \A id : Known(id) <=> Known(id)'
  BY <1>1, <1>2, SameMachines
<1>4. /\ fip \in FloatingIp /\ ip \in FloatingIp /\ fip.holder \in InstanceIds \cup {NoId, Stranger}
      /\ target \in InstanceIds \cup {NoId}
  BY <1>1 DEF TypeOK, FloatingIp
<1>5. ASSUME ip' = NoFloatingIp, target' = NoId, pc' = "patchConditions",
             fip' = fip \/ fip'.holder = NoId \/ (fip'.holder = target /\ target # NoId)
      PROVE  AttachmentInv'
  <2>1. fip'.holder \in InstanceIds => Known(fip'.holder)
    BY <1>1, <1>5 DEF HoldersAreKnown
  <2>2. HoldersAreKnown'
    BY <1>3, <1>5, <2>1, NoIpFacts DEF HoldersAreKnown
  <2> QED
    BY <1>3, <1>5, <2>2 DEF AttachmentInv, IpIsCurrent, MovesOnlyFromDeleted
<1>6. ASSUME NEW o, NEW r, Return(o, r),
             fip' = fip \/ fip'.holder = NoId \/ (fip'.holder = target /\ target # NoId)
      PROVE  AttachmentInv'
  BY <1>5, <1>6 DEF Return
<1>7. ASSUME Provisioned(fip'), fip' = fip \/ fip'.holder = NoId PROVE AttachmentInv'
  <2>1. pc' = "listMachines" /\ ip' = fip' /\ target' = target
    BY <1>7 DEF Provisioned
  <2>2. fip'.holder \in InstanceIds => Known(fip'.holder)
    BY <1>1, <1>7 DEF HoldersAreKnown
  <2>3. HoldersAreKnown'
    BY <1>1, <1>2, <2>1, <2>2 DEF HoldersAreKnown, Known, MachinesSame
  <2> QED
    BY <1>3, <2>1, <2>3 DEF AttachmentInv, IpIsCurrent, MovesOnlyFromDeleted
<1>8. CASE CallFails
  BY <1>6, <1>8 DEF CallFails
<1>9. CASE EnsureFloatingIpView
  <2>1. CASE pc' = "createIp" /\ UNCHANGED <<ip, target, fip>>
    <3>1. HoldersAreKnown'
      BY <1>1, <1>2, <2>1 DEF HoldersAreKnown, Known, MachinesSame
    <3> QED
      BY <1>3, <2>1, <3>1 DEF AttachmentInv, IpIsCurrent, MovesOnlyFromDeleted
  <2> QED
    BY <1>7, <1>9, <2>1 DEF EnsureFloatingIpView
<1>10. CASE EnsureFloatingIpCreate
  BY <1>1, <1>6, <1>7, <1>10, CreateOutcome
<1>11. CASE EnsureFloatingIpDeleted
  BY <1>6, <1>11, NoIpFacts DEF EnsureFloatingIpDeleted, RemoveFinalizer, DeletionRefused
<1>12. CASE ListMachines
  <2>1. CASE Place
    <3>1. PICK t \in InstanceIds \cup {NoId} :
             /\ IF Ready = {} THEN t = NoId
                ELSE t # NoId /\ \E m \in Ready : machineCache[m].providerID = t
             /\ \/ /\ ShouldAttach /\ ip.holder # NoId
                   /\ pc' = "detachIp" /\ target' = t /\ UNCHANGED <<seen, obj, ip, again>>
                \/ /\ ShouldAttach /\ ip.holder = NoId /\ t # NoId
                   /\ pc' = "attachIp" /\ target' = t /\ UNCHANGED <<seen, obj, ip, again>>
                \/ /\ ~ShouldAttach \/ (ip.holder = NoId /\ t = NoId)
                   /\ Return(Attached(ip), FALSE)
      BY <1>1, <2>1, PlaceOutcome
    <3>2. t # NoId => Known(t)
      BY <1>1, <3>1, ReadyIsKnown
    <3>3. fip' = fip /\ pc = "listMachines"
      BY <1>12 DEF ListMachines
    <3>4. CASE target' = t /\ ip' = ip /\ pc' \in {"detachIp", "attachIp"} /\ ShouldAttach
               /\ (IF pc' = "attachIp" THEN ip.holder = NoId /\ t # NoId ELSE ip.holder # NoId)
      <4>1. HoldersAreKnown'
        BY <1>1, <1>2, <3>2, <3>3, <3>4 DEF HoldersAreKnown, Known, MachinesSame
      <4>2. IpIsCurrent'
        BY <1>1, <1>2, <3>3, <3>4 DEF IpIsCurrent, MachinesSame
      <4>3. MovesOnlyFromDeleted'
        <5>1. ASSUME pc' = "detachIp", NEW m \in Machines, fip.holder # NoId, fip.holder = instanceId[m]
              PROVE  life[m] = "deleting" /\ t # NoId
          BY <1>1, <3>1, <3>3, <3>4, <5>1, PlaceMoves
        <5> QED
          BY <1>2, <3>3, <3>4, <5>1 DEF MovesOnlyFromDeleted, MachinesSame
      <4> QED
        BY <1>3, <4>1, <4>2, <4>3 DEF AttachmentInv
    <3> QED
      BY <1>6, <3>1, <3>3, <3>4
  <2> QED
    BY <1>6, <1>12, <2>1 DEF ListMachines
<1>13. CASE DetachFloatingIp
  <2>1. CASE /\ pc' = "attachIp" /\ ip' = Detached /\ target' = target /\ target # NoId
             /\ fip' = Detached
    <3>1. HoldersAreKnown'
      BY <1>1, <1>3, <1>4, <2>1, DetachedFacts DEF HoldersAreKnown, Known
    <3>2. IpIsCurrent' /\ MovesOnlyFromDeleted'
      BY <1>4, <2>1, DetachedFacts DEF IpIsCurrent, MovesOnlyFromDeleted
    <3> QED
      BY <1>3, <3>1, <3>2 DEF AttachmentInv
  <2>2. fip' = fip \/ fip'.holder = NoId
    BY <1>4, <1>13, DetachedFacts DEF DetachFloatingIp
  <2> QED
    BY <1>6, <1>13, <2>1, <2>2 DEF DetachFloatingIp
<1>14. CASE AttachFloatingIp
  <2>1. fip' = fip \/ (fip'.holder = target /\ target # NoId)
    BY <1>1, <1>4, <1>14 DEF AttachFloatingIp, IpIsCurrent, FloatingIp
  <2> QED
    BY <1>6, <1>14, <2>1 DEF AttachFloatingIp
<1> QED
  BY <1>8, <1>9, <1>10, <1>11, <1>12, <1>13, <1>14 DEF CallStep

\* All steps.
LEMMA StepAttachment ==
    ASSUME ClusterInv, AttachmentInv, Next
    PROVE  AttachmentInv'
<1>1. /\ IdsAreOwned /\ InstancesAreKept /\ MachinesAreOrdered /\ HoldersAreKnown /\ IpIsCurrent
      /\ MovesOnlyFromDeleted /\ TypeOK
  BY DEF AttachmentInv, ClusterInv
<1>2. ASSUME MachinesSame, fip'.holder = fip.holder,
             \/ UNCHANGED <<pc, ip, target>>
             \/ /\ pc' \notin {"listMachines", "detachIp", "attachIp"}
                /\ UNCHANGED <<ip, target>> \/ (ip' = NoFloatingIp /\ target' = NoId)
      PROVE  AttachmentInv'
  <2>1. IpIsCurrent' /\ MovesOnlyFromDeleted'
    BY <1>1, <1>2 DEF IpIsCurrent, MovesOnlyFromDeleted, MachinesSame
  <2>2. HoldersAreKnown'
    BY <1>1, <1>2, SameMachines, NoIpFacts DEF HoldersAreKnown, Known, MachinesSame
  <2> QED
    BY <1>1, <1>2, <2>1, <2>2, SameMachines DEF AttachmentInv
<1>3. ASSUME UNCHANGED machineVars, Delivers, fip' = fip,
             \/ UNCHANGED <<pc, ip, target>>
             \/ pc' = "idle" /\ ip' = NoFloatingIp /\ target' = NoId
      PROVE  AttachmentInv'
  <2>1. UNCHANGED <<life, instanceId, used>>
    BY <1>3 DEF machineVars, objectVars, resourceVars
  <2>2. IpIsCurrent' /\ MovesOnlyFromDeleted'
    BY <1>1, <1>3, <2>1 DEF IpIsCurrent, MovesOnlyFromDeleted
  <2>3. ASSUME NEW id, Known(id)
        PROVE  id \in used' /\ \A x \in Machines : instanceId'[x] = id => machineCache'[x].providerID = id
    BY <1>1, <1>3, <2>3, CacheKnown DEF Known
  <2>4. HoldersAreKnown'
    BY <1>1, <1>3, <2>1, <2>3, NoIpFacts DEF HoldersAreKnown, Known
  <2> QED
    BY <1>1, <1>3, <2>2, <2>4, CacheOwned DEF AttachmentInv
<1>4. CASE CallStep
  BY <1>4, CallAttachment
<1>5. CASE PatchOxideCluster
  BY <1>2, <1>5, PatchOutcome DEF Patches, MachinesSame, machineVars, objectVars, resourceVars
<1>6. CASE Reconcile
  BY <1>2, <1>6 DEF Reconcile, MachinesSame, machineVars, objectVars, resourceVars, cacheVars
<1>7. CASE Restart
  <2>1. Delivers
    BY <1>7 DEF Restart, Delivers
  <2> QED
    BY <1>3, <1>7, <2>1 DEF Restart, Free
<1>8. ASSUME NEW m \in Machines, SyncMachine(m) PROVE AttachmentInv'
  <2>1. Delivers
    BY <1>1, <1>8 DEF SyncMachine, Delivers, TypeOK
  <2> QED
    BY <1>3, <1>8, <2>1 DEF SyncMachine, workerVars
<1>9. ASSUME NEW m \in Machines, StepMachine(m) PROVE AttachmentInv'
  BY <1>1, <1>9, MachineAttachment DEF StepMachine, workerVars, cacheVars
<1>10. ASSUME NEW m \in Machines, DeleteMachine(m) PROVE AttachmentInv'
  <2>1. ~LosesInstance(m)
    BY <1>1, <1>10 DEF DeleteMachine, RequestDelete, Disappear, LosesInstance, resourceVars
  <2> QED
    BY <1>1, <1>10, <2>1, MachineAttachment DEF DeleteMachine, workerVars, cacheVars
<1>11. CASE \/ ReconcileSkip \/ EnsurePausedCondition \/ SyncCluster \/ Settle
            \/ SetOwner \/ TogglePause \/ DeleteOwner \/ DeleteCluster
  <2>1. UNCHANGED <<machineVars, machineCache, fip, pc, ip, target>>
    BY <1>11 DEF ReconcileSkip, EnsurePausedCondition, SyncCluster, Settle, SetOwner, TogglePause,
                 DeleteOwner, DeleteCluster, cacheVars, workerVars
  <2> QED
    BY <1>2, <2>1 DEF MachinesSame, machineVars, objectVars, resourceVars
<1>12. CASE LandCreate
  <2>1. UNCHANGED <<machineVars, machineCache, pc, ip, target>> /\ fip'.holder = fip.holder
    BY <1>1, <1>12, LandOutcome, NoIpFacts DEF cacheVars, workerVars
  <2> QED
    BY <1>2, <2>1 DEF MachinesSame, machineVars, objectVars, resourceVars
<1> QED
  BY <1>4, <1>5, <1>6, <1>7, <1>8, <1>9, <1>10, <1>11, <1>12, StepKinds DEF Elsewhere, UserStep

\* At the start there are no ids.
LEMMA InitAttachment == Init => AttachmentInv
<1> SUFFICES ASSUME Init PROVE AttachmentInv
  OBVIOUS
<1>1. MachineTypeOK
  BY InitTypes, TypeParts
<1>2. ASSUME NEW m \in Machines
      PROVE  /\ life[m] = "live" /\ providerID[m] = NoId /\ instanceId[m] = NoId
             /\ machineCache[m].life = "live" /\ machineCache[m].providerID = NoId
             /\ ~machineCache[m].provisioned
  BY <1>1, CurrentFacts DEF Init, MachineInit
<1>3. /\ fip.holder \notin InstanceIds /\ target = NoId /\ ip.holder \notin InstanceIds /\ pc = "idle"
  BY NoIpFacts DEF Init
<1> QED
  BY <1>2, <1>3 DEF AttachmentInv, IdsAreOwned, Knows, InstancesAreKept, MachinesAreOrdered,
                    HoldersAreKnown, IpIsCurrent, MovesOnlyFromDeleted

LEMMA StutterAttachment == ASSUME AttachmentInv, UNCHANGED vars PROVE AttachmentInv'
<1>1. MachinesSame /\ UNCHANGED <<fip, ip, target, pc>>
  BY DEF vars, machineVars, objectVars, resourceVars, cacheVars, workerVars, MachinesSame
<1>2. HoldersAreKnown'
  BY <1>1 DEF AttachmentInv, HoldersAreKnown, Known, MachinesSame
<1>3. IpIsCurrent' /\ MovesOnlyFromDeleted'
  BY <1>1 DEF AttachmentInv, IpIsCurrent, MovesOnlyFromDeleted, MachinesSame
<1> QED
  BY <1>1, <1>2, <1>3, SameMachines DEF AttachmentInv

(***************************************************************************)
(* reconcileFloatingIPAttachment works on what the cache and an earlier    *)
(* call told.  Both may be behind, but whose instance has the IP the cache *)
(* has known since before it was attached, and the IP that was read is     *)
(* still where it was unless its instance is gone.                         *)
(***************************************************************************)
THEOREM Attachment == Spec => [](ClusterInv /\ AttachmentInv)
<1>1. ClusterInv /\ AttachmentInv /\ [Next]_vars => AttachmentInv'
  BY StepAttachment, StutterAttachment
<1> QED
  BY <1>1, InitAttachment, Versions, PTL DEF Spec

(***************************************************************************)
(* reconcileFloatingIPAttachment, with a cache that is behind and an IP    *)
(* that was read earlier: it takes the IP from one of the machines only    *)
(* when that one is being deleted and another can have it.                 *)
(***************************************************************************)
THEOREM MovesAreDue == Spec => []MovesOnlyFromDeleted
BY Attachment, PTL DEF AttachmentInv
==============================================================================
