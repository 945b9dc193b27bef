--------------------------- MODULE MachineLifecycle ---------------------------
(***************************************************************************)
(* What the OxideMachine controller promises to everyone else: the life of *)
(* an OxideMachine object and of the Oxide resources that stand behind it, *)
(* without caches, queues, retries or faults.  Whoever watches the objects *)
(* and the Oxide project, the OxideCluster controller first of all, may    *)
(* rely on the steps below and on no others.                               *)
(***************************************************************************)
CONSTANTS
    Machines,     \* OxideMachine objects
    InstanceIds,  \* ids of Oxide instances
    NoId          \* no provider id; no instance

VARIABLES
    life,         \* each object is live, being deleted, or gone
    providerID,   \* its Spec.ProviderID
    provisioned,  \* its Status.Initialization.Provisioned
    instanceId,   \* the id of the instance that has the machine's name
    disk,         \* machines whose boot disk exists
    used          \* instance ids that were handed out

objectVars == <<life, providerID, provisioned>>
resourceVars == <<instanceId, disk, used>>
machineVars == <<objectVars, resourceVars>>

MachineTypeOK ==
    /\ life \in [Machines -> {"live", "deleting", "gone"}]
    /\ providerID \in [Machines -> InstanceIds \cup {NoId}]
    /\ provisioned \in [Machines -> BOOLEAN]
    /\ instanceId \in [Machines -> InstanceIds \cup {NoId}]
    /\ disk \subseteq Machines
    /\ used \subseteq InstanceIds

MachineInit ==
    /\ life = [m \in Machines |-> "live"]
    /\ providerID = [m \in Machines |-> NoId]
    /\ provisioned = [m \in Machines |-> FALSE]
    /\ instanceId = [m \in Machines |-> NoId]
    /\ disk = {}
    /\ used = {}

\* At most one instance is made while the object has no provider id, and none after
\* that.  The object may be deleted meanwhile, or be gone already: Oxide gets its
\* instance before the object gets its finalizer.
CreateInstance(m) ==
    /\ providerID[m] = NoId /\ instanceId[m] = NoId /\ m \notin disk
    /\ \E id \in InstanceIds \ used :
         /\ instanceId' = [instanceId EXCEPT ![m] = id]
         /\ used' = used \cup {id}
    /\ disk' = disk \cup {m}
    /\ UNCHANGED objectVars

\* The provider id is that of the existing instance, and is set once.
RecordProviderID(m) ==
    /\ life[m] # "gone" /\ providerID[m] = NoId /\ instanceId[m] # NoId
    /\ providerID' = [providerID EXCEPT ![m] = instanceId[m]]
    /\ UNCHANGED <<life, provisioned, resourceVars>>

\* Provisioned may be stored without the provider id when a patch fails in part.
Provision(m) ==
    /\ life[m] # "gone" /\ instanceId[m] # NoId
    /\ provisioned' = [provisioned EXCEPT ![m] = TRUE]
    /\ UNCHANGED <<life, providerID, resourceVars>>

\* The object disappears; nothing is left to be read of it.
Disappear(m) ==
    /\ life' = [life EXCEPT ![m] = "gone"]
    /\ providerID' = [providerID EXCEPT ![m] = NoId]
    /\ provisioned' = [provisioned EXCEPT ![m] = FALSE]
    /\ UNCHANGED resourceVars

\* Only an object without a provider id may be without a finalizer.
RequestDelete(m) ==
    /\ life[m] = "live"
    /\ \/ /\ life' = [life EXCEPT ![m] = "deleting"]
          /\ UNCHANGED <<providerID, provisioned, resourceVars>>
       \/ providerID[m] = NoId /\ Disappear(m)

\* Resources go only after the deletion was asked for, and before the object does.
DestroyInstance(m) ==
    /\ life[m] = "deleting" /\ instanceId[m] # NoId
    /\ instanceId' = [instanceId EXCEPT ![m] = NoId]
    /\ UNCHANGED <<objectVars, disk, used>>

DestroyDisk(m) ==
    /\ life[m] = "deleting" /\ instanceId[m] = NoId
    /\ disk' = disk \ {m}
    /\ UNCHANGED <<objectVars, instanceId, used>>

Release(m) ==
    /\ life[m] = "deleting" /\ instanceId[m] = NoId /\ m \notin disk
    /\ Disappear(m)

ControllerStep(m) ==
    \/ CreateInstance(m) \/ RecordProviderID(m) \/ Provision(m)
    \/ DestroyInstance(m) \/ DestroyDisk(m) \/ Release(m)

MachineNext == \E m \in Machines : ControllerStep(m) \/ RequestDelete(m)

MachineSpec == MachineInit /\ [][MachineNext]_machineVars
==============================================================================
