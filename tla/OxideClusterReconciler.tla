------------------------ MODULE OxideClusterReconciler ------------------------
(***************************************************************************)
(* The OxideCluster controller: it gives a cluster its control plane       *)
(* endpoint, a floating IP of the Oxide project, and keeps that IP         *)
(* attached to the instance of a control plane machine.  One worker takes  *)
(* the cluster's key from the workqueue, makes one cloud call per step,    *)
(* and sends what it changed in memory back to the API server when         *)
(* Reconcile returns.                                                      *)
(*                                                                         *)
(* The control plane's OxideMachines live as MachineLifecycle says, which  *)
(* is what the OxideMachine controller implements; this controller sees    *)
(* them through the informer's cache.  Faults stop when quiet becomes      *)
(* TRUE.                                                                   *)
(*                                                                         *)
(* A definition marked "altered" is not part of the specification: it is a *)
(* plausible mistake in the one after it, and takes its place when the     *)
(* properties are tested against the mistake.                              *)
(***************************************************************************)
EXTENDS MachineLifecycle

CONSTANTS
    Addresses,   \* addresses of the IP pools
    NoAddress,   \* no address
    Stranger,    \* an instance that belongs to none of the machines
    Unparsable,  \* further machines in the list, with provider ids that do not parse
    Faults       \* the kinds of faults that may happen

ASSUME NoIdAssumption == NoId \notin InstanceIds
ASSUME NoAddressAssumption == NoAddress \notin Addresses
ASSUME StrangerAssumption == Stranger \notin InstanceIds \cup {NoId}

\* call: a call fails or its reply is lost; slow: a creation may be carried out after
\* its call timed out; restart: the manager stops and starts; pause: the Cluster is
\* paused and unpaused; leftover: a floating IP of this name is there from before;
\* host: the user asks for an address.
FaultKinds == {"call", "slow", "restart", "pause", "leftover", "host"}
ASSUME FaultsAssumption == Faults \subseteq FaultKinds

\* A user wrote the provider id, of a machine that is provisioned or is not.
ASSUME UnparsableAssumption == Unparsable \subseteq {"provisioned", "unprovisioned"}

Conditions == {"unset", "false", "true"}
Hosts == Addresses \cup {NoAddress}

\* An OxideCluster as far as its reconciler reads or writes it.  The default port is
\* stored with the host, and nobody reads Ready, which is set with provisioned.
Cluster == [life: {"live", "deleting", "gone"},
            owned: BOOLEAN,         \* it has an owner Cluster
            paused: Conditions,     \* the Paused condition
            finalizer: BOOLEAN,     \* it has the ClusterFinalizer
            host: Hosts,            \* Spec.ControlPlaneEndpoint.Host
            provisioned: BOOLEAN,   \* Status.Initialization.Provisioned
            attached: Conditions]   \* the FloatingIPAttached condition

NewCluster(host) == [life |-> "live", owned |-> FALSE, paused |-> "unset", finalizer |-> FALSE,
                     host |-> host, provisioned |-> FALSE, attached |-> "unset"]
ClusterTombstone == [NewCluster(NoAddress) EXCEPT !.life = "gone"]

\* An OxideMachine as far as this reconciler reads it.
Machine == [life: {"live", "deleting", "gone"},
            providerID: InstanceIds \cup {NoId},
            provisioned: BOOLEAN]

\* The floating IP: its address, and the instance it is attached to.
FloatingIp == [address: Hosts, holder: InstanceIds \cup {NoId, Stranger}]
NoFloatingIp == [address |-> NoAddress, holder |-> NoId]

CloudCalls == {"viewIp", "createIp", "detachIp", "attachIp", "deleteIp"}
Patches == {"patchConditions", "patchSpec", "patchStatus"}

VARIABLES
    cluster,       \* the OxideCluster the API server stores
    cache,         \* the same object as the informer last delivered it
    machineCache,  \* the OxideMachines as the informer last delivered them
    ownerPaused,   \* the owner Cluster is paused
    ownerDeleted,  \* the owner Cluster has a deletion timestamp
    queued,        \* the cluster's key is in the workqueue
    pc,            \* what the worker does next
    seen,          \* the object as it was when the patch helper was made
    obj,           \* the object as Reconcile has changed it in memory
    ip,            \* the floating IP as the last call returned it
    target,        \* the id of the instance it is to be attached to
    again,         \* Reconcile is to return an error
    fip,           \* the floating IP that has the cluster's name
    late,          \* the addresses asked for by creations that timed out
    quiet          \* no more faults

apiVars == <<cluster, ownerPaused, ownerDeleted>>
cacheVars == <<cache, machineCache>>
workerVars == <<pc, seen, obj, ip, target, again>>
vars == <<machineVars, apiVars, cacheVars, queued, workerVars, fip, late, quiet>>

Current(m) == [life |-> life[m], providerID |-> providerID[m], provisioned |-> provisioned[m]]

TypeOK ==
    /\ MachineTypeOK
    /\ cluster \in Cluster /\ cache \in Cluster
    /\ machineCache \in [Machines -> Machine]
    /\ ownerPaused \in BOOLEAN /\ ownerDeleted \in BOOLEAN /\ queued \in BOOLEAN
    /\ pc \in CloudCalls \cup Patches \cup {"listMachines", "idle"}
    /\ seen \in Cluster /\ obj \in Cluster
    /\ (seen.life = "gone") <=> (pc = "idle")
    /\ ip \in FloatingIp /\ fip \in FloatingIp
    /\ target \in InstanceIds \cup {NoId}
    /\ again \in BOOLEAN /\ quiet \in BOOLEAN
    /\ late \subseteq Hosts

\* The user may have asked for an address, and a floating IP of the cluster's name
\* may be left over, attached or not.
Init ==
    /\ MachineInit
    /\ cluster \in {NewCluster(h) : h \in IF "host" \in Faults THEN Hosts ELSE {NoAddress}}
    /\ cache = cluster
    /\ machineCache = [m \in Machines |-> Current(m)]
    /\ ownerPaused \in BOOLEAN /\ (ownerPaused => "pause" \in Faults)
    /\ ownerDeleted = FALSE
    /\ queued = TRUE
    /\ pc = "idle"
    /\ seen = ClusterTombstone /\ obj = ClusterTombstone
    /\ ip = NoFloatingIp
    /\ target = NoId
    /\ again = FALSE
    /\ fip \in {NoFloatingIp} \cup
              IF "leftover" \in Faults
              THEN [address: Addresses, holder: {NoId, Stranger}] ELSE {}
    /\ late = {}
    /\ quiet = FALSE

Fault(kind) == ~quiet /\ kind \in Faults

-----------------------------------------------------------------------------
(***************************************************************************)
(* The start of Reconcile.                                                 *)
(***************************************************************************)

Take == pc = "idle" /\ queued

\* The object is gone or has no owner Cluster yet: nothing to do.
ReconcileSkip ==
    /\ Take
    /\ cache.life = "gone" \/ ~cache.owned
    /\ queued' = FALSE
    /\ UNCHANGED <<machineVars, apiVars, cacheVars, workerVars, fip, late, quiet>>

PausedStatus == IF ownerPaused THEN "true" ELSE "false"

\* EnsurePausedCondition returns early when the cluster is paused, and also when it
\* had to change the condition: the event of its own patch brings the key back.
EnsurePausedCondition ==
    /\ Take
    /\ cache.life # "gone" /\ cache.owned
    /\ \/ /\ cache.paused = PausedStatus
          /\ ownerPaused
          /\ UNCHANGED cluster
          /\ queued' = FALSE
       \/ /\ cache.paused # PausedStatus
          /\ cluster.life # "gone"
          /\ cluster' = [cluster EXCEPT !.paused = PausedStatus]
          /\ queued' = FALSE \/ (Fault("call") /\ queued' = TRUE)
    /\ UNCHANGED <<machineVars, ownerPaused, ownerDeleted, cacheVars, workerVars, fip, late, quiet>>

\* Altered: the floating IP goes when the owner's deletion begins.
BeingDeletedWithOwner == cache.life = "deleting" \/ ownerDeleted
\* Altered: the owner's deletion is looked at first.
BeingDeletedUnlessOwner == cache.life = "deleting" /\ ~ownerDeleted
\* The cached object has a deletion timestamp.
BeingDeleted == cache.life = "deleting"

\* Past the paused check the deferred patch is armed with what the cache holds.  The
\* credentials may be unreadable; an object that is being deleted gives up its
\* floating IP; one whose owner is being deleted is left alone; any other gets the
\* finalizer, in memory.
Reconcile ==
    /\ Take
    /\ cache.life # "gone" /\ cache.owned
    /\ ~ownerPaused /\ cache.paused = "false"
    /\ queued' = FALSE
    /\ seen' = cache
    /\ \/ /\ BeingDeleted
          /\ pc' = "deleteIp" /\ obj' = cache /\ again' = FALSE
       \/ /\ ~BeingDeleted /\ ownerDeleted
          /\ pc' = "patchConditions" /\ obj' = cache /\ again' = FALSE
       \/ /\ ~BeingDeleted /\ ~ownerDeleted
          /\ pc' = "viewIp" /\ obj' = [cache EXCEPT !.finalizer = TRUE] /\ again' = FALSE
       \/ /\ Fault("call")
          /\ pc' = "patchConditions" /\ obj' = cache /\ again' = TRUE
    /\ UNCHANGED <<machineVars, apiVars, cacheVars, ip, target, fip, late, quiet>>

\* Reconcile is about to return: o goes to the API server.
Return(o, retry) ==
    /\ pc' = "patchConditions"
    /\ obj' = o
    /\ again' = retry
    /\ ip' = NoFloatingIp /\ target' = NoId
    /\ UNCHANGED seen

\* A cloud call that has no effect and returns an error.
CallFails ==
    /\ Fault("call")
    /\ pc \in CloudCalls
    /\ Return(obj, TRUE)
    /\ UNCHANGED <<machineVars, apiVars, cacheVars, queued, fip, late, quiet>>

-----------------------------------------------------------------------------
(***************************************************************************)
(* ensureFloatingIPExists and ensureFloatingIPDeleted.                     *)
(***************************************************************************)

\* With floating IP i in hand the endpoint is known and the cluster provisioned.
Provisioned(i) ==
    /\ pc' = "listMachines"
    /\ ip' = i
    /\ obj' = [obj EXCEPT !.host = i.address, !.provisioned = TRUE]
    /\ UNCHANGED <<seen, target, again>>

EnsureFloatingIpView ==
    /\ pc = "viewIp"
    /\ \/ fip # NoFloatingIp /\ Provisioned(fip)
       \/ /\ fip = NoFloatingIp
          /\ pc' = "createIp"
          /\ UNCHANGED <<seen, obj, ip, target, again>>
    /\ UNCHANGED <<machineVars, apiVars, cacheVars, queued, fip, late, quiet>>

\* Altered: the endpoint is ignored.
AllocatesAny(host) == Addresses
\* floatingIPAllocator: the address that the endpoint names, or any.
Allocates(host) == IF host # NoAddress THEN {host} ELSE Addresses

\* FloatingIpCreate: carried out, refused because the name is taken, or still under way
\* when the client gives up after its timeout or, with a Restart to follow, crashes.
EnsureFloatingIpCreate ==
    /\ pc = "createIp"
    /\ \/ /\ fip = NoFloatingIp
          /\ fip' \in [address: Allocates(obj.host), holder: {NoId}]
          /\ Provisioned(fip') \/ (Fault("call") /\ Return(obj, TRUE))
          /\ UNCHANGED late
       \/ /\ fip # NoFloatingIp
          /\ Return(obj, TRUE)
          /\ UNCHANGED <<fip, late>>
       \/ /\ Fault("slow")
          /\ late' = late \cup {obj.host}
          /\ Return(obj, TRUE)
          /\ UNCHANGED fip
    /\ UNCHANGED <<machineVars, apiVars, cacheVars, queued, quiet>>

RemoveFinalizer == Return([obj EXCEPT !.finalizer = FALSE], FALSE)

\* Altered: an IP that cannot be deleted is left behind.
DeletionRefusedIsFine == RemoveFinalizer
\* Any error but "not found" is returned.
DeletionRefused == Return(obj, TRUE)

\* FloatingIpDelete: carried out, found to be done, or refused while the IP is attached.
EnsureFloatingIpDeleted ==
    /\ pc = "deleteIp"
    /\ \/ /\ fip' = NoFloatingIp
          /\ RemoveFinalizer \/ (Fault("call") /\ Return(obj, TRUE))
       \/ /\ fip.holder # NoId
          /\ DeletionRefused
          /\ UNCHANGED fip
    /\ UNCHANGED <<machineVars, apiVars, cacheVars, queued, late, quiet>>

-----------------------------------------------------------------------------
(***************************************************************************)
(* reconcileFloatingIPAttachment.                                          *)
(***************************************************************************)

\* The machines that may be given the IP.
Ready == {m \in Machines : /\ machineCache[m].life = "live"
                           /\ machineCache[m].providerID # NoId
                           /\ machineCache[m].provisioned}

\* Altered: a machine that is being deleted does not count as the holder.
LiveHolders == {m \in Machines : /\ machineCache[m].life = "live"
                                 /\ machineCache[m].providerID = ip.holder}
\* The machine whose instance the IP is attached to.
Holders == {m \in Machines : /\ machineCache[m].life # "gone"
                             /\ machineCache[m].providerID = ip.holder}

\* Altered: an IP that is attached to some other instance is left there.
ShouldAttachFree ==
    \/ ip.holder = NoId
    \/ Ready # {} /\ \E m \in Holders : machineCache[m].life = "deleting"
\* An IP that is attached moves when its holder is not one of the machines, or is
\* being deleted while there is another to move to.
ShouldAttach ==
    \/ ip.holder = NoId
    \/ Holders = {}
    \/ Ready # {} /\ \E m \in Holders : machineCache[m].life = "deleting"

\* The FloatingIPAttached condition, given the IP as it was last returned.
Attached(i) == [obj EXCEPT !.attached = IF i.holder # NoId THEN "true" ELSE "false"]

\* InstanceIDFromProviderID fails, and with it the reconcile, at a machine of unparsed
\* that comes before the first candidate, or before the holder if there is one.
ParseMayFail(unparsed) ==
    "provisioned" \in unparsed \/ (unparsed # {} /\ ip.holder # NoId)
ParseMustFail(unparsed) ==
    \/ "provisioned" \in unparsed /\ Ready = {}
    \/ unparsed # {} /\ ip.holder # NoId /\ Holders = {}

\* The list comes from the cache, in no particular order: the first candidate is any.
Place ==
    \E t \in IF Ready = {} THEN {NoId} ELSE {machineCache[m].providerID : m \in Ready} :
        \/ /\ ShouldAttach /\ ip.holder # NoId
           /\ pc' = "detachIp" /\ target' = t
           /\ UNCHANGED <<seen, obj, ip, again>>
        \/ /\ ShouldAttach /\ ip.holder = NoId /\ t # NoId
           /\ pc' = "attachIp" /\ target' = t
           /\ UNCHANGED <<seen, obj, ip, again>>
        \/ /\ ~ShouldAttach \/ (ip.holder = NoId /\ t = NoId)
           /\ Return(Attached(ip), FALSE)

ListMachines ==
    /\ pc = "listMachines"
    /\ \E unparsed \in SUBSET Unparsable :
         \/ ~ParseMustFail(unparsed) /\ Place
         \/ ParseMayFail(unparsed) /\ Return(obj, TRUE)
    /\ UNCHANGED <<machineVars, apiVars, cacheVars, queued, fip, late, quiet>>

Detached == [fip EXCEPT !.holder = NoId]

\* FloatingIpDetach: refused when the IP is not attached any more.
DetachFloatingIp ==
    /\ pc = "detachIp"
    /\ \/ /\ fip.holder # NoId
          /\ fip' = Detached
          /\ \/ /\ target # NoId
                /\ pc' = "attachIp" /\ ip' = Detached
                /\ UNCHANGED <<seen, obj, target, again>>
             \/ target = NoId /\ Return(Attached(Detached), FALSE)
             \/ Fault("call") /\ Return(obj, TRUE)
       \/ /\ fip.holder = NoId
          /\ Return(obj, TRUE)
          /\ UNCHANGED fip
    /\ UNCHANGED <<machineVars, apiVars, cacheVars, queued, late, quiet>>

\* FloatingIpAttach: refused when the IP is attached, or the instance does not exist.
AttachFloatingIp ==
    /\ pc = "attachIp"
    /\ \/ /\ fip.holder = NoId /\ \E m \in Machines : instanceId[m] = target
          /\ fip' = [fip EXCEPT !.holder = target]
          /\ Return(Attached(fip'), FALSE) \/ (Fault("call") /\ Return(obj, TRUE))
       \/ /\ fip.holder # NoId \/ \A m \in Machines : instanceId[m] # target
          /\ Return(obj, TRUE)
          /\ UNCHANGED fip
    /\ UNCHANGED <<machineVars, apiVars, cacheVars, queued, late, quiet>>

-----------------------------------------------------------------------------
(***************************************************************************)
(* The deferred patch: merge patches of the fields that differ between     *)
(* seen and obj, one each for the conditions, metadata and spec, and the   *)
(* status.  The conditions only go to the version that the cache holds.    *)
(***************************************************************************)

\* A field is sent only if Reconcile changed it.
MergeField(before, after, stored) == IF after # before THEN after ELSE stored

\* Object c after the fields of part were merged into it.
Merge(part, c) ==
    CASE part = "patchConditions" ->
           [c EXCEPT !.attached = MergeField(seen.attached, obj.attached, @)]
      [] part = "patchSpec" ->
           IF seen.finalizer /\ ~obj.finalizer /\ c.life = "deleting"
           THEN ClusterTombstone
           ELSE [c EXCEPT
                   !.finalizer = MergeField(seen.finalizer, obj.finalizer, @),
                   !.host = MergeField(seen.host, obj.host, @)]
      [] part = "patchStatus" ->
           [c EXCEPT !.provisioned = MergeField(seen.provisioned, obj.provisioned, @)]

NothingToMerge(part) ==
    CASE part = "patchConditions" -> obj.attached = seen.attached
      [] part = "patchSpec" -> obj.finalizer = seen.finalizer /\ obj.host = seen.host
      [] part = "patchStatus" -> obj.provisioned = seen.provisioned

\* Altered: what the worker knew survives the reconcile.
FreeKeepsObject ==
    /\ pc' = "idle"
    /\ UNCHANGED <<seen, obj, ip, target>> /\ again' = FALSE
\* Reconcile returned: the worker is free.
Free ==
    /\ pc' = "idle"
    /\ seen' = ClusterTombstone /\ obj' = ClusterTombstone
    /\ ip' = NoFloatingIp /\ target' = NoId /\ again' = FALSE

\* Altered: an error of Reconcile is dropped when the patch succeeds.
AfterPartForgets(failed) ==
    IF pc = "patchStatus"
    THEN Free /\ queued' = (queued \/ failed)
    ELSE /\ pc' = IF pc = "patchConditions" THEN "patchSpec" ELSE "patchStatus"
         /\ again' = (again \/ failed)
         /\ UNCHANGED <<queued, seen, obj, ip, target>>
\* A part that failed makes the key come back, and the later parts are sent all the
\* same.
AfterPart(failed) ==
    IF pc = "patchStatus"
    THEN Free /\ queued' = (queued \/ again \/ failed)
    ELSE /\ pc' = IF pc = "patchConditions" THEN "patchSpec" ELSE "patchStatus"
         /\ again' = (again \/ failed)
         /\ UNCHANGED <<queued, seen, obj, ip, target>>

\* The conditions are refused while the cache is behind, and when the stored condition
\* is neither the one that Reconcile began with nor the one it wants.
Conflict ==
    /\ pc = "patchConditions"
    /\ cache # cluster \/ cluster.attached \notin {seen.attached, obj.attached}

PatchOxideCluster ==
    /\ pc \in Patches
    /\ \/ NothingToMerge(pc) /\ AfterPart(FALSE) /\ UNCHANGED cluster
       \/ /\ ~NothingToMerge(pc) /\ cluster.life # "gone" /\ ~Conflict
          /\ cluster' = Merge(pc, cluster)
          /\ AfterPart(FALSE) \/ (Fault("call") /\ AfterPart(TRUE))
       \/ /\ ~NothingToMerge(pc)
          /\ Fault("call") \/ cluster.life = "gone" \/ Conflict
          /\ AfterPart(TRUE)
          /\ UNCHANGED cluster
    /\ UNCHANGED <<machineVars, ownerPaused, ownerDeleted, cacheVars, fip, late, quiet>>

-----------------------------------------------------------------------------
(***************************************************************************)
(* The manager: watch events of both kinds of object, and restarts.        *)
(***************************************************************************)

SyncCluster ==
    /\ cache # cluster
    /\ cache' = cluster
    /\ queued' = TRUE
    /\ UNCHANGED <<machineVars, apiVars, machineCache, workerVars, fip, late, quiet>>

\* oxideMachineToOxideCluster: every event of a machine queues its cluster.
SyncMachine(m) ==
    /\ machineCache[m] # Current(m)
    /\ machineCache' = [machineCache EXCEPT ![m] = Current(m)]
    /\ queued' = TRUE
    /\ UNCHANGED <<machineVars, apiVars, cache, workerVars, fip, late, quiet>>

\* The manager stops at any step; its successor lists all objects first.
Restart ==
    /\ Fault("restart")
    /\ Free
    /\ cache' = cluster
    /\ machineCache' = [m \in Machines |-> Current(m)]
    /\ queued' = TRUE
    /\ UNCHANGED <<machineVars, apiVars, fip, late, quiet>>

-----------------------------------------------------------------------------
(***************************************************************************)
(* The user, Cluster API, the machines, and the Oxide control plane.       *)
(***************************************************************************)

SetOwner ==
    /\ cluster.life = "live" /\ ~cluster.owned
    /\ cluster' = [cluster EXCEPT !.owned = TRUE]
    /\ UNCHANGED <<machineVars, ownerPaused, ownerDeleted, cacheVars, queued, workerVars, fip, late, quiet>>

\* Only pause transitions of the Cluster queue the key, not its deletion.
TogglePause ==
    /\ Fault("pause")
    /\ ownerPaused' = ~ownerPaused
    /\ queued' = TRUE
    /\ UNCHANGED <<machineVars, cluster, ownerDeleted, cacheVars, workerVars, fip, late, quiet>>

DeleteOwner ==
    /\ cluster.owned /\ ~ownerDeleted
    /\ ownerDeleted' = TRUE
    /\ UNCHANGED <<machineVars, cluster, ownerPaused, cacheVars, queued, workerVars, fip, late, quiet>>

\* Whoever deletes the OxideCluster, it stays until its finalizer is removed.
DeleteCluster ==
    /\ cluster.life = "live"
    /\ cluster' = IF cluster.finalizer THEN [cluster EXCEPT !.life = "deleting"]
                  ELSE ClusterTombstone
    /\ UNCHANGED <<machineVars, ownerPaused, ownerDeleted, cacheVars, queued, workerVars, fip, late, quiet>>

\* An instance that is destroyed loses the floating IP.
LosesInstance(m) == fip.holder # NoId /\ fip.holder = instanceId[m] /\ instanceId'[m] = NoId

\* The OxideMachine controller takes a step; Cluster API gives it nothing to create
\* before the cluster is provisioned.  A reconcile that is under way goes on when the
\* cluster is paused or disappears; a new one ends before its first cloud call.
StepMachine(m) ==
    /\ cluster.provisioned \/ instanceId[m] # NoId \/ life[m] # "live"
    /\ ControllerStep(m)
    /\ fip' = IF LosesInstance(m) THEN Detached ELSE fip
    /\ UNCHANGED <<apiVars, cacheVars, queued, workerVars, late, quiet>>

DeleteMachine(m) ==
    /\ RequestDelete(m)
    /\ UNCHANGED <<apiVars, cacheVars, queued, workerVars, fip, late, quiet>>

\* A creation whose call timed out is carried out after all, unless the name is taken, or
\* given up.
LandCreate ==
    /\ \E host \in late :
         /\ late' = late \ {host}
         /\ \/ fip = NoFloatingIp /\ fip' \in [address: Allocates(host), holder: {NoId}]
            \/ UNCHANGED fip
    /\ UNCHANGED <<machineVars, apiVars, cacheVars, queued, workerVars, quiet>>

\* Altered: machines are left alone when their Cluster is being deleted.
MachineServedUnlessOwner == ~ownerPaused /\ cache.life # "gone" /\ ~ownerDeleted
\* What the OxideMachine controller needs to get on with a machine.
MachineServed == ~ownerPaused /\ cache.life # "gone"

\* From here on no call fails, nothing crashes, and nobody pauses.
Settle ==
    /\ ~quiet
    /\ quiet' = TRUE
    /\ UNCHANGED <<machineVars, apiVars, cacheVars, queued, workerVars, fip, late>>

-----------------------------------------------------------------------------

StartReconcile == ReconcileSkip \/ EnsurePausedCondition \/ Reconcile

WorkerStep ==
    \/ StartReconcile \/ CallFails
    \/ EnsureFloatingIpView \/ EnsureFloatingIpCreate \/ EnsureFloatingIpDeleted
    \/ ListMachines \/ DetachFloatingIp \/ AttachFloatingIp
    \/ PatchOxideCluster

ManagerStep == Restart \/ SyncCluster \/ \E m \in Machines : SyncMachine(m)

UserStep ==
    \/ SetOwner \/ TogglePause \/ DeleteOwner \/ DeleteCluster
    \/ \E m \in Machines : DeleteMachine(m)

Next ==
    \/ WorkerStep \/ ManagerStep \/ UserStep \/ LandCreate \/ Settle
    \/ \E m \in Machines : StepMachine(m)

Spec == Init /\ [][Next]_vars

(***************************************************************************)
(* Cluster API tears a cluster down once its deletion was asked for: the   *)
(* machines first, and the OxideCluster when they are gone.                *)
(***************************************************************************)
TearDown ==
    /\ ownerDeleted
    /\ \/ \E m \in Machines : DeleteMachine(m)
       \/ (\A m \in Machines : life[m] = "gone") /\ DeleteCluster

(***************************************************************************)
(* Fairness: the worker runs, watch events arrive, faults end, Cluster API *)
(* tears down, and the OxideMachine controller finishes what it has begun  *)
(* while it can read an OxideCluster that is not paused.                   *)
(***************************************************************************)
Fairness ==
    /\ WF_vars(WorkerStep)
    /\ WF_vars(SyncCluster) /\ WF_vars(Settle) /\ WF_vars(TearDown)
    /\ \A m \in Machines : /\ WF_vars(SyncMachine(m))
                           /\ WF_vars(MachineServed /\ StepMachine(m))

FairSpec == Spec /\ Fairness
==============================================================================
