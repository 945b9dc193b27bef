------------------------ MODULE OxideClusterProperties ------------------------
(***************************************************************************)
(* What the OxideCluster controller promises.                              *)
(***************************************************************************)
EXTENDS OxideClusterReconciler

(***************************************************************************)
(* reconcileFloatingIPAttachment reads the machines from a cache and the   *)
(* IP from an earlier call.  All the same it takes the IP from one of its  *)
(* machines only when that machine is being deleted and another can have   *)
(* it: "an unattached IP is worse than one on a node that's still          *)
(* draining".                                                              *)
(***************************************************************************)
MovesOnlyFromDeleted ==
    pc = "detachIp" =>
        \A m \in Machines :
            (fip.holder # NoId /\ fip.holder = instanceId[m])
                => life[m] = "deleting" /\ target # NoId

(***************************************************************************)
(* ensureFloatingIPDeleted: when an OxideCluster disappears from a         *)
(* deletion its floating IP is gone, whatever failed or crashed before, if *)
(* no creation of an IP is carried out after its call timed out: one that  *)
(* lands after FloatingIpDelete answered "not found" is left behind, and   *)
(* the code does nothing about it.                                         *)
(***************************************************************************)
CleanRelease ==
    (cluster.life = "deleting" /\ cluster'.life = "gone") => fip = NoFloatingIp
ClusterReleaseIsClean == [][CleanRelease]_vars

(***************************************************************************)
(* ensureFloatingIPExists with lost replies, stale caches and restarts:    *)
(* the endpoint's host is stored once, and is the one the user asked for,  *)
(* also when creations are carried out after their call timed out.         *)
(***************************************************************************)
KeepsHost ==
    (cluster.host # NoAddress /\ cluster'.life # "gone") => cluster'.host = cluster.host
EndpointStable == [][KeepsHost]_vars

(***************************************************************************)
(* A provisioned cluster's endpoint is the address of an existing IP until *)
(* the cluster's deletion is asked for.                                    *)
(***************************************************************************)
EndpointExists ==
    (cluster.life = "live" /\ cluster.provisioned /\ cluster.host # NoAddress)
        => fip.address = cluster.host

(***************************************************************************)
(* Reconcile never asks for a later round of its own accord: it relies on  *)
(* errors and on the events of clusters and machines.  When nothing is     *)
(* queued and no event is on its way, the cluster has its endpoint, its    *)
(* IP is on a machine that is not being deleted if there is a candidate,   *)
(* and the condition tells whether it is attached (an instance that is     *)
(* being torn down may just have lost it).                                 *)
(***************************************************************************)
Delivered == \A m \in Machines : machineCache[m] = Current(m)
AtRest == pc = "idle" /\ ~queued /\ cache = cluster /\ Delivered
Served == cluster.life = "live" /\ cluster.owned /\ ~ownerPaused /\ ~ownerDeleted

CanHold(m) == life[m] = "live" /\ providerID[m] # NoId /\ provisioned[m]
OnLiveMachine == \E m \in Machines : life[m] = "live" /\ fip.holder = providerID[m]

EndpointAtRest ==
    AtRest /\ Served => /\ cluster.finalizer /\ cluster.provisioned
                        /\ cluster.host = fip.address /\ fip.address # NoAddress
AttachmentAtRest ==
    AtRest /\ Served =>
        /\ (\E m \in Machines : CanHold(m)) => fip.holder # NoId /\ OnLiveMachine
        /\ (\A m \in Machines : life[m] # "deleting")
             => (cluster.attached = "true" <=> fip.holder # NoId)

(***************************************************************************)
(* The IP ends up on a machine that is not being deleted, and the cluster  *)
(* says so, if from some time on the cluster is served and some machine    *)
(* can hold it.                                                            *)
(***************************************************************************)
AttachmentConverges ==
    <>[](Served /\ \E m \in Machines : CanHold(m))
        => <>[](fip.holder # NoId /\ OnLiveMachine /\ cluster.attached = "true")

(***************************************************************************)
(* The deletion of an OxideCluster completes, unless the cluster stays     *)
(* paused or the floating IP stays attached: ensureFloatingIPDeleted waits *)
(* for the instance that has it to go.                                     *)
(***************************************************************************)
ClusterDeletionCompletes ==
    <>[](cluster.life = "deleting" /\ ~ownerPaused) => <>[](fip.holder # NoId)

(***************************************************************************)
(* A cluster that Cluster API tears down goes, with all its machines.  The *)
(* OxideMachine controller reads the OxideCluster in every reconcile, so   *)
(* this needs an OxideCluster that nobody deletes while machines are left; *)
(* and it waits for an IP that somebody else's instance holds.             *)
(***************************************************************************)
AllGone == cluster.life = "gone" /\ \A m \in Machines : life[m] = "gone"
DeletedInOrder == cluster.life # "live" => \A m \in Machines : life[m] = "gone"
TeardownCompletes ==
    <>[](ownerDeleted /\ ~ownerPaused) /\ []DeletedInOrder
        => <>[](AllGone \/ fip.holder = Stranger)

-----------------------------------------------------------------------------
(***************************************************************************)
(* Why the safety properties hold: four invariants, each kept by every     *)
(* step with the help of the earlier ones.  The first is about the         *)
(* versions of the object.                                                 *)
(***************************************************************************)

\* Nobody, the cache or the worker, believes in a deletion that was not asked for, or
\* in an owner that was not set.
VersionsAreOrdered ==
    /\ cluster.life = "gone" => cluster = ClusterTombstone
    /\ cache.life = "gone" => cache = ClusterTombstone /\ cluster.life = "gone"
    /\ cache.life = "deleting" => cluster.life # "live"
    /\ cache.owned => cluster.owned \/ cluster.life = "gone"
    /\ seen.life = "deleting" => cache.life # "live"

\* What the worker may have changed in memory, and in which calls it may be.
WorkerIsConsistent ==
    pc # "idle" =>
        /\ pc \in {"viewIp", "createIp", "listMachines", "detachIp", "attachIp"}
             => seen.life = "live" /\ obj.finalizer
        /\ pc = "deleteIp" => seen.life = "deleting"
        /\ seen.life = "deleting" \/ pc \in {"viewIp", "createIp"}
             => obj.host = seen.host /\ obj.provisioned = seen.provisioned
        /\ seen.finalizer /\ ~obj.finalizer
             => pc \in Patches /\ seen.life = "deleting"

\* A floating IP has an address, and is there while the worker places it.
IpIsWhole ==
    /\ fip.address = NoAddress => fip = NoFloatingIp
    /\ pc \in {"listMachines", "detachIp", "attachIp"} => fip.address # NoAddress

ClusterInv == TypeOK /\ VersionsAreOrdered /\ WorkerIsConsistent /\ IpIsWhole

(***************************************************************************)
(* ClusterReleaseIsClean rests on it, and on this: without creations that  *)
(* are carried out late, the finalizer is only given up in memory once the *)
(* floating IP is gone, and the IP does not come back.                     *)
(***************************************************************************)
NothingLate == "slow" \notin Faults => late = {}

ReadyToRelease ==
    (pc # "idle" /\ seen.finalizer /\ ~obj.finalizer) => fip = NoFloatingIp

ReleaseInv == ClusterInv /\ NothingLate /\ ("slow" \notin Faults => ReadyToRelease)

(***************************************************************************)
(* The second is about the endpoint.  It needs a user who asks for no      *)
(* address, or a project without a floating IP of the cluster's name.      *)
(***************************************************************************)
OneSourceOfAddress == ~({"leftover", "host"} \subseteq Faults)

\* The deletion of the floating IP cannot have begun.
Serving == cache.life = "live" \/ seen.life = "live"

\* The endpoint is stored once; who still has an object without it finds the IP, and a
\* creation that is still under way has been asked for the same address.
EndpointIsKept ==
    Serving =>
        /\ cluster.host # NoAddress /\ fip.address # NoAddress => fip.address = cluster.host
        /\ cluster.host # NoAddress
             => /\ cache.host \in {NoAddress, cluster.host}
                /\ pc # "idle" => seen.host \in {NoAddress, cluster.host}
                /\ fip.address = NoAddress
                     => cache.host # NoAddress /\ (pc # "idle" => seen.host # NoAddress)
        /\ cluster.life # "gone" /\ fip.address = NoAddress => late \subseteq {cluster.host}
        /\ cluster.host = NoAddress /\ cluster.life # "gone"
             => cache.host = NoAddress /\ (pc # "idle" => seen.host = NoAddress)
        /\ cluster.provisioned \/ cache.provisioned \/ (pc # "idle" /\ obj.provisioned)
             => fip.address # NoAddress
        /\ pc # "idle" /\ obj.host # seen.host => fip.address # NoAddress /\ obj.host = fip.address

EndpointInv == ClusterInv /\ EndpointIsKept

(***************************************************************************)
(* The third is about the machines and what the cache says of them:        *)
(* MovesOnlyFromDeleted is the last part of it.                            *)
(***************************************************************************)

\* The ids that machine m had and somebody may still use.
Knows(m) == {providerID[m], machineCache[m].providerID, instanceId[m]} \ {NoId}

IdsAreOwned ==
    \A m \in Machines :
        /\ Knows(m) \subseteq used
        /\ \A x \in Machines \ {m} : Knows(m) \cap Knows(x) = {}

\* Only a deletion takes the instance from a machine.
InstancesAreKept ==
    \A m \in Machines :
        /\ life[m] = "gone" => providerID[m] = NoId /\ ~provisioned[m]
        /\ life[m] = "live" /\ providerID[m] # NoId => instanceId[m] = providerID[m]
        /\ life[m] = "deleting" /\ providerID[m] # NoId
             => instanceId[m] \in {NoId, providerID[m]}

MachinesAreOrdered ==
    \A m \in Machines :
        /\ machineCache[m].life = "gone" => life[m] = "gone" /\ machineCache[m].providerID = NoId
        /\ machineCache[m].life = "deleting" => life[m] # "live"
        /\ machineCache[m].provisioned => provisioned[m] \/ life[m] = "gone"
        /\ machineCache[m].providerID # NoId =>
              IF life[m] = "gone" THEN instanceId[m] # machineCache[m].providerID
                                  ELSE providerID[m] = machineCache[m].providerID

\* The cache has told whose instance this is.
Known(id) ==
    id \in used /\ \A m \in Machines : instanceId[m] = id => machineCache[m].providerID = id

HoldersAreKnown ==
    /\ fip.holder \in InstanceIds => Known(fip.holder)
    /\ target # NoId => Known(target)
    /\ ip.holder \in InstanceIds => ip.holder \in used

\* While the worker decides, the IP can only be lost with the instance that had it.
IpIsCurrent ==
    /\ pc \in {"listMachines", "detachIp"} =>
          \/ fip.holder = ip.holder
          \/ fip.holder = NoId /\ \A m \in Machines : instanceId[m] # ip.holder
    /\ pc = "attachIp" => fip.holder = NoId /\ target # NoId

AttachmentInv ==
    /\ IdsAreOwned /\ InstancesAreKept /\ MachinesAreOrdered /\ HoldersAreKnown /\ IpIsCurrent
    /\ MovesOnlyFromDeleted

(***************************************************************************)
(* The fourth is why a reconcile that ends without an error, and without   *)
(* an event since it began, has left nothing to do: EndpointAtRest and     *)
(* AttachmentAtRest are its last parts.                                    *)
(***************************************************************************)

\* Without an event since the reconcile began it works on what the cache holds.
SeenIsCached == pc # "idle" /\ ~queued => cache = seen

\* The IP is where it should be and attached tells so, if the cache is up to date.
Placed(attached) ==
    Delivered =>
        /\ (\E m \in Machines : CanHold(m)) => fip.holder # NoId /\ OnLiveMachine
        /\ (\A m \in Machines : life[m] # "deleting")
             => (attached = "true" <=> fip.holder # NoId)

TargetIsReady ==
    pc \in {"detachIp", "attachIp"} /\ ~queued =>
        /\ target = NoId => Ready = {}
        /\ target # NoId => \E m \in Ready : machineCache[m].providerID = target

\* Between the first call and the end of the patch: what must hold for the rest to
\* leave the cluster as it should be.
WorkerWillConclude ==
    /\ pc \in {"listMachines", "detachIp", "attachIp"} => obj.provisioned /\ obj.host = fip.address
    /\ pc \in Patches /\ ~again /\ ~queued /\ seen.life = "live" /\ ~ownerDeleted
         => /\ obj.finalizer /\ obj.provisioned
            /\ obj.host = fip.address /\ fip.address # NoAddress /\ Placed(obj.attached)

\* What went through, if nothing failed so far, is stored.
PartsAreStored ==
    ~again /\ cluster.life # "gone" =>
        /\ pc \in {"patchSpec", "patchStatus"} => cluster.attached = obj.attached \/ obj.attached = seen.attached
        /\ pc = "patchStatus" => /\ cluster.finalizer = obj.finalizer \/ obj.finalizer = seen.finalizer
                                 /\ cluster.host = obj.host \/ obj.host = seen.host

RestInv ==
    /\ SeenIsCached /\ TargetIsReady /\ WorkerWillConclude /\ PartsAreStored
    /\ EndpointAtRest /\ AttachmentAtRest
==============================================================================
