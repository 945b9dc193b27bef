------------------------ MODULE OxideMachineProperties ------------------------
(***************************************************************************)
(* What the OxideMachine controller promises.                              *)
(***************************************************************************)
EXTENDS OxideMachineReconciler

InstanceOf(m) == instance[InstanceName[m]]
BootDiskOf(m) == bootDisk[InstanceName[m]]

(***************************************************************************)
(* handleDelete: the object of a machine only disappears from a deletion   *)
(* when its instance and its boot disk are gone, whatever the order of     *)
(* views, stops, failures, restarts and stale reads was.                   *)
(***************************************************************************)
CleanRelease ==
    \A m \in Machines :
        (api[m].life = "deleting" /\ api'[m].life = "gone")
            => InstanceOf(m) = NoInstance /\ BootDiskOf(m) = "absent"
ReleaseIsClean == [][CleanRelease]_vars

(***************************************************************************)
(* handleDelete acts on what the cache said when Reconcile began, and on   *)
(* an instance it finds by name: the worker is never about to stop or to   *)
(* delete the instance or the disk of a machine that nobody deleted.       *)
(***************************************************************************)
SparesLiveMachines ==
    pc \in {"stopInstance", "deleteInstance", "deleteDisk"}
        => \A m \in Machines : InstanceName[m] = name => api[m].life # "live"

(***************************************************************************)
(* ensureInstance: a machine that is not being deleted and has a provider  *)
(* id has that instance, under its name; a provider id never dangles.      *)
(***************************************************************************)
LiveMachineHasInstance ==
    \A m \in Machines :
        (api[m].life = "live" /\ api[m].providerID # NoId)
            => InstanceOf(m).id = api[m].providerID

(***************************************************************************)
(* ensureInstance with stale caches, conflicts, lost replies and restarts: *)
(* once a provider id was stored it stays for as long as the object does.  *)
(***************************************************************************)
KeepsProviderID ==
    \A m \in Machines :
        (api[m].providerID # NoId /\ api'[m].life # "gone")
            => api'[m].providerID = api[m].providerID
ProviderIDStable == [][KeepsProviderID]_vars

(***************************************************************************)
(* No instance is the provider of two machines.                            *)
(***************************************************************************)
DistinctProviderIDs ==
    \A m1, m2 \in Machines :
        (m1 # m2 /\ api[m1].providerID # NoId) => api[m1].providerID # api[m2].providerID

(***************************************************************************)
(* Reconcile polls only while it returns RequeueAfter or an error; all     *)
(* else must come from watches.  A machine that still has to be deleted,   *)
(* or to be provisioned, is never forgotten: it is queued, being           *)
(* reconciled, or an event for it is on its way.  This covers a patch of   *)
(* which some parts failed, an event during a reconcile, a pause and its   *)
(* end, and the Paused condition that ends a reconcile early.              *)
(***************************************************************************)
Unfinished(m) ==
    /\ ~clusterPaused /\ api[m].owned
    /\ \/ api[m].life = "deleting"
       \/ /\ api[m].life = "live"
          /\ m \in bootstrapped
          /\ ~(api[m].providerID # NoId /\ api[m].provisioned /\ api[m].addresses)
NoLostWakeup ==
    \A m \in Machines : Unfinished(m) => m \in queue \/ key = m \/ cache[m] # api[m]

(***************************************************************************)
(* Once faults are over, a machine of an unpaused cluster that is being    *)
(* deleted disappears, and one that has what it needs is provisioned with  *)
(* its provider id and its addresses, unless its instance failed, which    *)
(* ensureInstanceRunning only waits out.                                   *)
(***************************************************************************)
Served(m) == quiet /\ ~clusterPaused /\ api[m].owned
DeletionCompletes ==
    \A m \in Machines : (Served(m) /\ api[m].life = "deleting") ~> (api[m].life = "gone")

IsProvisioned(m) == api[m].providerID # NoId /\ api[m].provisioned /\ api[m].addresses
ProvisioningCompletes ==
    \A m \in Machines :
        (Served(m) /\ api[m].life = "live" /\ m \in bootstrapped)
            ~> (IsProvisioned(m) \/ api[m].life # "live" \/ InstanceOf(m).state = "failed")

-----------------------------------------------------------------------------
(***************************************************************************)
(* Caches, retries, partial patches, faults and all, the controller does   *)
(* to the objects and to the Oxide project only what MachineLifecycle      *)
(* says: at most one instance per object, a provider id that is recorded   *)
(* once and names it, and a deletion in the right order.                   *)
(***************************************************************************)
Lifecycle ==
    INSTANCE MachineLifecycle WITH
        life <- [m \in Machines |-> api[m].life],
        providerID <- [m \in Machines |-> api[m].providerID],
        provisioned <- [m \in Machines |-> api[m].provisioned],
        instanceId <- [m \in Machines |-> InstanceOf(m).id],
        disk <- {m \in Machines : BootDiskOf(m) # "absent"}
ImplementsLifecycle == Lifecycle!MachineSpec

-----------------------------------------------------------------------------
(***************************************************************************)
(* "Delete the cluster and its managed resources": no instance and no boot *)
(* disk outlives the OxideMachine it was made for.                         *)
(***************************************************************************)
NoOrphan ==
    \A n \in Names :
        (instance[n] # NoInstance \/ bootDisk[n] # "absent")
            => \E m \in Machines : InstanceName[m] = n /\ api[m].life # "gone"

(***************************************************************************)
(* The same of the data disks that InstanceCreate makes: no data disk      *)
(* outlives a machine that was deleted through its finalizer.              *)
(***************************************************************************)
DataDisksReleased ==
    [][\A m \in Machines :
          (api[m].life = "deleting" /\ api'[m].life = "gone")
              => InstanceName[m] \notin dataDisks]_vars

-----------------------------------------------------------------------------
(***************************************************************************)
(* Why the safety properties hold: an invariant that every step keeps,     *)
(* when instances are not deleted out of band or created late and the      *)
(* machines have names of their own.                                       *)
(***************************************************************************)

\* The finalizer is stored before, or together with, all that relies on it.
WellFormed(o) ==
    /\ o.life = "gone" => o = Tombstone
    /\ o.life = "deleting" \/ o.providerID # NoId => o.finalizer

\* Object o is an earlier version of a, as far as the reconciler relies on it.
Precedes(o, a) ==
    /\ o.life = "gone" => a.life = "gone"
    /\ o.life = "deleting" => a.life # "live"
    /\ a.life # "gone" => /\ o.finalizer => a.finalizer
                          /\ o.providerID # NoId => a.providerID # NoId
                          /\ o.owned => a.owned

ObjectsAreOrdered ==
    \A m \in Machines :
        /\ WellFormed(api[m]) /\ WellFormed(cache[m])
        /\ Precedes(cache[m], api[m])

\* What the worker may have changed in memory, and in which calls it may be.
WorkerIsConsistent ==
    pc # "idle" =>
        /\ seen.life # "gone" /\ WellFormed(seen) /\ Precedes(seen, cache[key])
        /\ obj.providerID # seen.providerID
             => seen.life = "live" /\ seen.providerID = NoId /\ obj.finalizer
        /\ seen.life = "live" /\ seen.finalizer => obj.finalizer
        /\ pc \in {"viewInstance", "createInstance", "adoptInstance", "startInstance",
                   "listAddresses"} => seen.life = "live" /\ obj.finalizer
        /\ pc \in {"createInstance", "adoptInstance"} => seen.providerID = NoId
        /\ pc \in {"viewForDelete", "stopInstance", "deleteInstance", "viewDisk", "deleteDisk"}
             => seen.life = "deleting"

\* This much is kept whatever the names are, and whatever happens to the instances.
OrderInv == TypeOK /\ ObjectsAreOrdered /\ WorkerIsConsistent

\* The instance of m cannot have been deleted by the reconciler yet.
Intact(m) == cache[m].life = "live" \/ (pc # "idle" /\ key = m /\ seen.life = "live")

ProvidersExist ==
    /\ \A m \in Machines :
          /\ Intact(m) /\ api[m].providerID # NoId => InstanceOf(m).id = api[m].providerID
          /\ cache[m].life = "live" /\ cache[m].providerID # NoId
               => InstanceOf(m).id = cache[m].providerID
    /\ pc # "idle" /\ seen.life = "live" /\ obj.providerID # NoId
         => instance[name].id = obj.providerID

\* The finalizer is only given up in memory when the cloud is clean.
ReadyToRelease ==
    /\ pc \in CloudCalls /\ seen.finalizer => obj.finalizer
    /\ pc \in {"viewDisk", "deleteDisk"} => instance[name] = NoInstance
    /\ pc \in Patches /\ seen.finalizer /\ ~obj.finalizer
         => instance[name] = NoInstance /\ bootDisk[name] = "absent"

NothingLate == "slow" \notin Faults => late = {}

\* As long as a machine is live, whoever believes that it has a provider id knows its
\* instance.  Unlike ProvidersExist this is kept beside a process that has seen more.
LiveIdsAreReal ==
    /\ \A m \in Machines : api[m].life = "live" =>
          {api[m].providerID, cache[m].providerID} \subseteq {NoId, InstanceOf(m).id}
    /\ pc # "idle" /\ api[key].life = "live" => obj.providerID \in {NoId, instance[name].id}

IndInv ==
    /\ TypeOK /\ ObjectsAreOrdered /\ WorkerIsConsistent /\ ProvidersExist /\ ReadyToRelease
    /\ NothingLate

-----------------------------------------------------------------------------
(***************************************************************************)
(* What IndInv leaves open, in two further parts that are kept as well.    *)
(* The first is about whose the instances are and what a deletion leaves:  *)
(* DistinctProviderIDs and ImplementsLifecycle rest on it.                 *)
(***************************************************************************)

\* An id is handed out once, and only machine m knows the instance that has its name.
IdsAreOwned ==
    /\ \A n \in Names :
          /\ instance[n] # NoInstance => instance[n].state # "absent" /\ instance[n].id \in used
          /\ \A x \in Names \ {n} : instance[n].id # NoId => instance[n].id # instance[x].id
    /\ \A m \in Machines : api[m].providerID # NoId =>
          /\ api[m].providerID \in used
          /\ \A n \in Names \ {InstanceName[m]} : instance[n].id # api[m].providerID

NothingLeft(m) == InstanceOf(m) = NoInstance /\ BootDiskOf(m) = "absent"

\* Who still believes that a machine is being deleted finds nothing to delete when it
\* is gone; and a worker that believes it to be live did not miss its whole deletion.
GoneIsClean ==
    /\ \A m \in Machines : cache[m].life = "deleting" /\ api[m].life = "gone" => NothingLeft(m)
    /\ pc # "idle" /\ api[key].life = "gone" =>
          /\ seen.life = "deleting" => NothingLeft(key)
          /\ seen.life = "live" => cache[key].life # "deleting"

\* A machine becomes provisioned in memory while it is live and has its instance.
ProvisionedExists ==
    pc # "idle" /\ obj.provisioned # seen.provisioned
        => seen.life = "live" /\ obj.provisioned /\ instance[name] # NoInstance

OwnInv == IdsAreOwned /\ GoneIsClean /\ ProvisionedExists

(***************************************************************************)
(* The second is why a reconcile that ends without an error, and without   *)
(* an event since it began, has nothing left to do: NoLostWakeup.  It only *)
(* rests on OrderInv.                                                      *)
(***************************************************************************)

\* Each reason for which Reconcile returns without asking to be called again.
Concluded ==
    \/ seen.life = "live" /\ obj.providerID # NoId /\ obj.provisioned /\ obj.addresses
    \/ seen.life = "live" /\ (key \in bootstrapped => key \in queue)
    \/ seen.life = "deleting" /\ ~obj.finalizer

\* Metadata and spec went through, if nothing failed so far.
SpecStored ==
    /\ seen.life = "deleting" /\ ~obj.finalizer => api[key].life = "gone"
    /\ seen.life = "live" /\ obj.providerID # NoId
         => api[key].providerID # NoId \/ api[key].life = "gone"

\* Between Take and the end of the patch: what must hold for the rest to be concluded.
WorkerWillConclude ==
    pc # "idle" =>
        /\ pc \in {"viewInstance", "startInstance", "listAddresses"} => obj.providerID # NoId
        /\ pc = "listAddresses" => obj.provisioned
        /\ pc \in Patches /\ ~again => Concluded
        /\ pc = "patchStatus" /\ ~again => SpecStored

\* Without an event since the reconcile began it works on what the cache holds.
SeenIsCached == pc # "idle" /\ key \notin queue => cache[key] = seen

\* What a view returns has an id.
InstancesHaveIds == \A n \in Names : instance[n].state # "absent" => instance[n].id # NoId

WakeInv == NoLostWakeup /\ SeenIsCached /\ WorkerWillConclude /\ InstancesHaveIds
==============================================================================
