----------------------------- MODULE OxideManagers -----------------------------
(***************************************************************************)
(* Two processes of the manager (cmd/main.go), A and B, against one API    *)
(* server and one Oxide project: a deployment during a rolling update, or  *)
(* with more than one replica.  Each has the informer caches, the queue    *)
(* and the worker of OxideMachineReconciler.  With leader election only    *)
(* the holder of the lease runs its worker; the other one keeps its cache  *)
(* up to date as well as events arrive, and takes over with what it has    *)
(* seen by then.                                                           *)
(*                                                                         *)
(* The queue of a manager that does not work is full: when it is elected   *)
(* its informers replay every object.                                      *)
(***************************************************************************)
EXTENDS FiniteSets

CONSTANTS
    Machines, Names, InstanceName, InstanceIds, NoId, WithDataDisks, NoMachine, Faults,
    LeaderElection,  \* the flag --leader-elect
    Nobody           \* no process holds the lease

ASSUME NamesAssumption == InstanceName \in [Machines -> Names]
ASSUME NoIdAssumption == NoId \notin InstanceIds
ASSUME NoMachineAssumption == NoMachine \notin Machines
ASSUME LeaderElectionAssumption == LeaderElection \in BOOLEAN
\* What guests, operators and creations do late is left to the runs of one process.
ASSUME FaultsAssumption == Faults \subseteq {"call", "restart", "pause"}
ASSUME NobodyAssumption == Nobody \notin {"A", "B"}

VARIABLES
    api, clusterPaused, bootstrapped,                           \* the API server
    instance, bootDisk, dataDisks, used, late, quiet,           \* the Oxide project; faults
    cacheA, queueA, pcA, keyA, seenA, objA, targetA, againA,    \* process A
    cacheB, queueB, pcB, keyB, seenB, objB, targetB, againB,    \* process B
    holder                                                      \* who holds the lease

managerA == <<cacheA, queueA, pcA, keyA, seenA, objA, targetA, againA>>
managerB == <<cacheB, queueB, pcB, keyB, seenB, objB, targetB, againB>>
outside == <<api, clusterPaused, bootstrapped, instance, bootDisk, dataDisks, used, late, quiet>>
vars == <<outside, managerA, managerB, holder>>

A == INSTANCE OxideMachineProperties WITH
        cache <- cacheA, queue <- queueA, pc <- pcA, key <- keyA,
        seen <- seenA, obj <- objA, target <- targetA, again <- againA
B == INSTANCE OxideMachineProperties WITH
        cache <- cacheB, queue <- queueB, pc <- pcB, key <- keyB,
        seen <- seenB, obj <- objB, target <- targetB, again <- againB

TypeOK == A!TypeOK /\ B!TypeOK /\ holder \in {"A", "B", Nobody}

\* Both processes start when the objects exist.
Init == A!Init /\ B!Init /\ holder = Nobody

-----------------------------------------------------------------------------
(***************************************************************************)
(* The lease.                                                              *)
(***************************************************************************)

\* Altered: controllers start with the manager, elected or not.
MayWorkAlways(self) == TRUE
\* The controllers of a manager start when it is elected; without leader election,
\* at once.
MayWork(self) == ~LeaderElection \/ holder = self

\* A free lease goes to any process.
TakeLease(self) ==
    /\ LeaderElection /\ holder = Nobody
    /\ holder' = self
    /\ UNCHANGED <<outside, managerA, managerB>>

\* The lease of a process that is gone expires.
Drops(self) == holder' = IF holder = self THEN Nobody ELSE holder

\* A process ends: it crashed, was told to, or could not renew its lease in time, which
\* is fatal.  Its successor lists all objects first.
RestartA == A!Restart /\ Drops("A") /\ UNCHANGED managerB
RestartB == B!Restart /\ Drops("B") /\ UNCHANGED managerA

-----------------------------------------------------------------------------
(***************************************************************************)
(* The workers, the watches, and everybody else, who acts on the API       *)
(* server and the Oxide project once and is seen by both processes.        *)
(***************************************************************************)

WorkA == MayWork("A") /\ A!WorkerStep /\ UNCHANGED <<managerB, holder>>
WorkB == MayWork("B") /\ B!WorkerStep /\ UNCHANGED <<managerA, holder>>

StartA(m) == MayWork("A") /\ A!StartReconcile(m) /\ UNCHANGED <<managerB, holder>>
StartB(m) == MayWork("B") /\ B!StartReconcile(m) /\ UNCHANGED <<managerA, holder>>

SyncA(m) == A!Sync(m) /\ UNCHANGED <<managerB, holder>>
SyncB(m) == B!Sync(m) /\ UNCHANGED <<managerA, holder>>

User ==
    /\ UNCHANGED holder
    /\ \/ A!TogglePause /\ B!TogglePause
       \/ \E m \in Machines :
            \/ A!SetBootstrapData(m) /\ B!SetBootstrapData(m)
            \/ (A!SetOwner(m) \/ A!RequestDelete(m)) /\ UNCHANGED managerB

CloudFinishes(n) ==
    /\ A!Boots(n) \/ A!Stops(n) \/ A!DetachDisk(n)
    /\ UNCHANGED <<managerB, holder>>

Settle == A!Settle /\ UNCHANGED <<managerB, holder>>

Next ==
    \/ WorkA \/ WorkB \/ RestartA \/ RestartB
    \/ \E m \in Machines : StartA(m) \/ StartB(m) \/ SyncA(m) \/ SyncB(m)
    \/ TakeLease("A") \/ TakeLease("B")
    \/ User \/ Settle
    \/ \E n \in Names : CloudFinishes(n)

Spec == Init /\ [][Next]_vars

(***************************************************************************)
(* Fairness: that of OxideMachineReconciler for each process while it may  *)
(* work; somebody takes a free lease.                                      *)
(***************************************************************************)
Fairness ==
    /\ WF_vars(WorkA) /\ WF_vars(WorkB)
    /\ \A m \in Machines : /\ SF_vars(StartA(m)) /\ SF_vars(StartB(m))
                           /\ WF_vars(SyncA(m)) /\ WF_vars(SyncB(m))
    /\ \A n \in Names : WF_vars(CloudFinishes(n))
    /\ WF_vars(TakeLease("A") \/ TakeLease("B"))
    /\ WF_vars(Settle)

FairSpec == Spec /\ Fairness

-----------------------------------------------------------------------------
(***************************************************************************)
(* A new leader may act on a cache that was filled long before: all the    *)
(* same, neither process is ever about to stop or delete what belongs to a *)
(* machine that nobody deleted.                                            *)
(***************************************************************************)
SparesLiveMachines == A!SparesLiveMachines /\ B!SparesLiveMachines

(***************************************************************************)
(* The provider id of a machine that is not being deleted names the        *)
(* instance that exists, whoever led when it was created or recorded.      *)
(***************************************************************************)
LiveMachineHasInstance == A!LiveMachineHasInstance

(***************************************************************************)
(* An object that is being deleted only disappears when its instance and   *)
(* its boot disk are gone, although a leader with an old cache may create  *)
(* them again after its predecessor has destroyed them.                    *)
(***************************************************************************)
ReleaseIsClean == A!ReleaseIsClean

(***************************************************************************)
(* What one leader had queued is not lost with it.                         *)
(***************************************************************************)
NoLostWakeup ==
    /\ MayWork("A") => A!NoLostWakeup
    /\ MayWork("B") => B!NoLostWakeup

(***************************************************************************)
(* Why the safety properties hold, in two parts.  The first does not need  *)
(* leader election: each process is behind the API server on a course of   *)
(* its own, and as long as a machine is stored as live, nobody knows       *)
(* another provider id for it than that of its instance.                   *)
(***************************************************************************)
BeliefsInv ==
    /\ A!OrderInv /\ A!LiveIdsAreReal
    /\ B!OrderInv /\ B!LiveIdsAreReal
    /\ A!NothingLate

(***************************************************************************)
(* The second does: a process that does not lead is between two            *)
(* reconciles, with every machine queued, and whoever leads finds what it  *)
(* must conclude and may release as if it were alone.                      *)
(***************************************************************************)
Waits(self, pc, queue) == holder # self => pc = "idle" /\ queue = Machines
LeaseInv ==
    LeaderElection =>
        /\ Waits("A", pcA, queueA) /\ A!WakeInv /\ A!ReadyToRelease
        /\ Waits("B", pcB, queueB) /\ B!WakeInv /\ B!ReadyToRelease

(***************************************************************************)
(* Deletions complete, whatever number of leaders it takes.                *)
(***************************************************************************)
DeletionCompletes == A!DeletionCompletes
==============================================================================
