---------------------------- MODULE OxideClusterMC ----------------------------
(***************************************************************************)
(* Instances of OxideClusterReconciler for TLC.                            *)
(***************************************************************************)
EXTENDS OxideClusterProperties, TLC

CONSTANTS m1, m2, i1, i2, a1, a2

\* For safety alone, the steps after faults have ended add nothing.
Unsettled == ~quiet

\* The cluster stays: its deletion is left to the runs with one machine.
ClusterStays == Unsettled /\ ~ownerDeleted /\ cluster.life = "live"

\* No patch stored that the cluster or a machine is provisioned and lost its address
\* or its provider id.
RecordedFirst ==
    /\ cluster.provisioned => cluster.host # NoAddress
    /\ \A m \in Machines : provisioned[m] => providerID[m] # NoId

\* The cache is behind for one object at most.
OneEventPending ==
    /\ cache = cluster \/ \A m \in Machines : machineCache[m] = Current(m)
    /\ \A x, y \in Machines :
          machineCache[x] # Current(x) /\ machineCache[y] # Current(y) => x = y

\* Machines are only deleted after their cluster: the rest is left to the runs that
\* are about the machines.
ClusterGoesFirst == cluster.life = "live" => \A m \in Machines : life[m] # "deleting"

\* Nobody pauses the cluster under a reconcile, which reads that only when it begins.
PausedBetween == ownerPaused => pc = "idle"

\* No creation of an IP is under way any more once a machine has an instance: as long as
\* the IP exists it can only be refused.
LandsBeforeInstances == late # {} => \A m \in Machines : instanceId[m] = NoId

\* Machines, instances and addresses of a kind are interchangeable.
ClusterSymmetry == Permutations({m1, m2}) \cup Permutations({i1, i2}) \cup Permutations({a1, a2})
==============================================================================
