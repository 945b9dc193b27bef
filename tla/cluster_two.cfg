\* Two control plane machines in a cluster that stays, with at most one event on its
\* way at a time; any call may fail.
CONSTANTS
    m1 = m1
    m2 = m2
    i1 = i1
    i2 = i2
    a1 = a1
    a2 = a2
    Machines = {m1, m2}
    InstanceIds = {i1, i2}
    NoId = NoId
    Addresses = {a1}
    NoAddress = NoAddress
    Stranger = Stranger
    Unparsable = {"provisioned", "unprovisioned"}
    Faults = {"call"}
SYMMETRY ClusterSymmetry
CONSTRAINT ClusterStays
CONSTRAINT OneEventPending
CONSTRAINT RecordedFirst
SPECIFICATION Spec
INVARIANTS
    MovesOnlyFromDeleted
    AttachmentAtRest
    AttachmentInv
    RestInv
CHECK_DEADLOCK FALSE
