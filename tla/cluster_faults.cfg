CONSTANTS
    m1 = m1
    m2 = m2
    i1 = i1
    i2 = i2
    a1 = a1
    a2 = a2
    Machines = {m1}
    InstanceIds = {i1}
    NoId = NoId
    Addresses = {a1, a2}
    NoAddress = NoAddress
    Stranger = Stranger
    Unparsable = {}
    Faults = {"call", "slow", "restart", "pause", "host"}
SPECIFICATION Spec
SYMMETRY ClusterSymmetry
CONSTRAINT Unsettled
CONSTRAINT OneEventPending
CONSTRAINT ClusterGoesFirst
CONSTRAINT PausedBetween
CONSTRAINT LandsBeforeInstances
INVARIANTS
    TypeOK
    EndpointExists
    EndpointAtRest
    EndpointInv
PROPERTY EndpointStable
CHECK_DEADLOCK FALSE
