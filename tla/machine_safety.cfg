CONSTANTS
    m1 = m1
    m2 = m2
    n1 = n1
    n2 = n2
    i1 = i1
    i2 = i2
    Machines = {m1}
    Names = {n1}
    InstanceName <- OneName
    InstanceIds = {i1, i2}
    NoId = NoId
    NoMachine = NoMachine
    WithDataDisks = {m1}
    Faults = {"call", "restart", "pause", "guest"}
SPECIFICATION Spec
CHECK_DEADLOCK FALSE
SYMMETRY IdSymmetry
CONSTRAINT Unsettled
INVARIANTS
    TypeOK
    SparesLiveMachines
    LiveMachineHasInstance
    NoLostWakeup
    WakeInv
PROPERTIES
    ReleaseIsClean
    ProviderIDStable
    ImplementsLifecycle
