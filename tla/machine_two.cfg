CONSTANTS
    m1 = m1
    m2 = m2
    n1 = n1
    n2 = n2
    i1 = i1
    i2 = i2
    Machines = {m1, m2}
    Names = {n1, n2}
    InstanceName <- TwoNames
    InstanceIds = {i1, i2}
    NoId = NoId
    NoMachine = NoMachine
    WithDataDisks = {}
    Faults = {"restart"}
SPECIFICATION Spec
CHECK_DEADLOCK FALSE
SYMMETRY TwinSymmetry
CONSTRAINT Unsettled
INVARIANTS
    DistinctProviderIDs
    IndInv
    OwnInv
