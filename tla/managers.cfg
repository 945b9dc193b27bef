CONSTANTS
    m1 = m1
    n1 = n1
    i1 = i1
    i2 = i2
    Machines = {m1}
    Names = {n1}
    InstanceName <- OneName
    InstanceIds = {i1, i2}
    NoId = NoId
    NoMachine = NoMachine
    WithDataDisks = {}
    Faults = {"restart"}
    LeaderElection = TRUE
    Nobody = Nobody
SPECIFICATION FairSpec
CHECK_DEADLOCK FALSE
CONSTRAINT IdsInOrder
INVARIANTS
    TypeOK
    BeliefsInv
    SparesLiveMachines
    LiveMachineHasInstance
    LeaseInv
    NoLostWakeup
PROPERTIES
    ReleaseIsClean
    DeletionCompletes
