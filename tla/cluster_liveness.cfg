CONSTANTS
    m1 = m1
    m2 = m2
    i1 = i1
    i2 = i2
    a1 = a1
    a2 = a2
    Machines = {m1}
    InstanceIds = {i1}
    NoId = NoId
    Addresses = {a1}
    NoAddress = NoAddress
    Stranger = Stranger
    Unparsable = {}
    Faults = {"restart", "leftover"}
SPECIFICATION FairSpec
PROPERTIES
    ClusterReleaseIsClean
    AttachmentConverges
    ClusterDeletionCompletes
    TeardownCompletes
CHECK_DEADLOCK FALSE
