SPECIFICATION Spec
CONSTANTS
    c1 = c1  c2 = c2
    key1 = key1  key2 = key2
    MasterLink = MasterLink
    Clients <- MCClients
    Keys <- MCKeys
    WriteOps = {"set"}
    MaxQueue = 1
SYMMETRY Symmetry
PROPERTY
    AbortMeansConflict
CHECK_DEADLOCK FALSE
