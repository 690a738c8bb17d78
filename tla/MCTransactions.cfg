SPECIFICATION Spec
CONSTANTS
    c1 = c1  c2 = c2
    key1 = key1  key2 = key2
    MasterLink = MasterLink
    Clients <- MCClients
    Keys <- MCKeys
    WriteOps = {"set", "zadd"}
    MaxQueue = 1
SYMMETRY Symmetry
INVARIANTS
    TypeOK
    WatchesRecorded
    UnsettledRecorded
PROPERTIES
    UnsettledConflictAborts
\* every client may have left
CHECK_DEADLOCK FALSE
