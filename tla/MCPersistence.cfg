SPECIFICATION FairSpec
CONSTANTS
    c1 = c1  c2 = c2  k1 = k1
    Clients <- MCClients
    Keys <- MCKeys
    OtherKey = k2
    Ttls <- MCTtls
    RdbFile <- MCRdbFile
    MaxSets = 2
    MaxIncrs = 1
    MaxTime = 2
    MaxFaults = 2
INVARIANTS
    TypeOK
    NothingSeenIsLost
    LivesItsTtl
PROPERTIES
    NothingRevives
    NobodyHangs
    ComesBack
\* the clients' command budget and the clock end, and the server may stay down
CHECK_DEADLOCK FALSE
