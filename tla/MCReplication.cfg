SPECIFICATION FairSpec
CONSTANTS
    c1 = c1  c2 = c2
    r1 = r1  r2 = r2
    Clients <- MCClients
    Replicas <- MCReplicas
    WaitFor = {2}
    SetLen = 27
    GetAckLen = 37
    MaxSets = 2
    MaxWaits = 2
    Mortal <- MCMortal
INVARIANTS
    TypeOK
    StreamComplete
    GetAckCoversWrites
    NoStrandedWait
PROPERTIES
    AcksNeverGoBack
    EveryCommandAnswered
\* the clients' command budget ends
CHECK_DEADLOCK FALSE
