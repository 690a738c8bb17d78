SPECIFICATION FairSpec
CONSTANTS
    c1 = c1  c2 = c2  c3 = c3  r1 = r1
    Clients <- MCClients
    Replicas <- MCReplicas
    InboxCap = 1
    PushCap = 1
    MaxCalls = 3
PROPERTIES
    WaitTimesOut
\* the clients' command budget ends
CHECK_DEADLOCK FALSE
