SPECIFICATION Spec
CONSTANTS
    c1 = c1  c2 = c2
    r1 = r1  r2 = r2
    Clients = {c1}
    Replicas = {r1}
    WaitFor = {1}
    SetLen = 27
    GetAckLen = 37
    MaxSets = 3
    MaxWaits = 3
    Mortal = {}
INVARIANT
    ReplicaHasContents
CHECK_DEADLOCK FALSE
