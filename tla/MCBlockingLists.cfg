SPECIFICATION FairSpec
CONSTANTS
    c1 = c1  c2 = c2  c3 = c3
    a = a  b = b
    NoClient = NoClient
    Clients <- MCClients
    Keys <- MCKeys
    Menu <- MCMenu
    MaxCmds = 3
    InboxCap = 2
    Leavers <- MCLeavers
INVARIANTS
    TypeOK
    NoStrandedWaiter
    OwedExactlyOnce
    ElementsConserved
PROPERTIES
    AnsweredInTime
    Linearizable
\* the clients' command budget ends
CHECK_DEADLOCK FALSE
