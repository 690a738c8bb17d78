SPECIFICATION FairSpec
CONSTANTS
    c1 = c1  c2 = c2
    stream1 = stream1  stream2 = stream2
    Clients <- MCClients
    Keys <- MCKeys
    Menu <- MCMenu
    Times = {1, 2}
    SeqLimit = 3
    MaxCmds = 4
INVARIANTS
    TypeOK
    FollowersMissNothing
    NoStrandedReader
    OwedExactlyOnce
PROPERTIES
    EntriesAppended
    AnsweredInTime
\* the clients' command budget ends
CHECK_DEADLOCK FALSE
