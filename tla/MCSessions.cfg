SPECIFICATION FairSpec
CONSTANTS
    c1 = c1  c2 = c2
    news = news  right = right  wrong = wrong
    Clients <- MCClients
    Channels <- MCChannels
    Passwords <- MCPasswords
    Guesses <- MCGuesses
    PushCap = 1
    Offered <- MCOffered
    MaxCalls <- MCMaxCalls
    Leavers <- MCLeavers
INVARIANTS
    TypeOK
    StrangersKeptOut
    MessagesAccountedFor
    ConfirmedFirst
PROPERTIES
    DroppedForCause
    MailArrives
    EveryCallAnswered
\* the clients' command budget ends
CHECK_DEADLOCK FALSE
