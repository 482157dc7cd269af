CONSTANTS
    h1 = h1
    h2 = h2
    h3 = h3
    NoRequest = NoRequest
    Requests <- MCHighPrio
    HighPrio <- MCHighPrio
    FirstHp = 2
    TidSpace = 4
    MaxStarts = 2
    MaxFailures = 1
SPECIFICATION FairSpec
INVARIANTS
    TypeOK
    TidReuseTakesACycle
    AnswersItsRequest
    FramesKeepTheirOrder
PROPERTIES
    QueuedIsTransmitted
    ImplementsExchange
CHECK_DEADLOCK FALSE
