CONSTANTS
    Peer = {a, b}
    Builds = {TRUE, FALSE}
    Linger = TRUE
    UserTshold = TRUE
    ItorDelay = 2
    RespDelay = 1
    ProbePeriod = 1
    MaxParse = 1
    Lossy = TRUE
    Quits = TRUE
SPECIFICATION FairSpec
INVARIANTS TypeOK RxmitOnlyInExchange DestroyedOnlyToCloser AckedIsMutual
PROPERTIES CloseTerminates BothSidesClose
CHECK_DEADLOCK FALSE
