\* A peer and a server, everything the environment may do.
SPECIFICATION Spec
CONSTANTS
    Full = {f1}
    Ecnx = {e1}
    NbBlock <- OneTwo
    ReqNbMax = 2
    Wanted = {{1, 2}, {1}}
    DoPiecehash = TRUE
    Adversity = {"unauth", "unavail", "corrupt", "timeout", "close", "resume"}
INVARIANTS
    TypeOK
    RequestsLive
    RequestLimits
    AvailVerified
    DownloadedIsChecked
    PfreqExact
    IovScheduled
PROPERTIES
    NoRewrite
