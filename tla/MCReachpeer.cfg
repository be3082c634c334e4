CONSTANTS
    SilentDelay = 2
    UnreachDelay = 9
    ProbePeriod = 3
    NetDelay = 1
    Lossy = TRUE
SPECIFICATION Spec
INVARIANTS NoFalseAlarm DetectionBound VerdictOnTime
CHECK_DEADLOCK FALSE
