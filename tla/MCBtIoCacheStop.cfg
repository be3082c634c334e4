CONSTANTS
    TotLen = 2
    BlockLen = 2
    PieceLen = 2
    PoolMaxlen = 2
    Ranges <- MCRanges1
    Slot = {s1}
    NoSlot = NoSlot
    MaxWrite = 1
    Cleaning = FALSE
    DiskFull = FALSE
SPECIFICATION FairSpec
PROPERTY StoppingCompletes
CHECK_DEADLOCK FALSE
