CONSTANTS
    TotLen = 5
    BlockLen = 2
    PieceLen = 4
    PoolMaxlen = 4
    Ranges <- MCRanges
    Slot = {s1, s2}
    NoSlot = NoSlot
    MaxWrite = 3
    Cleaning = TRUE
    DiskFull = TRUE
SPECIFICATION Spec
INVARIANTS Coherent PoolConsistent StoppedIsDurable WaitIsServed
SYMMETRY MCSymmetry
CHECK_DEADLOCK FALSE
