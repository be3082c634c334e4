SPECIFICATION Spec
CONSTANTS
  SeqMod = 1
  HdrLen = 1
  Mtus = {3, 4}
  Lens = {4, 5}
  PoolMaxSize = 2
  MaxSend = 2
  MaxCopies = 2
  MaxDup = 3
INVARIANTS TypeOK AtMostCopies
PROPERTIES ImplementsDgram
CHECK_DEADLOCK FALSE
