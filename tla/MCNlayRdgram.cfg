SPECIFICATION RdmSpec
CONSTANTS
  SeqMod = 8
  HdrLen = 1
  Lens = {1, 2}
  MaxSend = 2
  SeqWindow = 3
  SendbufLens = {0, 4, 5}
  Thresholds = {0, 2, 3}
INVARIANTS AckedIsDelivered SendbufAccounting MaysendAccurate
CHECK_DEADLOCK FALSE
