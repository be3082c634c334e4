SPECIFICATION NSpec
CONSTANTS
  SeqMod = 8
  HdrLen = 1
  Lens = {1}
  MaxSend = 3
  SeqWindow = 3
  SendbufLens = {}
  Thresholds = {}
  RecvbufMaxLen = 3
INVARIANT UserInOrder
CHECK_DEADLOCK FALSE
