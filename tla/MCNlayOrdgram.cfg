SPECIFICATION NFairSpec
CONSTANTS
  SeqMod = 8
  HdrLen = 1
  Lens = {1, 2}
  MaxSend = 3
  SeqWindow = 3
  SendbufLens = {}
  Thresholds = {}
  RecvbufMaxLen = 3
INVARIANTS DeliveredInOrder AckedIsKept RecvbufBounded
PROPERTIES ImplementsChannel EventuallyDelivered
CHECK_DEADLOCK FALSE
