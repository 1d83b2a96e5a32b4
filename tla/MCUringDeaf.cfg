SPECIFICATION UringSpec
CONSTANTS
  TX_CAPACITY = 3
  Buf = {b1}
  SQ_DEPTH = 2
  CQ_CAP = 4
  PENDING_CAP = 3
INVARIANT ReceiveResubmitted
CHECK_DEADLOCK FALSE
