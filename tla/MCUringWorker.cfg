SPECIFICATION UringSpec
CONSTANTS
  TX_CAPACITY = 3
  Buf = {b1, b2}
  SQ_DEPTH = 2
  CQ_CAP = 4
  PENDING_CAP = 3
INVARIANT UringInv
PROPERTIES
  PassIsBounded
  TxComesBack
\* A worker that waits for a completion that cannot come has stopped.
CHECK_DEADLOCK FALSE
