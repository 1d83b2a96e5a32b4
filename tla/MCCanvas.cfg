SPECIFICATION CanvasSpec
CONSTANTS
  Color = {0, 1}
  LANES = 2
  MAX_COUNT = 6
  MAX_LEN = 9
  Worker = {w1}
  CANVAS_BUFFER_POOL_SIZE = 4
  FULL_BROADCAST_INTERVAL = 3
  RawPart = {r1, r2}
  CompPart = {c1}
  LenPart = len
  MAX_PUBLICATIONS = 9
INVARIANTS
  PoolInv
  ActiveIntact
  TornOnlyIfLapped
  LoopInv
  LongestRuns
  RoundTrip
PROPERTIES
  StepsShrink
  Terminates
