SPECIFICATION MCSpec
CONSTANTS
  MAX_CONNECTIONS_PER_WORKER = 2
  ConnId = {c1,c2,c3,c4,c5,c6}
  BROADCAST_INTERVAL_MS = 3
  CONN_TIMEOUT_THROTTLE_MS = 1
  MS_PER_SEC = 2
  WORD = 64
  MAX_MS = 8
  MAX_ELAPSED = 5
  MAX_JUMPS = 2
INVARIANTS
  TransportInv
  ClockInv
PROPERTIES
  RoutesAreSticky
  CapacityRecovers
  TimersCatchUp
