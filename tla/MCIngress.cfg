SPECIFICATION IngressSpec
CONSTANTS
  MAX_CONNECTIONS_PER_WORKER = 2
  BITS_PER_COOLDOWN_CHUNK = 2
  TIMING_WHEEL_TICKS = 2
  MAX_SEC = 3
  ConnId = {c1, c2, c3, c4}
  SPSC_CAPACITY = 2
  MAX_PIXELS = 2
SYMMETRY Symmetry
INVARIANTS
  IngressInv
  LossMeansStall
PROPERTY ConnectionRate
