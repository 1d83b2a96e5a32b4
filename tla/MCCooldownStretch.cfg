SPECIFICATION Spec
CONSTANTS
  MAX_CONNECTIONS_PER_WORKER = 4
  BITS_PER_COOLDOWN_CHUNK = 2
  TIMING_WHEEL_TICKS = 3
  MAX_SEC = 6
INVARIANT CooldownEnds
