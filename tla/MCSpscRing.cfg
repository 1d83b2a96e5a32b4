SPECIFICATION Spec
CONSTANTS
  SPSC_CAPACITY = 2
  WORD = 4
  Value = {v1, v2}
  Uninit = uninit
  MAX_PUSHES = 6
INVARIANTS
  NoSlotRace
  RingInv
PROPERTY ImplementsFifo
