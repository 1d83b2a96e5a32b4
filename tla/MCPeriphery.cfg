\* Three starts on up to four cores, each cut anywhere;
\* three users with counters that wrap at eight.
CONSTANTS
  MAX_CORES = 4
  MAX_WORKERS = 9
  MAX_STARTS = 3
  User = {u1, u2, u3}
  WORD = 8
  DGRAM_LEN = 2
  MAX_COUNT = 3
SPECIFICATION Spec
SYMMETRY UserSymmetry
\* A start may panic, and users end.
CHECK_DEADLOCK FALSE
INVARIANTS
  FilesLoad
  CoresShared
  ClientInv
  RowsAddUp
