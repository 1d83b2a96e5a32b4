SPECIFICATION ActiveSpec
CONSTANTS
  Client = {c1}
  CANVAS_SIZE = 2
  Color = {0, 1}
  Unknown = unknown
  RUNS_PER_CHUNK = 1
  ENTRIES_PER_CHUNK = 1
  QUIC_DGRAM_QUEUE_LEN = 1
  FULL_BROADCAST_INTERVAL = 3
  CANVAS_BUFFER_POOL_SIZE = 2
  WINDOW = 2
  MAX_WRITES = 2
  MAX_FAULTS = 1
PROPERTY Resyncs
