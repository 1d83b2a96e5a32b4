SPECIFICATION MasterSpec
CONSTANTS
  NUM_WORKERS = 2
  SPSC_CAPACITY = 2
  MASTER_BATCH_DRAIN = 2
  CANVAS_WIDTH = 2
  CANVAS_HEIGHT = 2
  Pixel <- MCPixel
INVARIANT MasterInv
PROPERTIES
  PassIsBounded
  AcceptedIsApplied
  ColourIsPublished
