SPECIFICATION FairSpec
CONSTANTS
  Clock = cam0
  Paired = {act}
  Window = {}
  CLOCK_BUFFER = 2
  PAIR_CACHE = 8
  MAX_FRAMES = 2
  CLOCK_TIMEOUT = 1
  CLOCK_PERIOD = 1
  AskedPeriods = {0}
  Tol <- MCTol
  Epoch = 2
  MaxPublished = 3
  MaxWall = 3
  MaxRestarts = 0
  MaxBackSteps = 1
INVARIANTS
  TypeOK
  BuffersBounded
  RowsInOrder
  PairedExactly
  NoSilentGap
PROPERTIES
  Implements
  SilenceEndsRecording
