SPECIFICATION Spec
CONSTANTS
  Clock = cam0
  Paired = {act}
  Window = {}
  CLOCK_BUFFER = 2
  PAIR_CACHE = 8
  MAX_FRAMES = 3
  CLOCK_TIMEOUT = 1
  CLOCK_PERIOD = 1
  AskedPeriods = {0}
  Tol <- MCTol
  Epoch = 2
  MaxPublished = 4
  MaxWall = 3
  MaxRestarts = 1
  MaxBackSteps = 0
INVARIANT
  PairedExactly
