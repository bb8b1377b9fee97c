SPECIFICATION Spec
CONSTANTS
  Clock = cam0
  Paired = {act}
  Window = {}
  CLOCK_BUFFER = 2
  PAIR_CACHE = 8
  MAX_FRAMES = 3
  CLOCK_TIMEOUT = 1
  CLOCK_PERIOD = 1
  AskedPeriods = {0}
  Tol <- MCTol
  Epoch = 2
  MaxPublished = 5
  MaxWall = 4
  MaxRestarts = 0
  MaxBackSteps = 0
PROPERTY
  IdleFramesIgnored
