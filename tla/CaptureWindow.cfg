SPECIFICATION Spec
CONSTANTS
  Clock = cam0
  Paired = {}
  Window = {arm}
  CLOCK_BUFFER = 2
  PAIR_CACHE = 8
  MAX_FRAMES = 3
  CLOCK_TIMEOUT = 1
  CLOCK_PERIOD = 1
  AskedPeriods = {0, 1, 2}
  Tol <- MCTol
  Epoch = 2
  MaxPublished = 3
  MaxWall = 5
  MaxRestarts = 1
  MaxBackSteps = 0
INVARIANTS
  NoSilentGap
  RateHonoured
  GridWithinPeriod
