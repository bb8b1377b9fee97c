SPECIFICATION Spec
CONSTANTS
  speed = speed
  zone = zone
  Keys <- MCKeys
  Values <- MCValues
  InRange <- MCInRange
  Misfit = Misfit
  WRITE_FAIL_LIMIT = 2
  MaxChanges = 3
  MaxStops = 2
INVARIANTS
  RangeKept
  LastSetWins
  PersistedSurvives
  AppliedOnce
  FrameNamesContent
