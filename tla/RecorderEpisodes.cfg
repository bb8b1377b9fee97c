SPECIFICATION FairSpec
CONSTANTS
  MAX_FRAMES = 1
  WRITE_FAIL_LIMIT = 2
  Bursts = {0, 2}
  MaxCaptures = 2
  MaxContexts = 1
  MaxVerdicts = 2
  MaxStops = 1
INVARIANTS
  TypeOK
  BundlesTrue
  VerdictsAccounted
  NoOrphans
  TelemetryCurrent
PROPERTIES
  Implements
  HandoverAnswered
