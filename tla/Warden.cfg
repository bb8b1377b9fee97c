SPECIFICATION Spec
CONSTANTS
  Clients = {k1, k2}
  arm = arm
  cam = cam
  Names = {arm, cam}
  Versions = 2
  Broken = Broken
  Invalid <- Disagreeing
  Torn = Torn
  Commands = {"up", "down", "apply", "restart", "restart_all"}
  MaxEdits = 1
  MaxDeaths = 1
SYMMETRY Symmetry
INVARIANT
  TypeOK
PROPERTIES
  ReturnMeansApplied
  OnlyChangedStop
  SweepAtBoundary
