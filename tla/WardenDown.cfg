SPECIFICATION Spec
CONSTANTS
  Clients = {k1}
  arm = arm
  cam = cam
  Names = {arm}
  Versions = 1
  Broken = Broken
  Invalid = {}
  Torn = Torn
  Commands = {"up", "down"}
  MaxEdits = 0
  MaxDeaths = 0
PROPERTY
  DownMeansGone
