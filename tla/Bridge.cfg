SPECIFICATION FairSpec
CONSTANTS
  Streams = {cam}
  Boards = {}
  Channels = {doorbell}
  None = None
  QueueDepth = 2
  MaxMsgs = 3
  MaxValues = 2
  MaxRings = 3
INVARIANTS
  NoStrayTask
  EveryRingOnce
PROPERTIES
  SentOnlyWhileWanted
  ClientCatchesUp
  TasksEnd
CHECK_DEADLOCK FALSE
