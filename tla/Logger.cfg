SPECIFICATION FairLogger
CONSTANTS
  Readers = {log, r}
  Writer = w
  None = None
  Log = log
  WRITE_FAIL_LIMIT = 2
  StartRetries = 1
  MaxWrites = 3
  MaxMisses = 2
  MaxStops = 1
  Bytes <- MCBytes
  FRAME_CAP = 3
INVARIANTS
  LoggerTypeOK
  FreshOnceUp
  FailFast
  RingIsNewest
PROPERTIES
  SharesOneCell
  ReadersRecover
