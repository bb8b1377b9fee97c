SPECIFICATION LoggerSpec
CONSTANTS
  Readers = {log, r}
  Writer = w
  None = None
  Log = log
  WRITE_FAIL_LIMIT = 2
  StartRetries = 1
  MaxWrites = 2
  MaxMisses = 2
  MaxStops = 2
  Bytes <- MCBytes
  FRAME_CAP = 3
INVARIANT
  NewestShown
