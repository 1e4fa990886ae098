SPECIFICATION FairSpec
CONSTANTS
  Files = {f}
  Handles = {1}
  FileOf <- MCFileOf
  Threads = {t1, t2}
  Flusher = flusher
  MaxOffset = 2
  MaxLen = 2
  MaxWrites = 2
  MaxCalls = 1
  MaxFaults = 1
  Ops = {"flush", "fsync", "read"}
  WRITE_BUFFER_LIMIT = 2
  MAX_INFLIGHT_UPLOAD_BYTES = 2
CHECK_DEADLOCK FALSE
INVARIANTS TypeOK NothingLost NoOverlap WindowExact FailuresKept
PROPERTIES FlushDrains CallsEnd
