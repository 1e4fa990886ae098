SPECIFICATION Spec
CONSTANTS
  Files = {f}
  Handles = {1}
  FileOf <- MCFileOf
  Threads = {t1}
  Flusher = flusher
  MaxOffset = 1
  MaxLen = 1
  MaxWrites = 2
  MaxCalls = 1
  MaxFaults = 0
  Ops = {"flush"}
  WRITE_BUFFER_LIMIT = 2
  MAX_INFLIGHT_UPLOAD_BYTES = 2
INVARIANTS Durable
