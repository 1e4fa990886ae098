SPECIFICATION Spec
CONSTANTS
  Clients = {1}
  MAX_EVENTS = 2
  MAX_EVENTS_PER_REPLY = 2
  PromptWake = FALSE
  MaxSeq = 6
  MaxEpoch = 1
  MaxDrops = 0
INVARIANTS CursorHonest
CHECK_DEADLOCK FALSE
