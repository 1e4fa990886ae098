SPECIFICATION FairSpec
CONSTANTS
  Clients = {1}
  MAX_EVENTS = 2
  MAX_EVENTS_PER_REPLY = 1
  PromptWake = TRUE
  MaxSeq = 4
  MaxEpoch = 2
  MaxDrops = 1
INVARIANTS TypeOK CursorHonest
PROPERTIES CursorForward Delivered
CHECK_DEADLOCK FALSE
