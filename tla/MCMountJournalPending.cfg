SPECIFICATION FairSpec
CONSTANTS
  Mutators = {m}
  Twofold = {}
  DEFAULT_OP_RETRIES = 2
  MaxOps = 3
  MaxFaults = 3
  MaxCrashes = 0

PROPERTY PendingKept
CHECK_DEADLOCK FALSE
