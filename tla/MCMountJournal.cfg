SPECIFICATION FairSpec
CONSTANTS
  Mutators = {m}
  Twofold = {1}
  DEFAULT_OP_RETRIES = 2
  MaxOps = 2
  MaxFaults = 3
  MaxCrashes = 2
INVARIANTS TypeOK OkSettled CrashRecovered
PROPERTIES NoLateReplay JournalDrains
CHECK_DEADLOCK FALSE
