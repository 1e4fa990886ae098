SPECIFICATION FairSpec
CONSTANTS
  Versions = {"v1", "v2", "v3"}
  Size <- MCSize
  Name <- MCName
  Retries = 1
  QuietFile = TRUE
  MaxBreaks = 2
  MaxEdits = 1
  MaxCrashes = 1
INVARIANTS TypeOK
PROPERTIES ImplementsAtomicPut Healed
CHECK_DEADLOCK FALSE
