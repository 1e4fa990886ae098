SPECIFICATION FairSpec
CONSTANTS
  Slots = {s1}
  Ops = {o1, o2}
  NoOp = NoOp
  operation_retries = 1
  MaxConns = 3
  MaxBreaks = 1
  MaxKills = 1
INVARIANTS TypeOK
PROPERTIES ImplementsOnce OpsEnd
CHECK_DEADLOCK FALSE
