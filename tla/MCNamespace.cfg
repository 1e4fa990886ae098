SPECIFICATION Spec
CONSTANTS
  Labels = {"a", "b", "c"}
  Paths <- MCPaths
  Readers = {r}
  InitTrees <- MCTrees
  MaxVersion = 3
  MaxReads = 1
INVARIANTS TypeOK Coherent
CHECK_DEADLOCK FALSE
