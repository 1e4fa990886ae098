SPECIFICATION Spec
CONSTANTS
  Files = {f, g, h}
  Dir = Dir
  Workers = {w1}
  BLOCK_SIZE = 2
  MaxSize = 3
  capacity = 8
  Sizes = {3}
  Ranges <- MCRanges
  MaxChanges = 1
  Changes = {"failed", "tree", "reset"}
SYMMETRY Symmetry
INVARIANTS Accounting
