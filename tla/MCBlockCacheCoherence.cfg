SPECIFICATION FairSpec
CONSTANTS
  Files = {f}
  Dir = Dir
  Workers = {w1, w2}
  BLOCK_SIZE = 2
  MaxSize = 3
  capacity = 8
  Sizes = {1, 3}
  Ranges <- MCRanges
  MaxChanges = 1
  Changes = {"write", "truncate", "replace", "tree", "reset", "late"}
INVARIANTS TypeOK Coherent ReadsAnnounced SingleFlight
PROPERTIES FetchEnds
