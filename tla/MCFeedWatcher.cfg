SPECIFICATION WatcherSpec
CONSTANTS
  N = 3
  Handlers = {h1, h2}
  Announce = 2
  MaxChanges = 3
INVARIANTS WatcherTypeOK Announced
SYMMETRY Symmetry
CHECK_DEADLOCK FALSE
