SPECIFICATION TableSpec
CONSTANTS
  Names = {a, b}
  Threads = {t1, t2}
  MaxDepth = 2
  MaxIno = 4
SYMMETRY Symmetry
INVARIANTS TableTypeOK MapsInverse RootPinned
PROPERTIES NoReuse
