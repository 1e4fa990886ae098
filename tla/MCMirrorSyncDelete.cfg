SPECIFICATION Spec
CONSTANTS
  Paths <- MCPaths
  Position <- MCPosition
  Dirs <- MCDirs
  DirOf <- MCDirOf
  Top = "top"
  Commands <- MCCommands
  Quiet = TRUE
  MaxEdits = 3
  MaxNow = 2

PROPERTIES DeletesOnlyUnchanged
