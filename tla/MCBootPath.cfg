CONSTANTS
  Inodes <- MCInodes
  RootIno = 1
  DirVersions = {1, 2}
  BLOCKS = 11
  MAX_FDS = 4
  Paths <- MCPaths
  VhNames = {TRUE, FALSE}
SPECIFICATION Spec
INVARIANT OpenedIsNamed
CHECK_DEADLOCK FALSE
