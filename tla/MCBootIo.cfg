CONSTANTS
  Inodes <- MCInodes
  RootIno = 1
  DirVersions = {1, 2}
  BLOCKS = 11
  MAX_FDS = 4
  Paths <- MCPaths
  VhNames = {TRUE, FALSE}
SPECIFICATION Spec
INVARIANTS OneFsFile DescriptorsBalanced OpenFileBacked GoodPathOpens
PROPERTIES OnlyKnownLeaks ExecuteEnds
CHECK_DEADLOCK FALSE
