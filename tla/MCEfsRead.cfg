CONSTANTS
  BB = 2
  PERBB = 2
  DIRECT = 2
  MAXEXTENTS = 5
  ALIGN = 2
  REACH = 256
  Files <- MCFiles
  Lens <- MCLens
  Positions <- MCPositions
  Junk <- MCJunk
  Dirents <- MCDirents
  Paths <- MCPaths
SPECIFICATION Spec
INVARIANTS EfsSliceRight ListTruthful EfsPathRight EfsBlocksBack
PROPERTIES EfsCallEnds
