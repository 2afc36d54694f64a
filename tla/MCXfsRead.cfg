CONSTANTS
  BSIZE = 4
  SECTOR = 2
  MAX_DMA = 8
  ALIGN = 2
  Files <- MCFiles
  Lens <- MCLens
  Positions <- MCPositions
  Stack <- MCStack
  WORD = 64
SPECIFICATION Spec
INVARIANTS InBounds SliceRight
PROPERTIES ReadEnds ImplementsFile
