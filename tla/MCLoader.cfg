CONSTANTS
  Symbols <- MCSymbols
  Marks <- MCMarks
  IOMAX = 3
  Cells <- MCCells
  Disks <- MCDisks
  Frame <- MCFrame
SPECIFICATION Spec
INVARIANTS ImageRight TrampolinesSafe RedirectsLand DriversListed
PROPERTIES LoadEnds
