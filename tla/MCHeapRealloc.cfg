CONSTANTS
  Base = 3
  Limit = 15
  Sizes <- MCSizes
  Aligns <- MCAligns
SPECIFICATION Spec
INVARIANT ContentsKept
