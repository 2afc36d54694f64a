CONSTANTS
  Base = 3
  Limit = 16
  Sizes <- MCSizes
  Aligns <- MCAligns
SPECIFICATION Spec
INVARIANTS ListInv LiveBacked NoLeak FailureIsGenuine
PROPERTIES AnswerHonoured CallReturns ImplementsAllocator
