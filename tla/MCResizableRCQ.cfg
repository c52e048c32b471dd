SPECIFICATION FairSpec
CONSTANTS
  Pushers = {w1, w2}
  Poppers = {r1}
  PushNums = {1}
  PopRequests <- PopAndPeek
  MinNum = 3
  MaxNum = 6
  ElementsPerPage = 1
  GrowthPercent = 0
  ShrinkStartPercent = 60
  ShrinkPercent = 40
  PromptSize = TRUE
  SkipExactFit = TRUE
INVARIANTS SlotsInOrder WindowsInPlace LayoutAlone AssertionsHold
PROPERTIES ImplementsReserveCommit CallsReturn
