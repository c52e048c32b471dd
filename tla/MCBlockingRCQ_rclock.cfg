SPECIFICATION FairSpec
CONSTANTS
  Pushers = {w1, w2}
  Poppers = {r1}
  NumElm = 3
  PushNums = {1, 2}
  PopRequests <- PopAndPeek
  CancelWaits = TRUE
  NULL = NULL
INVARIANT TypeOK
PROPERTIES ImplementsRCLock ImplementsReserveCommit CallsReturn
