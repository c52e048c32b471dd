SPECIFICATION CrewSpec
CONSTANTS
  w1 = w1
  w2 = w2
  w3 = w3
  r1 = r1
  r2 = r2
  Pushers = {w1, w2, w3}
  Poppers = {r1, r2}
  NumElm = 4
  PushNums = {1, 2}
  PopRequests <- PeekTwo
  MaxLag = 3
  NULL = NULL
INVARIANTS RingOrder NoSlotRace IndInv
PROPERTIES ImplementsReserveCommit CommitsEventually
