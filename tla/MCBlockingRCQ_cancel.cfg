SPECIFICATION Spec
CONSTANTS
  Pushers = {w1, w2, w3}
  Poppers = {r1}
  NumElm = 3
  PushNums = {1}
  PopRequests <- PopOne
  CancelWaits = FALSE
  NULL = NULL
INVARIANT RingOrder
