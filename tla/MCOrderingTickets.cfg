SPECIFICATION FairSpec
CONSTANTS
  Threads = {t1, t2, t3}
  NumElm = 5
  Cores = 2
  PopNums <- OneElement
  MaxClaims = 9
INVARIANTS TypeOK TicketsFollowClaims OneTurn
PROPERTIES OutputFollowsInput TicketsServed
