SPECIFICATION FairSpec
CONSTANTS
  Threads = {t1, t2, t3}
  Nodes = {n1, n2}
  HeadNode = HeadNode
  NULL = NULL
INVARIANTS LinksIntoQueue Mutex FirstComeFirstServed QNodesAlive
PROPERTIES ImplementsFifo PopReturns
