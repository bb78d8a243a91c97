SPECIFICATION FairSpec
CONSTANTS
  Connections = {c1}
  MAX_WS_CONNECTIONS = 1
  CAPACITY = 1
  MAX_BATCH = 2
  Requests <- MCRequests
  Feed <- MCFeed
  MaxRequests = 2
  a1 = a1
  a2 = a2
  t1 = t1
  t2 = t2
INVARIANTS TypeOK UnsubscribedIsQuiet NoGap NotUndercounted
PROPERTIES KeepsUp ImplementsFeed
CHECK_DEADLOCK FALSE
