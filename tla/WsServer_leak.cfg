SPECIFICATION Spec
CONSTANTS
  Connections = {c1}
  MAX_WS_CONNECTIONS = 1
  CAPACITY = 1
  MAX_BATCH = 1
  Requests <- MCRequests
  Feed <- MCFeed
  MaxRequests = 1
  a1 = a1
  a2 = a2
  t1 = t1
  t2 = t2
INVARIANT CountsActive
CHECK_DEADLOCK FALSE
