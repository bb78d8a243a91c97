SPECIFICATION FairSpec
CONSTANTS
  Upstreams = {u1, u2}
  WsUpstreams = {u1}
  MaxNumber = 2
  MaxFork = 1
  MaxRestarts = 1
  MaxFailures = 1
  MaxConnections = 1
INVARIANTS TypeOK NoOrphanAtHead InStep LogsInOrder
PROPERTIES ReorgsAreReal HeadSettles FallsBack
CHECK_DEADLOCK FALSE
