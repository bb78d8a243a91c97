SPECIFICATION FairSpec
CONSTANTS
  NoKey = NoKey
  NoTask = NoTask
  Tasks = {a, b, c}
  HttpTasks = {a, b}
  Keys = {k1, k2}
INVARIANTS TypeOK ChannelOwned NoLostBroadcast
PROPERTIES ImplementsSharedCall ReturnsUnlessOrphaned
CHECK_DEADLOCK FALSE
