SPECIFICATION FairSpec
CONSTANTS
  NoKey = NoKey
  NoTask = NoTask
  Tasks = {a, b}
  HttpTasks = {a}
  Keys = {k1}
PROPERTY CallReturns
CHECK_DEADLOCK FALSE
