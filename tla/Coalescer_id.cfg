SPECIFICATION Spec
CONSTANTS
  NoKey = NoKey
  NoTask = NoTask
  Tasks = {a, b}
  HttpTasks = {}
  Keys = {k1}
INVARIANT OwnId
CHECK_DEADLOCK FALSE
