SPECIFICATION Spec
CONSTANTS
  N = 4
  Role <- AllRoles
  Strategy = "round_robin"
  Requests = {r1}
  Cycle = 12
INVARIANTS TypeOK NeverTwice BetterTiersFirst ErrorsAreHonest
CHECK_DEADLOCK FALSE
