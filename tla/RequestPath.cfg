SPECIFICATION Spec
CONSTANTS
  c1 = c1
  c2 = c2
  Clients = {c1, c2}
  Menu <- MCMenu
  Length <- MCLength
  blocked_methods = {"debug_traceTransaction"}
  finality_depth = 0
  policies <- MCPolicies
  MaxNumber = 1
INVARIANTS TypeOK AnswersItsRequest ForwardedAsOftenAsMeant EntriesAreSound WaitsForExecution
