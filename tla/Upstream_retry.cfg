SPECIFICATION Spec
CONSTANTS
  Health = health
  Users = {u1}
  MAX_CONSECUTIVE_FAILURES = 3
  MAX_HTTP_ERRORS = 2
  HTTP_ERROR_WINDOW = 2
  BASE_BACKOFF = 1
  MAX_BACKOFF = 2
  DisabledRetry = 3
PROPERTY FailureKeepsRetry
CHECK_DEADLOCK FALSE
