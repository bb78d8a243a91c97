SPECIFICATION FairSpec
CONSTANTS
  Requests = {r1, r2}
  Keys = {k1, k2}
  MaxFork = 1
INVARIANTS TypeOK Purged TrackedUnlessRaced
PROPERTY StaleEntriesEnd
CHECK_DEADLOCK FALSE
