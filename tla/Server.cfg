SPECIFICATION Spec
CONSTANTS
  max_rps = 2
  TicksPerSecond = 3
  MaxTime = 4
  Configs <- MCConfigs
  Registries <- MCRegistries
  Requests <- MCRequests
INVARIANTS TypeOK WithinLimit RefusesOnlyAtLimit UpstreamsAsListed RequestsReachTheirChain
