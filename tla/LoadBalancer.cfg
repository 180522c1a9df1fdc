CONSTANTS
  N = 2
  Requests = {r1, r2}
  Configs <- AllConfigs
  MaxFails = 0
  Ttl = 1
SPECIFICATION FairSpec
INVARIANTS PartsAvailable LastResort
PROPERTIES WarmForever EveryRequestAnswered
CHECK_DEADLOCK FALSE
