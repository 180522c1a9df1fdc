CONSTANTS
  SiteModules = 2
  ErrorModules = 1
  Statuses = {"s1", "s2"}
  Limit = 1
  Settings <- AllSettings
SPECIFICATION FairSpec
INVARIANTS ResponseChain MetricsClosed LoggedOnce ErrorConfigurationUsed
PROPERTIES EveryRequestEnds
CHECK_DEADLOCK FALSE
