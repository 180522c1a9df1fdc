CONSTANTS
  SiteLists <- OneSite
  Clients <- OneHost
  DefaultPort = 443
  IpHosts <- Addresses
  LocalHosts <- Locals
  None = None
  Life = 2
  Before = 1
  RetryAfter = 1
  Sizes = {1, 2}
  Ari = TRUE
  MaxClock = 4
  MaxRestarts = 0
  MaxFailures = 0
  MaxQueue = 1
SPECIFICATION Spec
PROPERTIES OrdersWhenDue
