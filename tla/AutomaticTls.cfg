CONSTANTS
  SiteLists <- AllSites
  Clients <- TwoHosts
  DefaultPort = 443
  IpHosts <- Addresses
  LocalHosts <- Locals
  None = None
  Life = 2
  Before = 1
  RetryAfter = 1
  Sizes = {1}
  Ari = FALSE
  MaxClock = 2
  MaxRestarts = 1
  MaxFailures = 1
  MaxQueue = 1
SPECIFICATION FairSpec
INVARIANTS DomainsKept OneConfigPerHost ChallengeAnswerable
PROPERTIES ClientsCertified
