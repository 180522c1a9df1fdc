CONSTANTS
  Kinds = {"fcgi", "scgi", "cgi"}
  Apps <- AllApps
  Chunks = 2
  HeadCap = 8
  PipeCap = 2
  None = None
SPECIFICATION FairSpec
INVARIANTS ResponseIntact
PROPERTIES ImplementsTwoStreams ExchangeEnds
CHECK_DEADLOCK FALSE
