CONSTANTS
  Sites <- MCSites
  Scenes <- MCScenes
  Indexes <- MCIndexes
  Scripts = {"s.php", "index.php"}
  CgiBin = "cgi-bin"
  Packed <- MCPacked
  Sizes = {2}
  Slots = {r1, r2}
  Ttl = 1
  Second = 2
  Width = 256
  MaxTime = 2
  MaxEdits = 2
  None = None
SYMMETRY AnyOrder
SPECIFICATION Spec
INVARIANTS ResolvedRight  NotModifiedCurrent RangeRight
CHECK_DEADLOCK FALSE
