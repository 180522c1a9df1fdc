CONSTANTS
  Requests = {r1, r2, r3, r4}
  Slots = {s1, s2}
  None = None
  Configs <- AllConfigs
SPECIFICATION FairSpec
INVARIANTS ItemInOnePlace SenderInOnePlace OneExchange LimitKept
PROPERTIES BusyConnectionKept WaitEnds
CHECK_DEADLOCK FALSE
