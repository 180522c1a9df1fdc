CONSTANTS
  TcpAddrs = {t}
  QuicAddrs = {q}
  Foreign = {}
  Files <- ReloadFiles
  Workers = {w1}
  Conns = {c1}
  Silent = {c1}
  MaxTries = 2
  MaxGen = 3
  MaxEdits = 2
SPECIFICATION FairSpec
PROPERTIES AcceptedIsHandled OldHandlersEnd QuicTlsCurrent
CHECK_DEADLOCK FALSE
