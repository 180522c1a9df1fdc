CONSTANTS
  TcpAddrs = {t}
  QuicAddrs = {q}
  Foreign = {t}
  Files <- ChangingFiles
  Workers = {w1}
  Conns = {c1}
  Silent = {c1}
  MaxTries = 2
  MaxGen = 3
  MaxEdits = 2
SPECIFICATION Spec
SYMMETRY Sym
INVARIANTS ListenersMatch HandlersCurrent ServedToTheEnd
CHECK_DEADLOCK FALSE
