CONSTANTS
  Conn = {c1, c2}
  Obj = {o1, o2}
  Listener = Listener
  Null = Null
  Backend = "epoll"
  MaxSend = 1
  TxCap = 1
  Timeout = 1
  MaxTime = 1
  Signals = {}
  BufSize = 1
  FdLimit = 3
  AcceptFaults = {}
  Garbage = {0}
SYMMETRY Symmetry
SPECIFICATION Spec
INVARIANT PendingHasTimer
