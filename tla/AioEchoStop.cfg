CONSTANTS
  Conn = {c1}
  Obj = {o1, o2}
  Listener = Listener
  Null = Null
  Backend = "epoll"
  MaxSend = 3
  TxCap = 1
  Timeout = 1
  MaxTime = 2
  Signals = {"stop"}
  BufSize = 2
  FdLimit = 1
  AcceptFaults = {"accept", "fcntl"}
  Garbage = {0}
SPECIFICATION FairSpec
PROPERTIES
  StopsEventually
  ExpiresEventually
CHECK_DEADLOCK FALSE
