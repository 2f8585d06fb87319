CONSTANTS
  Conn = {c1}
  Obj = {o1, o2}
  Listener = Listener
  Null = Null
  Backend = "epoll"
  MaxSend = 7
  TxCap = 2
  Timeout = 0
  MaxTime = 0
  Signals = {}
  BufSize = 4
  FdLimit = 1
  AcceptFaults = {"fcntl"}
  Garbage = {0}
  MsgSize = 3
SPECIFICATION AllFairSpec
INVARIANTS
  DataResumes
  EchoesWholeMessages
PROPERTIES
  MessageEchoed
