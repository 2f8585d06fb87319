CONSTANTS
  Conn = {c1}
  Obj = {o1}
  Listener = Listener
  Null = Null
  Backend = "epoll"
  MaxSend = 5
  TxCap = 2
  Timeout = 1
  MaxTime = 0
  Signals = {}
  BufSize = 3
  FdLimit = 2
  AcceptFaults = {}
  Garbage = {0}
SPECIFICATION EchoFairSpec
INVARIANTS
  BufferSafe
  WriteResumes
PROPERTIES
  EchoContract
  ReleasedEventually
  EchoedEventually
