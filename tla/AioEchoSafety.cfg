CONSTANTS
  Conn = {c1, c2}
  Obj = {o1, o2}
  Listener = Listener
  Null = Null
  Backend = "epoll"
  MaxSend = 2
  TxCap = 1
  Timeout = 1
  MaxTime = 0
  Signals = {}
  BufSize = 2
  FdLimit = 3
  AcceptFaults = {}
  Garbage = {0}
SYMMETRY Symmetry
SPECIFICATION Spec
INVARIANTS
  TypeOK
  MemorySafe
  OneOperation
  Drained
  ReadResumes
  AcceptResumes
PROPERTIES
  CallsLiveObject
