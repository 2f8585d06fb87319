CONSTANTS
  Conn = {c1, c2}
  Obj = {o1, o2}
  Listener = Listener
  Null = Null
  Backend = "kqueue"
  MaxSend = 2
  TxCap = 1
  Timeout = 1
  MaxTime = 0
  Signals = {"other"}
  BufSize = 1
  FdLimit = 3
  AcceptFaults = {}
  Garbage = {0}
SYMMETRY Symmetry
SPECIFICATION Spec
INVARIANTS
  ReadResumes
CHECK_DEADLOCK FALSE
