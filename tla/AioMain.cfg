CONSTANTS
  MaxClients = 2
  MaxRuns = 2
CHECK_DEADLOCK FALSE
SPECIFICATION FairSpec
INVARIANTS
  AcceptNeverBlocks
  ReturnsTruth
PROPERTIES
  SignalsHandled
  StopHonoured
