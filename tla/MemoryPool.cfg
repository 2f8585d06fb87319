CONSTANTS
  ChunkSize = 3
  MaxChunks = 2
CHECK_DEADLOCK FALSE
SPECIFICATION Spec
INVARIANTS
  Exclusive
  NothingLost
  NoWaste
