CONSTANTS
  Thread = {t1, t2}
  Null = Null
  Other = Other
  Stdout = 1
  Fd = {1, 3, 4}
  EnableLock = TRUE
  RotateSize = 2
  Asked = "none"
  Reloads = {"hourly"}
  Faults = {}
  MaxLines = 4
  MaxRuns = 1
  MaxTime = 3
  HourLen = 2
  DayLen = 4
CHECK_DEADLOCK FALSE
SPECIFICATION Spec
SYMMETRY Symmetry
INVARIANTS
  TypeOK
  WritesReachLog
  OneDescriptor
  OnePeriod
  SizeBounded
