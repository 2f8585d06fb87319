CONSTANTS
  Thread = {t1, t2}
  Null = Null
  Other = Other
  Invalid = Invalid
  Handle = {n1, n2}
  EnableLock = TRUE
  RotateSize = 1
  Asked = "hourly"
  Reloads = {"both"}
  Faults = {"init", "open", "move"}
  MaxLines = 4
  MaxRuns = 2
  MaxTime = 1
  HourLen = 1
  DayLen = 2
CHECK_DEADLOCK FALSE
SPECIFICATION Spec
INVARIANTS
  TypeOK
  AppendsToLog
  OneHandle
  PeriodsApart
PROPERTIES
  NoneOverwritten
