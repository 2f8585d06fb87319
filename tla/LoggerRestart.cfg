CONSTANTS
  Thread = {t1, t2}
  Null = Null
  Other = Other
  Stdout = 1
  Fd = {1, 3}
  EnableLock = TRUE
  RotateSize = 0
  Asked = "hourly"
  Reloads = {}
  Faults = {"init", "open", "rename"}
  MaxLines = 4
  MaxRuns = 2
  MaxTime = 1
  HourLen = 1
  DayLen = 1
CHECK_DEADLOCK FALSE
SPECIFICATION FairSpec
PROPERTIES
  LinesKept
  CallReturns
