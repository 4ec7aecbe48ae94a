\* Two runs of one task start in the same minute.
CONSTANTS
  Tasks = {t1}
  Storages = {s1}
  Sweepers = {cron}
  Policies <- OnlyKeepLast
  Locked = {}
  DayLen = 1
  WeekLen = 2
  MonthLen = 3
  MinGap = 0
  DeleteMidSweep = FALSE
  MaxTime = 1
  MaxRuns = 2
  MaxEdits = 0
  MaxFaults = 0
SPECIFICATION Spec
INVARIANTS NewestHasObject
CHECK_DEADLOCK FALSE
