\* A task is deleted while a sweep is pruning it, and another task's run ends.
CONSTANTS
  Tasks = {t1, t2}
  Storages = {s1}
  Sweepers = {cron}
  Policies <- OnlyKeepLast
  Locked = {}
  DayLen = 1
  WeekLen = 2
  MonthLen = 3
  MinGap = 1
  DeleteMidSweep = TRUE
  MaxTime = 3
  MaxRuns = 3
  MaxEdits = 1
  MaxFaults = 0
SPECIFICATION Spec
INVARIANTS NothingStrands
CHECK_DEADLOCK FALSE
