\* One task, two storages, the cron's sweep and a manual one; the object of the
\* second upload is under a lock.
CONSTANTS
  Tasks = {t1}
  Storages = {s1, s2}
  Sweepers = {cron, manual}
  Policies <- SomePolicies
  Locked = {2}
  DayLen = 1
  WeekLen = 2
  MonthLen = 3
  MinGap = 1
  DeleteMidSweep = FALSE
  MaxTime = 3
  MaxRuns = 3
  MaxEdits = 1
  MaxFaults = 1
SPECIFICATION Spec
INVARIANTS ForgetIsPolicy BackupsAreThere NothingStrands ReportsAreExact
PROPERTIES SuperfluousGoes
CHECK_DEADLOCK FALSE
