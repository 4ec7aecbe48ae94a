\* Everybody on one database: the pool, the command line, deleted and recreated
\* tasks; the daemon starts once, at any moment.
CONSTANTS
  Workers = {w1}
  Clis = {c1}
  Deleters = {d1}
  MaxTask = 2
  MaxRun = 2
  Retries <- MCRetries
  MaxRestarts = 0
  MaxFaults = 0
SPECIFICATION Spec
INVARIANTS OneActivePerTask NoOrphanRuns
CHECK_DEADLOCK FALSE
