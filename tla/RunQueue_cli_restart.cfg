\* The daemon is started while a `duskrun run` is in flight.
CONSTANTS
  Workers = {w1}
  Clis = {c1}
  Deleters = {}
  MaxTask = 1
  MaxRun = 3
  Retries <- MCRetries
  MaxRestarts = 0
  MaxFaults = 0
SPECIFICATION Spec
INVARIANTS OneExecutorPerTask
CHECK_DEADLOCK FALSE
