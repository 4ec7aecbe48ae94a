\* A task is deleted while a tick enqueues it and a worker claims the run.
CONSTANTS
  Workers = {w1}
  Clis = {}
  Deleters = {d1}
  MaxTask = 2
  MaxRun = 3
  Retries <- MCRetries
  MaxRestarts = 0
  MaxFaults = 0
SPECIFICATION Spec
INVARIANTS RowOwned
CHECK_DEADLOCK FALSE
