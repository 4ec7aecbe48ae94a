\* One shutdown, no store error: is every cut run retried or told?
CONSTANTS
  Workers = {w1}
  Clis = {}
  Deleters = {}
  MaxTask = 1
  MaxRun = 3
  Retries <- MCRetries
  MaxRestarts = 1
  MaxFaults = 0
SPECIFICATION Spec
INVARIANTS RestartLosesNothing
CHECK_DEADLOCK FALSE
