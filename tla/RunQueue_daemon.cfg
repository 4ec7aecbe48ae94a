\* The daemon alone: two workers, two tasks, a crash or a shutdown, a store error.
CONSTANTS
  Workers = {w1, w2}
  Clis = {}
  Deleters = {}
  MaxTask = 2
  MaxRun = 3
  Retries <- MCRetries
  MaxRestarts = 1
  MaxFaults = 1
SPECIFICATION FairSpec
INVARIANTS RowOwned Truthful FailuresAreFollowedUp
PROPERTIES TerminalIsFinal EveryRunEnds ImplementsTaskSlots
CHECK_DEADLOCK FALSE
