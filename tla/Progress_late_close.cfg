\* One viewer; the run's row is deleted before its executor announced the end, and the
\* id is the next run's.  Ring and channel hold every event.
CONSTANTS
  Viewers = {v1}
  TailMax = 4
  SubBuf = 4
  MaxReports = 1
  MaxSubs = 1
  MaxLives = 2
SPECIFICATION Spec
INVARIANTS EndIsTold
CHECK_DEADLOCK FALSE
