\* Two workers and the watchdog, a window of two ticks, one failed call or crash.
CONSTANTS
  Workers = {w1,w2}
  Threshold = 2
  MaxTime = 6
  MaxEnds = 2
  MaxPauses = 1
  MaxFaults = 1
SPECIFICATION TaskSpec
INVARIANTS RecoversOnce NoEarlyAlarm
PROPERTIES EveryEpisodeIsTold
CHECK_DEADLOCK FALSE
