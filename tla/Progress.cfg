\* Two viewers, a ring of two events and a channel of one, one id living twice; with
\* a terminal event after each report, one report fills the channel.
CONSTANTS
  Viewers = {v1, v2}
  TailMax = 2
  SubBuf = 1
  MaxReports = 1
  MaxSubs = 2
  MaxLives = 2
SPECIFICATION Spec
INVARIANTS StreamInOrder OutcomeIsTold
PROPERTIES EveryStreamEnds RevokedStreamEnds
CHECK_DEADLOCK FALSE
