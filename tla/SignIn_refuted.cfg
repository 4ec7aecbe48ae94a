\* What comments say and the code does not do: recovery codes made again while the last
\* factor is removed; one code checked twice, with a new enrolment in between; a sign-in
\* between whose steps the account is deleted and its id given out again. Each is violated;
\* the one to be shown is to stand without its comment mark.
CONSTANTS
  Covered = FALSE
  Requests = {r1, r2}
  Challenges = {c1, c2}
  MaxFail = 2
  MaxChallengeFail = 2
  MaxStep = 1
  MaxMade = 2
  MaxSessions = 2
SPECIFICATION Spec
INVARIANT CodesNeedFactor
\* INVARIANT CodeOnce
\* PROPERTY AttemptEndsWithAccount
SYMMETRY Interchangeable
CHECK_DEADLOCK FALSE
