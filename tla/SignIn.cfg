\* Two requests in flight, two sign-ins with a second factor.
CONSTANTS
  Covered = FALSE
  Requests = {r1, r2}
  Challenges = {c1, c2}
  MaxFail = 2
  MaxChallengeFail = 2
  MaxStep = 1
  MaxMade = 2
  MaxSessions = 2
SPECIFICATION Spec
INVARIANTS ProofOnce ChallengeOnce GuessBudget
SYMMETRY Interchangeable
CHECK_DEADLOCK FALSE
