\* Three accounts, two requests in flight.
CONSTANTS
  Ids = {u1, u2, u3}
  Token = token
  Patches = {r1, r2}
SPECIFICATION UsersSpec
INVARIANTS AdminRemains NobodyElsesSession
SYMMETRY Interchangeable
CHECK_DEADLOCK FALSE
