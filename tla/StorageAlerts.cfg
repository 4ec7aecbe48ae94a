SPECIFICATION Spec
CONSTANTS
    s1 = s1
    r1 = r1
    Storages = {s1}
    Runs = {r1}
    Total = 100
    Frees = {4, 11, 20}
    Rounds = {0, 10}
    Usuals = {1}
    Margin = 1
    MaxAge = 3
    MaxMoves = 2
    MaxFailures = 1
    MaxRestarts = 1
INVARIANTS EpisodesAreTold SlowRunIsToldOnce
PROPERTIES NoFalseAlarm NothingIsMissed
CHECK_DEADLOCK FALSE
