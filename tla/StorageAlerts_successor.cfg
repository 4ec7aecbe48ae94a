\* Two storages in turn under one id: the second has failed once when it is alarmed.
SPECIFICATION Spec
CONSTANTS
    s1 = s1
    r1 = r1
    Storages = {s1}
    Runs = {r1}
    Total = 100
    Frees = {20}
    Rounds = {0}
    Usuals = {0}
    Margin = 1
    MaxAge = 1
    MaxMoves = 3
    MaxFailures = 0
    MaxRestarts = 0
PROPERTIES OneMissIsABlip
CHECK_DEADLOCK FALSE
