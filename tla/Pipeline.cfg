SPECIFICATION Spec
CONSTANTS
    r1 = r1
    r2 = r2
    k1 = k1
    k2 = k2
    None = None
    Runs = {r1, r2}
    Keys = {k1, k2}
    MaxCancels = 1
    Plans <- OneOrTwo
INVARIANTS ResultIsTrue NothingIsLeft
PROPERTIES EveryRunReturns ImplementsPublishing
CHECK_DEADLOCK FALSE
