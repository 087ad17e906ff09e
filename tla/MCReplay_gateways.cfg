SPECIFICATION LiveSpec
CONSTANTS
    Openings = {3, 5}
    Stamp <- ItsOwn
    Readers = {r1, r2}
    MayLag = FALSE
    Window = 1
    LimitStep = 2
    LimitAhead = 1
    CacheMax = 1
    FirstClock = 2
    LastClock = 5
    MaxFaults = 2
INVARIANTS NeverAgain PauseIsBounded
PROPERTY LimitKeepsUp
