SPECIFICATION Spec

CONSTANTS
    Workers = {w1, w2}
    UserKeys = {"enabled", "disabledCategories"}
    Browsers = {"chrome"}
    RemoteCached = FALSE
    MayOverlap = TRUE
    Faulty = {}
    MaxFaults = 0
    MaxWrites = 3
    MaxRestarts = 0

INVARIANT ClosedIsInert

CHECK_DEADLOCK FALSE
