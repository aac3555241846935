SPECIFICATION Spec

CONSTANTS
    Workers = {w1, w2}
    UserKeys = {"enabled", "disabledCategories"}
    Browsers = {"chrome"}
    RemoteCached = TRUE
    MayOverlap = TRUE
    Faulty = {"updateDynamicRules", "getDynamicRules", "fetch"}
    MaxFaults = 2
    MaxWrites = 2
    MaxRestarts = 1

INVARIANT PassConverges
INVARIANT PassCloses
INVARIANT MirrorKeySound
PROPERTY SuccessMeansInert

CHECK_DEADLOCK FALSE
