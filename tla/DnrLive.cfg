SPECIFICATION FairSpec

CONSTANTS
    Workers = {w1}
    UserKeys = {"enabled", "disabledCategories", "whitelist", "blacklist"}
    Browsers = {"chrome", "firefoxMV2"}
    RemoteCached = TRUE
    MayOverlap = FALSE
    Faulty = {}
    MaxFaults = 0
    MaxWrites = 3
    MaxRestarts = 2

PROPERTY EventuallyConverged

CHECK_DEADLOCK FALSE
