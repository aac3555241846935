SPECIFICATION FairSpec

CONSTANTS
    Cap = 2
    MaxEvents = 3
    MaxRestarts = 0
    MaxClears = 1
    MaxFaults = 0

INVARIANT ClearedStaysCleared

CHECK_DEADLOCK FALSE
