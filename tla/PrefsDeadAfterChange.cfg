SPECIFICATION Spec

CONSTANTS
    Route = {"r1"}
    LoopCap = 1
    MaxChanges = 2
    MaxNavigations = 2
    MaxFailures = 0

INVARIANT PrefsReady

CHECK_DEADLOCK FALSE
