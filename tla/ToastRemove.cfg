SPECIFICATION Spec

CONSTANTS
    RewriteMax = 2
    MaxClicks = 2

INVARIANT RemoveMeansRemoved

CHECK_DEADLOCK FALSE
