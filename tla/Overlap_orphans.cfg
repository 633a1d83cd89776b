SPECIFICATION LikelySpec
CONSTANTS
    N = 2
    MaxFaults = 2
INVARIANT
    InterruptedIsUndone
CHECK_DEADLOCK FALSE
