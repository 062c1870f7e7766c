SPECIFICATION Spec
CONSTANTS
    Key = {k1}
    Size = {0, 1}
    MaxPending = 3
    MaxUpdates = 3
    MaxCopies = 1
    MaxLagging = 1
INVARIANT ReplayGapAsks
CHECK_DEADLOCK FALSE
