SPECIFICATION FairSpec
CONSTANTS
    MaxRows = 3
    Poison = {2}
    FetchMax = 2
    MaxAckPending = 2
    MaxDeaths = 2
    MaxLost = 2
INVARIANTS TypeOK CopiesNeedCause
PROPERTIES LogDrains RefinesDurableLog
CHECK_DEADLOCK FALSE
