SPECIFICATION Spec
CONSTANTS
    Views <- BothViews
    Minute = 2
    Lag = 2
    Ttl <- Retention
    Name = {1}
    History <- OldRows
    Today = 3
    MaxTick = 6
    MaxRows = 1
    MaxLate = 1
    MaxScan = 1
    MaxStops = 1
INVARIANTS SeedsFullHistory
CHECK_DEADLOCK FALSE
