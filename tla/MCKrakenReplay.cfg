SPECIFICATION Spec
CONSTANTS
    Venues = {"kraken"}
    Bid = {1, 2, 3}
    Ask = {4, 5}
    Start = {1, 2, 4}
    BookDepth = 1
    ShowDepth = 2
    None = None
    MaxMoves = 3
    MaxFaults = 0
INVARIANTS StreamReplays
