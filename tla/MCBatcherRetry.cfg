SPECIFICATION Spec
CONSTANTS
    Producers = {p1}
    MaxRows = 2
    Buffer = 1
    MaxOffers = 2
    MaxLostReplies = 1
INVARIANT RetryIsSafe
CHECK_DEADLOCK FALSE
