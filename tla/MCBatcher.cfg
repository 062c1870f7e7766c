SPECIFICATION FairSpec
CONSTANTS
    Producers = {p1, p2}
    MaxRows = 2
    Buffer = 1
    MaxOffers = 2
    MaxLostReplies = 1
INVARIANTS TypeOK ExactlyOnceInOrder NoRowVanishes LossNeedsDeadline CleanCloseFlushed InserterClosedLast
PROPERTIES RefinesRowLog CloseReturns CloseReleasesProducers RowsReachStorage
CHECK_DEADLOCK FALSE
