SPECIFICATION FairSpec
CONSTANTS
    TradeFeeds = {t1}
    BookFeeds = {b1}
    MaxRows = 1
    Buffer = 1
    MaxTrades = 3
    MaxChanges = 1
INVARIANTS TypeOK NoRowRefused CleanExitStoresAll ConnectionClosedLast
PROPERTIES FlushesEnd InterruptEnds
CHECK_DEADLOCK FALSE
