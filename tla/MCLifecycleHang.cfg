SPECIFICATION FairSpec
CONSTANTS
    TradeFeeds = {t1}
    BookFeeds = {b1}
    MaxRows = 1
    Buffer = 1
    MaxTrades = 3
    MaxChanges = 0
PROPERTY ExitNeverHangs
CHECK_DEADLOCK FALSE
