SPECIFICATION FairSpec
CONSTANTS
    Venues = {"coinbase", "kraken"}
    MaxRecent = 2
    Limit = 1
    Seed = 1
    None = None
    Numbers <- AllNumbers
    Prices <- SomePrices
    Decimals = 1
    MaxInt = 227
    Err = Err
    FrameMax = 2
    BackoffMin = 1
    BackoffMax = 2
    MaxMade = 2
INVARIANTS TypeOK TradesAreTrue StreamSkipsNothing
PROPERTIES EverythingIsPushed
