SPECIFICATION FairMMSpec
CONSTANTS
    None = None
    Prices = {1, 2, 3, 4, 5, 6, 7, 8, 9, 10}
    Sizes = {2}
    MaxOrders = 10
    MaxEvents = 5
    Quotes <- MCQuotes
    TradePrices = {3, 7}
    Amounts = {1, 2}
    PartialFills = TRUE
    SnapshotFirst = FALSE
    MaxCalls = 4
    QuoteSize = 2
    HalfSpread = 2
    RepostThreshold = 1
INVARIANTS
    QuotesTracked
    QuotesFollowMid
    UnquotedOnlyIfFilled
    RaisesOnPriceOnly
PROPERTIES
    BacktestSpec
    Termination
CHECK_DEADLOCK FALSE
