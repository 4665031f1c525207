SPECIFICATION FairSpec
CONSTANTS
    None = None
    Prices = {2, 4, 6}
    Sizes = {1}
    MaxOrders = 3
    MaxEvents = 3
    Quotes <- MCSomeSides
    TradePrices = {4}
    Amounts = {1}
    PartialFills = FALSE
    SnapshotFirst = FALSE
    MaxCalls = 1
PROPERTIES
    OrderSpec
    FillsReachStrategy
CHECK_DEADLOCK FALSE
