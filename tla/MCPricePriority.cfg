SPECIFICATION Spec
CONSTANTS
    None = None
    Prices = {2, 4, 6}
    Sizes = {1}
    MaxOrders = 2
    MaxEvents = 3
    Quotes <- MCQuotes
    TradePrices = {2}
    Amounts = {1}
    PartialFills = TRUE
    SnapshotFirst = TRUE
    MaxCalls = 2
INVARIANTS
    PricePriority
CHECK_DEADLOCK FALSE
