SPECIFICATION Spec
CONSTANTS
    None = None
    Prices = {0, 2, 4, 6}
    Sizes = {0, 1, 3}
    MaxOrders = 2
    MaxEvents = 3
    Quotes <- MCQuotes
    TradePrices = {4}
    Amounts = {0, 1, 2}
    PartialFills = TRUE
    SnapshotFirst = FALSE
    MaxCalls = 2
INVARIANTS
    EveryFillRecorded
CHECK_DEADLOCK FALSE
