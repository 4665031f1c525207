SPECIFICATION FairASSpec
CONSTANTS
    None = None
    Prices <- MCPrices
    Sizes = {2}
    MaxOrders = 12
    MaxEvents = 6
    Quotes <- MCQuotes
    TradePrices = {3, 7}
    Amounts = {1, 2}
    PartialFills = TRUE
    SnapshotFirst = FALSE
    MaxCalls = 4
    QuoteSize = 2
    Risks = {2}
    Arrivals = {4}
    ConfiguredArrival = 2
    SigmaWindow = 3
    KWindow = 2
    RepostThreshold = 1
INVARIANTS
    InventoryAgrees
    QuotesTracked
    QuotesLean
    RaisesOnPriceOnly
PROPERTIES
    BacktestSpec
    Termination
CHECK_DEADLOCK FALSE
