SPECIFICATION FairReplaySpec
CONSTANTS
    None = None
    Prices = {2, 4, 6}
    Sizes = {1}
    MaxOrders = 1
    MaxEvents = 6
    Quotes <- MCQuotes
    TradePrices = {4}
    Amounts = {1}
    PartialFills = FALSE
    SnapshotFirst = FALSE
    MaxCalls = 1
    Bad = Bad
    Files <- MCFiles
    QuoteAt <- MCQuoteAt
    Windows = {0, 1, 2}
INVARIANTS
    InOrder
    EachRowOnce
    NothingAfterBad
    BookIsCurrent
    ReportComplete
    SampleIsHead
PROPERTIES
    Termination
CHECK_DEADLOCK FALSE
