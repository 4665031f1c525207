SPECIFICATION OrderSpec
CONSTANTS
    Prices <- MCPrices
    Sizes <- MCSizes
    MaxOrders = 3
    MaxEvents = 1
INVARIANTS
    OrderTypeOK
    StatusCoherence
PROPERTIES
    OrdersOnlyProgress
    LedgerSpec
CHECK_DEADLOCK FALSE
