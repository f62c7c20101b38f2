CONSTANTS
    StartingCapital = 210000
    Products = {"MIS"}
    Leverage <- MCLeverage
    Symbols = {"S1"}
    PriceTypes = {"MARKET", "LIMIT", "SL", "SL-M"}
    Quantities = {1, 2}
    Prices = {25200, 50400}
    InitialHoldings = {0}
    MaxOrders = 2
SPECIFICATION Spec
INVARIANTS
    TypeOK
    CashConserved
    OneTradePerFilledOrder
PROPERTIES
    ClosedOrderIsFinal
    ImplementsLifecycle
CHECK_DEADLOCK FALSE
