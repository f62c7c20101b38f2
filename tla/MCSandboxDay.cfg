CONSTANTS
    StartingCapital = 100
    Products = {"CNC", "MIS"}
    Leverage <- MCLeverage
    Symbols = {s1, s2}
    s1 = s1
    s2 = s2
    PriceTypes = {"MARKET"}
    Quantities = {1}
    Prices = {100}
    InitialHoldings = {1}
    MaxOrders = 4
    MaxDays = 1
SYMMETRY SymbolSymmetry
SPECIFICATION DaySpec
INVARIANTS
    DayTypeOK
    SharesAreAccountedFor
    ClosedPositionHoldsNoMargin
PROPERTIES
    ClosedOrderIsFinal
CHECK_DEADLOCK FALSE
