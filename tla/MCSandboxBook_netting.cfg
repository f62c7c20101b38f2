CONSTANTS
    StartingCapital = 210000
    Products = {"CNC", "MIS"}
    Leverage <- MCLeverage
    Symbols = {"S1"}
    PriceTypes = {"MARKET"}
    Quantities = {1, 2}
    Prices = {25200, 50400}
    InitialHoldings = {1}
    MaxOrders = 3
SPECIFICATION Spec
INVARIANTS
    PositionIsNetOfTrades
    ProfitIsCashFlow
CHECK_DEADLOCK FALSE
