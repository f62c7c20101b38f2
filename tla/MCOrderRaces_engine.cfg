CONSTANTS
    StartingCapital = 250
    Products = {"MIS"}
    Leverage <- MCLeverage
    Pollers = {e1}
    Tickers = {}
    Users = {u1, u2}
    Handlers = {"place", "cancel"}
    Requests <- MCResting
    Quantities = {1}
    Prices = {100, 200}
    Arrivals = {0}
    MaxOrders = 3
    MaxCrashes = 0
    Outages = FALSE
SPECIFICATION Spec
INVARIANTS
    TypeOK
    CashConserved
    PositionMatchesTrades
PROPERTIES
    BlockNeverOverdraws
CHECK_DEADLOCK FALSE
