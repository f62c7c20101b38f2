CONSTANTS
    StartingCapital = 1000
    Products = {"MIS"}
    Leverage <- MCLeverage
    Pollers = {}
    Tickers = {e1}
    Users = {u1}
    Handlers = {"place", "cancel", "modify"}
    Requests <- MCMixed
    Quantities = {2}
    Prices = {100}
    Arrivals = {0, 100}
    MaxOrders = 3
    MaxCrashes = 0
    Outages = FALSE
SPECIFICATION Spec
INVARIANTS
    CashConserved
    TradedOrderIsNotOpen
CHECK_DEADLOCK FALSE
