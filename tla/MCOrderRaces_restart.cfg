CONSTANTS
    StartingCapital = 1000
    Products = {"MIS"}
    Leverage <- MCLeverage
    Pollers = {e1}
    Tickers = {}
    Users = {u1}
    Handlers = {"place"}
    Requests <- MCMixed
    Quantities = {2}
    Prices = {100, 200}
    Arrivals = {0}
    MaxOrders = 3
    MaxCrashes = 2
    Outages = TRUE
SPECIFICATION FairSpec
PROPERTIES
    ImplementsLifecycle
    MarketOrderLeavesOpen
CHECK_DEADLOCK FALSE
