--------------------------- MODULE MCOrderRaces ---------------------------
(***************************************************************************)
(* Small instances of OrderRaces: intraday orders for one share or two.    *)
(***************************************************************************)
EXTENDS OrderRaces

MCLeverage == [p \in Products |-> 2]

LOCAL Ask(action, quantity, price_type, price) ==
    [action |-> action, product |-> "MIS", quantity |-> quantity,
     price_type |-> price_type, price |-> price, trigger_price |-> NoPrice]

LOCAL Stop(action, quantity, trigger) ==
    [action |-> action, product |-> "MIS", quantity |-> quantity,
     price_type |-> "SL-M", price |-> NoPrice, trigger_price |-> trigger]

\* Resting orders that an engine fills: a buy at once, and a stop that sells more
\* than that when the price is low.
MCResting == {Ask("BUY", 1, "LIMIT", 200), Stop("SELL", 2, 100)}

\* Orders that open, reduce and close at whatever the quote is.
MCMarket == {Ask("BUY", 1, "MARKET", NoPrice), Ask("SELL", 1, "MARKET", NoPrice)}

\* A limit order that waits next to MARKET orders.
MCMixed == {Ask("SELL", 1, "MARKET", NoPrice), Ask("BUY", 1, "LIMIT", 100)}
=============================================================================
