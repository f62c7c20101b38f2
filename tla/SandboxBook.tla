---------------------------- MODULE SandboxBook ----------------------------
(***************************************************************************)
(* The paper-trading book of one user: orders, trades, positions, holdings *)
(* and funds, and the handlers of OrderManager and ExecutionEngine that    *)
(* change them.  Here every handler runs alone, from its first read to its *)
(* last commit; OrderRaces models the same handlers commit by commit.      *)
(*                                                                         *)
(* Quotes come from outside: a handler that asks for one gets any price,   *)
(* or none.                                                                *)
(***************************************************************************)
EXTENDS SandboxFunds, SandboxOrders, Sequences, FiniteSetsExt

CONSTANTS Symbols,         \* instruments of one exchange
          PriceTypes,      \* subset of MARKET, LIMIT, SL, SL-M
          Quantities,      \* order quantities tried
          Prices,          \* prices quoted and asked for
          InitialHoldings, \* what a symbol's holding may be when the book opens
          MaxOrders        \* bound on the orders of a behaviour

ASSUME BookAssumption ==
    /\ IsFiniteSet(Symbols)
    /\ PriceTypes \subseteq {"MARKET", "LIMIT", "SL", "SL-M"}
    /\ Products \subseteq {"CNC", "MIS", "NRML"}
    /\ Quantities \subseteq Nat \ {0}
    /\ Prices \subseteq Nat \ {0}
    /\ InitialHoldings \subseteq Nat
    /\ MaxOrders \in Nat

VARIABLES orders,     \* SandboxOrders, in the order they were placed
          trades,     \* SandboxTrades, in the order they happened
          positions,  \* SandboxPositions by symbol and product
          holdings,   \* SandboxHoldings: quantity held by symbol
          funds,      \* the SandboxFunds row
          clock,      \* where the trading day stands
          opening     \* history: the trade count and holdings at the last reset

vars == <<orders, trades, positions, holdings, funds, clock, opening>>

Instruments == Symbols \X Products

Request == [symbol        : Symbols,
            product       : Products,
            action        : {"BUY", "SELL"},
            quantity      : Quantities,
            price_type    : PriceTypes,
            price         : Prices \cup {NoPrice},
            trigger_price : Prices \cup {NoPrice}]

OrderStatus == {"open", "complete", "cancelled", "rejected"}

OrderRows == [symbol         : Symbols,
              product        : Products,
              action         : {"BUY", "SELL"},
              quantity       : Nat \ {0},
              price_type     : {"MARKET", "LIMIT", "SL", "SL-M"},
              price          : Prices \cup {NoPrice},
              trigger_price  : Prices \cup {NoPrice},
              order_status   : OrderStatus,
              margin_blocked : Int]

\* An order with a limit has its limit price.
Order == {o \in OrderRows : o.price_type \in {"LIMIT", "SL"} => o.price # NoPrice}

Trade == [orderid    : Nat \ {0},
          instrument : Instruments,
          quantity   : Int,
          price      : Prices]

\* session: from the open to the square-off time; then until midnight; then
\* until the next open.
Clock == {"session", "after_square_off", "before_open"}

TypeOK ==
    /\ orders \in Seq(Order)
    /\ trades \in Seq(Trade)
    /\ positions \in [Instruments -> Position]
    /\ holdings \in [Symbols -> Int]
    /\ funds \in Funds
    /\ clock \in Clock
    /\ opening \in [trades : Nat, holdings : [Symbols -> Int]]

Init ==
    /\ orders = <<>>
    /\ trades = <<>>
    /\ positions = [i \in Instruments |-> NoPosition]
    /\ holdings \in [Symbols -> InitialHoldings]
    /\ funds = InitialFunds
    /\ clock = "session"
    /\ opening = [trades |-> 0, holdings |-> holdings]

-----------------------------------------------------------------------------
(* Placing an order. *)

Instrument(order) == <<order.symbol, order.product>>
Held(order) == positions[Instrument(order)]

\* _validate_order, and place_order dropping the fields a price type ignores.
Validated ==
    {r \in Request :
        /\ (r.price_type \in {"LIMIT", "SL"}) <=> (r.price # NoPrice)
        /\ (r.price_type \in {"SL", "SL-M"}) <=> (r.trigger_price # NoPrice)}

\* Outside the session a MIS order must go against an open position.
AllowedNow(r) ==
    r.product = "MIS" /\ clock # "session" => Opposes(Held(r), r.action)

\* A CNC sell needs that many shares in the position and the holding together.
SharesAvailable(r) ==
    LET OrZero(n) == IF n > 0 THEN n ELSE 0
    IN OrZero(Held(r).quantity) + OrZero(holdings[r.symbol])

LacksShares(r) ==
    r.product = "CNC" /\ r.action = "SELL" /\ r.quantity > SharesAvailable(r)

\* The price the margin is computed from.  A MARKET order without a quote uses
\* the last price of the position row, if there is a row.
MarginPrices(r, ltp) ==
    CASE r.price_type = "LIMIT"           -> {r.price}
      [] r.price_type \in {"SL", "SL-M"}  -> {r.trigger_price}
      [] ltp # NoPrice                    -> {ltp}
      [] Held(r).average_price # NoPrice  -> Prices
      [] OTHER                            -> {}

\* Mutant: a stop order is stored with the status a broker would give it.
OrderRowTriggerPending(r, price, status, margin) ==
    [symbol         |-> r.symbol,
     product        |-> r.product,
     action         |-> r.action,
     quantity       |-> r.quantity,
     price_type     |-> r.price_type,
     price          |-> r.price,
     trigger_price  |-> r.trigger_price,
     order_status   |-> IF r.price_type \in {"SL", "SL-M"} /\ status = "open"
                        THEN "trigger pending" ELSE status,
     margin_blocked |-> margin]

\* The row the order manager inserts.  A MARKET order keeps the price its
\* margin was computed from.
OrderRow(r, price, status, margin) ==
    [symbol         |-> r.symbol,
     product        |-> r.product,
     action         |-> r.action,
     quantity       |-> r.quantity,
     price_type     |-> r.price_type,
     price          |-> IF r.price_type = "MARKET" THEN price ELSE r.price,
     trigger_price  |-> r.trigger_price,
     order_status   |-> status,
     margin_blocked |-> margin]

-----------------------------------------------------------------------------
(* Executing an order. *)

\* What validate_margin_consistency adds up: the margin of the open positions.
\* Orders that are still open are not counted.
PositionMargin(book) ==
    SumFunctionOnSet([i \in Instruments |-> book[i].margin_blocked],
                     {i \in Instruments : book[i].quantity # 0})

\* The funds after a fill released margin and profit.  Nothing is paid out when
\* there is no margin to release.
Settled(f, position, order, price) ==
    LET closed  == ClosedQuantity(position, order.action, order.quantity)
        release == MarginToRelease(position, closed)
    IN IF release > 0
       THEN ReleaseMargin(f, release, RealizedPnl(position, closed, price))
       ELSE f

\* _execute_order on order id of book: the trade, the status, the position, the
\* release of margin, and the reconciliation that follows every fill.
Execute(book, id, price, f) ==
    LET order == book[id]
        i     == Instrument(order)
    IN /\ orders' = [book EXCEPT ![id].order_status = "complete"]
       /\ trades' = Append(trades,
              [orderid    |-> id,
               instrument |-> i,
               quantity   |-> Signed(order.action, order.quantity),
               price      |-> price])
       /\ positions' = [positions EXCEPT ![i] = Netted(@, order, price)]
       /\ funds' = ReconcileMargin(Settled(f, positions[i], order, price),
                                   PositionMargin(positions'))

\* What a MARKET order fills at is the bid or the ask, not the last price.
FillPrices(order, ltp) == IF order.price_type = "MARKET" THEN Prices ELSE {ltp}

\* _process_order fills a resting LIMIT order at its limit.
RestingFillPrices(order, ltp) ==
    IF order.price_type = "LIMIT" THEN {order.price} ELSE FillPrices(order, ltp)

-----------------------------------------------------------------------------
(* The handlers. *)

\* place_order.  What its validation refuses leaves no trace, except a CNC sell
\* without the shares, which is kept as a rejected order.
PlaceOrder(r, ltp) ==
    /\ Len(orders) < MaxOrders
    /\ AllowedNow(r)
    /\ \E price \in MarginPrices(r, ltp) :
          LET margin  == MarginToBlock(Held(r), r, price)
              blocks  == BlocksMargin(r) /\ margin > 0
              blocked == IF blocks THEN BlockMargin(funds, margin) ELSE funds
              row(status, m) == Append(orders, OrderRow(r, price, status, m))
          IN /\ blocks => CanBlock(funds, margin)
             /\ \/ /\ LacksShares(r)
                   /\ orders' = row("rejected", 0)
                   /\ UNCHANGED <<trades, positions, funds>>
                \/ /\ ~LacksShares(r)
                   /\ ltp = NoPrice \/ ~ConditionsMet(r, ltp)
                   /\ orders' = row("open", margin)
                   /\ funds' = blocked
                   /\ UNCHANGED <<trades, positions>>
                \/ /\ ~LacksShares(r)
                   /\ ltp # NoPrice /\ ConditionsMet(r, ltp)
                   /\ \E fill \in FillPrices(r, ltp) :
                         Execute(row("open", margin), Len(orders) + 1, fill, blocked)
    /\ UNCHANGED <<holdings, clock, opening>>

\* Mutant: an order can be modified after it was filled or cancelled.
ModifyOrderAnyStatus(id, quantity, price, trigger) ==
    /\ orders' = [orders EXCEPT ![id].quantity = quantity]
    /\ UNCHANGED <<trades, positions, holdings, funds, clock, opening>>

\* modify_order: any of quantity, price and trigger price, each only where the
\* price type has it.  The margin stays what it was at placement.
ModifyOrder(id, quantity, price, trigger) ==
    /\ orders[id].order_status = "open"
    /\ price \in IF orders[id].price_type \in {"LIMIT", "SL"}
                 THEN Prices ELSE {orders[id].price}
    /\ trigger \in IF orders[id].price_type \in {"SL", "SL-M"}
                   THEN Prices ELSE {orders[id].trigger_price}
    /\ orders' = [orders EXCEPT ![id].quantity      = quantity,
                                ![id].price         = price,
                                ![id].trigger_price = trigger]
    /\ UNCHANGED <<trades, positions, holdings, funds, clock, opening>>

\* Mutant: a cancelled order is stored as a rejected one.
CancelOrderAsRejected(id, ltp) ==
    /\ orders[id].order_status = "open"
    /\ orders' = [orders EXCEPT ![id].order_status = "rejected"]
    /\ funds' = ReleaseMargin(funds, CancelRelease(orders[id], ltp), 0)
    /\ UNCHANGED <<trades, positions, holdings, clock, opening>>

\* cancel_order: the margin goes back whatever the order had done with it.
CancelOrder(id, ltp) ==
    /\ orders[id].order_status = "open"
    /\ orders' = [orders EXCEPT ![id].order_status = "cancelled"]
    /\ funds' = ReleaseMargin(funds, CancelRelease(orders[id], ltp), 0)
    /\ UNCHANGED <<trades, positions, holdings, clock, opening>>

\* Mutant: neither the status nor the trades of the order are looked at.
ProcessOrderUnchecked(id, ltp) ==
    /\ ConditionsMet(orders[id], ltp)
    /\ \E fill \in RestingFillPrices(orders[id], ltp) :
          Execute(orders, id, fill, funds)
    /\ UNCHANGED <<holdings, clock, opening>>

\* _process_order: one open order against one quote.
ProcessOrder(id, ltp) ==
    /\ orders[id].order_status = "open"
    /\ \A t \in DOMAIN trades : trades[t].orderid # id
    /\ ConditionsMet(orders[id], ltp)
    /\ \E fill \in RestingFillPrices(orders[id], ltp) :
          Execute(orders, id, fill, funds)
    /\ UNCHANGED <<holdings, clock, opening>>

\* _reset_funds: the funds start over, positions and holdings are deleted.
\* Orders and trades are left as they are.
ResetFunds ==
    /\ funds' = InitialFunds
    /\ positions' = [i \in Instruments |-> NoPosition]
    /\ holdings' = [s \in Symbols |-> 0]
    /\ opening' = [trades |-> Len(trades), holdings |-> holdings']
    /\ UNCHANGED <<orders, trades, clock>>

Next ==
    \/ \E r \in Validated, ltp \in Prices \cup {NoPrice} : PlaceOrder(r, ltp)
    \/ \E id \in DOMAIN orders, q \in Quantities, p, t \in Prices \cup {NoPrice} :
          ModifyOrder(id, q, p, t)
    \/ \E id \in DOMAIN orders, ltp \in Prices \cup {NoPrice} : CancelOrder(id, ltp)
    \/ \E id \in DOMAIN orders, ltp \in Prices : ProcessOrder(id, ltp)
    \/ ResetFunds

Spec == Init /\ [][Next]_vars

-----------------------------------------------------------------------------
(* Properties. *)

\* Money is neither made nor lost by the bookkeeping: what is available and what
\* is blocked add up to the starting capital and the realised profit, through
\* every blocking, release, reconciliation and reset.
CashConserved == Balanced(funds)

\* The trades in an instrument since the last reset.
TradesIn(i) == {t \in DOMAIN trades : t > opening.trades /\ trades[t].instrument = i}

\* The signed quantity they traded.
NetTraded(i) == SumFunctionOnSet([t \in DOMAIN trades |-> trades[t].quantity], TradesIn(i))

\* The position is what was traded: no path through the netting rules (opening,
\* adding, reducing, closing, reversing, opening again) gains or loses a share.
PositionIsNetOfTrades ==
    \A i \in Instruments : positions[i].quantity = NetTraded(i)

\* What they paid out, in cash.
CashFlow(i) ==
    SumFunctionOnSet([t \in DOMAIN trades |-> -(trades[t].quantity * trades[t].price)],
                     TradesIn(i))

\* The realised profit of the row, less the cost of what is still open, is the
\* cash the trades moved: averaging, partial closes and reversals never invent a
\* profit or lose one.
ProfitIsCashFlow ==
    \A i \in Instruments :
        positions[i].accumulated_realized_pnl
            - positions[i].quantity * positions[i].average_price = CashFlow(i)

\* An order is complete exactly when it has a trade, and it never has two.
OneTradePerFilledOrder ==
    \A id \in DOMAIN orders :
        LET fills == {t \in DOMAIN trades : trades[t].orderid = id}
        IN /\ (orders[id].order_status = "complete") <=> (fills # {})
           /\ \A t, u \in fills : t = u

\* A closed position keeps no margin: whatever its orders blocked went back.
ClosedPositionHoldsNoMargin ==
    \A i \in Instruments : positions[i].quantity = 0 => positions[i].margin_blocked = 0

\* An order that is complete, cancelled or rejected is never touched again, by
\* the engine, by a modification or by a reset.
ClosedOrderIsFinal ==
    [][\A id \in DOMAIN orders :
           orders[id].order_status # "open" => orders'[id] = orders[id]]_vars

-----------------------------------------------------------------------------

(***************************************************************************)
(* Run one at a time, the handlers implement the promise of                *)
(* OrderLifecycle: no order is filled that is not open, none is filled     *)
(* twice, and a cancelled order stays cancelled.                           *)
(***************************************************************************)
StatusOf == [id \in 1..MaxOrders |->
                IF id \in DOMAIN orders THEN orders[id].order_status ELSE "none"]

FillsInOrder == [t \in DOMAIN trades |-> trades[t].orderid]

Lifecycle == INSTANCE OrderLifecycle WITH
    OrderIds <- 1..MaxOrders, status <- StatusOf, fills <- FillsInOrder

ImplementsLifecycle == Lifecycle!Spec
=============================================================================
