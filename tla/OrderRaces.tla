----------------------------- MODULE OrderRaces -----------------------------
(***************************************************************************)
(* The handlers of SandboxBook as the threads really run them: request     *)
(* threads that place, cancel and modify, and execution engines that       *)
(* fill, interleaved at every read and every commit.  The book is one      *)
(* user's orders in one instrument.                                        *)
(*                                                                         *)
(* A thread has its own SQLAlchemy session.  A row it has loaded keeps the *)
(* values it was loaded with until the session commits (the row expires    *)
(* and the next use loads it again), and a commit writes only the columns  *)
(* the thread changed, whatever other threads wrote since.  A commit is    *)
(* atomic.  FundManager's operations read and commit under a lock and are  *)
(* one step each; reconcile_margin takes no lock and is a read and a       *)
(* write.                                                                  *)
(***************************************************************************)
EXTENDS SandboxFunds, SandboxOrders, Sequences, SequencesExt

CONSTANTS Pollers,     \* engine threads that poll: the polling engine, the fallback
          Tickers,     \* engine threads that get the ticks of the WebSocket feed
          Users,       \* request threads
          Handlers,    \* what they are asked for: place, cancel, modify
          Requests,    \* the orders placed, as _validate_order lets them through
          Quantities,  \* the quantities an order is modified to
          Prices,      \* the prices quoted
          Arrivals,    \* the quotes place_order can get, NoPrice among them
          MaxOrders,   \* bound on the orders of a behaviour
          Outages,     \* whether the polled quotes may be missing for a time
          MaxCrashes   \* bound on the crashes of a behaviour

Engines == Pollers \cup Tickers
Threads == Engines \cup Users

ASSUME RacesAssumption ==
    /\ Engines \cap Users = {}
    /\ Handlers \subseteq {"place", "cancel", "modify"}
    /\ Quantities \subseteq Nat \ {0}
    /\ Prices \subseteq Nat \ {0}
    /\ Requests \subseteq [action        : {"BUY", "SELL"},
                           product       : Products,
                           quantity      : Nat \ {0},
                           price_type    : {"MARKET", "LIMIT", "SL", "SL-M"},
                           price         : Prices \cup {NoPrice},
                           trigger_price : Prices \cup {NoPrice}]
    /\ Arrivals \subseteq Prices \cup {NoPrice}
    /\ MaxOrders \in Nat /\ MaxCrashes \in Nat /\ Outages \in BOOLEAN

VARIABLES orders,    \* SandboxOrders
          trades,    \* SandboxTrades
          position,  \* the SandboxPositions row of the instrument
          funds,     \* the SandboxFunds row
          local,     \* what each thread is at, and what its session holds
          crashes,
          quoted     \* whether there is an API key, and a price for the instrument

vars == <<orders, trades, position, funds, local, crashes, quoted>>
book == <<orders, trades, position, funds>>

\* A request thread and an engine share the steps from "check" on.
Steps == {"idle", "block", "insert", "load", "check", "fill", "net", "release",
          "write", "validate", "reconcile", "reconcile_write", "cancel", "modify"}

Idle == [step   |-> "idle",
         queue  |-> <<>>,        \* orders still to process, the current one first
         loaded |-> <<>>,        \* order rows in the session, by order
         row    |-> <<>>,        \* the request to place, or the modified row
         quote  |-> NoPrice,     \* last price of the quote in use
         price  |-> NoPrice,     \* what the current order fills at
         held   |-> NoPosition,  \* the position row as loaded
         margin |-> 0,           \* to block; or the margin of the positions
         seen   |-> InitialFunds] \* the funds row as loaded by reconcile_margin

Init ==
    /\ orders = <<>>
    /\ trades = <<>>
    /\ position = NoPosition
    /\ funds = InitialFunds
    /\ local = [t \in Threads |-> Idle]
    /\ crashes = 0
    /\ quoted = TRUE

-----------------------------------------------------------------------------
(* Sessions. *)

At(t, step) == local[t].step = step

\* The session's copy of a row, or the row if it has expired.
Loaded(t, id) ==
    IF id \in DOMAIN local[t].loaded THEN local[t].loaded[id] ELSE orders[id]

\* A row more in the session.
Holding(loaded, id, row) ==
    [n \in DOMAIN loaded \cup {id} |-> IF n = id THEN row ELSE loaded[n]]

\* Mutant: the whole row is written back.
WrittenWhole(current, old, new) == [c \in DOMAIN current |-> new[c]]

\* An UPDATE of the columns that differ from what was loaded.
Written(current, old, new) ==
    [c \in DOMAIN current |-> IF new[c] # old[c] THEN new[c] ELSE current[c]]

\* The thread goes on with the next order of its batch, if there is one.
Proceed(t, loaded) ==
    LET rest == Tail(local[t].queue)
    IN local' = [local EXCEPT ![t] =
           IF rest = <<>> THEN Idle
           ELSE [Idle EXCEPT !.step = "check", !.queue = rest, !.loaded = loaded,
                             !.quote = local[t].quote]]

NotYet(id) == \A n \in DOMAIN trades : trades[n].orderid # id

-----------------------------------------------------------------------------
(* Placing, cancelling and modifying. *)

\* A quote without a price executes nothing.
Executes(row, ltp) == ltp # NoPrice /\ ConditionsMet(row, ltp)

\* place_order up to its validation: the position is read for the new exposure,
\* the balance is checked, a MARKET order must have a price.
Place(t) ==
    /\ "place" \in Handlers /\ t \in Users /\ At(t, "idle")
    /\ Len(orders) + Cardinality({u \in Users : local[u].step \in {"block", "insert"}})
           < MaxOrders
    /\ \E r \in Requests, ltp \in Arrivals :
       \E price \in IF r.price_type = "LIMIT" THEN {r.price}
                    ELSE IF r.price_type \in {"SL", "SL-M"} THEN {r.trigger_price}
                    ELSE IF ltp # NoPrice THEN {ltp}
                    ELSE IF position.average_price # NoPrice THEN Prices
                    ELSE {} :
          LET margin == MarginToBlock(position, r, price)
              blocks == BlocksMargin(r) /\ margin > 0
          IN /\ blocks => CanBlock(funds, margin)
             /\ local' = [local EXCEPT ![t] =
                    [Idle EXCEPT !.step   = IF blocks THEN "block" ELSE "insert",
                                 !.row    = r,
                                 !.quote  = ltp,
                                 !.price  = price,
                                 !.margin = margin]]
    /\ UNCHANGED <<book, crashes, quoted>>

\* Mutant: the balance is not looked at again under the lock.
BlockUnchecked(t) ==
    /\ At(t, "block")
    /\ funds' = BlockMargin(funds, local[t].margin)
    /\ local' = [local EXCEPT ![t].step = "insert"]
    /\ UNCHANGED <<orders, trades, position, crashes, quoted>>

\* The margin is blocked and committed, or the order is refused.
Block(t) ==
    /\ At(t, "block")
    /\ IF CanBlock(funds, local[t].margin)
       THEN /\ funds' = BlockMargin(funds, local[t].margin)
            /\ local' = [local EXCEPT ![t].step = "insert"]
       ELSE /\ funds' = funds
            /\ local' = [local EXCEPT ![t] = Idle]
    /\ UNCHANGED <<orders, trades, position, crashes, quoted>>

\* Mutant: stop orders start in a status of their own.
OrderRowTriggerPending(r, price, margin) ==
    [action         |-> r.action,
     product        |-> r.product,
     quantity       |-> r.quantity,
     price_type     |-> r.price_type,
     price          |-> IF r.price_type = "MARKET" THEN price ELSE r.price,
     trigger_price  |-> r.trigger_price,
     order_status   |-> IF r.price_type \in {"SL", "SL-M"}
                        THEN "trigger pending" ELSE "open",
     margin_blocked |-> margin]

OrderRow(r, price, margin) ==
    [action         |-> r.action,
     product        |-> r.product,
     quantity       |-> r.quantity,
     price_type     |-> r.price_type,
     price          |-> IF r.price_type = "MARKET" THEN price ELSE r.price,
     trigger_price  |-> r.trigger_price,
     order_status   |-> "open",
     margin_blocked |-> margin]

\* The order is committed, open, and executed at once if a quote allows it: a
\* MARKET order through _process_order, any other directly at the last price.
Insert(t) ==
    LET r   == local[t].row
        ltp == local[t].quote
    IN /\ At(t, "insert")
       /\ orders' = Append(orders, OrderRow(r, local[t].price, local[t].margin))
       /\ local' = [local EXCEPT ![t] =
              IF Executes(r, ltp)
              THEN [Idle EXCEPT
                       !.step  = IF r.price_type = "MARKET" THEN "check" ELSE "load",
                       !.queue = <<Len(orders')>>,
                       !.quote = ltp,
                       !.price = IF r.price_type = "MARKET" THEN NoPrice ELSE ltp]
              ELSE Idle]
       /\ UNCHANGED <<trades, position, funds, crashes, quoted>>

\* _execute_order called on the new order: no trade is looked for.
Load(t) ==
    LET id == Head(local[t].queue)
    IN /\ At(t, "load")
       /\ local' = [local EXCEPT ![t].step = "fill", ![t].loaded = Holding(<<>>, id, orders[id])]
       /\ UNCHANGED <<book, crashes, quoted>>

\* cancel_order and modify_order: the status is checked on the row as loaded ...
StartCancel(t) ==
    /\ "cancel" \in Handlers /\ t \in Users /\ At(t, "idle")
    /\ \E id \in DOMAIN orders, ltp \in Arrivals :
          /\ orders[id].order_status = "open"
          /\ local' = [local EXCEPT ![t] =
                 [Idle EXCEPT !.step = "cancel", !.queue = <<id>>, !.quote = ltp,
                              !.loaded = Holding(<<>>, id, orders[id])]]
    /\ UNCHANGED <<book, crashes, quoted>>

\* ... and written later.  The release commits the status with it.
Cancel(t) ==
    LET id == Head(local[t].queue)
    IN /\ At(t, "cancel")
       /\ orders' = [orders EXCEPT ![id].order_status = "cancelled"]
       /\ LET released == CancelRelease(local[t].loaded[id], local[t].quote)
          IN funds' = ReleaseMargin(funds, released, 0)
       /\ local' = [local EXCEPT ![t] = Idle]
       /\ UNCHANGED <<trades, position, crashes, quoted>>

StartModify(t) ==
    /\ "modify" \in Handlers /\ t \in Users /\ At(t, "idle")
    /\ \E id \in DOMAIN orders, q \in Quantities :
       \E p \in IF orders[id].price_type \in {"LIMIT", "SL"} THEN Prices
                ELSE {orders[id].price},
          g \in IF orders[id].price_type \in {"SL", "SL-M"} THEN Prices
                ELSE {orders[id].trigger_price} :
          /\ orders[id].order_status = "open"
          /\ local' = [local EXCEPT ![t] =
                 [Idle EXCEPT !.step = "modify", !.queue = <<id>>,
                              !.loaded = Holding(<<>>, id, orders[id]),
                              !.row = [orders[id] EXCEPT !.quantity = q, !.price = p,
                                                         !.trigger_price = g]]]
    /\ UNCHANGED <<book, crashes, quoted>>

Modify(t) ==
    LET id == Head(local[t].queue)
    IN /\ At(t, "modify")
       /\ orders' = [orders EXCEPT
              ![id] = Written(@, local[t].loaded[id], local[t].row)]
       /\ local' = [local EXCEPT ![t] = Idle]
       /\ UNCHANGED <<trades, position, funds, crashes, quoted>>

-----------------------------------------------------------------------------
(* Executing. *)

OpenOrders == {id \in DOMAIN orders : orders[id].order_status = "open"}

\* An engine loads open orders, in no order the query asks for, and goes through
\* them with one quote.
List(t, ids, quotes) ==
    /\ At(t, "idle")
    /\ ids # {}
    /\ \E ltp \in quotes, listed \in SetToSeqs(ids) :
          local' = [local EXCEPT ![t] =
              [Idle EXCEPT !.step   = "check",
                           !.queue  = listed,
                           !.loaded = [id \in ids |-> orders[id]],
                           !.quote  = ltp]]
    /\ UNCHANGED <<book, crashes, quoted>>

\* What a poll gets.  Without an API key, or without a quote for the symbol, it
\* goes past every order and is no step at all; a quote may also be there and say
\* that the last price is 0, with which the orders are gone through all the same.
Polled == IF quoted THEN Prices ELSE {NoPrice}

\* Mutant: polling is left to the orders a quote can reach, MARKET orders having
\* been executed on arrival.
PollConditional(t) ==
    List(t, {id \in OpenOrders : orders[id].price_type # "MARKET"}, Polled)

\* A polling engine takes all the open orders; a tick names one, and has a price.
Poll(t) == List(t, OpenOrders, Polled)
Tick(t) == \E id \in OpenOrders : List(t, {id}, Prices)

\* _process_order finds a trade: the status is put right if the row as loaded
\* still says open.
SkipTraded(t) ==
    LET id  == Head(local[t].queue)
        row == Loaded(t, id)
        repairs == row.order_status = "open"
    IN /\ At(t, "check")
       /\ ~NotYet(id)
       /\ orders' = IF repairs THEN [orders EXCEPT ![id].order_status = "complete"]
                               ELSE orders
       /\ Proceed(t, IF repairs THEN <<>> ELSE local[t].loaded)
       /\ UNCHANGED <<trades, position, funds, crashes, quoted>>

\* It finds none and the quote does not satisfy the order.
LeaveResting(t) ==
    LET id == Head(local[t].queue)
    IN /\ At(t, "check")
       /\ NotYet(id)
       /\ ~Executes(Loaded(t, id), local[t].quote)
       /\ Proceed(t, local[t].loaded)
       /\ UNCHANGED <<book, crashes, quoted>>

\* It finds none and decides to execute.  The status is not looked at.
Decide(t) ==
    LET id  == Head(local[t].queue)
        row == Loaded(t, id)
    IN /\ At(t, "check")
       /\ NotYet(id)
       /\ Executes(row, local[t].quote)
       /\ \E price \in CASE row.price_type = "MARKET" -> Prices
                         [] row.price_type = "LIMIT"  -> {row.price}
                         [] OTHER                     -> {local[t].quote} :
             local' = [local EXCEPT ![t].step = "fill", ![t].price = price,
                                    ![t].loaded = Holding(@, id, row)]
       /\ UNCHANGED <<book, crashes, quoted>>

\* Mutant: the status is left to the repair in _process_order.
FillTradeOnly(t) ==
    LET id  == Head(local[t].queue)
        row == local[t].loaded[id]
    IN /\ At(t, "fill")
       /\ trades' = Append(trades, [orderid  |-> id,
                                    quantity |-> Signed(row.action, row.quantity),
                                    price    |-> local[t].price])
       /\ local' = [local EXCEPT ![t].step = "net", ![t].loaded = <<>>]
       /\ UNCHANGED <<orders, position, funds, crashes, quoted>>

\* _execute_order commits the trade and the status together; every row expires.
Fill(t) ==
    LET id  == Head(local[t].queue)
        row == local[t].loaded[id]
    IN /\ At(t, "fill")
       /\ trades' = Append(trades, [orderid  |-> id,
                                    quantity |-> Signed(row.action, row.quantity),
                                    price    |-> local[t].price])
       /\ orders' = [orders EXCEPT ![id].order_status = "complete"]
       /\ local' = [local EXCEPT ![t].step = "net", ![t].loaded = <<>>]
       /\ UNCHANGED <<position, funds, crashes, quoted>>

\* What a fill of the thread's order closes of the position it loaded, and what
\* that releases.
Closes(t) ==
    LET row == local[t].loaded[Head(local[t].queue)]
    IN ClosedQuantity(local[t].held, row.action, row.quantity)
Releases(t) == MarginToRelease(local[t].held, Closes(t))

\* _update_position reads the order again, and the position.
ReadPosition(t) ==
    LET id       == Head(local[t].queue)
        closed   == ClosedQuantity(position, orders[id].action, orders[id].quantity)
        released == MarginToRelease(position, closed)
    IN /\ At(t, "net")
       /\ local' = [local EXCEPT
              ![t].step   = IF released > 0 THEN "release" ELSE "write",
              ![t].held   = position,
              ![t].loaded = Holding(<<>>, id, orders[id])]
       /\ UNCHANGED <<book, crashes, quoted>>

\* The fill takes the whole of the position that was loaded, no more, no less.
Closing(t) ==
    LET row == local[t].loaded[Head(local[t].queue)]
    IN Closes(t) > 0 /\ local[t].held.quantity + Signed(row.action, row.quantity) = 0

\* The release commits, and with it the profit columns of the position where
\* they were already set: a reduction sets them before it, a close after it.
Release(t) ==
    LET held  == local[t].held
        price == local[t].price
    IN /\ At(t, "release")
       /\ funds' = ReleaseMargin(funds, Releases(t),
                                 RealizedPnl(held, Closes(t), price))
       /\ position' = IF Closing(t) THEN position
                      ELSE Written(position, held, Realized(held, Closes(t), price))
       /\ local' = [local EXCEPT ![t].step = "write"]
       /\ UNCHANGED <<orders, trades, crashes, quoted>>

\* Mutant: an order larger than the position closes it and the excess is dropped.
CommittedCapped(t) ==
    LET row    == local[t].loaded[Head(local[t].queue)]
        held   == local[t].held
        filled == [row EXCEPT !.quantity = IF Closes(t) > 0 THEN Closes(t) ELSE @]
    IN Written(position, held, Netted(held, filled, local[t].price))

\* The position row the thread commits.  What it sets after a release it sets on
\* an expired row: a close adds its profit to the row as it is then, the other
\* columns are written as computed from the row loaded before.
Committed(t) ==
    LET row    == local[t].loaded[Head(local[t].queue)]
        held   == local[t].held
        netted == Netted(held, row, local[t].price)
        pnl    == RealizedPnl(held, Closes(t), local[t].price)
    IN IF Releases(t) = 0 THEN Written(position, held, netted)
       ELSE IF Closing(t)
       THEN [position EXCEPT !.quantity = 0,
                             !.margin_blocked = 0,
                             !.accumulated_realized_pnl = @ + pnl,
                             !.today_realized_pnl = @ + pnl]
       ELSE [position EXCEPT
                !.quantity       = netted.quantity,
                !.margin_blocked = netted.margin_blocked,
                !.average_price  = IF row.quantity > Closes(t) THEN netted.average_price
                                                               ELSE @]

Exists(row) == row.average_price # NoPrice

WritePosition(t) ==
    /\ At(t, "write")
    /\ Exists(local[t].held) \/ ~Exists(position)
    /\ position' = Committed(t)
    /\ local' = [local EXCEPT ![t] =
           [Idle EXCEPT !.step  = "validate",
                        !.queue = local[t].queue,
                        !.quote = local[t].quote]]
    /\ UNCHANGED <<orders, trades, funds, crashes, quoted>>

\* Another thread created the row first: the insert violates unique_position,
\* and _execute_order marks the order rejected.  Its trade stays.
LoseInsert(t) ==
    LET id == Head(local[t].queue)
    IN /\ At(t, "write")
       /\ ~Exists(local[t].held) /\ Exists(position)
       /\ orders' = [orders EXCEPT ![id].order_status = "rejected"]
       /\ Proceed(t, <<>>)
       /\ UNCHANGED <<trades, position, funds, crashes, quoted>>

\* validate_margin_consistency adds up the open positions ...
Validate(t) ==
    /\ At(t, "validate")
    /\ local' = [local EXCEPT
           ![t].step   = "reconcile",
           ![t].margin = IF position.quantity = 0 THEN 0 ELSE position.margin_blocked]
    /\ UNCHANGED <<book, crashes, quoted>>

\* ... and compares them with the funds row; reconcile_margin loads it ...
Reconcile(t) ==
    /\ At(t, "reconcile")
    /\ IF funds.used_margin = local[t].margin
       THEN Proceed(t, <<>>)
       ELSE local' = [local EXCEPT ![t].step = "reconcile_write", ![t].seen = funds]
    /\ UNCHANGED <<book, crashes, quoted>>

\* Mutant: the stuck margin is handed back and stays blocked.
ReconcileWriteMixed(t) ==
    LET fixed == ReconcileMargin(local[t].seen, local[t].margin)
    IN /\ At(t, "reconcile_write")
       /\ funds' = [funds EXCEPT !.available_balance = fixed.available_balance]
       /\ Proceed(t, <<>>)
       /\ UNCHANGED <<orders, trades, position, crashes, quoted>>

\* ... and commits two columns computed from what it loaded.
ReconcileWrite(t) ==
    LET fixed == ReconcileMargin(local[t].seen, local[t].margin)
    IN /\ At(t, "reconcile_write")
       /\ funds' = [funds EXCEPT !.available_balance = fixed.available_balance,
                                 !.used_margin       = fixed.used_margin]
       /\ Proceed(t, <<>>)
       /\ UNCHANGED <<orders, trades, position, crashes, quoted>>

-----------------------------------------------------------------------------

\* The process dies between two commits and starts again.
Crash ==
    /\ crashes < MaxCrashes
    /\ crashes' = crashes + 1
    /\ local' = [t \in Threads |-> Idle]
    /\ UNCHANGED <<book, quoted>>

\* The API key is deleted, the session with the broker or the feed of the symbol
\* breaks off, and all of it comes back, at any time and as often as it likes.
Outage ==
    /\ Outages
    /\ quoted' = ~quoted
    /\ UNCHANGED <<book, local, crashes>>

\* A thread that has begun something goes on with it.
Continue(t) ==
    \/ Block(t) \/ Insert(t) \/ Load(t) \/ Cancel(t) \/ Modify(t)
    \/ SkipTraded(t) \/ LeaveResting(t) \/ Decide(t) \/ Fill(t)
    \/ ReadPosition(t) \/ Release(t) \/ WritePosition(t) \/ LoseInsert(t)
    \/ Validate(t) \/ Reconcile(t) \/ ReconcileWrite(t)

Next ==
    \/ \E t \in Threads : Continue(t)
    \/ \E t \in Pollers : Poll(t)
    \/ \E t \in Tickers : Tick(t)
    \/ \E t \in Users : Place(t) \/ StartCancel(t) \/ StartModify(t)
    \/ Crash
    \/ Outage

Spec == Init /\ [][Next]_vars

\* A thread that has begun a handler is scheduled until it ends, and a polling
\* engine polls again and again, which is a pass through the orders when there are
\* quotes to be had.  Nobody is made to place, cancel or modify anything, a tick
\* may never come, and quotes that are missing may never come back.
Fairness ==
    /\ \A t \in Threads : WF_vars(Continue(t))
    /\ \A t \in Pollers : WF_vars(quoted /\ Poll(t))

FairSpec == Spec /\ Fairness

-----------------------------------------------------------------------------
(* Properties. *)

OrderStatus == {"open", "complete", "cancelled", "rejected"}

IsOrder(o) ==
    /\ o.order_status \in OrderStatus
    /\ o.action \in {"BUY", "SELL"} /\ o.product \in Products
    /\ o.quantity \in Nat \ {0}
    /\ o.margin_blocked \in Int

TypeOK ==
    /\ \A id \in DOMAIN orders : IsOrder(orders[id])
    /\ \A n \in DOMAIN trades : trades[n].orderid \in DOMAIN orders
    /\ position \in Position
    /\ funds \in Funds
    /\ \A t \in Threads :
          /\ local[t].step \in Steps
          /\ \A id \in DOMAIN local[t].loaded : IsOrder(local[t].loaded[id])
    /\ crashes \in 0..MaxCrashes
    /\ quoted \in BOOLEAN

\* What is available and what is blocked add up to the capital and the realised
\* profit.  With one engine thread the reconciliation never sees a profit come
\* in behind its back; with one price there is no profit to lose.
CashConserved == Balanced(funds)

\* No request that raced a fill makes the order open again: a filled order is
\* never offered to an engine a second time.
TradedOrderIsNotOpen ==
    \A n \in DOMAIN trades : orders[trades[n].orderid].order_status # "open"

NetTraded == SumFunctionOnSet([n \in DOMAIN trades |-> trades[n].quantity], DOMAIN trades)

\* Whenever no thread is between the commit of a trade and the commit of the
\* position, the position is what was traded.
PositionMatchesTrades ==
    (\A t \in Threads : local[t].step \notin {"net", "release", "write"})
        => position.quantity = NetTraded

\* Two requests that both found the balance sufficient do not both block it: the
\* balance never goes below zero because margin is blocked.
BlockNeverOverdraws ==
    [][\A t \in Users :
           At(t, "block") /\ ~At(t, "block")' /\ funds' # funds
               => funds'.available_balance >= 0]_vars

\* Once there are quotes again for good, no MARKET order rests for ever, neither one
\* the outage left behind nor one a crash did: an engine that polls fills it, or it
\* is cancelled or rejected.  Nothing of the kind holds while quotes are missing.
MarketOrderLeavesOpen ==
    <>[]quoted =>
        \A id \in 1..MaxOrders :
            (id \in OpenOrders /\ orders[id].price_type = "MARKET")
                ~> (id \notin OpenOrders)

-----------------------------------------------------------------------------

(***************************************************************************)
(* Where one engine does all the filling and nobody cancels, the threads   *)
(* still implement OrderLifecycle, whatever crashes between two commits.   *)
(***************************************************************************)
StatusOf == [id \in 1..MaxOrders |->
                IF id \in DOMAIN orders THEN orders[id].order_status ELSE "none"]

FillsInOrder == [n \in DOMAIN trades |-> trades[n].orderid]

Lifecycle == INSTANCE OrderLifecycle WITH
    OrderIds <- 1..MaxOrders, status <- StatusOf, fills <- FillsInOrder

ImplementsLifecycle == Lifecycle!Spec
=============================================================================
