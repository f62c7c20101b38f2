------------------------- MODULE SandboxBookProofs -------------------------
(***************************************************************************)
(* Theorems about SandboxBook and SandboxDay, for every capital, leverage  *)
(* table, set of instruments, quantities, prices and number of days.       *)
(***************************************************************************)
EXTENDS SandboxDay, SandboxLemmas

-----------------------------------------------------------------------------
(* The order book. *)

\* A status can be written to an order row.
LEMMA StatusUpdated ==
    ASSUME NEW order \in Order, NEW status \in OrderStatus
    PROVE  [order EXCEPT !.order_status = status] \in Order
  <1> DEFINE written == [order EXCEPT !.order_status = status]
  <1>1. order \in OrderRows
    BY DEF Order
  <1>2. written \in OrderRows
    BY <1>1 DEF OrderRows
  <1>3. written.price_type = order.price_type /\ written.price = order.price
    BY <1>1 DEF OrderRows
  <1> HIDE DEF written
  <1>4. written \in Order
    BY <1>2, <1>3 DEF Order
  <1> QED
    BY <1>4 DEF written

\* The columns of an order row.
LEMMA OrderColumns ==
    ASSUME NEW order \in Order
    PROVE  /\ order.symbol \in Symbols /\ order.product \in Products
           /\ order.action \in {"BUY", "SELL"}
           /\ order.quantity \in Nat \ {0}
           /\ order.price_type \in {"MARKET", "LIMIT", "SL", "SL-M"}
           /\ order.price \in Prices \cup {NoPrice}
           /\ order.trigger_price \in Prices \cup {NoPrice}
           /\ order.order_status \in OrderStatus
           /\ order.margin_blocked \in Int
           /\ order.price_type \in {"LIMIT", "SL"} => order.price \in Prices
  <1>1. order \in OrderRows
    BY DEF Order
  <1>2. order.price_type \in {"LIMIT", "SL"} => order.price # NoPrice
    BY DEF Order
  <1> QED
    BY <1>1, <1>2 DEF OrderRows

\* The requests a handler can be given: those of users, and the closing orders of
\* the square-off, whose quantity is whatever the position holds.
Placeable ==
    {r \in [symbol        : Symbols,
            product       : Products,
            action        : {"BUY", "SELL"},
            quantity      : Nat \ {0},
            price_type    : {"MARKET", "LIMIT", "SL", "SL-M"},
            price         : Prices \cup {NoPrice},
            trigger_price : Prices \cup {NoPrice}] :
        (r.price_type \in {"LIMIT", "SL"}) <=> (r.price # NoPrice)}

LEMMA ValidatedArePlaceable == Validated \subseteq Placeable
  <1>1. ASSUME NEW r \in Validated PROVE r \in Placeable
    <2>1. r \in Request /\ Quantities \subseteq Nat \ {0}
            /\ PriceTypes \subseteq {"MARKET", "LIMIT", "SL", "SL-M"}
      BY BookAssumption DEF Validated
    <2> QED
      BY <2>1 DEF Validated, Request, Placeable
  <1> QED
    BY <1>1

LEMMA InstrumentsAreFinite == IsFiniteSet(Instruments)
  <1>1. IsFiniteSet({"CNC", "MIS", "NRML"})
    <2>1. {"CNC", "MIS", "NRML"} = (({} \cup {"CNC"}) \cup {"MIS"}) \cup {"NRML"}
      OBVIOUS
    <2>2. IsFiniteSet({} \cup {"CNC"})
      BY FS_EmptySet, FS_AddElement
    <2>3. IsFiniteSet(({} \cup {"CNC"}) \cup {"MIS"})
      BY <2>2, FS_AddElement
    <2>4. IsFiniteSet((({} \cup {"CNC"}) \cup {"MIS"}) \cup {"NRML"})
      BY <2>3, FS_AddElement
    <2> QED
      BY <2>1, <2>4
  <1>2. IsFiniteSet(Products)
    BY <1>1, FS_Subset, BookAssumption
  <1> QED
    BY <1>2, FS_Product, BookAssumption DEF Instruments

\* The margins of the open positions add up to an integer.
LEMMA PositionMarginTyped ==
    ASSUME NEW book \in [Instruments -> Position]
    PROVE  PositionMargin(book) \in Int
  <1> DEFINE margins == [i \in Instruments |-> book[i].margin_blocked]
             open == {i \in Instruments : book[i].quantity # 0}
  <1>1. \A i \in open : margins[i] \in Int
    BY DEF Position
  <1>2. IsFiniteSet(open)
    BY InstrumentsAreFinite, FS_Subset
  <1> HIDE DEF margins, open
  <1>3. SumFunctionOnSet(margins, open) \in Int
    BY <1>1, <1>2, SumTyped
  <1> QED
    BY <1>3 DEF PositionMargin, margins, open

-----------------------------------------------------------------------------
(* Executing an order. *)

\* What a fill leaves is well typed, and the money is conserved by it.
LEMMA ExecuteTyped ==
    ASSUME TypeOK, NEW book \in Seq(Order), NEW id \in DOMAIN book,
           NEW price \in Prices, NEW f \in Funds, Execute(book, id, price, f)
    PROVE  /\ orders' \in Seq(Order)
           /\ trades' \in Seq(Trade)
           /\ positions' \in [Instruments -> Position]
           /\ funds' \in Funds
           /\ Balanced(f) => Balanced(funds')
  <1> DEFINE order == book[id]
             i == Instrument(order)
             closed == ClosedQuantity(positions[i], order.action, order.quantity)
             release == MarginToRelease(positions[i], closed)
             pnl == RealizedPnl(positions[i], closed, price)
             settled == Settled(f, positions[i], order, price)
             trade == [orderid |-> id, instrument |-> i,
                       quantity |-> Signed(order.action, order.quantity),
                       price |-> price]
  <1>1. DOMAIN book = 1..Len(book) /\ Len(book) \in Nat
    BY LenProperties
  <1>2. order \in Order
    BY <1>1, ElementOfSeq
  <1>3. /\ order.symbol \in Symbols /\ order.product \in Products
        /\ order.action \in {"BUY", "SELL"}
        /\ order.quantity \in Nat \ {0}
        /\ order.margin_blocked \in Int
    BY <1>2, OrderColumns
  <1>4. i \in Instruments
    BY <1>3 DEF Instrument, Instruments
  <1>5. positions[i] \in Position
    BY <1>4 DEF TypeOK
  <1>6. price \in Int
    BY BookAssumption
  <1>7. orders' \in Seq(Order)
    <2>1. [order EXCEPT !.order_status = "complete"] \in Order
      BY <1>2, StatusUpdated DEF OrderStatus
    <2>2. orders' = [book EXCEPT ![id] = [order EXCEPT !.order_status = "complete"]]
      BY DEF Execute
    <2> HIDE DEF order
    <2> QED
      BY <2>1, <2>2, RowReplaced
  <1>8. trades' \in Seq(Trade)
    <2>1. Signed(order.action, order.quantity) \in Int
      BY <1>3 DEF Signed
    <2>2. trade \in Trade
      BY <1>1, <1>4, <2>1 DEF Trade
    <2>3. trades' = Append(trades, trade)
      BY DEF Execute
    <2> HIDE DEF trade
    <2> QED
      BY <2>2, <2>3, RowAppended DEF TypeOK
  <1>9. positions' \in [Instruments -> Position]
    <2>1. Netted(positions[i], order, price) \in Position
      BY <1>3, <1>5, <1>6, NettedTyped
    <2>2. positions' = [positions EXCEPT ![i] = Netted(positions[i], order, price)]
      BY DEF Execute
    <2> QED
      BY <1>4, <2>1, <2>2 DEF TypeOK
  <1>10. release \in Int /\ pnl \in Int
    BY <1>3, <1>5, <1>6, ClosedBounds, ReleaseTyped
  <1>11. settled = IF release > 0 THEN ReleaseMargin(f, release, pnl) ELSE f
    BY DEF Settled
  <1>12. settled \in Funds /\ (Balanced(f) => Balanced(settled))
    <2> HIDE DEF release, pnl, settled
    <2> QED
      BY <1>10, <1>11, FundsTyped, FundsStayBalanced
  <1>13. PICK margin \in Int : funds' = ReconcileMargin(settled, margin)
    BY <1>9, PositionMarginTyped DEF Execute
  <1>14. funds' \in Funds /\ (Balanced(f) => Balanced(funds'))
    <2> HIDE DEF settled
    <2> QED
      BY <1>12, <1>13, FundsTyped, FundsStayBalanced
  <1> QED
    BY <1>7, <1>8, <1>9, <1>14

-----------------------------------------------------------------------------
(* Every handler keeps the types, and the balance equation. *)

\* Prices, and the price that is not there, are integers.
LEMMA PricesAreIntegers == Prices \cup {NoPrice} \subseteq Int
  <1>1. Prices \subseteq Int
    BY BookAssumption
  <1>2. NoPrice \in Int
    BY DEF NoPrice
  <1> QED
    BY <1>1, <1>2

\* A placed order ends in one of two ways: its row is stored, open or rejected, or
\* it is stored and executed at once.  Either way the row fits the table and the
\* blocked funds are balanced.
LEMMA PlaceOrderOutcome ==
    ASSUME TypeOK, NEW r \in Placeable, NEW ltp \in Prices \cup {NoPrice},
           PlaceOrder(r, ltp)
    PROVE  /\ Len(orders) < MaxOrders
           /\ UNCHANGED <<holdings, clock, opening>>
           /\ \E row \in Order, f \in Funds :
                 /\ CashConserved => Balanced(f)
                 /\ \/ /\ row.order_status \in {"open", "rejected"}
                       /\ orders' = Append(orders, row)
                       /\ funds' = f
                       /\ UNCHANGED <<trades, positions>>
                    \/ \E fill \in Prices :
                          Execute(Append(orders, row), Len(orders) + 1, fill, f)
  <1>1. /\ r.symbol \in Symbols /\ r.product \in Products
        /\ r.action \in {"BUY", "SELL"} /\ r.quantity \in Nat \ {0}
        /\ r.price_type \in {"MARKET", "LIMIT", "SL", "SL-M"}
        /\ r.price \in Prices \cup {NoPrice}
        /\ r.trigger_price \in Prices \cup {NoPrice}
    BY DEF Placeable
  <1>2. Held(r) \in Position
    BY <1>1 DEF TypeOK, Held, Instrument, Instruments
  <1>3. MarginPrices(r, ltp) \subseteq Prices \cup {NoPrice}
    BY <1>1 DEF MarginPrices
  <1>4. PICK price \in MarginPrices(r, ltp) :
          LET margin  == MarginToBlock(Held(r), r, price)
              blocks  == BlocksMargin(r) /\ margin > 0
              blocked == IF blocks THEN BlockMargin(funds, margin) ELSE funds
              row(status, m) == Append(orders, OrderRow(r, price, status, m))
          IN /\ blocks => CanBlock(funds, margin)
             /\ \/ /\ LacksShares(r)
                   /\ orders' = row("rejected", 0)
                   /\ UNCHANGED <<trades, positions, funds>>
                \/ /\ ~LacksShares(r)
                   /\ ltp = NoPrice \/ ~ConditionsMet(r, ltp)
                   /\ orders' = row("open", margin)
                   /\ funds' = blocked
                   /\ UNCHANGED <<trades, positions>>
                \/ /\ ~LacksShares(r)
                   /\ ltp # NoPrice /\ ConditionsMet(r, ltp)
                   /\ \E fill \in FillPrices(r, ltp) :
                         Execute(row("open", margin), Len(orders) + 1, fill, blocked)
    BY DEF PlaceOrder
  <1> DEFINE margin  == MarginToBlock(Held(r), r, price)
             blocked == IF BlocksMargin(r) /\ margin > 0
                        THEN BlockMargin(funds, margin) ELSE funds
             row(status, m) == OrderRow(r, price, status, m)
  <1>5. price \in Prices \cup {NoPrice} /\ price \in Int
    BY <1>3, PricesAreIntegers
  <1>6. margin \in Int
    <2>1. r.quantity \in Nat \ {0}
      BY <1>1
    <2>2. ClosedQuantity(Held(r), r.action, r.quantity) \in Nat
      BY <1>1, <1>2, <2>1, ClosedBounds
    <2>3. NewExposure(Held(r), r) \in Int
      BY <2>1, <2>2 DEF NewExposure
    <2> QED
      BY <1>1, <1>5, <2>3, MarginTyped DEF MarginToBlock
  <1>7. blocked \in Funds /\ (CashConserved => Balanced(blocked))
    BY <1>6, FundsTyped, FundsStayBalanced DEF TypeOK, CashConserved
  <1>8. ASSUME NEW status \in OrderStatus, NEW m \in Int
        PROVE  row(status, m) \in Order
    <2>1. r.price_type \in {"LIMIT", "SL"} => r.price # NoPrice
      BY DEF Placeable
    <2>2. row(status, m) \in OrderRows
      BY <1>1, <1>5 DEF OrderRow, OrderRows
    <2>3. /\ row(status, m).price_type = r.price_type
          /\ r.price_type # "MARKET" => row(status, m).price = r.price
      BY DEF OrderRow
    <2> HIDE DEF row
    <2> QED
      BY <2>1, <2>2, <2>3 DEF Order
  <1>9. Len(orders) < MaxOrders /\ UNCHANGED <<holdings, clock, opening>>
    BY DEF PlaceOrder
  <1>10. CASE /\ orders' = Append(orders, row("rejected", 0))
              /\ UNCHANGED <<trades, positions, funds>>
    <2>1. row("rejected", 0) \in Order
      BY <1>8 DEF OrderStatus
    <2>2. row("rejected", 0).order_status = "rejected"
      BY DEF OrderRow
    <2>3. funds \in Funds /\ (CashConserved => Balanced(funds))
      BY DEF TypeOK, CashConserved
    <2> HIDE DEF row
    <2> QED
      BY <1>9, <1>10, <2>1, <2>2, <2>3
  <1> DEFINE accepted == row("open", margin)
  <1>11. accepted \in Order /\ accepted.order_status = "open"
    <2>1. accepted \in Order
      BY <1>6, <1>8 DEF OrderStatus
    <2> QED
      BY <2>1 DEF OrderRow
  <1>12. CASE /\ orders' = Append(orders, accepted)
              /\ funds' = blocked
              /\ UNCHANGED <<trades, positions>>
    <2> HIDE DEF accepted, blocked
    <2> QED
      BY <1>7, <1>9, <1>11, <1>12
  <1>13. CASE /\ ltp # NoPrice
              /\ \E fill \in FillPrices(r, ltp) :
                    Execute(Append(orders, accepted), Len(orders) + 1, fill, blocked)
    <2> HIDE DEF accepted, blocked
    <2>1. FillPrices(r, ltp) \subseteq Prices
      BY <1>13 DEF FillPrices
    <2> QED
      BY <1>7, <1>9, <1>11, <1>13, <2>1
  <1> QED
    BY <1>4, <1>10, <1>12, <1>13

LEMMA PlaceOrderTyped ==
    ASSUME TypeOK, NEW r \in Placeable, NEW ltp \in Prices \cup {NoPrice},
           PlaceOrder(r, ltp)
    PROVE  TypeOK' /\ (CashConserved => CashConserved')
  <1>1. UNCHANGED <<holdings, clock, opening>>
    BY PlaceOrderOutcome
  <1>2. PICK row \in Order, f \in Funds :
            /\ CashConserved => Balanced(f)
            /\ \/ /\ row.order_status \in {"open", "rejected"}
                  /\ orders' = Append(orders, row)
                  /\ funds' = f
                  /\ UNCHANGED <<trades, positions>>
               \/ \E fill \in Prices :
                     Execute(Append(orders, row), Len(orders) + 1, fill, f)
    BY PlaceOrderOutcome
  <1>3. /\ Append(orders, row) \in Seq(Order)
        /\ Len(orders) + 1 \in DOMAIN Append(orders, row)
    BY RowAppended DEF TypeOK
  <1>4. CASE orders' = Append(orders, row) /\ funds' = f /\ UNCHANGED <<trades, positions>>
    BY <1>1, <1>2, <1>3, <1>4 DEF TypeOK, CashConserved
  <1>5. ASSUME NEW fill \in Prices,
               Execute(Append(orders, row), Len(orders) + 1, fill, f)
        PROVE  TypeOK' /\ (CashConserved => CashConserved')
    <2>1. /\ orders' \in Seq(Order)
          /\ trades' \in Seq(Trade)
          /\ positions' \in [Instruments -> Position]
          /\ funds' \in Funds
          /\ Balanced(f) => Balanced(funds')
      BY <1>3, <1>5, ExecuteTyped
    <2> QED
      BY <1>1, <1>2, <2>1 DEF TypeOK, CashConserved
  <1> QED
    BY <1>2, <1>4, <1>5

\* A modified order keeps its status.
LEMMA ModifyOrderOutcome ==
    ASSUME TypeOK, NEW id \in DOMAIN orders, NEW q \in Nat \ {0},
           NEW p \in Prices \cup {NoPrice}, NEW t \in Prices \cup {NoPrice},
           ModifyOrder(id, q, p, t)
    PROVE  \E row \in Order : row.order_status = "open"
                                /\ orders' = [orders EXCEPT ![id] = row]
  <1> DEFINE modified == [orders[id] EXCEPT !.quantity = q, !.price = p,
                                            !.trigger_price = t]
  <1>1. orders[id] \in Order
    BY ElementOfSeq, LenProperties DEF TypeOK
  <1>2. modified \in Order
    <2>1. orders[id].price_type \in {"LIMIT", "SL"} => p # NoPrice
      <3>1. orders[id].price_type \in {"LIMIT", "SL"} => p \in Prices
        BY DEF ModifyOrder
      <3> QED
        BY <3>1, BookAssumption DEF NoPrice
    <2>2. orders[id] \in OrderRows
      BY <1>1 DEF Order
    <2>3. modified \in OrderRows
      BY <2>2 DEF OrderRows
    <2>4. modified.price_type = orders[id].price_type /\ modified.price = p
      BY <2>2 DEF OrderRows
    <2> HIDE DEF modified
    <2> QED
      BY <2>1, <2>3, <2>4 DEF Order
  <1>3. orders' = [orders EXCEPT ![id] = modified]
    BY DEF ModifyOrder
  <1>4. modified.order_status = "open"
    <2>1. orders[id] \in OrderRows /\ orders[id].order_status = "open"
      BY <1>1 DEF Order, ModifyOrder
    <2> QED
      BY <2>1 DEF OrderRows
  <1> HIDE DEF modified
  <1> QED
    BY <1>2, <1>3, <1>4

LEMMA ModifyOrderTyped ==
    ASSUME TypeOK, NEW id \in DOMAIN orders, NEW q \in Nat \ {0},
           NEW p \in Prices \cup {NoPrice}, NEW t \in Prices \cup {NoPrice},
           ModifyOrder(id, q, p, t)
    PROVE  TypeOK' /\ (CashConserved => CashConserved')
  <1>1. PICK row \in Order : orders' = [orders EXCEPT ![id] = row]
    BY ModifyOrderOutcome
  <1>2. orders' \in Seq(Order)
    BY <1>1, RowReplaced DEF TypeOK
  <1> QED
    BY <1>2 DEF ModifyOrder, TypeOK, CashConserved

LEMMA CancelOrderTyped ==
    ASSUME TypeOK, NEW id \in DOMAIN orders, NEW ltp \in Prices \cup {NoPrice},
           CancelOrder(id, ltp)
    PROVE  TypeOK' /\ (CashConserved => CashConserved')
  <1> DEFINE cancelled == [orders[id] EXCEPT !.order_status = "cancelled"]
  <1>1. orders[id] \in Order
    BY ElementOfSeq, LenProperties DEF TypeOK
  <1>2. cancelled \in Order
    BY <1>1, StatusUpdated DEF OrderStatus
  <1>3. orders' = [orders EXCEPT ![id] = cancelled]
    BY DEF CancelOrder
  <1>4. /\ orders[id].product \in Products /\ orders[id].quantity \in Int
        /\ orders[id].price \in Int /\ orders[id].margin_blocked \in Int
        /\ ltp \in Int
    BY <1>1, OrderColumns, PricesAreIntegers
  <1>5. CancelRelease(orders[id], ltp) \in Int
    BY <1>4, MarginTyped DEF CancelRelease
  <1> HIDE DEF cancelled
  <1>6. orders' \in Seq(Order)
    BY <1>2, <1>3, RowReplaced DEF TypeOK
  <1>7. funds' \in Funds /\ (Balanced(funds) => Balanced(funds'))
    BY <1>5, FundsTyped, FundsStayBalanced DEF TypeOK, CancelOrder
  <1> QED
    BY <1>6, <1>7 DEF CancelOrder, TypeOK, CashConserved

LEMMA ProcessOrderTyped ==
    ASSUME TypeOK, NEW id \in DOMAIN orders, NEW ltp \in Prices, ProcessOrder(id, ltp)
    PROVE  TypeOK' /\ (CashConserved => CashConserved')
  <1>1. orders[id] \in Order
    BY ElementOfSeq, LenProperties DEF TypeOK
  <1>2. PICK fill \in RestingFillPrices(orders[id], ltp) :
            Execute(orders, id, fill, funds)
    BY DEF ProcessOrder
  <1>3. fill \in Prices
    BY <1>1, OrderColumns DEF RestingFillPrices, FillPrices
  <1>4. /\ orders' \in Seq(Order)
        /\ trades' \in Seq(Trade)
        /\ positions' \in [Instruments -> Position]
        /\ funds' \in Funds
        /\ Balanced(funds) => Balanced(funds')
    BY <1>2, <1>3, ExecuteTyped DEF TypeOK
  <1> QED
    BY <1>4 DEF ProcessOrder, TypeOK, CashConserved

LEMMA ResetFundsTyped ==
    ASSUME TypeOK, ResetFunds
    PROVE  TypeOK' /\ (CashConserved => CashConserved')
  <1>1. NoPosition \in Position
    BY DEF NoPosition, Position
  <1>2. Len(trades) \in Nat
    BY LenProperties DEF TypeOK
  <1>3. holdings' \in [Symbols -> Int]
    BY DEF ResetFunds
  <1>4. opening' \in [trades : Nat, holdings : [Symbols -> Int]]
    BY <1>2, <1>3 DEF ResetFunds
  <1> QED
    BY <1>1, <1>3, <1>4, InitialFundsFit DEF ResetFunds, TypeOK, CashConserved

LEMMA StepTyped ==
    ASSUME TypeOK, [Next]_vars
    PROVE  TypeOK' /\ (CashConserved => CashConserved')
  <1>1. CASE Next
    <2>1. Validated \subseteq Placeable /\ Quantities \subseteq Nat \ {0}
      BY ValidatedArePlaceable, BookAssumption
    <2> QED
      BY <1>1, <2>1, PlaceOrderTyped, ModifyOrderTyped, CancelOrderTyped, ProcessOrderTyped,
         ResetFundsTyped DEF Next
  <1>2. CASE UNCHANGED vars
    BY <1>2 DEF vars, TypeOK, CashConserved
  <1> QED
    BY <1>1, <1>2

LEMMA InitTyped ==
    ASSUME Init PROVE TypeOK /\ CashConserved
  <1>1. NoPosition \in Position
    BY DEF NoPosition, Position
  <1>2. holdings \in [Symbols -> Int]
    <2>1. InitialHoldings \subseteq Int
      BY BookAssumption
    <2> QED
      BY <2>1 DEF Init
  <1>3. orders \in Seq(Order) /\ trades \in Seq(Trade)
    BY EmptySeq DEF Init
  <1>4. opening \in [trades : Nat, holdings : [Symbols -> Int]]
    BY <1>2 DEF Init
  <1> QED
    BY <1>1, <1>2, <1>3, <1>4, InitialFundsFit DEF Init, TypeOK, Clock, CashConserved

-----------------------------------------------------------------------------
(* The invariants. *)

\* Every reachable book is well typed: no handler writes a status, a price or an
\* amount the tables do not have.
THEOREM TypeCorrect == Spec => []TypeOK
  <1>1. Init => TypeOK
    BY InitTyped
  <1>2. TypeOK /\ [Next]_vars => TypeOK'
    BY StepTyped
  <1> QED
    BY <1>1, <1>2, PTL DEF Spec

\* available_balance + used_margin = capital + realized_pnl in every reachable
\* book, whatever orders are placed, modified, cancelled, filled or reset.
THEOREM CashIsConserved == Spec => []CashConserved
  <1>1. Init => CashConserved
    BY InitTyped
  <1>2. TypeOK /\ CashConserved /\ [Next]_vars => CashConserved'
    BY StepTyped
  <1> QED
    BY <1>1, <1>2, TypeCorrect, PTL DEF Spec


-----------------------------------------------------------------------------
(***************************************************************************)
(* What a step does to the order book and the trade book.  Every handler   *)
(* does one of four things to them, and the theorems about orders follow   *)
(* from these alone.                                                       *)
(***************************************************************************)

\* A new order is stored, open or rejected.
Stored(row) ==
    /\ Len(orders) < MaxOrders
    /\ row.order_status \in {"open", "rejected"}
    /\ orders' = Append(orders, row)
    /\ trades' = trades

\* A new order is stored and filled.
StoredFilled(row, trade) ==
    /\ Len(orders) < MaxOrders
    /\ row.order_status = "complete"
    /\ orders' = Append(orders, row)
    /\ trade.orderid = Len(orders) + 1
    /\ trades' = Append(trades, trade)

\* An open order is filled.
Filled(id, row, trade) ==
    /\ orders[id].order_status = "open"
    /\ \A t \in DOMAIN trades : trades[t].orderid # id
    /\ row.order_status = "complete"
    /\ orders' = [orders EXCEPT ![id] = row]
    /\ trade.orderid = id
    /\ trades' = Append(trades, trade)

\* An open order is modified or cancelled.
Rewritten(id, row) ==
    /\ orders[id].order_status = "open"
    /\ row.order_status \in {"open", "cancelled"}
    /\ orders' = [orders EXCEPT ![id] = row]
    /\ trades' = trades

OrderStep ==
    \/ \E row \in Order : Stored(row)
    \/ \E row \in Order, trade \in Trade : StoredFilled(row, trade)
    \/ \E id \in DOMAIN orders, row \in Order, trade \in Trade : Filled(id, row, trade)
    \/ \E id \in DOMAIN orders, row \in Order : Rewritten(id, row)
    \/ UNCHANGED <<orders, trades>>

\* The trade and the order row a fill leaves.
LEMMA ExecuteRecords ==
    ASSUME NEW book \in Seq(Order), NEW id \in DOMAIN book, NEW price \in Prices,
           NEW f, Execute(book, id, price, f)
    PROVE  \E row \in Order, trade \in Trade :
              /\ row.order_status = "complete"
              /\ trade.orderid = id
              /\ orders' = [book EXCEPT ![id] = row]
              /\ trades' = Append(trades, trade)
  <1> DEFINE row == [book[id] EXCEPT !.order_status = "complete"]
             trade == [orderid |-> id, instrument |-> Instrument(book[id]),
                       quantity |-> Signed(book[id].action, book[id].quantity),
                       price |-> price]
  <1>1. book[id] \in Order /\ id \in Nat \ {0}
    BY ElementOfSeq, LenProperties
  <1>2. row \in Order /\ row.order_status = "complete"
    <2>1. row \in Order
      BY <1>1, StatusUpdated DEF OrderStatus
    <2>2. book[id] \in OrderRows
      BY <1>1 DEF Order
    <2> QED
      BY <2>1, <2>2 DEF OrderRows
  <1>3. Signed(book[id].action, book[id].quantity) \in Int
    BY <1>1, OrderColumns DEF Signed
  <1>4. Instrument(book[id]) \in Instruments
    BY <1>1, OrderColumns DEF Instrument, Instruments
  <1>5. trade \in Trade /\ trade.orderid = id
    BY <1>1, <1>3, <1>4 DEF Trade
  <1>6. orders' = [book EXCEPT ![id] = row] /\ trades' = Append(trades, trade)
    BY DEF Execute
  <1> HIDE DEF row, trade
  <1> QED
    BY <1>2, <1>5, <1>6

\* Every handler takes one of those steps.
LEMMA PlaceIsOrderStep ==
    ASSUME TypeOK, NEW r \in Placeable, NEW ltp \in Prices \cup {NoPrice},
           PlaceOrder(r, ltp)
    PROVE  OrderStep
  <1>1. PICK row \in Order, f \in Funds :
            \/ /\ row.order_status \in {"open", "rejected"}
               /\ orders' = Append(orders, row)
               /\ trades' = trades
            \/ \E fill \in Prices :
                  Execute(Append(orders, row), Len(orders) + 1, fill, f)
    BY PlaceOrderOutcome
  <1>2. Len(orders) < MaxOrders
    BY PlaceOrderOutcome
  <1>3. CASE /\ row.order_status \in {"open", "rejected"}
             /\ orders' = Append(orders, row)
             /\ trades' = trades
    <2>1. Stored(row)
      BY <1>2, <1>3 DEF Stored
    <2> QED
      BY <2>1 DEF OrderStep
  <1>4. ASSUME NEW fill \in Prices,
               Execute(Append(orders, row), Len(orders) + 1, fill, f)
        PROVE  OrderStep
    <2>1. /\ Append(orders, row) \in Seq(Order)
          /\ Len(orders) + 1 \in DOMAIN Append(orders, row)
      BY RowAppended DEF TypeOK
    <2>2. PICK done \in Order, trade \in Trade :
              /\ done.order_status = "complete"
              /\ trade.orderid = Len(orders) + 1
              /\ orders' = [Append(orders, row) EXCEPT ![Len(orders) + 1] = done]
              /\ trades' = Append(trades, trade)
      BY <1>4, <2>1, ExecuteRecords
    <2>3. orders' = Append(orders, done)
      BY <2>2, LastRowReplaced DEF TypeOK
    <2>4. StoredFilled(done, trade)
      BY <1>2, <2>2, <2>3 DEF StoredFilled
    <2> QED
      BY <2>4 DEF OrderStep
  <1> QED
    BY <1>1, <1>3, <1>4

LEMMA ModifyIsOrderStep ==
    ASSUME TypeOK, NEW id \in DOMAIN orders, NEW q \in Nat \ {0},
           NEW p \in Prices \cup {NoPrice}, NEW t \in Prices \cup {NoPrice},
           ModifyOrder(id, q, p, t)
    PROVE  OrderStep
  <1>1. PICK row \in Order : row.order_status = "open"
                              /\ orders' = [orders EXCEPT ![id] = row]
    BY ModifyOrderOutcome
  <1>2. Rewritten(id, row)
    BY <1>1 DEF ModifyOrder, Rewritten
  <1> QED
    BY <1>2 DEF OrderStep

LEMMA CancelIsOrderStep ==
    ASSUME TypeOK, NEW id \in DOMAIN orders, NEW ltp \in Prices \cup {NoPrice},
           CancelOrder(id, ltp)
    PROVE  OrderStep
  <1> DEFINE row == [orders[id] EXCEPT !.order_status = "cancelled"]
  <1>1. orders[id] \in Order
    BY ElementOfSeq, LenProperties DEF TypeOK
  <1>2. row \in Order
    BY <1>1, StatusUpdated DEF OrderStatus
  <1>3. row.order_status = "cancelled"
    BY <1>1 DEF Order, OrderRows
  <1>4. orders' = [orders EXCEPT ![id] = row]
    BY DEF CancelOrder
  <1> HIDE DEF row
  <1>5. Rewritten(id, row)
    BY <1>3, <1>4 DEF CancelOrder, Rewritten
  <1> QED
    BY <1>2, <1>5 DEF OrderStep

LEMMA ProcessIsOrderStep ==
    ASSUME TypeOK, NEW id \in DOMAIN orders, NEW ltp \in Prices, ProcessOrder(id, ltp)
    PROVE  OrderStep
  <1>1. orders[id] \in Order
    BY ElementOfSeq, LenProperties DEF TypeOK
  <1>2. PICK fill \in RestingFillPrices(orders[id], ltp) :
            Execute(orders, id, fill, funds)
    BY DEF ProcessOrder
  <1>3. fill \in Prices
    BY <1>1, OrderColumns DEF RestingFillPrices, FillPrices
  <1>4. PICK row \in Order, trade \in Trade :
            /\ row.order_status = "complete"
            /\ trade.orderid = id
            /\ orders' = [orders EXCEPT ![id] = row]
            /\ trades' = Append(trades, trade)
    BY <1>2, <1>3, ExecuteRecords DEF TypeOK
  <1>5. Filled(id, row, trade)
    BY <1>4 DEF ProcessOrder, Filled
  <1> QED
    BY <1>5 DEF OrderStep

LEMMA StepIsOrderStep ==
    ASSUME TypeOK, [Next]_vars
    PROVE  OrderStep
  <1>1. Validated \subseteq Placeable /\ Quantities \subseteq Nat \ {0}
    BY ValidatedArePlaceable, BookAssumption
  <1>2. CASE ResetFunds
    BY <1>2 DEF ResetFunds, OrderStep
  <1>3. CASE UNCHANGED vars
    BY <1>3 DEF vars, OrderStep
  <1> QED
    BY <1>1, <1>2, <1>3, PlaceIsOrderStep, ModifyIsOrderStep, CancelIsOrderStep,
       ProcessIsOrderStep DEF Next

\* What one such step leaves at each position of the order book.
LEMMA OrderRowsAfter ==
    ASSUME TypeOK, OrderStep
    PROVE  /\ DOMAIN orders \subseteq DOMAIN orders'
           /\ \A id \in DOMAIN orders :
                 orders[id].order_status # "open" => orders'[id] = orders[id]
  <1>1. orders \in Seq(Order)
    BY DEF TypeOK
  <1>2. ASSUME NEW row \in Order, orders' = Append(orders, row)
        PROVE  /\ DOMAIN orders \subseteq DOMAIN orders'
               /\ \A id \in DOMAIN orders : orders'[id] = orders[id]
    <2>1. /\ DOMAIN orders = 1..Len(orders) /\ Len(orders) + 1 \in Nat \ {0}
          /\ DOMAIN orders' = 1..Len(orders) + 1
          /\ \A k \in DOMAIN orders : orders'[k] = orders[k]
      BY <1>1, <1>2, RowAppended
    <2>2. Len(orders) \in Nat
      BY <1>1, LenProperties
    <2> QED
      BY <2>1, <2>2
  <1>3. ASSUME NEW n \in DOMAIN orders, NEW row \in Order,
               orders[n].order_status = "open", orders' = [orders EXCEPT ![n] = row]
        PROVE  /\ DOMAIN orders \subseteq DOMAIN orders'
               /\ \A id \in DOMAIN orders :
                     orders[id].order_status # "open" => orders'[id] = orders[id]
    BY <1>3
  <1>4. CASE \E row \in Order : Stored(row)
    BY <1>2, <1>4 DEF Stored
  <1>5. CASE \E row \in Order, trade \in Trade : StoredFilled(row, trade)
    BY <1>2, <1>5 DEF StoredFilled
  <1>6. CASE \E id \in DOMAIN orders, row \in Order, trade \in Trade : Filled(id, row, trade)
    BY <1>3, <1>6 DEF Filled
  <1>7. CASE \E id \in DOMAIN orders, row \in Order : Rewritten(id, row)
    BY <1>3, <1>7 DEF Rewritten
  <1>8. CASE UNCHANGED <<orders, trades>>
    BY <1>8
  <1> QED
    BY <1>4, <1>5, <1>6, <1>7, <1>8 DEF OrderStep

\* No handler, and no reset, touches an order that was completed, cancelled or
\* rejected.
THEOREM ClosedOrdersAreFinal == Spec => ClosedOrderIsFinal
  <1>1. TypeOK /\ [Next]_vars
            => [\A id \in DOMAIN orders :
                    orders[id].order_status # "open" => orders'[id] = orders[id]]_vars
    BY StepIsOrderStep, OrderRowsAfter
  <1> QED
    BY <1>1, TypeCorrect, PTL DEF Spec, ClosedOrderIsFinal

-----------------------------------------------------------------------------
(***************************************************************************)
(* One trade per filled order.  The property alone is not inductive: a     *)
(* trade of an order that is yet to be placed would break it, so the       *)
(* invariant adds that every trade belongs to an order of the book.        *)
(***************************************************************************)

FillsOf(id) == {t \in DOMAIN trades : trades[t].orderid = id}

FilledOnce(id) ==
    /\ (orders[id].order_status = "complete") <=> (FillsOf(id) # {})
    /\ \A t, u \in FillsOf(id) : t = u

TradesHaveOrders == \A t \in DOMAIN trades : trades[t].orderid \in DOMAIN orders

TradeBook == TradesHaveOrders /\ \A id \in DOMAIN orders : FilledOnce(id)

LEMMA TradeBookIsProperty == OneTradePerFilledOrder <=> \A id \in DOMAIN orders : FilledOnce(id)
  BY DEF OneTradePerFilledOrder, FilledOnce, FillsOf

\* Appending a trade gives its order one more fill, and no other order any.
LEMMA FillsAppended ==
    ASSUME trades \in Seq(Trade), NEW trade \in Trade, trades' = Append(trades, trade)
    PROVE  /\ FillsOf(trade.orderid)' = FillsOf(trade.orderid) \cup {Len(trades) + 1}
           /\ \A id : id # trade.orderid => FillsOf(id)' = FillsOf(id)
           /\ \A t \in DOMAIN trades' :
                 t \in DOMAIN trades \/ trades'[t].orderid = trade.orderid
           /\ DOMAIN trades \subseteq DOMAIN trades'
           /\ \A t \in DOMAIN trades : trades'[t] = trades[t]
  <1>1. /\ DOMAIN trades = 1..Len(trades) /\ Len(trades) \in Nat
        /\ DOMAIN trades' = 1..Len(trades) + 1
        /\ \A k \in DOMAIN trades : trades'[k] = trades[k]
        /\ trades'[Len(trades) + 1] = trade
    BY RowAppended, LenProperties
  <1>2. DOMAIN trades' = DOMAIN trades \cup {Len(trades) + 1}
    BY <1>1
  <1> QED
    BY <1>1, <1>2 DEF FillsOf

LEMMA TradeBookKept ==
    ASSUME TypeOK, TradeBook, OrderStep
    PROVE  TradeBook'
  <1>1. orders \in Seq(Order) /\ trades \in Seq(Trade)
    BY DEF TypeOK
  <1>2. DOMAIN orders \subseteq DOMAIN orders'
    BY OrderRowsAfter
  <1>3. DOMAIN orders = 1..Len(orders) /\ Len(orders) \in Nat
    BY <1>1, LenProperties
  \* An order that is not yet placed has no trade.
  <1>4. FillsOf(Len(orders) + 1) = {}
    BY <1>3 DEF TradeBook, TradesHaveOrders, FillsOf
  <1>5. ASSUME NEW row \in Order, Stored(row)
        PROVE  TradeBook'
    <2>1. /\ DOMAIN orders' = 1..Len(orders) + 1
          /\ \A k \in DOMAIN orders : orders'[k] = orders[k]
          /\ orders'[Len(orders) + 1] = row
      BY <1>1, <1>5, RowAppended DEF Stored
    <2>2. DOMAIN orders' = DOMAIN orders \cup {Len(orders) + 1}
      BY <1>3, <2>1
    <2>3. \A id : FillsOf(id)' = FillsOf(id)
      BY <1>5 DEF Stored, FillsOf
    <2>4. row.order_status # "complete"
      BY <1>5 DEF Stored
    <2>5. TradesHaveOrders'
      BY <1>2, <1>5 DEF Stored, TradeBook, TradesHaveOrders
    <2>6. ASSUME NEW id \in DOMAIN orders' PROVE FilledOnce(id)'
      <3>1. CASE id \in DOMAIN orders
        BY <2>1, <2>3, <3>1 DEF TradeBook, FilledOnce
      <3>2. CASE id = Len(orders) + 1
        BY <1>4, <2>1, <2>3, <2>4, <3>2 DEF FilledOnce
      <3> QED
        BY <2>2, <3>1, <3>2
    <2> QED
      BY <2>5, <2>6 DEF TradeBook
  <1>6. ASSUME NEW row \in Order, NEW trade \in Trade, StoredFilled(row, trade)
        PROVE  TradeBook'
    <2>1. PICK n \in Nat : n = Len(orders) + 1
      BY <1>3
    <2>2. /\ DOMAIN orders' = DOMAIN orders \cup {n}
          /\ \A k \in DOMAIN orders : k # n /\ orders'[k] = orders[k]
          /\ orders'[n] = row
      <3>1. /\ DOMAIN orders' = 1..Len(orders) + 1
            /\ \A k \in DOMAIN orders : orders'[k] = orders[k]
            /\ orders'[Len(orders) + 1] = row
        BY <1>1, <1>6, RowAppended DEF StoredFilled
      <3> QED
        BY <1>3, <2>1, <3>1
    <2>3. /\ trade.orderid = n
          /\ row.order_status = "complete"
          /\ trades' = Append(trades, trade)
          /\ FillsOf(n) = {}
      BY <1>4, <1>6, <2>1 DEF StoredFilled
    <2>4. /\ FillsOf(n)' = FillsOf(n) \cup {Len(trades) + 1}
          /\ \A id : id # n => FillsOf(id)' = FillsOf(id)
          /\ \A t \in DOMAIN trades' : t \in DOMAIN trades \/ trades'[t].orderid = n
          /\ \A t \in DOMAIN trades : trades'[t] = trades[t]
      BY <1>1, <2>3, FillsAppended
    <2>5. TradesHaveOrders'
      BY <1>2, <2>2, <2>4 DEF TradeBook, TradesHaveOrders
    <2>6. ASSUME NEW id \in DOMAIN orders' PROVE FilledOnce(id)'
      <3>1. CASE id \in DOMAIN orders
        BY <2>2, <2>4, <3>1 DEF TradeBook, FilledOnce
      <3>2. CASE id = n
        BY <2>2, <2>3, <2>4, <3>2 DEF FilledOnce
      <3> QED
        BY <2>2, <3>1, <3>2
    <2> QED
      BY <2>5, <2>6 DEF TradeBook
  <1>7. ASSUME NEW n \in DOMAIN orders, NEW row \in Order, NEW trade \in Trade,
               Filled(n, row, trade)
        PROVE  TradeBook'
    <2>1. /\ DOMAIN orders' = DOMAIN orders
          /\ \A k \in DOMAIN orders : k # n => orders'[k] = orders[k]
          /\ orders'[n] = row
      BY <1>7 DEF Filled
    <2>2. /\ trade.orderid = n /\ row.order_status = "complete"
          /\ trades' = Append(trades, trade)
          /\ FillsOf(n) = {}
      BY <1>7 DEF Filled, FillsOf
    <2>3. /\ FillsOf(n)' = FillsOf(n) \cup {Len(trades) + 1}
          /\ \A id : id # n => FillsOf(id)' = FillsOf(id)
          /\ \A t \in DOMAIN trades' : t \in DOMAIN trades \/ trades'[t].orderid = n
          /\ \A t \in DOMAIN trades : trades'[t] = trades[t]
      BY <1>1, <2>2, FillsAppended
    <2>4. TradesHaveOrders'
      BY <2>1, <2>3 DEF TradeBook, TradesHaveOrders
    <2>5. ASSUME NEW id \in DOMAIN orders PROVE FilledOnce(id)'
      <3>1. CASE id # n
        BY <2>1, <2>3, <3>1 DEF TradeBook, FilledOnce
      <3>2. CASE id = n
        BY <2>1, <2>2, <2>3, <3>2 DEF FilledOnce
      <3> QED
        BY <3>1, <3>2
    <2> QED
      BY <2>1, <2>4, <2>5 DEF TradeBook
  <1>8. ASSUME NEW n \in DOMAIN orders, NEW row \in Order, Rewritten(n, row)
        PROVE  TradeBook'
    <2>1. /\ DOMAIN orders' = DOMAIN orders
          /\ \A k \in DOMAIN orders : k # n => orders'[k] = orders[k]
          /\ orders'[n] = row
      BY <1>8 DEF Rewritten
    <2>2. \A id : FillsOf(id)' = FillsOf(id)
      BY <1>8 DEF Rewritten, FillsOf
    <2>3. orders[n].order_status # "complete" /\ row.order_status # "complete"
      BY <1>8 DEF Rewritten
    <2>4. TradesHaveOrders'
      BY <1>8, <2>1 DEF Rewritten, TradeBook, TradesHaveOrders
    <2>5. ASSUME NEW id \in DOMAIN orders PROVE FilledOnce(id)'
      BY <2>1, <2>2, <2>3 DEF TradeBook, FilledOnce
    <2> QED
      BY <2>1, <2>4, <2>5 DEF TradeBook
  <1>9. CASE UNCHANGED <<orders, trades>>
    BY <1>9 DEF TradeBook, TradesHaveOrders, FilledOnce, FillsOf
  <1> QED
    BY <1>5, <1>6, <1>7, <1>8, <1>9 DEF OrderStep

\* An order is complete exactly when it has a trade, and it has at most one.
THEOREM OneTradeEach == Spec => []OneTradePerFilledOrder
  <1>1. Init => TradeBook
    BY DEF Init, TradeBook, TradesHaveOrders
  <1>2. TypeOK /\ TradeBook /\ [Next]_vars => TradeBook'
    BY StepIsOrderStep, TradeBookKept
  <1>3. TradeBook => OneTradePerFilledOrder
    BY TradeBookIsProperty DEF TradeBook
  <1> QED
    BY <1>1, <1>2, <1>3, TypeCorrect, PTL DEF Spec

-----------------------------------------------------------------------------
(***************************************************************************)
(* Refinement: every step of the book is a step of OrderLifecycle or none. *)
(* The mapping needs the bound on the orders: an order beyond MaxOrders    *)
(* would have no identity in the abstract specification.                   *)
(***************************************************************************)

BookBounded == DOMAIN orders \subseteq 1..MaxOrders

LEMMA BoundKept ==
    ASSUME TypeOK, BookBounded, OrderStep
    PROVE  BookBounded'
  <1>1. orders \in Seq(Order) /\ MaxOrders \in Nat
    BY BookAssumption DEF TypeOK
  <1>2. DOMAIN orders = 1..Len(orders) /\ Len(orders) \in Nat
    BY <1>1, LenProperties
  <1>3. ASSUME NEW row \in Order, orders' = Append(orders, row), Len(orders) < MaxOrders
        PROVE  BookBounded'
    <2>1. DOMAIN orders' = 1..Len(orders) + 1
      BY <1>1, <1>3, RowAppended
    <2> QED
      BY <1>1, <1>2, <1>3, <2>1 DEF BookBounded
  <1>4. ASSUME NEW n \in DOMAIN orders, NEW row \in Order, orders' = [orders EXCEPT ![n] = row]
        PROVE  BookBounded'
    BY <1>4 DEF BookBounded
  <1>5. CASE \E row \in Order : Stored(row)
    BY <1>3, <1>5 DEF Stored
  <1>6. CASE \E row \in Order, trade \in Trade : StoredFilled(row, trade)
    BY <1>3, <1>6 DEF StoredFilled
  <1>7. CASE \E id \in DOMAIN orders, row \in Order, trade \in Trade : Filled(id, row, trade)
    BY <1>4, <1>7 DEF Filled
  <1>8. CASE \E id \in DOMAIN orders, row \in Order : Rewritten(id, row)
    BY <1>4, <1>8 DEF Rewritten
  <1>9. CASE UNCHANGED <<orders, trades>>
    BY <1>9 DEF BookBounded
  <1> QED
    BY <1>5, <1>6, <1>7, <1>8, <1>9 DEF OrderStep

\* Appending a trade appends its order to the fills.
LEMMA FillAppended ==
    ASSUME trades \in Seq(Trade), NEW trade \in Trade, trades' = Append(trades, trade)
    PROVE  FillsInOrder' = Append(FillsInOrder, trade.orderid)
  <1>1. \A r \in Trade : r.orderid \in Nat
    BY DEF Trade
  <1>2. [n \in DOMAIN Append(trades, trade) |-> Append(trades, trade)[n].orderid]
            = Append([n \in DOMAIN trades |-> trades[n].orderid], trade.orderid)
    BY <1>1, ColumnAppended
  <1> QED
    BY <1>2 DEF FillsInOrder

\* Writing a status at one identity, and nowhere else.
LEMMA StatusWritten ==
    ASSUME TypeOK, BookBounded, NEW id \in 1..MaxOrders, NEW row \in Order,
           DOMAIN orders' = DOMAIN orders \cup {id}, orders'[id] = row,
           \A k \in DOMAIN orders : k # id => orders'[k] = orders[k]
    PROVE  StatusOf' = [StatusOf EXCEPT ![id] = row.order_status]
  <1> DEFINE new == [StatusOf EXCEPT ![id] = row.order_status]
  <1>1. \A k \in 1..MaxOrders : StatusOf'[k] = new[k]
    BY DEF StatusOf
  <1>2. DOMAIN new = 1..MaxOrders /\ new = [k \in 1..MaxOrders |-> new[k]]
    BY DEF StatusOf
  <1> HIDE DEF new
  <1>3. StatusOf' = [k \in 1..MaxOrders |-> StatusOf'[k]]
    BY DEF StatusOf
  <1> QED
    BY <1>1, <1>2, <1>3 DEF new

LEMMA LifecycleStep ==
    ASSUME TypeOK, BookBounded, OrderStep
    PROVE  [Lifecycle!Next]_(Lifecycle!lifecycle)
  <1>1. /\ orders \in Seq(Order) /\ trades \in Seq(Trade)
        /\ DOMAIN orders = 1..Len(orders) /\ Len(orders) \in Nat
        /\ MaxOrders \in Nat
    BY BookAssumption, LenProperties DEF TypeOK
  \* What an appended row does to the order book, and what a replaced one does.
  <1>2. ASSUME NEW row \in Order, NEW n \in Nat, n = Len(orders) + 1,
               orders' = Append(orders, row), Len(orders) < MaxOrders
        PROVE  /\ n \in 1..MaxOrders
               /\ StatusOf[n] = "none"
               /\ StatusOf' = [StatusOf EXCEPT ![n] = row.order_status]
    <2>1. n \in 1..MaxOrders /\ n \notin DOMAIN orders
      BY <1>1, <1>2
    <2>2. /\ DOMAIN orders' = DOMAIN orders \cup {n}
          /\ \A k \in DOMAIN orders : orders'[k] = orders[k]
          /\ orders'[n] = row
      <3>1. /\ DOMAIN orders' = 1..Len(orders) + 1
            /\ \A k \in DOMAIN orders : orders'[k] = orders[k]
            /\ orders'[Len(orders) + 1] = row
        BY <1>1, <1>2, RowAppended
      <3> QED
        BY <1>1, <1>2, <3>1
    <2>3. StatusOf' = [StatusOf EXCEPT ![n] = row.order_status]
      BY <2>1, <2>2, StatusWritten
    <2> QED
      BY <2>1, <2>3 DEF StatusOf
  <1>3. ASSUME NEW n \in DOMAIN orders, NEW row \in Order, orders' = [orders EXCEPT ![n] = row]
        PROVE  /\ n \in 1..MaxOrders
               /\ StatusOf[n] = orders[n].order_status
               /\ StatusOf' = [StatusOf EXCEPT ![n] = row.order_status]
    <2>1. n \in 1..MaxOrders
      BY DEF BookBounded
    <2>2. /\ DOMAIN orders' = DOMAIN orders \cup {n}
          /\ \A k \in DOMAIN orders : k # n => orders'[k] = orders[k]
          /\ orders'[n] = row
      BY <1>3
    <2>3. StatusOf' = [StatusOf EXCEPT ![n] = row.order_status]
      BY <2>1, <2>2, StatusWritten
    <2> QED
      BY <2>1, <2>3 DEF StatusOf
  <1>4. ASSUME NEW row \in Order, Stored(row) PROVE Lifecycle!Next
    <2>1. PICK n \in Nat : n = Len(orders) + 1
      BY <1>1
    <2>2. /\ n \in 1..MaxOrders
          /\ StatusOf[n] = "none"
          /\ StatusOf' = [StatusOf EXCEPT ![n] = row.order_status]
      BY <1>2, <1>4, <2>1 DEF Stored
    <2>3. UNCHANGED FillsInOrder
      BY <1>4 DEF Stored, FillsInOrder
    <2>4. CASE row.order_status = "open"
      BY <2>2, <2>3, <2>4 DEF Lifecycle!Next, Lifecycle!Accept, Lifecycle!Becomes
    <2>5. CASE row.order_status = "rejected"
      BY <2>2, <2>3, <2>5 DEF Lifecycle!Next, Lifecycle!Refuse, Lifecycle!Becomes
    <2> QED
      BY <1>4, <2>4, <2>5 DEF Stored
  <1>5. ASSUME NEW row \in Order, NEW trade \in Trade, StoredFilled(row, trade)
        PROVE  Lifecycle!Next
    <2>1. PICK n \in Nat : n = Len(orders) + 1
      BY <1>1
    <2>2. /\ n \in 1..MaxOrders
          /\ StatusOf[n] = "none"
          /\ StatusOf' = [StatusOf EXCEPT ![n] = "complete"]
      BY <1>2, <1>5, <2>1 DEF StoredFilled
    <2>3. FillsInOrder' = Append(FillsInOrder, n)
      BY <1>1, <1>5, <2>1, FillAppended DEF StoredFilled
    <2> QED
      BY <2>2, <2>3 DEF Lifecycle!Next, Lifecycle!FillOnArrival, Lifecycle!Becomes
  <1>6. ASSUME NEW n \in DOMAIN orders, NEW row \in Order, NEW trade \in Trade,
               Filled(n, row, trade)
        PROVE  Lifecycle!Next
    <2>1. /\ n \in 1..MaxOrders
          /\ StatusOf[n] = "open"
          /\ StatusOf' = [StatusOf EXCEPT ![n] = "complete"]
      BY <1>3, <1>6 DEF Filled
    <2>2. FillsInOrder' = Append(FillsInOrder, n)
      BY <1>1, <1>6, FillAppended DEF Filled
    <2> QED
      BY <2>1, <2>2 DEF Lifecycle!Next, Lifecycle!Fill, Lifecycle!Becomes
  <1>7. ASSUME NEW n \in DOMAIN orders, NEW row \in Order, Rewritten(n, row)
        PROVE  Lifecycle!Next \/ UNCHANGED Lifecycle!lifecycle
    <2>1. /\ n \in 1..MaxOrders
          /\ StatusOf[n] = "open"
          /\ StatusOf' = [StatusOf EXCEPT ![n] = row.order_status]
      BY <1>3, <1>7 DEF Rewritten
    <2>2. UNCHANGED FillsInOrder
      BY <1>7 DEF Rewritten, FillsInOrder
    <2>3. CASE row.order_status = "cancelled"
      BY <2>1, <2>2, <2>3 DEF Lifecycle!Next, Lifecycle!Cancel, Lifecycle!Becomes
    <2>4. CASE row.order_status = "open"
      <3>1. [StatusOf EXCEPT ![n] = "open"] = StatusOf
        BY <2>1 DEF StatusOf
      <3> QED
        BY <2>1, <2>2, <2>4, <3>1 DEF Lifecycle!lifecycle
    <2> QED
      BY <1>7, <2>3, <2>4 DEF Rewritten
  <1>8. CASE UNCHANGED <<orders, trades>>
    BY <1>8 DEF Lifecycle!lifecycle, StatusOf, FillsInOrder
  <1> QED
    BY <1>4, <1>5, <1>6, <1>7, <1>8 DEF OrderStep

\* The book implements OrderLifecycle: an order is accepted or refused once and
\* filled or cancelled once, and every trade is the fill of an open order.
THEOREM BookImplementsLifecycle == Spec => ImplementsLifecycle
  <1>1. Init => Lifecycle!Init
    BY DEF Init, Lifecycle!Init, StatusOf, FillsInOrder
  <1>2. Init => BookBounded
    BY DEF Init, BookBounded
  <1>3. TypeOK /\ BookBounded /\ [Next]_vars
            => BookBounded' /\ [Lifecycle!Next]_(Lifecycle!lifecycle)
    BY StepIsOrderStep, BoundKept, LifecycleStep
  <1> QED
    BY <1>1, <1>2, <1>3, TypeCorrect, PTL DEF Spec, ImplementsLifecycle, Lifecycle!Spec

-----------------------------------------------------------------------------
(***************************************************************************)
(* What a step does to the positions.  It leaves them alone, empties them  *)
(* at a reset, or nets one trade into one of them; the theorems about      *)
(* positions follow from these three alone.                                *)
(***************************************************************************)

Emptied ==
    /\ positions' = [i \in Instruments |-> NoPosition]
    /\ holdings' = [s \in Symbols |-> 0]
    /\ opening' = [trades |-> Len(trades), holdings |-> holdings']
    /\ trades' = trades

\* A trade of an order is netted into the position it trades in.
TradeNetted(order, trade) ==
    /\ trade.instrument = Instrument(order)
    /\ trade.quantity = Signed(order.action, order.quantity)
    /\ positions' = [positions EXCEPT ![trade.instrument] = Netted(@, order, trade.price)]
    /\ trades' = Append(trades, trade)
    /\ UNCHANGED <<holdings, opening>>

PositionStep ==
    \/ UNCHANGED <<positions, trades, holdings, opening>>
    \/ Emptied
    \/ \E order \in Order, trade \in Trade : TradeNetted(order, trade)

LEMMA ExecuteNets ==
    ASSUME NEW book \in Seq(Order), NEW id \in DOMAIN book, NEW price \in Prices,
           NEW f, Execute(book, id, price, f), UNCHANGED <<holdings, opening>>
    PROVE  PositionStep
  <1> DEFINE trade == [orderid |-> id, instrument |-> Instrument(book[id]),
                       quantity |-> Signed(book[id].action, book[id].quantity),
                       price |-> price]
  <1>1. book[id] \in Order /\ id \in Nat \ {0}
    BY ElementOfSeq, LenProperties
  <1>2. Signed(book[id].action, book[id].quantity) \in Int
    BY <1>1, OrderColumns DEF Signed
  <1>3. Instrument(book[id]) \in Instruments
    BY <1>1, OrderColumns DEF Instrument, Instruments
  <1>4. trade \in Trade
    BY <1>1, <1>2, <1>3 DEF Trade
  <1>5. TradeNetted(book[id], trade)
    BY DEF Execute, TradeNetted
  <1> HIDE DEF trade
  <1> QED
    BY <1>1, <1>4, <1>5 DEF PositionStep

LEMMA PlaceIsPositionStep ==
    ASSUME TypeOK, NEW r \in Placeable, NEW ltp \in Prices \cup {NoPrice},
           PlaceOrder(r, ltp)
    PROVE  PositionStep
  <1>1. UNCHANGED <<holdings, opening>>
    BY PlaceOrderOutcome
  <1>2. PICK row \in Order, f \in Funds :
            \/ UNCHANGED <<trades, positions>>
            \/ \E fill \in Prices :
                  Execute(Append(orders, row), Len(orders) + 1, fill, f)
    BY PlaceOrderOutcome
  <1>3. /\ Append(orders, row) \in Seq(Order)
        /\ Len(orders) + 1 \in DOMAIN Append(orders, row)
    BY RowAppended DEF TypeOK
  <1>4. CASE UNCHANGED <<trades, positions>>
    BY <1>1, <1>4 DEF PositionStep
  <1> QED
    BY <1>1, <1>2, <1>3, <1>4, ExecuteNets

LEMMA ProcessIsPositionStep ==
    ASSUME TypeOK, NEW id \in DOMAIN orders, NEW ltp \in Prices, ProcessOrder(id, ltp)
    PROVE  PositionStep
  <1>1. orders[id] \in Order /\ orders \in Seq(Order)
    BY ElementOfSeq, LenProperties DEF TypeOK
  <1>2. PICK fill \in RestingFillPrices(orders[id], ltp) : Execute(orders, id, fill, funds)
    BY DEF ProcessOrder
  <1>3. fill \in Prices
    BY <1>1, OrderColumns DEF RestingFillPrices, FillPrices
  <1>4. UNCHANGED <<holdings, opening>>
    BY DEF ProcessOrder
  <1> QED
    BY <1>1, <1>2, <1>3, <1>4, ExecuteNets

LEMMA StepIsPositionStep ==
    ASSUME TypeOK, [Next]_vars
    PROVE  PositionStep
  <1>1. Validated \subseteq Placeable
    BY ValidatedArePlaceable
  <1>2. ASSUME NEW id, NEW q, NEW p, NEW t, ModifyOrder(id, q, p, t) PROVE PositionStep
    BY <1>2 DEF ModifyOrder, PositionStep
  <1>3. ASSUME NEW id, NEW ltp, CancelOrder(id, ltp) PROVE PositionStep
    BY <1>3 DEF CancelOrder, PositionStep
  <1>4. CASE ResetFunds
    BY <1>4 DEF ResetFunds, PositionStep, Emptied
  <1>5. CASE UNCHANGED vars
    BY <1>5 DEF vars, PositionStep
  <1> QED
    BY <1>1, <1>2, <1>3, <1>4, <1>5, PlaceIsPositionStep, ProcessIsPositionStep DEF Next

\* What a netted trade leaves in the position it traded in, and in the others.
LEMMA PositionsAfterTrade ==
    ASSUME TypeOK, NEW order \in Order, NEW trade \in Trade, TradeNetted(order, trade)
    PROVE  /\ trade.instrument \in Instruments /\ trade.quantity \in Int
           /\ positions'[trade.instrument].quantity
                  = positions[trade.instrument].quantity + trade.quantity
           /\ MarginFollows(positions'[trade.instrument])
           /\ \A i \in Instruments : i # trade.instrument => positions'[i] = positions[i]
  <1> DEFINE i == trade.instrument
  <1>1. i \in Instruments /\ trade.quantity \in Int /\ trade.price \in Int
    <2>1. trade.price \in Prices /\ i \in Instruments /\ trade.quantity \in Int
      BY DEF Trade
    <2> QED
      BY <2>1, PricesAreIntegers
  <1>2. positions \in [Instruments -> Position] /\ positions[i] \in Position
    BY <1>1 DEF TypeOK
  <1>3. /\ positions' = [positions EXCEPT ![i] = Netted(positions[i], order, trade.price)]
        /\ trade.quantity = Signed(order.action, order.quantity)
    BY DEF TradeNetted
  <1>4. /\ Netted(positions[i], order, trade.price).quantity
               = positions[i].quantity + trade.quantity
        /\ MarginFollows(Netted(positions[i], order, trade.price))
    BY <1>1, <1>2, <1>3, OrderColumns, NettedQuantity, NettedMargin
  <1> QED
    BY <1>1, <1>2, <1>3, <1>4

-----------------------------------------------------------------------------
(* A position that was closed holds no margin. *)

LEMMA MarginKept ==
    ASSUME TypeOK, ClosedPositionHoldsNoMargin, PositionStep
    PROVE  ClosedPositionHoldsNoMargin'
  <1>1. CASE UNCHANGED <<positions, trades, holdings, opening>>
    BY <1>1 DEF ClosedPositionHoldsNoMargin
  <1>2. CASE Emptied
    BY <1>2 DEF Emptied, ClosedPositionHoldsNoMargin, NoPosition
  <1>3. ASSUME NEW order \in Order, NEW trade \in Trade, TradeNetted(order, trade)
        PROVE  ClosedPositionHoldsNoMargin'
    <2>1. \A i \in Instruments : MarginFollows(positions[i])
      BY DEF ClosedPositionHoldsNoMargin, MarginFollows
    <2>2. \A i \in Instruments : MarginFollows(positions'[i])
      BY <1>3, <2>1, PositionsAfterTrade
    <2> QED
      BY <2>2 DEF ClosedPositionHoldsNoMargin, MarginFollows
  <1> QED
    BY <1>1, <1>2, <1>3 DEF PositionStep

\* A closed position keeps no margin: through every netting rule, and through a
\* reset, what its orders blocked has gone back.
THEOREM NoMarginOnClosedPositions == Spec => []ClosedPositionHoldsNoMargin
  <1>1. Init => ClosedPositionHoldsNoMargin
    BY DEF Init, ClosedPositionHoldsNoMargin, NoPosition
  <1>2. TypeOK /\ ClosedPositionHoldsNoMargin /\ [Next]_vars
            => ClosedPositionHoldsNoMargin'
    BY StepIsPositionStep, MarginKept
  <1> QED
    BY <1>1, <1>2, TypeCorrect, PTL DEF Spec

-----------------------------------------------------------------------------
(***************************************************************************)
(* Shares.  NetTraded sums over the trades of an instrument since the last *)
(* reset; a trade adds its quantity to the sum of its own instrument.  The *)
(* reset must not lie after the last trade (OpeningIsPast), or a trade     *)
(* would be taken for one from before it.                                  *)
(***************************************************************************)

OpeningIsPast == opening.trades <= Len(trades)

\* Whatever is summed over the trades of an instrument, a new trade adds its part
\* to the sum of its own instrument and changes no other.
LEMMA SumAfterTrade ==
    ASSUME trades \in Seq(Trade), opening.trades \in Nat, OpeningIsPast,
           NEW trade \in Trade, trades' = Append(trades, trade), opening' = opening,
           NEW f, NEW h, h[Len(trades) + 1] \in Int,
           \A t \in DOMAIN trades : f[t] \in Int /\ h[t] = f[t]
    PROVE  \A i : SumFunctionOnSet(h, TradesIn(i)')
                      = IF i = trade.instrument
                        THEN SumFunctionOnSet(f, TradesIn(i)) + h[Len(trades) + 1]
                        ELSE SumFunctionOnSet(f, TradesIn(i))
  <1>1. PICK rows, longer, end : rows = trades /\ longer = trades' /\ end = Len(trades) + 1
    OBVIOUS
  <1>2. /\ Len(rows) \in Nat /\ Len(longer) = end
        /\ \A t \in DOMAIN rows : longer[t] = rows[t]
        /\ longer[end] = trade
    BY <1>1, RowAppended, LenProperties, AppendProperties
  <1>3. \A r \in Trade : r.quantity \in Int
    BY DEF Trade
  <1>4. /\ IsFiniteSet(DOMAIN rows) /\ end \notin DOMAIN rows
        /\ DOMAIN longer = DOMAIN rows \cup {end}
    BY <1>1, <1>3, QuantityAppended
  <1>5. end > opening.trades
    BY <1>1, <1>2 DEF OpeningIsPast
  <1>6. \A t \in DOMAIN rows : f[t] \in Int /\ h[t] \in Int /\ h[t] = f[t]
    BY <1>1
  <1>7. h[end] \in Int
    BY <1>1
  <1>8. ASSUME NEW i
        PROVE  SumFunctionOnSet(h, TradesIn(i)')
                   = IF i = trade.instrument THEN SumFunctionOnSet(f, TradesIn(i)) + h[end]
                                             ELSE SumFunctionOnSet(f, TradesIn(i))
    <2>1. PICK S : S = TradesIn(i)
      OBVIOUS
    <2>2. S \subseteq DOMAIN rows /\ IsFiniteSet(S) /\ end \notin S
      <3>1. S \subseteq DOMAIN rows
        BY <1>1, <2>1 DEF TradesIn
      <3> QED
        BY <1>4, <3>1, FS_Subset
    <2>3. TradesIn(i)' = IF i = trade.instrument THEN S \cup {end} ELSE S
      <3>1. TradesIn(i)' = {t \in DOMAIN longer :
                               t > opening.trades /\ longer[t].instrument = i}
        BY <1>1 DEF TradesIn
      <3>2. S = {t \in DOMAIN rows : t > opening.trades /\ rows[t].instrument = i}
        BY <1>1, <2>1 DEF TradesIn
      <3> QED
        BY <1>2, <1>4, <1>5, <3>1, <3>2
    <2>4. \A t \in S : f[t] \in Int /\ h[t] \in Int /\ h[t] = f[t]
      BY <1>6, <2>2
    <2>5. SumFunctionOnSet(h, S) = SumFunctionOnSet(f, S)
      BY <2>2, <2>4, SumOfSameValues
    <2>6. SumFunctionOnSet(h, S \cup {end}) = SumFunctionOnSet(h, S) + h[end]
      BY <1>7, <2>2, <2>4, SumWithOneMore
    <2> QED
      BY <2>1, <2>3, <2>5, <2>6
  <1> QED
    BY <1>1, <1>8

\* A new trade adds its quantity to what was traded in its instrument, and nothing
\* elsewhere.
LEMMA NetTradedAfterTrade ==
    ASSUME trades \in Seq(Trade), opening.trades \in Nat, OpeningIsPast,
           NEW trade \in Trade, trades' = Append(trades, trade), opening' = opening
    PROVE  /\ OpeningIsPast'
           /\ NetTraded(trade.instrument)' = NetTraded(trade.instrument) + trade.quantity
           /\ \A i : i # trade.instrument => NetTraded(i)' = NetTraded(i)
  <1>1. PICK f, h : f = QuantityIn(trades) /\ h = QuantityIn(trades')
    OBVIOUS
  <1>2. \A r \in Trade : r.quantity \in Int
    BY DEF Trade
  <1>3. /\ \A t \in DOMAIN trades : f[t] \in Int /\ h[t] = f[t]
        /\ h[Len(trades) + 1] = trade.quantity /\ h[Len(trades) + 1] \in Int
    BY <1>1, <1>2, QuantityAppended
  <1>4. \A i : SumFunctionOnSet(h, TradesIn(i)')
                   = IF i = trade.instrument
                     THEN SumFunctionOnSet(f, TradesIn(i)) + h[Len(trades) + 1]
                     ELSE SumFunctionOnSet(f, TradesIn(i))
    BY <1>3, SumAfterTrade
  <1>5. \A i : NetTraded(i) = SumFunctionOnSet(f, TradesIn(i))
    BY <1>1 DEF NetTraded, QuantityIn
  <1>6. \A i : NetTraded(i)' = SumFunctionOnSet(h, TradesIn(i)')
    BY <1>1 DEF NetTraded, QuantityIn
  <1>7. OpeningIsPast'
    BY AppendProperties, LenProperties DEF OpeningIsPast
  <1> QED
    BY <1>3, <1>4, <1>5, <1>6, <1>7

\* Nothing has been traded since a reset that just was.
LEMMA NothingTradedAtReset ==
    ASSUME trades' \in Seq(Trade), opening'.trades = Len(trades')
    PROVE  \A i : NetTraded(i)' = 0
  <1>1. ASSUME NEW i PROVE NetTraded(i)' = 0
    <2>1. DOMAIN trades' = 1..Len(trades') /\ Len(trades') \in Nat
      BY LenProperties
    <2>2. TradesIn(i)' = {}
      BY <2>1 DEF TradesIn
    <2>3. NetTraded(i)'
              = SumFunctionOnSet([t \in DOMAIN trades' |-> trades'[t].quantity], {})
      BY <2>2 DEF NetTraded
    <2> QED
      BY <2>3, SumOfNothing
  <1> QED
    BY <1>1

NetInv == OpeningIsPast /\ PositionIsNetOfTrades

LEMMA NetKept ==
    ASSUME TypeOK, NetInv, PositionStep
    PROVE  NetInv'
  <1>1. trades \in Seq(Trade) /\ opening.trades \in Nat /\ Len(trades) \in Nat
    BY LenProperties DEF TypeOK
  <1>2. CASE UNCHANGED <<positions, trades, holdings, opening>>
    BY <1>2 DEF NetInv, OpeningIsPast, PositionIsNetOfTrades, NetTraded, TradesIn
  <1>3. CASE Emptied
    <2>1. trades' = trades /\ opening'.trades = Len(trades)
      BY <1>3 DEF Emptied
    <2>2. \A i : NetTraded(i)' = 0
      BY <1>1, <2>1, NothingTradedAtReset
    <2>3. \A i \in Instruments : positions'[i].quantity = 0
      BY <1>3 DEF Emptied, NoPosition
    <2>4. OpeningIsPast'
      BY <1>1, <2>1 DEF OpeningIsPast
    <2>5. PositionIsNetOfTrades'
      BY <2>2, <2>3 DEF PositionIsNetOfTrades
    <2> QED
      BY <2>4, <2>5 DEF NetInv
  <1>4. ASSUME NEW order \in Order, NEW trade \in Trade, TradeNetted(order, trade)
        PROVE  NetInv'
    <2>1. /\ trade.instrument \in Instruments /\ trade.quantity \in Int
          /\ positions'[trade.instrument].quantity
                 = positions[trade.instrument].quantity + trade.quantity
          /\ \A i \in Instruments : i # trade.instrument => positions'[i] = positions[i]
      BY <1>4, PositionsAfterTrade
    <2>2. /\ OpeningIsPast'
          /\ NetTraded(trade.instrument)' = NetTraded(trade.instrument) + trade.quantity
          /\ \A i : i # trade.instrument => NetTraded(i)' = NetTraded(i)
      BY <1>1, <1>4, NetTradedAfterTrade DEF NetInv, TradeNetted
    <2>3. \A i \in Instruments : positions[i].quantity = NetTraded(i)
      BY DEF NetInv, PositionIsNetOfTrades
    <2>4. \A i \in Instruments : positions'[i].quantity = NetTraded(i)'
      BY <2>1, <2>2, <2>3
    <2> QED
      BY <2>2, <2>4 DEF NetInv, PositionIsNetOfTrades
  <1> QED
    BY <1>2, <1>3, <1>4 DEF PositionStep

LEMMA NetHolds == Spec => []NetInv
  <1>1. Init => NetInv
    <2> SUFFICES ASSUME Init PROVE NetInv
      OBVIOUS
    <2>1. trades = <<>> /\ opening.trades = 0
      BY DEF Init
    <2>2. \A i : TradesIn(i) = {}
      BY <2>1 DEF TradesIn
    <2>3. \A i : NetTraded(i) = 0
      BY <2>2, SumOfNothing DEF NetTraded
    <2>4. OpeningIsPast
      BY <2>1 DEF OpeningIsPast
    <2>5. PositionIsNetOfTrades
      BY <2>3 DEF PositionIsNetOfTrades, Init, NoPosition
    <2> QED
      BY <2>4, <2>5 DEF NetInv
  <1>2. TypeOK /\ NetInv /\ [Next]_vars => NetInv'
    BY StepIsPositionStep, NetKept
  <1> QED
    BY <1>1, <1>2, TypeCorrect, PTL DEF Spec

\* No share is made or lost by netting: through opening, adding, reducing, closing,
\* reversing and opening again, the position is what was traded since the last
\* reset.
THEOREM PositionsAreNetOfTrades == Spec => []PositionIsNetOfTrades
  <1>1. NetInv => PositionIsNetOfTrades
    BY DEF NetInv
  <1> QED
    BY <1>1, NetHolds, PTL

-----------------------------------------------------------------------------
(***************************************************************************)
(* Profit.  An average price is a whole number of the currency unit,       *)
(* rounded down: averaging twice loses what was rounded away, and the      *)
(* realised profit no longer is the cash the trades moved.  Where no       *)
(* average is rounded, it is, to the unit.                                 *)
(***************************************************************************)

\* Where a trade adds to a position, the average it leaves needs no rounding.
NoAverageRounded ==
    [][\A n \in DOMAIN trades' \ DOMAIN trades :
           AveragesExactly(positions[trades'[n].instrument], trades'[n].quantity,
                           trades'[n].price)]_vars

AveragesStep ==
    \A n \in DOMAIN trades' \ DOMAIN trades :
        AveragesExactly(positions[trades'[n].instrument], trades'[n].quantity, trades'[n].price)

\* A new trade moves the cash of its own instrument.
LEMMA CashFlowAfterTrade ==
    ASSUME trades \in Seq(Trade), opening.trades \in Nat, OpeningIsPast,
           NEW trade \in Trade, trades' = Append(trades, trade), opening' = opening
    PROVE  /\ CashFlow(trade.instrument)'
                  = CashFlow(trade.instrument) + (-(trade.quantity * trade.price))
           /\ \A i : i # trade.instrument => CashFlow(i)' = CashFlow(i)
  <1>1. PICK f, h, moved : /\ f = CashIn(trades) /\ h = CashIn(trades')
                           /\ moved = -(trade.quantity * trade.price)
    OBVIOUS
  <1>2. \A r \in Trade : r.quantity \in Int /\ r.price \in Int
    BY PricesAreIntegers DEF Trade
  <1>3. moved \in Int
    BY <1>1, <1>2
  <1>4. /\ \A t \in DOMAIN trades : f[t] \in Int /\ h[t] = f[t]
        /\ h[Len(trades) + 1] = moved
    BY <1>1, <1>2, CashAppended
  <1>5. \A i : SumFunctionOnSet(h, TradesIn(i)')
                   = IF i = trade.instrument
                     THEN SumFunctionOnSet(f, TradesIn(i)) + h[Len(trades) + 1]
                     ELSE SumFunctionOnSet(f, TradesIn(i))
    BY <1>3, <1>4, SumAfterTrade
  <1>6. \A i : CashFlow(i) = SumFunctionOnSet(f, TradesIn(i))
    BY <1>1 DEF CashFlow, CashIn
  <1>7. \A i : CashFlow(i)' = SumFunctionOnSet(h, TradesIn(i)')
    BY <1>1 DEF CashFlow, CashIn
  <1> QED
    BY <1>1, <1>4, <1>5, <1>6, <1>7

\* No cash has moved since a reset that just was.
LEMMA NoCashAtReset ==
    ASSUME trades' \in Seq(Trade), opening'.trades = Len(trades')
    PROVE  \A i : CashFlow(i)' = 0
  <1>1. ASSUME NEW i PROVE CashFlow(i)' = 0
    <2>1. DOMAIN trades' = 1..Len(trades') /\ Len(trades') \in Nat
      BY LenProperties
    <2>2. TradesIn(i)' = {}
      BY <2>1 DEF TradesIn
    <2>3. PICK h : h = CashIn(trades')
      OBVIOUS
    <2>4. CashFlow(i)' = SumFunctionOnSet(h, {})
      BY <2>2, <2>3 DEF CashFlow, CashIn
    <2> QED
      BY <2>4, SumOfNothing
  <1> QED
    BY <1>1

\* What a netted trade does to the worth of the position it trades in.
LEMMA WorthAfterTrade ==
    ASSUME TypeOK, NEW order \in Order, NEW trade \in Trade, TradeNetted(order, trade),
           AveragesExactly(positions[trade.instrument], trade.quantity, trade.price)
    PROVE  Worth(positions'[trade.instrument])
               = Worth(positions[trade.instrument]) - trade.quantity * trade.price
  <1>1. PICK i, price, signed, position :
            /\ i = trade.instrument /\ price = trade.price /\ signed = trade.quantity
            /\ position = positions[i]
    OBVIOUS
  <1>2. i \in Instruments /\ price \in Int
    <2>1. trade.price \in Prices /\ i \in Instruments
      BY <1>1 DEF Trade
    <2> QED
      BY <1>1, <2>1, PricesAreIntegers
  <1>3. positions \in [Instruments -> Position] /\ position \in Position
    BY <1>1, <1>2 DEF TypeOK
  <1>4. /\ positions'[i] = Netted(position, order, price)
        /\ signed = Signed(order.action, order.quantity)
    BY <1>1, <1>2, <1>3 DEF TradeNetted
  <1>5. order.action \in {"BUY", "SELL"} /\ order.quantity \in Nat \ {0} /\ order.margin_blocked \in Int
    BY OrderColumns
  <1>6. AveragesExactly(position, Signed(order.action, order.quantity), price)
    BY <1>1, <1>4
  <1>7. Worth(Netted(position, order, price))
            = Worth(position) - Signed(order.action, order.quantity) * price
    BY <1>2, <1>3, <1>5, <1>6, NettedWorth
  <1> QED
    BY <1>1, <1>4, <1>7

ProfitInv == \A i \in Instruments : Worth(positions[i]) = CashFlow(i)

LEMMA ProfitKept ==
    ASSUME TypeOK, OpeningIsPast, ProfitInv, PositionStep, AveragesStep
    PROVE  ProfitInv'
  <1>1. trades \in Seq(Trade) /\ opening.trades \in Nat /\ Len(trades) \in Nat
    BY LenProperties DEF TypeOK
  <1>2. CASE UNCHANGED <<positions, trades, holdings, opening>>
    BY <1>2 DEF ProfitInv, CashFlow, TradesIn
  <1>3. CASE Emptied
    <2>1. trades' = trades /\ opening'.trades = Len(trades)
      BY <1>3 DEF Emptied
    <2>2. \A i : CashFlow(i)' = 0
      BY <1>1, <2>1, NoCashAtReset
    <2>3. \A i \in Instruments : Worth(positions'[i]) = 0
      BY <1>3 DEF Emptied, NoPosition, Worth
    <2> QED
      BY <2>2, <2>3 DEF ProfitInv
  <1>4. ASSUME NEW order \in Order, NEW trade \in Trade, TradeNetted(order, trade)
        PROVE  ProfitInv'
    <2>1. /\ trade.instrument \in Instruments
          /\ \A i \in Instruments : i # trade.instrument => positions'[i] = positions[i]
      BY <1>4, PositionsAfterTrade
    <2>2. trades' = Append(trades, trade) /\ opening' = opening
      BY <1>4 DEF TradeNetted
    <2>3. PICK end : end = Len(trades) + 1
      OBVIOUS
    <2>4. end \in DOMAIN trades' \ DOMAIN trades /\ trades'[end] = trade
      BY <1>1, <2>2, <2>3, RowAppended, LenProperties
    <2>5. AveragesExactly(positions[trade.instrument], trade.quantity, trade.price)
      BY <2>4 DEF AveragesStep
    <2>6. PICK moved : moved = trade.quantity * trade.price
      OBVIOUS
    <2>7. moved \in Int
      <3>1. trade.quantity \in Int /\ trade.price \in Int
        BY PricesAreIntegers DEF Trade
      <3> QED
        BY <2>6, <3>1
    <2>8. Worth(positions'[trade.instrument]) = Worth(positions[trade.instrument]) - moved
      BY <1>4, <2>5, <2>6, WorthAfterTrade
    <2>9. /\ CashFlow(trade.instrument)' = CashFlow(trade.instrument) + (-moved)
          /\ \A i : i # trade.instrument => CashFlow(i)' = CashFlow(i)
      BY <1>1, <2>2, <2>6, CashFlowAfterTrade
    <2>10. \A i \in Instruments : Worth(positions[i]) = CashFlow(i)
      BY DEF ProfitInv
    <2>11. Worth(positions[trade.instrument]) \in Int
      <3>1. positions[trade.instrument] \in Position
        BY <2>1 DEF TypeOK
      <3> QED
        BY <3>1 DEF Worth, Position
    <2>12. Worth(positions'[trade.instrument]) = CashFlow(trade.instrument)'
      <3>1. PICK w \in Int : w = Worth(positions[trade.instrument])
        BY <2>11
      <3>2. CashFlow(trade.instrument)' = w + (-moved)
        BY <2>1, <2>9, <2>10, <3>1
      <3>3. Worth(positions'[trade.instrument]) = w - moved
        BY <2>8, <3>1
      <3> QED
        BY <2>7, <3>2, <3>3
    <2>13. \A i \in Instruments : Worth(positions'[i]) = CashFlow(i)'
      BY <2>1, <2>9, <2>10, <2>12
    <2> QED
      BY <2>13 DEF ProfitInv
  <1> QED
    BY <1>2, <1>3, <1>4 DEF PositionStep

\* Realised profit is what the trades moved in cash, less the cost of what is still
\* open, through every averaging, partial close and reversal, as long as no average
\* price has to be rounded.
THEOREM ProfitsAreCashFlows == Spec /\ NoAverageRounded => []ProfitIsCashFlow
  <1>1. Init => ProfitInv
    <2> SUFFICES ASSUME Init PROVE ProfitInv
      OBVIOUS
    <2>1. trades = <<>> /\ opening.trades = 0
      BY DEF Init
    <2>2. \A i : TradesIn(i) = {}
      BY <2>1 DEF TradesIn
    <2>3. \A i : CashFlow(i) = 0
      BY <2>2, SumOfNothing DEF CashFlow
    <2>4. \A i \in Instruments : Worth(positions[i]) = 0
      BY DEF Init, NoPosition, Worth
    <2> QED
      BY <2>3, <2>4 DEF ProfitInv
  <1>2. TypeOK /\ NetInv /\ ProfitInv /\ [Next]_vars /\ [AveragesStep]_vars => ProfitInv'
    <2> SUFFICES ASSUME TypeOK, NetInv, ProfitInv, [Next]_vars, [AveragesStep]_vars
                 PROVE  ProfitInv'
      OBVIOUS
    <2>1. OpeningIsPast
      BY DEF NetInv
    <2>2. CASE AveragesStep
      BY <2>1, <2>2, StepIsPositionStep, ProfitKept
    <2>3. CASE UNCHANGED vars
      BY <2>3 DEF vars, ProfitInv, CashFlow, TradesIn
    <2> QED
      BY <2>2, <2>3
  <1>3. ProfitInv => ProfitIsCashFlow
    BY DEF ProfitInv, ProfitIsCashFlow, Worth
  <1>4. NoAverageRounded <=> [][AveragesStep]_vars
    BY DEF NoAverageRounded, AveragesStep
  <1>5. Spec => []NetInv
    BY NetHolds
  <1> QED
    BY <1>1, <1>2, <1>3, <1>4, <1>5, TypeCorrect, PTL DEF Spec

-----------------------------------------------------------------------------
(***************************************************************************)
(* The trading days.  Between the handlers run the jobs, which write to    *)
(* the positions, the holdings and the funds and leave orders, trades and  *)
(* the history alone.                                                      *)
(***************************************************************************)

\* The sums over costs and margins are over instruments, so they are integers.
LEMMA InstrumentSumTyped ==
    ASSUME NEW S, S \subseteq Instruments, NEW f, \A i \in S : f[i] \in Int
    PROVE  SumFunctionOnSet(f, S) \in Int
  <1>1. IsFiniteSet(S)
    BY InstrumentsAreFinite, FS_Subset
  <1> QED
    BY <1>1, SumTyped

LEMMA SettledFundsTyped ==
    ASSUME TypeOK, NEW f \in Funds
    PROVE  SettledFunds(f) \in Funds
  <1>1. \A i \in Instruments : Cost[i] \in Int
    BY DEF Cost, TypeOK, Position, Magnitude
  <1>2. \A S \in SUBSET Instruments : SumFunctionOnSet(Cost, S) \in Int
    BY <1>1, InstrumentSumTyped
  <1>3. Due \subseteq Instruments
    BY DEF Due, Delivery
  <1>4. PICK paid, taken : /\ paid = SumFunctionOnSet(Cost, {i \in Due : PaidOut(i)})
                           /\ taken = SumFunctionOnSet(Cost, {i \in Due : ~PaidOut(i)})
    OBVIOUS
  <1>5. paid \in Int /\ taken \in Int
    BY <1>2, <1>3, <1>4
  <1>6. SettledFunds(f) = [f EXCEPT !.available_balance = @ + paid, !.used_margin = @ - taken]
    BY <1>4 DEF SettledFunds
  <1>7. f.available_balance + paid \in Int /\ f.used_margin - taken \in Int
    BY <1>5 DEF Funds
  <1> QED
    BY <1>6, <1>7 DEF Funds

LEMMA CaughtUpFundsTyped ==
    ASSUME TypeOK, NEW pnl \in [Stale -> Int]
    PROVE  CaughtUpFunds(pnl) \in Funds
  <1>1. Stale \subseteq Instruments
    BY DEF Stale, Intraday
  <1>2. PICK margins : margins = [i \in Stale |-> positions[i].margin_blocked]
    OBVIOUS
  <1>3. \A i \in Stale : margins[i] \in Int /\ pnl[i] \in Int
    BY <1>1, <1>2 DEF TypeOK, Position
  <1>4. PICK margin, profit : /\ margin = SumFunctionOnSet(margins, Stale)
                              /\ profit = SumFunctionOnSet(pnl, Stale)
    OBVIOUS
  <1>5. margin \in Int /\ profit \in Int
    BY <1>1, <1>3, <1>4, InstrumentSumTyped
  <1>6. PICK used : used = IF funds.used_margin - margin < 0 THEN 0
                           ELSE funds.used_margin - margin
    OBVIOUS
  <1>7. CaughtUpFunds(pnl) =
            IF Stale = {} THEN funds
            ELSE [funds EXCEPT !.available_balance = @ + margin + profit,
                               !.used_margin       = used,
                               !.realized_pnl      = @ + profit]
    BY <1>2, <1>4, <1>6 DEF CaughtUpFunds
  <1>8. funds \in Funds
    BY DEF TypeOK
  <1>9. /\ used \in Int
        /\ funds.available_balance + margin + profit \in Int
        /\ funds.realized_pnl + profit \in Int
    BY <1>5, <1>6, <1>8 DEF Funds
  <1> QED
    BY <1>7, <1>8, <1>9 DEF Funds

LEMMA SettledHoldingsTyped ==
    ASSUME TypeOK
    PROVE  SettledHoldings \in [Symbols -> Int]
  <1>1. \A i \in Due : positions[i].quantity \in Int
    BY DEF Due, Delivery, TypeOK, Position
  <1>2. \A s \in Symbols : holdings[s] \in Int
    BY DEF TypeOK
  <1> QED
    BY <1>1, <1>2 DEF SettledHoldings

LEMMA Today0Typed ==
    /\ \A row \in Position : /\ Today0(row) \in Position
                             /\ Today0(row).quantity = row.quantity
                             /\ Today0(row).margin_blocked = row.margin_blocked
    /\ \A f \in Funds : Today0(f) \in Funds
  BY DEF Today0, Position, Funds

LEMMA ClosedOutTyped ==
    ASSUME NEW position \in Position, NEW pnl \in Int
    PROVE  /\ ClosedOut(position, pnl) \in Position
           /\ ClosedOut(position, pnl).quantity = 0
           /\ ClosedOut(position, pnl).margin_blocked = 0
  <1>1. PICK none, all, today : /\ none = 0
                                /\ all = position.accumulated_realized_pnl + pnl
                                /\ today = 0
    OBVIOUS
  <1>2. ClosedOut(position, pnl) = [position EXCEPT !.quantity = none,
                                                    !.margin_blocked = none,
                                                    !.accumulated_realized_pnl = all,
                                                    !.today_realized_pnl = today]
    BY <1>1 DEF ClosedOut
  <1>3. none \in Int /\ all \in Int /\ today \in Int
    BY <1>1 DEF Position
  <1> QED
    BY <1>1, <1>2, <1>3 DEF Position

-----------------------------------------------------------------------------
(* What the jobs do. *)

\* A job leaves each row with its quantity and margin or with neither, and moves
\* delivery shares between a position and its holding only.
JobStep ==
    /\ UNCHANGED <<orders, trades, opening>>
    /\ \A i \in Instruments :
          \/ /\ positions'[i].quantity = positions[i].quantity
             /\ positions'[i].margin_blocked = positions[i].margin_blocked
          \/ positions'[i].quantity = 0 /\ positions'[i].margin_blocked = 0
    /\ \A i \in Delivery :
          positions'[i].quantity + holdings'[i[1]] = positions[i].quantity + holdings[i[1]]

\* The shares of a settled instrument are in its holding.
LEMMA SettlementMovesShares ==
    ASSUME TypeOK, NEW i \in Delivery
    PROVE  /\ i \in Due => SettledHoldings[i[1]] = holdings[i[1]] + positions[i].quantity
           /\ i \notin Due => SettledHoldings[i[1]] = holdings[i[1]]
           /\ positions[i].quantity \in Int /\ holdings[i[1]] \in Int
  <1>1. i = <<i[1], "CNC">> /\ i[1] \in Symbols /\ i \in Instruments
    BY DEF Delivery, Instruments
  <1>2. positions[i].quantity \in Int /\ holdings[i[1]] \in Int
    BY <1>1 DEF TypeOK, Position
  <1>3. SettledHoldings[i[1]] = IF <<i[1], "CNC">> \in Due
                                THEN holdings[i[1]] + positions[<<i[1], "CNC">>].quantity
                                ELSE holdings[i[1]]
    BY <1>1 DEF SettledHoldings
  <1> QED
    BY <1>1, <1>2, <1>3

LEMMA MidnightIsJobStep ==
    ASSUME TypeOK, Midnight
    PROVE  TypeOK' /\ JobStep
  <1>1. \A i \in Instruments : positions[i] \in Position
    BY DEF TypeOK
  <1>2. \A i \in Instruments :
            positions'[i] = [positions[i] EXCEPT !.created_today = ~Exists(i)]
    BY DEF Midnight
  <1>3. ASSUME NEW i \in Instruments
        PROVE  /\ positions'[i] \in Position
               /\ positions'[i].quantity = positions[i].quantity
               /\ positions'[i].margin_blocked = positions[i].margin_blocked
    <2>1. PICK flag \in BOOLEAN : flag = ~Exists(i)
      OBVIOUS
    <2>2. positions'[i] = [positions[i] EXCEPT !.created_today = flag]
      BY <1>2, <2>1
    <2> QED
      BY <1>1, <2>2 DEF Position
  <1>4. positions' \in [Instruments -> Position]
    BY <1>3 DEF Midnight
  <1>5. /\ UNCHANGED <<orders, trades, holdings, funds, opening>>
        /\ clock' = "before_open"
    BY DEF Midnight
  <1>6. TypeOK'
    BY <1>4, <1>5 DEF TypeOK, Clock
  <1>7. Delivery \subseteq Instruments
    BY DEF Delivery
  <1> QED
    BY <1>3, <1>5, <1>6, <1>7 DEF JobStep

LEMMA SettleIsJobStep ==
    ASSUME TypeOK, SettleDelivery
    PROVE  TypeOK' /\ JobStep
  <1>1. NoPosition \in Position /\ NoPosition.quantity = 0 /\ NoPosition.margin_blocked = 0
    BY DEF NoPosition, Position
  <1>2. /\ positions' = [i \in Instruments |-> IF i \in Due THEN NoPosition ELSE positions[i]]
        /\ holdings' = SettledHoldings
        /\ funds' = SettledFunds(funds)
        /\ UNCHANGED <<orders, trades, clock, opening>>
    BY DEF SettleDelivery
  <1>3. positions' \in [Instruments -> Position]
    BY <1>1, <1>2 DEF TypeOK
  <1>4. TypeOK'
    BY <1>2, <1>3, SettledHoldingsTyped, SettledFundsTyped DEF TypeOK
  <1>5. ASSUME NEW i \in Delivery
        PROVE  positions'[i].quantity + holdings'[i[1]]
                   = positions[i].quantity + holdings[i[1]]
    <2>1. i \in Instruments
      BY DEF Delivery
    <2> QED
      BY <1>1, <1>2, <2>1, SettlementMovesShares
  <1> QED
    BY <1>1, <1>2, <1>4, <1>5 DEF JobStep

LEMMA DailyResetIsJobStep ==
    ASSUME TypeOK, DailyReset
    PROVE  TypeOK' /\ JobStep
  <1>1. /\ positions' = [i \in Instruments |-> Today0(positions[i])]
        /\ funds' = Today0(funds)
        /\ UNCHANGED <<orders, trades, holdings, clock, opening>>
    BY DEF DailyReset
  <1>2. \A i \in Instruments : /\ positions'[i] \in Position
                               /\ positions'[i].quantity = positions[i].quantity
                               /\ positions'[i].margin_blocked = positions[i].margin_blocked
    BY <1>1, Today0Typed DEF TypeOK
  <1>3. positions' \in [Instruments -> Position]
    BY <1>1, <1>2
  <1>4. TypeOK'
    BY <1>1, <1>3, Today0Typed DEF TypeOK
  <1>5. Delivery \subseteq Instruments
    BY DEF Delivery
  <1> QED
    BY <1>1, <1>2, <1>4, <1>5 DEF JobStep

LEMMA CatchUpIsJobStep ==
    ASSUME TypeOK, CatchUp
    PROVE  TypeOK' /\ JobStep
  <1>1. PICK price \in [Stale -> Prices],
             reset \in SUBSET {i \in Instruments : positions[i].today_realized_pnl # 0},
             reset_funds \in {FALSE, funds.today_realized_pnl # 0} :
          LET pnl  == [i \in Stale |-> RealizedPnl(positions[i],
                                                   Magnitude(positions[i].quantity), price[i])]
              row(i) == IF i \in Stale THEN ClosedOut(positions[i], pnl[i])
                        ELSE IF i \in Due THEN NoPosition
                        ELSE positions[i]
              f    == SettledFunds(CaughtUpFunds(pnl))
          IN /\ job = NoJob
             /\ funds' = IF reset_funds THEN Today0(f) ELSE f
             /\ positions' = [i \in Instruments |-> IF i \in reset THEN Today0(row(i)) ELSE row(i)]
             /\ holdings' = SettledHoldings
             /\ UNCHANGED <<orders, trades, clock, opening, day, job, carried>>
    BY DEF CatchUp
  <1>2. PICK pnl : pnl = [i \in Stale |-> RealizedPnl(positions[i],
                                              Magnitude(positions[i].quantity), price[i])]
    OBVIOUS
  <1>3. PICK rows : rows = [i \in Instruments |->
                               IF i \in Stale THEN ClosedOut(positions[i], pnl[i])
                               ELSE IF i \in Due THEN NoPosition
                               ELSE positions[i]]
    OBVIOUS
  <1>4. PICK f : f = SettledFunds(CaughtUpFunds(pnl))
    OBVIOUS
  <1>5. /\ funds' = IF reset_funds THEN Today0(f) ELSE f
        /\ positions' = [i \in Instruments |-> IF i \in reset THEN Today0(rows[i]) ELSE rows[i]]
        /\ holdings' = SettledHoldings
        /\ UNCHANGED <<orders, trades, clock, opening>>
    BY <1>1, <1>2, <1>3, <1>4
  <1>6. Stale \subseteq Instruments /\ Due \subseteq Instruments
        /\ Delivery \subseteq Instruments /\ Stale \cap Delivery = {} /\ Due \subseteq Delivery
    BY DEF Stale, Due, Intraday, Delivery
  <1>7. pnl \in [Stale -> Int]
    <2>1. ASSUME NEW i \in Stale
          PROVE  RealizedPnl(positions[i], Magnitude(positions[i].quantity), price[i]) \in Int
      <3>1. positions[i] \in Position /\ price[i] \in Int
        BY <1>6, PricesAreIntegers DEF TypeOK
      <3>2. Magnitude(positions[i].quantity) \in Int
        BY <3>1 DEF Position, Magnitude
      <3> QED
        BY <3>1, <3>2, RealizedTyped
    <2> QED
      BY <1>2, <2>1
  <1>8. f \in Funds
    BY <1>4, <1>7, CaughtUpFundsTyped, SettledFundsTyped
  <1>9. funds' \in Funds
    BY <1>5, <1>8, Today0Typed
  <1>10. ASSUME NEW i \in Instruments
         PROVE  /\ rows[i] \in Position
                /\ \/ /\ rows[i].quantity = positions[i].quantity
                      /\ rows[i].margin_blocked = positions[i].margin_blocked
                   \/ rows[i].quantity = 0 /\ rows[i].margin_blocked = 0
                /\ i \in Due => rows[i].quantity = 0
                /\ i \notin Due \cup Stale => rows[i] = positions[i]
    <2>1. positions[i] \in Position
      BY DEF TypeOK
    <2>2. NoPosition \in Position /\ NoPosition.quantity = 0 /\ NoPosition.margin_blocked = 0
      BY DEF NoPosition, Position
    <2>3. CASE i \in Stale
      <3>1. rows[i] = ClosedOut(positions[i], pnl[i]) /\ pnl[i] \in Int
        BY <1>3, <1>7, <2>3
      <3> QED
        BY <2>1, <2>3, <3>1, ClosedOutTyped
    <2>4. CASE i \notin Stale /\ i \in Due
      BY <1>3, <2>2, <2>4
    <2>5. CASE i \notin Stale /\ i \notin Due
      BY <1>3, <2>1, <2>5
    <2> QED
      BY <2>3, <2>4, <2>5
  <1>11. ASSUME NEW i \in Instruments
         PROVE  /\ positions'[i] \in Position
                /\ positions'[i].quantity = rows[i].quantity
                /\ positions'[i].margin_blocked = rows[i].margin_blocked
    BY <1>5, <1>10, Today0Typed
  <1>12. positions' \in [Instruments -> Position]
    BY <1>5, <1>11
  <1>13. TypeOK'
    BY <1>5, <1>9, <1>12, SettledHoldingsTyped DEF TypeOK
  <1>14. ASSUME NEW i \in Delivery
         PROVE  positions'[i].quantity + holdings'[i[1]]
                    = positions[i].quantity + holdings[i[1]]
    <2>1. i \in Instruments /\ i \notin Stale
      BY <1>6
    <2>2. positions'[i].quantity = IF i \in Due THEN 0 ELSE positions[i].quantity
      BY <1>10, <1>11, <2>1
    <2> QED
      BY <1>5, <2>2, SettlementMovesShares
  <1>15. UNCHANGED <<orders, trades, opening>>
    BY <1>5
  <1> QED
    BY <1>10, <1>11, <1>13, <1>14, <1>15 DEF JobStep

-----------------------------------------------------------------------------
(* What the handlers do, called by a request or by the square-off. *)

HandlerStep == TypeOK' /\ OrderStep /\ PositionStep

\* The closing order of an open position is an order the handler can be given.
LEMMA ClosingOrderPlaceable ==
    ASSUME TypeOK, NEW i \in Intraday, Open(i)
    PROVE  ClosingOrder(i) \in Placeable
  <1>1. i[1] \in Symbols /\ i[2] \in Products /\ i \in Instruments
    BY DEF Intraday, Instruments
  <1>2. positions[i].quantity \in Int /\ positions[i].quantity # 0
    BY <1>1 DEF TypeOK, Position, Open
  <1>3. Magnitude(positions[i].quantity) \in Nat \ {0}
    BY <1>2 DEF Magnitude
  <1> QED
    BY <1>1, <1>3 DEF ClosingOrder, Placeable

LEMMA PlaceIsHandlerStep ==
    ASSUME TypeOK, NEW r \in Placeable, NEW ltp \in Prices \cup {NoPrice},
           PlaceOrder(r, ltp)
    PROVE  HandlerStep
  BY PlaceOrderTyped, PlaceIsOrderStep, PlaceIsPositionStep DEF HandlerStep

LEMMA CancelIsHandlerStep ==
    ASSUME TypeOK, NEW id \in DOMAIN orders, NEW ltp \in Prices \cup {NoPrice},
           CancelOrder(id, ltp)
    PROVE  HandlerStep
  <1>1. PositionStep
    BY DEF CancelOrder, PositionStep
  <1> QED
    BY <1>1, CancelOrderTyped, CancelIsOrderStep DEF HandlerStep

LEMMA NoHandlerIsHandlerStep ==
    ASSUME TypeOK, UNCHANGED vars
    PROVE  HandlerStep
  BY DEF vars, TypeOK, HandlerStep, OrderStep, PositionStep

\* The job of the square-off stays what it should be.
JobTyped == job \in [task   : {"none", "cancel", "close"},
                     orders : SUBSET DOMAIN orders,
                     rows   : SUBSET Intraday]

LEMMA JobBuilt ==
    ASSUME NEW ids, NEW rows \in SUBSET Intraday
    PROVE  /\ ids \in SUBSET DOMAIN orders'
                 => [NoJob EXCEPT !.task = "cancel", !.orders = ids]
                        \in [task   : {"none", "cancel", "close"},
                             orders : SUBSET DOMAIN orders',
                             rows   : SUBSET Intraday]
           /\ Closing(rows) \in [task   : {"none", "cancel", "close"},
                                 orders : SUBSET DOMAIN orders',
                                 rows   : SUBSET Intraday]
  BY DEF NoJob, Closing

LEMMA StartSquareOffSteps ==
    ASSUME TypeOK, NEW ltp \in Prices \cup {NoPrice}, StartSquareOff(ltp)
    PROVE  HandlerStep /\ JobTyped'
  <1> DEFINE listed == {id \in DOMAIN orders : /\ orders[id].product = "MIS"
                                               /\ orders[id].order_status = "open"}
             cancelling(ids) == [NoJob EXCEPT !.task = "cancel", !.orders = ids]
  <1>1. \/ UNCHANGED vars /\ job' = cancelling({})
        \/ \E id \in listed : CancelOrder(id, ltp) /\ job' = cancelling(listed \ {id})
    BY DEF StartSquareOff
  <1>2. CASE UNCHANGED vars /\ job' = cancelling({})
    <2>1. HandlerStep
      BY <1>2, NoHandlerIsHandlerStep
    <2>2. JobTyped'
      BY <1>2, JobBuilt DEF JobTyped
    <2> QED
      BY <2>1, <2>2
  <1>3. ASSUME NEW id \in listed, CancelOrder(id, ltp), job' = cancelling(listed \ {id})
        PROVE  HandlerStep /\ JobTyped'
    <2>1. HandlerStep
      BY <1>3, CancelIsHandlerStep
    <2>2. DOMAIN orders \subseteq DOMAIN orders'
      BY <2>1, OrderRowsAfter DEF HandlerStep
    <2>3. JobTyped'
      BY <1>3, <2>2, JobBuilt DEF JobTyped
    <2> QED
      BY <2>1, <2>3
  <1> QED
    BY <1>1, <1>2, <1>3

LEMMA CancelListedSteps ==
    ASSUME TypeOK, JobTyped, NEW ltp \in Prices \cup {NoPrice}, NEW id \in job.orders,
           CancelListed(id, ltp)
    PROVE  HandlerStep /\ JobTyped'
  <1>1. id \in DOMAIN orders
    BY DEF JobTyped
  <1>2. HandlerStep
    BY <1>1, CancelIsHandlerStep, NoHandlerIsHandlerStep DEF CancelListed
  <1>3. DOMAIN orders \subseteq DOMAIN orders'
    BY <1>2, OrderRowsAfter DEF HandlerStep
  <1>4. job' = [job EXCEPT !.orders = job.orders \ {id}]
    BY DEF CancelListed
  <1>5. JobTyped'
    BY <1>3, <1>4 DEF JobTyped
  <1> QED
    BY <1>2, <1>5

LEMMA ClosePositionsSteps ==
    ASSUME TypeOK, NEW ltp \in Prices \cup {NoPrice}, ClosePositions(ltp)
    PROVE  HandlerStep /\ JobTyped'
  <1> DEFINE listed == {i \in Intraday : Open(i)}
  <1>1. \/ UNCHANGED vars /\ job' = NoJob
        \/ \E i \in listed : PlaceOrder(ClosingOrder(i), ltp) /\ job' = Closing(listed \ {i})
    BY DEF ClosePositions
  <1>2. CASE UNCHANGED vars /\ job' = NoJob
    <2>1. JobTyped'
      BY <1>2 DEF NoJob, JobTyped
    <2> QED
      BY <1>2, <2>1, NoHandlerIsHandlerStep
  <1>3. ASSUME NEW i \in listed, PlaceOrder(ClosingOrder(i), ltp),
               job' = Closing(listed \ {i})
        PROVE  HandlerStep /\ JobTyped'
    <2>1. ClosingOrder(i) \in Placeable
      BY ClosingOrderPlaceable
    <2>2. HandlerStep
      BY <1>3, <2>1, PlaceIsHandlerStep
    <2>3. JobTyped'
      BY <1>3, JobBuilt DEF JobTyped
    <2> QED
      BY <2>2, <2>3
  <1> QED
    BY <1>1, <1>2, <1>3

LEMMA CloseListedSteps ==
    ASSUME TypeOK, JobTyped, NEW ltp \in Prices \cup {NoPrice}, NEW i \in job.rows,
           CloseListed(i, ltp)
    PROVE  HandlerStep /\ JobTyped'
  <1>1. i \in Intraday /\ job.rows \ {i} \in SUBSET Intraday
    BY DEF JobTyped
  <1>2. HandlerStep
    BY <1>1, ClosingOrderPlaceable, PlaceIsHandlerStep, NoHandlerIsHandlerStep DEF CloseListed
  <1>3. JobTyped'
    BY <1>1, JobBuilt DEF JobTyped, CloseListed
  <1> QED
    BY <1>2, <1>3

\* Every step of a trading day is a handler's, a job's, or the clock's.
LEMMA DayStepIs ==
    ASSUME TypeOK, JobTyped, [DayNext]_dayVars
    PROVE  /\ TypeOK' /\ JobTyped'
           /\ OrderStep
           /\ PositionStep \/ JobStep
  <1>1. SUFFICES ASSUME TypeOK, JobTyped, [DayNext]_dayVars
                 PROVE  JobTyped' /\ (HandlerStep \/ (TypeOK' /\ JobStep))
    BY DEF HandlerStep, JobStep, OrderStep
  <1>2. ASSUME UNCHANGED <<orders, job>> PROVE JobTyped'
    BY <1>1, <1>2 DEF JobTyped
  <1>3. CASE Requested
    <2>1. HandlerStep
      BY <1>1, <1>3, StepTyped, StepIsOrderStep, StepIsPositionStep DEF HandlerStep, Requested
    <2>2. DOMAIN orders \subseteq DOMAIN orders' /\ job' = job
      BY <1>1, <1>3, <2>1, OrderRowsAfter DEF HandlerStep, Requested
    <2>3. JobTyped'
      BY <1>1, <2>2 DEF JobTyped
    <2> QED
      BY <2>1, <2>3
  <1>4. CASE OpenSession \/ ReachSquareOffTime
    <2>1. UNCHANGED <<orders, trades, positions, holdings, funds, opening, job>>
            /\ clock' \in {"session", "after_square_off"}
      BY <1>4 DEF OpenSession, ReachSquareOffTime
    <2>2. TypeOK'
      BY <1>1, <2>1 DEF TypeOK, Clock
    <2>3. OrderStep /\ PositionStep
      BY <2>1 DEF OrderStep, PositionStep
    <2> QED
      BY <1>2, <2>1, <2>2, <2>3 DEF HandlerStep
  <1>5. CASE Midnight
    BY <1>1, <1>2, <1>5, MidnightIsJobStep DEF Midnight
  <1>6. CASE SettleDelivery
    BY <1>1, <1>2, <1>6, SettleIsJobStep DEF SettleDelivery
  <1>7. CASE DailyReset
    BY <1>1, <1>2, <1>7, DailyResetIsJobStep DEF DailyReset
  <1>8. CASE CatchUp
    <2>1. UNCHANGED <<orders, job>>
      BY <1>8 DEF CatchUp
    <2> QED
      BY <1>1, <1>2, <1>8, <2>1, CatchUpIsJobStep
  <1>9. ASSUME NEW ltp \in Prices \cup {NoPrice}, StartSquareOff(ltp) \/ ClosePositions(ltp)
        PROVE  JobTyped' /\ HandlerStep
    BY <1>1, <1>9, StartSquareOffSteps, ClosePositionsSteps
  <1>10. ASSUME NEW ltp \in Prices \cup {NoPrice}, NEW id \in job.orders, CancelListed(id, ltp)
         PROVE  JobTyped' /\ HandlerStep
    BY <1>1, <1>10, CancelListedSteps
  <1>11. ASSUME NEW ltp \in Prices \cup {NoPrice}, NEW i \in job.rows, CloseListed(i, ltp)
         PROVE  JobTyped' /\ HandlerStep
    BY <1>1, <1>11, CloseListedSteps
  <1>12. CASE UNCHANGED dayVars
    <2>1. UNCHANGED vars /\ UNCHANGED <<orders, job>>
      BY <1>12 DEF dayVars, vars
    <2> QED
      BY <1>1, <1>2, <2>1, NoHandlerIsHandlerStep
  <1> QED
    BY <1>1, <1>3, <1>4, <1>5, <1>6, <1>7, <1>8, <1>9, <1>10, <1>11, <1>12 DEF DayNext

-----------------------------------------------------------------------------
(* The invariants of the trading days. *)

LEMMA DayInitTyped ==
    ASSUME DayInit
    PROVE  DayTypeOK
  <1>1. TypeOK
    BY InitTyped DEF DayInit
  <1>2. day \in 0..MaxDays /\ carried \subseteq Instruments
    BY DaysAssumption DEF DayInit
  <1>3. JobTyped
    BY DEF DayInit, NoJob, JobTyped
  <1> QED
    BY <1>1, <1>2, <1>3 DEF DayTypeOK, JobTyped

\* The clock moves the day on only below its bound.
LEMMA DayCountKept ==
    ASSUME day \in 0..MaxDays, carried \subseteq Instruments, [DayNext]_dayVars
    PROVE  day' \in 0..MaxDays /\ carried' \subseteq Instruments
  <1>1. CASE Midnight
    BY <1>1, DaysAssumption DEF Midnight
  <1>2. CASE UNCHANGED <<day, carried>>
    BY <1>2
  <1>3. [DayNext]_dayVars => Midnight \/ UNCHANGED <<day, carried>>
    BY DEF DayNext, dayVars, Requested, OpenSession, ReachSquareOffTime, StartSquareOff,
           ClosePositions, CancelListed, CloseListed, SettleDelivery, DailyReset, CatchUp
  <1> QED
    BY <1>1, <1>2, <1>3

\* Through every job, request and fill of any number of days, in any order and
\* with any of the jobs missed, the book stays well typed, and the square-off works
\* on orders that exist and on intraday positions only.
THEOREM DayTypesHold == DaySpec => []DayTypeOK
  <1>1. DayInit => DayTypeOK
    BY DayInitTyped
  <1>2. DayTypeOK /\ [DayNext]_dayVars => DayTypeOK'
    <2> SUFFICES ASSUME DayTypeOK, [DayNext]_dayVars PROVE DayTypeOK'
      OBVIOUS
    <2>1. /\ TypeOK /\ JobTyped
          /\ day \in 0..MaxDays /\ carried \subseteq Instruments
      BY DEF DayTypeOK, JobTyped
    <2>2. TypeOK' /\ JobTyped'
      BY <2>1, DayStepIs
    <2>3. day' \in 0..MaxDays /\ carried' \subseteq Instruments
      BY <2>1, DayCountKept
    <2> QED
      BY <2>2, <2>3 DEF DayTypeOK, JobTyped
  <1> QED
    BY <1>1, <1>2, PTL DEF DaySpec

LEMMA DayStep ==
    ASSUME DayTypeOK, [DayNext]_dayVars
    PROVE  TypeOK /\ OrderStep /\ (PositionStep \/ JobStep)
  <1>1. TypeOK /\ JobTyped
    BY DEF DayTypeOK, JobTyped
  <1> QED
    BY <1>1, DayStepIs

\* The square-off and the other jobs close no order twice and open none again: an
\* order they find completed, cancelled or rejected is left alone.
THEOREM DayClosedOrdersAreFinal == DaySpec => ClosedOrderIsFinal
  <1>1. DayTypeOK /\ [DayNext]_dayVars
            => [\A id \in DOMAIN orders :
                    orders[id].order_status # "open" => orders'[id] = orders[id]]_vars
    BY DayStep, OrderRowsAfter
  <1> QED
    BY <1>1, DayTypesHold, PTL DEF DaySpec, ClosedOrderIsFinal

\* An order is complete exactly when it has a trade, and has at most one, also
\* when the square-off places and cancels orders between the requests.
THEOREM DayOneTradeEach == DaySpec => []OneTradePerFilledOrder
  <1>1. DayInit => TradeBook
    BY DEF DayInit, Init, TradeBook, TradesHaveOrders
  <1>2. DayTypeOK /\ TradeBook /\ [DayNext]_dayVars => TradeBook'
    BY DayStep, TradeBookKept
  <1>3. TradeBook => OneTradePerFilledOrder
    BY TradeBookIsProperty DEF TradeBook
  <1> QED
    BY <1>1, <1>2, <1>3, DayTypesHold, PTL DEF DaySpec

\* The days implement OrderLifecycle too: the jobs fill and cancel through the
\* same steps as the requests.
THEOREM DayImplementsLifecycle == DaySpec => ImplementsLifecycle
  <1>1. DayInit => Lifecycle!Init /\ BookBounded
    BY DEF DayInit, Init, BookBounded, Lifecycle!Init, StatusOf, FillsInOrder
  <1>2. DayTypeOK /\ BookBounded /\ [DayNext]_dayVars
            => BookBounded' /\ [Lifecycle!Next]_(Lifecycle!lifecycle)
    BY DayStep, BoundKept, LifecycleStep
  <1> QED
    BY <1>1, <1>2, DayTypesHold, PTL DEF DaySpec, ImplementsLifecycle, Lifecycle!Spec

\* A position without a quantity holds no margin, whether a fill closed it, the
\* settlement emptied it, the catch-up closed it out or a reset deleted it.
THEOREM DayNoMarginOnClosedPositions == DaySpec => []ClosedPositionHoldsNoMargin
  <1>1. DayInit => ClosedPositionHoldsNoMargin
    BY DEF DayInit, Init, ClosedPositionHoldsNoMargin, NoPosition
  <1>2. DayTypeOK /\ ClosedPositionHoldsNoMargin /\ [DayNext]_dayVars
            => ClosedPositionHoldsNoMargin'
    <2>1. ClosedPositionHoldsNoMargin /\ JobStep => ClosedPositionHoldsNoMargin'
      BY DEF ClosedPositionHoldsNoMargin, JobStep
    <2> QED
      BY <2>1, DayStep, MarginKept
  <1> QED
    BY <1>1, <1>2, DayTypesHold, PTL DEF DaySpec

-----------------------------------------------------------------------------
(***************************************************************************)
(* Delivery shares.  A fill adds to the position and to what was traded; a *)
(* settlement moves shares from the position to the holding; a reset       *)
(* starts over.                                                            *)
(***************************************************************************)

LEMMA NetTradedTyped ==
    ASSUME trades \in Seq(Trade), NEW i
    PROVE  NetTraded(i) \in Int
  <1>1. PICK f, S : f = [t \in DOMAIN trades |-> trades[t].quantity] /\ S = TradesIn(i)
    OBVIOUS
  <1>2. IsFiniteSet(S)
    <2>1. DOMAIN trades = 1..Len(trades) /\ Len(trades) \in Nat
      BY LenProperties
    <2>2. S \subseteq DOMAIN trades
      BY <1>1 DEF TradesIn
    <2>3. IsFiniteSet(DOMAIN trades)
      BY <2>1, FS_Interval
    <2> QED
      BY <2>2, <2>3, FS_Subset
  <1>3. \A t \in S : f[t] \in Int
    <2>1. \A t \in DOMAIN trades : trades[t] \in Trade
      BY ElementOfSeq, LenProperties
    <2> QED
      BY <1>1, <2>1 DEF TradesIn, Trade
  <1>4. SumFunctionOnSet(f, S) \in Int
    BY <1>2, <1>3, SumTyped
  <1> QED
    BY <1>1, <1>4 DEF NetTraded

SharesInv == OpeningIsPast /\ SharesAreAccountedFor

LEMMA SharesKept ==
    ASSUME TypeOK, SharesInv, PositionStep \/ JobStep
    PROVE  SharesInv'
  <1>1. trades \in Seq(Trade) /\ opening.trades \in Nat /\ Len(trades) \in Nat
    BY LenProperties DEF TypeOK
  <1>2. \A i \in Delivery : /\ i \in Instruments /\ i[1] \in Symbols
                            /\ positions[i].quantity \in Int
                            /\ holdings[i[1]] \in Int
                            /\ opening.holdings[i[1]] \in Int
                            /\ NetTraded(i) \in Int
    <2>1. ASSUME NEW i \in Delivery
          PROVE  i \in Instruments /\ i[1] \in Symbols
      BY DEF Delivery, Instruments
    <2>2. \A s \in Symbols : holdings[s] \in Int /\ opening.holdings[s] \in Int
      BY DEF TypeOK
    <2>3. \A i \in Instruments : positions[i].quantity \in Int
      BY DEF TypeOK, Position
    <2> QED
      BY <1>1, <2>1, <2>2, <2>3, NetTradedTyped
  <1>3. ASSUME UNCHANGED <<trades, opening>>
        PROVE  OpeningIsPast' /\ \A i : NetTraded(i)' = NetTraded(i)
    BY <1>3 DEF SharesInv, OpeningIsPast, NetTraded, TradesIn
  <1>4. CASE UNCHANGED <<positions, trades, holdings, opening>>
    BY <1>3, <1>4 DEF SharesInv, SharesAreAccountedFor
  <1>5. CASE JobStep
    BY <1>3, <1>5 DEF SharesInv, SharesAreAccountedFor, JobStep
  <1>6. CASE Emptied
    <2>1. trades' = trades /\ opening'.trades = Len(trades)
      BY <1>6 DEF Emptied
    <2>2. \A i : NetTraded(i)' = 0
      BY <1>1, <2>1, NothingTradedAtReset
    <2>3. \A i \in Delivery : /\ positions'[i].quantity = 0
                              /\ holdings'[i[1]] = 0
                              /\ opening'.holdings[i[1]] = 0
      BY <1>2, <1>6 DEF Emptied, NoPosition
    <2>4. OpeningIsPast'
      BY <1>1, <2>1 DEF OpeningIsPast
    <2>5. SharesAreAccountedFor'
      BY <2>2, <2>3 DEF SharesAreAccountedFor
    <2> QED
      BY <2>4, <2>5 DEF SharesInv
  <1>7. ASSUME NEW order \in Order, NEW trade \in Trade, TradeNetted(order, trade)
        PROVE  SharesInv'
    <2>1. /\ trade.instrument \in Instruments /\ trade.quantity \in Int
          /\ positions'[trade.instrument].quantity
                 = positions[trade.instrument].quantity + trade.quantity
          /\ \A i \in Instruments : i # trade.instrument => positions'[i] = positions[i]
      BY <1>7, PositionsAfterTrade
    <2>2. /\ OpeningIsPast'
          /\ NetTraded(trade.instrument)' = NetTraded(trade.instrument) + trade.quantity
          /\ \A i : i # trade.instrument => NetTraded(i)' = NetTraded(i)
      BY <1>1, <1>7, NetTradedAfterTrade DEF SharesInv, TradeNetted
    <2>3. holdings' = holdings /\ opening' = opening
      BY <1>7 DEF TradeNetted
    <2>4. ASSUME NEW i \in Delivery
          PROVE  positions'[i].quantity + holdings'[i[1]]
                     = opening'.holdings[i[1]] + NetTraded(i)'
      <3>1. positions[i].quantity + holdings[i[1]] = opening.holdings[i[1]] + NetTraded(i)
        BY DEF SharesInv, SharesAreAccountedFor
      <3>2. CASE i # trade.instrument
        BY <1>2, <2>1, <2>2, <2>3, <3>1, <3>2
      <3>3. CASE i = trade.instrument
        BY <1>2, <2>1, <2>2, <2>3, <3>1, <3>3
      <3> QED
        BY <3>2, <3>3
    <2> QED
      BY <2>2, <2>4 DEF SharesInv, SharesAreAccountedFor
  <1> QED
    BY <1>4, <1>5, <1>6, <1>7 DEF PositionStep

\* Delivery shares are neither made nor lost between the position rows and the
\* holdings, whichever of the settlements runs, late, twice or not at all, and
\* whatever is traded around it.
THEOREM SharesAccountedFor == DaySpec => []SharesAreAccountedFor
  <1>1. DayInit => SharesInv
    <2> SUFFICES ASSUME DayInit PROVE SharesInv
      OBVIOUS
    <2>1. TypeOK /\ trades = <<>> /\ opening.trades = 0 /\ opening.holdings = holdings
      BY InitTyped DEF DayInit, Init
    <2>2. \A i : NetTraded(i) = 0
      <3>1. \A i : TradesIn(i) = {}
        BY <2>1 DEF TradesIn
      <3> QED
        BY <3>1, SumOfNothing DEF NetTraded
    <2>3. \A i \in Delivery : /\ positions[i].quantity = 0
                              /\ holdings[i[1]] \in Int
      <3>1. \A i \in Delivery : i \in Instruments /\ i[1] \in Symbols
        BY DEF Delivery, Instruments
      <3> QED
        BY <2>1, <3>1 DEF DayInit, Init, TypeOK, NoPosition
    <2>4. OpeningIsPast
      BY <2>1 DEF OpeningIsPast
    <2>5. SharesAreAccountedFor
      BY <2>1, <2>2, <2>3 DEF SharesAreAccountedFor
    <2> QED
      BY <2>4, <2>5 DEF SharesInv
  <1>2. DayTypeOK /\ SharesInv /\ [DayNext]_dayVars => SharesInv'
    BY DayStep, SharesKept
  <1>3. SharesInv => SharesAreAccountedFor
    BY DEF SharesInv
  <1> QED
    BY <1>1, <1>2, <1>3, DayTypesHold, PTL DEF DaySpec
=============================================================================
