-------------------------- MODULE SandboxPositions --------------------------
(***************************************************************************)
(* The netting rules of the sandbox (ExecutionEngine._update_position) and *)
(* the leverage rule for margins (FundManager.calculate_margin_required),  *)
(* as operators on a position row and a filled order.                      *)
(*                                                                         *)
(* A position is signed: positive long, negative short.  A row that was    *)
(* never created is NoPosition; a row that was closed keeps its average    *)
(* price and its realised profit with quantity 0.                          *)
(***************************************************************************)
EXTENDS Integers

CONSTANT Products, Leverage

ASSUME LeverageAssumption == Leverage \in [Products -> Nat \ {0}]

Position == [quantity                 : Int,
             average_price            : Int,
             margin_blocked           : Int,
             accumulated_realized_pnl : Int,
             today_realized_pnl       : Int,
             created_today            : BOOLEAN]

NoPosition == [quantity                 |-> 0,
               average_price            |-> 0,
               margin_blocked           |-> 0,
               accumulated_realized_pnl |-> 0,
               today_realized_pnl       |-> 0,
               created_today            |-> TRUE]

Magnitude(n) == IF n < 0 THEN -n ELSE n

Signed(action, quantity) == IF action = "BUY" THEN quantity ELSE -quantity

\* trade_value / leverage, rounded down to the currency unit
MarginRequired(product, quantity, price) == (quantity * price) \div Leverage[product]

-----------------------------------------------------------------------------

\* The order trades against the position.
Opposes(position, action) ==
    \/ position.quantity > 0 /\ action = "SELL"
    \/ position.quantity < 0 /\ action = "BUY"

\* How much of the position a fill of this quantity closes.
ClosedQuantity(position, action, quantity) ==
    IF ~Opposes(position, action) THEN 0
    ELSE IF quantity < Magnitude(position.quantity) THEN quantity
    ELSE Magnitude(position.quantity)

\* _calculate_realized_pnl
RealizedPnl(position, closed, price) ==
    IF position.quantity > 0 THEN (price - position.average_price) * closed
                             ELSE (position.average_price - price) * closed

\* The part of the position's margin that goes back to the funds: the share of
\* the closed quantity, all of it when the position is closed or reversed.
MarginToRelease(position, closed) ==
    IF closed = 0 THEN 0
    ELSE (position.margin_blocked * closed) \div Magnitude(position.quantity)

-----------------------------------------------------------------------------

\* A new row, or a closed row opened again.  created_at is only written when
\* the row is created.
Opened(position, order, price) ==
    [position EXCEPT !.quantity       = Signed(order.action, order.quantity),
                     !.average_price  = price,
                     !.margin_blocked = order.margin_blocked]

\* Mutant: the average is not weighted by the quantities.
AddedUnweighted(position, order, price) ==
    [position EXCEPT
        !.quantity       = @ + Signed(order.action, order.quantity),
        !.average_price  = (@ + price) \div 2,
        !.margin_blocked = @ + order.margin_blocked]

Added(position, order, price) ==
    LET held  == Magnitude(position.quantity)
        total == held + order.quantity
    IN [position EXCEPT
           !.quantity       = @ + Signed(order.action, order.quantity),
           !.average_price  = (held * @ + order.quantity * price) \div total,
           !.margin_blocked = @ + order.margin_blocked]

\* Realised profit goes to the row whether the position is reduced, closed or
\* reversed.
Realized(position, closed, price) ==
    LET pnl == RealizedPnl(position, closed, price)
    IN [position EXCEPT !.accumulated_realized_pnl = @ + pnl,
                        !.today_realized_pnl       = @ + pnl]

\* Mutant: the released margin is not taken off the row.
ReducedKeepingMargin(position, order, price) ==
    [Realized(position, order.quantity, price) EXCEPT
        !.quantity = @ + Signed(order.action, order.quantity)]

ReducedOrClosed(position, order, price) ==
    [Realized(position, order.quantity, price) EXCEPT
        !.quantity       = @ + Signed(order.action, order.quantity),
        !.margin_blocked = @ - MarginToRelease(position, order.quantity)]

\* Mutant: the whole order, not its excess, becomes the new position.
ReversedWhole(position, order, price) ==
    [Realized(position, Magnitude(position.quantity), price) EXCEPT
        !.quantity       = Signed(order.action, order.quantity),
        !.average_price  = price,
        !.margin_blocked = order.margin_blocked]

\* The excess of the order opens the opposite position at the fill price.  Its
\* margin is the order's margin scaled down to the excess.
Reversed(position, order, price) ==
    LET held   == Magnitude(position.quantity)
        excess == order.quantity - held
    IN [Realized(position, held, price) EXCEPT
           !.quantity       = Signed(order.action, excess),
           !.average_price  = price,
           !.margin_blocked = (order.margin_blocked * excess) \div order.quantity]

\* _update_position: the row after the order filled at price.
Netted(position, order, price) ==
    IF position.quantity = 0 THEN Opened(position, order, price)
    ELSE IF ~Opposes(position, order.action) THEN Added(position, order, price)
    ELSE IF order.quantity > Magnitude(position.quantity)
         THEN Reversed(position, order, price)
    ELSE ReducedOrClosed(position, order, price)
=============================================================================
