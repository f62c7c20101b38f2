--------------------------- MODULE SandboxOrders ---------------------------
(***************************************************************************)
(* What OrderManager and ExecutionEngine compute from one order request or *)
(* order row, the position it trades against and a quote: the margin to    *)
(* block, the margin to release, and whether the order fills.              *)
(***************************************************************************)
EXTENDS SandboxPositions

NoPrice == 0

BlocksMargin(r) == r.action = "BUY" \/ r.product \in {"MIS", "NRML"}

\* Only the part of the order that goes beyond an opposite position is new
\* exposure.
NewExposure(position, r) ==
    IF Opposes(position, r.action)
    THEN r.quantity - ClosedQuantity(position, r.action, r.quantity)
    ELSE r.quantity

MarginToBlock(position, r, price) ==
    MarginRequired(r.product, NewExposure(position, r), price)

\* The amount cancel_order releases: the margin on the row or, where the row
\* holds none, the margin the order would need if it opened a position.
CancelRelease(order, ltp) ==
    LET price == IF order.price = NoPrice THEN ltp ELSE order.price
    IN IF order.margin_blocked > 0 THEN order.margin_blocked
       ELSE IF BlocksMargin(order)
            THEN MarginRequired(order.product, order.quantity, price)
            ELSE 0

-----------------------------------------------------------------------------

\* A quote at ltp satisfies the order's limit, and its trigger.
LimitMet(r, ltp) == IF r.action = "BUY" THEN ltp <= r.price ELSE ltp >= r.price

TriggerMet(r, ltp) ==
    IF r.action = "BUY" THEN ltp >= r.trigger_price ELSE ltp <= r.trigger_price

ConditionsMet(r, ltp) ==
    /\ r.price_type \in {"LIMIT", "SL"} => LimitMet(r, ltp)
    /\ r.price_type \in {"SL", "SL-M"} => TriggerMet(r, ltp)
=============================================================================
