--------------------------- MODULE OrderLifecycle ---------------------------
(***************************************************************************)
(* What the sandbox promises about an order: it is accepted or refused     *)
(* once, an accepted order is filled or cancelled once, and every fill     *)
(* that is ever recorded is the fill of an order that was open.            *)
(***************************************************************************)
EXTENDS Sequences

CONSTANT OrderIds

VARIABLES status,  \* of every order, "none" before it is placed
          fills    \* the orders that were filled, in the order it happened

lifecycle == <<status, fills>>

Init ==
    /\ status = [id \in OrderIds |-> "none"]
    /\ fills = <<>>

Becomes(id, from, to) ==
    /\ status[id] = from
    /\ status' = [status EXCEPT ![id] = to]

Accept(id) == Becomes(id, "none", "open") /\ UNCHANGED fills

Refuse(id) == Becomes(id, "none", "rejected") /\ UNCHANGED fills

Cancel(id) == Becomes(id, "open", "cancelled") /\ UNCHANGED fills

Fill(id) == Becomes(id, "open", "complete") /\ fills' = Append(fills, id)

\* Accepted and filled before anybody else sees the order.
FillOnArrival(id) == Becomes(id, "none", "complete") /\ fills' = Append(fills, id)

Next == \E id \in OrderIds :
    Accept(id) \/ Refuse(id) \/ Cancel(id) \/ Fill(id) \/ FillOnArrival(id)

Spec == Init /\ [][Next]_lifecycle
=============================================================================
