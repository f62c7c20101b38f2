---------------------------- MODULE SandboxFunds ----------------------------
(***************************************************************************)
(* The funds row of one user of the paper-trading sandbox and the          *)
(* operations FundManager performs on it (sandbox/fund_manager.py).  Each  *)
(* operation runs under FundManager._lock and commits before it returns,   *)
(* so it is one operator from the row to the row.  Money is an integer     *)
(* number of the smallest currency unit.                                   *)
(***************************************************************************)
EXTENDS Integers

CONSTANT StartingCapital

ASSUME CapitalAssumption == StartingCapital \in Nat

Funds == [available_balance  : Int,
          used_margin        : Int,
          realized_pnl       : Int,
          today_realized_pnl : Int]

InitialFunds == [available_balance  |-> StartingCapital,
                 used_margin        |-> 0,
                 realized_pnl       |-> 0,
                 today_realized_pnl |-> 0]

-----------------------------------------------------------------------------

\* block_margin refuses an amount the balance does not cover.
CanBlock(funds, amount) == funds.available_balance >= amount

BlockMargin(funds, amount) ==
    [funds EXCEPT !.available_balance = @ - amount,
                  !.used_margin       = @ + amount]

\* Mutant: the profit is booked but not paid out.
ReleaseMarginUnpaid(funds, amount, pnl) ==
    [funds EXCEPT !.used_margin        = @ - amount,
                  !.available_balance  = @ + amount,
                  !.realized_pnl       = @ + pnl,
                  !.today_realized_pnl = @ + pnl]

ReleaseMargin(funds, amount, pnl) ==
    [funds EXCEPT !.used_margin        = @ - amount,
                  !.available_balance  = @ + amount + pnl,
                  !.realized_pnl       = @ + pnl,
                  !.today_realized_pnl = @ + pnl]

\* validate_margin_consistency and reconcile_margin(auto_fix=True): used_margin
\* becomes the margin found in the open positions, and whatever it held beyond
\* that is handed back to the available balance.
ReconcileMargin(funds, position_margin) ==
    [funds EXCEPT !.available_balance = @ + (funds.used_margin - position_margin),
                  !.used_margin       = position_margin]

-----------------------------------------------------------------------------

(***************************************************************************)
(* The balance equation the operations keep.  A realised profit is paid    *)
(* into available_balance, so it adds to the capital the row accounts for. *)
(***************************************************************************)
Balanced(funds) ==
    funds.available_balance + funds.used_margin
        = StartingCapital + funds.realized_pnl
=============================================================================
