----------------------------- MODULE SandboxDay -----------------------------
(***************************************************************************)
(* The book over several trading days: the square-off of intraday          *)
(* positions, the settlement of delivery positions into holdings, the      *)
(* daily reset, and the catch-up tasks that make good for jobs missed      *)
(* while the program was down.                                             *)
(*                                                                         *)
(* The square-off job works through lists it made earlier, with requests   *)
(* and fills in between; each cancellation and each closing order is a     *)
(* handler of SandboxBook.  The other jobs are one step each, and do not   *)
(* overlap with it.  A job may be missed: nothing makes the scheduler run  *)
(* it.                                                                     *)
(***************************************************************************)
EXTENDS SandboxBook

CONSTANT MaxDays  \* bound on the days of a behaviour

ASSUME DaysAssumption == MaxDays \in Nat

VARIABLES day,     \* midnights passed
          job,     \* the square-off job: what it is at, and what it still has to do
          carried  \* history: the instruments open at the last midnight

dayVars == <<orders, trades, positions, holdings, funds, clock, opening, day, job, carried>>

NoJob == [task |-> "none", orders |-> {}, rows |-> {}]

Exists(i) == positions[i].average_price # NoPrice
Open(i) == positions[i].quantity # 0

Intraday == {i \in Instruments : i[2] = "MIS"}
Delivery == {i \in Instruments : i[2] = "CNC"}

\* Written before today's midnight: created_at is set when the row is created and
\* not when a closed row is opened again.
FromBefore(i) == Exists(i) /\ ~positions[i].created_today

DayInit == Init /\ day = 0 /\ job = NoJob /\ carried = {}

-----------------------------------------------------------------------------
(* The clock. *)

OpenSession ==
    /\ clock = "before_open" /\ job = NoJob
    /\ clock' = "session"
    /\ UNCHANGED <<orders, trades, positions, holdings, funds, opening, day, job, carried>>

ReachSquareOffTime ==
    /\ clock = "session" /\ job = NoJob
    /\ clock' = "after_square_off"
    /\ UNCHANGED <<orders, trades, positions, holdings, funds, opening, day, job, carried>>

\* The square-off has the night to end in.
Midnight ==
    /\ clock = "after_square_off" /\ job = NoJob
    /\ day < MaxDays
    /\ clock' = "before_open"
    /\ day' = day + 1
    /\ positions' = [i \in Instruments |->
                        [positions[i] EXCEPT !.created_today = ~Exists(i)]]
    /\ carried' = {i \in Instruments : Open(i)}
    /\ UNCHANGED <<orders, trades, holdings, funds, opening, job>>

-----------------------------------------------------------------------------
(* Square-off: check_and_square_off, every minute past the square-off time. *)

\* The job lists the open intraday orders and cancels the first.  Its session holds
\* the rows as listed until that commit, so the two are one step, as the load and
\* the commit of any cancellation are in SandboxBook.
StartSquareOff(ltp) ==
    LET listed == {id \in DOMAIN orders : /\ orders[id].product = "MIS"
                                          /\ orders[id].order_status = "open"}
        cancelling(ids) == [NoJob EXCEPT !.task = "cancel", !.orders = ids]
    IN /\ clock = "after_square_off" /\ job = NoJob
       /\ \/ listed = {} /\ UNCHANGED vars /\ job' = cancelling({})
          \/ \E id \in listed : CancelOrder(id, ltp) /\ job' = cancelling(listed \ {id})
       /\ UNCHANGED <<day, carried>>

\* Mutant: an order on the list is cancelled whatever became of it.
CancelListedUnchecked(id, ltp) ==
    /\ job.task = "cancel" /\ id \in job.orders
    /\ orders' = [orders EXCEPT ![id].order_status = "cancelled"]
    /\ job' = [job EXCEPT !.orders = @ \ {id}]
    /\ UNCHANGED <<trades, positions, holdings, funds, clock, opening, day, carried>>

\* It goes on to the next, loads it again, and cancels it if it is still open.
CancelListed(id, ltp) ==
    /\ job.task = "cancel" /\ id \in job.orders
    /\ IF orders[id].order_status = "open" THEN CancelOrder(id, ltp) ELSE UNCHANGED vars
    /\ job' = [job EXCEPT !.orders = @ \ {id}]
    /\ UNCHANGED <<day, carried>>

\* close_position: a MARKET order for the opposite of the position.
ClosingOrder(i) ==
    [symbol        |-> i[1],
     product       |-> i[2],
     action        |-> IF positions[i].quantity > 0 THEN "SELL" ELSE "BUY",
     quantity      |-> Magnitude(positions[i].quantity),
     price_type    |-> "MARKET",
     price         |-> NoPrice,
     trigger_price |-> NoPrice]

Closing(rows) == IF rows = {} THEN NoJob ELSE [NoJob EXCEPT !.task = "close", !.rows = rows]

\* Mutant: the query forgets the product.
ClosePositionsOfAnyProduct(ltp) ==
    LET listed == {i \in Instruments : Open(i)}
    IN /\ job.task = "cancel" /\ job.orders = {}
       /\ \/ listed = {} /\ UNCHANGED vars /\ job' = NoJob
          \/ \E i \in listed : /\ PlaceOrder(ClosingOrder(i), ltp)
                               /\ job' = Closing(listed \ {i})
       /\ UNCHANGED <<day, carried>>

\* It lists the open intraday positions and closes the first ...
ClosePositions(ltp) ==
    LET listed == {i \in Intraday : Open(i)}
    IN /\ job.task = "cancel" /\ job.orders = {}
       /\ \/ listed = {} /\ UNCHANGED vars /\ job' = NoJob
          \/ \E i \in listed : /\ PlaceOrder(ClosingOrder(i), ltp)
                               /\ job' = Closing(listed \ {i})
       /\ UNCHANGED <<day, carried>>

\* ... and then each of the others, as it is then.  One that was closed since has a
\* quantity of 0, which the validation refuses.
CloseListed(i, ltp) ==
    /\ job.task = "close" /\ i \in job.rows
    /\ IF Open(i) THEN PlaceOrder(ClosingOrder(i), ltp) ELSE UNCHANGED vars
    /\ job' = Closing(job.rows \ {i})
    /\ UNCHANGED <<day, carried>>

-----------------------------------------------------------------------------
(* T+1 settlement: process_t1_settlement, at midnight and as a catch-up. *)

Due == {i \in Delivery : FromBefore(i)}

Cost == [i \in Instruments |->
            Magnitude(positions[i].quantity) * positions[i].average_price]

\* A sell from a holding is paid out.  Anything else is taken out of used_margin,
\* the money being in the holding now: also a sell that finds no holding.
PaidOut(i) == positions[i].quantity < 0 /\ holdings[i[1]] # 0

SettledFunds(f) ==
    [f EXCEPT
        !.available_balance = @ + SumFunctionOnSet(Cost, {i \in Due : PaidOut(i)}),
        !.used_margin       = @ - SumFunctionOnSet(Cost, {i \in Due : ~PaidOut(i)})]

\* Mutant: a sell is paid out and the holding keeps its shares.
SettledHoldingsBuysOnly ==
    [s \in Symbols |->
        IF <<s, "CNC">> \in Due /\ positions[<<s, "CNC">>].quantity > 0
        THEN holdings[s] + positions[<<s, "CNC">>].quantity ELSE holdings[s]]

SettledHoldings ==
    [s \in Symbols |->
        IF <<s, "CNC">> \in Due THEN holdings[s] + positions[<<s, "CNC">>].quantity
        ELSE holdings[s]]

\* The job runs at midnight or is missed.
SettleDelivery ==
    /\ clock = "before_open" /\ job = NoJob
    /\ Due # {}
    /\ funds' = SettledFunds(funds)
    /\ holdings' = SettledHoldings
    /\ positions' = [i \in Instruments |-> IF i \in Due THEN NoPosition ELSE positions[i]]
    /\ UNCHANGED <<orders, trades, clock, opening, day, job, carried>>

-----------------------------------------------------------------------------
(* Daily reset and catch-up. *)

Today0(row) == [row EXCEPT !.today_realized_pnl = 0]

\* reset_daily_pnl, at the session boundary
DailyReset ==
    /\ clock = "before_open"
    /\ funds' = Today0(funds)
    /\ positions' = [i \in Instruments |-> Today0(positions[i])]
    /\ UNCHANGED <<orders, trades, holdings, clock, opening, day, job, carried>>

Stale == {i \in Intraday : Open(i) /\ FromBefore(i)}

\* Mutant: the row is closed and its margin left on it.
ClosedOutKeepingMargin(position, pnl) ==
    [position EXCEPT !.quantity = 0,
                     !.accumulated_realized_pnl = @ + pnl,
                     !.today_realized_pnl = 0]

\* The row is closed without an order or a trade.
ClosedOut(position, pnl) ==
    [position EXCEPT !.quantity = 0,
                     !.margin_blocked = 0,
                     !.accumulated_realized_pnl = @ + pnl,
                     !.today_realized_pnl = 0]

\* catch_up_mis_squareoff: margin and profit go back; used_margin is not let
\* below zero.
CaughtUpFunds(pnl) ==
    LET margin == SumFunctionOnSet([i \in Stale |-> positions[i].margin_blocked], Stale)
        profit == SumFunctionOnSet(pnl, Stale)
        used   == funds.used_margin - margin
    IN IF Stale = {} THEN funds
       ELSE [funds EXCEPT !.available_balance = @ + margin + profit,
                          !.used_margin       = IF used < 0 THEN 0 ELSE used,
                          !.realized_pnl      = @ + profit]

\* run_catch_up_tasks, after a login: stale intraday positions are closed at their
\* last known price, delivery positions are settled, and the day's profit of the
\* rows not updated since the session boundary is reset.  updated_at is not
\* modelled: any of the rows may be among them (of a row without a profit today
\* it makes no difference).
CatchUp ==
    \E price \in [Stale -> Prices],
       reset \in SUBSET {i \in Instruments : positions[i].today_realized_pnl # 0},
       reset_funds \in {FALSE, funds.today_realized_pnl # 0} :
       LET pnl  == [i \in Stale |-> RealizedPnl(positions[i],
                                                Magnitude(positions[i].quantity), price[i])]
           row(i) == IF i \in Stale THEN ClosedOut(positions[i], pnl[i])
                     ELSE IF i \in Due THEN NoPosition
                     ELSE positions[i]
           f    == SettledFunds(CaughtUpFunds(pnl))
       IN /\ job = NoJob
          /\ funds' = IF reset_funds THEN Today0(f) ELSE f
          /\ positions' = [i \in Instruments |-> IF i \in reset THEN Today0(row(i)) ELSE row(i)]
          /\ holdings' = SettledHoldings
          /\ UNCHANGED <<orders, trades, clock, opening, day, job, carried>>

-----------------------------------------------------------------------------

\* What the bound on orders keeps back for the closing orders of the running job.
Reserved == IF job.task = "none" THEN 0
            ELSE IF job.task = "cancel" THEN Cardinality(Intraday)
            ELSE Cardinality(job.rows)

Requested ==
    /\ Next
    /\ Len(orders') > Len(orders) => Len(orders') <= MaxOrders - Reserved
    /\ UNCHANGED <<day, job, carried>>

DayNext ==
    \/ Requested
    \/ OpenSession \/ ReachSquareOffTime \/ Midnight
    \/ \E ltp \in Prices \cup {NoPrice} :
          \/ StartSquareOff(ltp) \/ ClosePositions(ltp)
          \/ \E id \in job.orders : CancelListed(id, ltp)
          \/ \E i \in job.rows : CloseListed(i, ltp)
    \/ SettleDelivery \/ DailyReset \/ CatchUp

DaySpec == DayInit /\ [][DayNext]_dayVars

-----------------------------------------------------------------------------
(* Properties. *)

\* The type invariant: the book is well typed through the jobs too, and a running
\* job holds orders that exist and intraday rows only.
DayTypeOK ==
    /\ TypeOK
    /\ day \in 0..MaxDays
    /\ carried \subseteq Instruments
    /\ job \in [task   : {"none", "cancel", "close"},
                orders : SUBSET DOMAIN orders,
                rows   : SUBSET Intraday]

\* Delivery shares are neither made nor lost between positions and holdings: what
\* was held at the last reset and what was traded since is in the position row or
\* in the holding, whichever settlement ran, twice or late.
SharesAreAccountedFor ==
    \A i \in Delivery :
        positions[i].quantity + holdings[i[1]] = opening.holdings[i[1]] + NetTraded(i)
=============================================================================
