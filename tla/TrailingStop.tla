----------------------------- MODULE TrailingStop -----------------------------
(***************************************************************************)
(* The platform's trailing stops on one symbol: armed by an entry, moved   *)
(* towards profit or fired by a monitor that polls every three seconds,    *)
(* its exit an API order that may be refused, taken for a duplicate,       *)
(* queued for approval, or placed without the monitor hearing of it.  The  *)
(* position may be closed by others meanwhile.                             *)
(***************************************************************************)
EXTENDS Integers

CONSTANTS Stops,
          Long,       \* the stops of long entries; the others are short
          Percent,    \* the stops that trail by per cent; the others by points
          Trail,      \* how far each stop trails
          MaxPrice,
          MaxFaults   \* bound on failed commits, missing prices, refusals, lost replies, crashes

ASSUME TrailingAssumption ==
    /\ Long \subseteq Stops /\ Percent \subseteq Stops
    /\ Trail \in [Stops -> Nat \ {0}]
    /\ MaxPrice \in Nat \ {0} /\ MaxFaults \in Nat
    /\ "none" \notin Stops

VARIABLES price,
          stop,     \* the row of each stop
          held,     \* what is left of each entry: one lot, none, or less
          monitor,  \* the monitor's pass: stops to do, their price, the one at hand
          recent,   \* sides of which an exit was submitted in the last three seconds
          sent,     \* exits of each stop that the broker or the queue took
          lost,     \* history: exits after which the row stayed active, reply or closing lost
          faults

vars == <<price, stop, held, monitor, recent, sent, lost, faults>>

Prices == 1 .. MaxPrice
Unarmed == [status |-> "none", peak |-> 0, level |-> 0]
Asleep == [step |-> "sleep", todo |-> {}, ltp |-> 0, now |-> "none"]

Init ==
    /\ price \in Prices
    /\ stop = [s \in Stops |-> Unarmed]
    /\ held = [s \in Stops |-> 0]
    /\ monitor = Asleep
    /\ recent = {}
    /\ sent = [s \in Stops |-> 0] /\ lost = [s \in Stops |-> 0]
    /\ faults = 0

Active == {s \in Stops : stop[s].status = "active"}
Fault == faults < MaxFaults /\ faults' = faults + 1

\* The exits of stops on the same side are the same order to the duplicate check.
Side(s) == IF s \in Long THEN "sell" ELSE "buy"

-----------------------------------------------------------------------------
(* The row: compute_stop, update_peak, is_hit. *)

Better(s, a, b) == IF s \in Long THEN a > b ELSE a < b

\* A percentage is rounded to the smallest unit.
ComputeStop(s, from) ==
    LET sign == IF s \in Long THEN -1 ELSE 1
    IN  IF s \in Percent THEN (from * (100 + sign * Trail[s]) + 50) \div 100
        ELSE from + sign * Trail[s]

UpdatePeak(s, ltp) ==
    LET level == ComputeStop(s, ltp)
    IN  [stop[s] EXCEPT !.peak = ltp, !.level = IF Better(s, level, @) THEN level ELSE @]

IsHit(s, ltp) == ~Better(s, ltp, stop[s].level)

-----------------------------------------------------------------------------
(* The market, the entries, and what closes a position without the stop. *)

Trade ==
    /\ \E p \in Prices : p # price /\ price' = p
    /\ UNCHANGED <<stop, held, monitor, recent, sent, lost, faults>>

\* create_trailing_stop, after an entry at the price.
Arm(s) ==
    /\ stop[s].status = "none"
    /\ stop' = [stop EXCEPT ![s] = [status |-> "active", peak |-> price,
                                    level |-> ComputeStop(s, price)]]
    /\ held' = [held EXCEPT ![s] = 1]
    /\ UNCHANGED <<price, monitor, recent, sent, lost, faults>>

\* A target, a square-off or the user; the stop is not told.
CloseElsewhere(s) ==
    /\ held[s] = 1
    /\ held' = [held EXCEPT ![s] = 0]
    /\ UNCHANGED <<price, stop, monitor, recent, sent, lost, faults>>

-----------------------------------------------------------------------------
(* The monitor: one pass at a time over the stops it found active. *)

\* The price is looked up once for the pass; without one the pass does nothing.
Wake ==
    /\ monitor.step = "sleep" /\ Active # {}
    /\ \/ /\ monitor' = [Asleep EXCEPT !.step = "stops", !.todo = Active, !.ltp = price]
          /\ UNCHANGED faults
       \/ Fault /\ UNCHANGED monitor
    /\ UNCHANGED <<price, stop, held, recent, sent, lost>>

\* Mutant: the pass comes back to the stop.
DoneWithKept(s) == [monitor EXCEPT !.step = "stops", !.now = "none"]

DoneWith(s) == [monitor EXCEPT !.step = "stops", !.todo = @ \ {s}, !.now = "none"]

\* Mutant: the level follows the price both ways.
RatchetBothWays(s) ==
    /\ monitor.step = "stops" /\ s \in monitor.todo
    /\ ~IsHit(s, monitor.ltp)
    /\ monitor' = DoneWith(s)
    /\ stop' = [stop EXCEPT ![s].peak = monitor.ltp, ![s].level = ComputeStop(s, monitor.ltp)]
    /\ UNCHANGED <<price, held, recent, sent, lost, faults>>

\* Not hit: the level is ratcheted and committed, or the commit fails.
Ratchet(s) ==
    /\ monitor.step = "stops" /\ s \in monitor.todo
    /\ ~IsHit(s, monitor.ltp)
    /\ monitor' = DoneWith(s)
    /\ \/ /\ stop' = [stop EXCEPT ![s] = IF Better(s, monitor.ltp, @.peak)
                                         THEN UpdatePeak(s, monitor.ltp) ELSE @]
          /\ UNCHANGED faults
       \/ Fault /\ UNCHANGED stop
    /\ UNCHANGED <<price, held, recent, sent, lost>>

\* The broker takes the exit, or the queue does until somebody approves it.
Taken(s) ==
    /\ sent' = [sent EXCEPT ![s] = @ + 1]
    /\ \/ held' = [held EXCEPT ![s] = @ - 1]
       \/ UNCHANGED held

\* Hit: the exit is submitted.  A duplicate, a refusal and an exception are all the
\* same to the monitor: the stop stays active and the next pass exits again, though
\* an exception may have come when the order was already taken.
Exit(s) ==
    /\ monitor.step = "stops" /\ s \in monitor.todo
    /\ IsHit(s, monitor.ltp)
    /\ recent' = recent \cup {Side(s)}
    /\ \/ /\ Side(s) \in recent
          /\ monitor' = DoneWith(s)
          /\ UNCHANGED <<held, sent, lost, faults>>
       \/ /\ Side(s) \notin recent /\ Taken(s)
          /\ monitor' = [monitor EXCEPT !.step = "close", !.now = s]
          /\ UNCHANGED <<lost, faults>>
       \/ /\ Side(s) \notin recent /\ Fault         \* refused
          /\ monitor' = DoneWith(s)
          /\ UNCHANGED <<held, sent, lost>>
       \/ /\ Side(s) \notin recent /\ Fault /\ Taken(s)
          /\ monitor' = DoneWith(s)
          /\ lost' = [lost EXCEPT ![s] = @ + 1]
    /\ UNCHANGED <<price, stop>>

\* Mutant: the row is left as it is.
CloseLeftActive(s) ==
    /\ monitor.step = "close" /\ monitor.now = s
    /\ monitor' = DoneWith(s)
    /\ UNCHANGED <<price, stop, held, recent, sent, lost, faults>>

\* close_trailing_stop.
Close(s) ==
    /\ monitor.step = "close" /\ monitor.now = s
    /\ monitor' = DoneWith(s)
    /\ \/ /\ stop' = [stop EXCEPT ![s].status = "exited"]
          /\ UNCHANGED <<lost, faults>>
       \/ /\ Fault
          /\ lost' = [lost EXCEPT ![s] = @ + 1]
          /\ UNCHANGED stop
    /\ UNCHANGED <<price, held, recent, sent>>

Sleep ==
    /\ monitor.step = "stops" /\ monitor.todo = {}
    /\ monitor' = Asleep
    /\ UNCHANGED <<price, stop, held, recent, sent, lost, faults>>

MonitorStep ==
    \/ Wake \/ Sleep
    \/ \E s \in Stops : Ratchet(s) \/ Exit(s) \/ Close(s)

\* Mutant: what was submitted once is a duplicate for ever.
WindowStays ==
    /\ recent # {}
    /\ UNCHANGED vars

WindowPasses ==
    /\ recent # {} /\ recent' = {}
    /\ UNCHANGED <<price, stop, held, monitor, sent, lost, faults>>

\* The process dies and starts again.
Crash ==
    /\ Fault
    /\ monitor' = Asleep /\ recent' = {}
    /\ lost' = [s \in Stops |-> IF monitor.step = "close" /\ monitor.now = s THEN lost[s] + 1
                                ELSE lost[s]]
    /\ UNCHANGED <<price, stop, held, sent>>

Next ==
    \/ Trade \/ WindowPasses \/ Crash \/ MonitorStep
    \/ \E s \in Stops : Arm(s) \/ CloseElsewhere(s)

\* The scheduler keeps running the job, and three seconds pass.
Fairness ==
    /\ WF_vars(MonitorStep)
    /\ WF_vars(WindowPasses)

Spec == Init /\ [][Next]_vars /\ Fairness

-----------------------------------------------------------------------------
(* Properties. *)

\* The rows and the pass have their types, and the monitor is at an active stop.
TrailingTypeOK ==
    /\ price \in Prices
    /\ stop \in [Stops -> [status : {"none", "active", "exited"}, peak : 0 .. MaxPrice, level : Int]]
    /\ monitor \in [step : {"sleep", "stops", "close"}, todo : SUBSET Active,
                     ltp : 0 .. MaxPrice, now : Stops \cup {"none"}]
    /\ monitor.now \in monitor.todo <=> monitor.step = "close"
    /\ recent \subseteq {"buy", "sell"} /\ faults \in 0 .. MaxFaults
    /\ held \in [Stops -> Int]
    /\ sent \in [Stops -> Nat] /\ lost \in [Stops -> Nat]

\* A closed stop has exited, and an exit is handed over again only after a fault took
\* the reply, the closing or the process away: every exit handed over closed its row,
\* is about to, or was followed by a fault of its own.  Refusals, duplicates and
\* retries without such a fault never exit a stop twice.
EveryCloseIsAnExit ==
    \A s \in Stops :
        /\ sent[s] = lost[s] + (IF stop[s].status = "exited" THEN 1 ELSE 0)
                             + (IF monitor.step = "close" /\ monitor.now = s THEN 1 ELSE 0)
        /\ lost[s] <= faults

\* A level, once committed, is only ever tightened, whatever the price, a failed
\* commit or a restart does, until the stop has fired.
StopOnlyTightens ==
    [][\A s \in Stops :
          stop[s].status = "active" /\ stop'[s].level # stop[s].level
              => Better(s, stop'[s].level, stop[s].level)]_vars

\* A stop the price has crossed exits, though orders are refused or taken for
\* duplicates, unless the price comes back first.
HitStopExits ==
    \A s \in Stops :
        (stop[s].status = "active" /\ IsHit(s, price))
            ~> (stop[s].status = "exited" \/ ~IsHit(s, price))
=============================================================================
