------------------------------ MODULE OrderIndex ------------------------------
(***************************************************************************)
(* The WebSocket engine's index of open orders on one symbol: which orders *)
(* a tick looks at, and how many orders each user's feed is kept for.  The *)
(* index is kept up by threads that place orders, by the one thread that   *)
(* delivers ticks and by the thread that starts and stops the engine; feeds *)
(* are subscribed and unsubscribed after the lock is let go.  A monitor     *)
(* polls instead when no ticks come.                                        *)
(***************************************************************************)
EXTENDS Naturals, FiniteSets

CONSTANTS Orders, Users,
          Owner,       \* the user of each order
          OthersTick,  \* may ticks of other symbols keep the data fresh?
          MaxStops     \* bound on how often the engine is stopped

ASSUME IndexAssumption ==
    /\ Owner \in [Orders -> Users]
    /\ OthersTick \in BOOLEAN /\ MaxStops \in Nat

VARIABLES status,      \* the order's row: absent, open, closed
          hit,         \* orders whose price is reached now
          quoted,      \* whether there is an API key, and a quote of the symbol, to poll with
          placing,     \* where the thread that places the order is
          engine,      \* stopped, rebuild, subscribe, live, halting
          life,        \* which engine object this is
          index,       \* its orders
          refs,        \* its count per user
          subscribed,  \* users whose feed of the symbol is on
          feed,        \* the thread that delivers ticks
          fresh, fallback

rows == <<status, hit, quoted>>
object == <<index, refs>>
monitor == <<fresh, fallback>>
vars == <<rows, placing, engine, life, object, subscribed, feed, monitor>>

Of(user) == {o \in Orders : Owner[o] = user}
Open == {o \in Orders : status[o] = "open"}
Quiet == [step |-> "idle", todo |-> {}, reached |-> {}, life |-> 0, now |-> "none"]

Init ==
    /\ status = [o \in Orders |-> "absent"] /\ hit = {} /\ quoted = TRUE
    /\ placing = [o \in Orders |-> "none"]
    /\ engine = "stopped" /\ life = 0
    /\ index = {} /\ refs = [u \in Users |-> 0]
    /\ subscribed = {}
    /\ feed = Quiet
    /\ fresh = FALSE /\ fallback = FALSE

\* Mutant: the engine counts as running when its index is built, not before.
IsRunningLive == engine = "live"

IsRunning == engine \in {"rebuild", "subscribe", "live"}

-----------------------------------------------------------------------------
(* Orders: placed, reached and left by the price, closed by somebody else. *)

PlacingTo(o, step) == placing' = [placing EXCEPT ![o] = step]

\* place_order has committed the row, and has not filled it at once.
Place(o) ==
    /\ status[o] = "absent"
    /\ status' = [status EXCEPT ![o] = "open"]
    /\ PlacingTo(o, "ask")
    /\ UNCHANGED <<hit, quoted, engine, life, object, subscribed, feed, monitor>>

\* An order still open is announced, if an engine runs.
AskEngine(o) ==
    /\ placing[o] = "ask"
    /\ PlacingTo(o, IF status[o] = "open" /\ IsRunning THEN "notify" ELSE "done")
    /\ UNCHANGED <<rows, engine, life, object, subscribed, feed, monitor>>

\* notify_order_placed counts the order even if the index holds it.
NotifyPlaced(o) ==
    /\ placing[o] = "notify"
    /\ index' = index \cup {o}
    /\ refs' = [refs EXCEPT ![Owner[o]] = @ + 1]
    /\ PlacingTo(o, IF refs[Owner[o]] = 0 THEN "subscribe" ELSE "done")
    /\ UNCHANGED <<rows, engine, life, subscribed, feed, monitor>>

\* Without an API key or a connection there is no feed; that is only logged.
SubscribePlaced(o) ==
    /\ placing[o] = "subscribe"
    /\ subscribed' \in {subscribed, subscribed \cup {Owner[o]}}
    /\ PlacingTo(o, "done")
    /\ UNCHANGED <<rows, engine, life, object, feed, monitor>>

Reach(o) ==
    /\ status[o] = "open" /\ o \notin hit
    /\ hit' = hit \cup {o}
    /\ UNCHANGED <<status, quoted, placing, engine, life, object, subscribed, feed, monitor>>

\* The price goes back before anybody has looked at it.
Recede(o) ==
    /\ status[o] = "open" /\ o \in hit
    /\ hit' = hit \ {o}
    /\ UNCHANGED <<status, quoted, placing, engine, life, object, subscribed, feed, monitor>>

\* Quotes can no longer be had, or can be had again.
Outage ==
    /\ quoted' = ~quoted
    /\ UNCHANGED <<status, hit, placing, engine, life, object, subscribed, feed, monitor>>

\* A cancellation, or a fill by another engine, does not tell the index.
CloseElsewhere(o) ==
    /\ status[o] = "open"
    /\ status' = [status EXCEPT ![o] = "closed"]
    /\ UNCHANGED <<hit, quoted, placing, engine, life, object, subscribed, feed, monitor>>

-----------------------------------------------------------------------------
(* Ticks. *)

\* A tick brings its price with it: what it reaches is settled when it comes.
Tick ==
    /\ engine = "live" /\ subscribed # {} /\ feed.step = "idle"
    /\ feed' = [Quiet EXCEPT !.step = "orders", !.todo = index, !.reached = hit \cap index,
                               !.life = life]
    /\ fresh' = TRUE
    /\ UNCHANGED <<rows, placing, engine, life, object, subscribed, fallback>>

\* _check_and_execute_order: an open order may fill; one that is not open any more
\* is taken out of the index.
CheckOrder(o) ==
    /\ feed.step = "orders" /\ o \in feed.todo
    /\ \/ /\ status[o] = "open" /\ o \notin feed.reached
          /\ feed' = [feed EXCEPT !.todo = @ \ {o}, !.reached = @ \ {o}]
          /\ UNCHANGED status
       \/ /\ status[o] # "open" \/ o \in feed.reached
          /\ status' = [status EXCEPT ![o] = "closed"]
          /\ feed' = [feed EXCEPT !.step = "complete", !.now = o, !.reached = @ \ {o}]
    /\ UNCHANGED <<hit, quoted, placing, engine, life, object, subscribed, monitor>>

\* Mutant: the count is not lowered, the entry is dropped.
CompletedAtOnce(o) ==
    /\ index' = index \ {o}
    /\ refs' = [refs EXCEPT ![Owner[o]] = 0]

\* notify_order_completed, on the feed's own engine object.
Completed(o) ==
    /\ index' = index \ {o}
    /\ refs' = [refs EXCEPT ![Owner[o]] = IF @ = 0 THEN 0 ELSE @ - 1]

\* The last order of a user ends the feed, but only after the lock is let go.
NotifyCompleted(o) ==
    /\ feed.step = "complete" /\ feed.now = o
    /\ IF feed.life = life THEN Completed(o) ELSE UNCHANGED object
    /\ feed' = IF feed.life = life /\ refs[Owner[o]] = 1
               THEN [feed EXCEPT !.todo = @ \ {o}, !.step = "unsubscribe"]
               ELSE [feed EXCEPT !.todo = @ \ {o}, !.step = "orders", !.now = "none"]
    /\ UNCHANGED <<rows, placing, engine, life, subscribed, monitor>>

Unsubscribe ==
    /\ feed.step = "unsubscribe"
    /\ subscribed' = subscribed \ {Owner[feed.now]}
    /\ feed' = [feed EXCEPT !.step = "orders", !.now = "none"]
    /\ UNCHANGED <<rows, placing, engine, life, object, monitor>>

EndTick ==
    /\ feed.step = "orders" /\ feed.todo = {}
    /\ feed' = Quiet
    /\ UNCHANGED <<rows, placing, engine, life, object, subscribed, monitor>>

FeedStep ==
    \/ \E o \in Orders : CheckOrder(o) \/ NotifyCompleted(o)
    \/ Unsubscribe \/ EndTick

-----------------------------------------------------------------------------
(* Starting and stopping the engine. *)

Start ==
    /\ engine = "stopped"
    /\ engine' = "rebuild"
    /\ UNCHANGED <<rows, placing, life, object, subscribed, feed, monitor>>

\* _rebuild_order_index, under the lock.
Rebuild ==
    /\ engine = "rebuild" /\ engine' = "subscribe"
    /\ index' = Open
    /\ refs' = [u \in Users |-> Cardinality(Open \cap Of(u))]
    /\ UNCHANGED <<rows, placing, life, subscribed, feed, monitor>>

\* The feeds of the users counted, then the callback for ticks.
GoLive ==
    /\ engine = "subscribe" /\ engine' = "live"
    /\ \E users \in SUBSET {u \in Users : refs[u] > 0} : subscribed' = subscribed \cup users
    /\ UNCHANGED <<rows, placing, life, object, feed, monitor>>

\* Mutant: the fallback outlives its engine.
StopPolling ==
    /\ engine = "live" /\ life < MaxStops
    /\ engine' = "halting"
    /\ UNCHANGED <<rows, placing, life, object, subscribed, feed, monitor>>

Stop ==
    /\ engine = "live" /\ life < MaxStops
    /\ engine' = "halting"
    /\ fallback' = FALSE
    /\ UNCHANGED <<rows, placing, life, object, subscribed, feed, fresh>>

\* _unsubscribe_all_ws; the next engine is another object.
Stopped ==
    /\ engine = "halting" /\ engine' = "stopped"
    /\ subscribed' = subscribed \ {u \in Users : refs[u] > 0}
    /\ index' = {} /\ refs' = [u \in Users |-> 0]
    /\ life' = life + 1
    /\ UNCHANGED <<rows, placing, feed, monitor>>

EngineStep == Rebuild \/ GoLive \/ Stopped

-----------------------------------------------------------------------------
(* The health monitor and its polling fallback. *)

\* Half a minute without a tick of any symbol.
GoStale ==
    /\ fresh /\ ~OthersTick
    /\ fresh' = FALSE
    /\ UNCHANGED <<rows, placing, engine, life, object, subscribed, feed, fallback>>

\* Mutant: the monitor only ever stops the fallback.
MonitorStopping ==
    /\ engine = "live" /\ fallback /\ fresh
    /\ fallback' = FALSE
    /\ UNCHANGED <<rows, placing, engine, life, object, subscribed, feed, fresh>>

Monitor ==
    /\ engine = "live" /\ fallback # ~fresh
    /\ fallback' = ~fresh
    /\ UNCHANGED <<rows, placing, engine, life, object, subscribed, feed, fresh>>

\* Without an API key or a quote the fallback passes the order over.
Poll(o) ==
    /\ engine = "live" /\ fallback /\ quoted /\ o \in hit /\ status[o] = "open"
    /\ status' = [status EXCEPT ![o] = "closed"]
    /\ UNCHANGED <<hit, quoted, placing, engine, life, object, subscribed, feed, monitor>>

Next ==
    \/ \E o \in Orders : Place(o) \/ AskEngine(o) \/ NotifyPlaced(o) \/ SubscribePlaced(o)
                         \/ Reach(o) \/ Recede(o) \/ CloseElsewhere(o) \/ Poll(o)
    \/ Tick \/ FeedStep
    \/ Start \/ EngineStep \/ Stop
    \/ GoStale \/ Monitor \/ Outage

\* The threads run; a feed that is on ticks again, one that is off goes stale.  No price
\* has to be reached or to stay, and no quote has to come back.
Fairness ==
    /\ WF_vars(Tick) /\ WF_vars(FeedStep) /\ WF_vars(EngineStep) /\ WF_vars(Monitor)
    /\ WF_vars(GoStale /\ subscribed = {})
    /\ \A o \in Orders : WF_vars(AskEngine(o)) /\ WF_vars(NotifyPlaced(o))
                         /\ WF_vars(SubscribePlaced(o)) /\ WF_vars(Poll(o))

Spec == Init /\ [][Next]_vars /\ Fairness

-----------------------------------------------------------------------------
(* Properties. *)

\* The rows, the index and the threads have their types; the feed is at an order of
\* its list, and only a live engine polls.
IndexTypeOK ==
    /\ status \in [Orders -> {"absent", "open", "closed"}] /\ hit \subseteq Orders /\ quoted \in BOOLEAN
    /\ placing \in [Orders -> {"none", "ask", "notify", "subscribe", "done"}]
    /\ engine \in {"stopped", "rebuild", "subscribe", "live", "halting"}
    /\ life \in 0 .. MaxStops
    /\ index \subseteq Orders /\ refs \in [Users -> Nat] /\ subscribed \subseteq Users
    /\ feed \in [step : {"idle", "orders", "complete", "unsubscribe"}, todo : SUBSET Orders,
                 reached : SUBSET Orders, life : 0 .. MaxStops, now : Orders \cup {"none"}]
    /\ feed.step = "complete" => feed.now \in feed.todo
    /\ {fresh, fallback} \subseteq BOOLEAN
    /\ fallback => engine = "live"

\* No open order falls between the thread that places it, the engine that starts or
\* stops and the thread that completes orders: a live engine looks at all of them.
OpenOrderIsIndexed ==
    engine \in {"subscribe", "live"} =>
        \A o \in Open : placing[o] = "done" => o \in index

\* A user's count is never below the number of that user's orders in the index, so
\* a feed is not given up while the index needs it, though orders are counted twice
\* when a start and a placement overlap.
CountCoversIndex ==
    engine \in {"subscribe", "live"} =>
        \A u \in Users : refs[u] >= Cardinality(index \cap Of(u))

\* An order whose price is reached and stays reached is filled while the engine runs,
\* by ticks or, if the feed was lost, by the fallback, which needs quotes in the end.
HitOrderIsFilled ==
    <>[]quoted =>
        \A o \in Orders :
            (status[o] = "open" /\ o \in hit)
                ~> (status[o] = "closed" \/ o \notin hit \/ engine = "stopped")
=============================================================================
