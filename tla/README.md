# Verification of the trading platform's own state

The repository is a trading platform: a Flask server that takes orders over REST,
web pages and webhooks, routes them to some forty brokers or, in analyzer mode, to a
built-in paper-trading exchange, the *sandbox*. Most of it translates requests to
external services or computes numbers from market data. This project models the
parts that keep state of their own which has to add up while several threads work
on it:

* the sandbox, from orders to settlement (`sandbox/`);
* the way of a signal: webhook, queue, workers, deployment
  (`blueprints/strategy.py`, `services/signal_engine.py`, `services/deployment_service.py`);
* what may stop an order: kill switch, risk gates, the approval queue
  (`services/kill_switch_service.py`, `services/action_center_service.py`);
* trailing stops (`services/trailing_stop_service.py`);
* download jobs of historical data (`services/historify_service.py`).

## 1. The system

### Components

| Component | State | Operations | Correct when |
|---|---|---|---|
| Funds, `fund_manager.py` | one row per user: available_balance, used_margin, realized_pnl, today_realized_pnl; a class-wide lock | block, release, transfer to holdings, credit a sale, reconcile, reset | money is neither made nor lost; no block overdraws |
| Orders, `order_manager.py` | SandboxOrders rows: request, status, margin_blocked | place, modify, cancel | an order is accepted, filled, cancelled once |
| Execution, `execution_engine.py` | SandboxTrades and SandboxPositions rows | poll the open orders, process one, execute, net the position | one trade per filled order; the position is what was traded |
| Polling thread and watcher, `execution_thread.py` | running flags, a thread, a watcher, `_thread_lock` | start, stop, switch engines | at most one engine; stop returns |
| WebSocket engine, `websocket_execution_engine.py` | index of pending orders, subscription counts, fallback flag | tick, notify placed or completed, rebuild, fall back to polling | every pending order is watched, and filled when its price is reached |
| Positions, `position_manager.py` | (the position rows) | close, settle expired contracts, mark to market | a closing order closes |
| Holdings, `holdings_manager.py` | SandboxHoldings rows | T+1 settlement | shares move to holdings once |
| Square-off, `squareoff_manager.py`, `squareoff_thread.py` | scheduled jobs | cancel open intraday orders, close intraday positions, reset the day's profit | intraday exposure ends with the day, nothing else is touched |
| Catch-up, `catch_up_processor.py` | none | after a login, do what missed jobs would have done | each task takes effect once |
| Webhook delivery, `blueprints/strategy.py`, `webhook_delivery_db.py` | the delivery log, a signal queue in memory | look for a duplicate, record, queue, mark the outcome | one signal per alert |
| Strategy deployment, `deployment_service.py`, `signal_engine.py`, `strategy_db.py` | the status row of a deployment, a worker pool, an evaluation loop | claim, enter, exit, pause, resume, delete | the status tells what is held; nobody is left half-way |
| Kill switch and gates, `kill_switch_service.py`, `settings_db.py`, `risk_gate.py` | the flag's row, its cached copy, a lock, the order velocity | ask, set, clear, flatten the account | what starts under the switch is not sent; the switch is let go |
| Approval queue, `action_center_db.py`, `pending_order_execution_service.py` | pending order rows | queue, approve, reject, execute, answer, delete | a queued order is sent once, and its row says what became of it |
| Trailing stops, `trailing_stop_service.py` | rows with peak and level, a polling job | arm, ratchet, exit, close | levels only tighten; a stop that is hit exits, once |
| Download jobs, `historify_service.py`, `historify_db.py` | job and item rows, two dictionaries and a lock, a pool of threads | create, pause, resume, cancel, retry, delete, restart | a job that says it is done is done; one that says it is active has a thread |

### How they interact

*Sandbox.* A request thread runs an OrderManager handler, which reads the position
and the holding, calls FundManager to block or release margin, commits the order,
and may call ExecutionEngine at once. The polling engine, or the WebSocket engine on
a tick, or its polling fallback, loads open orders and calls the same
ExecutionEngine methods from another thread. ExecutionEngine commits the trade and
the status, then the release (FundManager), then the position, then reconciles the
funds row with the positions. The scheduler's jobs call OrderManager and
PositionManager, or write the rows directly. There is no queue between them: all
coordination is through rows of one SQLite database, each thread with its own
session. The WebSocket engine is told of placements by the request threads
(`notify_order_placed`) and of completions by the thread that delivers ticks.

*Signals.* The webhook route writes a delivery row, puts a signal on a queue in
memory and marks the row. A dispatcher hands signals to a pool of worker threads;
a worker claims the deployment, places orders through the ordinary order service,
and writes the status. The evaluation loop does the same without a queue or a claim,
and the web page pauses, resumes and deletes. All of them meet in one status column.

*Orders on their way.* An API order passes the decorator's kill-switch gate, then in
the semi-automatic mode is stored for approval, else passes the second gate and the
velocity check before the broker is called. The request that approves a stored order
executes it along the same way. The velocity check and the panic button both set the
flag the gates read; the panic button then cancels orders, closes positions and
clears the flag.

*Trailing stops.* An entry arms a stop; a job of the scheduler compares it with a
quote every three seconds and submits an exit as an API order.

*Downloads.* Requests write the rows of a job and put it to a pool; its thread looks
at two dictionaries before each item, and requests change them.

### What is hard

* a session keeps a row as it was loaded until it commits, and writes only the
  columns it changed; a status, position or balance may be stale when used, also
  under a lock that is meant to prevent it (`strategy_db.py:2766`);
* one fill is four commits, and a crash or another thread can come between them;
* `reconcile_margin` rewrites two columns of the funds row without the lock;
* execution on arrival and an engine may find the same order;
* rows outlive their use: a closed position row is reopened, with its old profit
  and its old creation time, and jobs decide by that time;
* jobs may be late, missed or repeated, and the square-off works through lists
  made earlier;
* a status is checked in one statement and written by key in another: claims,
  approvals, presses of the panic button, pauses and retries can overlap;
* the cached flag is filled by readers while writers clear it;
* an index in memory is kept by threads that place, complete, start and stop;
* an exit is submitted before the row that asked for it is closed;
* a broker's reply can be lost after it took the order, and a status write can fail
  without anybody looking at the answer.

`PROJECT.json` lists these as hazards with their lines, and every other part of
the repository with the reason it is not modelled.

## 2. The modules

| Module | Models | In terms of the code |
|---|---|---|
| `SandboxFunds` | the funds row | one operator per FundManager operation, `Balanced` |
| `SandboxPositions` | netting | `Netted` is `_update_position`: open, add, reduce or close, reverse |
| `SandboxOrders` | decisions about one order | margin to block, what a cancellation releases, whether a quote satisfies it |
| `SandboxBook` | the handlers, each run alone | `PlaceOrder`, `ModifyOrder`, `CancelOrder`, `ProcessOrder`, `ResetFunds` |
| `OrderLifecycle` | the abstract promise | an order is accepted or refused, then filled or cancelled, once |
| `OrderRaces` | the same handlers commit by commit, between threads, with crashes | one action per stretch of code between two commits or reads that another thread can tell apart |
| `SandboxDay` | `SandboxBook` over days, with the jobs | `StartSquareOff`, `CancelListed`, `ClosePositions`, `CloseListed`, `SettleDelivery`, `DailyReset`, `CatchUp` |
| `OrderIndex` | the index of the WebSocket engine, its feeds, its fallback | `NotifyPlaced`, `CheckOrder`, `NotifyCompleted`, `Unsubscribe`, `Rebuild`, `GoLive`, `Stop`, `Monitor`, `Poll` |
| `WebhookDelivery` | the webhook route and the delivery log | one action per commit of the route, the queue, the duplicate window |
| `SignalPipeline` | `WebhookDelivery` with the workers, the evaluation loop and the user of one deployment | one action per commit or order |
| `KillSwitch` | flag, cache, lock, gates, velocity breaker, panic button | one action per read, write or broker call |
| `ApprovalQueue` | `KillSwitch` with the pending orders | `Queue`, `LookUp`, `Decide`, `Execute`, `Answer`, `Delete` |
| `TrailingStop` | the stops on a symbol and the monitor's pass | `Arm`, `Ratchet`, `Exit`, `Close` |
| `HistorifyJobs` | one download job, its threads and its requests | one action per statement on rows or dictionaries |
| `HistorifyClaims` | what comments and documents say and `HistorifyJobs` does not keep | one property |
| `MC...` | instances for TLC | leverage, requests, trails, symmetry |
| `SandboxLemmas` | lemmas about the funds operations, netting, sequences of rows, and sums | |
| `SandboxBookProofs` | theorems about `SandboxBook` and `SandboxDay` | |
| `KillSwitchProofs` | theorems about `KillSwitch` and `ApprovalQueue` | |
| `OrderRacesProofs`, `OrderIndexProofs`, `SignalPipelineProofs`, `TrailingStopProofs`, `HistorifyProofs` | theorems about the module named | |

`SandboxFunds`, `SandboxPositions` and `SandboxOrders` hold no variables; both
`SandboxBook` and `OrderRaces` are built from them, so a netting or a margin rule
is translated once. `SandboxDay` extends `SandboxBook` and reuses its handlers:
the square-off job calls `CancelOrder` and `PlaceOrder` as the code does.
`SignalPipeline` and `ApprovalQueue` extend the component they are composed with
and add its variables to their own next-state relation.

### SandboxBook

One user, one exchange. `orders` and `trades` are sequences of rows, `positions`
maps (symbol, product) to a row, `NoPosition` standing for no row; `holdings`
maps a symbol to a quantity, 0 for no row; `funds` is the row. `clock` is where
the trading day stands (fixed to the session in `SandboxBook`, moved by
`SandboxDay`), `opening` remembers the trade count and the holdings at the last
reset, for the properties only.

A handler is one step from its first read to its last commit. `PlaceOrder` is
the whole of `place_order`: the intraday gate, the check of shares (the one
refusal that stores a row, as rejected), the margin from the new exposure only,
blocking, the insert, and the execution on arrival where a quote satisfies the
order. `Execute` is `_execute_order`: trade, status, netting, release of margin
and profit, and the reconciliation that follows every fill. A quote is any price,
or none; a MARKET order fills at any price, the bid or the ask being independent
of the last price.

### OrderRaces

One user, one instrument. A thread's `local` record is its program counter and
what its session holds: order rows as loaded (`loaded`), the position as loaded
(`held`), the funds row as loaded by the reconciliation (`seen`). `Loaded` gives
the stale copy while there is one; `Written` is an UPDATE of the columns that
changed; a commit expires everything the session holds. A commit is atomic. The
locked fund operations are one step; `reconcile_margin` is a read
(`Reconcile`) and a write (`ReconcileWrite`). `Fill` commits trade and status,
`Release` the funds and those profit columns already set, `WritePosition` the
rest of the row. An engine loads the open orders in any order (`SetToSeqs`), the
query having none. Two threads that both create the position row: the second
insert violates the unique key, and the handler marks the order rejected
(`LoseInsert`). `Crash` empties every thread at any point, at most `MaxCrashes`
times.

`quoted` says whether a poll can get a quote: `_fetch_quotes_batch` gives none without
an API key, a session with the broker or an answer for the symbol, and
`check_and_execute_pending_orders` then goes past the order, which is no step. A quote
may also say that the last price is 0; then the orders are gone through and left
(`Polled`, `Executes`). `Outage` takes quotes away and brings them back at any time,
where the cfg has `Outages`.

Merged steps: the order is reloaded and the position read in one step
(`ReadPosition`), since nothing between them is shared; the funds are read
together by the validation and the reconciliation. Sessions have autoflush off
and expire on commit, and hold rows weakly, so the reconciliation loads the
funds row afresh. A reconciliation that begins inside another thread's locked
operation reads what was there before it, which is the same as beginning before.

### SandboxDay

`clock` goes from session to after_square_off to before_open; `Midnight` makes
every existing row one of an earlier day (`created_today`). The square-off job
lists open intraday orders, cancels those still open, lists open intraday
positions, and closes each by a MARKET order for the opposite, with requests and
fills in between; `job` holds what it has left. Its session keeps the listed rows
as they were until its first commit, so a list and the handler of its first entry
are one step (`StartSquareOff`, `ClosePositions`), the handlers here being atomic;
what a fill between the load and the commit of a cancellation does is
`OrderRaces`'s subject. Later entries are loaded again after the commit before
them. Without a quote the closing order rests, and the next job cancels it and
tries again. Settlement, reset and catch-up are one step each and do not overlap
with the square-off. Nothing makes the scheduler run a job, so any may be missed;
settlement and catch-up may come late or twice.

`CatchUp` follows the order of the code: stale intraday rows are closed at their
last price without an order or a trade, their margin and profit returned and
`used_margin` cut off at 0; then delivery rows of earlier days are settled; then
the day's profit is reset on rows not updated since the session boundary. As
`updated_at` is not modelled, any subset of the rows is reset.

Settlement keeps shares and moves money: what a delivery buy cost leaves
`used_margin` for the holding and is no longer in the funds row, so
`CashConserved` is not a property of `SandboxDay`; `SharesAreAccountedFor` is.

### OrderIndex

One symbol. `status` holds the rows and `hit` the orders whose price is reached;
`placing` is where the thread that placed each order is. `index` and `refs` are the
engine object's dictionaries, of which the code has one for orders by symbol and one
for counts by user and symbol; a stopped engine's object is replaced by a new one, and
`life` tells them apart, so that a tick that outlives its engine writes to an object
nobody reads (`NotifyCompleted`). What is done under the object's lock is one step;
subscribing and unsubscribing come after it, as steps of their own. Only the index
decides which orders a tick looks at. `CloseElsewhere` is a cancellation or a fill by
another engine, which the index is not told of; the next tick finds the row closed and
takes it out. A price that is reached may go back before anybody has looked
(`Recede`); a tick brings its price with it, so what it reaches is settled when it comes
(`feed.reached`). `Monitor` is the health check, which judges by the last tick of any
symbol (`OthersTick`), and `Poll` the fallback's work on one order, which needs a quote
(`quoted`, `Outage`). How a tick executes an order is `OrderRaces`.

### WebhookDelivery and SignalPipeline

`WebhookDelivery` is the route: look for a recent identical delivery, insert the
row, and then mark a duplicate, or put the signal on the queue and mark the row
accepted. Each is a commit or a queue operation. The hash of a payload is the payload;
`recent` stands for the time window. The refusals of the route are one outcome.

`SignalPipeline` adds one deployment. A worker's `seen` is the status it loaded, which
decides what a signal asks (`ReactionTo`), and which the query under the lock of the
claim returns as well (`Claimable`): the session's identity map hands the loaded row
back, and a query does not refresh it. `BeginExit` takes a managed deployment back to
Entering without a claim. The evaluation loop (`Wake` to `SettleTriggered`) is one
thread. Every status write is by key, and says nothing to a row that was deleted. It
may fail (`SetStatus`): `update_deployment_status` rolls back and returns False, which
no caller looks at. `LeaveAs` is the last write of somebody at work on the deployment; if
it fails, or if the loop raises after it has written Entering (`RaiseInLoop`: its outer
except only logs), or if the process dies with somebody at work, `abandoned` records that
the row may say Entering with nobody behind it. A worker that raises writes Error, at
work (`Fail`) or not (`FailOutside`).
`position` counts what the orders of the deployment add up to, in lots: an order taken
by the broker changes it, a refused one does not, one whose reply is lost counts as
refused and may have changed it, and the worker does not look (`PlaceEntry`). `stale` records that somebody acted on a status that was no longer the
row's.

### KillSwitch and ApprovalQueue

One user. The gate is three steps, as in the code: ask the cache, read the row, fill
the cache. API orders are asked twice, orders of the signal engine once (they carry no
user at the second gate). `armed` records, for the property, that a caller started
while the flag was set and that no reset came since. `SetFlag` and `ReleaseFlag` are
`set_kill_switch`: the commit under the lock, then the cleared cache. `Press` reads
whether the switch is on, apart from the write. `Flatten` is cancel_all_orders and
close_position, each one step at the broker, either of which may fail; the loop over
orders and brokers inside it is not split. `FillAtBroker` may come in between. `older`
records what was at the broker when the press began to flatten.

`ApprovalQueue` stores an API order after the first gate (`Queue`). A decision looks
up the row as pending and writes it by its key (`LookUp`, `Decide`). An approval goes
on to execute, through the gates of `KillSwitch` like any caller, and writes the
answer. Whatever cannot be read on the way ends the execution without an order or an
answer (`Execute`); a reply of the broker that is lost is answered as a refusal, and the
write of the answer may fail (`Answer`). `unheard` records the rows of which one of these
failed. `raced` records the rows looked up for two decisions at once.

### TrailingStop

One symbol with a moving price. `Wake` takes the active stops and one price for the
whole pass. `ComputeStop`, `UpdatePeak` and `IsHit` are the methods of the row; prices
are whole units and a percentage is rounded to one as the code rounds to the paisa. The
exit is an API order: taken for a duplicate of another exit on the same side within
three seconds, refused, placed, queued for approval, which counts as success, or
placed (or queued) while an exception takes the reply: that looks like a refusal, and the
next pass exits again. `Close` may fail to commit. `lost` counts the exits after which the
row stayed active although the order was taken. `held` is what is left of the entry, which others may close.

### HistorifyJobs

One job; other jobs share only the lock. `status` and `item` are the rows, `tracked`
and `event` the entries of `_running_jobs` and `_paused_jobs`, events being numbered by
the start that made them, `open` those that are set. A worker reads its items once, and
between items looks at the dictionaries under the lock. A request reads the status, and
acts on it in a later step. `Signal` and `CleanUp` are the two acquisitions of the lock
in cancel_job, with the lock held in between. `Restart` is a crash followed by
`cleanup_zombie_jobs`, which finds nothing tracked in a new process. Reads that fail
when a thread loads its job are faults, because they change what remains in memory.
Left out: failing writes of statuses, exceptions elsewhere, the two transactions of a
deletion (one step here), the counters and progress events, and the size of the pool,
five: that many paused jobs hold every thread.

## 3. What is checked

Passing runs, each exhaustive for its instance:

| Run | Instance | Distinct states | Shows |
|---|---|---|---|
| `netting` | CNC and MIS rows of a symbol, a holding of 1, MARKET orders of 1 or 2 at two prices, 3 orders | 1.0 M | `PositionIsNetOfTrades`, `ProfitIsCashFlow`: through open, add, reduce, close, reverse, reopen and reset, shares and profit are those of the trades |
| `types` | the four price types, two quantities and prices, 2 orders | 0.4 M | `TypeOK`, `CashConserved`, `OneTradePerFilledOrder`, `ClosedOrderIsFinal`, and that the book implements `OrderLifecycle` |
| `engine` | two request threads placing and cancelling against one polling engine, two prices, 3 orders, money for two | 0.9 M | `TypeOK`, `CashConserved`, `PositionMatchesTrades` between fills, `BlockNeverOverdraws`: the check before the lock is repeated under it |
| `stale` | a tick engine against a request thread that places, executes on arrival, modifies and cancels, one price, 3 orders | 1.9 M | `TradedOrderIsNotOpen`: a stale session never reopens a filled order; `CashConserved` at one price |
| `restart` | a polling engine and a placing thread, two crashes, quotes that come and go, fairness | 56 k | `OrderLifecycle` is implemented whatever dies between two commits; `MarketOrderLeavesOpen`, once quotes are there for good |
| `day` | two interchangeable symbols, each with a CNC and a MIS row, one price, one midnight, 4 orders | 1.4 M | `SharesAreAccountedFor`, `ClosedPositionHoldsNoMargin`, `ClosedOrderIsFinal`, `DayTypeOK` with the jobs interleaved |
| `index` | two orders of a user, the engine stopped once and started again, prices that are reached and left, quotes that come and go, no other symbol ticking, fairness | 0.5 M | `IndexTypeOK`, `OpenOrderIsIndexed`, `CountCoversIndex`; `HitOrderIsFilled`, by ticks or by the fallback |
| `signals` | two deliveries, payloads entry and exit, two workers, the evaluation loop, a user who pauses, resumes and deletes, one fault, workers and deliveries interchangeable | 3.4 M | `PipelineTypeOK`, `EnteringHasAnOwner`, `StatusTellsPosition`, `HaltedStaysQuiet` |
| `switch` | an API order placed or queued, two approvers, two presses, a breaker that trips at the second order, two faults, threads of a kind interchangeable | 4.1 M | `TypeOK`, `ArmedOrderIsStopped`, `PanicLeavesNothingOlder`, `PressLetsGo`, `QueuedOrderIsSentOnce`, `ApprovedRowIsAnswered` |
| `trailing` | two long stops, by points and by per cent, prices 1 to 4, two faults, fairness | 0.3 M | `TrailingTypeOK`, `EveryCloseIsAnExit`, `StopOnlyTightens`, `HitStopExits` |
| `jobs` | three items, four interchangeable requests, two starts, two crashes or failing reads | 1.5 M | `JobTypeOK`, `CompletedJobIsDone`, `ActiveJobHasAThread` |

Deadlock is not checked: every bound on orders, requests or faults stops the system,
and threads that have ended stay so.

### Bounds and why they are enough

*Sandbox.* Three orders take a position through every
netting rule: an open, then an add or a reduction, then a close or a reversal, or
close and reopen. Two quantities are needed for a partial close and for a
reversal. The prices are multiples of 25200 in the book so that an average of up
to six shares is an integer and no rounding enters `ProfitIsCashFlow`; elsewhere
no average is compared. Two orders of every price type suffice for `types`,
whose properties concern one order or its successor. An engine and a request
thread that executes on arrival are two executors that can meet in one order; a
second request thread matters for the balance and is in `engine`. `MaxCrashes` is 2 so that a crash
can hit the repair of an earlier one. In `day`, four orders open two
intraday positions and let the job close them, or leave two orders resting for
it to cancel while one is filled; `Reserved` keeps the orders the job needs. One
midnight makes rows old. The capital pays for one delivery share or two intraday
ones, so refusals occur. There is one price: no property of the run compares
profits, so the resets of the day's profit change nothing there. The symbols are
symmetric, no liveness being checked.

`engine` has one engine and `stale` one price because
with two engines and two prices money and shares are lost, and `restart` has neither
cancellations nor execution on arrival, under which the lifecycle does not hold: see
the divergences below.

*Index.* Two orders of one user are the first and the second of a feed: the one
that subscribes and the one whose completion unsubscribes. One stop gives two engine
objects, so that a tick can outlive one; a second stop repeats that. A user's entries do
not depend on another's. Quotes and prices come and go without a bound.

*Signals.* Two deliveries meet in every pair of entry and exit, on two workers and
with the loop as the third actor; one fault is a resume, a refused or lost order, a
failed write, an exception of the loop, or a crash.
`Stopped` differs from `Paused` only by its name.

*Switch.* A queued order with two approvers has its two decisions overlap and both
execute; the two callers trip the breaker against two presses. Two faults are any two of
a failed clean-up, an execution that cannot be read, a lost reply, a failed answer, a
cache expiry and a crash. The signal engine's
single gate is not in the instance (`Signals` is empty, to keep it small); the theorem
covers it.

*Trailing.* On four prices a stop by two units and one by forty per cent (which rounds)
rise, are hit and miss. Both are long, so that their exits are duplicates of each other;
a short stop mirrors a long one and is covered by the theorems. Two faults let an exit
be lost twice, or be refused and then lost.

*Jobs.* Three items allow a job to be stopped between them, with one done, one failed
and one left; two starts are a job and its retry. Four requests are a creation, a
retry, and two that pause, resume, cancel or delete.

Where a cfg names a SYMMETRY, only invariants and action properties are checked, no
liveness.

### Fairness

A liveness property is checked of `OrderRaces`, `OrderIndex` and `TrailingStop`.
In `OrderRaces` (`FairSpec`) a thread that has begun a handler goes on, and the polling
engine polls again: its loop has no exit but stopping. A poll counts only while there are
quotes, and that they come back for good (`<>[]quoted`) is the premise of the property,
not a promise of the system. Nobody is made to place, cancel
or modify, no tick is promised, and a crash is not prevented, only bounded. In
`OrderIndex` the threads go on, a feed that is on ticks again, and, where no feed is on
and no other symbol ticks, the data become stale with time. No order is promised a
placement, no price is reached by itself or has to stay, and quotes for the fallback are
again a premise: `HitOrderIsFilled` says that an order whose price is reached is filled, or
the price leaves it, or the engine stops. In `TrailingStop` the scheduler runs the
job and three seconds pass; nothing is promised of the price, the broker or the user,
faults being bounded. `HistorifyJobs` states that threads run on, for the one run that
refutes a claim.

### A run that refutes a claim

`cancel`: `historify_service.py:2007` says that cancelling signals the processing
thread to stop and wakes it "so thread can exit cleanly". `cancel_job` calls
`_cleanup_job` inside `with _job_state_lock`, and `_cleanup_job` takes the same
non-reentrant lock (:2014). The request never returns, the job's thread waits for the
lock for ever, and so does every later request about any job. The run `jobs` contains such cancellations as well,
and its safety properties hold with them.

### Divergences met while modelling

These have no run. Where a passing property excludes one (`stale`, `abandoned`, `raced`,
`unheard`, `lost`, `torn`, `late`, `staleFill`), the exclusion names it.

*Sandbox.*

* Cancelling an order that only reduced a position blocked nothing, and releases the
  margin of its whole quantity (`order_manager.py:878`; the comment at :866 says "the
  exact amount that was blocked").
* The reconciliation after any fill hands back the margin of pending orders
  (`execution_engine.py:666`; the comment at :427 counts on it).
* Execution on arrival and an engine both fill an order
  (`execution_engine.py:253`; docs/design/07-sandbox/README.md:663 has "Check if already
  executed").
* Two engines overwrite each other's position (`execution_engine.py:435`;
  docs/prd/sandbox-execution-engine.md:343, "All database operations within lock").
* A reconciliation overwrites a concurrent release, and the profit is gone
  (`fund_manager.py:520`; the comment at :46 promises thread safety of all fund
  operations).
* A login closes a position opened today on a row created yesterday
  (`catch_up_processor.py:63`; the docstring at :44 says "from previous days").
* docs/design/07-sandbox/README.md:263 gives capital = available + used +
  realized; the code pays the profit into available_balance as well, and the
  equation that holds is `Balanced`.
* docs/prd/sandbox-margin-system.md:91 wants used_margin never negative;
  `release_margin` has no floor, and a cancellation after a reconciliation goes
  below zero.
* Several pending delivery sells each pass the share check (`order_manager.py:196`) and
  together sell more than is held.
* A close that releases no margin (a delivery sell, a freed margin) books its
  profit on the position and never on the funds.
* A reversed position's margin is scaled by the excess twice
  (`execution_engine.py:636`).
* `modify_order` keeps margin_blocked when the quantity changes
  (`order_manager.py:767`; the design document recalculates it, line 1541).
* Margin is blocked in one commit and the order inserted in the next
  (`order_manager.py:632`): a crash in between leaves margin nothing releases but a
  reconciliation.
* An order cancelled after an engine listed it is filled all the same; one
  modified during its fill moves the position by another quantity than its trade.
* A crash between the trade's commit and the position's leaves a trade without a
  position; nothing repairs it.
* The engine that loses the race to create the position row marks its traded
  order rejected.
* The intraday gate looks at the direction of an order and not at its size: after
  the square-off time a larger closing order, or two pending ones, open a
  position.
* A settled delivery sell without a holding reduces used_margin instead of being
  paid out, and catch-up's floor on used_margin can make money.
* `process_session_settlement` in `holdings_manager.py` is not called.
* A feed is unsubscribed after the index's lock is let go, when the next order may just
  have subscribed it; and whether data are fresh is asked of all symbols together, so
  as long as another symbol ticks the fallback does not come
  (docs/prd/sandbox-execution-engine.md:108 has every symbol with pending orders
  subscribed). With `OthersTick` TRUE `HitOrderIsFilled` fails.
* A polling engine and the fallback pass over an order without a quote
  (`execution_engine.py:91`), and say so nowhere but in a debug line: without an API key
  (:165) a MARKET order that found no quote on arrival stays open for as long as that
  lasts.
* `start_execution_engine` is "Thread-safe - only one instance will run"
  (`execution_thread.py:98`); the watcher's upgrade runs the WebSocket engine before
  the polling one has stopped.

*Signals and deployments.*

* Two workers that loaded the deployment as Waiting both win the claim
  (`strategy_db.py:2766`: the query returns the session's row; the docstring at :2745
  and the comment at `signal_engine.py:2080` promise one winner).
* The evaluation loop writes Entering without a claim, and exits are not claimed.
* A crash between a claim and the next status leaves the deployment Entering: nothing
  looks for it, and only Waiting deployments are evaluated or entered.
* The route marks a delivery accepted after its signal was queued, over the processed
  a fast worker has written (`blueprints/strategy.py:2439`).
* A status write that fails is rolled back and answered with a False nobody looks at
  (`strategy_db.py:2822`), and an exception of the evaluation loop after it wrote Entering
  is only logged (`deployment_service.py:779`): either leaves the deployment Entering with
  nobody at work, without a crash.
* A refused entry order leaves Managing, a refused exit Waiting: what the broker
  answered is not asked.
* A paused deployment that still holds a position can be deleted, and one that is
  resumed says Waiting whatever it holds.

*Kill switch and approvals.*

* Two presses that both found the switch off both flatten the account, and the first
  to finish opens the gate under the second (`kill_switch_service.py:343` to :347 says that an
  overlapping press "does NOT re-run cleanup"; `settings_db.py:901` to :907).
* A reader that read the flag before it was set fills the cache with it after the
  cache was cleared; for up to an hour the gates let orders pass.
* A press while the velocity breaker has set the flag flattens nothing, and a press
  that was already on its way clears the breaker's halt with its own.
* The gates let an order pass when reading the flag raises.
* Two approvals, or an approval and a rejection, that overlap both take effect.
* A row that cannot be read after its approval, or an answer that cannot be written,
  leaves the approved row without one (`pending_order_execution_service.py:189`,
  `action_center_db.py:302`), and nothing tries again. When the broker's reply is lost the
  row says rejected, though the order may be live (`place_order_service.py:369`,
  `pending_order_execution_service.py:179`).
* The success of a basket or a split order has no "orderid", and its row is never
  answered (`pending_order_execution_service.py:142`); `ApprovalQueue` has single
  orders.
* The master risk monitor disables itself before it closes the positions
  (`master_risk_monitor_service.py:233`): when a close fails, monitoring is off and
  positions are open.

*Trailing stops.*

* A stop whose position was closed otherwise still exits when hit, and opens the
  opposite position (`trailing_stop_service.py:129`).
* An exit queued for approval counts as an exit; rejected, the position has no stop.
* A close that fails to commit repeats the exit on the next pass, and so does an exit
  whose reply was lost (`trailing_stop_service.py:100`, `place_order_service.py:369`): a
  second order goes out for the same position.

*Downloads.*

* A pause that races the finishing thread leaves the job "paused" with no thread, and a
  resume then is refused; a resume that races it leaves "running" for ever.
* A retry of a paused job starts a second thread, and the first one's end overwrites
  the status. A pause of a queued retry is overwritten by "running" while its event stays
  cleared.
* Only a running job is refused deletion: a paused or queued one is deleted under its
  thread.
* The restart marks zombies as failed "so users can retry them"
  (`historify_service.py:1457`), and a retry answers that there is nothing to retry when
  no item is in error, whatever is still pending.
* A job queued at a crash stays pending for ever, and a read that fails when a thread
  loads its items leaves the job's entries in memory.

Each property of a passing run has a mutant in its module (comments "Mutant:"):
the definition changed as a plausible bug would change it, under which the run
finds the property violated.

## 4. What is proved

For all values of the constants, from the named assumptions of each module (types of
the constants, and that threads of different kinds differ); a hypothesis beyond them is
in the statement:

| Theorem | States |
|---|---|
| `SandboxBookProofs!TypeCorrect` | `Spec => []TypeOK` |
| `SandboxBookProofs!CashIsConserved` | `Spec => []CashConserved` |
| `SandboxBookProofs!ClosedOrdersAreFinal` | `Spec => ClosedOrderIsFinal` |
| `SandboxBookProofs!OneTradeEach` | `Spec => []OneTradePerFilledOrder` |
| `SandboxBookProofs!BookImplementsLifecycle` | `Spec => ImplementsLifecycle` |
| `SandboxBookProofs!NoMarginOnClosedPositions` | `Spec => []ClosedPositionHoldsNoMargin` |
| `SandboxBookProofs!PositionsAreNetOfTrades` | `Spec => []PositionIsNetOfTrades` |
| `SandboxBookProofs!ProfitsAreCashFlows` | `Spec /\ NoAverageRounded => []ProfitIsCashFlow` |
| `SandboxBookProofs!DayTypesHold` | `DaySpec => []DayTypeOK` |
| `SandboxBookProofs!SharesAccountedFor` | `DaySpec => []SharesAreAccountedFor` |
| `SandboxBookProofs!DayClosedOrdersAreFinal` | `DaySpec => ClosedOrderIsFinal` |
| `SandboxBookProofs!DayOneTradeEach` | `DaySpec => []OneTradePerFilledOrder` |
| `SandboxBookProofs!DayImplementsLifecycle` | `DaySpec => ImplementsLifecycle` |
| `SandboxBookProofs!DayNoMarginOnClosedPositions` | `DaySpec => []ClosedPositionHoldsNoMargin` |
| `OrderRacesProofs!RacesTypes` | `Spec => []TypeOK` |
| `OrderRacesProofs!TradedOrdersStayClosed` | `Spec => []TradedOrderIsNotOpen` |
| `OrderRacesProofs!BlocksNeverOverdraw` | `Spec => BlockNeverOverdraws` |
| `OrderRacesProofs!OneEngineKeepsCash` | `Spec => []CashConserved`, if one engine fills |
| `OrderRacesProofs!OneEngineImplementsLifecycle` | `Spec => ImplementsLifecycle`, if one engine fills, nobody cancels and the users are finitely many |
| `OrderRacesProofs!OneEngineNetsTrades` | `Spec => []PositionMatchesTrades`, if one engine fills, nobody modifies and nothing crashes |
| `OrderIndexProofs!OpenOrdersAreIndexed` | `Spec => []OpenOrderIsIndexed` |
| `OrderIndexProofs!IndexTypes` | `Spec => []IndexTypeOK` |
| `OrderIndexProofs!CountsCover` | `Spec => []CountCoversIndex` |
| `SignalPipelineProofs!PipelineTypes` | `Spec => []PipelineTypeOK` |
| `SignalPipelineProofs!EnteringIsOwned` | `Spec => []EnteringHasAnOwner` |
| `SignalPipelineProofs!StatusIsTrue` | `Spec => []StatusTellsPosition` |
| `SignalPipelineProofs!RestStaysQuiet` | `Spec => HaltedStaysQuiet` |
| `KillSwitchProofs!ArmedOrdersStop` | `Spec => []ArmedOrderIsStopped` |
| `KillSwitchProofs!QueueTypesHold` | `Spec => []TypeOK` (of `ApprovalQueue`) |
| `KillSwitchProofs!PressesLetGo` | `Spec => []PressLetsGo` |
| `KillSwitchProofs!PanicFlattens` | `Spec => []PanicLeavesNothingOlder` |
| `KillSwitchProofs!QueuedOrdersAreSentOnce` | `Spec => []QueuedOrderIsSentOnce` |
| `KillSwitchProofs!ApprovedRowsAreAnswered` | `Spec => []ApprovedRowIsAnswered` |
| `TrailingStopProofs!TrailingTypes` | `Spec => []TrailingTypeOK` |
| `TrailingStopProofs!ExitsBalance` | `Spec => []EveryCloseIsAnExit` |
| `TrailingStopProofs!LevelsTighten` | `Spec => StopOnlyTightens` |
| `HistorifyProofs!JobTypes` | `Spec => []JobTypeOK` |
| `HistorifyProofs!CompletedJobs` | `Spec => []CompletedJobIsDone` |
| `HistorifyProofs!ActiveJobs` | `Spec => []ActiveJobHasAThread` |

Each inductive invariant was checked by TLC as an invariant of a run before it was
proved.

The arguments.

*The book.* `TypeOK` is inductive as it stands; the weight is in lemmas that
each fund operation and `Netted` return rows of their type, and that the outcome
of placing is one of three (`PlaceOrderOutcome`). An order with a limit must be
known to have its price (`Order`), or a fill at the limit would have no
price; that is the strengthening. `CashConserved` is inductive given the types: every fund
operation keeps `Balanced`, whatever amount it is given, which is why margins that
are wrong in other ways cannot break it.

The order theorems rest on one lemma, `StepIsOrderStep`: to the orders and trades,
a step of any handler stores an order, stores a filled one, fills an open one,
rewrites an open one, or does nothing. Finality follows at once.
`OneTradePerFilledOrder` is not inductive: a trade of an order not yet placed would
be its second trade when it is placed and filled. The invariant adds
`TradesHaveOrders`. The refinement adds `BookBounded`, without which an order
would be outside the identifiers of `OrderLifecycle`; each of the five outcomes
is then a step of the abstract specification or a stutter.

`NoMarginOnClosedPositions` rests on `NettedMargin`: a netting that ends at 0 shares
releases the whole margin, the quotient of `margin * closed` by `closed` being
exact.

*Sums.* The reconciliation sums margins over positions, and three properties sum over
trades. The sums are the folds of the community modules, and the provers cannot
instantiate an induction theorem. `SandboxLemmas` gets by without one: a finite
set of sets that is not empty has a member with no smaller one in it (`SmallestSubset`),
and a sum that did not exist, or were not unique, would have a smallest set where it
fails, from which one element can be taken. What follows is `SumTyped`, and
`SumWithout` and `SumWithOneMore`: an element adds its own value, whichever the fold takes first.

*Shares and profit.* `PositionStep` is to the positions what `StepIsOrderStep` is to the
orders: nothing, a reset, or one trade appended and netted into its instrument.
`NettedQuantity` (all netting rules agree on the sum of the quantities) and
`SumAfterTrade` (the trade adds its part to the sum of its instrument, and to no other) then
give `PositionIsNetOfTrades`; the invariant adds `OpeningIsPast`, without which a new trade
could count as one from before the last reset.
For the profit `NettedWorth` says that a fill changes
what was earned less the cost of what is open by the cash it moves, and by nothing else, in
every netting rule. It needs an average that comes out whole, and so does the property:
an average that is rounded down, as the column's two decimals also round, makes or loses
the rest. Hence the hypothesis `NoAverageRounded`, about averaging steps only; the prices
of `netting` satisfy it.

*The days.* A step of `SandboxDay` is a step of a handler or of a job (`DayStepIs`). To
the handlers' steps the lemmas about `SandboxBook` apply, also where the square-off job
makes them; the jobs' own writes leave orders, trades and what was there at the reset
alone (`JobStep`), and move shares from a delivery row to its holding or
leave them. That is all `SharesAreAccountedFor` needs, with `OpeningIsPast`.

*The races.* `RacesInv` gives types to the tables and to what each session holds: rows
as they were loaded, with the columns of a row of the table, for orders that are in the
table. With it, `TradedOrderIsNotOpen` is inductive for any number of engines,
requests that execute on arrival, modifications and crashes: a trade and its status are
one commit, and no thread writes "open" over a closed status, since a session
writes only the columns it changed. `BlockNeverOverdraws` follows from the types and from
the look under the lock.

With several threads that fill, cash, lifecycle and shares are lost (section 3,
divergences), so the three other theorems assume that one engine fills
(`OneFiller`: a set of engines with one member, and no quote for an execution on arrival).
`engine` and `restart` are instances of it. Request threads then only ask
(`UsersOnlyAsk`). For the cash: what the
engine read for its reconciliation still accounts for all the cash when it writes it
back, whatever margins were blocked or released since, because only the engine books
profit (`SeenIsCash`). For the lifecycle: what the engine is about to fill has no trade
yet (`FillsOnce`), a status says filled exactly when there is a trade (`StatusIsFill`), and
requests on their way have room in the table (`RoomForAll`). With a cancellation it does not hold:
an order cancelled between load and fill is filled. For the shares: the row the
engine loaded has the quantity and average of the table's (`HeldIsPosition`), and trades
are the position plus the one fill on its way (`TradesAreNetted`); a modification
between load and netting, or a crash after the trade, breaks this.

*The index.* `OpenOrderIsIndexed` speaks of placements that are done; `IndexInv` says more
of those still on their way: a thread that has been through `notify_order_placed` has its
order in the index of a started engine (`AnnouncedIsIndexed`). It holds because an engine
counts as running before it builds its index, so a placement that finds none running has
committed before the index is built. It also needs that an order is taken out only after
its row is closed (`CompletedIsClosed`). `CountCoversIndex` compares a counter with the
size of a set: `CountInv` adds that the feed thread works on orders that are in the index of
its engine's life (`FeedPart`), or a completion would count down for an order it does
not take out.

*The pipeline.* `EnteringHasAnOwner` says what `StatusTellsPosition` needs: as long as
nobody acted on a changed status and nothing failed at most one actor is between its two
status writes (`OneActs`), and then the position is what that actor's step says.
`PipelineInv` is the conjunction. Two lemmas carry the status writes: one that may fail
(`StatusWritten`), and the last one of somebody at work (`LeftAs`), after which either the
status is the one asked for or the history says `abandoned`. A failed first write, or one of
the user, is not among the excuses: the row then says what it said before, and whoever it
says is at work still is. `HaltedStaysQuiet` is an action property and follows step by step from the
types. `PipelineTypeOK` needs what each step of a request, a worker and the loop knows: a
worker past its queue has a delivery, one that acts has seen a status.

*The switch.* `SwitchInv` adds to the types that an armed caller sees the flag set
(`ArmedSeesFlag`), and that a cached "off" next to a set flag, unless it was filled late,
exists only while the writer still holds the lock, when nobody is armed yet
(`CacheFollowsFlag`). It is proved for any number of callers, approvers and presses.
`PressLetsGo` is inductive with the types. For `PanicLeavesNothingOlder`, `PanicInv` follows
each press: what was at the broker when it began is no longer pending after the
cancellation and no longer held after the closing, unless one of them failed; since an
order goes on at the broker and never back (`BrokerGoesOn`), that stays true while
other threads run.

*The approval queue.* `QueueRowsInv` relates each decision's step to its row. A row is
there only when its request is through; while it is pending nobody has written a
verdict; and as long as no two lookups raced, at most one approver decides
about it, one that executes has its row approved (or deleted meanwhile), and the
answer in the row is what the broker made of the order, or the row is in `unheard`; also
then it does not say placed unless the broker has the order. It uses of `PanicInv` that only
a caller that is through has an order at the broker.

*Trailing stops.* The balance of exits is inductive with the types once the pass is known
to hold only active stops: an exit that is handed over goes on to close its row, or counts as
lost with a fault of its own, so no stop has more lost exits than there were faults.
`StopOnlyTightens` follows from them in `Ratchet`, the only
step that writes a level of an active stop.

*Downloads.* Types and `ActiveJobHasAThread` are inductive together.
`CompletedJobIsDone` needs `DoneInv`: while no retry was torn, at most one start of the
job is alive or prepared (`Alone`), the thread knows every item that is still to be done
(`KnowsItems`), and a status that says done is not there while one is at work (`NotYetDone`).

Every invariant and action property of a passing run has a theorem, those with a
hypothesis as the table says. Not proved and left to TLC: liveness
(`MarketOrderLeavesOpen`, `HitOrderIsFilled`, `HitStopExits`), which needs fairness and
ENABLED; `CashConserved` of `OrderRaces` with a request that executes on arrival beside
an engine, which `stale` checks at one price and which two prices break; `ProfitIsCashFlow` where
averages are rounded, for which it is false. No module declares a recursive operator.

## 5. What is not modelled

*Sandbox.* Money is an integer; the DECIMAL columns and their rounding, contract
multipliers, lots and futures or option margins are left out, and leverage is one
integer per product. Unrealised and total profit, pnl percentages, ltp and the daily
snapshot are displays. One user and one exchange: users share nothing but the class lock.
`updated_at`, per-exchange square-off times, several exchanges and expired
contracts are left out. Exceptions of the sandbox's own code are left out except the
unique-key violation of `LoseInsert`; in particular "database is locked". The daemon threads' start and
stop are in the plan.

*Signals.* Leg groups and rotation, the older strategy path without deployments, the
time-outs of the reaper, and what a condition evaluates to. A deployment with several
brokers or legs has one order here, which is taken, refused or lost as a whole. An exception
of the loop before it has written Entering ends its pass and changes nothing, like a pass
whose conditions are not met (`Heartbeat`); so does one after its last status. Writes of the
route and of a delivery's outcome do not fail.

*Switch.* Quantity, value and price limits, which read no shared state; the stopping of
strategies and flows by a press; the loops inside the clean-up. Reads and writes of the
flag do not fail. A decision whose commit fails leaves the row pending, as if it had not been
made, and is not a step.

*Not at all.* The master risk monitor (floating-point limits on live positions), the
flow executor (an interpreter of users' graphs), the WebSocket proxy, quotes, event
subscribers, caches of authentication, broker adapters, REST and web routing, analytics,
front end, installers. These are translation, presentation, network I/O or numerical
computation; most of the repository's lines are there, above all in the adapters.

## 6. Plan

Done, in this order: `SandboxBook` with its parts, `OrderLifecycle` and the
refinement; their proofs; `OrderRaces`; `SandboxDay`; `TrailingStop`, `KillSwitch` with
`ApprovalQueue`, `OrderIndex`, `WebhookDelivery` with `SignalPipeline`, `HistorifyJobs`,
each with its proofs.

Then: the proofs about `OrderRaces`, `SandboxDay`, the queue, the panic button, the
counts of the index and the types of the pipeline.

Next, in this order:

1. `EngineThreads`: start, stop, watcher and switch-over with `_thread_lock`
   (`execution_thread.py:187` holds it while it waits for the watcher).
   Safety: at most one engine; liveness: stop returns. Bounds: two callers.
2. `SandboxDay` at its commits: the settlement's commits row by row with a crash
   in between (`holdings_manager.py:187` commits the holding before the position
   row is deleted), `updated_at`, expired contracts. Abstract specification: each
   delivery row is settled once.
3. Leg groups of a deployment; the master risk monitor; the sandbox's
   good-till-triggered orders; the process manager of Python strategies
   (`blueprints/python_strategy.py`); the flow price monitor; the schedules that create
   download jobs.
4. Proofs: `CashConserved` of `OrderRaces` with several threads that fill at one price;
   how far the profit of `SandboxBook` can be from the cash when averages are rounded.
