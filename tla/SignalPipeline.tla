--------------------------- MODULE SignalPipeline ---------------------------
(***************************************************************************)
(* One strategy deployment, traded by whoever acts on its status row:      *)
(* signal workers that take the queue of WebhookDelivery, the evaluation   *)
(* loop of the deployment service, and the user.  A status write asks      *)
(* nothing of the status it overwrites, and nobody asks whether it failed. *)
(*                                                                         *)
(* A worker and the loop read the status once and act on what they read.   *)
(* Each has a SQLAlchemy session that keeps the row as it was loaded; even *)
(* the query under try_claim_deployment_for_entry's lock gets the loaded   *)
(* row back.                                                               *)
(***************************************************************************)
EXTENDS WebhookDelivery, Integers

CONSTANTS Workers,     \* threads of _dispatch_executor
          Evaluates,   \* whether the deployment has conditions to evaluate
          Halts,       \* what the user may set: Paused, Stopped
          MaxFaults    \* bound on resumes, refused orders, failures and crashes together

ASSUME PipelineAssumption ==
    /\ Payloads \subseteq {"entry", "exit"}
    /\ Evaluates \in BOOLEAN
    /\ Halts \subseteq {"Paused", "Stopped"}
    /\ MaxFaults \in Nat

VARIABLES status,    \* deployments.status, or "deleted"
          position,  \* what the deployment's orders add up to, in lots
          worker,    \* what each signal worker is at, and the status it read
          loop,      \* the same of _evaluation_loop
          deleting,  \* a delete request has passed its check
          resumes, rejects, crashes, failures,
          stale,     \* history: somebody acted on a status that had changed
          abandoned  \* history: somebody at work went without giving the deployment up

actors == <<worker, loop>>
counts == <<resumes, rejects, crashes>>
trouble == <<failures, abandoned>>
vars == <<webhookVars, status, position, actors, deleting, counts, stale, trouble>>

Statuses == {"Waiting", "Entering", "Managing", "Paused", "Stopped", "Error", "deleted"}

Free == [step |-> "idle", delivery |-> "none", seen |-> "none"]
Sleeping == [step |-> "sleep", placed |-> FALSE]

WorkerSteps == {"idle", "load", "claim", "enter", "settle",
                "release", "close", "finish", "report"}
LoopSteps == {"sleep", "check", "entering", "place", "settle"}

Init ==
    /\ WebhookInit
    /\ status = "Waiting"
    /\ position = 0
    /\ worker = [w \in Workers |-> Free]
    /\ loop = Sleeping
    /\ deleting = FALSE
    /\ resumes = 0 /\ rejects = 0 /\ crashes = 0 /\ failures = 0
    /\ stale = FALSE /\ abandoned = FALSE

FaultsLeft == resumes + rejects + crashes + failures < MaxFaults

Fails == FaultsLeft /\ failures' = failures + 1

\* update_deployment_status: a deleted row is not brought back; a write that fails is
\* rolled back and answered with a False that nobody looks at.
SetStatus(s) ==
    /\ \/ status' = (IF status = "deleted" THEN status ELSE s) /\ UNCHANGED failures
       \/ Fails /\ UNCHANGED status
    /\ UNCHANGED abandoned

\* The last write of somebody at work on the deployment.
LeaveAs(s) ==
    \/ /\ status' = IF status = "deleted" THEN status ELSE s
       /\ UNCHANGED trouble
    \/ /\ Fails /\ UNCHANGED status
       /\ abandoned' = TRUE

\* The actor acts on the status it read, whatever the row says now.
ActOn(seen) == stale' = (stale \/ status # seen)

WorkerTo(w, step) == worker' = [worker EXCEPT ![w].step = step]

\* An order of place_order that the broker takes or refuses; if its reply is lost,
\* an order it took counts as refused.
Order(lots) ==
    \/ position' = position + lots /\ UNCHANGED rejects
    \/ FaultsLeft /\ rejects' = rejects + 1 /\ position' \in {position, position + lots}

-----------------------------------------------------------------------------
(* The signal workers. *)

\* The worker loop dispatches the oldest signal to a free thread of the pool,
\* where the gates of _process_signal_event may refuse it.
TakeSignal(w) ==
    /\ worker[w].step = "idle" /\ queue # <<>>
    /\ queue' = Tail(queue)
    /\ worker' = [worker EXCEPT ![w] = [Free EXCEPT !.step = "load", !.delivery = Head(queue)]]
    /\ UNCHANGED <<log, request, status, position, loop, deleting, counts, stale, trouble>>

RefuseSignal(w) ==
    /\ worker[w].step = "load"
    /\ log' = WithOutcome(worker[w].delivery, "rejected")
    /\ worker' = [worker EXCEPT ![w] = Free]
    /\ UNCHANGED <<request, queue, status, position, loop, deleting, counts, stale, trouble>>

\* Mutant: a second entry signal adds to the position.
ReactionToAny(seen, signal) ==
    IF seen \in {"Waiting", "Managing"} /\ signal = "entry" THEN "claim"
    ELSE IF seen = "Managing" /\ signal = "exit" THEN "release"
    ELSE "report"

\* What a signal asks of a deployment in that status.
ReactionTo(seen, signal) ==
    IF seen = "Waiting" /\ signal = "entry" THEN "claim"
    ELSE IF seen = "Managing" /\ signal = "exit" THEN "release"
    ELSE "report"

LoadDeployment(w) ==
    /\ worker[w].step = "load"
    /\ worker' = [worker EXCEPT ![w].seen = status,
                      ![w].step = ReactionTo(status, request[worker[w].delivery].payload)]
    /\ UNCHANGED <<webhookVars, status, position, loop, deleting, counts, stale, trouble>>

\* try_claim_deployment_for_entry, whose query returns the row as loaded, and which
\* claims nothing if it fails.
Claimable(w) == worker[w].seen = "Waiting" /\ status # "deleted"

Claim(w) ==
    /\ worker[w].step = "claim"
    /\ \/ /\ Claimable(w)
          /\ status' = "Entering"
          /\ ActOn("Waiting")
          /\ WorkerTo(w, "enter")
          /\ UNCHANGED failures
       \/ /\ (~Claimable(w) /\ UNCHANGED failures) \/ (Claimable(w) /\ Fails)
          /\ WorkerTo(w, "report")
          /\ UNCHANGED <<status, stale>>
    /\ UNCHANGED <<webhookVars, position, loop, deleting, counts, abandoned>>

\* Mutant: the claim is not given up when the order is not to be placed.
FailQuietly(w) ==
    /\ worker[w].step \in {"enter", "close"}
    /\ WorkerTo(w, "report")
    /\ UNCHANGED <<webhookVars, status, position, loop, deleting, counts, stale, trouble>>

\* validate_risk refuses, or something raises, before the orders or after them.
Fail(w) ==
    /\ worker[w].step \in {"enter", "settle", "close", "finish"}
    /\ LeaveAs("Error")
    /\ WorkerTo(w, "report")
    /\ UNCHANGED <<webhookVars, position, loop, deleting, counts, stale>>

\* Something raises before the claim or after the last status: Error is written too.
FailOutside(w) ==
    /\ worker[w].step = "report" /\ worker[w].seen \in {"Waiting", "Managing", "Paused"}
    /\ SetStatus("Error")
    /\ UNCHANGED <<webhookVars, position, actors, deleting, counts, stale>>

\* Whether the broker took the order is not looked at.
PlaceEntry(w) ==
    /\ worker[w].step = "enter"
    /\ Order(1)
    /\ WorkerTo(w, "settle")
    /\ UNCHANGED <<webhookVars, status, loop, deleting, resumes, crashes, stale, trouble>>

\* Mutant: the deployment goes straight back to waiting.
SettleEntryWaiting(w) ==
    /\ worker[w].step = "settle"
    /\ LeaveAs("Waiting")
    /\ WorkerTo(w, "report")
    /\ UNCHANGED <<webhookVars, position, loop, deleting, counts, stale>>

SettleEntry(w) ==
    /\ worker[w].step = "settle"
    /\ LeaveAs("Managing")
    /\ WorkerTo(w, "report")
    /\ UNCHANGED <<webhookVars, position, loop, deleting, counts, stale>>

\* An exit takes the row to Entering without a claim; if it is gone, no order goes out.
BeginExit(w) ==
    /\ worker[w].step = "release"
    /\ SetStatus("Entering")
    /\ ActOn("Managing")
    /\ WorkerTo(w, IF status = "deleted" THEN "report" ELSE "close")
    /\ UNCHANGED <<webhookVars, position, loop, deleting, counts>>

PlaceExit(w) ==
    /\ worker[w].step = "close"
    /\ Order(-1)
    /\ WorkerTo(w, "finish")
    /\ UNCHANGED <<webhookVars, status, loop, deleting, resumes, crashes, stale, trouble>>

FinishExit(w) ==
    /\ worker[w].step = "finish"
    /\ LeaveAs("Waiting")
    /\ WorkerTo(w, "report")
    /\ UNCHANGED <<webhookVars, position, loop, deleting, counts, stale>>

\* However the deployment fared, the delivery is processed.
Report(w) ==
    /\ worker[w].step = "report"
    /\ log' = WithOutcome(worker[w].delivery, "processed")
    /\ worker' = [worker EXCEPT ![w] = Free]
    /\ UNCHANGED <<request, queue, status, position, loop, deleting, counts, stale, trouble>>

WorkerStep(w) ==
    \/ TakeSignal(w) \/ RefuseSignal(w) \/ LoadDeployment(w) \/ Claim(w)
    \/ Fail(w) \/ FailOutside(w) \/ PlaceEntry(w) \/ SettleEntry(w) \/ BeginExit(w)
    \/ PlaceExit(w) \/ FinishExit(w) \/ Report(w)

-----------------------------------------------------------------------------
(* The evaluation loop: one thread, every five seconds. *)

LoopTo(step) == loop' = [Sleeping EXCEPT !.step = step]

\* Mutant: a paused deployment is evaluated too.
QueryPaused == status \in {"Waiting", "Paused"}

\* The rows the loop's query returns.
QueryWaiting == status = "Waiting"

Wake ==
    /\ Evaluates /\ loop.step = "sleep" /\ QueryWaiting
    /\ LoopTo("check")
    /\ UNCHANGED <<webhookVars, status, position, worker, deleting, counts, stale, trouble>>

\* The conditions are not met.
Heartbeat ==
    /\ loop.step = "check"
    /\ LoopTo("sleep")
    /\ UNCHANGED <<webhookVars, status, position, worker, deleting, counts, stale, trouble>>

\* No owner, no symbol or too much risk; or conditions met and no API key.
Decline ==
    /\ loop.step = "check"
    /\ \/ SetStatus("Error") /\ UNCHANGED stale
       \/ SetStatus("Waiting") /\ ActOn("Waiting")
    /\ LoopTo("sleep")
    /\ UNCHANGED <<webhookVars, position, worker, deleting, counts>>

\* The loop does not claim the deployment.
Trigger ==
    /\ loop.step = "check"
    /\ SetStatus("Entering")
    /\ ActOn("Waiting")
    /\ LoopTo("place")
    /\ UNCHANGED <<webhookVars, position, worker, deleting, counts>>

\* An index without a future to trade, or no broker.
GiveUp ==
    /\ loop.step = "place"
    /\ LeaveAs("Waiting")
    /\ LoopTo("sleep")
    /\ UNCHANGED <<webhookVars, position, worker, deleting, counts, stale>>

PlaceTriggered ==
    /\ loop.step = "place"
    /\ Order(1)
    /\ loop' = [step |-> "settle", placed |-> rejects' = rejects]
    /\ UNCHANGED <<webhookVars, status, worker, deleting, resumes, crashes, stale, trouble>>

SettleTriggered ==
    /\ loop.step = "settle"
    /\ LeaveAs(IF loop.placed THEN "Managing" ELSE "Waiting")
    /\ LoopTo("sleep")
    /\ UNCHANGED <<webhookVars, position, worker, deleting, counts, stale>>

\* Something raises once the loop has written Entering: the pass ends with a line in
\* the log, and the row stays as it is.
RaiseInLoop ==
    /\ loop.step \in {"place", "settle"}
    /\ Fails
    /\ abandoned' = TRUE
    /\ LoopTo("sleep")
    /\ UNCHANGED <<webhookVars, status, position, worker, deleting, counts, stale>>

LoopStep ==
    \/ Wake \/ Heartbeat \/ Decline \/ Trigger \/ GiveUp
    \/ PlaceTriggered \/ SettleTriggered \/ RaiseInLoop

-----------------------------------------------------------------------------
(* The user, and a crash. *)

Halt ==
    /\ status # "deleted"
    /\ \E s \in Halts : SetStatus(s)
    /\ UNCHANGED <<webhookVars, position, actors, deleting, counts, stale>>

\* resume_deployment and update_deployment_broker, from any status.
Resume ==
    /\ status # "deleted" /\ FaultsLeft
    /\ SetStatus("Waiting")
    /\ resumes' = resumes + 1
    /\ UNCHANGED <<webhookVars, position, actors, deleting, rejects, crashes, stale>>

RequestDelete ==
    /\ ~deleting /\ status \notin {"Managing", "Entering", "deleted"}
    /\ deleting' = TRUE
    /\ UNCHANGED <<webhookVars, status, position, actors, counts, stale, trouble>>

Delete ==
    /\ deleting
    /\ status' = "deleted"
    /\ deleting' = FALSE
    /\ UNCHANGED <<webhookVars, position, actors, counts, stale, trouble>>

\* Somebody is between the status it wrote and the status it will write.
InFlight ==
    \/ \E w \in Workers : worker[w].step \in {"enter", "settle", "close", "finish"}
    \/ loop.step \in {"place", "settle"}

\* Nothing looks for a deployment that was left Entering.
Crash ==
    /\ FaultsLeft
    /\ crashes' = crashes + 1
    /\ WebhookCrash
    /\ worker' = [w \in Workers |-> Free]
    /\ loop' = Sleeping
    /\ deleting' = FALSE
    /\ abandoned' = (abandoned \/ InFlight)
    /\ UNCHANGED <<status, position, resumes, rejects, failures, stale>>

Webhooks ==
    /\ WebhookNext
    /\ UNCHANGED <<status, position, actors, deleting, counts, stale, trouble>>

Next ==
    \/ Webhooks
    \/ \E w \in Workers : WorkerStep(w)
    \/ LoopStep
    \/ Halt \/ Resume \/ RequestDelete \/ Delete \/ Crash

Spec == Init /\ [][Next]_vars

-----------------------------------------------------------------------------
(* Properties. *)

\* The rows, threads and counters have their types; a claimed or closing worker
\* has read the status that took it there.
PipelineTypeOK ==
    /\ WebhookTypeOK
    /\ status \in Statuses /\ position \in Int
    /\ \A w \in Workers :
          /\ worker[w].step \in WorkerSteps
          /\ worker[w].seen \in Statuses \cup {"none"}
          /\ worker[w].step = "idle" <=> worker[w] = Free
          /\ worker[w].step \in {"claim", "enter", "settle"} => worker[w].seen = "Waiting"
          /\ worker[w].step \in {"release", "close", "finish"} => worker[w].seen = "Managing"
    /\ loop \in [step : LoopSteps, placed : BOOLEAN]
    /\ {deleting, stale, abandoned} \subseteq BOOLEAN
    /\ {resumes, rejects, crashes, failures} \subseteq Nat

\* Somebody may still act on a status it has read.
Engaged ==
    InFlight \/ loop.step # "sleep"
             \/ \E w \in Workers : worker[w].step \in {"claim", "release"}

\* Every way out of an entry or an exit gives the deployment up: a row says Entering
\* only while a thread is at work on it, unless a thread at work died, failed in its last
\* write, or was the loop and raised.  A failed write of anybody else is no excuse.
EnteringHasAnOwner == status = "Entering" => InFlight \/ abandoned

\* The status tells what is held, however requests, workers, the loop, a crash
\* and a user who pauses, stops or deletes interleave, unless one of four things
\* happened: somebody acted on a status that had changed since it was read, the
\* broker refused an order, a write failed or the loop raised, or the user resumed.
StatusTellsPosition ==
    ~stale /\ rejects = 0 /\ failures = 0 /\ resumes = 0 =>
        /\ position \in {0, 1}
        /\ status = "Waiting" => position = 0
        /\ status = "Managing" => position = 1

\* A deployment that is paused, stopped, in error or deleted, with nobody still
\* engaged, does not trade, does not go back to work by itself, and engages nobody.
HaltedStaysQuiet ==
    [][(status \in {"Paused", "Stopped", "Error", "deleted"} /\ ~Engaged)
         => /\ position' = position
            /\ status' \notin {"Entering", "Managing"}
            /\ ~Engaged']_vars
=============================================================================
