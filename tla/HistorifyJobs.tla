---------------------------- MODULE HistorifyJobs ----------------------------
(***************************************************************************)
(* One bulk download of historical data: the rows of the job and its       *)
(* items, the threads of the pool that work on it, and the requests that   *)
(* create, pause, resume, cancel, retry and delete it.  Two dictionaries   *)
(* behind one lock say which job is tracked and whether it may go on; the  *)
(* rows are read and written without it.                                   *)
(***************************************************************************)
EXTENDS Naturals, FiniteSets

CONSTANTS Items,      \* what the job is to download, in the order of their keys
          Users,      \* requests, each a thread of its own
          MaxStarts,  \* bound on how often the job is put to the pool
          MaxFaults   \* bound on crashes and on reads of the database that fail

Workers == 1 .. MaxStarts

ASSUME HistorifyAssumption ==
    /\ Items \subseteq Nat /\ MaxStarts \in Nat /\ MaxFaults \in Nat
    /\ Users \cap Workers = {} /\ "free" \notin Users

VARIABLES status,   \* the status of the job's row, "absent" before and "deleted" after
          item,     \* the status of each item's row
          tracked,  \* the job's entry in _running_jobs
          event,    \* the start whose event _paused_jobs holds, 0 if it holds none
          open,     \* starts whose event is set: they may go on
          lock,     \* who holds _job_state_lock
          at,       \* where each worker and each request is
          work,     \* what each worker has read
          resets,   \* the items each retry has yet to reset
          faults,
          torn,     \* history: a retry met another thread of the job, or died half-way
          late      \* history: a pause or resume met a job with no thread at work

rows == <<status, item>>
memory == <<tracked, event, open, lock>>
history == <<torn, late>>
vars == <<rows, memory, at, work, resets, faults, history>>

Steps == {"idle", "queued", "load", "check", "gate", "wait", "start", "download", "stopping",
          "pause", "resume", "cancel", "signal", "delete", "list", "reset", "submit", "cleanup",
          "ended"}

NothingRead == [todo |-> {}, failed |-> FALSE, event |-> 0]

Init ==
    /\ status = "absent" /\ item = [i \in Items |-> "pending"]
    /\ tracked = "none" /\ event = 0 /\ open = {} /\ lock = "free"
    /\ at = [t \in Workers \cup Users |-> "idle"]
    /\ work = [w \in Workers |-> NothingRead]
    /\ resets = [u \in Users |-> {}]
    /\ faults = 0 /\ torn = FALSE /\ late = FALSE

Goes(t, from, to) == at[t] = from /\ at' = [at EXCEPT ![t] = to]

\* Rows are updated by key: when they are gone nothing happens.
SetStatus(value) == status' = IF status = "deleted" THEN status ELSE value
SetItem(i, value) == item' = IF status = "deleted" THEN item ELSE [item EXCEPT ![i] = value]

ItemsIn(values) == {i \in Items : item[i] \in values}
IsFirst(i, S) == i \in S /\ \A j \in S : i <= j

\* A worker with the job in hand, and one that has been put to the pool and not ended.
Busy(w) == at[w] \notin {"idle", "queued", "cleanup", "ended"}
Live(w) == at[w] \notin {"idle", "ended"}

-----------------------------------------------------------------------------
(* The worker: _process_download_job. *)

\* A job that is not found ends the thread, and so does a read that fails.
Begin(w) ==
    /\ \/ /\ status # "deleted" /\ Goes(w, "queued", "load")
          /\ SetStatus("running")
          /\ UNCHANGED faults
       \/ /\ status = "deleted" /\ Goes(w, "queued", "ended")
          /\ UNCHANGED <<status, faults>>
       \/ /\ faults < MaxFaults /\ faults' = faults + 1
          /\ Goes(w, "queued", "ended")
          /\ UNCHANGED status
    /\ UNCHANGED <<item, memory, work, resets, history>>

\* The items are read once.  A read that fails looks like a job without items and
\* ends the thread without its clean-up; what raises ends it with one.
Load(w) ==
    /\ \/ /\ status # "deleted" /\ Goes(w, "load", "check")
          /\ work' = [work EXCEPT ![w].todo = ItemsIn({"pending", "downloading"}),
                                  ![w].failed = ItemsIn({"error"}) # {}]
          /\ UNCHANGED <<status, faults>>
       \/ /\ status = "deleted" /\ Goes(w, "load", "ended")
          /\ UNCHANGED <<status, work, faults>>
       \/ /\ faults < MaxFaults /\ faults' = faults + 1
          /\ \E to \in {"cleanup", "ended"} : Goes(w, "load", to)
          /\ SetStatus("failed")
          /\ UNCHANGED work
    /\ UNCHANGED <<item, memory, resets, history>>

\* Before each item: is the job still tracked, and which event is it to wait on.
Check(w) ==
    /\ work[w].todo # {} /\ lock = "free"
    /\ Goes(w, "check", IF tracked = "go" THEN "gate" ELSE "stopping")
    /\ work' = [work EXCEPT ![w].event = event]
    /\ UNCHANGED <<rows, memory, resets, faults, history>>

\* A thread that must wait looks again, when its event is set and every second.
Gate(w) ==
    /\ Goes(w, "gate", IF work[w].event \in open \cup {0} THEN "start" ELSE "wait")
    /\ UNCHANGED <<rows, memory, work, resets, faults, history>>

Wait(w) ==
    /\ lock = "free"
    /\ Goes(w, "wait", IF tracked = "go" THEN "gate" ELSE "stopping")
    /\ UNCHANGED <<rows, memory, work, resets, faults, history>>

StartItem(w) ==
    /\ Goes(w, "start", "download")
    /\ \E i \in Items : IsFirst(i, work[w].todo) /\ SetItem(i, "downloading")
    /\ UNCHANGED <<status, memory, work, resets, faults, history>>

\* download_data answers, or the data was there already.
Download(w) ==
    /\ Goes(w, "download", "check")
    /\ \E i \in Items, answer \in {"success", "error", "skipped"} :
          /\ IsFirst(i, work[w].todo)
          /\ SetItem(i, answer)
          /\ work' = [work EXCEPT ![w].todo = @ \ {i}, ![w].failed = IF answer = "error" THEN TRUE ELSE @]
    /\ UNCHANGED <<status, memory, resets, faults, history>>

\* Mutant: failures of an earlier start are not counted.
CompleteAlways(w) ==
    /\ work[w].todo = {} /\ Goes(w, "check", "cleanup")
    /\ SetStatus("completed")
    /\ UNCHANGED <<item, memory, work, resets, faults, history>>

Complete(w) ==
    /\ work[w].todo = {} /\ Goes(w, "check", "cleanup")
    /\ SetStatus(IF work[w].failed THEN "completed_with_errors" ELSE "completed")
    /\ UNCHANGED <<item, memory, work, resets, faults, history>>

Stop(w) ==
    /\ Goes(w, "stopping", "cleanup")
    /\ SetStatus("cancelled")
    /\ UNCHANGED <<item, memory, work, resets, faults, history>>

\* Mutant: the event is forgotten.
CleanUpTracked(t) ==
    /\ Goes(t, "cleanup", "ended")
    /\ lock = "free"
    /\ tracked' = "none"
    /\ UNCHANGED <<rows, event, open, lock, work, resets, faults, history>>

\* _cleanup_job, by a worker at its end or by a request that cancels.  It takes the
\* lock, which does not let in a thread that holds it already.
CleanUp(t) ==
    /\ Goes(t, "cleanup", "ended")
    /\ lock = "free"
    /\ tracked' = "none" /\ event' = 0
    /\ UNCHANGED <<rows, open, lock, work, resets, faults, history>>

WorkerStep(w) ==
    \/ Begin(w) \/ Load(w) \/ Check(w) \/ Gate(w) \/ Wait(w)
    \/ StartItem(w) \/ Download(w) \/ Complete(w) \/ Stop(w) \/ CleanUp(w)

-----------------------------------------------------------------------------
(* The requests.  Each reads the job's status, and acts on it later. *)

Asks(u, allowed, to) ==
    /\ status \in allowed /\ Goes(u, "idle", to)
    /\ UNCHANGED <<rows, memory, work, faults, late>>

AskPause(u) == Asks(u, {"running"}, "pause") /\ UNCHANGED <<resets, torn>>
AskResume(u) == Asks(u, {"paused"}, "resume") /\ UNCHANGED <<resets, torn>>
AskCancel(u) == Asks(u, {"running", "paused"}, "cancel") /\ UNCHANGED <<resets, torn>>

\* Asked of every job that is not running, a paused one and a queued one too.
NotRunning == {"pending", "paused", "completed", "completed_with_errors", "failed", "cancelled"}
AskDelete(u) == Asks(u, NotRunning, "delete") /\ UNCHANGED <<resets, torn>>

Pause(u) ==
    /\ lock = "free" /\ Goes(u, "pause", "ended")
    /\ \/ /\ event \in open
          /\ open' = open \ {event}
          /\ SetStatus("paused")
          /\ late' = (late \/ \A w \in Workers : ~Busy(w))
       \/ event \notin open /\ UNCHANGED <<open, status, late>>
    /\ UNCHANGED <<item, tracked, event, lock, work, resets, faults, torn>>

Resume(u) ==
    /\ lock = "free" /\ Goes(u, "resume", "ended")
    /\ \/ /\ event # 0
          /\ open' = open \cup {event}
          /\ SetStatus("running")
          /\ late' = (late \/ \A w \in Workers : ~Busy(w))
       \/ event = 0 /\ UNCHANGED <<open, status, late>>
    /\ UNCHANGED <<item, tracked, event, lock, work, resets, faults, torn>>

\* The row is marked, then the worker is told, under the lock, and from within it
\* _cleanup_job is called.
MarkCancelled(u) ==
    /\ Goes(u, "cancel", "signal")
    /\ SetStatus("cancelled")
    /\ UNCHANGED <<item, memory, work, resets, faults, history>>

Signal(u) ==
    /\ lock = "free" /\ lock' = u
    /\ Goes(u, "signal", "cleanup")
    /\ tracked' = "stop" /\ open' = open \cup ({event} \ {0})
    /\ UNCHANGED <<rows, event, work, resets, faults, history>>

DeleteRows(u) ==
    /\ Goes(u, "delete", "ended")
    /\ status' = "deleted"
    /\ UNCHANGED <<item, memory, work, resets, faults, history>>

-----------------------------------------------------------------------------
(* Starting the job: create_and_start_job, retry_failed_items. *)

Starting(u) == at[u] \in {"reset", "submit"}
Starts == Cardinality({w \in Workers : at[w] # "idle"}) + Cardinality({u \in Users : Starting(u)})

Create(u) ==
    /\ status = "absent" /\ Goes(u, "idle", "submit")
    /\ status' = "pending"
    /\ UNCHANGED <<item, memory, work, resets, faults, history>>

AskRetry(u) == Asks(u, NotRunning, "list") /\ UNCHANGED <<resets, torn>>

NothingToRetry(u) ==
    /\ ItemsIn({"error"}) = {} /\ Goes(u, "list", "ended")
    /\ UNCHANGED <<rows, memory, work, resets, faults, history>>

ListErrors(u) ==
    /\ Starts < MaxStarts /\ ItemsIn({"error"}) # {}
    /\ Goes(u, "list", "reset")
    /\ resets' = [resets EXCEPT ![u] = ItemsIn({"error"})]
    /\ torn' = (torn \/ (\E w \in Workers : Live(w)) \/ \E v \in Users : Starting(v))
    /\ UNCHANGED <<rows, memory, work, faults, late>>

ResetItem(u) ==
    /\ at[u] = "reset"
    /\ \E i \in Items : IsFirst(i, resets[u]) /\ SetItem(i, "pending")
                                            /\ resets' = [resets EXCEPT ![u] = @ \ {i}]
    /\ UNCHANGED <<status, memory, at, work, faults, history>>

MarkPending(u) ==
    /\ resets[u] = {} /\ Goes(u, "reset", "submit")
    /\ SetStatus("pending")
    /\ UNCHANGED <<item, memory, work, resets, faults, history>>

\* The job is tracked anew, with a new event, and put to the pool, whatever other
\* thread it has.
Submit(u) ==
    /\ lock = "free"
    /\ \E w \in Workers :
          /\ IsFirst(w, {v \in Workers : at[v] = "idle"})
          /\ at[u] = "submit" /\ at' = [at EXCEPT ![u] = "ended", ![w] = "queued"]
          /\ tracked' = "go" /\ event' = w /\ open' = open \cup {w}
    /\ UNCHANGED <<rows, lock, work, resets, faults, history>>

UserStep(u) ==
    \/ AskPause(u) \/ AskResume(u) \/ AskCancel(u) \/ AskDelete(u) \/ AskRetry(u)
    \/ Pause(u) \/ Resume(u) \/ MarkCancelled(u) \/ Signal(u) \/ DeleteRows(u)
    \/ Create(u) \/ NothingToRetry(u) \/ ListErrors(u) \/ ResetItem(u) \/ MarkPending(u) \/ Submit(u) \/ CleanUp(u)

\* Mutant: jobs that were paused are left alone.
AfterRestartRunning(value) == IF value = "running" THEN "failed" ELSE value

\* cleanup_zombie_jobs: nothing is tracked in a new process.
AfterRestart(value) == IF value \in {"running", "paused"} THEN "failed" ELSE value

\* The process dies and starts again.
Restart ==
    /\ status # "absent" /\ faults < MaxFaults /\ faults' = faults + 1
    /\ at' = [t \in DOMAIN at |-> IF at[t] = "idle" THEN "idle" ELSE "ended"]
    /\ tracked' = "none" /\ event' = 0 /\ open' = {} /\ lock' = "free"
    /\ status' = AfterRestart(status)
    /\ torn' = (torn \/ \E u \in Users : Starting(u))
    /\ UNCHANGED <<item, work, resets, late>>

Next ==
    \/ \E w \in Workers : WorkerStep(w)
    \/ \E u \in Users : UserStep(u)
    \/ Restart

Spec == Init /\ [][Next]_vars

\* Threads run on.
FairSpec == Spec /\ \A w \in Workers : WF_vars(WorkerStep(w))
                /\ \A u \in Users : WF_vars(Signal(u) \/ CleanUp(u))

-----------------------------------------------------------------------------
\* Rows, memory and threads have their types; a job is tracked exactly when it has an
\* event, and the lock is held only by a request that cancels.
JobTypeOK ==
    /\ status \in NotRunning \cup {"absent", "running", "deleted"}
    /\ item \in [Items -> {"pending", "downloading", "success", "error", "skipped"}]
    /\ tracked \in {"none", "go", "stop"}
    /\ event \in Workers \cup {0} /\ open \subseteq Workers
    /\ lock \in Users \cup {"free"}
    /\ at \in [Workers \cup Users -> Steps]
    /\ work \in [Workers -> [todo : SUBSET Items, failed : BOOLEAN, event : Workers \cup {0}]]
    /\ resets \in [Users -> SUBSET Items]
    /\ faults \in 0 .. MaxFaults /\ torn \in BOOLEAN /\ late \in BOOLEAN
    /\ tracked = "go" <=> event # 0 /\ lock = "free"

\* A job that says it is done has no item left, and one that says so without errors
\* has none that failed, over all its starts, unless a retry met another thread of
\* the job or died half-way.
CompletedJobIsDone ==
    ~torn /\ (\A u \in Users : ~Starting(u)) =>
        /\ status \in {"completed", "completed_with_errors"} => ItemsIn({"pending", "downloading"}) = {}
        /\ status = "completed" => ItemsIn({"error"}) = {}

\* A job that says it is running or paused has a thread with the job in hand: the
\* status is what deletion and retry are refused by.  Except for a pause or resume
\* that lands when no thread has it.
ActiveJobHasAThread ==
    ~late /\ status \in {"running", "paused"} => \E w \in Workers : Busy(w)
=============================================================================
