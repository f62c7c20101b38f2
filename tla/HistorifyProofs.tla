--------------------------- MODULE HistorifyProofs ---------------------------
(* What holds of a download job for any items, requests, starts and faults. *)
EXTENDS HistorifyJobs, Integers, TLAPS

WorkType == [Workers -> [todo : SUBSET Items, failed : BOOLEAN, event : Workers \cup {0}]]

\* A job is created with nothing tracked and nobody at work.
LEMMA InitType == Init => JobTypeOK
<1> SUFFICES ASSUME Init PROVE JobTypeOK
  OBVIOUS
<1>1. at \in [Workers \cup Users -> Steps]
  BY DEF Init, Steps
<1>2. work \in [Workers -> [todo : SUBSET Items, failed : BOOLEAN, event : Workers \cup {0}]]
  BY DEF Init, NothingRead
<1>3. /\ resets \in [Users -> SUBSET Items]
      /\ item \in [Items -> {"pending", "downloading", "success", "error", "skipped"}]
  BY DEF Init
<1>4. faults \in 0 .. MaxFaults /\ tracked = "none" /\ event = 0 /\ lock = "free"
  BY HistorifyAssumption DEF Init
<1> QED BY <1>1, <1>2, <1>3, <1>4 DEF Init, JobTypeOK

\* A worker's step keeps the types.
LEMMA WorkerKeepsType ==
    ASSUME JobTypeOK, NEW w \in Workers, WorkerStep(w)
    PROVE  JobTypeOK'
<1> USE DEF JobTypeOK, NotRunning
<1> DEFINE move(to) == at' = [at EXCEPT ![w] = to]
<1>0. \A to \in Steps : move(to) => at' \in [Workers \cup Users -> Steps]
  OBVIOUS
<1> HIDE DEF move
<1>1. CASE Begin(w)
  <2>1. \E to \in {"load", "ended"} : move(to)
    BY <1>1 DEF Begin, Goes, move
  <2>2. at' \in [Workers \cup Users -> Steps]
    BY <2>1, <1>0 DEF Steps
  <2> QED BY <1>1, <2>2, HistorifyAssumption DEF Begin, SetStatus, memory, history
<1>2. CASE Load(w)
  <2>1. \E to \in {"check", "ended", "cleanup"} : move(to)
    BY <1>2 DEF Load, Goes, move
  <2>2. at' \in [Workers \cup Users -> Steps]
    BY <2>1, <1>0 DEF Steps
  <2>3. work' \in [Workers -> [todo : SUBSET Items, failed : BOOLEAN, event : Workers \cup {0}]]
    BY <1>2 DEF Load, ItemsIn
  <2> QED BY <1>2, <2>2, <2>3, HistorifyAssumption DEF Load, SetStatus, memory, history
<1>3. CASE Check(w)
  <2>1. \E to \in {"gate", "stopping"} : move(to)
    BY <1>3 DEF Check, Goes, move
  <2>2. at' \in [Workers \cup Users -> Steps]
    BY <2>1, <1>0 DEF Steps
  <2>3. work' \in [Workers -> [todo : SUBSET Items, failed : BOOLEAN, event : Workers \cup {0}]]
    BY <1>3 DEF Check
  <2>4. UNCHANGED <<rows, memory, resets, faults, history>>
    BY <1>3 DEF Check
  <2> QED BY <2>2, <2>3, <2>4 DEF rows, memory, history
<1>4. CASE Gate(w) \/ Wait(w)
  <2>1. \E to \in {"start", "wait", "gate", "stopping"} : move(to)
    BY <1>4 DEF Gate, Wait, Goes, move
  <2>2. at' \in [Workers \cup Users -> Steps]
    BY <2>1, <1>0 DEF Steps
  <2> QED BY <1>4, <2>2 DEF Gate, Wait, rows, memory, history
<1>5. CASE StartItem(w)
  <2>1. move("download")
    BY <1>5 DEF StartItem, Goes, move
  <2>2. at' \in [Workers \cup Users -> Steps]
    BY <2>1, <1>0 DEF Steps
  <2> QED BY <1>5, <2>2 DEF StartItem, SetItem, memory, history
<1>6. CASE Download(w)
  <2>1. move("check")
    BY <1>6 DEF Download, Goes, move
  <2>2. at' \in [Workers \cup Users -> Steps]
    BY <2>1, <1>0 DEF Steps
  <2>3. PICK i \in Items, answer \in {"success", "error", "skipped"} :
          work' = [work EXCEPT ![w].todo = @ \ {i}, ![w].failed = IF answer = "error" THEN TRUE ELSE @]
    BY <1>6 DEF Download
  <2>4. ASSUME answer = "error" PROVE work' \in WorkType
    <3>1. work' = [work EXCEPT ![w].todo = @ \ {i}, ![w].failed = TRUE]
      BY <2>3, <2>4
    <3> QED BY <3>1 DEF WorkType
  <2>5. ASSUME answer # "error" PROVE work' \in WorkType
    <3>1. work' = [work EXCEPT ![w].todo = @ \ {i}, ![w].failed = @]
      BY <2>3, <2>5
    <3> QED BY <3>1 DEF WorkType
  <2>6. work' \in [Workers -> [todo : SUBSET Items, failed : BOOLEAN, event : Workers \cup {0}]]
    BY <2>4, <2>5 DEF WorkType
  <2> QED BY <1>6, <2>2, <2>6 DEF Download, SetItem, memory, history
<1>7. CASE Complete(w) \/ Stop(w)
  <2>1. move("cleanup")
    BY <1>7 DEF Complete, Stop, Goes, move
  <2>2. at' \in [Workers \cup Users -> Steps]
    BY <2>1, <1>0 DEF Steps
  <2> QED BY <1>7, <2>2 DEF Complete, Stop, SetStatus, memory, history
<1>8. CASE CleanUp(w)
  <2>1. move("ended")
    BY <1>8 DEF CleanUp, Goes, move
  <2>2. at' \in [Workers \cup Users -> Steps]
    BY <2>1, <1>0 DEF Steps
  <2> QED BY <1>8, <2>2 DEF CleanUp, rows, history
<1> QED BY <1>1, <1>2, <1>3, <1>4, <1>5, <1>6, <1>7, <1>8 DEF WorkerStep

\* A request's step keeps the types.
LEMMA UserKeepsType ==
    ASSUME JobTypeOK, NEW u \in Users, UserStep(u)
    PROVE  JobTypeOK'
<1> USE DEF JobTypeOK, NotRunning
<1> DEFINE move(to) == at' = [at EXCEPT ![u] = to]
<1>0. \A to \in Steps : move(to) => at' \in [Workers \cup Users -> Steps]
  OBVIOUS
<1> HIDE DEF move
<1>1. CASE \E to \in {"pause", "resume", "cancel", "delete", "list"} : Asks(u, NotRunning \cup {"running"}, to) /\ UNCHANGED <<resets, torn>>
  <2>1. \E to \in {"pause", "resume", "cancel", "delete", "list"} : move(to)
    BY <1>1 DEF Asks, Goes, move
  <2>2. at' \in [Workers \cup Users -> Steps]
    BY <2>1, <1>0 DEF Steps
  <2> QED BY <1>1, <2>2 DEF Asks, rows, memory
<1>2. CASE ListErrors(u)
  <2>1. move("reset") /\ UNCHANGED <<rows, memory, work, faults, late>>
    BY <1>2 DEF ListErrors, Goes, move
  <2>2. at' \in [Workers \cup Users -> Steps]
    BY <2>1, <1>0 DEF Steps
  <2>3. resets' \in [Users -> SUBSET Items] /\ torn' \in BOOLEAN
    BY <1>2 DEF ListErrors, ItemsIn
  <2> QED BY <2>1, <2>2, <2>3 DEF rows, memory
<1>3. CASE Pause(u) \/ Resume(u)
  <2>1. move("ended")
    BY <1>3 DEF Pause, Resume, Goes, move
  <2>2. at' \in [Workers \cup Users -> Steps]
    BY <2>1, <1>0 DEF Steps
  <2>3. open' \subseteq Workers
    BY <1>3, HistorifyAssumption DEF Pause, Resume
  <2> QED BY <1>3, <2>2, <2>3 DEF Pause, Resume, SetStatus
<1>4. CASE MarkCancelled(u) \/ DeleteRows(u) \/ Create(u) \/ MarkPending(u)
  <2>1. \E to \in {"signal", "ended", "submit"} : move(to)
    BY <1>4 DEF MarkCancelled, DeleteRows, Create, MarkPending, Goes, move
  <2>2. at' \in [Workers \cup Users -> Steps]
    BY <2>1, <1>0 DEF Steps
  <2> QED BY <1>4, <2>2 DEF MarkCancelled, DeleteRows, Create, MarkPending, SetStatus, memory, history
<1>5. CASE Signal(u)
  <2>1. move("cleanup")
    BY <1>5 DEF Signal, Goes, move
  <2>2. at' \in [Workers \cup Users -> Steps]
    BY <2>1, <1>0 DEF Steps
  <2>3. lock' # "free" /\ tracked' = "stop" /\ open' \subseteq Workers
    BY <1>5, HistorifyAssumption DEF Signal
  <2> QED BY <1>5, <2>2, <2>3 DEF Signal, rows, history
<1>6. CASE ResetItem(u)
  BY <1>6 DEF ResetItem, SetItem, memory, history
<1>7. CASE Submit(u)
  <2>1. PICK w \in Workers : /\ at' = [at EXCEPT ![u] = "ended", ![w] = "queued"]
                             /\ tracked' = "go" /\ event' = w /\ open' = open \cup {w}
    BY <1>7 DEF Submit
  <2>2. at' \in [Workers \cup Users -> Steps]
    BY <2>1 DEF Steps
  <2>3. event' # 0
    BY <2>1, HistorifyAssumption DEF Workers
  <2> QED BY <1>7, <2>1, <2>2, <2>3 DEF Submit, rows, history
<1>8. CASE CleanUp(u) \/ NothingToRetry(u)
  <2>1. move("ended")
    BY <1>8 DEF CleanUp, NothingToRetry, Goes, move
  <2>2. at' \in [Workers \cup Users -> Steps]
    BY <2>1, <1>0 DEF Steps
  <2> QED BY <1>8, <2>2 DEF CleanUp, NothingToRetry, rows, memory, history
<1>9. AskPause(u) \/ AskResume(u) \/ AskCancel(u) \/ AskDelete(u) \/ AskRetry(u)
      => \E to \in {"pause", "resume", "cancel", "delete", "list"} :
            Asks(u, NotRunning \cup {"running"}, to) /\ UNCHANGED <<resets, torn>>
  BY DEF AskPause, AskResume, AskCancel, AskDelete, AskRetry, Asks
<1> QED BY <1>1, <1>2, <1>3, <1>4, <1>5, <1>6, <1>7, <1>8, <1>9 DEF UserStep

\* A restart keeps the types.
LEMMA RestartKeepsType ==
    ASSUME JobTypeOK, Restart
    PROVE  JobTypeOK'
<1>1. at' \in [Workers \cup Users -> Steps]
  BY DEF JobTypeOK, Restart, Steps
<1>2. status' \in NotRunning \cup {"absent", "running", "deleted"}
  BY DEF JobTypeOK, Restart, AfterRestart, NotRunning
<1>3. faults' \in 0 .. MaxFaults
  BY HistorifyAssumption DEF JobTypeOK, Restart
<1> QED
  BY <1>1, <1>2, <1>3 DEF JobTypeOK, Restart

\* Every step keeps the types.
LEMMA StepKeepsType ==
    ASSUME JobTypeOK, [Next]_vars
    PROVE  JobTypeOK'
<1>1. CASE UNCHANGED vars
  BY <1>1 DEF vars, rows, memory, history, JobTypeOK
<1> QED
  BY <1>1, WorkerKeepsType, UserKeepsType, RestartKeepsType DEF Next

\* The rows, the memory and the threads of a job have their types, whatever the
\* requests, starts and faults (historify_service).
THEOREM JobTypes == Spec => []JobTypeOK
BY InitType, StepKeepsType, PTL DEF Spec

-----------------------------------------------------------------------------
\* A worker's step leaves an active job a thread that has it in hand: the worker,
\* unless it writes that the job is over or had not begun with it.
LEMMA WorkerLeavesAThread ==
    ASSUME JobTypeOK, ActiveJobHasAThread, NEW w \in Workers, WorkerStep(w)
    PROVE  ActiveJobHasAThread'
<1> SUFFICES ASSUME ~late', status' \in {"running", "paused"}
             PROVE  \E v \in Workers : Busy(v)'
  BY DEF ActiveJobHasAThread
<1>0. at \in [Workers \cup Users -> Steps] /\ late' = late
  BY DEF JobTypeOK, WorkerStep, Begin, Load, Check, Gate, Wait, StartItem, Download, Complete, Stop,
         CleanUp, history
<1>1. ASSUME at'[w] \in Steps \ {"idle", "queued", "cleanup", "ended"} PROVE Busy(w)'
  BY <1>1 DEF Busy
<1>2. ASSUME status' = status, ~Busy(w), \A v \in Workers \ {w} : at'[v] = at[v]
      PROVE  \E v \in Workers : Busy(v)'
  BY <1>0, <1>2 DEF ActiveJobHasAThread, Busy
<1>3. CASE Begin(w)
  <2>1. CASE Goes(w, "queued", "load")
    BY <1>0, <1>1, <2>1 DEF Goes, Steps
  <2>2. CASE Goes(w, "queued", "ended") /\ UNCHANGED status
    <3>1. at[w] = "queued" /\ \A v \in Workers \ {w} : at'[v] = at[v]
      BY <1>0, <2>2 DEF Goes
    <3> QED BY <1>2, <2>2, <3>1 DEF Busy
  <2> QED BY <1>3, <2>1, <2>2 DEF Begin
<1>4. CASE Load(w)
  <2>1. CASE Goes(w, "load", "check")
    BY <1>0, <1>1, <2>1 DEF Goes, Steps
  <2>2. CASE status = "deleted" /\ UNCHANGED status
    BY <2>2
  <2>3. CASE SetStatus("failed")
    BY <2>3 DEF SetStatus
  <2> QED BY <1>4, <2>1, <2>2, <2>3 DEF Load
<1>5. CASE Check(w) \/ Gate(w) \/ Wait(w) \/ StartItem(w) \/ Download(w)
  <2>1. \E from, to \in {"check", "gate", "wait", "start", "download", "stopping"} : Goes(w, from, to)
    BY <1>5 DEF Check, Gate, Wait, StartItem, Download
  <2> QED BY <1>0, <1>1, <2>1 DEF Goes, Steps
<1>6. CASE Complete(w) \/ Stop(w)
  BY <1>6 DEF Complete, Stop, SetStatus
<1>7. CASE CleanUp(w)
  <2>1. at[w] = "cleanup" /\ \A v \in Workers \ {w} : at'[v] = at[v]
    BY <1>0, <1>7 DEF CleanUp, Goes
  <2> QED BY <1>2, <1>7, <2>1 DEF CleanUp, Busy, rows
<1> QED BY <1>3, <1>4, <1>5, <1>6, <1>7 DEF WorkerStep

\* A request that makes the job active finds a thread that has it in hand, or is late.
LEMMA UserFindsAThread ==
    ASSUME JobTypeOK, ActiveJobHasAThread, NEW u \in Users, UserStep(u)
    PROVE  ActiveJobHasAThread'
<1> SUFFICES ASSUME ~late', status' \in {"running", "paused"}
             PROVE  \E v \in Workers : Busy(v)'
  BY DEF ActiveJobHasAThread
<1>0. at \in [Workers \cup Users -> Steps] /\ u \notin Workers
  BY HistorifyAssumption DEF JobTypeOK
<1>1. ASSUME \A v \in Workers : Busy(v) => at'[v] = at[v], \E v \in Workers : Busy(v)
      PROVE  \E v \in Workers : Busy(v)'
  BY <1>0, <1>1 DEF Busy
<1>2. \A v \in Workers : Busy(v) => at'[v] = at[v]
  <2>1. CASE Submit(u)
    <3>1. PICK w \in Workers : at[w] = "idle" /\ at' = [at EXCEPT ![u] = "ended", ![w] = "queued"]
      BY <2>1 DEF Submit, IsFirst
    <3> QED BY <1>0, <3>1 DEF Busy
  <2>2. CASE UNCHANGED at
    BY <2>2
  <2>3. CASE \E from, to : Goes(u, from, to)
    BY <1>0, <2>3 DEF Goes
  <2> QED
    BY <2>1, <2>2, <2>3 DEF UserStep, AskPause, AskResume, AskCancel, AskDelete, AskRetry, Asks, NothingToRetry, ListErrors, Pause,
       Resume, MarkCancelled, Signal, DeleteRows, Create, ResetItem, MarkPending, CleanUp
<1>3. CASE Pause(u) \/ Resume(u)
  <2>1. CASE late' = (late \/ \A w \in Workers : ~Busy(w))
    BY <1>1, <1>2, <2>1
  <2>2. CASE UNCHANGED <<status, late>>
    BY <1>1, <1>2, <2>2 DEF ActiveJobHasAThread
  <2> QED BY <1>3, <2>1, <2>2 DEF Pause, Resume
<1>4. CASE MarkCancelled(u) \/ DeleteRows(u) \/ Create(u) \/ MarkPending(u)
  BY <1>4 DEF MarkCancelled, DeleteRows, Create, MarkPending, SetStatus
<1>5. CASE UNCHANGED <<status, late>>
  BY <1>1, <1>2, <1>5 DEF ActiveJobHasAThread
<1>6. UNCHANGED <<status, late>> \/ Pause(u) \/ Resume(u) \/ MarkCancelled(u) \/ DeleteRows(u)
      \/ Create(u) \/ MarkPending(u)
  BY DEF UserStep, AskPause, AskResume, AskCancel, AskDelete, AskRetry, Asks, NothingToRetry, ListErrors, Signal, ResetItem, Submit,
     CleanUp, rows, history
<1> QED BY <1>3, <1>4, <1>5, <1>6

JobInv == JobTypeOK /\ ActiveJobHasAThread

\* The invariant holds at first and is kept: a restart leaves no job active.
LEMMA JobInvHolds == Spec => []JobInv
<1>1. Init => JobInv
  BY InitType DEF Init, JobInv, ActiveJobHasAThread
<1>2. JobInv /\ [Next]_vars => JobInv'
  <2> SUFFICES ASSUME JobInv, [Next]_vars PROVE JobInv'
    OBVIOUS
  <2>1. CASE UNCHANGED vars
    BY <2>1 DEF vars, rows, memory, history, JobInv, JobTypeOK, ActiveJobHasAThread, Busy
  <2>2. CASE Restart
    BY <2>2, RestartKeepsType DEF Restart, AfterRestart, JobInv, ActiveJobHasAThread
  <2> QED
    BY <2>1, <2>2, StepKeepsType, WorkerLeavesAThread, UserFindsAThread DEF Next, JobInv
<1> QED BY <1>1, <1>2, PTL DEF Spec

\* Unless a pause or resume lands when no thread has the job in hand, a job that says
\* it is running or paused has a thread to go on with it, whatever retries, crashes
\* and failing reads there are (_process_download_job_inner, cleanup_zombie_jobs).
THEOREM ActiveJobs == Spec => []ActiveJobHasAThread
BY JobInvHolds, PTL DEF JobInv

-----------------------------------------------------------------------------
Completed == {"completed", "completed_with_errors"}
AtItems(w) == at[w] \in {"check", "gate", "wait", "start", "download"}

\* A job is put to the pool by one request at a time, with no thread of it left.
Alone ==
    /\ status = "absent" => \A t \in Workers \cup Users : ~Live(t) /\ ~Starting(t)
    /\ ~torn =>
         /\ \A v, w \in Workers : Live(v) /\ Live(w) => v = w
         /\ \A t, u \in Users : Starting(t) /\ Starting(u) => t = u
         /\ \A u \in Users, w \in Workers : ~(Starting(u) /\ Live(w))

\* The thread knows of every item that is left, and whether one has failed.
KnowsItems ==
    ~torn /\ status # "deleted" =>
        \A w \in Workers : AtItems(w) =>
            /\ ItemsIn({"pending", "downloading"}) \subseteq work[w].todo
            /\ ItemsIn({"error"}) # {} => work[w].failed

\* Until the thread says so, or the request that starts it, the job is not done.
NotYetDone ==
    ~torn => /\ \A w \in Workers : Live(w) /\ status \in Completed => at[w] = "cleanup"
             /\ \A u \in Users : at[u] = "submit" => status \notin Completed

DoneInv == JobTypeOK /\ Alone /\ KnowsItems /\ NotYetDone /\ CompletedJobIsDone

Threads == Workers \cup Users

\* The job has begun by the time anything but its creation happens.
LEMMA JobExists ==
    ASSUME JobTypeOK, Alone, Next
    PROVE  status' # "absent" /\ (status = "absent" => \E u \in Users : Create(u))
<1>1. ASSUME NEW t \in Threads, Live(t) PROVE status # "absent"
  BY <1>1 DEF Alone, Threads
<1>2. CASE \E w \in Workers : WorkerStep(w)
  <2>1. PICK w \in Workers : WorkerStep(w)
    BY <1>2
  <2>2. Live(w)
    BY <2>1 DEF WorkerStep, Begin, Load, Check, Gate, Wait, StartItem, Download, Complete, Stop, CleanUp,
                Goes, Live
  <2>3. status # "absent"
    BY <1>1, <2>2 DEF Threads
  <2> QED
    BY <2>1, <2>3 DEF WorkerStep, Begin, Load, Check, Gate, Wait, StartItem, Download, Complete, Stop,
                      CleanUp, SetStatus, rows
<1>3. CASE \E u \in Users : UserStep(u)
  <2>1. PICK u \in Users : UserStep(u)
    BY <1>3
  <2>2. CASE Create(u)
    BY <2>2 DEF Create
  <2>3. CASE \E allowed \in {NotRunning, {"running"}, {"paused"}, {"running", "paused"}} : status \in allowed /\ UNCHANGED rows
    BY <2>3 DEF NotRunning, rows
  <2>4. CASE Pause(u) \/ Resume(u) \/ MarkCancelled(u) \/ Signal(u) \/ DeleteRows(u) \/ ResetItem(u)
             \/ MarkPending(u) \/ Submit(u) \/ CleanUp(u) \/ NothingToRetry(u) \/ ListErrors(u)
    <3>1. Live(u)
      BY <2>4 DEF NothingToRetry, ListErrors, Pause, Resume, MarkCancelled, Signal, DeleteRows, ResetItem, MarkPending, Submit, CleanUp,
                  Goes, Live
    <3>2. status # "absent"
      BY <1>1, <3>1 DEF Threads
    <3> QED
      BY <2>4, <3>2 DEF NothingToRetry, ListErrors, Pause, Resume, MarkCancelled, Signal, DeleteRows, ResetItem, MarkPending, Submit,
                        CleanUp, SetStatus, rows
  <2> QED
    BY <2>1, <2>2, <2>3, <2>4 DEF UserStep, AskPause, AskResume, AskCancel, AskDelete, AskRetry, Asks
<1>4. CASE Restart
  BY <1>4 DEF Restart, AfterRestart
<1> QED BY <1>2, <1>3, <1>4 DEF Next

\* Threads that end or go on leave a job as much to itself as it was.
LEMMA AloneUnlessStarted ==
    ASSUME Alone, torn => torn', status' # "absent",
           \A w \in Workers : Live(w)' => Live(w),
           ~torn' => \A u \in Users : Starting(u)' => Starting(u)
    PROVE  Alone'
BY DEF Alone

\* A job is put to the pool by one request at a time, in every step.
LEMMA StepKeepsAlone ==
    ASSUME JobTypeOK, Alone, Next
    PROVE  Alone'
<1>0. at \in [Workers \cup Users -> Steps] /\ Workers \cap Users = {} /\ status' # "absent"
  BY HistorifyAssumption, JobExists DEF JobTypeOK
<1>1. CASE \E w \in Workers : WorkerStep(w)
  <2>1. PICK w \in Workers : WorkerStep(w)
    BY <1>1
  <2>2. Live(w) /\ torn' = torn /\ \E from, to : Goes(w, from, to)
    BY <2>1 DEF WorkerStep, Begin, Load, Check, Gate, Wait, StartItem, Download, Complete, Stop, CleanUp,
                Goes, Live, history
  <2>3. \A t \in Workers \cup Users : t # w => at'[t] = at[t]
    BY <1>0, <2>2 DEF Goes
  <2>4. /\ \A v \in Workers : Live(v)' => Live(v)
        /\ \A u \in Users : Starting(u)' => Starting(u)
    BY <1>0, <2>2, <2>3 DEF Live, Starting
  <2> QED BY <1>0, <2>2, <2>4, AloneUnlessStarted
<1>2. CASE \E u \in Users : UserStep(u)
  <2>1. PICK u \in Users : UserStep(u)
    BY <1>2
  <2>2. CASE Create(u) \/ ListErrors(u)
    <3>1. PICK to \in {"submit", "reset"} : at' = [at EXCEPT ![u] = to]
      BY <2>2 DEF Create, ListErrors, Goes
    <3>2. (torn => torn') /\ (~torn' => (\A w \in Workers : ~Live(w)) /\ \A v \in Users : ~Starting(v))
      <4>1. CASE Create(u)
        BY <4>1 DEF Create, Alone, history
      <4>2. CASE ListErrors(u)
        BY <4>2 DEF ListErrors
      <4> QED BY <2>2, <4>1, <4>2
    <3>3. \A w \in Workers : Live(w)' <=> Live(w)
      BY <1>0, <3>1 DEF Live
    <3>4. \A v \in Users : Starting(v)' => v = u \/ Starting(v)
      BY <1>0, <3>1 DEF Starting
    <3> QED BY <1>0, <3>2, <3>3, <3>4 DEF Alone
  <2>3. CASE Submit(u)
    <3>1. PICK w \in Workers : at[w] = "idle" /\ at' = [at EXCEPT ![u] = "ended", ![w] = "queued"]
      BY <2>3 DEF Submit, IsFirst
    <3>2. Starting(u) /\ torn' = torn
      BY <2>3 DEF Submit, Starting, history
    <3>3. ~torn => \A v \in Workers : Live(v)' => v = w
      BY <1>0, <3>1, <3>2 DEF Alone, Live
    <3>4. ~torn => \A v \in Users : ~Starting(v)'
      BY <1>0, <3>1, <3>2 DEF Alone, Starting
    <3> QED BY <1>0, <3>2, <3>3, <3>4 DEF Alone
  <2>4. CASE \/ ResetItem(u) \/ MarkPending(u) \/ AskPause(u) \/ AskResume(u) \/ AskCancel(u) \/ AskDelete(u)
             \/ AskRetry(u) \/ NothingToRetry(u) \/ Pause(u) \/ Resume(u) \/ MarkCancelled(u) \/ Signal(u) \/ DeleteRows(u) \/ CleanUp(u)
    <3>1. /\ torn' = torn /\ \A w \in Workers : at'[w] = at[w]
          /\ \A v \in Users \ {u} : at'[v] = at[v]
          /\ at'[u] \in {"reset", "submit"} => at[u] = "reset"
      BY <1>0, <2>4 DEF ResetItem, MarkPending, AskPause, AskResume, AskCancel, AskDelete, AskRetry,
                        NothingToRetry, Asks, Pause, Resume,
                        MarkCancelled, Signal, DeleteRows, CleanUp, Goes, history
    <3> QED BY <1>0, <3>1, AloneUnlessStarted DEF Live, Starting
  <2> QED BY <2>1, <2>2, <2>3, <2>4 DEF UserStep
<1>3. CASE Restart
  <2>1. (torn => torn') /\ \A t \in Workers \cup Users : at'[t] \in {"idle", "ended"}
    BY <1>0, <1>3 DEF Restart
  <2> QED BY <1>0, <2>1, AloneUnlessStarted DEF Live, Starting
<1> QED BY <1>1, <1>2, <1>3 DEF Next

Left == ItemsIn({"pending", "downloading"})
Errors == ItemsIn({"error"})

\* While a thread of an untorn job is at work only it counts.
LEMMA OneThreadCounts ==
    ASSUME DoneInv, NEW w \in Workers, Live(w), ~torn,
           UNCHANGED torn, \A t \in Workers \cup Users : t # w => at'[t] = at[t],
           status' # "deleted" /\ AtItems(w)' => Left' \subseteq work'[w].todo /\ (Errors' # {} => work'[w].failed),
           Live(w)' /\ status' \in Completed => at'[w] = "cleanup",
           status' \in Completed => Left' = {},
           status' = "completed" => Errors' = {}
    PROVE  (KnowsItems /\ NotYetDone /\ CompletedJobIsDone)'
<1>1. w \notin Users
  BY HistorifyAssumption
<1>2. \A v \in Workers \ {w} : ~Live(v)'
  BY DEF DoneInv, Alone, Live
<1>3. \A u \in Users : ~Starting(u)'
  BY <1>1 DEF DoneInv, Alone, Starting
<1>4. KnowsItems'
  BY <1>2 DEF KnowsItems, AtItems, Live, Left, Errors
<1>5. NotYetDone'
  BY <1>2, <1>3 DEF NotYetDone, Starting
<1>6. CompletedJobIsDone'
  BY <1>3 DEF CompletedJobIsDone, Left, Errors, Completed
<1> QED BY <1>4, <1>5, <1>6

\* A worker keeps count of the items, and says that the job is done when it is.
LEMMA WorkerKeepsCount ==
    ASSUME DoneInv, NEW w \in Workers, WorkerStep(w)
    PROVE  (KnowsItems /\ NotYetDone /\ CompletedJobIsDone)'
<1>1. torn' = torn
  BY DEF WorkerStep, Begin, Load, Check, Gate, Wait, StartItem, Download, Complete, Stop, CleanUp, history
<1>2. CASE torn
  BY <1>1, <1>2 DEF KnowsItems, NotYetDone, CompletedJobIsDone
<1>3. CASE ~torn
  <2>1. Live(w) /\ \E from, to : Goes(w, from, to)
    BY DEF WorkerStep, Begin, Load, Check, Gate, Wait, StartItem, Download, Complete, Stop, CleanUp, Goes, Live
  <2>2. at \in [Workers \cup Users -> Steps] /\ work \in WorkType
    BY DEF DoneInv, JobTypeOK, WorkType
  <2>3. \A t \in Workers \cup Users : t # w => at'[t] = at[t]
    BY <2>1, <2>2 DEF Goes
  <2>4. at[w] # "cleanup" => status \notin Completed
    BY <1>3, <2>1 DEF DoneInv, NotYetDone
  <2>5. status # "deleted" /\ AtItems(w) => Left \subseteq work[w].todo /\ (Errors # {} => work[w].failed)
    BY <1>3 DEF DoneInv, KnowsItems, Left, Errors
  <2> DEFINE Goal == /\ (status' # "deleted" /\ AtItems(w)' =>
                            Left' \subseteq work'[w].todo /\ (Errors' # {} => work'[w].failed))
                     /\ (Live(w)' /\ status' \in Completed => at'[w] = "cleanup")
                     /\ (status' \in Completed => Left' = {})
                     /\ (status' = "completed" => Errors' = {})
  <2> SUFFICES Goal
    BY <1>1, <1>3, <2>1, <2>3, OneThreadCounts
  <2>6. CASE Begin(w)
    BY <2>2, <2>4, <2>6 DEF Begin, Goes, SetStatus, AtItems, Completed
  <2>7. CASE Load(w)
    <3>1. CASE Goes(w, "load", "check") /\ work' = [work EXCEPT ![w].todo = Left, ![w].failed = Errors # {}]
      <4>1. status' = status /\ item' = item
        BY <2>2, <2>7, <3>1 DEF Load, SetStatus, Goes, rows
      <4> QED BY <2>2, <2>4, <3>1, <4>1 DEF Goes, WorkType, Left, Errors, ItemsIn, Completed
    <3>2. CASE \E to \in {"cleanup", "ended"} : Goes(w, "load", to)
      BY <2>2, <2>4, <2>7, <3>2 DEF Load, Goes, SetStatus, AtItems, Completed
    <3> QED BY <2>7, <3>1, <3>2 DEF Load, Left, Errors
  <2>8. CASE Check(w) \/ Gate(w) \/ Wait(w)
    <3>1. /\ AtItems(w) /\ status' = status /\ item' = item
          /\ work'[w].todo = work[w].todo /\ work'[w].failed = work[w].failed
      BY <2>2, <2>8 DEF Check, Gate, Wait, Goes, AtItems, rows, WorkType
    <3>2. at[w] # "cleanup"
      BY <3>1 DEF AtItems
    <3> QED BY <2>4, <2>5, <3>1, <3>2 DEF Left, Errors, ItemsIn, Completed
  <2>9. CASE StartItem(w)
    <3>1. PICK i \in work[w].todo : SetItem(i, "downloading")
      BY <2>9 DEF StartItem, IsFirst
    <3>2. AtItems(w) /\ status' = status /\ work' = work
      BY <2>9 DEF StartItem, Goes, AtItems
    <3>3. item \in [Items -> {"pending", "downloading", "success", "error", "skipped"}]
      BY DEF DoneInv, JobTypeOK
    <3>4. status # "deleted" => Left' \subseteq Left \cup {i} /\ Errors' \subseteq Errors
      BY <3>1, <3>3 DEF SetItem, Left, Errors, ItemsIn
    <3>5. at[w] # "cleanup"
      BY <3>2 DEF AtItems
    <3> QED BY <2>4, <2>5, <3>1, <3>2, <3>4, <3>5 DEF Completed
  <2>10. CASE Download(w)
    <3>1. PICK i \in Items, answer \in {"success", "error", "skipped"} :
            /\ SetItem(i, answer)
            /\ work' = [work EXCEPT ![w].todo = @ \ {i}, ![w].failed = IF answer = "error" THEN TRUE ELSE @]
      BY <2>10 DEF Download
    <3>2. AtItems(w) /\ status' = status
      BY <2>10 DEF Download, Goes, AtItems
    <3>3. item \in [Items -> {"pending", "downloading", "success", "error", "skipped"}]
      BY DEF DoneInv, JobTypeOK
    <3>4. status # "deleted" => Left' \subseteq Left \ {i} /\ (answer # "error" => Errors' \subseteq Errors)
      BY <3>1, <3>3 DEF SetItem, Left, Errors, ItemsIn
    <3>5. work'[w].todo = work[w].todo \ {i} /\ (answer = "error" => work'[w].failed)
      BY <2>2, <3>1 DEF WorkType
    <3>6. answer # "error" => work'[w].failed = work[w].failed
      BY <2>2, <3>1 DEF WorkType
    <3>7. at[w] # "cleanup"
      BY <3>2 DEF AtItems
    <3> QED BY <2>4, <2>5, <3>2, <3>4, <3>5, <3>6, <3>7 DEF Completed
  <2>11. CASE Complete(w)
    <3>1. at'[w] = "cleanup" /\ AtItems(w) /\ work[w].todo = {} /\ item' = item
      BY <2>2, <2>11 DEF Complete, Goes, AtItems
    <3>2. status # "deleted" => Left = {} /\ (Errors # {} => work[w].failed)
      BY <2>5, <3>1
    <3> QED BY <2>11, <3>1, <3>2 DEF Complete, SetStatus, Left, Errors, ItemsIn, Completed, AtItems
  <2>12. CASE Stop(w)
    BY <2>2, <2>12 DEF Stop, Goes, SetStatus, AtItems, Completed
  <2>13. CASE CleanUp(w)
    <3>1. at'[w] = "ended" /\ status' = status /\ item' = item
      BY <2>2, <2>13 DEF CleanUp, Goes, rows
    <3>2. \A u \in Users : ~Starting(u)
      BY <1>3, <2>1 DEF DoneInv, Alone
    <3>3. (status \in Completed => Left = {}) /\ (status = "completed" => Errors = {})
      BY <1>3, <3>2 DEF DoneInv, CompletedJobIsDone, Completed, Left, Errors
    <3> QED BY <3>1, <3>3 DEF Left, Errors, ItemsIn, AtItems, Live
  <2> QED
    BY <2>6, <2>7, <2>8, <2>9, <2>10, <2>11, <2>12, <2>13 DEF WorkerStep
<1> QED BY <1>2, <1>3 DEF DoneInv, JobTypeOK

\* A request that starts the job has it to itself, and the others leave the items.
LEMMA UserKeepsCount ==
    ASSUME DoneInv, Alone', NEW u \in Users, UserStep(u)
    PROVE  (KnowsItems /\ NotYetDone /\ CompletedJobIsDone)'
<1>0. at \in [Workers \cup Users -> Steps] /\ u \notin Workers /\ torn \in BOOLEAN /\ (torn => torn')
  <2>1. at \in [Workers \cup Users -> Steps] /\ u \notin Workers /\ torn \in BOOLEAN
    BY HistorifyAssumption DEF DoneInv, JobTypeOK
  <2>2. torn => torn'
    BY DEF UserStep, AskPause, AskResume, AskCancel, AskDelete, AskRetry, Asks, NothingToRetry, ListErrors, Pause, Resume, MarkCancelled,
           Signal, DeleteRows, Create, ResetItem, MarkPending, Submit, CleanUp, history
  <2> QED BY <2>1, <2>2
<1>1. CASE torn'
  BY <1>1 DEF KnowsItems, NotYetDone, CompletedJobIsDone
<1> SUFFICES ASSUME ~torn' PROVE (KnowsItems /\ NotYetDone /\ CompletedJobIsDone)'
  BY <1>0, <1>1
<1>2. ~torn
  BY <1>0
<1>3. CASE Submit(u)
  <2>1. PICK w \in Workers : at[w] = "idle" /\ at' = [at EXCEPT ![u] = "ended", ![w] = "queued"]
    BY <1>3 DEF Submit, IsFirst
  <2>2. at[u] = "submit" /\ item' = item /\ status' = status /\ work' = work
    BY <1>3 DEF Submit, rows
  <2>3. status \notin Completed
    BY <1>2, <2>2 DEF DoneInv, NotYetDone
  <2>4. \A v \in Workers : AtItems(v)' => AtItems(v)
    BY <1>0, <2>1 DEF AtItems
  <2> QED
    BY <1>2, <2>2, <2>3, <2>4 DEF DoneInv, KnowsItems, NotYetDone, CompletedJobIsDone, ItemsIn, Completed
<1>4. CASE ResetItem(u)
  <2>1. Starting(u) /\ at' = at
    BY <1>4 DEF ResetItem, Starting
  <2>2. \A w \in Workers : ~Live(w)'
    BY <1>2, <2>1 DEF DoneInv, Alone, Live
  <2>3. \A v \in Users : Starting(v) => v = u
    BY <1>2, <2>1 DEF DoneInv, Alone
  <2>4. at[u] = "reset"
    BY <1>4 DEF ResetItem
  <2> QED
    BY <2>1, <2>2, <2>3, <2>4 DEF KnowsItems, NotYetDone, CompletedJobIsDone, AtItems, Live, Starting
<1>5. CASE MarkPending(u) \/ Create(u)
  <2>1. at' = [at EXCEPT ![u] = "submit"]
    BY <1>5 DEF MarkPending, Create, Goes
  <2>2. Starting(u)'
    BY <1>0, <2>1 DEF Starting
  <2>3. \A w \in Workers : ~Live(w)'
    BY <2>2 DEF Alone
  <2>4. status' \notin Completed
    BY <1>5 DEF MarkPending, Create, SetStatus, Completed
  <2> QED
    BY <2>3, <2>4 DEF KnowsItems, NotYetDone, CompletedJobIsDone, AtItems, Live, Completed
<1>6. CASE ListErrors(u)
  <2>1. at' = [at EXCEPT ![u] = "reset"]
    BY <1>6 DEF ListErrors, Goes
  <2>2. Starting(u)'
    BY <1>0, <2>1 DEF Starting
  <2>3. (\A w \in Workers : ~Live(w)') /\ \A v \in Users : Starting(v)' => v = u
    BY <2>2 DEF Alone
  <2>4. at'[u] # "submit"
    BY <1>0, <2>1
  <2> QED
    BY <2>2, <2>3, <2>4 DEF KnowsItems, NotYetDone, CompletedJobIsDone, AtItems, Live, Starting
<1>7. CASE \/ AskPause(u) \/ AskResume(u) \/ AskCancel(u) \/ AskDelete(u) \/ AskRetry(u)
           \/ NothingToRetry(u) \/ Pause(u) \/ Resume(u)
           \/ MarkCancelled(u) \/ Signal(u) \/ DeleteRows(u) \/ CleanUp(u)
  <2>1. /\ item' = item /\ work' = work /\ (status' = status \/ status' \notin Completed)
        /\ status' # "deleted" => status # "deleted"
        /\ at[u] \notin {"reset", "submit"}
        /\ \E from, to : Goes(u, from, to) /\ to \notin {"reset", "submit"}
    BY <1>7 DEF AskPause, AskResume, AskCancel, AskDelete, AskRetry, NothingToRetry, Asks,
                Pause, Resume, MarkCancelled, Signal,
                DeleteRows, CleanUp, Goes, SetStatus, Completed, rows
  <2>2. /\ \A w \in Workers : at'[w] = at[w]
        /\ \A v \in Users : Starting(v)' <=> Starting(v)
        /\ \A v \in Users : at'[v] = "submit" => at[v] = "submit"
    BY <1>0, <2>1 DEF Goes, Starting
  <2>3. KnowsItems'
    BY <1>2, <2>1, <2>2 DEF DoneInv, KnowsItems, ItemsIn, AtItems
  <2>4. NotYetDone'
    BY <1>2, <2>1, <2>2 DEF DoneInv, NotYetDone, Live
  <2>5. CompletedJobIsDone'
    BY <1>2, <2>1, <2>2 DEF DoneInv, CompletedJobIsDone, ItemsIn, Completed
  <2> QED BY <2>3, <2>4, <2>5
<1> QED BY <1>3, <1>4, <1>5, <1>6, <1>7 DEF UserStep

\* The invariant holds at first and is kept: a restart ends every thread.
LEMMA DoneInvHolds == Spec => []DoneInv
<1>1. Init => DoneInv
  <2> SUFFICES ASSUME Init PROVE DoneInv
    OBVIOUS
  <2>1. status = "absent" /\ \A t \in Workers \cup Users : at[t] = "idle"
    BY DEF Init
  <2> QED
    BY <2>1, InitType DEF DoneInv, Alone, KnowsItems, NotYetDone, CompletedJobIsDone, Completed, AtItems,
                          Live, Starting
<1>2. DoneInv /\ [Next]_vars => DoneInv'
  <2> SUFFICES ASSUME DoneInv, [Next]_vars PROVE DoneInv'
    OBVIOUS
  <2>1. CASE UNCHANGED vars
    BY <2>1 DEF vars, rows, memory, history, DoneInv, JobTypeOK, Alone, KnowsItems, NotYetDone,
                CompletedJobIsDone, ItemsIn, AtItems, Live, Starting
  <2>2. CASE Next
    <3>1. JobTypeOK' /\ Alone'
      BY <2>2, StepKeepsType, StepKeepsAlone DEF DoneInv
    <3>2. CASE Restart
      <4>1. \A t \in Workers \cup Users : at'[t] \in {"idle", "ended"}
        BY <3>2 DEF Restart, DoneInv, JobTypeOK
      <4>2. /\ item' = item /\ (status' \in Completed => status' = status)
            /\ ~torn' => ~torn /\ \A u \in Users : ~Starting(u)
        BY <3>2 DEF Restart, AfterRestart, Completed
      <4>3. KnowsItems' /\ NotYetDone'
        BY <4>1 DEF KnowsItems, NotYetDone, AtItems, Live
      <4>4. CompletedJobIsDone'
        BY <4>2 DEF DoneInv, CompletedJobIsDone, ItemsIn, Completed
      <4> QED BY <3>1, <4>3, <4>4 DEF DoneInv
    <3> QED
      BY <2>2, <3>1, <3>2, WorkerKeepsCount, UserKeepsCount DEF Next, DoneInv
  <2> QED BY <2>1, <2>2
<1> QED BY <1>1, <1>2, PTL DEF Spec

\* Over all its starts, and through crashes and failing reads, a job that says it is
\* done has no item left, and none that failed if it says that too, unless a retry met
\* another thread of the job or died half-way (retry_failed_items and the worker).
THEOREM CompletedJobs == Spec => []CompletedJobIsDone
BY DoneInvHolds, PTL DEF DoneInv
=============================================================================
