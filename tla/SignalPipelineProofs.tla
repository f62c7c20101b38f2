------------------------- MODULE SignalPipelineProofs -------------------------
(* What the status of a deployment tells, for any workers and deliveries. *)
EXTENDS SignalPipeline, TLAPS

Shape(r) == r = [step |-> r.step, delivery |-> r.delivery, seen |-> r.seen]

\* The records have their fields and the counters count.
Types ==
    /\ worker = [w \in Workers |-> worker[w]] /\ \A w \in Workers : Shape(worker[w])
    /\ loop = [step |-> loop.step, placed |-> loop.placed]
    /\ status \in Statuses /\ stale \in BOOLEAN /\ abandoned \in BOOLEAN
    /\ resumes \in Nat /\ rejects \in Nat /\ crashes \in Nat /\ failures \in Nat

Clean == ~stale /\ rejects = 0 /\ failures = 0 /\ resumes = 0

Acting(w) == worker[w].step \in {"enter", "settle", "close", "finish"}
LoopActing == loop.step \in {"place", "settle"}

\* While nobody has acted on an old status, one actor at most has an order to place,
\* and where it is tells what is held.
OneActs ==
    Clean =>
        /\ position \in {0, 1}
        /\ status = "Waiting" => position = 0
        /\ status = "Managing" => position = 1
        /\ LoopActing \/ (\E w \in Workers : Acting(w)) => status \notin {"Waiting", "Managing"}
        /\ \A v, w \in Workers : Acting(v) /\ Acting(w) => v = w
        /\ \A w \in Workers : Acting(w) => ~LoopActing
        /\ \A w \in Workers : /\ worker[w].step \in {"enter", "finish"} => position = 0
                              /\ worker[w].step \in {"settle", "close"} => position = 1
        /\ loop.step = "place" => position = 0
        /\ loop.step = "settle" => position = 1 /\ loop.placed = TRUE

PipelineInv == Types /\ EnteringHasAnOwner /\ OneActs

\* At first the deployment waits, with nothing held and nobody at work.
LEMMA PipelineInitInv == Init => PipelineInv
<1> SUFFICES ASSUME Init PROVE PipelineInv
  OBVIOUS
<1>1. Types
  BY DEF Init, Types, Shape, Free, Sleeping, Statuses
<1>2. \A w \in Workers : worker[w].step = "idle"
  BY DEF Init, Free
<1>3. loop.step = "sleep"
  BY DEF Init, Sleeping
<1> QED BY <1>1, <1>2, <1>3 DEF Init, PipelineInv, EnteringHasAnOwner, OneActs, Acting, LoopActing

\* One worker changes its record and the others keep theirs.
LEMMA WorkerChanges ==
    ASSUME Types, NEW w \in Workers, NEW r, Shape(r), worker' = [worker EXCEPT ![w] = r]
    PROVE  /\ worker' = [v \in Workers |-> worker'[v]]
           /\ \A v \in Workers : Shape(worker'[v])
           /\ worker'[w] = r
           /\ \A v \in Workers \ {w} : worker'[v] = worker[v]
BY DEF Types

\* The usual change is of its step.
LEMMA WorkerMoves ==
    ASSUME Types, NEW w \in Workers, NEW step, WorkerTo(w, step)
    PROVE  /\ worker' = [v \in Workers |-> worker'[v]]
           /\ \A v \in Workers : Shape(worker'[v])
           /\ worker'[w].step = step
           /\ \A v \in Workers \ {w} : worker'[v] = worker[v]
<1> DEFINE r == [step |-> step, delivery |-> worker[w].delivery, seen |-> worker[w].seen]
<1>1. Shape(r) /\ r.step = step
  BY DEF Shape
<1>2. worker[w] = [step |-> worker[w].step, delivery |-> worker[w].delivery, seen |-> worker[w].seen]
  BY DEF Types, Shape
<1>3. [worker[w] EXCEPT !.step = step] = r
  BY <1>2
<1>4. worker' = [worker EXCEPT ![w] = r]
  BY <1>3 DEF WorkerTo
<1> HIDE DEF r
<1> QED BY <1>1, <1>4, WorkerChanges

-----------------------------------------------------------------------------
\* A worker that only takes, refuses, loads or reports a signal stays out of action,
\* and what it loads leads it on only if the deployment waits or is managed.
LEMMA IdleWorkerMoves ==
    ASSUME Types, NEW w \in Workers,
           TakeSignal(w) \/ RefuseSignal(w) \/ LoadDeployment(w) \/ Report(w)
    PROVE  /\ worker' = [v \in Workers |-> worker'[v]] /\ \A v \in Workers : Shape(worker'[v])
           /\ worker'[w].step \in {"idle", "load", "claim", "release", "report"}
           /\ worker'[w].step \in {"claim", "release"} => status \in {"Waiting", "Managing"}
           /\ \A v \in Workers \ {w} : worker'[v] = worker[v]
<1>0. ASSUME NEW r, Shape(r), worker' = [worker EXCEPT ![w] = r],
             r.step \in {"idle", "load", "claim", "release", "report"},
             r.step \in {"claim", "release"} => status \in {"Waiting", "Managing"}
      PROVE  /\ worker' = [v \in Workers |-> worker'[v]] /\ \A v \in Workers : Shape(worker'[v])
             /\ worker'[w].step \in {"idle", "load", "claim", "release", "report"}
             /\ worker'[w].step \in {"claim", "release"} => status \in {"Waiting", "Managing"}
             /\ \A v \in Workers \ {w} : worker'[v] = worker[v]
  BY <1>0, WorkerChanges
<1>1. CASE TakeSignal(w)
  <2> DEFINE d == Head(queue)
             r == [Free EXCEPT !.step = "load", !.delivery = d]
  <2>1. worker' = [worker EXCEPT ![w] = r]
    BY <1>1 DEF TakeSignal
  <2> HIDE DEF d
  <2>2. r \in [step : {"load"}, delivery : {d}, seen : {"none"}]
    BY DEF Free
  <2> HIDE DEF r
  <2>3. Shape(r) /\ r.step = "load"
    BY <2>2 DEF Shape
  <2> QED BY <2>1, <2>3, <1>0
<1>2. CASE RefuseSignal(w) \/ Report(w)
  <2>1. Shape(Free) /\ Free.step = "idle" /\ worker' = [worker EXCEPT ![w] = Free]
    BY <1>2 DEF RefuseSignal, Report, Shape, Free
  <2> QED BY <2>1, <1>0
<1>3. CASE LoadDeployment(w)
  <2> DEFINE next == ReactionTo(status, request[worker[w].delivery].payload)
             r == [worker[w] EXCEPT !.seen = status, !.step = next]
  <2>1. /\ next \in {"claim", "release", "report"}
        /\ next \in {"claim", "release"} => status \in {"Waiting", "Managing"}
    BY DEF ReactionTo
  <2>2. worker' = [worker EXCEPT ![w] = r]
    BY <1>3 DEF LoadDeployment
  <2>3. Shape(worker[w])
    BY DEF Types
  <2> HIDE DEF next
  <2>4. r \in [step : {next}, delivery : {worker[w].delivery}, seen : {status}]
    BY <2>3 DEF Shape
  <2> HIDE DEF r
  <2>5. Shape(r) /\ r.step = next
    BY <2>4 DEF Shape
  <2> QED BY <2>1, <2>2, <2>5, <1>0
<1> QED BY <1>1, <1>2, <1>3

\* It decides nothing, so the invariant stays.
LEMMA IdleWorkerInv ==
    ASSUME PipelineInv, NEW w \in Workers,
           TakeSignal(w) \/ RefuseSignal(w) \/ LoadDeployment(w) \/ Report(w)
    PROVE  PipelineInv'
<1>1. ~Acting(w)
  BY DEF TakeSignal, RefuseSignal, LoadDeployment, Report, Acting
<1>2. UNCHANGED <<status, position, loop, stale, resumes, rejects, crashes, failures, abandoned>>
  BY DEF TakeSignal, RefuseSignal, LoadDeployment, Report, counts, trouble
<1>3. /\ worker' = [v \in Workers |-> worker'[v]] /\ \A v \in Workers : Shape(worker'[v])
      /\ worker'[w].step \in {"idle", "load", "claim", "release", "report"}
      /\ \A v \in Workers \ {w} : worker'[v] = worker[v]
  BY IdleWorkerMoves DEF PipelineInv
<1>4. \A v \in Workers : Acting(v)' <=> Acting(v)
  BY <1>1, <1>3 DEF Acting
<1>5. Types'
  BY <1>2, <1>3 DEF PipelineInv, Types
<1>6. EnteringHasAnOwner'
  BY <1>2, <1>4 DEF PipelineInv, EnteringHasAnOwner, InFlight, Acting
<1>7. OneActs'
  BY <1>1, <1>2, <1>3, <1>4 DEF PipelineInv, OneActs, Clean, Acting, LoopActing
<1> QED BY <1>5, <1>6, <1>7 DEF PipelineInv

\* A status write takes the status asked for, unless the row is gone, or it fails and
\* is counted.
LEMMA StatusWritten ==
    ASSUME Types, NEW s \in Statuses, SetStatus(s)
    PROVE  /\ status' \in Statuses /\ failures' \in Nat /\ abandoned' = abandoned
           /\ \/ /\ failures' = failures /\ status' \in {s, "deleted"}
                 /\ status # "deleted" => status' = s
              \/ failures' # 0 /\ status' = status
<1>1. status \in Statuses /\ failures \in Nat
  BY DEF Types
<1>2. CASE Fails /\ UNCHANGED status
  BY <1>1, <1>2 DEF SetStatus, Fails
<1>3. CASE status' = (IF status = "deleted" THEN status ELSE s) /\ UNCHANGED failures
  BY <1>1, <1>3 DEF SetStatus
<1> QED BY <1>2, <1>3 DEF SetStatus

\* So does the last write of somebody at work, which leaves the history if it fails.
LEMMA LeftAs ==
    ASSUME Types, NEW s \in Statuses, LeaveAs(s)
    PROVE  /\ status' \in Statuses /\ failures' \in Nat /\ abandoned' \in BOOLEAN
           /\ \/ failures' = failures /\ abandoned' = abandoned /\ status' \in {s, "deleted"}
              \/ failures' # 0 /\ status' = status /\ abandoned' = TRUE
<1>1. status \in Statuses /\ failures \in Nat /\ abandoned \in BOOLEAN
  BY DEF Types
<1>2. CASE Fails /\ UNCHANGED status /\ abandoned' = TRUE
  <2>1. failures' \in Nat /\ failures' # 0
    BY <1>1, <1>2 DEF Fails
  <2>2. abandoned' \in BOOLEAN
    BY <1>2
  <2> QED BY <1>1, <1>2, <2>1, <2>2, Zenon
<1>3. CASE status' = (IF status = "deleted" THEN status ELSE s) /\ UNCHANGED trouble
  BY <1>1, <1>3 DEF trouble
<1> QED BY <1>2, <1>3 DEF LeaveAs

\* A worker gets to act by a claim or an exit, and only on the status it read.
LEMMA WorkerBeginsInv ==
    ASSUME PipelineInv, NEW w \in Workers, Claim(w) \/ BeginExit(w)
    PROVE  PipelineInv'
<1>1. Types /\ UNCHANGED <<position, loop, resumes, rejects, crashes, abandoned>>
  BY DEF Claim, BeginExit, SetStatus, counts, PipelineInv
<1>2. ASSUME Claim(w), status' = "Entering", ActOn("Waiting"), WorkerTo(w, "enter"), UNCHANGED failures
      PROVE  PipelineInv'
  <2>1. ~Acting(w)
    BY <1>2 DEF Claim, Acting
  <2>2. /\ worker' = [v \in Workers |-> worker'[v]] /\ \A v \in Workers : Shape(worker'[v])
        /\ worker'[w].step = "enter"
        /\ \A v \in Workers \ {w} : worker'[v] = worker[v]
    BY <1>1, <1>2, WorkerMoves
  <2>3. Types' /\ EnteringHasAnOwner'
    BY <1>1, <1>2, <2>2 DEF Types, ActOn, Statuses, EnteringHasAnOwner, InFlight
  <2>4. OneActs'
    <3> SUFFICES ASSUME Clean' PROVE OneActs'
      BY DEF OneActs
    <3>1. Clean /\ status = "Waiting"
      BY <1>1, <1>2 DEF Clean, ActOn, Types
    <3>2. \A v \in Workers : ~Acting(v)
      BY <3>1 DEF PipelineInv, OneActs
    <3>3. position = 0 /\ ~LoopActing
      BY <3>1 DEF PipelineInv, OneActs
    <3> QED BY <1>1, <1>2, <2>2, <3>2, <3>3 DEF OneActs, Acting, LoopActing
  <2> QED BY <2>3, <2>4 DEF PipelineInv
<1>3. ASSUME Claim(w), UNCHANGED <<status, stale>>, WorkerTo(w, "report"),
             failures' \in {failures, failures + 1}
      PROVE  PipelineInv'
  <2>1. worker[w].step = "claim" /\ failures' \in Nat /\ (failures' = 0 => failures = 0)
    BY <1>1, <1>3 DEF Claim, Types
  <2>2. /\ worker' = [v \in Workers |-> worker'[v]] /\ \A v \in Workers : Shape(worker'[v])
        /\ worker'[w].step = "report"
        /\ \A v \in Workers \ {w} : worker'[v] = worker[v]
    BY <1>1, <1>3, WorkerMoves
  <2>3. \A v \in Workers : Acting(v)' <=> Acting(v)
    BY <2>1, <2>2 DEF Acting
  <2>4. Types' /\ EnteringHasAnOwner'
    BY <1>1, <1>3, <2>1, <2>2, <2>3 DEF Types, PipelineInv, EnteringHasAnOwner, InFlight, Acting
  <2>5. OneActs'
    BY <1>1, <1>3, <2>1, <2>2, <2>3 DEF PipelineInv, OneActs, Clean, Acting, LoopActing
  <2> QED BY <2>4, <2>5 DEF PipelineInv
<1>4. CASE BeginExit(w)
  <2>1. SetStatus("Entering") /\ ActOn("Managing") /\ ~Acting(w)
        /\ WorkerTo(w, IF status = "deleted" THEN "report" ELSE "close")
    BY <1>4 DEF BeginExit, Acting
  <2>2. /\ worker' = [v \in Workers |-> worker'[v]] /\ \A v \in Workers : Shape(worker'[v])
        /\ worker'[w].step = IF status = "deleted" THEN "report" ELSE "close"
        /\ \A v \in Workers \ {w} : worker'[v] = worker[v]
    BY <1>1, <2>1, WorkerMoves
  <2>3. Types'
    <3>1. status' \in Statuses /\ failures' \in Nat
      BY <1>1, <2>1, StatusWritten DEF Statuses
    <3> QED BY <1>1, <2>1, <2>2, <3>1 DEF Types, ActOn
  <2>4. EnteringHasAnOwner'
    BY <2>1, <2>2 DEF SetStatus, EnteringHasAnOwner, InFlight
  <2>5. OneActs'
    <3> SUFFICES ASSUME Clean' PROVE OneActs'
      BY DEF OneActs
    <3>0. failures' = failures /\ (status # "deleted" => status' = "Entering")
      BY <1>1, <2>1, StatusWritten DEF Clean, Statuses
    <3>1. Clean /\ status = "Managing"
      BY <1>1, <2>1, <3>0 DEF Clean, ActOn
    <3>2. \A v \in Workers : ~Acting(v)
      BY <3>1 DEF PipelineInv, OneActs
    <3>3. position = 1 /\ ~LoopActing
      BY <3>1 DEF PipelineInv, OneActs
    <3>4. status' = "Entering" /\ worker'[w].step = "close"
      BY <2>2, <3>0, <3>1
    <3> QED BY <1>1, <2>2, <3>2, <3>3, <3>4 DEF OneActs, Acting, LoopActing
  <2> QED BY <2>3, <2>4, <2>5 DEF PipelineInv
<1>5. CASE Claim(w)
  BY <1>2, <1>3, <1>5 DEF Claim, Fails
<1> QED BY <1>4, <1>5

\* An actor that places its order holds one more, or one less, or was refused,
\* or counts as refused.
LEMMA WorkerPlacesInv ==
    ASSUME PipelineInv, NEW w \in Workers, PlaceEntry(w) \/ PlaceExit(w)
    PROVE  PipelineInv'
<1>1. Types /\ UNCHANGED <<status, loop, resumes, crashes, stale, failures, abandoned>>
  BY DEF PlaceEntry, PlaceExit, trouble, PipelineInv
<1>2. Acting(w)
  BY DEF PlaceEntry, PlaceExit, Acting
<1>3. rejects' \in Nat /\ (rejects' = 0 => rejects = 0)
  BY <1>1 DEF PlaceEntry, PlaceExit, Order, Types
<1>4. CASE PlaceEntry(w)
  <2>1. /\ worker' = [v \in Workers |-> worker'[v]] /\ \A v \in Workers : Shape(worker'[v])
        /\ worker'[w].step = "settle"
        /\ \A v \in Workers \ {w} : worker'[v] = worker[v]
    BY <1>1, <1>4, WorkerMoves DEF PlaceEntry
  <2>2. Types' /\ EnteringHasAnOwner'
    BY <1>1, <1>3, <2>1 DEF Types, EnteringHasAnOwner, InFlight
  <2>3. OneActs'
    <3> SUFFICES ASSUME Clean' PROVE OneActs'
      BY DEF OneActs
    <3>1. Clean /\ rejects' = 0
      BY <1>1, <1>3 DEF Clean
    <3>2. position = 0 /\ ~LoopActing /\ status \notin {"Waiting", "Managing"}
          /\ \A v \in Workers \ {w} : ~Acting(v)
      BY <1>2, <1>4, <3>1 DEF PipelineInv, OneActs, PlaceEntry
    <3>3. position' = 1
      BY <1>4, <3>1, <3>2 DEF PlaceEntry, Order, Clean
    <3> QED BY <1>1, <2>1, <3>2, <3>3 DEF OneActs, Acting, LoopActing
  <2> QED BY <2>2, <2>3 DEF PipelineInv
<1>5. CASE PlaceExit(w)
  <2>1. /\ worker' = [v \in Workers |-> worker'[v]] /\ \A v \in Workers : Shape(worker'[v])
        /\ worker'[w].step = "finish"
        /\ \A v \in Workers \ {w} : worker'[v] = worker[v]
    BY <1>1, <1>5, WorkerMoves DEF PlaceExit
  <2>2. Types' /\ EnteringHasAnOwner'
    BY <1>1, <1>3, <2>1 DEF Types, EnteringHasAnOwner, InFlight
  <2>3. OneActs'
    <3> SUFFICES ASSUME Clean' PROVE OneActs'
      BY DEF OneActs
    <3>1. Clean /\ rejects' = 0
      BY <1>1, <1>3 DEF Clean
    <3>2. position = 1 /\ ~LoopActing /\ status \notin {"Waiting", "Managing"}
          /\ \A v \in Workers \ {w} : ~Acting(v)
      BY <1>2, <1>5, <3>1 DEF PipelineInv, OneActs, PlaceExit
    <3>3. position' = 0
      BY <1>5, <3>1, <3>2 DEF PlaceExit, Order, Clean
    <3> QED BY <1>1, <2>1, <3>2, <3>3 DEF OneActs, Acting, LoopActing
  <2> QED BY <2>2, <2>3 DEF PipelineInv
<1> QED BY <1>4, <1>5

\* A worker that ends its entry or exit writes the status that goes with it, and one
\* that fails writes Error, whatever it holds; a write that fails gives nothing up.
LEMMA WorkerEndsInv ==
    ASSUME PipelineInv, NEW w \in Workers, SettleEntry(w) \/ FinishExit(w) \/ Fail(w)
    PROVE  PipelineInv'
<1>1. Types /\ UNCHANGED <<position, loop, resumes, rejects, crashes, stale>>
  BY DEF SettleEntry, FinishExit, Fail, counts, PipelineInv
<1>2. Acting(w) /\ WorkerTo(w, "report")
  BY DEF SettleEntry, FinishExit, Fail, Acting
<1>3. /\ worker' = [v \in Workers |-> worker'[v]] /\ \A v \in Workers : Shape(worker'[v])
      /\ worker'[w].step = "report"
      /\ \A v \in Workers \ {w} : worker'[v] = worker[v]
  BY <1>1, <1>2, WorkerMoves
<1>4. ASSUME NEW s \in {"Managing", "Waiting", "Error"}, LeaveAs(s)
      PROVE  /\ Types' /\ EnteringHasAnOwner'
             /\ failures' = 0 => failures = 0 /\ status' \in {s, "deleted"}
  <2>1. s \in Statuses
    BY DEF Statuses
  <2>2. /\ status' \in Statuses /\ failures' \in Nat /\ abandoned' \in BOOLEAN
        /\ \/ failures' = failures /\ status' \in {s, "deleted"}
           \/ failures' # 0 /\ abandoned' = TRUE
    BY <1>1, <1>4, <2>1, LeftAs
  <2> QED BY <1>1, <1>3, <2>2 DEF Types, EnteringHasAnOwner
<1>5. ASSUME Clean', failures = 0
      PROVE  /\ position \in {0, 1} /\ ~LoopActing
             /\ \A v \in Workers \ {w} : ~Acting(v)
             /\ worker[w].step = "finish" => position = 0
             /\ worker[w].step = "settle" => position = 1
  <2>1. Clean
    BY <1>1, <1>5 DEF Clean
  <2> QED BY <1>2, <2>1 DEF PipelineInv, OneActs
<1>6. CASE SettleEntry(w)
  <2>1. Types' /\ EnteringHasAnOwner' /\ (failures' = 0 => failures = 0 /\ status' \in {"Managing", "deleted"})
    BY <1>4, <1>6 DEF SettleEntry
  <2>2. OneActs'
    <3> SUFFICES ASSUME Clean' PROVE OneActs'
      BY DEF OneActs
    <3>1. failures = 0 /\ status' \in {"Managing", "deleted"}
      BY <2>1 DEF Clean
    <3> QED BY <1>1, <1>3, <1>5, <1>6, <3>1 DEF OneActs, Acting, LoopActing, SettleEntry
  <2> QED BY <2>1, <2>2 DEF PipelineInv
<1>7. CASE FinishExit(w)
  <2>1. Types' /\ EnteringHasAnOwner' /\ (failures' = 0 => failures = 0 /\ status' \in {"Waiting", "deleted"})
    BY <1>4, <1>7 DEF FinishExit
  <2>2. OneActs'
    <3> SUFFICES ASSUME Clean' PROVE OneActs'
      BY DEF OneActs
    <3>1. failures = 0 /\ status' \in {"Waiting", "deleted"}
      BY <2>1 DEF Clean
    <3> QED BY <1>1, <1>3, <1>5, <1>7, <3>1 DEF OneActs, Acting, LoopActing, FinishExit
  <2> QED BY <2>1, <2>2 DEF PipelineInv
<1>8. CASE Fail(w)
  <2>1. Types' /\ EnteringHasAnOwner' /\ (failures' = 0 => failures = 0 /\ status' \in {"Error", "deleted"})
    BY <1>4, <1>8 DEF Fail
  <2>2. OneActs'
    <3> SUFFICES ASSUME Clean' PROVE OneActs'
      BY DEF OneActs
    <3>1. failures = 0 /\ status' \in {"Error", "deleted"}
      BY <2>1 DEF Clean
    <3> QED BY <1>1, <1>3, <1>5, <1>8, <3>1 DEF OneActs, Acting, LoopActing
  <2> QED BY <2>1, <2>2 DEF PipelineInv
<1> QED BY <1>6, <1>7, <1>8

-----------------------------------------------------------------------------
\* The loop's record after it has moved.
LEMMA LoopMoves ==
    ASSUME NEW step, LoopTo(step)
    PROVE  loop' = [step |-> loop'.step, placed |-> loop'.placed] /\ loop'.step = step
BY DEF LoopTo, Sleeping

\* The loop that wakes, sleeps again, or declines before it has triggered.
LEMMA LoopChecksInv ==
    ASSUME PipelineInv, Wake \/ Heartbeat \/ Decline
    PROVE  PipelineInv'
<1>1. Types /\ UNCHANGED <<position, worker, resumes, rejects, crashes>>
  BY DEF Wake, Heartbeat, Decline, counts, PipelineInv
<1>2. ~LoopActing /\ (LoopTo("check") \/ LoopTo("sleep"))
  BY DEF Wake, Heartbeat, Decline, LoopActing
<1>3. loop' = [step |-> loop'.step, placed |-> loop'.placed] /\ loop'.step \in {"check", "sleep"}
  BY <1>2, LoopMoves
<1>4. ASSUME UNCHANGED <<status, abandoned>> PROVE EnteringHasAnOwner'
  BY <1>1, <1>2, <1>3, <1>4 DEF PipelineInv, EnteringHasAnOwner, InFlight, LoopActing
<1>5. CASE UNCHANGED <<status, stale, failures, abandoned>>
  <2>1. Types' /\ EnteringHasAnOwner'
    BY <1>1, <1>3, <1>4, <1>5 DEF Types
  <2>2. OneActs'
    BY <1>1, <1>2, <1>3, <1>5 DEF PipelineInv, OneActs, Clean, Acting, LoopActing
  <2> QED BY <2>1, <2>2 DEF PipelineInv
<1>6. ASSUME NEW s \in {"Error", "Waiting"}, SetStatus(s)
      PROVE  /\ status' \in Statuses /\ failures' \in Nat /\ abandoned' = abandoned
             /\ EnteringHasAnOwner'
             /\ failures' = 0 => failures = 0 /\ status' \in {s, "deleted"}
  <2>1. s \in Statuses
    BY DEF Statuses
  <2>2. /\ status' \in Statuses /\ failures' \in Nat /\ abandoned' = abandoned
        /\ \/ failures' = failures /\ status' \in {s, "deleted"}
           \/ failures' # 0 /\ status' = status
    BY <1>1, <1>6, <2>1, StatusWritten
  <2>3. CASE status' = status
    BY <1>4, <2>2, <2>3
  <2>4. CASE status' \in {s, "deleted"}
    BY <2>2, <2>4 DEF EnteringHasAnOwner
  <2> QED BY <2>2, <2>3, <2>4
<1>7. CASE SetStatus("Error") /\ UNCHANGED stale
  <2>1. /\ status' \in Statuses /\ failures' \in Nat /\ abandoned' = abandoned /\ EnteringHasAnOwner'
        /\ failures' = 0 => failures = 0 /\ status' \in {"Error", "deleted"}
    BY <1>6, <1>7
  <2>2. Types'
    BY <1>1, <1>3, <1>7, <2>1 DEF Types
  <2>3. OneActs'
    BY <1>1, <1>2, <1>3, <1>7, <2>1 DEF PipelineInv, OneActs, Clean, Acting, LoopActing
  <2> QED BY <2>1, <2>2, <2>3 DEF PipelineInv
<1>8. CASE SetStatus("Waiting") /\ ActOn("Waiting")
  <2>1. /\ status' \in Statuses /\ failures' \in Nat /\ abandoned' = abandoned /\ EnteringHasAnOwner'
        /\ failures' = 0 => failures = 0 /\ status' \in {"Waiting", "deleted"}
    BY <1>6, <1>8
  <2>2. Types'
    BY <1>1, <1>3, <1>8, <2>1 DEF Types, ActOn
  <2>3. OneActs'
    <3> SUFFICES ASSUME Clean' PROVE OneActs'
      BY DEF OneActs
    <3>1. Clean /\ status = "Waiting" /\ status' \in {"Waiting", "deleted"}
      BY <1>1, <1>8, <2>1 DEF Clean, ActOn, Types
    <3> QED BY <1>1, <1>2, <1>3, <3>1 DEF PipelineInv, OneActs, Acting, LoopActing
  <2> QED BY <2>1, <2>2, <2>3 DEF PipelineInv
<1>9. CASE Wake \/ Heartbeat
  BY <1>5, <1>9 DEF Wake, Heartbeat, trouble
<1>10. CASE Decline
  BY <1>7, <1>8, <1>10 DEF Decline
<1> QED BY <1>9, <1>10

\* The loop that triggers acts on the status it queried, or the history says so.
LEMMA LoopTriggersInv ==
    ASSUME PipelineInv, Trigger
    PROVE  PipelineInv'
<1>1. Types /\ UNCHANGED <<position, worker, resumes, rejects, crashes>>
  BY DEF Trigger, counts, PipelineInv
<1>2. SetStatus("Entering") /\ ActOn("Waiting") /\ LoopTo("place")
  BY DEF Trigger
<1>3. loop' = [step |-> loop'.step, placed |-> loop'.placed] /\ loop'.step = "place"
  BY <1>2, LoopMoves
<1>4. /\ status' \in Statuses /\ failures' \in Nat /\ abandoned' = abandoned
      /\ \/ /\ failures' = failures /\ status' \in {"Entering", "deleted"}
            /\ status # "deleted" => status' = "Entering"
         \/ failures' # 0
  BY <1>1, <1>2, StatusWritten DEF Statuses
<1>5. Types' /\ EnteringHasAnOwner'
  BY <1>1, <1>2, <1>3, <1>4 DEF Types, ActOn, EnteringHasAnOwner, InFlight
<1>6. OneActs'
  <2> SUFFICES ASSUME Clean' PROVE OneActs'
    BY DEF OneActs
  <2>1. Clean /\ status = "Waiting" /\ status' = "Entering"
    BY <1>1, <1>2, <1>4 DEF Clean, ActOn, Types
  <2> QED BY <1>1, <1>3, <2>1 DEF PipelineInv, OneActs, Acting, LoopActing
<1> QED BY <1>5, <1>6 DEF PipelineInv

\* The loop that gives up, places its order, writes what came of it, or raises.
LEMMA LoopActsInv ==
    ASSUME PipelineInv, GiveUp \/ PlaceTriggered \/ SettleTriggered \/ RaiseInLoop
    PROVE  PipelineInv'
<1>1. Types /\ LoopActing /\ UNCHANGED <<worker, resumes, crashes, stale>>
  BY DEF GiveUp, PlaceTriggered, SettleTriggered, RaiseInLoop, counts, PipelineInv, LoopActing
<1>2. ASSUME Clean
      PROVE  /\ \A w \in Workers : ~Acting(w)
             /\ status \notin {"Waiting", "Managing"}
             /\ loop.step = "place" => position = 0
             /\ loop.step = "settle" => position = 1 /\ loop.placed = TRUE
  BY <1>1, <1>2 DEF PipelineInv, OneActs
<1>3. CASE PlaceTriggered
  <2>1. /\ loop' = [step |-> "settle", placed |-> rejects' = rejects]
        /\ UNCHANGED <<status, failures, abandoned>>
    BY <1>3 DEF PlaceTriggered, trouble
  <2>2. rejects' \in Nat /\ (rejects' = 0 => rejects = 0)
    BY <1>1, <1>3 DEF PlaceTriggered, Order, Types
  <2>3. loop' = [step |-> loop'.step, placed |-> loop'.placed] /\ loop'.step = "settle"
        /\ (rejects' = rejects => loop'.placed = TRUE)
    BY <2>1
  <2>4. Types' /\ EnteringHasAnOwner'
    BY <1>1, <2>1, <2>2, <2>3 DEF Types, EnteringHasAnOwner, InFlight
  <2>5. OneActs'
    <3> SUFFICES ASSUME Clean' PROVE OneActs'
      BY DEF OneActs
    <3>1. Clean /\ rejects' = rejects
      BY <1>1, <2>1, <2>2 DEF Clean
    <3>2. position = 0
      BY <1>2, <1>3, <3>1 DEF PlaceTriggered
    <3>3. position' = 1
      BY <1>3, <2>2, <3>1, <3>2 DEF PlaceTriggered, Order, Clean
    <3> QED BY <1>1, <1>2, <2>1, <2>3, <3>1, <3>3 DEF OneActs, Acting, LoopActing
  <2> QED BY <2>4, <2>5 DEF PipelineInv
<1>4. CASE GiveUp \/ SettleTriggered
  <2>1. UNCHANGED <<position, rejects>> /\ LoopTo("sleep")
    BY <1>4 DEF GiveUp, SettleTriggered, counts
  <2>2. loop' = [step |-> loop'.step, placed |-> loop'.placed] /\ loop'.step = "sleep"
    BY <2>1, LoopMoves
  <2>3. ASSUME NEW s \in {"Waiting", "Managing"}, LeaveAs(s)
        PROVE  /\ Types' /\ EnteringHasAnOwner'
               /\ failures' = 0 => failures = 0 /\ status' \in {s, "deleted"}
    <3>1. s \in Statuses
      BY DEF Statuses
    <3>2. /\ status' \in Statuses /\ failures' \in Nat /\ abandoned' \in BOOLEAN
          /\ \/ failures' = failures /\ status' \in {s, "deleted"}
             \/ failures' # 0 /\ abandoned' = TRUE
      BY <1>1, <2>3, <3>1, LeftAs
    <3> QED BY <1>1, <2>1, <2>2, <3>2 DEF Types, EnteringHasAnOwner
  <2>4. LeaveAs("Waiting") \/ LeaveAs("Managing")
    BY <1>4 DEF GiveUp, SettleTriggered
  <2>5. Types' /\ EnteringHasAnOwner' /\ (failures' = 0 => failures = 0)
    BY <2>3, <2>4
  <2>6. OneActs'
    <3> SUFFICES ASSUME Clean' PROVE OneActs'
      BY DEF OneActs
    <3>1. Clean /\ failures' = 0
      BY <1>1, <2>1, <2>5 DEF Clean
    <3>2. CASE GiveUp
      <4>1. position = 0 /\ status' \in {"Waiting", "deleted"}
        BY <1>2, <2>3, <3>1, <3>2 DEF GiveUp
      <4> QED BY <1>1, <1>2, <2>1, <2>2, <3>1, <4>1 DEF OneActs, Acting, LoopActing
    <3>3. CASE SettleTriggered
      <4>1. position = 1 /\ loop.placed = TRUE
        BY <1>2, <3>1, <3>3 DEF SettleTriggered
      <4>2. LeaveAs("Managing")
        BY <3>3, <4>1 DEF SettleTriggered
      <4>3. status' \in {"Managing", "deleted"}
        BY <2>3, <3>1, <4>2
      <4> QED BY <1>1, <1>2, <2>1, <2>2, <3>1, <4>1, <4>3 DEF OneActs, Acting, LoopActing
    <3> QED BY <1>4, <3>2, <3>3
  <2> QED BY <2>5, <2>6 DEF PipelineInv
<1>5. CASE RaiseInLoop
  <2>1. /\ UNCHANGED <<status, position, resumes, rejects, crashes>> /\ LoopTo("sleep")
        /\ failures' = failures + 1 /\ abandoned' = TRUE
    BY <1>5 DEF RaiseInLoop, Fails, counts
  <2>2. loop' = [step |-> loop'.step, placed |-> loop'.placed]
    BY <2>1, LoopMoves
  <2>3. Types' /\ EnteringHasAnOwner'
    BY <1>1, <2>1, <2>2 DEF Types, EnteringHasAnOwner
  <2>4. ~Clean'
    BY <1>1, <2>1 DEF Types, Clean
  <2> QED BY <2>3, <2>4 DEF PipelineInv, OneActs
<1> QED BY <1>3, <1>4, <1>5

-----------------------------------------------------------------------------
\* The user writes a status of rest, resumes, or deletes; a crash ends all actors.
LEMMA UserInv ==
    ASSUME PipelineInv,
           \/ Halt \/ Resume \/ RequestDelete \/ Delete \/ Crash
           \/ \E w \in Workers : FailOutside(w)
    PROVE  PipelineInv'
<1>1. Types
  BY DEF PipelineInv
<1>2. ASSUME UNCHANGED <<status, worker, loop, abandoned>> PROVE EnteringHasAnOwner'
  BY <1>2 DEF PipelineInv, EnteringHasAnOwner, InFlight
<1>3. CASE Halt \/ Delete \/ \E w \in Workers : FailOutside(w)
  <2>1. UNCHANGED <<position, worker, loop, resumes, rejects, crashes, stale, abandoned>>
    BY <1>3 DEF Halt, Delete, FailOutside, SetStatus, actors, counts, trouble
  <2>2. /\ status' \in Statuses /\ failures' \in Nat
        /\ \/ failures' = failures /\ status' \in {"Paused", "Stopped", "Error", "deleted"}
           \/ failures' # 0 /\ status' = status
    <3>1. CASE Delete
      BY <1>1, <3>1 DEF Delete, trouble, Types, Statuses
    <3>2. CASE Halt
      <4>1. PICK s \in Halts : SetStatus(s)
        BY <3>2 DEF Halt
      <4>2. s \in {"Paused", "Stopped"} /\ s \in Statuses
        BY PipelineAssumption DEF Statuses
      <4> QED BY <1>1, <4>1, <4>2, StatusWritten
    <3>3. CASE \E w \in Workers : FailOutside(w)
      <4>1. SetStatus("Error") /\ "Error" \in Statuses
        BY <3>3 DEF FailOutside, Statuses
      <4> QED BY <1>1, <4>1, StatusWritten
    <3> QED BY <1>3, <3>1, <3>2, <3>3
  <2>3. Types'
    BY <1>1, <2>1, <2>2 DEF Types
  <2>4. EnteringHasAnOwner'
    <3>1. CASE status' = status
      BY <1>2, <2>1, <3>1
    <3>2. CASE status' \in {"Paused", "Stopped", "Error", "deleted"}
      BY <3>2 DEF EnteringHasAnOwner
    <3> QED BY <2>2, <3>1, <3>2
  <2>5. OneActs'
    BY <2>1, <2>2 DEF PipelineInv, OneActs, Clean, Acting, LoopActing
  <2> QED BY <2>3, <2>4, <2>5 DEF PipelineInv
<1>6. CASE Resume
  <2>1. /\ UNCHANGED <<position, worker, loop, rejects, crashes, stale, abandoned>>
        /\ resumes' = resumes + 1 /\ SetStatus("Waiting")
    BY <1>6 DEF Resume, SetStatus, actors
  <2>2. status' \in Statuses /\ failures' \in Nat /\ status' \in {status, "Waiting", "deleted"}
    BY <1>1, <2>1, StatusWritten DEF Statuses
  <2>3. Types'
    BY <1>1, <2>1, <2>2 DEF Types
  <2>4. EnteringHasAnOwner'
    <3>1. CASE status' = status
      BY <1>2, <2>1, <3>1
    <3>2. CASE status' \in {"Waiting", "deleted"}
      BY <3>2 DEF EnteringHasAnOwner
    <3> QED BY <2>2, <3>1, <3>2
  <2>5. ~Clean'
    BY <1>1, <2>1 DEF Types, Clean
  <2> QED BY <2>3, <2>4, <2>5 DEF PipelineInv, OneActs
<1>4. CASE RequestDelete
  <2>1. UNCHANGED <<status, position, worker, loop, resumes, rejects, crashes, stale, failures, abandoned>>
    BY <1>4 DEF RequestDelete, actors, counts, trouble
  <2> QED BY <2>1 DEF PipelineInv, Types, EnteringHasAnOwner, InFlight, OneActs, Clean, Acting, LoopActing
<1>5. CASE Crash
  <2>1. /\ UNCHANGED <<status, position, resumes, rejects, failures, stale>> /\ crashes' = crashes + 1
        /\ abandoned' = (abandoned \/ InFlight)
    BY <1>5 DEF Crash
  <2>2. worker' = [v \in Workers |-> Free] /\ loop' = Sleeping
    BY <1>5 DEF Crash
  <2>3. Shape(Free) /\ Free.step = "idle"
    BY DEF Shape, Free
  <2>4. \A w \in Workers : worker'[w] = Free
    BY <2>2
  <2>5. loop' = [step |-> loop'.step, placed |-> loop'.placed] /\ loop'.step = "sleep"
    BY <2>2 DEF Sleeping
  <2>6. Types' /\ EnteringHasAnOwner'
    <3>1. abandoned' \in BOOLEAN
      BY <2>1
    <3>2. Types'
      BY <1>1, <2>1, <2>2, <2>3, <2>4, <2>5, <3>1 DEF Types
    <3>3. EnteringHasAnOwner'
      BY <2>1 DEF PipelineInv, EnteringHasAnOwner
    <3> QED BY <3>2, <3>3
  <2>7. OneActs'
    BY <2>1, <2>3, <2>4, <2>5 DEF PipelineInv, OneActs, Clean, Acting, LoopActing
  <2> QED BY <2>6, <2>7 DEF PipelineInv
<1> QED BY <1>3, <1>4, <1>5, <1>6

\* Every step keeps the invariant.
LEMMA PipelineNextInv ==
    ASSUME PipelineInv, [Next]_vars
    PROVE  PipelineInv'
<1>1. CASE UNCHANGED vars \/ Webhooks
  <2>1. UNCHANGED <<status, position, worker, loop, resumes, rejects, crashes, stale, failures, abandoned>>
    BY <1>1 DEF vars, Webhooks, actors, counts, trouble
  <2> QED BY <2>1 DEF PipelineInv, Types, EnteringHasAnOwner, InFlight, OneActs, Clean, Acting, LoopActing
<1>2. ASSUME NEW w \in Workers, WorkerStep(w) PROVE PipelineInv'
  BY <1>2, IdleWorkerInv, WorkerBeginsInv, WorkerPlacesInv, WorkerEndsInv, UserInv DEF WorkerStep
<1>3. CASE LoopStep
  BY <1>3, LoopChecksInv, LoopTriggersInv, LoopActsInv DEF LoopStep
<1>4. CASE Halt \/ Resume \/ RequestDelete \/ Delete \/ Crash
  BY <1>4, UserInv
<1> QED BY <1>1, <1>2, <1>3, <1>4 DEF Next

\* A deployment that says Entering has a thread at work on it, or one that was died,
\* failed in its last write, or was the loop and raised.
THEOREM EnteringIsOwned == Spec => []EnteringHasAnOwner
<1>1. PipelineInv => EnteringHasAnOwner
  BY DEF PipelineInv
<1>2. PipelineInv /\ [Next]_vars => PipelineInv'
  BY PipelineNextInv
<1> QED BY <1>1, <1>2, PipelineInitInv, PTL DEF Spec

\* With any number of workers, the status tells what is held until somebody acts on an
\* old status, an order is refused, a write fails or the loop raises, or the user resumes.
THEOREM StatusIsTrue == Spec => []StatusTellsPosition
<1>1. PipelineInv => StatusTellsPosition
  BY DEF PipelineInv, OneActs, Clean, StatusTellsPosition
<1>2. PipelineInv /\ [Next]_vars => PipelineInv'
  BY PipelineNextInv
<1> QED BY <1>1, <1>2, PipelineInitInv, PTL DEF Spec

-----------------------------------------------------------------------------
AtRest == status \in {"Paused", "Stopped", "Error", "deleted"} /\ ~Engaged

\* At rest, no step of a worker trades, writes a status but Error, or engages the worker.
LEMMA WorkerRests ==
    ASSUME Types, AtRest, NEW w \in Workers, WorkerStep(w)
    PROVE  position' = position /\ status' \notin {"Entering", "Managing"} /\ ~Engaged'
<1>1. \A v \in Workers : worker[v].step \notin {"claim", "release", "enter", "settle", "close", "finish"}
  BY DEF AtRest, Engaged, InFlight
<1>2. \/ TakeSignal(w) \/ RefuseSignal(w) \/ LoadDeployment(w) \/ Report(w)
      \/ FailOutside(w)
  BY <1>1 DEF WorkerStep, Claim, Fail, PlaceEntry, SettleEntry, BeginExit, PlaceExit, FinishExit
<1>3. UNCHANGED <<position, loop>> /\ status' \in {status, "Error"}
  BY <1>2 DEF TakeSignal, RefuseSignal, LoadDeployment, Report, FailOutside, SetStatus, actors
<1>4. \A v \in Workers : worker'[v].step \notin {"claim", "release", "enter", "settle", "close", "finish"}
  <2>1. CASE FailOutside(w)
    BY <1>1, <2>1 DEF FailOutside, actors
  <2>2. CASE TakeSignal(w) \/ RefuseSignal(w) \/ LoadDeployment(w) \/ Report(w)
    <3>1. /\ worker'[w].step \in {"idle", "load", "report"}
          /\ \A v \in Workers \ {w} : worker'[v] = worker[v]
      BY <2>2, IdleWorkerMoves DEF AtRest
    <3> QED BY <1>1, <3>1
  <2> QED BY <1>2, <2>1, <2>2
<1> QED BY <1>3, <1>4 DEF AtRest, Engaged, InFlight

\* Whoever has a deployment at rest before a step has its position unchanged after it.
LEMMA RestIsQuiet ==
    ASSUME Types, AtRest, [Next]_vars
    PROVE  position' = position /\ status' \notin {"Entering", "Managing"} /\ ~Engaged'
<1>1. CASE UNCHANGED vars \/ Webhooks \/ RequestDelete
  <2>1. UNCHANGED <<status, position, worker, loop>>
    BY <1>1 DEF vars, Webhooks, RequestDelete, actors
  <2> QED BY <2>1 DEF AtRest, Engaged, InFlight
<1>2. ASSUME NEW w \in Workers, WorkerStep(w)
      PROVE  position' = position /\ status' \notin {"Entering", "Managing"} /\ ~Engaged'
  BY <1>2, WorkerRests DEF AtRest
<1>3. ~LoopStep
  BY DEF AtRest, Engaged, InFlight, LoopStep, Wake, QueryWaiting, Heartbeat, Decline, Trigger,
         GiveUp, PlaceTriggered, SettleTriggered, RaiseInLoop
<1>4. CASE Halt \/ Resume \/ Delete
  <2>1. UNCHANGED <<position, worker, loop>>
    BY <1>4 DEF Halt, Resume, Delete, actors
  <2>2. status' \in {status, "Paused", "Stopped", "Waiting", "deleted"}
    BY <1>4, PipelineAssumption DEF Halt, Resume, Delete, SetStatus
  <2> QED BY <2>1, <2>2 DEF AtRest, Engaged, InFlight
<1>5. CASE Crash
  <2>1. UNCHANGED <<status, position>> /\ worker' = [v \in Workers |-> Free] /\ loop' = Sleeping
    BY <1>5 DEF Crash
  <2>2. loop'.step = "sleep" /\ \A v \in Workers : worker'[v].step = "idle"
    BY <2>1 DEF Sleeping, Free
  <2> QED BY <2>1, <2>2 DEF AtRest, Engaged, InFlight
<1> QED BY <1>1, <1>2, <1>3, <1>4, <1>5 DEF Next

\* A deployment at rest that engages nobody stays quiet until the user resumes it,
\* whatever signals, workers and crashes there are.
THEOREM RestStaysQuiet == Spec => HaltedStaysQuiet
<1>1. PipelineInv => Types
  BY DEF PipelineInv
<1>2. PipelineInv /\ [Next]_vars => PipelineInv'
  BY PipelineNextInv
<1> DEFINE Quiet == AtRest => /\ position' = position
                              /\ status' \notin {"Entering", "Managing"}
                              /\ ~Engaged'
<1>3. Types /\ [Next]_vars => [Quiet]_vars
  BY RestIsQuiet
<1>4. [][Quiet]_vars => HaltedStaysQuiet
  BY DEF AtRest, HaltedStaysQuiet
<1> QED BY <1>1, <1>2, <1>3, <1>4, PipelineInitInv, PTL DEF Spec

-----------------------------------------------------------------------------
(* The types of the delivery log, the queue and the actors. *)

LogRows == [payload : Payloads, outcome : Outcomes, recent : BOOLEAN]

LogPart == log \in [Deliveries -> LogRows \cup {NoRow}]

\* A request has its row once it has been recorded.
RequestPart ==
    /\ request \in [Deliveries -> [step : RequestSteps, payload : Payloads \cup {"none"}]]
    /\ \A d \in Deliveries :
          /\ request[d].step \in {"lookup", "insert", "insert_duplicate"} => request[d].payload \in Payloads
          /\ request[d].step \in {"mark", "enqueue", "accept"} => log[d] # NoRow

\* What is queued was recorded, and its request has no second signal to queue.
QueuePart ==
    /\ queue \in Seq(Deliveries) /\ IsInjective(queue)
    /\ \A i \in 1 .. Len(queue) : log[queue[i]] # NoRow /\ request[queue[i]].step \in {"accept", "done"}

\* A worker that is not idle has a recorded delivery, and acts on the status it read.
WorkerPart ==
    /\ worker \in [Workers -> [step : WorkerSteps, delivery : Deliveries \cup {"none"},
                               seen : Statuses \cup {"none"}]]
    /\ \A w \in Workers :
          /\ worker[w].step = "idle" => worker[w] = Free
          /\ worker[w].step # "idle" => worker[w].delivery \in Deliveries /\ log[worker[w].delivery] # NoRow
          /\ worker[w].step \in {"claim", "enter", "settle"} => worker[w].seen = "Waiting"
          /\ worker[w].step \in {"release", "close", "finish"} => worker[w].seen = "Managing"

LoopPart == loop \in [step : LoopSteps, placed : BOOLEAN]

RowPart ==
    /\ status \in Statuses /\ position \in Int
    /\ deleting \in BOOLEAN /\ stale \in BOOLEAN /\ abandoned \in BOOLEAN
    /\ resumes \in Nat /\ rejects \in Nat /\ crashes \in Nat /\ failures \in Nat

DeliveryInv == LogPart /\ RequestPart /\ QueuePart
TypeInv == DeliveryInv /\ WorkerPart /\ LoopPart /\ RowPart

\* At first nothing was delivered and nobody is at work.
LEMMA TypeInit == Init => TypeInv
<1> SUFFICES ASSUME Init PROVE TypeInv
  OBVIOUS
<1> USE DEF Init, WebhookInit
<1>1. LogPart /\ RequestPart
  BY DEF LogPart, RequestPart, RequestSteps
<1>2. QueuePart
  BY DEF QueuePart, IsInjective
<1>3. WorkerPart
  BY DEF WorkerPart, WorkerSteps, Free
<1>4. LoopPart
  BY DEF LoopPart, LoopSteps, Sleeping
<1>5. RowPart
  <2>1. deleting \in BOOLEAN /\ stale \in BOOLEAN /\ abandoned \in BOOLEAN
    OBVIOUS
  <2>2. /\ status \in Statuses /\ position \in Int
        /\ resumes \in Nat /\ rejects \in Nat /\ crashes \in Nat /\ failures \in Nat
    BY DEF Statuses
  <2> QED BY <2>1, <2>2 DEF RowPart
<1> QED BY <1>1, <1>2, <1>3, <1>4, <1>5 DEF TypeInv, DeliveryInv

\* No row that is recorded is NoRow.
LEMMA RowsAreRows == \A r \in LogRows : r # NoRow
BY PipelineAssumption DEF LogRows, NoRow

\* A new outcome leaves a recorded row recorded, and the others as they are.
LEMMA OutcomeKeepsRows ==
    ASSUME LogPart, NEW d \in Deliveries, log[d] # NoRow, NEW o \in Outcomes, log' = WithOutcome(d, o)
    PROVE  LogPart' /\ \A e \in Deliveries : log[e] # NoRow => log'[e] # NoRow
<1> DEFINE r == [log[d] EXCEPT !.outcome = o]
<1>1. log[d] \in LogRows
  BY DEF LogPart
<1>2. r \in LogRows
  BY <1>1 DEF LogRows
<1>3. log' = [log EXCEPT ![d] = r]
  BY DEF WithOutcome
<1> HIDE DEF r
<1> QED BY <1>2, <1>3, RowsAreRows DEF LogPart

\* One request goes on, the others stay where they are.
LEMMA RequestMoves ==
    ASSUME request \in [Deliveries -> [step : RequestSteps, payload : Payloads \cup {"none"}]],
           NEW d \in Deliveries, NEW step \in RequestSteps, Goto(d, step)
    PROVE  /\ request' \in [Deliveries -> [step : RequestSteps, payload : Payloads \cup {"none"}]]
           /\ request'[d].step = step /\ request'[d].payload = request[d].payload
           /\ \A e \in Deliveries \ {d} : request'[e] = request[e]
BY DEF Goto

\* A request of a delivery that is not queued may go anywhere its row allows.
LEMMA UnqueuedMoves ==
    ASSUME DeliveryInv, NEW d \in Deliveries, LogPart',
           \A e \in Deliveries : log[e] # NoRow => log'[e] # NoRow,
           request[d].step \notin {"accept", "done"}, UNCHANGED queue,
           request' \in [Deliveries -> [step : RequestSteps, payload : Payloads \cup {"none"}]],
           \A e \in Deliveries \ {d} : request'[e] = request[e],
           request'[d].step \in {"lookup", "insert", "insert_duplicate"} => request'[d].payload \in Payloads,
           request'[d].step \in {"mark", "enqueue", "accept"} => log'[d] # NoRow
    PROVE  DeliveryInv'
<1>1. RequestPart'
  BY DEF DeliveryInv, RequestPart
<1>2. QueuePart'
  <2>1. \A i \in 1 .. Len(queue) : queue[i] \in Deliveries \ {d}
    BY DEF DeliveryInv, QueuePart
  <2> QED BY <2>1 DEF DeliveryInv, QueuePart
<1> QED BY <1>1, <1>2 DEF DeliveryInv

\* The steps of one request.
LEMMA RequestTypes ==
    ASSUME DeliveryInv, NEW d \in Deliveries, WebhookStep(d)
    PROVE  DeliveryInv' /\ \A e \in Deliveries : log[e] # NoRow => log'[e] # NoRow
<1>1. LogPart /\ RequestPart /\ QueuePart
  BY DEF DeliveryInv
<1>2. CASE Lookup(d)
  <2>1. PICK step \in {"insert", "insert_duplicate"} : Goto(d, step)
    BY <1>2 DEF Lookup
  <2>2. request[d].step = "lookup" /\ UNCHANGED <<log, queue>>
    BY <1>2 DEF Lookup
  <2>3. step \in RequestSteps
    BY DEF RequestSteps
  <2>4. LogPart' /\ request[d].payload \in Payloads
    BY <1>1, <2>2 DEF LogPart, RequestPart
  <2>5. DeliveryInv'
    BY <1>1, <2>1, <2>2, <2>3, <2>4, RequestMoves, UnqueuedMoves DEF RequestPart
  <2> QED BY <2>2, <2>5
<1>3. CASE RecordReceived(d)
  <2> DEFINE r == [payload |-> request[d].payload, outcome |-> "received", recent |-> TRUE]
  <2>1. PICK step \in {"enqueue", "mark"} : Goto(d, step)
    BY <1>3 DEF RecordReceived
  <2>2. request[d].step \in {"insert", "insert_duplicate"} /\ UNCHANGED queue
        /\ log' = [log EXCEPT ![d] = r]
    BY <1>3 DEF RecordReceived
  <2>3. r \in LogRows
    BY <1>1, <2>2 DEF RequestPart, LogRows, Outcomes
  <2>4. step \in RequestSteps
    BY DEF RequestSteps
  <2> HIDE DEF r
  <2>5. LogPart' /\ \A e \in Deliveries : log[e] # NoRow => log'[e] # NoRow
    BY <1>1, <2>2, <2>3, RowsAreRows DEF LogPart
  <2>6. log'[d] # NoRow
    BY <1>1, <2>2, <2>3, RowsAreRows DEF LogPart
  <2>7. DeliveryInv'
    BY <1>1, <2>1, <2>2, <2>4, <2>5, <2>6, RequestMoves, UnqueuedMoves DEF RequestPart
  <2> QED BY <2>5, <2>7
<1>4. CASE MarkDuplicate(d) \/ RefuseRequest(d)
  <2>1. PICK o \in {"duplicate", "rejected"} : log' = WithOutcome(d, o)
    BY <1>4 DEF MarkDuplicate, RefuseRequest
  <2>2. request[d].step \in {"mark", "enqueue"} /\ Goto(d, "done") /\ UNCHANGED queue
    BY <1>4 DEF MarkDuplicate, RefuseRequest
  <2>3. o \in Outcomes /\ "done" \in RequestSteps
    BY DEF Outcomes, RequestSteps
  <2>4. LogPart' /\ \A e \in Deliveries : log[e] # NoRow => log'[e] # NoRow
    BY <1>1, <2>1, <2>2, <2>3, OutcomeKeepsRows DEF RequestPart
  <2>5. DeliveryInv'
    BY <1>1, <2>2, <2>3, <2>4, RequestMoves, UnqueuedMoves DEF RequestPart
  <2> QED BY <2>4, <2>5
<1>5. CASE EnqueueSignal(d)
  <2>1. request[d].step = "enqueue" /\ Goto(d, "accept") /\ queue' = Append(queue, d) /\ log' = log
    BY <1>5 DEF EnqueueSignal
  <2>2. "accept" \in RequestSteps
    BY DEF RequestSteps
  <2>3. /\ request' \in [Deliveries -> [step : RequestSteps, payload : Payloads \cup {"none"}]]
        /\ request'[d].step = "accept"
        /\ \A e \in Deliveries \ {d} : request'[e] = request[e]
    BY <1>1, <2>1, <2>2, RequestMoves DEF RequestPart
  <2>4. LogPart' /\ RequestPart'
    BY <1>1, <2>1, <2>3 DEF LogPart, RequestPart
  <2>5. \A i \in 1 .. Len(queue) : queue[i] \in Deliveries \ {d}
    BY <1>1, <2>1 DEF QueuePart
  <2>6. /\ queue' \in Seq(Deliveries) /\ Len(queue') = Len(queue) + 1 /\ queue'[Len(queue) + 1] = d
        /\ \A i \in 1 .. Len(queue) : queue'[i] = queue[i]
    BY <1>1, <2>1 DEF QueuePart
  <2>7. IsInjective(queue')
    BY <1>1, <2>5, <2>6 DEF QueuePart, IsInjective
  <2>8. \A i \in 1 .. Len(queue') : log[queue'[i]] # NoRow /\ request'[queue'[i]].step \in {"accept", "done"}
    BY <1>1, <2>1, <2>3, <2>5, <2>6 DEF QueuePart, RequestPart
  <2> QED BY <2>1, <2>4, <2>6, <2>7, <2>8 DEF DeliveryInv, QueuePart
<1>6. CASE Accepted(d)
  <2>1. request[d].step = "accept" /\ Goto(d, "done") /\ UNCHANGED queue /\ log' = WithOutcome(d, "accepted")
    BY <1>6 DEF Accepted
  <2>2. "accepted" \in Outcomes /\ "done" \in RequestSteps
    BY DEF Outcomes, RequestSteps
  <2>3. LogPart' /\ \A e \in Deliveries : log[e] # NoRow => log'[e] # NoRow
    BY <1>1, <2>1, <2>2, OutcomeKeepsRows DEF RequestPart
  <2>4. /\ request' \in [Deliveries -> [step : RequestSteps, payload : Payloads \cup {"none"}]]
        /\ request'[d].step = "done"
        /\ \A e \in Deliveries \ {d} : request'[e] = request[e]
    BY <1>1, <2>1, <2>2, RequestMoves DEF RequestPart
  <2>5. RequestPart'
    BY <1>1, <2>3, <2>4 DEF RequestPart
  <2>6. QueuePart'
    BY <1>1, <2>1, <2>3, <2>4 DEF QueuePart
  <2> QED BY <2>3, <2>5, <2>6 DEF DeliveryInv
<1> QED BY <1>2, <1>3, <1>4, <1>5, <1>6 DEF WebhookStep

\* Every step of the route.
LEMMA WebhookTypes ==
    ASSUME DeliveryInv, WebhookNext
    PROVE  DeliveryInv' /\ \A e \in Deliveries : log[e] # NoRow => log'[e] # NoRow
<1>1. LogPart /\ RequestPart /\ QueuePart
  BY DEF DeliveryInv
<1>2. ASSUME NEW d \in Deliveries, NEW p \in Payloads, Arrive(d, p)
      PROVE  DeliveryInv' /\ \A e \in Deliveries : log[e] # NoRow => log'[e] # NoRow
  <2>1. /\ request[d].step = "absent" /\ UNCHANGED <<log, queue>>
        /\ request' = [request EXCEPT ![d] = [step |-> "lookup", payload |-> p]]
    BY <1>2 DEF Arrive
  <2>2. "lookup" \in RequestSteps
    BY DEF RequestSteps
  <2>3. /\ request' \in [Deliveries -> [step : RequestSteps, payload : Payloads \cup {"none"}]]
        /\ request'[d].step = "lookup" /\ request'[d].payload = p
        /\ \A e \in Deliveries \ {d} : request'[e] = request[e]
    BY <1>1, <2>1, <2>2 DEF RequestPart
  <2>4. LogPart'
    BY <1>1, <2>1 DEF LogPart
  <2> QED BY <2>1, <2>3, <2>4, UnqueuedMoves
<1>3. ASSUME NEW d \in Deliveries, WindowEnds(d)
      PROVE  DeliveryInv' /\ \A e \in Deliveries : log[e] # NoRow => log'[e] # NoRow
  <2> DEFINE r == [log[d] EXCEPT !.recent = FALSE]
  <2>1. log[d].recent /\ log' = [log EXCEPT ![d] = r] /\ UNCHANGED <<request, queue>>
    BY <1>3 DEF WindowEnds
  <2>2. log[d] \in LogRows
    BY <1>1, <2>1 DEF LogPart, NoRow
  <2>3. r \in LogRows
    BY <2>2 DEF LogRows
  <2> HIDE DEF r
  <2>4. LogPart' /\ \A e \in Deliveries : log[e] # NoRow => log'[e] # NoRow
    BY <1>1, <2>1, <2>3, RowsAreRows DEF LogPart
  <2>5. RequestPart' /\ QueuePart'
    BY <1>1, <2>1, <2>4 DEF RequestPart, QueuePart
  <2> QED BY <2>4, <2>5 DEF DeliveryInv
<1> QED BY <1>2, <1>3, RequestTypes DEF WebhookNext

\* A crash ends the requests and empties the queue, and the rows stay.
LEMMA CrashTypes ==
    ASSUME TypeInv, Crash
    PROVE  TypeInv'
<1>1. LogPart /\ RequestPart /\ QueuePart /\ WorkerPart /\ LoopPart /\ RowPart
  BY DEF TypeInv, DeliveryInv
<1>2. /\ request' = [d \in Deliveries |-> IF request[d].step = "absent" THEN request[d]
                                          ELSE [request[d] EXCEPT !.step = "done"]]
      /\ queue' = <<>> /\ log' = log
      /\ worker' = [w \in Workers |-> Free] /\ loop' = Sleeping /\ deleting' = FALSE
      /\ crashes' = crashes + 1 /\ UNCHANGED <<status, position, resumes, rejects, failures, stale>>
      /\ abandoned' = (abandoned \/ InFlight)
  BY DEF Crash, WebhookCrash
<1>3. LogPart'
  BY <1>1, <1>2 DEF LogPart
<1>4. RequestPart'
  <2>1. ASSUME NEW d \in Deliveries
        PROVE  /\ request'[d] \in [step : RequestSteps, payload : Payloads \cup {"none"}]
               /\ request'[d].step \in {"absent", "done"}
    BY <1>1, <1>2 DEF RequestPart, RequestSteps
  <2> QED BY <1>2, <2>1 DEF RequestPart
<1>5. QueuePart'
  BY <1>2 DEF QueuePart, IsInjective
<1>6. WorkerPart'
  BY <1>2 DEF WorkerPart, WorkerSteps, Free
<1>7. LoopPart'
  BY <1>2 DEF LoopPart, LoopSteps, Sleeping
<1>8. RowPart'
  <2>1. deleting' \in BOOLEAN /\ stale' \in BOOLEAN
    BY <1>1, <1>2 DEF RowPart
  <2>2. abandoned' \in BOOLEAN
    BY <1>2
  <2>3. /\ status' \in Statuses /\ position' \in Int
        /\ resumes' \in Nat /\ rejects' \in Nat /\ crashes' \in Nat /\ failures' \in Nat
    BY <1>1, <1>2 DEF RowPart
  <2> QED BY <2>1, <2>2, <2>3 DEF RowPart
<1> QED BY <1>3, <1>4, <1>5, <1>6, <1>7, <1>8 DEF TypeInv, DeliveryInv

-----------------------------------------------------------------------------
WorkerRecords == [step : WorkerSteps, delivery : Deliveries \cup {"none"}, seen : Statuses \cup {"none"}]

\* What the invariant asks of a worker's record, given the rows.
RecordFits(r) ==
    /\ r \in WorkerRecords
    /\ r.step = "idle" => r = Free
    /\ r.step # "idle" => r.delivery \in Deliveries /\ log[r.delivery] # NoRow
    /\ r.step \in {"claim", "enter", "settle"} => r.seen = "Waiting"
    /\ r.step \in {"release", "close", "finish"} => r.seen = "Managing"

LEMMA PartOfRecords ==
    WorkerPart <=> worker \in [Workers -> WorkerRecords] /\ \A w \in Workers : RecordFits(worker[w])
BY DEF WorkerPart, RecordFits, WorkerRecords

\* A worker that changes its record for one that fits, while rows stay recorded.
LEMMA RecordChanges ==
    ASSUME WorkerPart, NEW w \in Workers, NEW r, RecordFits(r), worker' = [worker EXCEPT ![w] = r],
           \A e \in Deliveries : log[e] # NoRow => log'[e] # NoRow
    PROVE  WorkerPart'
<1>1. worker \in [Workers -> WorkerRecords] /\ \A v \in Workers : RecordFits(worker[v])
  BY PartOfRecords
<1>2. worker' \in [Workers -> WorkerRecords]
  BY <1>1 DEF RecordFits
<1>3. \A v \in Workers : RecordFits(worker'[v])
  BY <1>1
<1>4. ASSUME NEW v \in Workers PROVE RecordFits(worker[v])'
  BY <1>3 DEF RecordFits
<1> QED BY <1>2, <1>4 DEF WorkerPart, RecordFits, WorkerRecords

\* A worker that only goes on with a step.
LEMMA StepFits ==
    ASSUME WorkerPart, NEW w \in Workers, NEW step \in WorkerSteps \ {"idle"}, WorkerTo(w, step),
           worker[w].step # "idle", UNCHANGED log,
           step \in {"claim", "enter", "settle"} => worker[w].step \in {"claim", "enter", "settle"},
           step \in {"release", "close", "finish"} => worker[w].step \in {"release", "close", "finish"}
    PROVE  WorkerPart'
<1> DEFINE r == [worker[w] EXCEPT !.step = step]
<1>1. RecordFits(worker[w])
  BY PartOfRecords
<1>2. r \in WorkerRecords /\ r.step = step /\ r.delivery = worker[w].delivery /\ r.seen = worker[w].seen
  BY <1>1 DEF RecordFits, WorkerRecords
<1>3. worker' = [worker EXCEPT ![w] = r]
  BY DEF WorkerTo
<1> HIDE DEF r
<1>4. RecordFits(r)
  BY <1>1, <1>2 DEF RecordFits
<1> QED BY <1>3, <1>4, RecordChanges

\* A worker that is done is as it was at first.
LEMMA FreeFits == RecordFits(Free)
BY DEF RecordFits, WorkerRecords, WorkerSteps, Free

\* Taking, refusing, loading and reporting a signal.
LEMMA SignalTypes ==
    ASSUME TypeInv, NEW w \in Workers,
           TakeSignal(w) \/ RefuseSignal(w) \/ LoadDeployment(w) \/ Report(w)
    PROVE  TypeInv'
<1>1. LogPart /\ RequestPart /\ QueuePart /\ WorkerPart /\ LoopPart /\ RowPart
  BY DEF TypeInv, DeliveryInv
<1>2. RecordFits(worker[w])
  BY <1>1, PartOfRecords
<1>3. UNCHANGED <<request, status, position, loop, deleting, resumes, rejects, crashes, stale,
                  failures, abandoned>>
  BY DEF TakeSignal, RefuseSignal, LoadDeployment, Report, counts, trouble, webhookVars
<1>4. LoopPart' /\ RowPart'
  BY <1>1, <1>3 DEF LoopPart, RowPart
<1>5. CASE TakeSignal(w)
  <2> DEFINE d == Head(queue)
             r == [Free EXCEPT !.step = "load", !.delivery = d]
  <2>1. queue \in Seq(Deliveries) /\ queue # <<>> /\ queue' = Tail(queue) /\ log' = log /\ d = queue[1]
    BY <1>1, <1>5 DEF TakeSignal, QueuePart
  <2>2. worker' = [worker EXCEPT ![w] = r]
    BY <1>5 DEF TakeSignal
  <2>3. d \in Deliveries /\ log[d] # NoRow
    BY <1>1, <2>1 DEF QueuePart
  <2>4. /\ queue' \in Seq(Deliveries) /\ Len(queue') = Len(queue) - 1 /\ Len(queue) \in Nat
        /\ \A i \in 1 .. Len(queue') : queue'[i] = queue[i + 1] /\ i + 1 \in 1 .. Len(queue)
    BY <2>1
  <2>5. IsInjective(queue')
    <3> SUFFICES ASSUME NEW i \in 1 .. Len(queue'), NEW j \in 1 .. Len(queue'), queue'[i] = queue'[j]
                 PROVE  i = j
      BY <2>4 DEF IsInjective
    <3>1. queue[i + 1] = queue[j + 1] /\ i + 1 \in DOMAIN queue /\ j + 1 \in DOMAIN queue
      BY <2>1, <2>4
    <3>2. i + 1 = j + 1
      BY <1>1, <3>1 DEF QueuePart, IsInjective
    <3> QED BY <2>4, <3>2
  <2>6. LogPart' /\ RequestPart'
    BY <1>1, <1>3, <2>1 DEF LogPart, RequestPart
  <2>7. QueuePart'
    <3>1. ASSUME NEW i \in 1 .. Len(queue')
          PROVE  log'[queue'[i]] # NoRow /\ request'[queue'[i]].step \in {"accept", "done"}
      BY <1>1, <1>3, <2>1, <2>4 DEF QueuePart
    <3> QED BY <2>4, <2>5, <3>1 DEF QueuePart
  <2> HIDE DEF d
  <2>8. r \in [step : {"load"}, delivery : {d}, seen : {"none"}]
    BY DEF Free
  <2>9. RecordFits(r)
    <3> HIDE DEF r
    <3> QED BY <2>8, <2>3 DEF RecordFits, WorkerRecords, WorkerSteps
  <2> HIDE DEF r
  <2>10. WorkerPart'
    BY <1>1, <2>1, <2>2, <2>9, RecordChanges
  <2> QED BY <1>4, <2>6, <2>7, <2>10 DEF TypeInv, DeliveryInv
<1>6. CASE LoadDeployment(w)
  <2> DEFINE next == ReactionTo(status, request[worker[w].delivery].payload)
             r == [worker[w] EXCEPT !.seen = status, !.step = next]
  <2>1. /\ next \in {"claim", "release", "report"}
        /\ next = "claim" => status = "Waiting"
        /\ next = "release" => status = "Managing"
    BY DEF ReactionTo
  <2>2. worker' = [worker EXCEPT ![w] = r] /\ worker[w].step = "load" /\ UNCHANGED <<log, queue>>
    BY <1>6 DEF LoadDeployment, webhookVars
  <2> HIDE DEF next
  <2>3. r \in WorkerRecords /\ r.step = next /\ r.seen = status /\ r.delivery = worker[w].delivery
    BY <1>1, <1>2, <2>1 DEF RecordFits, WorkerRecords, WorkerSteps, RowPart
  <2> HIDE DEF r
  <2>4. RecordFits(r)
    BY <1>2, <2>1, <2>2, <2>3 DEF RecordFits
  <2>5. WorkerPart'
    BY <1>1, <2>2, <2>4, RecordChanges
  <2>6. LogPart' /\ RequestPart' /\ QueuePart'
    BY <1>1, <1>3, <2>2 DEF LogPart, RequestPart, QueuePart
  <2> QED BY <1>4, <2>5, <2>6 DEF TypeInv, DeliveryInv
<1>7. CASE RefuseSignal(w) \/ Report(w)
  <2>1. PICK o \in {"rejected", "processed"} : log' = WithOutcome(worker[w].delivery, o)
    BY <1>7 DEF RefuseSignal, Report
  <2>2. worker' = [worker EXCEPT ![w] = Free] /\ worker[w].step # "idle" /\ queue' = queue
    BY <1>7 DEF RefuseSignal, Report
  <2>3. worker[w].delivery \in Deliveries /\ log[worker[w].delivery] # NoRow /\ o \in Outcomes
    BY <1>2, <2>2 DEF RecordFits, Outcomes
  <2>4. LogPart' /\ \A e \in Deliveries : log[e] # NoRow => log'[e] # NoRow
    BY <1>1, <2>1, <2>3, OutcomeKeepsRows
  <2>5. RequestPart' /\ QueuePart'
    BY <1>1, <1>3, <2>2, <2>4 DEF RequestPart, QueuePart
  <2>6. WorkerPart'
    BY <1>1, <2>2, <2>4, FreeFits, RecordChanges
  <2> QED BY <1>4, <2>4, <2>5, <2>6 DEF TypeInv, DeliveryInv
<1> QED BY <1>5, <1>6, <1>7

\* What a status write leaves, whether it fails or not.
LEMMA WriteIsTyped ==
    ASSUME RowPart, NEW s \in Statuses, SetStatus(s) \/ LeaveAs(s)
    PROVE  status' \in Statuses /\ failures' \in Nat /\ abandoned' \in BOOLEAN
<1>1. CASE SetStatus(s)
  BY <1>1 DEF SetStatus, Fails, RowPart
<1>2. CASE Fails /\ UNCHANGED status /\ abandoned' = TRUE
  BY <1>2 DEF Fails, RowPart
<1>3. CASE status' = (IF status = "deleted" THEN status ELSE s) /\ UNCHANGED trouble
  BY <1>3 DEF trouble, RowPart
<1> QED BY <1>1, <1>2, <1>3 DEF LeaveAs

\* Whether somebody acted on an old status is known.
LEMMA StaleIsTyped ==
    ASSUME RowPart, NEW s, ActOn(s)
    PROVE  stale' \in BOOLEAN
BY DEF ActOn, RowPart

\* An order that is taken or refused.
LEMMA OrderIsTyped ==
    ASSUME RowPart, NEW lots \in Int, Order(lots)
    PROVE  position' \in Int /\ rejects' \in Nat
BY DEF Order, RowPart

\* The columns of the deployment, each with its type.
LEMMA RowTyped ==
    ASSUME RowPart, status' \in Statuses, position' \in Int, rejects' \in Nat, resumes' \in Nat,
           UNCHANGED crashes, failures' \in Nat,
           deleting' \in BOOLEAN, stale' \in BOOLEAN, abandoned' \in BOOLEAN
    PROVE  RowPart'
BY DEF RowPart

\* A worker that claims, enters, leaves, fails or settles.
LEMMA ActingTypes ==
    ASSUME TypeInv, NEW w \in Workers,
           \/ Claim(w) \/ Fail(w) \/ PlaceEntry(w) \/ SettleEntry(w)
           \/ BeginExit(w) \/ PlaceExit(w) \/ FinishExit(w)
    PROVE  TypeInv'
<1>1. LogPart /\ RequestPart /\ QueuePart /\ WorkerPart /\ LoopPart /\ RowPart
  BY DEF TypeInv, DeliveryInv
<1>2. UNCHANGED <<log, request, queue, loop, deleting, resumes, crashes>>
  BY DEF Claim, Fail, PlaceEntry, SettleEntry, BeginExit, PlaceExit, FinishExit, counts, webhookVars
<1>3. LogPart' /\ RequestPart' /\ QueuePart' /\ LoopPart'
  BY <1>1, <1>2 DEF LogPart, RequestPart, QueuePart, LoopPart
<1>4. WorkerPart'
  <2>1. PICK step \in WorkerSteps \ {"idle"} :
            /\ WorkerTo(w, step) /\ worker[w].step # "idle"
            /\ step \in {"claim", "enter", "settle"} => worker[w].step \in {"claim", "enter", "settle"}
            /\ step \in {"release", "close", "finish"} => worker[w].step \in {"release", "close", "finish"}
    <3>1. {"report", "enter", "settle", "close", "finish"} \subseteq WorkerSteps \ {"idle"}
      BY DEF WorkerSteps
    <3> QED BY <3>1 DEF Claim, Fail, PlaceEntry, SettleEntry, BeginExit, PlaceExit, FinishExit
  <2> QED BY <1>1, <1>2, <2>1, StepFits
<1>5. status' \in Statuses /\ failures' \in Nat /\ abandoned' \in BOOLEAN
  <2>1. {"Entering", "Error", "Managing", "Waiting"} \subseteq Statuses
    BY DEF Statuses
  <2>2. CASE Claim(w)
    BY <1>1, <2>1, <2>2 DEF Claim, Fails, RowPart
  <2>3. CASE PlaceEntry(w) \/ PlaceExit(w)
    BY <1>1, <2>3 DEF PlaceEntry, PlaceExit, trouble, RowPart
  <2>4. CASE Fail(w) \/ SettleEntry(w) \/ BeginExit(w) \/ FinishExit(w)
    <3>1. PICK s \in Statuses : SetStatus(s) \/ LeaveAs(s)
      BY <2>1, <2>4 DEF Fail, SettleEntry, BeginExit, FinishExit
    <3> QED BY <1>1, <3>1, WriteIsTyped
  <2> QED BY <2>2, <2>3, <2>4
<1>6. stale' \in BOOLEAN
  <2>1. CASE UNCHANGED stale
    BY <1>1, <2>1 DEF RowPart
  <2>2. UNCHANGED stale \/ \E s \in Statuses : ActOn(s)
    <3>1. {"Waiting", "Managing"} \subseteq Statuses
      BY DEF Statuses
    <3> QED BY <3>1 DEF Claim, Fail, PlaceEntry, SettleEntry, BeginExit, PlaceExit, FinishExit
  <2> QED BY <1>1, <2>1, <2>2, StaleIsTyped
<1>7. position' \in Int /\ rejects' \in Nat
  <2>1. \/ Order(1) \/ Order(-1)
        \/ UNCHANGED <<position, rejects>>
    BY DEF Claim, Fail, PlaceEntry, SettleEntry, BeginExit, PlaceExit, FinishExit, counts
  <2>2. 1 \in Int /\ -1 \in Int
    OBVIOUS
  <2>3. CASE UNCHANGED <<position, rejects>>
    BY <1>1, <2>3 DEF RowPart
  <2> QED BY <1>1, <2>1, <2>2, <2>3, OrderIsTyped
<1>8. deleting' \in BOOLEAN
  BY <1>1, <1>2 DEF RowPart
<1>9. resumes' \in Nat
  BY <1>1, <1>2 DEF RowPart
<1>10. RowPart'
  BY <1>1, <1>2, <1>5, <1>6, <1>7, <1>8, <1>9, RowTyped
<1> QED BY <1>3, <1>4, <1>10 DEF TypeInv, DeliveryInv

\* The loop and the user.
LEMMA LoopAndUserTypes ==
    ASSUME TypeInv,
           \/ LoopStep \/ Halt \/ Resume \/ RequestDelete \/ Delete
           \/ \E w \in Workers : FailOutside(w)
    PROVE  TypeInv'
<1>1. LogPart /\ RequestPart /\ QueuePart /\ WorkerPart /\ LoopPart /\ RowPart
  BY DEF TypeInv, DeliveryInv
<1> USE DEF LoopStep, Wake, Heartbeat, Decline, Trigger, GiveUp, PlaceTriggered, SettleTriggered,
            RaiseInLoop, Halt, Resume, RequestDelete, Delete, FailOutside
<1>2. UNCHANGED <<log, request, queue, worker, crashes>>
  BY DEF counts, webhookVars, actors
<1>3. LogPart' /\ RequestPart' /\ QueuePart' /\ WorkerPart'
  BY <1>1, <1>2 DEF LogPart, RequestPart, QueuePart, WorkerPart
<1>4. LoopPart'
  <2>1. \/ UNCHANGED loop
        \/ \E step \in {"check", "sleep", "place"} : LoopTo(step)
        \/ loop' = [step |-> "settle", placed |-> rejects' = rejects]
    BY DEF actors
  <2>2. CASE UNCHANGED loop
    BY <1>1, <2>2 DEF LoopPart
  <2>3. ASSUME NEW step \in {"check", "sleep", "place"}, LoopTo(step) PROVE LoopPart'
    <3>1. loop' = [step |-> step, placed |-> FALSE] /\ step \in LoopSteps
      BY <2>3 DEF LoopTo, Sleeping, LoopSteps
    <3> QED BY <3>1 DEF LoopPart
  <2>4. CASE loop' = [step |-> "settle", placed |-> rejects' = rejects]
    <3> DEFINE placed == rejects' = rejects
    <3>1. placed \in BOOLEAN /\ "settle" \in LoopSteps
      BY DEF LoopSteps
    <3>2. loop' = [step |-> "settle", placed |-> placed]
      BY <2>4
    <3> HIDE DEF placed
    <3> QED BY <3>1, <3>2 DEF LoopPart
  <2> QED BY <2>1, <2>2, <2>3, <2>4
<1>5. status' \in Statuses /\ failures' \in Nat /\ abandoned' \in BOOLEAN
  <2>1. {"Entering", "Error", "Managing", "Waiting", "deleted"} \cup Halts \subseteq Statuses /\ status \in Statuses
    BY <1>1, PipelineAssumption DEF Statuses, RowPart
  <2>2. \/ status' \in {status, "deleted"} /\ UNCHANGED <<failures, abandoned>>
        \/ status' = status /\ failures' = failures + 1 /\ abandoned' = TRUE
        \/ \E s \in {"Entering", "Error", "Managing", "Waiting", "deleted"} \cup Halts : SetStatus(s) \/ LeaveAs(s)
    BY DEF trouble, Fails
  <2>3. CASE status' \in {status, "deleted"} /\ UNCHANGED <<failures, abandoned>>
    BY <1>1, <2>1, <2>3 DEF RowPart
  <2>4. CASE status' = status /\ failures' = failures + 1 /\ abandoned' = TRUE
    BY <1>1, <2>4 DEF RowPart
  <2>5. ASSUME NEW s \in Statuses, SetStatus(s) \/ LeaveAs(s)
        PROVE  status' \in Statuses /\ failures' \in Nat /\ abandoned' \in BOOLEAN
    BY <1>1, <2>5, WriteIsTyped
  <2> QED BY <2>1, <2>2, <2>3, <2>4, <2>5
<1>6. stale' \in BOOLEAN
  <2>1. CASE UNCHANGED stale
    BY <1>1, <2>1 DEF RowPart
  <2>2. UNCHANGED stale \/ ActOn("Waiting")
    OBVIOUS
  <2> QED BY <1>1, <2>1, <2>2, StaleIsTyped
<1>7. position' \in Int /\ rejects' \in Nat
  <2>1. Order(1) \/ UNCHANGED <<position, rejects>>
    BY DEF counts
  <2>2. CASE UNCHANGED <<position, rejects>>
    BY <1>1, <2>2 DEF RowPart
  <2> QED BY <1>1, <2>1, <2>2, OrderIsTyped
<1>8. resumes' \in Nat
  <2>1. resumes' \in {resumes, resumes + 1}
    BY DEF counts
  <2> QED BY <1>1, <2>1 DEF RowPart
<1>9. deleting' \in BOOLEAN
  <2>1. CASE UNCHANGED deleting
    BY <1>1, <2>1 DEF RowPart
  <2>2. CASE deleting' = TRUE
    BY <2>2
  <2>3. CASE deleting' = FALSE
    BY <2>3
  <2>4. UNCHANGED deleting \/ deleting' = TRUE \/ deleting' = FALSE
    OBVIOUS
  <2> QED BY <2>1, <2>2, <2>3, <2>4
<1>10. RowPart'
  BY <1>1, <1>2, <1>5, <1>6, <1>7, <1>8, <1>9, RowTyped
<1> QED BY <1>3, <1>4, <1>10 DEF TypeInv, DeliveryInv

\* Every step keeps the types.
LEMMA TypeNext ==
    ASSUME TypeInv, [Next]_vars
    PROVE  TypeInv'
<1>1. CASE UNCHANGED vars
  <2>1. UNCHANGED <<log, request, queue, status, position, worker, loop, deleting, resumes, rejects, crashes,
                    stale, failures, abandoned>>
    BY <1>1 DEF vars, webhookVars, actors, counts, trouble
  <2> QED BY <2>1 DEF TypeInv, DeliveryInv, LogPart, RequestPart, QueuePart, WorkerPart, LoopPart, RowPart
<1>2. CASE Webhooks
  <2>1. /\ UNCHANGED <<status, position, worker, loop, deleting, resumes, rejects, crashes, stale,
                       failures, abandoned>>
        /\ WebhookNext
    BY <1>2 DEF Webhooks, actors, counts, trouble
  <2>2. DeliveryInv' /\ \A e \in Deliveries : log[e] # NoRow => log'[e] # NoRow
    BY <2>1, WebhookTypes DEF TypeInv
  <2>3. WorkerPart'
    BY <2>1, <2>2 DEF TypeInv, WorkerPart
  <2>4. LoopPart' /\ RowPart'
    BY <2>1 DEF TypeInv, LoopPart, RowPart
  <2> QED BY <2>2, <2>3, <2>4 DEF TypeInv
<1>3. ASSUME NEW w \in Workers, WorkerStep(w) PROVE TypeInv'
  BY <1>3, SignalTypes, ActingTypes, LoopAndUserTypes DEF WorkerStep
<1>4. CASE LoopStep \/ Halt \/ Resume \/ RequestDelete \/ Delete
  BY <1>4, LoopAndUserTypes
<1>5. CASE Crash
  BY <1>5, CrashTypes
<1> QED BY <1>1, <1>2, <1>3, <1>4, <1>5 DEF Next

\* The log, the queue and the actors keep their types, for any deliveries, workers and
\* faults: no signal is queued twice, and what is reported was recorded.
THEOREM PipelineTypes == Spec => []PipelineTypeOK
<1>1. TypeInv => PipelineTypeOK
  <2> SUFFICES ASSUME TypeInv PROVE PipelineTypeOK
    OBVIOUS
  <2>1. LogPart /\ RequestPart /\ QueuePart /\ WorkerPart /\ LoopPart /\ RowPart
    BY DEF TypeInv, DeliveryInv
  <2>2. WebhookTypeOK
    <3>1. Range(queue) \subseteq Deliveries /\ IsInjective(queue)
      BY <2>1 DEF QueuePart, Range
    <3> QED BY <2>1, <3>1 DEF WebhookTypeOK, LogPart, LogRows, RequestPart
  <2>3. {deleting, stale, abandoned} \subseteq BOOLEAN
    <3>1. deleting \in BOOLEAN /\ stale \in BOOLEAN /\ abandoned \in BOOLEAN
      BY <2>1 DEF RowPart
    <3> QED BY <3>1
  <2>4. status \in Statuses /\ position \in Int /\ {resumes, rejects, crashes, failures} \subseteq Nat
    BY <2>1 DEF RowPart
  <2>5. ASSUME NEW w \in Workers
        PROVE  /\ worker[w].step \in WorkerSteps
               /\ worker[w].seen \in Statuses \cup {"none"}
               /\ worker[w].step = "idle" <=> worker[w] = Free
               /\ worker[w].step \in {"claim", "enter", "settle"} => worker[w].seen = "Waiting"
               /\ worker[w].step \in {"release", "close", "finish"} => worker[w].seen = "Managing"
    BY <2>1 DEF WorkerPart, Free
  <2> QED BY <2>1, <2>2, <2>3, <2>4, <2>5 DEF PipelineTypeOK, LoopPart
<1> QED BY <1>1, TypeInit, TypeNext, PTL DEF Spec
=============================================================================
