---------------------------- MODULE ApprovalQueue ----------------------------
(***************************************************************************)
(* Orders on their way to the broker, directly or through the approval     *)
(* queue of the semi-automatic mode: a queued order is a row that a user   *)
(* approves or rejects, each decision a request of its own, and an         *)
(* approved row is executed by the request that approved it, through the   *)
(* same gates as a direct order.  Composed with the kill switch.           *)
(***************************************************************************)
EXTENDS KillSwitch

VARIABLES row,       \* the queued order of each request
          decision,  \* what each approver is deciding
          raced,     \* history: rows looked up for two decisions at once
          unheard    \* history: rows whose execution or answer failed

queueVars == <<row, decision, raced, unheard>>
vars == <<switchVars, queueVars>>

NoRow == [status |-> "absent", broker |-> "none"]
Undecided == [on |-> "none", verdict |-> "none", step |-> "idle"]

Init ==
    /\ SwitchInit
    /\ row = [q \in Requests |-> NoRow]
    /\ decision = [a \in Approvers |-> Undecided]
    /\ raced = {} /\ unheard = {}

Decides(a, step) == decision[a].step = step
DecisionTo(a, step) == decision' = [decision EXCEPT ![a].step = step]

-----------------------------------------------------------------------------
\* An API request, or an order of a signal.
Enter(c) ==
    /\ c \in Requests \cup Signals /\ At(c, "idle")
    /\ call' = [call EXCEPT ![c] = Started(c)]
    /\ UNCHANGED <<switch, velocity, broker, press, faults, queueVars>>

\* create_pending_order, in the semi-automatic mode.
Queue(q) ==
    /\ q \in Requests /\ At(q, "risk")
    /\ row' = [row EXCEPT ![q].status = "pending"]
    /\ CallTo(q, "done")
    /\ UNCHANGED <<switch, velocity, broker, press, faults, decision, raced, unheard>>

OnHand(q) == {a \in Approvers : decision[a].on = q /\ Decides(a, "decide")}

Takes(a, q, verdict) ==
    /\ decision' = [decision EXCEPT ![a] = [on |-> q, verdict |-> verdict, step |-> "decide"]]
    /\ raced' = IF OnHand(q) = {} THEN raced ELSE raced \cup {q}
    /\ UNCHANGED <<switchVars, row, unheard>>

\* Mutant: the row is looked up by its key alone.
LookUpAny(a, q, verdict) ==
    /\ Decides(a, "idle") /\ row[q].status # "absent"
    /\ Takes(a, q, verdict)

\* The row is read as pending ...
LookUp(a, q, verdict) ==
    /\ Decides(a, "idle") /\ row[q].status = "pending"
    /\ Takes(a, q, verdict)

\* ... and written by its key alone, whatever its status is by then.
Decide(a) ==
    LET q == decision[a].on
        verdict == decision[a].verdict
    IN  /\ Decides(a, "decide")
        /\ \/ /\ row[q].status = "deleted"
              /\ DecisionTo(a, "done")
              /\ UNCHANGED row
           \/ /\ row[q].status # "deleted"
              /\ row' = [row EXCEPT ![q].status = verdict]
              /\ DecisionTo(a, IF verdict = "approved" THEN "execute" ELSE "done")
        /\ UNCHANGED <<switchVars, raced, unheard>>

\* A failure of the database or of a service, on the way of the row's order.
Fails(q) ==
    /\ faults < MaxFaults
    /\ faults' = faults + 1
    /\ unheard' = unheard \cup {q}

\* execute_approved_order: the row is read again; without a session with the
\* broker there is no order and the answer is a refusal; a row, a key or a session
\* that cannot be read ends it there, with no order and no answer.
Execute(a) ==
    LET q == decision[a].on
        noOrder == call' = [call EXCEPT ![a] = [IdleCall EXCEPT !.step = "done"]]
    IN  /\ Decides(a, "execute")
        /\ \/ /\ row[q].status # "approved"
              /\ DecisionTo(a, "done")
              /\ UNCHANGED <<call, faults, unheard>>
           \/ /\ row[q].status = "approved"
              /\ DecisionTo(a, "answer")
              /\ call' = [call EXCEPT ![a] = Started(a)] \/ noOrder
              /\ UNCHANGED <<faults, unheard>>
           \/ /\ Fails(q)
              /\ DecisionTo(a, "done")
              /\ noOrder
        /\ UNCHANGED <<switch, velocity, broker, press, row, raced>>

Reached(a) == broker[a] \notin {"none", "refused"}

\* Mutant: an order that was blocked is not answered.
AnswerPlaced(a) ==
    LET q == decision[a].on
    IN  /\ Decides(a, "answer") /\ At(a, "done")
        /\ row' = [row EXCEPT ![q].broker = IF Reached(a) THEN "placed" ELSE @]
        /\ DecisionTo(a, "done")
        /\ UNCHANGED <<switchVars, raced, unheard>>

\* update_broker_status, on a row that may be gone.  When the broker's reply is lost
\* the answer is a refusal, whatever the broker did; and the write may fail.
Answer(a) ==
    LET q == decision[a].on
        Says(answer) == row' = [row EXCEPT ![q].broker =
                                   IF row[q].status = "deleted" THEN @ ELSE answer]
    IN  /\ Decides(a, "answer") /\ At(a, "done")
        /\ \/ /\ Says(IF Reached(a) THEN "placed" ELSE "rejected")
              /\ UNCHANGED <<faults, unheard>>
           \/ /\ Fails(q)
              /\ \/ Reached(a) /\ Says("rejected")
                 \/ UNCHANGED row
        /\ DecisionTo(a, "done")
        /\ UNCHANGED <<switch, call, velocity, broker, press, raced>>

Delete(q) ==
    /\ row[q].status \in {"approved", "rejected"}
    /\ row' = [row EXCEPT ![q].status = "deleted"]
    /\ UNCHANGED <<switchVars, decision, raced, unheard>>

Crash ==
    /\ SwitchCrash
    /\ decision' = [a \in Approvers |-> [decision[a] EXCEPT !.step = IF @ \in {"idle", "done"} THEN @
                                                                     ELSE "dead"]]
    /\ UNCHANGED <<row, raced, unheard>>

-----------------------------------------------------------------------------
OrderStep ==
    \E c \in Callers : \/ AskCache(c) \/ ReadFlag(c) \/ StoreFlag(c)
                       \/ CheckVelocity(c) \/ Halt(c) \/ Halted(c) \/ Send(c)

SwitchNext ==
    \/ OrderStep
    \/ WindowPasses
    \/ \E c \in Callers : FillAtBroker(c)
    \/ \E p \in Presses : Press(p) \/ Unlock(p) \/ PressStep(p)
    \/ CacheExpires

QueueNext ==
    \/ \E q \in Requests : Queue(q) \/ Delete(q)
    \/ \E a \in Approvers, q \in Requests, verdict \in {"approved", "rejected"} : LookUp(a, q, verdict)
    \/ \E a \in Approvers : Decide(a) \/ Execute(a) \/ Answer(a)

Next ==
    \/ SwitchNext /\ UNCHANGED queueVars
    \/ \E c \in Callers : Enter(c)
    \/ QueueNext
    \/ Crash

Spec == Init /\ [][Next]_vars

-----------------------------------------------------------------------------
\* The rows and decisions have their types, and so has the switch.
TypeOK ==
    /\ SwitchTypeOK
    /\ row \in [Requests -> [status : {"absent", "pending", "approved", "rejected", "deleted"},
                             broker : {"none", "placed", "rejected"}]]
    /\ decision \in [Approvers -> [on : Requests \cup {"none"},
                                   verdict : {"none", "approved", "rejected"},
                                   step : {"idle", "decide", "execute", "answer", "done", "dead"}]]
    /\ raced \subseteq Requests /\ unheard \subseteq Requests

Executors(q) == {a \in Approvers : decision[a].on = q /\ decision[a].verdict = "approved"}

\* A queued order is sent to the broker at most once, and only if it was approved
\* and not rejected, unless two decisions about it overlapped: a decision is read
\* and written apart, so overlapping ones may both win.
QueuedOrderIsSentOnce ==
    \A q \in Requests \ raced :
        LET sent == {a \in Executors(q) : broker[a] # "none"}
        IN  /\ Cardinality(sent) <= 1
            /\ sent # {} => row[q].status \in {"approved", "deleted"}

\* What an approved row says in the end, when no request is at work on it and none
\* died: it never claims an order the broker has not taken, whatever failed; and
\* unless something failed it holds an answer, and the right one.
ApprovedRowIsAnswered ==
    \A q \in Requests \ raced :
        LET reached == \E a \in Executors(q) : Reached(a)
        IN  /\ row[q].status = "approved"
            /\ \A a \in Executors(q) : Decides(a, "done")
            => /\ row[q].broker = "placed" => reached
               /\ q \in unheard \/ row[q].broker = IF reached THEN "placed" ELSE "rejected"
=============================================================================
