--------------------------- MODULE WebhookDelivery ---------------------------
(***************************************************************************)
(* The webhook route of one strategy and its delivery log.  A request      *)
(* looks for an identical recent delivery, inserts its own row, and then   *)
(* either marks itself a duplicate or queues its signal and marks itself   *)
(* accepted.  Every one of these is a commit of its own, and requests run  *)
(* on threads of their own.  The queue lives in memory.                    *)
(***************************************************************************)
EXTENDS Naturals, Sequences, SequencesExt

CONSTANTS Deliveries,  \* the requests that may arrive
          Payloads     \* what they carry; identical payloads have one hash

VARIABLES log,      \* webhook_deliveries: a row per delivery, or NoRow
          request,  \* where the request thread of each delivery is
          queue     \* signal_queue: the deliveries whose signal waits

webhookVars == <<log, request, queue>>

NoRow == [payload |-> "none", outcome |-> "none", recent |-> FALSE]

\* "rejected" stands for both refusals of the code, rejected and failed.
Outcomes == {"received", "duplicate", "rejected", "accepted", "processed"}

\* What a request can have found when it looked for a duplicate.
RequestSteps == {"absent", "lookup", "insert", "insert_duplicate", "mark",
                 "enqueue", "accept", "done"}

WebhookTypeOK ==
    /\ \A d \in Deliveries :
          log[d] = NoRow \/ log[d] \in [payload : Payloads, outcome : Outcomes,
                                        recent : BOOLEAN]
    /\ request \in [Deliveries -> [step : RequestSteps, payload : Payloads \cup {"none"}]]
    /\ IsInjective(queue) /\ Range(queue) \subseteq Deliveries

WebhookInit ==
    /\ log = [d \in Deliveries |-> NoRow]
    /\ request = [d \in Deliveries |-> [step |-> "absent", payload |-> "none"]]
    /\ queue = <<>>

\* update_outcome: nothing is asked of the outcome it overwrites.
WithOutcome(d, outcome) == [log EXCEPT ![d].outcome = outcome]

\* Deliveries that were refused or failed do not suppress a retry.
ActedUpon == {"received", "accepted", "processed"}

FindRecentDuplicate(p) ==
    {e \in Deliveries : log[e].payload = p /\ log[e].recent
                        /\ log[e].outcome \in ActedUpon}

Goto(d, step) == request' = [request EXCEPT ![d].step = step]

Arrive(d, p) ==
    /\ request[d].step = "absent"
    /\ request' = [request EXCEPT ![d] = [step |-> "lookup", payload |-> p]]
    /\ UNCHANGED <<log, queue>>

Lookup(d) ==
    /\ request[d].step = "lookup"
    /\ Goto(d, IF FindRecentDuplicate(request[d].payload) = {}
               THEN "insert" ELSE "insert_duplicate")
    /\ UNCHANGED <<log, queue>>

RecordReceived(d) ==
    /\ request[d].step \in {"insert", "insert_duplicate"}
    /\ log' = [log EXCEPT ![d] = [payload |-> request[d].payload,
                                  outcome |-> "received", recent |-> TRUE]]
    /\ Goto(d, IF request[d].step = "insert" THEN "enqueue" ELSE "mark")
    /\ UNCHANGED queue

MarkDuplicate(d) ==
    /\ request[d].step = "mark"
    /\ log' = WithOutcome(d, "duplicate")
    /\ Goto(d, "done")
    /\ UNCHANGED queue

\* The strategy was not active, or the route raised before it queued the signal.
RefuseRequest(d) ==
    /\ request[d].step = "enqueue"
    /\ log' = WithOutcome(d, "rejected")
    /\ Goto(d, "done")
    /\ UNCHANGED queue

EnqueueSignal(d) ==
    /\ request[d].step = "enqueue"
    /\ queue' = Append(queue, d)
    /\ Goto(d, "accept")
    /\ UNCHANGED log

\* By now a worker may be done with the signal.
Accepted(d) ==
    /\ request[d].step = "accept"
    /\ log' = WithOutcome(d, "accepted")
    /\ Goto(d, "done")
    /\ UNCHANGED queue

\* WEBHOOK_DEDUP_WINDOW_SECONDS have passed since the row was inserted.
WindowEnds(d) ==
    /\ log[d].recent
    /\ log' = [log EXCEPT ![d].recent = FALSE]
    /\ UNCHANGED <<request, queue>>

WebhookStep(d) ==
    \/ Lookup(d) \/ RecordReceived(d) \/ MarkDuplicate(d)
    \/ RefuseRequest(d) \/ EnqueueSignal(d) \/ Accepted(d)

WebhookNext ==
    \E d \in Deliveries : (\E p \in Payloads : Arrive(d, p)) \/ WebhookStep(d) \/ WindowEnds(d)

\* The process dies: the rows stay, the queue and the request threads do not.
WebhookCrash ==
    /\ request' = [d \in Deliveries |->
           IF request[d].step = "absent" THEN request[d] ELSE [request[d] EXCEPT !.step = "done"]]
    /\ queue' = <<>>
    /\ UNCHANGED log
=============================================================================
