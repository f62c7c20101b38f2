--------------------------- MODULE KillSwitchProofs ---------------------------
(***************************************************************************)
(* The kill switch and the approval queue, for any requests, approvers,    *)
(* presses and bounds: the types and who holds the lock; what an armed     *)
(* switch stops; what a press leaves behind; and what becomes of a queued  *)
(* order.                                                                  *)
(***************************************************************************)
EXTENDS ApprovalQueue, Integers, FiniteSetTheorems, TLAPS

-----------------------------------------------------------------------------
(* Types. *)

\* The records as the types have them.
RowRecords == [status : {"absent", "pending", "approved", "rejected", "deleted"},
               broker : {"none", "placed", "rejected"}]
DecisionRecords == [on : Requests \cup {"none"}, verdict : {"none", "approved", "rejected"},
                    step : {"idle", "decide", "execute", "answer", "done", "dead"}]
CallRecords == [step : CallSteps, gates : 0 .. 2, seen : BOOLEAN, armed : BOOLEAN]

\* Whoever is at a gate, or has left it to read the flag, has a gate left.
GatesAreLeft == \A c \in Callers : call[c].step \in {"gate", "read", "store"} => call[c].gates > 0

\* An approver's order does not start before the row is read as approved.
ApproverWaits == \A a \in Approvers : decision[a].step \in {"idle", "decide", "execute"} => At(a, "idle")

\* A decision under way is about a row and says yes or no.
DecisionIsAboutARow ==
    \A a \in Approvers : decision[a].step # "idle" =>
        decision[a].on \in Requests /\ decision[a].verdict \in {"approved", "rejected"}

\* The type invariant and what it rests on, by what the parts speak of.
CallPart == call \in [Callers -> CallRecords] /\ GatesAreLeft /\ ApproverWaits
LockPart ==
    /\ lock \in Callers \cup Presses \cup {"free"}
    /\ \A c \in Callers : lock = c <=> At(c, "unlock")
    /\ \A p \in Presses : lock = p <=> press[p].step \in {"announce", "finish"}
FlagPart ==
    /\ flag \in {Off, On("user"), On("system")} /\ cache \in {"none", "on", "off"}
    /\ velocity \in Nat /\ faults \in 0 .. MaxFaults /\ staleFill \in BOOLEAN
BrokerPart == broker \in [Callers -> BrokerStates]
PressPart == press \in [Presses -> [step : PressSteps, older : SUBSET Callers, clean : BOOLEAN]]
RowPart ==
    /\ row \in [Requests -> RowRecords]
    /\ decision \in [Approvers -> DecisionRecords]
    /\ raced \subseteq Requests /\ unheard \subseteq Requests
    /\ DecisionIsAboutARow

TypeInv == CallPart /\ LockPart /\ FlagPart /\ BrokerPart /\ PressPart /\ RowPart

\* At first nothing is under way.
LEMMA TypeInit == Init => TypeInv
<1> SUFFICES ASSUME Init PROVE TypeInv
  OBVIOUS
<1> USE DEF Init, SwitchInit
<1>1. CallPart
  BY DEF CallPart, CallRecords, IdleCall, CallSteps, GatesAreLeft, ApproverWaits, At, Callers
<1>2. LockPart
  BY KillSwitchAssumption DEF LockPart, At, IdleCall
<1>3. FlagPart
  <2>1. velocity \in Nat /\ faults \in 0 .. MaxFaults
    BY KillSwitchAssumption
  <2>2. staleFill \in BOOLEAN /\ flag \in {Off, On("user"), On("system")} /\ cache \in {"none", "on", "off"}
    OBVIOUS
  <2> QED BY <2>1, <2>2 DEF FlagPart
<1>4. BrokerPart /\ PressPart
  BY DEF BrokerPart, PressPart, BrokerStates, PressSteps
<1>5. RowPart
  BY DEF RowPart, RowRecords, DecisionRecords, NoRow, Undecided, DecisionIsAboutARow
<1> QED BY <1>1, <1>2, <1>3, <1>4, <1>5 DEF TypeInv

\* A caller that is on its way moves on and keeps a gate for as long as it is asked.
LEMMA CallerMoves ==
    ASSUME CallPart, NEW c \in Callers, ~At(c, "idle"), NEW new \in CallRecords,
           call' = [call EXCEPT ![c] = new], UNCHANGED decision,
           new.step \in {"gate", "read", "store"} => new.gates > 0
    PROVE  CallPart'
BY DEF CallPart, GatesAreLeft, ApproverWaits, At, Callers

\* What a caller's record becomes when only its step changes.
LEMMA CallerSteps ==
    ASSUME CallPart, NEW c \in Callers, ~At(c, "idle"), NEW step \in CallSteps,
           CallTo(c, step), UNCHANGED decision,
           step \in {"gate", "read", "store"} => call[c].gates > 0
    PROVE  /\ CallPart' /\ call'[c].step = step
           /\ \A d \in Callers \ {c} : call'[d] = call[d]
<1> DEFINE new == [call[c] EXCEPT !.step = step]
<1>1. call' = [call EXCEPT ![c] = new] /\ new \in CallRecords /\ new.step = step /\ new.gates = call[c].gates
  BY DEF CallPart, CallRecords, CallTo
<1> HIDE DEF new
<1>2. CallPart'
  BY <1>1, CallerMoves
<1> QED BY <1>1, <1>2 DEF CallPart

\* A gate takes one from the gates that are left.
LEMMA CallerIsJudged ==
    ASSUME CallPart, NEW c \in Callers, NEW active \in BOOLEAN, Verdict(c, active),
           call[c].step \in {"gate", "read", "store"}, UNCHANGED decision
    PROVE  /\ CallPart' /\ call'[c].step \in {"gate", "risk", "done"}
           /\ \A d \in Callers \ {c} : call'[d] = call[d]
<1> DEFINE next == IF active THEN "done" ELSE IF call[c].gates > 1 THEN "gate" ELSE "risk"
<1>1. call[c] \in CallRecords /\ call[c].gates > 0 /\ ~At(c, "idle")
  BY DEF CallPart, GatesAreLeft, At
<1>2. next \in {"gate", "risk", "done"} /\ (next = "gate" => call[c].gates > 1)
  OBVIOUS
<1>3. call' = [call EXCEPT ![c].gates = @ - 1, ![c].step = next]
  BY DEF Verdict
<1>4. call[c].gates - 1 \in 0 .. 2 /\ next \in CallSteps /\ (next = "gate" => call[c].gates - 1 > 0)
  BY <1>1, <1>2 DEF CallRecords, CallSteps
<1> HIDE DEF next
<1>5. call' \in [Callers -> CallRecords]
  BY <1>3, <1>4 DEF CallPart, CallRecords
<1>6. /\ call'[c].step = next /\ call'[c].gates = call[c].gates - 1
      /\ \A d \in Callers \ {c} : call'[d] = call[d]
  BY <1>3 DEF CallPart, CallRecords
<1>7. GatesAreLeft'
  BY <1>2, <1>4, <1>6 DEF CallPart, GatesAreLeft
<1>8. ApproverWaits'
  BY <1>1, <1>6 DEF CallPart, ApproverWaits, At, Callers
<1> QED BY <1>2, <1>5, <1>6, <1>7, <1>8 DEF CallPart

\* A step of one caller that leaves the lock alone keeps who holds it.
LEMMA LockStays ==
    ASSUME LockPart, NEW c \in Callers, lock' = lock, press' = press,
           call[c].step # "unlock", call'[c].step # "unlock",
           \A d \in Callers \ {c} : call'[d] = call[d]
    PROVE  LockPart'
BY DEF LockPart, At

\* The steps of a caller on its way to the broker.
LEMMA OrderStepTypes ==
    ASSUME TypeInv, NEW c \in Callers,
           AskCache(c) \/ ReadFlag(c) \/ StoreFlag(c) \/ CheckVelocity(c) \/ Send(c),
           UNCHANGED queueVars
    PROVE  TypeInv'
<1>1. CallPart /\ LockPart /\ FlagPart /\ BrokerPart /\ PressPart /\ RowPart
  BY DEF TypeInv
<1>2. RowPart' /\ PressPart' /\ press' = press /\ decision' = decision /\ lock' = lock
  BY <1>1 DEF RowPart, queueVars, DecisionIsAboutARow, PressPart, AskCache, ReadFlag, StoreFlag,
              CheckVelocity, Send, switch
<1>3. FlagPart'
  <2>1. CASE StoreFlag(c)
    <3>1. /\ UNCHANGED <<flag, velocity, faults>>
          /\ cache' = IF call[c].seen THEN "on" ELSE "off"
          /\ staleFill' = (staleFill \/ (flag.active /\ ~call[c].seen))
      BY <2>1 DEF StoreFlag
    <3>2. cache' \in {"none", "on", "off"} /\ staleFill' \in BOOLEAN
      BY <3>1
    <3> QED BY <1>1, <3>1, <3>2 DEF FlagPart
  <2>2. CASE AskCache(c) \/ ReadFlag(c) \/ CheckVelocity(c) \/ Send(c)
    <3>1. UNCHANGED <<switch, faults>> /\ velocity' \in {velocity, velocity + 1}
      BY <2>2 DEF AskCache, ReadFlag, CheckVelocity, Send
    <3> QED BY <1>1, <3>1 DEF FlagPart, switch
  <2> QED BY <2>1, <2>2
<1>4. BrokerPart'
  BY <1>1 DEF BrokerPart, BrokerStates, AskCache, ReadFlag, StoreFlag, CheckVelocity, Send
<1>5. ~At(c, "idle") /\ call[c].step # "unlock"
  BY DEF At, AskCache, ReadFlag, StoreFlag, CheckVelocity, Send
<1>6. /\ CallPart' /\ call'[c].step # "unlock"
      /\ \A d \in Callers \ {c} : call'[d] = call[d]
  <2>1. CASE AskCache(c)
    <3>1. CASE CallTo(c, "read")
      <4>1. call[c].gates > 0
        BY <1>1, <2>1 DEF AskCache, At, CallPart, GatesAreLeft
      <4>2. "read" \in CallSteps
        BY DEF CallSteps
      <4> QED BY <1>1, <1>2, <1>5, <3>1, <4>1, <4>2, CallerSteps
    <3>2. CASE Verdict(c, cache = "on")
      BY <1>1, <1>2, <2>1, <3>2, CallerIsJudged DEF AskCache, At
    <3> QED BY <2>1, <3>1, <3>2 DEF AskCache
  <2>2. CASE ReadFlag(c)
    <3> DEFINE new == [call[c] EXCEPT !.step = "store", !.seen = flag.active]
    <3>1. call' = [call EXCEPT ![c] = new] /\ call[c] \in CallRecords
      BY <1>1, <2>2 DEF ReadFlag, CallPart
    <3>2. call[c].gates > 0
      BY <1>1, <2>2 DEF ReadFlag, CallPart, GatesAreLeft, At
    <3>3. flag.active \in BOOLEAN
      <4>1. Off.active \in BOOLEAN /\ \A actor : On(actor).active \in BOOLEAN
        BY DEF Off, On
      <4> QED BY <1>1, <4>1 DEF FlagPart
    <3>4. new \in CallRecords /\ new.step = "store" /\ new.gates = call[c].gates
      BY <3>1, <3>3 DEF CallRecords, CallSteps
    <3> HIDE DEF new
    <3>5. CallPart'
      BY <1>1, <1>2, <1>5, <3>1, <3>2, <3>4, CallerMoves
    <3> QED BY <1>1, <3>1, <3>4, <3>5 DEF CallPart
  <2>3. CASE StoreFlag(c)
    <3>1. call[c].seen \in BOOLEAN
      BY <1>1 DEF CallPart, CallRecords
    <3> QED BY <1>1, <1>2, <2>3, <3>1, CallerIsJudged DEF StoreFlag, At
  <2>4. CASE CheckVelocity(c) \/ Send(c)
    <3>1. PICK step \in {"halt", "send", "done"} : CallTo(c, step)
      BY <2>4 DEF CheckVelocity, Send
    <3>2. step \in CallSteps /\ step \notin {"gate", "read", "store", "unlock"}
      BY DEF CallSteps
    <3> QED BY <1>1, <1>2, <1>5, <3>1, <3>2, CallerSteps
  <2> QED BY <2>1, <2>2, <2>3, <2>4
<1>7. LockPart'
  <2>1. lock' = lock /\ press' = press
    BY <1>2
  <2>2. call[c].step # "unlock"
    BY <1>5
  <2>3. call'[c].step # "unlock" /\ \A d \in Callers \ {c} : call'[d] = call[d]
    BY <1>6
  <2> QED BY <1>1, <2>1, <2>2, <2>3, LockStays
<1> QED BY <1>2, <1>3, <1>4, <1>6, <1>7 DEF TypeInv

\* The breaker.
LEMMA BreakerTypes ==
    ASSUME TypeInv, NEW c \in Callers, Halt(c) \/ Halted(c), UNCHANGED queueVars
    PROVE  TypeInv'
<1>1. CallPart /\ LockPart /\ FlagPart /\ BrokerPart /\ PressPart /\ RowPart /\ c \notin Presses
  BY KillSwitchAssumption DEF TypeInv
<1>2. /\ press' = press /\ decision' = decision
      /\ BrokerPart' /\ PressPart' /\ RowPart'
  BY <1>1 DEF RowPart, queueVars, DecisionIsAboutARow, PressPart, BrokerPart, Halt, Halted
<1>3. FlagPart'
  BY <1>1 DEF FlagPart, Halt, Halted, SetFlag, ReleaseFlag
<1>4. CASE Halt(c)
  <2>1. CallTo(c, "unlock") /\ call[c].step = "halt" /\ lock = "free" /\ lock' = c
    BY <1>4 DEF Halt, At, SetFlag
  <2>2. ~At(c, "idle") /\ "unlock" \in CallSteps
    BY <2>1 DEF At, CallSteps
  <2>3. CallPart' /\ call'[c].step = "unlock" /\ \A d \in Callers \ {c} : call'[d] = call[d]
    BY <1>1, <1>2, <2>1, <2>2, CallerSteps
  <2>4. LockPart'
    BY <1>1, <1>2, <2>1, <2>3, KillSwitchAssumption DEF LockPart, At
  <2> QED BY <1>2, <1>3, <2>3, <2>4 DEF TypeInv
<1>5. CASE Halted(c)
  <2>1. CallTo(c, "done") /\ call[c].step = "unlock" /\ lock = c /\ lock' = "free"
    BY <1>5 DEF Halted, At, ReleaseFlag
  <2>2. ~At(c, "idle") /\ "done" \in CallSteps
    BY <2>1 DEF At, CallSteps
  <2>3. CallPart' /\ call'[c].step = "done" /\ \A d \in Callers \ {c} : call'[d] = call[d]
    BY <1>1, <1>2, <2>1, <2>2, CallerSteps
  <2>4. LockPart'
    BY <1>1, <1>2, <2>1, <2>3, KillSwitchAssumption DEF LockPart, At
  <2> QED BY <1>2, <1>3, <2>3, <2>4 DEF TypeInv
<1> QED BY <1>4, <1>5

\* A press that goes to another step keeps what it has noted.
LEMMA PressMoves ==
    ASSUME PressPart, NEW p \in Presses, NEW step \in PressSteps, PressTo(p, step)
    PROVE  /\ PressPart' /\ press'[p].step = step
           /\ \A r \in Presses \ {p} : press'[r] = press[r]
           /\ \A r \in Presses : press'[r].older = press[r].older /\ press'[r].clean = press[r].clean
BY DEF PressPart, PressTo

\* A clean-up sends the press on, done or failed.
LEMMA CleanUpMoves ==
    ASSUME PressPart, BrokerPart, NEW p \in Presses, NEW next \in PressSteps, NEW from, NEW to \in BrokerStates,
           Cleaned(p, next, from, to)
    PROVE  /\ PressPart' /\ BrokerPart' /\ press'[p].step = next
           /\ \A r \in Presses \ {p} : press'[r] = press[r]
<1> DEFINE Moved == PressPart' /\ press'[p].step = next /\ \A r \in Presses \ {p} : press'[r] = press[r]
<1>1. press[p].older \in SUBSET Callers /\ AtBroker \in SUBSET Callers
  BY DEF PressPart, AtBroker
<1>2. ASSUME press' = [press EXCEPT ![p].step = next, ![p].older = IF next = "close" THEN AtBroker ELSE @]
      PROVE  Moved
  <2> DEFINE old == IF next = "close" THEN AtBroker ELSE press[p].older
  <2>1. press' = [press EXCEPT ![p].step = next, ![p].older = old] /\ old \in SUBSET Callers
    BY <1>1, <1>2
  <2> HIDE DEF old
  <2> QED BY <2>1 DEF PressPart
<1>3. ASSUME press' = [press EXCEPT ![p].step = next, ![p].clean = FALSE]
      PROVE  Moved
  BY <1>3 DEF PressPart
<1>4. BrokerPart'
  <2>1. CASE broker' = [c \in Callers |-> IF broker[c] = from THEN to ELSE broker[c]]
    BY <2>1 DEF BrokerPart
  <2>2. CASE broker' = broker
    BY <2>2 DEF BrokerPart
  <2> QED BY <2>1, <2>2 DEF Cleaned
<1>5. Moved
  BY <1>2, <1>3 DEF Cleaned
<1> QED BY <1>4, <1>5

\* The panic button and the unlock.
LEMMA PressTypes ==
    ASSUME TypeInv, NEW p \in Presses, Press(p) \/ Unlock(p) \/ PressStep(p), UNCHANGED queueVars
    PROVE  TypeInv'
<1>1. CallPart /\ LockPart /\ FlagPart /\ BrokerPart /\ PressPart /\ RowPart /\ p \notin Callers
  BY KillSwitchAssumption DEF TypeInv
<1>2. RowPart' /\ decision' = decision
  BY <1>1 DEF RowPart, queueVars, DecisionIsAboutARow
<1> DEFINE Rest == /\ call' \in [Callers -> CallRecords]
                   /\ \A c \in Callers : call'[c].step = call[c].step /\ call'[c].gates = call[c].gates
<1>3. Rest => CallPart'
  BY <1>1, <1>2 DEF CallPart, GatesAreLeft, ApproverWaits, At, Callers
<1>4. call' = call => Rest
  BY <1>1 DEF CallPart
<1>5. CASE Press(p) \/ Unlock(p) \/ Flatten(p)
  <2>1. UNCHANGED switch /\ call' = call
    BY <1>5 DEF Press, Unlock, Flatten, Cleaned
  <2>2. press[p].step \notin {"announce", "finish"}
    BY <1>5 DEF Press, Unlock, Flatten, PressAt
  <2>3. /\ BrokerPart' /\ PressPart' /\ press'[p].step \notin {"announce", "finish"}
        /\ \A r \in Presses \ {p} : press'[r] = press[r]
    <3>1. CASE Press(p) \/ Unlock(p)
      <4>1. PICK step \in {"done", "set", "reset"} : PressTo(p, step)
        BY <3>1 DEF Press, Unlock
      <4>2. step \in PressSteps /\ broker' = broker
        BY <3>1 DEF PressSteps, Press, Unlock
      <4> QED BY <1>1, <4>1, <4>2, PressMoves DEF BrokerPart
    <3>2. CASE Flatten(p)
      <4>1. \E next \in {"close", "reset"}, from \in {"open", "filled"}, to \in {"cancelled", "closed"} :
               Cleaned(p, next, from, to)
        BY <3>2 DEF Flatten
      <4>2. {"close", "reset"} \subseteq PressSteps /\ {"cancelled", "closed"} \subseteq BrokerStates
        BY DEF PressSteps, BrokerStates
      <4> QED BY <1>1, <4>1, <4>2, CleanUpMoves
    <3> QED BY <1>5, <3>1, <3>2
  <2>4. LockPart'
    BY <1>1, <2>1, <2>2, <2>3 DEF LockPart, At, switch
  <2>5. FlagPart'
    <3>1. velocity' = velocity /\ faults' \in {faults, faults + 1} /\ (faults' # faults => faults < MaxFaults)
      BY <1>5 DEF Press, Unlock, Flatten, Cleaned
    <3> QED BY <1>1, <2>1, <3>1, KillSwitchAssumption DEF FlagPart, switch
  <2> QED BY <1>2, <1>3, <1>4, <2>1, <2>3, <2>4, <2>5 DEF TypeInv
<1>6. CASE Activate(p) \/ Reset(p)
  <2>1. PICK step \in {"announce", "finish"} : PressTo(p, step)
    BY <1>6 DEF Activate, Reset
  <2>2. /\ lock = "free" /\ lock' = p /\ flag' \in {Off, On("user"), On("system")}
        /\ UNCHANGED <<cache, staleFill, broker, velocity, faults>>
    BY <1>6 DEF Activate, Reset, SetFlag
  <2>3. step \in PressSteps
    BY DEF PressSteps
  <2>4. /\ PressPart' /\ press'[p].step \in {"announce", "finish"}
        /\ \A r \in Presses \ {p} : press'[r] = press[r]
    BY <1>1, <2>1, <2>3, PressMoves
  <2>5. Rest
    <3>1. CASE Activate(p)
      BY <1>4, <3>1 DEF Activate
    <3>2. CASE Reset(p)
      BY <1>1, <3>2 DEF Reset, Disarmed, CallPart, CallRecords
    <3> QED BY <1>6, <3>1, <3>2
  <2>6. LockPart'
    BY <1>1, <2>2, <2>4, <2>5, KillSwitchAssumption DEF LockPart, At
  <2>7. FlagPart' /\ BrokerPart'
    BY <1>1, <2>2 DEF FlagPart, BrokerPart
  <2> QED BY <1>2, <1>3, <2>4, <2>5, <2>6, <2>7 DEF TypeInv
<1>7. CASE Activated(p) \/ Finish(p)
  <2>1. PICK step \in {"cancel", "done"} : PressTo(p, step)
    BY <1>7 DEF Activated, Finish
  <2>2. /\ lock = p /\ lock' = "free" /\ cache' = "none"
        /\ UNCHANGED <<flag, staleFill, call, broker, velocity, faults>>
    BY <1>7 DEF Activated, Finish, ReleaseFlag
  <2>3. step \in PressSteps
    BY DEF PressSteps
  <2>4. /\ PressPart' /\ press'[p].step \notin {"announce", "finish"}
        /\ \A r \in Presses \ {p} : press'[r] = press[r]
    BY <1>1, <2>1, <2>3, PressMoves
  <2>5. LockPart'
    BY <1>1, <2>2, <2>4, KillSwitchAssumption DEF LockPart, At
  <2>6. FlagPart' /\ BrokerPart'
    BY <1>1, <2>2 DEF FlagPart, BrokerPart
  <2> QED BY <1>2, <1>3, <1>4, <2>2, <2>4, <2>5, <2>6 DEF TypeInv
<1> QED BY <1>5, <1>6, <1>7 DEF PressStep

\* What happens by itself: the window passes, orders fill, the cached flag expires.
LEMMA BackgroundTypes ==
    ASSUME TypeInv, UNCHANGED queueVars,
           WindowPasses \/ CacheExpires \/ \E c \in Callers : FillAtBroker(c)
    PROVE  TypeInv'
<1>1. CallPart /\ LockPart /\ FlagPart /\ BrokerPart /\ PressPart /\ RowPart
  BY DEF TypeInv
<1>2. UNCHANGED <<call, decision, lock, press, flag, staleFill, row, raced, unheard>>
  BY DEF WindowPasses, CacheExpires, FillAtBroker, switch, queueVars
<1>3. CallPart' /\ LockPart' /\ PressPart' /\ RowPart'
  BY <1>1, <1>2 DEF CallPart, GatesAreLeft, ApproverWaits, At, LockPart, PressPart, RowPart, DecisionIsAboutARow
<1>4. FlagPart'
  <2>1. /\ cache' \in {cache, "none"} /\ velocity' \in {velocity, 0} /\ faults' \in {faults, faults + 1}
        /\ faults' # faults => faults < MaxFaults
    BY DEF WindowPasses, CacheExpires, FillAtBroker, switch
  <2> QED BY <1>1, <1>2, <2>1, KillSwitchAssumption DEF FlagPart
<1>5. BrokerPart'
  BY <1>1 DEF BrokerPart, BrokerStates, WindowPasses, CacheExpires, FillAtBroker
<1> QED BY <1>3, <1>4, <1>5 DEF TypeInv

\* An order is started; an approver's, when the decision leaves its early steps.
LEMMA StartTypes ==
    ASSUME TypeInv, NEW c \in Callers, call[c].step # "unlock",
           call' \in {[call EXCEPT ![c] = Started(c)], [call EXCEPT ![c] = [IdleCall EXCEPT !.step = "done"]]},
           UNCHANGED <<switch, press>>,
           \A a \in Approvers : decision'[a].step \in {"idle", "decide", "execute"} =>
               a # c /\ decision[a].step \in {"idle", "decide", "execute"}
    PROVE  CallPart' /\ LockPart'
<1>1. CallPart /\ LockPart /\ FlagPart
  BY DEF TypeInv
<1>2. PICK new : call' = [call EXCEPT ![c] = new] /\ new \in {Started(c), [IdleCall EXCEPT !.step = "done"]}
  OBVIOUS
<1>3. new \in CallRecords /\ new.step \in {"gate", "done"} /\ (new.step = "gate" => new.gates > 0)
  <2>1. GatesOf(c) \in 0 .. 2 /\ GatesOf(c) > 0
    BY DEF GatesOf
  <2>2. IdleCall \in CallRecords /\ {"gate", "done"} \subseteq CallSteps
    BY DEF IdleCall, CallRecords, CallSteps
  <2>3. flag.active \in BOOLEAN
    <3>1. Off.active \in BOOLEAN /\ \A actor : On(actor).active \in BOOLEAN
      BY DEF Off, On
    <3> QED BY <1>1, <3>1 DEF FlagPart
  <2>4. CASE new = [IdleCall EXCEPT !.step = "done"]
    BY <2>2, <2>4 DEF CallRecords
  <2>5. CASE new = Started(c)
    <3>1. new = [IdleCall EXCEPT !.step = "gate", !.gates = GatesOf(c), !.armed = flag.active /\ lock = "free"]
      BY <2>5 DEF Started
    <3> DEFINE armed == flag.active /\ lock = "free"
    <3>2. armed \in BOOLEAN /\ new = [IdleCall EXCEPT !.step = "gate", !.gates = GatesOf(c), !.armed = armed]
      BY <2>3, <3>1
    <3> HIDE DEF armed
    <3> QED BY <2>1, <2>2, <3>2 DEF CallRecords
  <2> QED BY <1>2, <2>4, <2>5
<1>4. /\ call' \in [Callers -> CallRecords] /\ call'[c] = new
      /\ \A d \in Callers \ {c} : call'[d] = call[d]
  BY <1>1, <1>2, <1>3 DEF CallPart
<1>5. GatesAreLeft'
  BY <1>1, <1>3, <1>4 DEF CallPart, GatesAreLeft
<1>6. ApproverWaits'
  BY <1>1, <1>4 DEF CallPart, ApproverWaits, At, Callers
<1>7. LockPart'
  <2>1. lock' = lock /\ press' = press
    BY DEF switch
  <2> QED BY <1>1, <1>3, <1>4, <2>1, LockStays
<1> QED BY <1>4, <1>5, <1>6, <1>7 DEF CallPart

\* A request comes in.
LEMMA EnterTypes ==
    ASSUME TypeInv, NEW c \in Callers, Enter(c)
    PROVE  TypeInv'
<1>1. CallPart /\ FlagPart /\ BrokerPart /\ PressPart /\ RowPart
  BY DEF TypeInv
<1>2. /\ call[c].step = "idle" /\ call' = [call EXCEPT ![c] = Started(c)] /\ c \notin Approvers
      /\ UNCHANGED <<switch, velocity, broker, press, faults, row, decision, raced, unheard>>
  BY KillSwitchAssumption DEF Enter, At, queueVars
<1>3. CallPart' /\ LockPart'
  BY <1>2, StartTypes
<1> QED BY <1>1, <1>2, <1>3 DEF TypeInv, FlagPart, switch, BrokerPart, PressPart, RowPart, DecisionIsAboutARow

\* A decision goes to another step.
LEMMA DecisionMoves ==
    ASSUME RowPart, NEW a \in Approvers,
           NEW step \in {"execute", "answer", "done", "dead"}, DecisionTo(a, step), ~Decides(a, "idle")
    PROVE  /\ decision' \in [Approvers -> DecisionRecords]
           /\ DecisionIsAboutARow'
           /\ decision'[a].step = step
           /\ \A b \in Approvers : decision'[b].on = decision[b].on /\ decision'[b].verdict = decision[b].verdict
           /\ \A b \in Approvers \ {a} : decision'[b] = decision[b]
<1>1. decision' = [decision EXCEPT ![a].step = step]
  BY DEF DecisionTo
<1>2. /\ decision'[a].step = step
      /\ \A b \in Approvers : decision'[b].on = decision[b].on /\ decision'[b].verdict = decision[b].verdict
      /\ \A b \in Approvers \ {a} : decision'[b] = decision[b]
  BY <1>1 DEF RowPart
<1>3. DecisionIsAboutARow'
  BY <1>2 DEF RowPart, DecisionIsAboutARow, Decides
<1> QED BY <1>1, <1>2, <1>3 DEF RowPart, RowRecords, DecisionRecords

\* A row takes another status or another answer.
LEMMA RowMoves ==
    ASSUME RowPart, NEW q \in Requests,
           NEW status \in {"absent", "pending", "approved", "rejected", "deleted"},
           NEW answer \in {"none", "placed", "rejected"},
           \/ row' = [row EXCEPT ![q].status = status] /\ answer = row[q].broker
           \/ row' = [row EXCEPT ![q].broker = answer] /\ status = row[q].status
    PROVE  /\ row' \in [Requests -> RowRecords]
           /\ row'[q].status = status /\ row'[q].broker = answer
           /\ \A r \in Requests \ {q} : row'[r] = row[r]
BY DEF RowPart, RowRecords, DecisionRecords

\* What the queue does to rows and decisions; the switch is not concerned.
LEMMA QueueTypes ==
    ASSUME TypeInv, QueueNext
    PROVE  TypeInv'
<1>1. CallPart /\ LockPart /\ FlagPart /\ BrokerPart /\ PressPart /\ RowPart
  BY DEF TypeInv
<1>2. /\ UNCHANGED <<switch, velocity, broker, press>>
      /\ faults' = faults \/ (faults < MaxFaults /\ faults' = faults + 1)
  BY DEF QueueNext, Queue, Delete, LookUp, Takes, Decide, Execute, Answer, Fails, switchVars
<1>3. FlagPart' /\ BrokerPart' /\ PressPart'
  <2>1. faults' \in 0 .. MaxFaults
    BY <1>1, <1>2, KillSwitchAssumption DEF FlagPart
  <2> QED BY <1>1, <1>2, <2>1 DEF FlagPart, BrokerPart, PressPart, switch
<1>4. ASSUME NEW q \in Requests, Queue(q) PROVE TypeInv'
  <2>1. /\ CallTo(q, "done") /\ call[q].step = "risk" /\ q \in Callers /\ "done" \in CallSteps
        /\ row' = [row EXCEPT ![q].status = "pending"] /\ UNCHANGED <<decision, raced, unheard>>
    BY <1>4 DEF Queue, At, Callers, CallSteps
  <2>2. ~At(q, "idle")
    BY <2>1 DEF At
  <2>3. CallPart' /\ call'[q].step = "done" /\ \A d \in Callers \ {q} : call'[d] = call[d]
    BY <1>1, <2>1, <2>2, CallerSteps
  <2>4. LockPart'
    <3>1. lock' = lock /\ press' = press /\ call[q].step # "unlock" /\ call'[q].step # "unlock"
      BY <1>2, <2>1, <2>3 DEF switch
    <3> QED BY <1>1, <2>1, <2>3, <3>1, LockStays
  <2>5. RowPart'
    <3>1. row[q].broker \in {"none", "placed", "rejected"}
      BY <1>1 DEF RowPart, RowRecords, DecisionRecords
    <3> QED BY <1>1, <2>1, <3>1, RowMoves DEF RowPart, DecisionIsAboutARow
  <2> QED BY <1>3, <2>3, <2>4, <2>5 DEF TypeInv
<1>5. ASSUME NEW q \in Requests, Delete(q) PROVE TypeInv'
  <2>1. row' = [row EXCEPT ![q].status = "deleted"] /\ UNCHANGED <<call, decision, raced, unheard>>
    BY <1>5 DEF Delete, switchVars
  <2>2. CallPart' /\ LockPart'
    BY <1>1, <1>2, <2>1 DEF CallPart, GatesAreLeft, ApproverWaits, At, LockPart, switch
  <2>3. RowPart'
    <3>1. row[q].broker \in {"none", "placed", "rejected"}
      BY <1>1 DEF RowPart, RowRecords, DecisionRecords
    <3> QED BY <1>1, <2>1, <3>1, RowMoves DEF RowPart, DecisionIsAboutARow
  <2> QED BY <1>3, <2>2, <2>3 DEF TypeInv
<1>6. ASSUME NEW a \in Approvers, NEW q \in Requests, NEW verdict \in {"approved", "rejected"},
             LookUp(a, q, verdict)
      PROVE  TypeInv'
  <2>1. /\ decision' = [decision EXCEPT ![a] = [on |-> q, verdict |-> verdict, step |-> "decide"]]
        /\ decision[a].step = "idle" /\ raced' \subseteq raced \cup {q} /\ UNCHANGED <<call, row, unheard>>
    BY <1>6 DEF LookUp, Takes, switchVars, Decides
  <2>2. CallPart'
    <3>1. \A b \in Approvers : decision'[b].step \in {"idle", "decide", "execute"} =>
                                decision[b].step \in {"idle", "decide", "execute"}
      BY <1>1, <2>1 DEF RowPart
    <3> QED BY <1>1, <2>1, <3>1 DEF CallPart, GatesAreLeft, ApproverWaits, At
  <2>3. LockPart'
    BY <1>1, <1>2, <2>1 DEF LockPart, At, switch
  <2>4. RowPart'
    BY <1>1, <2>1 DEF RowPart, RowRecords, DecisionRecords, DecisionIsAboutARow
  <2> QED BY <1>3, <2>2, <2>3, <2>4 DEF TypeInv
<1>7. ASSUME NEW a \in Approvers, Decide(a) \/ Answer(a) PROVE TypeInv'
  <2>1. UNCHANGED <<call, raced>> /\ decision[a].step \in {"decide", "answer"} /\ ~Decides(a, "idle")
    BY <1>7 DEF Decide, Answer, switchVars, Decides
  <2>7. unheard' \subseteq Requests
    <3>1. decision[a].on \in Requests
      BY <1>1, <2>1 DEF RowPart, DecisionIsAboutARow, Decides
    <3> QED BY <1>1, <1>7, <3>1 DEF RowPart, Decide, Answer, Fails
  <2>2. PICK step \in {"execute", "done"} : DecisionTo(a, step) /\ (step = "execute" => Decides(a, "decide"))
    BY <1>7 DEF Decide, Answer
  <2>3. /\ decision' \in [Approvers -> DecisionRecords]
        /\ DecisionIsAboutARow' /\ decision'[a].step = step
        /\ \A b \in Approvers \ {a} : decision'[b] = decision[b]
    BY <1>1, <2>1, <2>2, DecisionMoves
  <2>4. CallPart'
    BY <1>1, <2>1, <2>2, <2>3 DEF CallPart, GatesAreLeft, ApproverWaits, At, Decides
  <2>5. LockPart'
    BY <1>1, <1>2, <2>1 DEF LockPart, At, switch
  <2>6. row' \in [Requests -> RowRecords]
    <3> DEFINE q == decision[a].on
    <3>1. q \in Requests /\ decision[a].verdict \in {"approved", "rejected"}
      BY <1>1, <2>1 DEF RowPart, DecisionIsAboutARow
    <3>2. row[q] \in RowRecords
      BY <1>1, <3>1 DEF RowPart
    <3>3. CASE row' = row
      BY <1>1, <3>3 DEF RowPart
    <3>4. CASE row' = [row EXCEPT ![q].status = decision[a].verdict]
      BY <1>1, <3>1, <3>2, <3>4, RowMoves DEF RowRecords
    <3>5. CASE Answer(a)
      <4>1. row' = row \/ \E answer \in {row[q].broker, "placed", "rejected"} : row' = [row EXCEPT ![q].broker = answer]
        BY <3>5 DEF Answer
      <4> QED BY <1>1, <3>1, <3>2, <3>3, <4>1, RowMoves DEF RowRecords
    <3> QED BY <1>7, <3>3, <3>4, <3>5 DEF Decide
  <2> QED BY <1>1, <1>3, <2>1, <2>3, <2>4, <2>5, <2>6, <2>7 DEF TypeInv, RowPart
<1>8. ASSUME NEW a \in Approvers, Execute(a) PROVE TypeInv'
  <2>1. /\ UNCHANGED <<row, raced>> /\ decision[a].step = "execute" /\ ~Decides(a, "idle")
        /\ a \in Callers /\ call[a].step = "idle"
    BY <1>1, <1>8 DEF Execute, Decides, Callers, CallPart, ApproverWaits, At
  <2>2. PICK step \in {"answer", "done"} : DecisionTo(a, step)
    BY <1>8 DEF Execute
  <2>3. /\ decision' \in [Approvers -> DecisionRecords]
        /\ DecisionIsAboutARow' /\ decision'[a].step = step
        /\ \A b \in Approvers \ {a} : decision'[b] = decision[b]
    BY <1>1, <2>1, <2>2, DecisionMoves
  <2>4. RowPart'
    <3>1. decision[a].on \in Requests
      BY <1>1, <2>1 DEF RowPart, DecisionIsAboutARow, Decides
    <3>2. unheard' \subseteq Requests
      BY <1>1, <1>8, <3>1 DEF RowPart, Execute, Fails
    <3> QED BY <1>1, <2>1, <2>3, <3>2 DEF RowPart
  <2>5. \A b \in Approvers : decision'[b].step \in {"idle", "decide", "execute"} =>
           b # a /\ decision[b].step \in {"idle", "decide", "execute"}
    BY <2>2, <2>3
  <2>6. CallPart' /\ LockPart'
    <3>1. CASE call' = call
      BY <1>1, <1>2, <2>5, <3>1 DEF CallPart, GatesAreLeft, ApproverWaits, At, LockPart, switch
    <3>2. CASE call' \in {[call EXCEPT ![a] = Started(a)], [call EXCEPT ![a] = [IdleCall EXCEPT !.step = "done"]]}
      BY <1>2, <2>1, <2>5, <3>2, StartTypes
    <3> QED BY <1>8, <3>1, <3>2 DEF Execute
  <2> QED BY <1>3, <2>4, <2>6 DEF TypeInv
<1> QED BY <1>4, <1>5, <1>6, <1>7, <1>8 DEF QueueNext

\* A crash ends what is under way; the lock is in memory.
LEMMA CrashTypes ==
    ASSUME TypeInv, Crash
    PROVE  TypeInv'
<1>1. CallPart /\ LockPart /\ FlagPart /\ BrokerPart /\ PressPart /\ RowPart
  BY DEF TypeInv
<1>2. /\ faults < MaxFaults /\ faults' = faults + 1
      /\ cache' = "none" /\ lock' = "free" /\ velocity' = 0
      /\ UNCHANGED <<flag, broker, staleFill, row, raced, unheard>>
  BY DEF Crash, SwitchCrash
<1>3. /\ call' \in [Callers -> CallRecords]
      /\ \A c \in Callers : call'[c].step \in {"idle", "done"}
      /\ \A c \in Callers : call[c].step = "idle" => call'[c].step = "idle"
  BY <1>1 DEF Crash, SwitchCrash, CallPart, CallRecords, CallSteps
<1>4. press' = [p \in Presses |-> [press[p] EXCEPT !.step = IF @ \in {"idle", "done"} THEN @ ELSE "dead"]]
  BY DEF Crash, SwitchCrash
<1>5. PressPart' /\ \A p \in Presses : press'[p].step \in {"idle", "done", "dead"}
  BY <1>1, <1>4 DEF PressPart, PressSteps
<1>6. decision' = [a \in Approvers |-> [decision[a] EXCEPT !.step = IF @ \in {"idle", "done"} THEN @ ELSE "dead"]]
  BY DEF Crash
<1>7. /\ decision' \in [Approvers -> DecisionRecords]
      /\ \A a \in Approvers : decision'[a].on = decision[a].on /\ decision'[a].verdict = decision[a].verdict
      /\ \A a \in Approvers : decision'[a].step \in {"idle", "done", "dead"}
      /\ \A a \in Approvers : decision'[a].step = "idle" <=> decision[a].step = "idle"
  BY <1>1, <1>6 DEF RowPart, RowRecords, DecisionRecords
<1>8. RowPart'
  <2>1. \A a \in Approvers : decision'[a].step # "idle" =>
           decision'[a].on \in Requests /\ decision'[a].verdict \in {"approved", "rejected"}
    BY <1>1, <1>7 DEF RowPart, DecisionIsAboutARow
  <2>2. DecisionIsAboutARow'
    BY <2>1 DEF DecisionIsAboutARow
  <2> QED BY <1>1, <1>2, <1>7, <2>2 DEF RowPart
<1>9. CallPart'
  <2>1. GatesAreLeft'
    BY <1>3 DEF GatesAreLeft
  <2>2. \A a \in Approvers : decision'[a].step \in {"idle", "decide", "execute"} => call'[a].step = "idle"
    BY <1>1, <1>3, <1>7 DEF CallPart, ApproverWaits, At, Callers
  <2>3. ApproverWaits'
    BY <2>2 DEF ApproverWaits, At
  <2> QED BY <1>3, <2>1, <2>3 DEF CallPart
<1>10. LockPart'
  <2>1. \A c \in Callers : lock' # c /\ call'[c].step # "unlock"
    BY <1>2, <1>3, KillSwitchAssumption
  <2>2. \A p \in Presses : lock' # p /\ press'[p].step \notin {"announce", "finish"}
    BY <1>2, <1>5, KillSwitchAssumption
  <2> QED BY <1>2, <2>1, <2>2 DEF LockPart, At
<1>11. FlagPart' /\ BrokerPart'
  BY <1>1, <1>2, KillSwitchAssumption DEF FlagPart, BrokerPart
<1> QED BY <1>5, <1>8, <1>9, <1>10, <1>11 DEF TypeInv

\* Every step keeps the types.
LEMMA TypeNext ==
    ASSUME TypeInv, [Next]_vars
    PROVE  TypeInv'
<1>1. CASE UNCHANGED vars
  BY <1>1 DEF vars, switchVars, switch, queueVars, TypeInv, CallPart, GatesAreLeft, ApproverWaits, At, LockPart,
              FlagPart, BrokerPart, PressPart, RowPart, DecisionIsAboutARow
<1>2. CASE OrderStep /\ UNCHANGED queueVars
  BY <1>2, OrderStepTypes, BreakerTypes DEF OrderStep
<1>3. ASSUME NEW p \in Presses, Press(p) \/ Unlock(p) \/ PressStep(p), UNCHANGED queueVars PROVE TypeInv'
  BY <1>3, PressTypes
<1>4. CASE (WindowPasses \/ CacheExpires \/ \E c \in Callers : FillAtBroker(c)) /\ UNCHANGED queueVars
  BY <1>4, BackgroundTypes
<1>5. ASSUME NEW c \in Callers, Enter(c) PROVE TypeInv'
  BY <1>5, EnterTypes
<1>6. CASE QueueNext
  BY <1>6, QueueTypes
<1>7. CASE Crash
  BY <1>7, CrashTypes
<1> QED BY <1>1, <1>2, <1>3, <1>4, <1>5, <1>6, <1>7 DEF Next, SwitchNext

\* The types of the switch and of the queue, and who holds the lock of the flag, for
\* any callers, presses and bounds.
THEOREM QueueTypesHold == Spec => []TypeOK
<1>1. TypeInv => TypeOK
  BY DEF TypeInv, TypeOK, SwitchTypeOK, CallPart, CallRecords, LockPart, FlagPart, BrokerPart, PressPart, RowPart, RowRecords, DecisionRecords
<1> QED BY <1>1, TypeInit, TypeNext, PTL DEF Spec

-----------------------------------------------------------------------------
(* What an armed switch stops. *)

CallType == call \in [Callers -> [step : CallSteps, gates : Int, seen : BOOLEAN, armed : BOOLEAN]]

\* An armed caller has the flag on its side until a reset disarms it.
ArmedSeesFlag == \A c \in Callers : call[c].armed => flag.active

\* Over a set flag the cache says "off" only while the writer still holds the lock,
\* and then nobody has been armed by that write.
CacheFollowsFlag ==
    ~staleFill /\ flag.active /\ cache = "off" => lock # "free" /\ \A c \in Callers : ~call[c].armed

SwitchInv ==
    /\ CallType /\ flag \in {Off, On("user"), On("system")} /\ staleFill \in BOOLEAN
    /\ cache \in {"none", "on", "off"}
    /\ ArmedSeesFlag /\ CacheFollowsFlag /\ ArmedOrderIsStopped

\* Nobody is armed before the first order.
LEMMA SwitchInitInv == Init => SwitchInv
<1> SUFFICES ASSUME Init PROVE SwitchInv
  OBVIOUS
<1>1. CallType /\ \A c \in Callers : call[c].armed = FALSE
  BY DEF Init, SwitchInit, CallType, IdleCall, CallSteps
<1>2. flag = Off /\ staleFill = FALSE /\ cache = "none"
  BY DEF Init, SwitchInit
<1> QED
  BY <1>1, <1>2 DEF SwitchInv, ArmedSeesFlag, CacheFollowsFlag, ArmedOrderIsStopped

\* The flag is on or off.
LEMMA FlagIsBoolean ==
    ASSUME SwitchInv
    PROVE  flag.active \in BOOLEAN
<1>1. CASE flag = Off
  BY <1>1 DEF Off
<1>2. ASSUME NEW actor, flag = On(actor) PROVE flag.active \in BOOLEAN
  BY <1>2 DEF On
<1> QED BY <1>1, <1>2 DEF SwitchInv

\* A caller moves on: the others stay, and it is armed if it was.
LEMMA CallMoves ==
    ASSUME CallType, NEW c \in Callers, NEW step \in CallSteps, CallTo(c, step)
    PROVE  /\ CallType'
           /\ \A d \in Callers : call'[d].armed = call[d].armed
           /\ \A d \in Callers \ {c} : call'[d] = call[d]
           /\ call'[c].step = step
BY DEF CallTo, CallType

\* A gate sends the caller on, or ends it if the flag is seen.
LEMMA VerdictMoves ==
    ASSUME CallType, NEW c \in Callers, NEW active \in BOOLEAN, Verdict(c, active)
    PROVE  /\ CallType'
           /\ \A d \in Callers : call'[d].armed = call[d].armed
           /\ \A d \in Callers \ {c} : call'[d] = call[d]
           /\ active => call'[c].step = "done"
<1> DEFINE next == IF active THEN "done" ELSE IF call[c].gates > 1 THEN "gate" ELSE "risk"
<1>1. call' = [call EXCEPT ![c].gates = @ - 1, ![c].step = next]
  BY DEF Verdict
<1>2. next \in CallSteps
  BY DEF CallSteps
<1>3. active => next = "done"
  OBVIOUS
<1> HIDE DEF next
<1>4. call[c].gates - 1 \in Int
  BY DEF CallType
<1> QED BY <1>1, <1>2, <1>3, <1>4 DEF CallType

-----------------------------------------------------------------------------
\* A step that leaves the switch alone, arms nobody and sends no armed caller past
\* the gates keeps the invariant.
LEMMA PassingStep ==
    ASSUME SwitchInv, UNCHANGED switch, CallType',
           \A c \in Callers : call'[c].armed = call[c].armed,
           \A c \in Callers : call[c].armed /\ ~staleFill =>
               call'[c].step \notin {"risk", "halt", "unlock", "send"}
    PROVE  SwitchInv'
BY DEF switch, SwitchInv, ArmedSeesFlag, CacheFollowsFlag, ArmedOrderIsStopped

\* A gate that finds the flag in the cache stops every armed caller.
LEMMA AskCacheInv ==
    ASSUME SwitchInv, NEW c \in Callers, AskCache(c)
    PROVE  SwitchInv'
<1>1. UNCHANGED switch /\ CallType
  BY DEF AskCache, SwitchInv
<1>2. CASE cache = "none"
  <2>1. CallTo(c, "read")
    BY <1>2 DEF AskCache
  <2>2. "read" \in CallSteps
    BY DEF CallSteps
  <2> QED BY <1>1, <2>1, <2>2, CallMoves, PassingStep DEF SwitchInv, ArmedOrderIsStopped
<1>3. CASE cache # "none"
  <2>1. Verdict(c, cache = "on")
    BY <1>3 DEF AskCache
  <2>2. ~staleFill /\ call[c].armed => cache # "off"
    BY DEF SwitchInv, ArmedSeesFlag, CacheFollowsFlag
  <2>3. cache \in {"none", "on", "off"}
    BY DEF SwitchInv
  <2>4. ~staleFill /\ call[c].armed => cache = "on"
    BY <1>3, <2>2, <2>3
  <2> QED BY <1>1, <2>1, <2>4, VerdictMoves, PassingStep DEF SwitchInv, ArmedOrderIsStopped
<1> QED BY <1>2, <1>3

\* A gate that stored an old "off" is noted as a stale fill.
LEMMA StoreFlagInv ==
    ASSUME SwitchInv, NEW c \in Callers, StoreFlag(c)
    PROVE  SwitchInv'
<1>1. CallType /\ call[c].seen \in BOOLEAN
  BY DEF SwitchInv, CallType
<1>2. Verdict(c, call[c].seen)
  BY DEF StoreFlag
<1>3. /\ CallType'
      /\ \A d \in Callers : call'[d].armed = call[d].armed
      /\ \A d \in Callers \ {c} : call'[d] = call[d]
      /\ call[c].seen => call'[c].step = "done"
  BY <1>1, <1>2, VerdictMoves
<1>4. /\ flag' = flag /\ lock' = lock
      /\ cache' = IF call[c].seen THEN "on" ELSE "off"
      /\ staleFill' = (staleFill \/ (flag.active /\ ~call[c].seen))
  BY DEF StoreFlag
<1>5. ArmedSeesFlag'
  BY <1>3, <1>4 DEF SwitchInv, ArmedSeesFlag
<1>6. CacheFollowsFlag'
  BY <1>3, <1>4 DEF SwitchInv, CacheFollowsFlag
<1>7. ArmedOrderIsStopped'
  BY <1>3, <1>4 DEF SwitchInv, ArmedSeesFlag, ArmedOrderIsStopped
<1>8. staleFill' \in BOOLEAN /\ cache' \in {"none", "on", "off"}
  BY <1>4
<1> QED BY <1>3, <1>4, <1>5, <1>6, <1>7, <1>8 DEF SwitchInv

\* The other steps of a caller change the call, and of the switch nothing.
LEMMA CallerStepInv ==
    ASSUME SwitchInv, NEW c \in Callers,
           ReadFlag(c) \/ CheckVelocity(c) \/ Send(c)
    PROVE  SwitchInv'
<1>1. UNCHANGED switch /\ CallType
  BY DEF ReadFlag, CheckVelocity, Send, SwitchInv
<1>2. CASE ReadFlag(c)
  <2>1. call' = [call EXCEPT ![c].step = "store", ![c].seen = flag.active]
    BY <1>2 DEF ReadFlag
  <2>2. flag.active \in BOOLEAN
    BY FlagIsBoolean
  <2>3. CallType' /\ \A d \in Callers : call'[d].armed = call[d].armed
    BY <1>1, <2>1, <2>2 DEF CallType, CallSteps
  <2>4. call'[c].step = "store" /\ \A d \in Callers \ {c} : call'[d] = call[d]
    BY <1>1, <2>1 DEF CallType
  <2> QED BY <1>1, <2>3, <2>4, PassingStep DEF SwitchInv, ArmedOrderIsStopped
<1>3. CASE CheckVelocity(c) \/ Send(c)
  <2>1. \E step \in CallSteps : CallTo(c, step)
    BY <1>3 DEF CheckVelocity, Send, CallSteps
  <2>2. ~staleFill => ~call[c].armed
    BY <1>3 DEF CheckVelocity, Send, At, SwitchInv, ArmedOrderIsStopped
  <2> QED BY <1>1, <2>1, <2>2, CallMoves, PassingStep DEF SwitchInv, ArmedOrderIsStopped
<1> QED BY <1>2, <1>3

-----------------------------------------------------------------------------
\* A write of the flag that arms nobody: the lock is held until the cache is dropped.
\* To clear the flag a reset disarms every caller.
LEMMA SetFlagInv ==
    ASSUME SwitchInv, NEW t \in Callers \cup Presses, NEW value \in {Off, On("user"), On("system")},
           SetFlag(t, value), CallType',
           \A c \in Callers : call'[c].armed => call[c].armed /\ value.active,
           \A c \in Callers : call[c].armed /\ ~staleFill =>
               call'[c].step \notin {"risk", "halt", "unlock", "send"}
    PROVE  SwitchInv'
<1>1. lock' # "free"
  BY KillSwitchAssumption DEF SetFlag
<1>2. flag' = value /\ cache' = cache /\ staleFill' = staleFill
  BY DEF SetFlag
<1>3. ArmedSeesFlag'
  BY <1>2 DEF ArmedSeesFlag
<1>4. CacheFollowsFlag'
  <2> SUFFICES ASSUME ~staleFill, value.active, cache = "off", NEW c \in Callers, call'[c].armed
               PROVE  FALSE
    BY <1>1, <1>2 DEF CacheFollowsFlag
  <2>1. call[c].armed /\ flag.active
    BY DEF SwitchInv, ArmedSeesFlag
  <2> QED BY <2>1 DEF SwitchInv, CacheFollowsFlag
<1>5. ArmedOrderIsStopped'
  BY <1>2 DEF ArmedOrderIsStopped
<1> QED BY <1>2, <1>3, <1>4, <1>5 DEF SwitchInv

\* The writer drops the cached copy and lets go of the lock.
LEMMA ReleaseFlagInv ==
    ASSUME SwitchInv, NEW t, ReleaseFlag(t), CallType',
           \A c \in Callers : call'[c].armed = call[c].armed,
           \A c \in Callers : call[c].armed /\ ~staleFill =>
               call'[c].step \notin {"risk", "halt", "unlock", "send"}
    PROVE  SwitchInv'
<1>1. flag' = flag /\ cache' = "none" /\ staleFill' = staleFill
  BY DEF ReleaseFlag
<1> QED BY <1>1 DEF SwitchInv, ArmedSeesFlag, CacheFollowsFlag, ArmedOrderIsStopped

\* The breaker sets the flag and returns; an armed caller is not the one that trips it.
LEMMA BreakerInv ==
    ASSUME SwitchInv, NEW c \in Callers, Halt(c) \/ Halted(c)
    PROVE  SwitchInv'
<1>1. CallType /\ (~staleFill => ~call[c].armed)
  BY DEF Halt, Halted, At, SwitchInv, ArmedOrderIsStopped
<1>2. \A d \in Callers : call[d].armed => call[d].armed /\ On("system").active
  BY DEF On
<1>3. CASE Halt(c)
  <2>1. CallTo(c, "unlock") /\ SetFlag(c, On("system")) /\ "unlock" \in CallSteps
    BY <1>3 DEF Halt, CallSteps
  <2> QED BY <1>1, <1>2, <2>1, CallMoves, SetFlagInv DEF SwitchInv, ArmedOrderIsStopped
<1>4. CASE Halted(c)
  <2>1. CallTo(c, "done") /\ ReleaseFlag(c) /\ "done" \in CallSteps
    BY <1>4 DEF Halted, CallSteps
  <2> QED BY <1>1, <2>1, CallMoves, ReleaseFlagInv DEF SwitchInv, ArmedOrderIsStopped
<1> QED BY <1>3, <1>4

\* A press sets the flag, or clears it and disarms the callers.
LEMMA PressInv ==
    ASSUME SwitchInv, NEW p \in Presses, PressStep(p) \/ Press(p) \/ Unlock(p)
    PROVE  SwitchInv'
<1>1. CallType /\ \A c \in Callers : call[c].armed /\ ~staleFill =>
          call[c].step \notin {"risk", "halt", "unlock", "send"}
  BY DEF SwitchInv, ArmedOrderIsStopped
<1>2. CASE Activate(p)
  <2>1. SetFlag(p, On("user")) /\ call' = call /\ On("user").active
    BY <1>2 DEF Activate, On
  <2>2. CallType'
    BY <1>1, <2>1 DEF CallType
  <2> QED BY <1>1, <2>1, <2>2, SetFlagInv
<1>3. CASE Activated(p) \/ Finish(p)
  <2>1. ReleaseFlag(p) /\ call' = call
    BY <1>3 DEF Activated, Finish
  <2>2. CallType'
    BY <1>1, <2>1 DEF CallType
  <2> QED BY <1>1, <2>1, <2>2, ReleaseFlagInv
<1>4. CASE Reset(p)
  <2>1. SetFlag(p, Off) /\ call' = [c \in Callers |-> [call[c] EXCEPT !.armed = FALSE]]
    BY <1>4 DEF Reset, Disarmed
  <2>2. CallType' /\ \A c \in Callers : call'[c].armed = FALSE /\ call'[c].step = call[c].step
    BY <1>1, <2>1 DEF CallType
  <2> QED BY <1>1, <2>1, <2>2, SetFlagInv
<1>5. CASE Flatten(p) \/ Press(p) \/ Unlock(p)
  <2>1. UNCHANGED switch /\ call' = call
    BY <1>5 DEF Flatten, Press, Unlock, Cleaned
  <2>2. CallType'
    BY <1>1, <2>1 DEF CallType
  <2> QED BY <1>1, <2>1, <2>2, PassingStep
<1> QED BY <1>2, <1>3, <1>4, <1>5 DEF PressStep

-----------------------------------------------------------------------------
\* A caller that starts is armed if the flag is set and its writer has returned.
LEMMA StartInv ==
    ASSUME SwitchInv, NEW c \in Callers, UNCHANGED switch,
           call' = [call EXCEPT ![c] = Started(c)]
    PROVE  SwitchInv'
<1>1. CallType /\ flag.active \in BOOLEAN /\ GatesOf(c) \in Int
  BY FlagIsBoolean DEF SwitchInv, GatesOf
<1>2. Started(c) \in [step : CallSteps, gates : Int, seen : BOOLEAN, armed : BOOLEAN]
  BY <1>1 DEF Started, IdleCall, CallSteps
<1>3. Started(c).step = "gate" /\ (Started(c).armed => flag.active /\ lock = "free")
  BY DEF Started, IdleCall
<1>4. CallType' /\ call'[c] = Started(c) /\ \A d \in Callers \ {c} : call'[d] = call[d]
  BY <1>1, <1>2 DEF CallType
<1>5. ArmedSeesFlag'
  BY <1>3, <1>4 DEF SwitchInv, ArmedSeesFlag, switch
<1>6. CacheFollowsFlag'
  BY <1>3, <1>4 DEF SwitchInv, CacheFollowsFlag, switch
<1>7. ArmedOrderIsStopped'
  BY <1>3, <1>4 DEF SwitchInv, ArmedOrderIsStopped, switch
<1> QED BY <1>4, <1>5, <1>6, <1>7 DEF SwitchInv, switch

\* The queue writes rows and decisions, ends callers and starts the approved order.
LEMMA QueueInv ==
    ASSUME SwitchInv, QueueNext
    PROVE  SwitchInv'
<1>1. CallType /\ \A c \in Callers : call[c].armed /\ ~staleFill =>
          call[c].step \notin {"risk", "halt", "unlock", "send"}
  BY DEF SwitchInv, ArmedOrderIsStopped
<1>2. CASE UNCHANGED <<switch, call>>
  BY <1>1, <1>2, PassingStep DEF CallType
<1>3. ASSUME NEW q \in Requests, Queue(q) PROVE SwitchInv'
  <2>1. q \in Callers /\ CallTo(q, "done") /\ UNCHANGED switch /\ "done" \in CallSteps
    BY <1>3 DEF Queue, Callers, CallSteps
  <2> QED BY <1>1, <2>1, CallMoves, PassingStep
<1>4. ASSUME NEW a \in Approvers, Execute(a) PROVE SwitchInv'
  <2>1. a \in Callers /\ UNCHANGED switch
    BY <1>4 DEF Execute, Callers
  <2>2. CASE call' = [call EXCEPT ![a] = Started(a)]
    BY <2>1, <2>2, StartInv
  <2>3. CASE call' = call
    BY <1>2, <2>1, <2>3
  <2>4. CASE call' = [call EXCEPT ![a] = [IdleCall EXCEPT !.step = "done"]]
    <3> DEFINE ended == [IdleCall EXCEPT !.step = "done"]
    <3>1. /\ ended \in [step : CallSteps, gates : Int, seen : BOOLEAN, armed : BOOLEAN]
          /\ ended.armed = FALSE /\ ended.step = "done"
      <4>1. /\ IdleCall \in [step : CallSteps, gates : Int, seen : BOOLEAN, armed : BOOLEAN]
            /\ IdleCall.armed = FALSE /\ "done" \in CallSteps
        BY DEF IdleCall, CallSteps
      <4> QED BY <4>1
    <3>2. call' = [call EXCEPT ![a] = ended]
      BY <2>4
    <3> HIDE DEF ended
    <3>3. CallType' /\ call'[a].armed = FALSE /\ call'[a].step = "done"
      BY <1>1, <2>1, <3>1, <3>2 DEF CallType
    <3>4. \A d \in Callers \ {a} : call'[d] = call[d]
      BY <1>1, <2>1, <3>2 DEF CallType
    <3>5. ArmedSeesFlag'
      BY <2>1, <3>3, <3>4 DEF SwitchInv, ArmedSeesFlag, switch
    <3>6. CacheFollowsFlag'
      BY <2>1, <3>3, <3>4 DEF SwitchInv, CacheFollowsFlag, switch
    <3>7. ArmedOrderIsStopped'
      BY <2>1, <3>3, <3>4 DEF SwitchInv, ArmedOrderIsStopped, switch
    <3> QED BY <2>1, <3>3, <3>5, <3>6, <3>7 DEF SwitchInv, switch
  <2> QED BY <1>4, <2>2, <2>3, <2>4 DEF Execute
<1>5. ASSUME NEW q \in Requests, Delete(q) PROVE SwitchInv'
  BY <1>2, <1>5 DEF Delete, switchVars
<1>6. ASSUME NEW a \in Approvers, NEW q \in Requests, NEW verdict, LookUp(a, q, verdict) PROVE SwitchInv'
  BY <1>2, <1>6 DEF LookUp, Takes, switchVars
<1>7. ASSUME NEW a \in Approvers, Decide(a) \/ Answer(a) PROVE SwitchInv'
  BY <1>2, <1>7 DEF Decide, Answer, switchVars
<1> QED BY <1>3, <1>4, <1>5, <1>6, <1>7 DEF QueueNext

\* A crash empties the cache and ends every caller under way.
LEMMA CrashInv ==
    ASSUME SwitchInv, SwitchCrash
    PROVE  SwitchInv'
<1>1. CallType /\ flag' = flag /\ staleFill' = staleFill /\ cache' = "none"
  BY DEF SwitchInv, SwitchCrash
<1>2. call' = [c \in Callers |-> [call[c] EXCEPT !.step = IF @ = "idle" THEN @ ELSE "done"]]
  BY DEF SwitchCrash
<1>3. CallType' /\ \A c \in Callers : call'[c].armed = call[c].armed /\ call'[c].step \in {"idle", "done"}
  BY <1>1, <1>2 DEF CallType, CallSteps
<1> QED BY <1>1, <1>3 DEF SwitchInv, ArmedSeesFlag, CacheFollowsFlag, ArmedOrderIsStopped

-----------------------------------------------------------------------------
\* Every step keeps the invariant.
LEMMA NextInv ==
    ASSUME SwitchInv, [Next]_vars
    PROVE  SwitchInv'
<1>1. CASE UNCHANGED <<switch, call>>
  BY <1>1 DEF switch, SwitchInv, CallType, ArmedSeesFlag, CacheFollowsFlag, ArmedOrderIsStopped
<1>2. CASE UNCHANGED vars
  BY <1>1, <1>2 DEF vars, switchVars
<1>3. CASE OrderStep
  BY <1>3, AskCacheInv, StoreFlagInv, CallerStepInv, BreakerInv DEF OrderStep
<1>4. ASSUME NEW p \in Presses, Press(p) \/ Unlock(p) \/ PressStep(p) PROVE SwitchInv'
  BY <1>4, PressInv
<1>5. CASE WindowPasses \/ \E c \in Callers : FillAtBroker(c)
  BY <1>1, <1>5 DEF WindowPasses, FillAtBroker
<1>6. CASE CacheExpires
  BY <1>6 DEF CacheExpires, SwitchInv, CallType, ArmedSeesFlag, CacheFollowsFlag, ArmedOrderIsStopped
<1>7. ASSUME NEW c \in Callers, Enter(c) PROVE SwitchInv'
  BY <1>7, StartInv DEF Enter
<1>8. CASE Crash
  BY <1>8, CrashInv DEF Crash
<1>9. CASE QueueNext
  BY <1>9, QueueInv
<1> QED BY <1>2, <1>3, <1>4, <1>5, <1>6, <1>7, <1>8, <1>9 DEF Next, SwitchNext

\* Unless a reader put an old flag back into the cache, no order that was started with
\* the switch on gets past a gate, for any callers, presses and velocity limit.
THEOREM ArmedOrdersStop == Spec => []ArmedOrderIsStopped
<1>1. SwitchInv => ArmedOrderIsStopped
  BY DEF SwitchInv
<1>2. SwitchInv /\ [Next]_vars => SwitchInv'
  BY NextInv
<1> QED BY <1>1, <1>2, SwitchInitInv, PTL DEF Spec

-----------------------------------------------------------------------------
(* What a press leaves behind. *)

\* A press that has set the flag gives it back: whoever sets it for the user is a
\* press, and no press leaves the steps up to its reset but by a reset or a death.
LEMMA LetsGoNext ==
    ASSUME TypeInv, PressLetsGo, [Next]_vars
    PROVE  PressLetsGo'
<1> DEFINE Holding == {"announce", "cancel", "close", "reset", "dead"}
<1> SUFFICES ASSUME flag' = On("user")
             PROVE  \E p \in Presses : press'[p].step \in Holding
  BY DEF PressLetsGo
<1>1. On("user") # Off /\ On("user") # On("system")
  BY DEF On, Off
<1>2. PressPart
  BY DEF TypeInv
<1>3. ASSUME NEW p \in Presses, Activate(p) PROVE \E r \in Presses : press'[r].step \in Holding
  BY <1>2, <1>3, PressMoves DEF Activate, PressSteps
<1>4. CASE flag' = flag
  <2>1. PICK p \in Presses : press[p].step \in Holding
    BY <1>4 DEF PressLetsGo
  <2>2. CASE press'[p] = press[p]
    BY <2>1, <2>2
  <2>3. CASE Crash
    <3>1. press' = [r \in Presses |-> [press[r] EXCEPT !.step = IF @ \in {"idle", "done"} THEN @ ELSE "dead"]]
      BY <2>3 DEF Crash, SwitchCrash
    <3>2. press'[p].step = "dead"
      BY <1>2, <2>1, <3>1 DEF PressPart
    <3> QED BY <3>2
  <2>4. ASSUME NEW r \in Presses, Press(r) \/ Unlock(r) PROVE press'[p] = press[p]
    BY <1>2, <2>1, <2>4 DEF Press, Unlock, PressAt, PressTo, PressPart
  <2>5. ASSUME NEW r \in Presses, Activated(r) \/ Flatten(r) PROVE press'[p].step \in Holding
    <3>1. CASE Activated(r)
      BY <1>2, <2>1, <3>1, PressMoves DEF Activated, PressSteps
    <3>2. CASE Flatten(r)
      <4>1. \E next \in {"close", "reset"}, from \in {"open", "filled"}, to \in {"cancelled", "closed"} :
               Cleaned(r, next, from, to)
        BY <3>2 DEF Flatten
      <4>2. {"close", "reset"} \subseteq PressSteps /\ {"cancelled", "closed"} \subseteq BrokerStates
        BY DEF PressSteps, BrokerStates
      <4> QED BY <1>2, <2>1, <4>1, <4>2, CleanUpMoves DEF TypeInv
    <3> QED BY <2>5, <3>1, <3>2
  <2>6. ASSUME NEW r \in Presses, Finish(r) PROVE press'[p] = press[p]
    BY <1>2, <2>1, <2>6 DEF Finish, PressAt, PressTo, PressPart
  <2>7. ASSUME NEW r \in Presses, Activate(r) PROVE \E s \in Presses : press'[s].step \in Holding
    BY <1>3, <2>7
  <2>8. ASSUME NEW r \in Presses, Reset(r) PROVE FALSE
    BY <1>1, <2>8 DEF Reset, SetFlag
  <2>9. CASE UNCHANGED press
    BY <2>2, <2>9
  <2>10. CASE OrderStep \/ WindowPasses \/ CacheExpires \/ QueueNext \/ \E c \in Callers : Enter(c) \/ FillAtBroker(c)
    BY <2>9, <2>10 DEF OrderStep, AskCache, ReadFlag, StoreFlag, CheckVelocity, Halt, Halted, Send, WindowPasses,
           CacheExpires, FillAtBroker, Enter, QueueNext, Queue, Delete, LookUp, Takes, Decide, Execute, Answer, switchVars
  <2>11. CASE UNCHANGED vars
    BY <2>9, <2>11 DEF vars, switchVars
  <2> QED BY <2>1, <2>2, <2>3, <2>4, <2>5, <2>6, <2>7, <2>8, <2>10, <2>11 DEF Next, SwitchNext, PressStep
<1>5. CASE flag' # flag
  <2>1. \A c \in Callers : ~Halt(c)
    BY <1>1 DEF Halt, SetFlag
  <2>2. \A p \in Presses : ~Reset(p)
    BY <1>1 DEF Reset, SetFlag
  <2>3. \E p \in Presses : Activate(p)
    BY <1>5, <2>1, <2>2 DEF Next, SwitchNext, OrderStep, AskCache, ReadFlag, StoreFlag, CheckVelocity, Halted,
          ReleaseFlag, Send, WindowPasses, CacheExpires, FillAtBroker, Enter, QueueNext, Queue, Delete, LookUp, Takes,
          Decide, Execute, Answer, switchVars, switch, vars, Press, Unlock, PressStep, Activated, Flatten, Cleaned,
          Finish, Crash, SwitchCrash
  <2> QED BY <1>3, <2>3
<1> QED BY <1>4, <1>5

\* A flag the user set is one that a press has still to clear, unless it died, for any
\* callers and presses, whatever fails at the broker.
THEOREM PressesLetGo == Spec => []PressLetsGo
<1>1. Init => PressLetsGo
  BY DEF Init, SwitchInit, PressLetsGo, Off, On
<1> QED BY <1>1, TypeInit, TypeNext, LetsGoNext, PTL DEF Spec

-----------------------------------------------------------------------------
\* An order is at the broker only when its caller is through.
OnlyTheDoneAreSent == \A c \in Callers : broker[c] # "none" => At(c, "done")

\* What a press knows of the orders that were at the broker when it began to close
\* positions: none is open any more, and none is held once it is past that.
CleanSoFar(p) ==
    /\ press[p].step \in {"idle", "set", "announce", "cancel"} => press[p].older = {}
    /\ \A c \in press[p].older : broker[c] # "none"
    /\ press[p].clean /\ press[p].step = "close" =>
           \A c \in press[p].older : broker[c] \in {"filled", "cancelled", "closed"}
    /\ press[p].clean /\ press[p].step \in {"reset", "finish", "done"} =>
           \A c \in press[p].older : broker[c] \in {"cancelled", "closed"}

PanicInv == OnlyTheDoneAreSent /\ \A p \in Presses : CleanSoFar(p)

\* Orders go on at the broker and never back.
BrokerGoesOn == \A c \in Callers :
    /\ broker[c] # "none" => broker'[c] # "none"
    /\ broker[c] \in {"filled", "cancelled", "closed"} => broker'[c] \in {"filled", "cancelled", "closed"}
    /\ broker[c] \in {"cancelled", "closed"} => broker'[c] \in {"cancelled", "closed"}

\* So what a press knows stays true while it waits.
LEMMA CleanStays ==
    ASSUME PressPart, NEW p \in Presses, CleanSoFar(p), press'[p] = press[p], BrokerGoesOn
    PROVE  CleanSoFar(p)'
<1>1. press[p].older \subseteq Callers
  BY DEF PressPart
<1> QED BY <1>1 DEF CleanSoFar, BrokerGoesOn

\* Orders that are where they were went on.
LEMMA BrokerStays ==
    ASSUME broker' = broker
    PROVE  BrokerGoesOn
BY DEF BrokerGoesOn

\* A caller that is through stays so.
LEMMA DoneStays ==
    ASSUME TypeInv, [Next]_vars, NEW c \in Callers, At(c, "done")
    PROVE  At(c, "done")'
<1>1. CallPart /\ (c \in Approvers => decision[c].step \notin {"idle", "decide", "execute"})
  BY DEF TypeInv, CallPart, ApproverWaits, At
<1>2. CASE call' = call
  BY <1>2 DEF At
<1>3. ASSUME NEW d \in Callers, ~At(d, "done"), \A e \in Callers \ {d} : call'[e] = call[e]
      PROVE  At(c, "done")'
  BY <1>3 DEF At
<1>4. CASE OrderStep
  <2>1. PICK d \in Callers : AskCache(d) \/ ReadFlag(d) \/ StoreFlag(d)
                             \/ CheckVelocity(d) \/ Halt(d) \/ Halted(d) \/ Send(d)
    BY <1>4 DEF OrderStep
  <2>2. ~At(d, "done")
    BY <2>1 DEF At, AskCache, ReadFlag, StoreFlag, CheckVelocity, Halt, Halted, Send
  <2>3. \A e \in Callers \ {d} : call'[e] = call[e]
    BY <1>1, <2>1 DEF CallPart, AskCache, ReadFlag, StoreFlag, CheckVelocity, Halt, Halted, Send, CallTo, Verdict
  <2> QED BY <1>3, <2>2, <2>3
<1>5. ASSUME NEW p \in Presses, Reset(p) PROVE At(c, "done")'
  BY <1>1, <1>5 DEF Reset, Disarmed, At, CallPart, CallRecords
<1>6. CASE Crash
  <2>1. call' = [d \in Callers |-> [call[d] EXCEPT !.step = IF @ = "idle" THEN @ ELSE "done"]]
    BY <1>6 DEF Crash, SwitchCrash
  <2> QED BY <1>1, <2>1 DEF At, CallPart, CallRecords
<1>7. ASSUME NEW d \in Callers, Enter(d) PROVE At(c, "done")'
  <2>1. ~At(d, "done") /\ call' = [call EXCEPT ![d] = Started(d)]
    BY <1>7 DEF Enter, At
  <2> QED BY <1>1, <1>3, <2>1 DEF CallPart
<1>8. ASSUME NEW q \in Requests, Queue(q) PROVE At(c, "done")'
  <2>1. q \in Callers /\ ~At(q, "done") /\ CallTo(q, "done")
    BY <1>8 DEF Queue, At, Callers
  <2> QED BY <1>1, <1>3, <2>1 DEF CallPart, CallTo
<1>9. ASSUME NEW a \in Approvers, Execute(a) PROVE At(c, "done")'
  <2>1. a # c /\ \A e \in Callers \ {a} : call'[e] = call[e]
    BY <1>1, <1>9 DEF Execute, Decides, CallPart
  <2> QED BY <2>1 DEF At
<1>10. ASSUME NEW p \in Presses, Press(p) \/ Unlock(p) \/ Activate(p) \/ Activated(p) \/ Flatten(p) \/ Finish(p)
       PROVE  At(c, "done")'
  BY <1>2, <1>10 DEF Press, Unlock, Activate, Activated, Flatten, Cleaned, Finish
<1>11. CASE UNCHANGED vars \/ WindowPasses \/ CacheExpires \/ \E d \in Callers : FillAtBroker(d)
  BY <1>2, <1>11 DEF vars, switchVars, WindowPasses, CacheExpires, FillAtBroker
<1>12. ASSUME NEW a \in Approvers, NEW q \in Requests, NEW verdict, LookUp(a, q, verdict) PROVE At(c, "done")'
  BY <1>2, <1>12 DEF LookUp, Takes, switchVars
<1>13. ASSUME NEW q \in Requests, Delete(q) PROVE At(c, "done")'
  BY <1>2, <1>13 DEF Delete, switchVars
<1>15. ASSUME NEW a \in Approvers, Decide(a) \/ Answer(a) PROVE At(c, "done")'
  BY <1>2, <1>15 DEF Decide, Answer, switchVars
<1>14. CASE QueueNext
  BY <1>8, <1>9, <1>12, <1>13, <1>14, <1>15 DEF QueueNext
<1> QED BY <1>4, <1>5, <1>6, <1>7, <1>10, <1>11, <1>14 DEF Next, SwitchNext, PressStep

\* What is sent is sent by a caller on its way, which is then through.
LEMMA SentNext ==
    ASSUME TypeInv, PanicInv, [Next]_vars
    PROVE  OnlyTheDoneAreSent'
<1> SUFFICES ASSUME NEW c \in Callers, broker'[c] # "none" PROVE At(c, "done")'
  BY DEF OnlyTheDoneAreSent
<1>1. CASE broker[c] # "none"
  BY <1>1, DoneStays DEF PanicInv, OnlyTheDoneAreSent
<1>2. CASE broker[c] = "none"
  <2>1. BrokerPart /\ CallPart /\ broker' # broker
    BY <1>2 DEF TypeInv
  <2>2. ASSUME NEW d \in Callers, Send(d) PROVE At(c, "done")'
    <3>1. PICK answer \in {"open", "refused"} : broker' = [broker EXCEPT ![d] = answer]
      BY <2>2 DEF Send
    <3>2. c = d
      BY <1>2, <2>1, <3>1 DEF BrokerPart
    <3> QED BY <2>1, <2>2, <3>2 DEF Send, CallTo, At, CallPart, CallRecords
  <2>3. ASSUME NEW d \in Callers, FillAtBroker(d) PROVE FALSE
    BY <1>2, <2>1, <2>3 DEF FillAtBroker, BrokerPart
  <2>4. ASSUME NEW p \in Presses, Flatten(p) PROVE FALSE
    BY <1>2, <2>1, <2>4 DEF Flatten, Cleaned, BrokerPart
  <2>5. (\E d \in Callers : Send(d) \/ FillAtBroker(d)) \/ \E p \in Presses : Flatten(p)
    BY <2>1 DEF Next, SwitchNext, OrderStep, AskCache, ReadFlag, StoreFlag, CheckVelocity, Halt, Halted,
          WindowPasses, CacheExpires, Enter, QueueNext, Queue, Delete, LookUp, Takes,
          Decide, Execute, Answer, switchVars, vars, Press, Unlock, PressStep, Activate, Activated,
          Reset, Finish, Crash, SwitchCrash
  <2> QED BY <2>2, <2>3, <2>4, <2>5
<1> QED BY <1>1, <1>2

\* A clean-up that succeeds leaves nothing open, or nothing held, of what it found;
\* one that fails is noted, and the press claims nothing any more.
LEMMA FlattenCleans ==
    ASSUME TypeInv, PanicInv, NEW p \in Presses, Flatten(p)
    PROVE  \A r \in Presses : CleanSoFar(r)'
<1>1. PressPart /\ BrokerPart /\ CleanSoFar(p)
  BY DEF TypeInv, PanicInv
<1>2. BrokerGoesOn
  BY <1>1 DEF Flatten, Cleaned, BrokerGoesOn, BrokerPart
<1>3. \A r \in Presses \ {p} : press'[r] = press[r]
  BY <1>1 DEF Flatten, Cleaned, PressPart
<1>4. CleanSoFar(p)'
  <2>1. CASE PressAt(p, "cancel") /\ Cleaned(p, "close", "open", "cancelled")
    <3>1. press[p].step = "cancel" /\ press[p].older = {}
      BY <1>1, <2>1 DEF PressAt, CleanSoFar
    <3>2. CASE /\ broker' = [c \in Callers |-> IF broker[c] = "open" THEN "cancelled" ELSE broker[c]]
               /\ press' = [press EXCEPT ![p].step = "close", ![p].older = AtBroker]
      <4>1. press'[p].step = "close" /\ press'[p].older = AtBroker
        BY <1>1, <3>2 DEF PressPart
      <4>2. \A c \in AtBroker : broker'[c] \in {"filled", "cancelled"}
        BY <1>1, <3>2 DEF AtBroker, BrokerPart
      <4> QED BY <4>1, <4>2 DEF CleanSoFar
    <3>3. CASE press' = [press EXCEPT ![p].step = "close", ![p].clean = FALSE]
      <4>1. press'[p].step = "close" /\ press'[p].older = {}
        BY <1>1, <3>1, <3>3 DEF PressPart
      <4> QED BY <4>1 DEF CleanSoFar
    <3> QED BY <2>1, <3>2, <3>3 DEF Cleaned
  <2>2. CASE PressAt(p, "close") /\ Cleaned(p, "reset", "filled", "closed")
    <3>1. press[p].step = "close" /\ press[p].older \subseteq Callers
      BY <1>1, <2>2 DEF PressAt, PressPart
    <3>2. \A c \in press[p].older : broker'[c] # "none"
      BY <1>1, <1>2, <3>1 DEF CleanSoFar, BrokerGoesOn
    <3>3. CASE /\ broker' = [c \in Callers |-> IF broker[c] = "filled" THEN "closed" ELSE broker[c]]
               /\ press' = [press EXCEPT ![p].step = "reset", ![p].older = @]
      <4>1. press'[p].step = "reset" /\ press'[p].older = press[p].older /\ press'[p].clean = press[p].clean
        BY <1>1, <3>3 DEF PressPart
      <4>2. press[p].clean => \A c \in press[p].older : broker'[c] \in {"cancelled", "closed"}
        BY <1>1, <3>1, <3>3 DEF CleanSoFar, BrokerPart
      <4> QED BY <3>2, <4>1, <4>2 DEF CleanSoFar
    <3>4. CASE press' = [press EXCEPT ![p].step = "reset", ![p].clean = FALSE]
      <4>1. press'[p].step = "reset" /\ press'[p].older = press[p].older /\ press'[p].clean = FALSE
        BY <1>1, <3>4 DEF PressPart
      <4> QED BY <3>2, <4>1 DEF CleanSoFar
    <3> QED BY <2>2, <3>3, <3>4 DEF Cleaned
  <2> QED BY <2>1, <2>2 DEF Flatten
<1> QED BY <1>1, <1>2, <1>3, <1>4, CleanStays DEF PanicInv

\* A press that moves without a clean-up goes to a step that knows no more.
LEMMA MovedPressIsClean ==
    ASSUME TypeInv, PanicInv, NEW p \in Presses, NEW step \in PressSteps, PressTo(p, step), broker' = broker,
           \/ press[p].step \in {"idle", "set", "announce", "cancel"}
           \/ press[p].step \in {"reset", "finish", "done"} /\ step \in {"reset", "finish", "done"}
    PROVE  \A r \in Presses : CleanSoFar(r)'
<1>1. PressPart /\ CleanSoFar(p)
  BY DEF TypeInv, PanicInv
<1>2. /\ press'[p].step = step /\ press'[p].older = press[p].older /\ press'[p].clean = press[p].clean
      /\ \A r \in Presses \ {p} : press'[r] = press[r]
  BY <1>1, PressMoves
<1>3. CleanSoFar(p)'
  BY <1>1, <1>2 DEF CleanSoFar
<1> QED BY <1>1, <1>2, <1>3, CleanStays, BrokerStays DEF PanicInv

\* Every step keeps what the presses know.
LEMMA PanicNext ==
    ASSUME TypeInv, PanicInv, [Next]_vars
    PROVE  PanicInv'
<1>1. OnlyTheDoneAreSent'
  BY SentNext
<1>2. PressPart /\ BrokerPart /\ CallPart
  BY DEF TypeInv
<1> DEFINE Goal == \A p \in Presses : CleanSoFar(p)'
<1> SUFFICES Goal
  BY <1>1 DEF PanicInv
<1>3. ASSUME UNCHANGED press, BrokerGoesOn PROVE Goal
  BY <1>2, <1>3, CleanStays DEF PanicInv
<1>4. ASSUME NEW c \in Callers, Send(c) PROVE Goal
  <2>1. broker[c] = "none" /\ UNCHANGED press
    BY <1>4 DEF Send, At, PanicInv, OnlyTheDoneAreSent
  <2>2. BrokerGoesOn
    BY <1>2, <1>4, <2>1 DEF Send, BrokerGoesOn, BrokerPart
  <2> QED BY <1>3, <2>1, <2>2
<1>5. ASSUME NEW c \in Callers, FillAtBroker(c) PROVE Goal
  <2>1. BrokerGoesOn /\ UNCHANGED press
    BY <1>2, <1>5 DEF FillAtBroker, BrokerGoesOn, BrokerPart
  <2> QED BY <1>3, <2>1
<1>6. ASSUME NEW p \in Presses, Press(p) \/ Unlock(p) \/ PressStep(p) PROVE Goal
  <2>1. CASE Flatten(p)
    BY <2>1, FlattenCleans
  <2>2. CASE Press(p) \/ Unlock(p) \/ Activate(p) \/ Activated(p) \/ Reset(p) \/ Finish(p)
    <3>1. PICK step \in PressSteps :
             /\ PressTo(p, step)
             /\ \/ press[p].step \in {"idle", "set", "announce", "cancel"}
                \/ press[p].step \in {"reset", "finish", "done"} /\ step \in {"reset", "finish", "done"}
      BY <2>2 DEF Press, Unlock, Activate, Activated, Reset, Finish, PressAt, PressSteps
    <3>2. broker' = broker
      BY <2>2 DEF Press, Unlock, Activate, Activated, Reset, Finish
    <3> QED BY <3>1, <3>2, MovedPressIsClean
  <2> QED BY <1>6, <2>1, <2>2 DEF PressStep
<1>7. CASE Crash
  <2>1. /\ broker' = broker
        /\ press' = [r \in Presses |-> [press[r] EXCEPT !.step = IF @ \in {"idle", "done"} THEN @ ELSE "dead"]]
    BY <1>7 DEF Crash, SwitchCrash
  <2>2. \A p \in Presses : /\ press'[p].older = press[p].older /\ press'[p].clean = press[p].clean
                           /\ press'[p].step \in {press[p].step, "dead"}
    BY <1>2, <2>1 DEF PressPart
  <2> QED BY <2>1, <2>2 DEF PanicInv, CleanSoFar
<1>8. ASSUME UNCHANGED <<press, broker>> PROVE Goal
  BY <1>3, <1>8, BrokerStays
<1>9. CASE OrderStep
  <2>1. (\E c \in Callers : Send(c)) \/ UNCHANGED <<press, broker>>
    BY <1>9 DEF OrderStep, AskCache, ReadFlag, StoreFlag, CheckVelocity, Halt, Halted
  <2> QED BY <1>4, <1>8, <2>1
<1>10. CASE UNCHANGED vars \/ WindowPasses \/ CacheExpires \/ QueueNext \/ \E c \in Callers : Enter(c)
  BY <1>8, <1>10 DEF vars, switchVars, WindowPasses, CacheExpires, Enter, QueueNext, Queue, Delete, LookUp, Takes,
          Decide, Execute, Answer
<1> QED BY <1>4, <1>5, <1>6, <1>7, <1>9, <1>10 DEF Next, SwitchNext

\* Once a press has flattened the account without a failure, no order that was at the
\* broker when it began to close positions is open or held, for any callers and presses.
THEOREM PanicFlattens == Spec => []PanicLeavesNothingOlder
<1>1. Init => PanicInv
  BY DEF Init, SwitchInit, PanicInv, OnlyTheDoneAreSent, CleanSoFar
<1>2. PanicInv => PanicLeavesNothingOlder
  BY DEF PanicInv, CleanSoFar, PanicLeavesNothingOlder
<1> QED BY <1>1, <1>2, TypeInit, TypeNext, PanicNext, PTL DEF Spec

-----------------------------------------------------------------------------
(* What becomes of a queued order. *)

\* An approver that executes a row, or whose order for it has been started.
Works(a, q) == decision[a].on = q /\ (decision[a].step \in {"execute", "answer"} \/ ~At(a, "idle"))

\* Unless two decisions about a row overlapped, whoever decides about it finds it
\* pending and is alone,
OneDecides(q) == \A a, b \in Approvers :
    decision[a].on = q /\ Decides(a, "decide") =>
        /\ row[q].status = "pending"
        /\ decision[b].on = q /\ Decides(b, "decide") => a = b

\* and so is whoever executes it, which was approved;
OneWorks(q) == \A a, b \in Approvers :
    Works(a, q) =>
        /\ row[q].status \in {"approved", "deleted"} /\ decision[a].verdict = "approved"
        /\ Works(b, q) => a = b

\* a row that holds an answer has it from somebody who is done with it,
AnswersAreGiven(q) == row[q].broker # "none" => \E a \in Approvers : Works(a, q) /\ Decides(a, "done")

\* and the row of an approver that is done with it says what the broker made of it:
\* nothing the broker has not done, and all of it unless something failed.
RightlyAnswered(a, q) ==
    /\ row[q].broker = "placed" => Reached(a)
    /\ q \in unheard \/ row[q].broker = IF Reached(a) THEN "placed" ELSE "rejected"

AnswersAreRight(q) ==
    row[q].status = "approved" =>
        /\ Executors(q) # {}
        /\ \A a \in Executors(q) : Decides(a, "done") => At(a, "done") /\ RightlyAnswered(a, q)

\* Together: what holds of a row that no two decided about at once.
RowIsRight(q) == OneDecides(q) /\ OneWorks(q) /\ AnswersAreGiven(q) /\ AnswersAreRight(q)

\* A row is there once its request is through; until then nobody decides about it, and
\* while it is pending nobody has.
RowInv(q) ==
    /\ row[q].status # "absent" => At(q, "done")
    /\ row[q].status = "absent" => \A a \in Approvers : ~Decides(a, "idle") => decision[a].on # q
    /\ row[q].status = "pending" => \A a \in Approvers :
           decision[a].on = q => decision[a].step \in {"idle", "decide", "dead"} /\ At(a, "idle")
    /\ q \notin raced => RowIsRight(q)

IdleSaysNothing == \A a \in Approvers : Decides(a, "idle") => decision[a].verdict = "none"

QueueRowsInv == IdleSaysNothing /\ \A q \in Requests : RowInv(q)

\* An approver that is where it was, as far as a row is concerned.
SamePlace(a) ==
    /\ decision'[a] = decision[a]
    /\ At(a, "idle")' <=> At(a, "idle")
    /\ At(a, "done") => At(a, "done")' /\ (Reached(a)' <=> Reached(a))

\* A row that stays, with everybody that is concerned with it, keeps its invariant.
LEMMA RowStays ==
    ASSUME TypeInv, IdleSaysNothing, NEW q \in Requests, RowInv(q),
           row'[q] = row[q], raced \subseteq raced', unheard \subseteq unheard', At(q, "done") => At(q, "done")',
           \A a \in Approvers : \/ SamePlace(a)
                                \/ (decision[a].on # q \/ Decides(a, "idle")) /\ decision'[a].on # q
    PROVE  RowInv(q)'
<1>1. \A a \in Approvers : Decides(a, "idle") => At(a, "idle") /\ decision[a].verdict = "none"
  BY DEF TypeInv, CallPart, ApproverWaits, IdleSaysNothing, Decides
<1>2. row'[q].status = "absent" => \A a \in Approvers : ~Decides(a, "idle")' => decision'[a].on # q
  BY DEF RowInv, SamePlace, Decides
<1>3. row'[q].status = "pending" => \A a \in Approvers :
         decision'[a].on = q => decision'[a].step \in {"idle", "decide", "dead"} /\ At(a, "idle")'
  BY DEF RowInv, SamePlace
<1>4. ASSUME q \notin raced' PROVE RowIsRight(q)'
  <2>1. OneDecides(q) /\ OneWorks(q) /\ AnswersAreGiven(q) /\ AnswersAreRight(q)
    BY <1>4 DEF RowInv, RowIsRight
  <2>2. OneDecides(q)'
    BY <2>1 DEF OneDecides, SamePlace, Decides
  <2>3. \A a \in Approvers : Works(a, q)' => Works(a, q) /\ SamePlace(a)
    BY DEF Works, SamePlace
  <2>4. OneWorks(q)'
    BY <2>1, <2>3 DEF OneWorks, SamePlace
  <2>5. AnswersAreRight(q)'
    <3> SUFFICES ASSUME row[q].status = "approved"
                 PROVE  /\ Executors(q)' # {}
                        /\ \A a \in Executors(q)' : Decides(a, "done")' => At(a, "done")' /\ RightlyAnswered(a, q)'
      BY DEF AnswersAreRight
    <3>1. PICK a \in Executors(q) : TRUE
      BY <2>1 DEF AnswersAreRight
    <3>2. a \in Executors(q)'
      <4>1. a \in Approvers /\ decision[a].on = q /\ decision[a].verdict = "approved"
        BY DEF Executors
      <4>2. decision'[a] = decision[a]
        BY <1>1, <4>1 DEF SamePlace
      <4> QED BY <4>1, <4>2 DEF Executors
    <3>3. ASSUME NEW b \in Executors(q)', Decides(b, "done")'
          PROVE  At(b, "done")' /\ RightlyAnswered(b, q)'
      <4>1. b \in Approvers /\ decision'[b].on = q /\ decision'[b].verdict = "approved"
        BY DEF Executors
      <4>2. SamePlace(b) /\ b \in Executors(q) /\ Decides(b, "done")
        BY <3>3, <4>1 DEF SamePlace, Executors, Decides
      <4>3. At(b, "done") /\ RightlyAnswered(b, q)
        BY <2>1, <4>2 DEF AnswersAreRight
      <4>4. At(b, "done")' /\ (Reached(b)' <=> Reached(b))
        BY <4>2, <4>3 DEF SamePlace
      <4> QED BY <4>3, <4>4 DEF RightlyAnswered
    <3> QED BY <3>2, <3>3
  <2>6. AnswersAreGiven(q)'
    <3> SUFFICES ASSUME row[q].broker # "none"
                 PROVE  \E a \in Approvers : Works(a, q)' /\ Decides(a, "done")'
      BY DEF AnswersAreGiven
    <3>1. PICK a \in Approvers : Works(a, q) /\ Decides(a, "done")
      BY <2>1 DEF AnswersAreGiven
    <3>2. SamePlace(a)
      BY <3>1 DEF Works, Decides
    <3> QED BY <3>1, <3>2 DEF SamePlace, Works, Decides
  <2> QED BY <2>2, <2>4, <2>5, <2>6 DEF RowIsRight
<1> QED BY <1>2, <1>3, <1>4 DEF RowInv

\* Steps of the switch do not concern the queue: no approver starts or ends by them but
\* at the broker, and what the broker made of an order that is through stays.
LEMMA SwitchRows ==
    ASSUME TypeInv, OnlyTheDoneAreSent, QueueRowsInv, [Next]_vars, UNCHANGED queueVars
    PROVE  QueueRowsInv'
<1>1. CallPart /\ BrokerPart
  BY DEF TypeInv
<1>2. \A c \in Callers : At(c, "done") => At(c, "done")'
  BY DoneStays
<1>3. ASSUME NEW a \in Approvers PROVE SamePlace(a)
  <2>1. a \in Callers /\ decision'[a] = decision[a]
    BY DEF Callers, queueVars
  <2>2. ASSUME At(a, "done") PROVE Reached(a)' <=> Reached(a)
    <3>1. ASSUME NEW c \in Callers, Send(c) PROVE broker'[a] = broker[a]
      <4>1. c # a
        BY <2>2, <3>1 DEF Send, At
      <4> QED BY <1>1, <2>1, <3>1, <4>1 DEF Send, BrokerPart
    <3>2. ASSUME NEW c \in Callers, FillAtBroker(c) PROVE Reached(a)' <=> Reached(a)
      BY <1>1, <2>1, <3>2 DEF FillAtBroker, BrokerPart, Reached
    <3>3. ASSUME NEW p \in Presses, Flatten(p) PROVE Reached(a)' <=> Reached(a)
      BY <1>1, <2>1, <3>3 DEF Flatten, Cleaned, BrokerPart, Reached
    <3>4. \/ broker' = broker
          \/ \E c \in Callers : Send(c) \/ FillAtBroker(c)
          \/ \E p \in Presses : Flatten(p)
      BY DEF Next, SwitchNext, OrderStep, AskCache, ReadFlag, StoreFlag, CheckVelocity, Halt, Halted,
          WindowPasses, CacheExpires, Enter, QueueNext, Queue, Delete, LookUp, Takes,
          Decide, Execute, Answer, switchVars, vars, Press, Unlock, PressStep, Activate, Activated,
          Reset, Finish, Crash, SwitchCrash
    <3> QED BY <3>1, <3>2, <3>3, <3>4 DEF Reached
  <2>3. At(a, "idle")' <=> At(a, "idle")
    <3>1. CASE call' = call
      BY <3>1 DEF At
    <3>2. CASE OrderStep
      <4>1. PICK d \in Callers : AskCache(d) \/ ReadFlag(d) \/ StoreFlag(d)
                                 \/ CheckVelocity(d) \/ Halt(d) \/ Halted(d) \/ Send(d)
        BY <3>2 DEF OrderStep
      <4>2. ~At(d, "idle")
        BY <4>1 DEF At, AskCache, ReadFlag, StoreFlag, CheckVelocity, Halt, Halted, Send
      <4>3. \A e \in Callers \ {d} : call'[e] = call[e]
        BY <1>1, <4>1 DEF CallPart, AskCache, ReadFlag, StoreFlag, CheckVelocity, Halt, Halted, Send, CallTo, Verdict
      <4>4. call'[d].step # "idle"
        BY <1>1, <4>1 DEF CallPart, CallRecords, AskCache, ReadFlag, StoreFlag, CheckVelocity, Halt, Halted, Send,
                         CallTo, Verdict
      <4> QED BY <2>1, <4>2, <4>3, <4>4 DEF At
    <3>3. ASSUME NEW p \in Presses, Reset(p) PROVE At(a, "idle")' <=> At(a, "idle")
      BY <1>1, <2>1, <3>3 DEF Reset, Disarmed, At, CallPart, CallRecords
    <3>4. CASE Crash
      <4>1. call' = [d \in Callers |-> [call[d] EXCEPT !.step = IF @ = "idle" THEN @ ELSE "done"]]
        BY <3>4 DEF Crash, SwitchCrash
      <4> QED BY <1>1, <2>1, <4>1 DEF At, CallPart, CallRecords
    <3>5. ASSUME NEW c \in Callers, Enter(c) PROVE call'[a] = call[a]
      <4>1. c # a
        BY <3>5, KillSwitchAssumption DEF Enter
      <4> QED BY <1>1, <2>1, <3>5, <4>1 DEF Enter, CallPart
    <3>6. CASE QueueNext
      <4>1. ASSUME NEW q \in Requests, Queue(q) PROVE call'[a] = call[a]
        <5>1. q # a
          BY KillSwitchAssumption
        <5> QED BY <1>1, <2>1, <4>1, <5>1 DEF Queue, CallTo, CallPart
      <4>2. ASSUME NEW b \in Approvers, Execute(b) PROVE FALSE
        <5>1. PICK step \in {"answer", "done"} : decision' = [decision EXCEPT ![b].step = step]
          BY <4>2 DEF Execute, DecisionTo
        <5>2. decision'[b].step = step
          BY <5>1 DEF TypeInv, RowPart
        <5>3. decision' = decision
          BY DEF queueVars
        <5> QED BY <4>2, <5>1, <5>2, <5>3 DEF Execute, Decides
      <4>3. (\E q \in Requests : Queue(q)) \/ (\E b \in Approvers : Execute(b)) \/ call' = call
        BY <3>6 DEF QueueNext, Delete, LookUp, Takes, Decide, Answer, switchVars
      <4> QED BY <4>1, <4>2, <4>3 DEF At
    <3>7. \/ call' = call \/ OrderStep \/ Crash \/ QueueNext
          \/ (\E p \in Presses : Reset(p)) \/ \E c \in Callers : Enter(c)
      BY DEF Next, SwitchNext, WindowPasses, CacheExpires, FillAtBroker, switchVars, vars, Press, Unlock,
          PressStep, Activate, Activated, Flatten, Cleaned, Finish
    <3> QED BY <3>1, <3>2, <3>3, <3>4, <3>5, <3>6, <3>7 DEF At
  <2> QED BY <1>2, <2>1, <2>2, <2>3 DEF SamePlace
<1>4. ASSUME NEW q \in Requests PROVE RowInv(q)'
  <2>1. row' = row /\ raced' = raced /\ unheard' = unheard /\ q \in Callers
    BY DEF queueVars, Callers
  <2> QED BY <1>2, <1>3, <2>1, RowStays DEF QueueRowsInv
<1>5. IdleSaysNothing'
  BY DEF QueueRowsInv, IdleSaysNothing, queueVars, Decides
<1> QED BY <1>4, <1>5 DEF QueueRowsInv

\* The rows an action of the queue does not touch: all but one, and the approvers but
\* one stay where they are.
LEMMA OtherRowsStay ==
    ASSUME TypeInv, QueueRowsInv, NEW q \in Requests, NEW r \in Requests \ {q}, row'[r] = row[r],
           raced \subseteq raced', unheard \subseteq unheard', At(r, "done") => At(r, "done")',
           \A a \in Approvers : \/ SamePlace(a)
                                \/ (decision[a].on = q \/ Decides(a, "idle")) /\ decision'[a].on = q
    PROVE  RowInv(r)'
BY RowStays DEF QueueRowsInv

\* A request is queued: its row was absent, so nobody has decided about it.
LEMMA QueueRows ==
    ASSUME TypeInv, QueueRowsInv, NEW q \in Requests, Queue(q)
    PROVE  QueueRowsInv'
<1>1. CallPart /\ LockPart /\ RowPart /\ RowInv(q)
  BY DEF TypeInv, QueueRowsInv
<1>2. /\ row' = [row EXCEPT ![q].status = "pending"] /\ UNCHANGED <<decision, raced, unheard, broker>>
      /\ call' = [call EXCEPT ![q].step = "done"] /\ q \in Callers /\ call[q].step = "risk"
  BY DEF Queue, CallTo, At, Callers
<1>3. /\ call'[q].step = "done" /\ \A c \in Callers \ {q} : call'[c] = call[c]
      /\ row'[q].status = "pending" /\ \A r \in Requests \ {q} : row'[r] = row[r]
  BY <1>1, <1>2 DEF CallPart, CallRecords, RowPart
<1>4. \A a \in Approvers : a \in Callers \ {q} /\ SamePlace(a)
  BY <1>2, <1>3, KillSwitchAssumption DEF SamePlace, At, Reached, Callers
<1>5. row[q].status = "absent"
  BY <1>1, <1>2 DEF RowInv, At
<1>6. RowInv(q)'
  <2>1. \A a \in Approvers : decision'[a].on = q => Decides(a, "idle")'
    BY <1>1, <1>2, <1>5 DEF RowInv, Decides
  <2>2. \A a \in Approvers : Decides(a, "idle")' => At(a, "idle")'
    BY <1>1, <1>2, <1>4 DEF CallPart, ApproverWaits, Decides, SamePlace
  <2>3. OneDecides(q)' /\ OneWorks(q)'
    BY <2>1, <2>2 DEF OneDecides, OneWorks, Works, Decides
  <2>4. ASSUME q \notin raced PROVE AnswersAreGiven(q)'
    <3>1. AnswersAreGiven(q) /\ row'[q].broker = row[q].broker
      BY <1>1, <1>2, <2>4 DEF RowInv, RowIsRight, RowPart, RowRecords
    <3>2. \A a \in Approvers : ~(Works(a, q) /\ Decides(a, "done"))
      BY <1>2, <2>1 DEF Works, Decides
    <3> QED BY <3>1, <3>2 DEF AnswersAreGiven
  <2> QED BY <1>2, <1>3, <2>1, <2>2, <2>3, <2>4 DEF RowInv, RowIsRight, AnswersAreRight, At, Decides
<1>7. \A r \in Requests \ {q} : RowInv(r)'
  <2> TAKE r \in Requests \ {q}
  <2>1. At(r, "done") => At(r, "done")'
    BY <1>3 DEF At, Callers
  <2> QED BY <1>2, <1>3, <1>4, <2>1, OtherRowsStay
<1>8. IdleSaysNothing'
  BY <1>2 DEF QueueRowsInv, IdleSaysNothing, Decides
<1> QED BY <1>6, <1>7, <1>8 DEF QueueRowsInv

\* A row is deleted after it was decided.
LEMMA DeleteRows ==
    ASSUME TypeInv, QueueRowsInv, NEW q \in Requests, Delete(q)
    PROVE  QueueRowsInv'
<1>1. RowPart /\ RowInv(q)
  BY DEF TypeInv, QueueRowsInv
<1>2. /\ row' = [row EXCEPT ![q].status = "deleted"] /\ UNCHANGED <<call, decision, raced, unheard, broker>>
      /\ row[q].status \in {"approved", "rejected"}
  BY DEF Delete, switchVars
<1>3. row'[q].status = "deleted" /\ \A r \in Requests \ {q} : row'[r] = row[r]
  BY <1>1, <1>2 DEF RowPart
<1>4. \A a \in Approvers : SamePlace(a)
  BY <1>2 DEF SamePlace, At, Reached
<1>5. \A r \in Requests : At(r, "done") => At(r, "done")'
  BY <1>2 DEF At
<1>6. RowInv(q)'
  <2>1. ASSUME q \notin raced PROVE OneDecides(q)' /\ OneWorks(q)' /\ AnswersAreGiven(q)'
    <3>1. OneDecides(q) /\ OneWorks(q) /\ AnswersAreGiven(q)
      BY <1>1, <2>1 DEF RowInv, RowIsRight
    <3>2. \A a \in Approvers : ~(decision[a].on = q /\ Decides(a, "decide"))
      BY <1>2, <3>1 DEF OneDecides
    <3>3. OneDecides(q)'
      BY <1>2, <3>2 DEF OneDecides, Decides
    <3>4. OneWorks(q)'
      BY <1>2, <1>3, <3>1 DEF OneWorks, Works, At
    <3>5. AnswersAreGiven(q)'
      <4>1. row'[q].broker = row[q].broker
        BY <1>1, <1>2 DEF RowPart, RowRecords
      <4> QED BY <1>2, <3>1, <4>1 DEF AnswersAreGiven, Works, Decides, At
    <3> QED BY <3>3, <3>4, <3>5
  <2> QED BY <1>1, <1>2, <1>3, <1>5, <2>1 DEF RowInv, RowIsRight, AnswersAreRight
<1>7. \A r \in Requests \ {q} : RowInv(r)'
  BY <1>2, <1>3, <1>4, <1>5, OtherRowsStay
<1>8. IdleSaysNothing'
  BY <1>2 DEF QueueRowsInv, IdleSaysNothing, Decides
<1> QED BY <1>6, <1>7, <1>8 DEF QueueRowsInv

\* A pending row is looked up: by somebody alone, or the overlap is noted.
LEMMA LookUpRows ==
    ASSUME TypeInv, QueueRowsInv, NEW a \in Approvers, NEW q \in Requests, NEW verdict \in {"approved", "rejected"},
           LookUp(a, q, verdict)
    PROVE  QueueRowsInv'
<1>1. CallPart /\ RowPart /\ RowInv(q)
  BY DEF TypeInv, QueueRowsInv
<1>2. /\ decision' = [decision EXCEPT ![a] = [on |-> q, verdict |-> verdict, step |-> "decide"]]
      /\ raced' = (IF OnHand(q) = {} THEN raced ELSE raced \cup {q})
      /\ UNCHANGED <<call, broker, row, unheard>> /\ decision[a].step = "idle" /\ row[q].status = "pending"
  BY DEF LookUp, Takes, switchVars, Decides
<1>3. /\ decision'[a].on = q /\ decision'[a].step = "decide"
      /\ \A b \in Approvers \ {a} : decision'[b] = decision[b]
  BY <1>1, <1>2 DEF RowPart
<1>4. \A b \in Approvers \ {a} : SamePlace(b)
  BY <1>2, <1>3 DEF SamePlace, At, Reached
<1>5. call[a].step = "idle" /\ \A r \in Requests : At(r, "done") => At(r, "done")'
  BY <1>1, <1>2 DEF CallPart, ApproverWaits, At
<1>6. RowInv(q)'
  <2>1. \A b \in Approvers : decision'[b].on = q => decision'[b].step \in {"idle", "decide", "dead"} /\ At(b, "idle")'
    BY <1>1, <1>2, <1>3, <1>5 DEF RowInv, At
  <2>2. ASSUME q \notin raced' PROVE OneDecides(q)'
    <3>1. \A b \in Approvers : ~(decision[b].on = q /\ Decides(b, "decide"))
      BY <1>2, <2>2 DEF OnHand
    <3> QED BY <1>2, <1>3, <3>1 DEF OneDecides, Decides
  <2>3. OneWorks(q)'
    BY <2>1 DEF OneWorks, Works
  <2>4. ASSUME q \notin raced' PROVE AnswersAreGiven(q)'
    <3>1. AnswersAreGiven(q)
      BY <1>1, <1>2, <2>4 DEF RowInv, RowIsRight
    <3>2. \A b \in Approvers : Works(b, q) /\ Decides(b, "done") => (Works(b, q) /\ Decides(b, "done"))'
      BY <1>2, <1>3 DEF Works, Decides, At
    <3> QED BY <1>2, <3>1, <3>2 DEF AnswersAreGiven
  <2> QED BY <1>1, <1>2, <1>5, <2>1, <2>2, <2>3, <2>4 DEF RowInv, RowIsRight, AnswersAreRight
<1>7. \A r \in Requests \ {q} : RowInv(r)'
  <2>1. raced \subseteq raced' /\ Decides(a, "idle")
    BY <1>2 DEF Decides
  <2> QED BY <1>2, <1>3, <1>4, <1>5, <2>1, OtherRowsStay
<1>8. IdleSaysNothing'
  BY <1>3 DEF QueueRowsInv, IdleSaysNothing, Decides
<1> QED BY <1>6, <1>7, <1>8 DEF QueueRowsInv

\* The decision is written: nobody else had one, unless they overlapped.
LEMMA DecideRows ==
    ASSUME TypeInv, QueueRowsInv, NEW a \in Approvers, Decide(a)
    PROVE  QueueRowsInv'
<1>0. PICK q, verdict : q = decision[a].on /\ verdict = decision[a].verdict
  OBVIOUS
<1>1. CallPart /\ RowPart /\ decision[a].step = "decide"
  BY DEF TypeInv, Decide, Decides
<1>2. q \in Requests /\ verdict \in {"approved", "rejected"} /\ RowInv(q) /\ call[a].step = "idle"
  BY <1>0, <1>1 DEF RowPart, DecisionIsAboutARow, QueueRowsInv, CallPart, ApproverWaits, At
<1>3. UNCHANGED <<call, broker, raced, unheard>>
  BY DEF Decide, switchVars
<1>4. PICK step \in {"execute", "done"} :
         /\ decision' = [decision EXCEPT ![a].step = step]
         /\ \/ row[q].status = "deleted" /\ step = "done" /\ row' = row
            \/ /\ row[q].status # "deleted" /\ row' = [row EXCEPT ![q].status = verdict]
               /\ step = IF verdict = "approved" THEN "execute" ELSE "done"
  BY <1>0 DEF Decide, DecisionTo
<1>5. /\ decision'[a].on = q /\ decision'[a].verdict = verdict /\ decision'[a].step = step
      /\ \A b \in Approvers \ {a} : decision'[b] = decision[b]
      /\ \A r \in Requests \ {q} : row'[r] = row[r]
      /\ row'[q].status = IF row[q].status = "deleted" THEN "deleted" ELSE verdict
  BY <1>0, <1>1, <1>2, <1>4 DEF RowPart, RowRecords, DecisionRecords
<1>6. \A b \in Approvers \ {a} : SamePlace(b)
  BY <1>3, <1>5 DEF SamePlace, At, Reached
<1>7. \A r \in Requests : At(r, "done") => At(r, "done")'
  BY <1>3 DEF At
<1>8. RowInv(q)'
  <2>1. row[q].status # "absent" /\ row'[q].status \notin {"absent", "pending"}
    BY <1>0, <1>1, <1>2, <1>5 DEF RowInv, Decides
  <2>2. ASSUME q \notin raced PROVE RowIsRight(q)'
    <3>1. OneDecides(q) /\ AnswersAreGiven(q) /\ decision[a].on = q /\ Decides(a, "decide")
      BY <1>0, <1>1, <1>2, <2>2 DEF RowInv, RowIsRight, Decides
    <3>2. row[q].status = "pending"
      BY <3>1 DEF OneDecides
    <3>3. \A b \in Approvers \ {a} : decision[b].on = q => decision[b].step \in {"idle", "dead"} /\ At(b, "idle")
      BY <1>2, <3>1, <3>2 DEF RowInv, OneDecides, Decides
    <3>4. step = IF verdict = "approved" THEN "execute" ELSE "done"
      BY <1>4, <3>2
    <3>5. OneDecides(q)'
      BY <1>5, <3>3 DEF OneDecides, Decides
    <3>6. \A b \in Approvers : Works(b, q)' => b = a /\ verdict = "approved"
      BY <1>2, <1>3, <1>5, <3>3, <3>4 DEF Works, At
    <3>7. OneWorks(q)'
      BY <1>5, <3>2, <3>6 DEF OneWorks
    <3>8. AnswersAreRight(q)'
      <4> SUFFICES ASSUME verdict = "approved"
                   PROVE  Executors(q)' # {} /\ \A b \in Executors(q)' : ~Decides(b, "done")'
        BY <1>5, <3>2 DEF AnswersAreRight
      <4>1. a \in Executors(q)'
        BY <1>5 DEF Executors
      <4>2. \A b \in Approvers : decision'[b].on = q => decision'[b].step # "done"
        BY <1>5, <3>3, <3>4
      <4> QED BY <4>1, <4>2 DEF Executors, Decides
    <3>9. AnswersAreGiven(q)'
      <4>1. \A b \in Approvers : ~(Works(b, q) /\ Decides(b, "done"))
        BY <1>2, <3>2 DEF RowInv, Works, Decides
      <4>2. row[q].broker = "none"
        BY <3>1, <4>1 DEF AnswersAreGiven
      <4>3. row'[q].broker = row[q].broker
        BY <1>1, <1>2, <1>4 DEF RowPart, RowRecords
      <4> QED BY <4>2, <4>3 DEF AnswersAreGiven
    <3> QED BY <3>5, <3>7, <3>8, <3>9 DEF RowIsRight
  <2> QED BY <1>2, <1>3, <1>7, <2>1, <2>2 DEF RowInv
<1>9. \A r \in Requests \ {q} : RowInv(r)'
  <2>1. decision[a].on = q /\ decision'[a].on = q
    BY <1>0, <1>5
  <2> QED BY <1>2, <1>3, <1>5, <1>6, <1>7, <2>1, OtherRowsStay
<1>10. IdleSaysNothing'
  BY <1>5 DEF QueueRowsInv, IdleSaysNothing, Decides
<1> QED BY <1>8, <1>9, <1>10 DEF QueueRowsInv

\* An approved row is executed by whoever approved it; one that is gone is not.
LEMMA ExecuteRows ==
    ASSUME TypeInv, QueueRowsInv, NEW a \in Approvers, Execute(a)
    PROVE  QueueRowsInv'
<1>1. PICK q : q = decision[a].on
  OBVIOUS
<1>2. CallPart /\ RowPart /\ decision[a].step = "execute" /\ a \in Callers
  BY DEF TypeInv, Execute, Decides, Callers
<1>3. q \in Requests /\ RowInv(q) /\ call[a].step = "idle"
  BY <1>1, <1>2 DEF RowPart, DecisionIsAboutARow, QueueRowsInv, CallPart, ApproverWaits, At
<1>4. UNCHANGED <<broker, raced, row>> /\ unheard \subseteq unheard'
  BY DEF Execute, Fails
<1>5. PICK step \in {"answer", "done"} :
         /\ decision' = [decision EXCEPT ![a].step = step]
         /\ \/ step = "done" /\ row[q].status # "approved" /\ call' = call
            \/ /\ step = "answer" /\ row[q].status = "approved"
               /\ \E new : call' = [call EXCEPT ![a] = new]
            \/ /\ step = "done" /\ q \in unheard'
               /\ call' = [call EXCEPT ![a] = [IdleCall EXCEPT !.step = "done"]]
  BY <1>1 DEF Execute, DecisionTo, Fails
<1>6. /\ decision'[a].on = q /\ decision'[a].verdict = decision[a].verdict /\ decision'[a].step = step
      /\ \A b \in Approvers \ {a} : decision'[b] = decision[b]
  BY <1>1, <1>2, <1>5 DEF RowPart
<1>7. \A c \in Callers \ {a} : call'[c] = call[c]
  BY <1>2, <1>5 DEF CallPart
<1>8. \A b \in Approvers \ {a} : SamePlace(b)
  BY <1>4, <1>6, <1>7 DEF SamePlace, At, Reached, Callers
<1>9. \A r \in Requests : At(r, "done") => At(r, "done")'
  BY <1>7, KillSwitchAssumption DEF At, Callers
<1>10. RowInv(q)'
  <2>1. row[q].status \notin {"absent", "pending"}
    BY <1>1, <1>2, <1>3 DEF RowInv, Decides
  <2>2. ASSUME q \notin raced PROVE RowIsRight(q)'
    <3>1. OneDecides(q) /\ OneWorks(q) /\ AnswersAreGiven(q) /\ AnswersAreRight(q) /\ Works(a, q)
      BY <1>1, <1>2, <1>3, <2>2 DEF RowInv, RowIsRight, Works
    <3>6. row[q].broker = "none"
      BY <1>2, <3>1 DEF AnswersAreGiven, OneWorks, Decides
    <3>7. AnswersAreGiven(q)'
      BY <1>4, <3>6 DEF AnswersAreGiven
    <3>2. OneDecides(q)'
      BY <1>4, <1>5, <1>6, <3>1 DEF OneDecides, Decides
    <3>3. \A b \in Approvers : Works(b, q)' => Works(b, q)
      BY <1>6, <1>7, <3>1 DEF Works, At, Callers
    <3>4. OneWorks(q)'
      BY <1>4, <1>6, <3>1, <3>3 DEF OneWorks
    <3>5. AnswersAreRight(q)'
      <4> SUFFICES ASSUME row[q].status = "approved"
                   PROVE  /\ Executors(q)' # {}
                          /\ \A b \in Executors(q)' : Decides(b, "done")' => At(b, "done")' /\ RightlyAnswered(b, q)'
        BY <1>4 DEF AnswersAreRight
      <4>1. decision[a].verdict = "approved"
        BY <3>1 DEF OneWorks
      <4>2. a \in Executors(q)'
        BY <1>6, <4>1 DEF Executors
      <4>3. ASSUME NEW b \in Executors(q)', Decides(b, "done")'
            PROVE  At(b, "done")' /\ RightlyAnswered(b, q)'
        <5>1. b \in Approvers /\ decision'[b].on = q /\ decision'[b].verdict = "approved"
          BY DEF Executors
        <5>2. CASE b = a
          <6>1. /\ q \in unheard'
                /\ call' = [call EXCEPT ![a] = [IdleCall EXCEPT !.step = "done"]]
            BY <1>5, <1>6, <4>3, <5>2 DEF Decides
          <6>2. At(a, "done")'
            BY <1>2, <6>1 DEF CallPart, At, IdleCall
          <6> QED BY <1>4, <3>6, <5>2, <6>1, <6>2 DEF RightlyAnswered
        <5>3. CASE b # a
          <6>1. b \in Executors(q) /\ Decides(b, "done") /\ b \in Callers
            BY <1>6, <4>3, <5>1, <5>3 DEF Executors, Decides, Callers
          <6> QED BY <1>4, <1>7, <3>1, <5>3, <6>1 DEF AnswersAreRight, RightlyAnswered, Reached, At
        <5> QED BY <5>2, <5>3
      <4> QED BY <4>2, <4>3
    <3> QED BY <3>2, <3>4, <3>5, <3>7 DEF RowIsRight
  <2> QED BY <1>3, <1>4, <1>9, <2>1, <2>2 DEF RowInv
<1>11. \A r \in Requests \ {q} : RowInv(r)'
  BY <1>1, <1>3, <1>4, <1>6, <1>8, <1>9, OtherRowsStay
<1>12. IdleSaysNothing'
  BY <1>6 DEF QueueRowsInv, IdleSaysNothing, Decides
<1> QED BY <1>10, <1>11, <1>12 DEF QueueRowsInv

\* The answer is written to a row that is still there, or something fails.
LEMMA AnswerRows ==
    ASSUME TypeInv, QueueRowsInv, NEW a \in Approvers, Answer(a)
    PROVE  QueueRowsInv'
<1>1. PICK q : q = decision[a].on
  OBVIOUS
<1>2. CallPart /\ RowPart /\ decision[a].step = "answer" /\ call[a].step = "done"
  BY DEF TypeInv, Answer, Decides, At
<1>3. q \in Requests /\ RowInv(q)
  BY <1>1, <1>2 DEF RowPart, DecisionIsAboutARow, QueueRowsInv
<1>4. /\ UNCHANGED <<call, broker, raced>> /\ decision' = [decision EXCEPT ![a].step = "done"]
      /\ unheard \subseteq unheard'
      /\ \/ row' = [row EXCEPT ![q].broker = IF row[q].status = "deleted" THEN @
                                             ELSE IF Reached(a) THEN "placed" ELSE "rejected"]
         \/ /\ q \in unheard'
            /\ \/ row' = row
               \/ row' = [row EXCEPT ![q].broker = IF row[q].status = "deleted" THEN @ ELSE "rejected"]
  BY <1>1 DEF Answer, DecisionTo, Fails
<1>5. /\ decision'[a].on = q /\ decision'[a].verdict = decision[a].verdict /\ decision'[a].step = "done"
      /\ \A b \in Approvers \ {a} : decision'[b] = decision[b]
  BY <1>1, <1>2, <1>4 DEF RowPart
<1>6. /\ \A r \in Requests \ {q} : row'[r] = row[r]
      /\ row'[q].status = row[q].status
      /\ row[q].status # "deleted" =>
           \/ row'[q].broker = IF Reached(a) THEN "placed" ELSE "rejected"
           \/ q \in unheard' /\ row'[q].broker \in {row[q].broker, "rejected"}
  <2>1. row[q] \in RowRecords /\ row \in [Requests -> RowRecords]
    BY <1>2, <1>3 DEF RowPart
  <2>2. CASE q \in unheard' /\ row' = row
    BY <2>1, <2>2
  <2>3. ASSUME NEW answer, row' = [row EXCEPT ![q].broker = answer]
        PROVE  /\ \A r \in Requests \ {q} : row'[r] = row[r]
               /\ row'[q].status = row[q].status /\ row'[q].broker = answer
    BY <1>3, <2>1, <2>3 DEF RowRecords
  <2>4. CASE row' = [row EXCEPT ![q].broker = IF row[q].status = "deleted" THEN @
                                              ELSE IF Reached(a) THEN "placed" ELSE "rejected"]
    <3> DEFINE answer == IF row[q].status = "deleted" THEN row[q].broker
                         ELSE IF Reached(a) THEN "placed" ELSE "rejected"
    <3>1. row' = [row EXCEPT ![q].broker = answer]
      BY <2>4
    <3>2. row[q].status # "deleted" => answer = IF Reached(a) THEN "placed" ELSE "rejected"
      OBVIOUS
    <3> HIDE DEF answer
    <3> QED BY <2>3, <3>1, <3>2
  <2>5. CASE /\ q \in unheard'
             /\ row' = [row EXCEPT ![q].broker = IF row[q].status = "deleted" THEN @ ELSE "rejected"]
    <3> DEFINE answer == IF row[q].status = "deleted" THEN row[q].broker ELSE "rejected"
    <3>1. row' = [row EXCEPT ![q].broker = answer]
      BY <2>5
    <3>2. row[q].status # "deleted" => answer = "rejected"
      OBVIOUS
    <3> HIDE DEF answer
    <3> QED BY <2>3, <2>5, <3>1, <3>2
  <2> QED BY <1>4, <2>2, <2>4, <2>5
<1>7. \A b \in Approvers \ {a} : SamePlace(b)
  BY <1>4, <1>5 DEF SamePlace, At, Reached
<1>8. \A r \in Requests : At(r, "done") => At(r, "done")'
  BY <1>4 DEF At
<1>9. RowInv(q)'
  <2>1. row[q].status \notin {"absent", "pending"}
    BY <1>1, <1>2, <1>3 DEF RowInv, Decides
  <2>2. ASSUME q \notin raced PROVE RowIsRight(q)'
    <3>1. OneDecides(q) /\ OneWorks(q) /\ AnswersAreGiven(q) /\ AnswersAreRight(q) /\ Works(a, q)
      BY <1>1, <1>2, <1>3, <2>2 DEF RowInv, RowIsRight, Works
    <3>6. row[q].broker = "none"
      BY <1>2, <3>1 DEF AnswersAreGiven, OneWorks, Decides
    <3>8. At(a, "done")' /\ Decides(a, "done")' /\ Works(a, q)'
      BY <1>2, <1>4, <1>5 DEF At, Decides, Works
    <3>7. AnswersAreGiven(q)'
      BY <3>8 DEF AnswersAreGiven
    <3>2. OneDecides(q)'
      BY <1>5, <1>6, <3>1 DEF OneDecides, Decides
    <3>3. \A b \in Approvers : Works(b, q)' => Works(b, q)
      BY <1>4, <1>5, <3>1 DEF Works, At
    <3>4. OneWorks(q)'
      BY <1>5, <1>6, <3>1, <3>3 DEF OneWorks
    <3>5. AnswersAreRight(q)'
      <4> SUFFICES ASSUME row[q].status = "approved"
                   PROVE  /\ Executors(q)' # {}
                          /\ \A b \in Executors(q)' : Decides(b, "done")' => At(b, "done")' /\ RightlyAnswered(b, q)'
        BY <1>4, <1>6 DEF AnswersAreRight
      <4>1. decision[a].verdict = "approved"
        BY <3>1 DEF OneWorks
      <4>2. a \in Executors(q)'
        BY <1>5, <4>1 DEF Executors
      <4>3. ASSUME NEW b \in Executors(q)', Decides(b, "done")'
            PROVE  At(b, "done")' /\ RightlyAnswered(b, q)'
        <5>1. b \in Approvers /\ decision'[b].on = q /\ decision'[b].verdict = "approved"
          BY DEF Executors
        <5>2. CASE b = a
          <6>1. RightlyAnswered(a, q)'
            <7>1. Reached(a)' <=> Reached(a)
              BY <1>4 DEF Reached
            <7>2. row[q].status # "deleted"
              OBVIOUS
            <7> QED BY <1>6, <3>6, <7>1, <7>2 DEF RightlyAnswered
          <6> QED BY <3>8, <5>2, <6>1
        <5>3. CASE b # a
          <6>1. b \in Executors(q) /\ Decides(b, "done")
            BY <1>5, <4>3, <5>1, <5>3 DEF Executors, Decides
          <6>2. At(b, "done")
            BY <3>1, <6>1 DEF AnswersAreRight
          <6>3. Works(b, q)
            BY <1>5, <5>1, <5>3, <6>2 DEF Works, At
          <6> QED BY <3>1, <5>1, <5>3, <6>3 DEF OneWorks
        <5> QED BY <5>2, <5>3
      <4> QED BY <4>2, <4>3
    <3> QED BY <3>2, <3>4, <3>5, <3>7 DEF RowIsRight
  <2> QED BY <1>3, <1>4, <1>6, <1>8, <2>1, <2>2 DEF RowInv
<1>10. \A r \in Requests \ {q} : RowInv(r)'
  BY <1>1, <1>3, <1>4, <1>5, <1>6, <1>7, <1>8, OtherRowsStay
<1>11. IdleSaysNothing'
  BY <1>5 DEF QueueRowsInv, IdleSaysNothing, Decides
<1> QED BY <1>9, <1>10, <1>11 DEF QueueRowsInv

\* A crash ends decisions; the rows stay as they were.
LEMMA CrashRows ==
    ASSUME TypeInv, QueueRowsInv, Crash
    PROVE  QueueRowsInv'
<1>1. CallPart /\ RowPart /\ UNCHANGED <<row, raced, unheard, broker>>
  BY DEF TypeInv, Crash, SwitchCrash
<1>2. call' = [c \in Callers |-> [call[c] EXCEPT !.step = IF @ = "idle" THEN @ ELSE "done"]]
  BY DEF Crash, SwitchCrash
<1>3. \A c \in Callers : call'[c].step = IF call[c].step = "idle" THEN "idle" ELSE "done"
  BY <1>1, <1>2 DEF CallPart, CallRecords
<1>4. decision' = [a \in Approvers |-> [decision[a] EXCEPT !.step = IF @ \in {"idle", "done"} THEN @ ELSE "dead"]]
  BY DEF Crash
<1>5. /\ \A a \in Approvers : decision'[a].on = decision[a].on /\ decision'[a].verdict = decision[a].verdict
      /\ \A a \in Approvers : decision'[a].step = IF decision[a].step \in {"idle", "done"} THEN decision[a].step ELSE "dead"
  BY <1>1, <1>4 DEF RowPart, RowRecords, DecisionRecords
<1>6. ASSUME NEW q \in Requests PROVE RowInv(q)'
  <2>1. RowInv(q) /\ q \in Callers /\ Approvers \subseteq Callers
    BY DEF QueueRowsInv, Callers
  <2>2. At(q, "done") => At(q, "done")'
    BY <1>3, <2>1 DEF At
  <2>3. row[q].status = "absent" => \A a \in Approvers : ~Decides(a, "idle")' => decision'[a].on # q
    BY <1>5, <2>1 DEF RowInv, Decides
  <2>4. row[q].status = "pending" => \A a \in Approvers :
           decision'[a].on = q => decision'[a].step \in {"idle", "decide", "dead"} /\ At(a, "idle")'
    BY <1>3, <1>5, <2>1 DEF RowInv, At
  <2>5. ASSUME q \notin raced PROVE RowIsRight(q)'
    <3>1. OneDecides(q) /\ OneWorks(q) /\ AnswersAreGiven(q) /\ AnswersAreRight(q)
      BY <2>1, <2>5 DEF RowInv, RowIsRight
    <3>2. OneDecides(q)'
      BY <1>5 DEF OneDecides, Decides
    <3>3. \A a \in Approvers : Works(a, q)' => Works(a, q)
      BY <1>3, <1>5, <2>1 DEF Works, At
    <3>4. OneWorks(q)'
      BY <1>1, <1>5, <3>1, <3>3 DEF OneWorks
    <3>5. Executors(q)' = Executors(q) /\ \A a \in Approvers : Decides(a, "done")' <=> Decides(a, "done")
      BY <1>5 DEF Executors, Decides
    <3>6. \A a \in Approvers : At(a, "done") => At(a, "done")'
      BY <1>3, <2>1 DEF At
    <3>7. AnswersAreRight(q)'
      BY <1>1, <3>1, <3>5, <3>6 DEF AnswersAreRight, RightlyAnswered, Reached, Executors
    <3>8. AnswersAreGiven(q)'
      BY <1>1, <1>3, <1>5, <2>1, <3>1 DEF AnswersAreGiven, Works, Decides, At
    <3> QED BY <3>2, <3>4, <3>7, <3>8 DEF RowIsRight
  <2> QED BY <1>1, <2>1, <2>2, <2>3, <2>4, <2>5 DEF RowInv
<1>7. IdleSaysNothing'
  BY <1>5 DEF QueueRowsInv, IdleSaysNothing, Decides
<1> QED BY <1>6, <1>7 DEF QueueRowsInv

\* Every step keeps the rows and their decisions in step.
LEMMA RowsNext ==
    ASSUME TypeInv, OnlyTheDoneAreSent, QueueRowsInv, [Next]_vars
    PROVE  QueueRowsInv'
<1>1. CASE UNCHANGED queueVars
  BY <1>1, SwitchRows
<1>2. CASE Crash
  BY <1>2, CrashRows
<1>3. CASE QueueNext
  BY <1>3, QueueRows, DeleteRows, LookUpRows, DecideRows, ExecuteRows, AnswerRows DEF QueueNext
<1> QED BY <1>1, <1>2, <1>3 DEF Next, Enter, vars, queueVars

\* At first there is no row and no decision.
LEMMA RowsInit == Init => QueueRowsInv
BY DEF Init, NoRow, Undecided, QueueRowsInv, IdleSaysNothing, RowInv, RowIsRight, OneDecides, OneWorks, AnswersAreGiven,
       AnswersAreRight,
       Works, Decides, At, IdleCall, SwitchInit, Callers

\* A queued order is sent at most once, by whoever approved it, for any approvers.
LEMMA SentOnce ==
    ASSUME OnlyTheDoneAreSent, QueueRowsInv
    PROVE  QueuedOrderIsSentOnce
<1> SUFFICES ASSUME NEW q \in Requests \ raced
             PROVE  LET sent == {a \in Executors(q) : broker[a] # "none"}
                    IN  Cardinality(sent) <= 1 /\ (sent # {} => row[q].status \in {"approved", "deleted"})
  BY DEF QueuedOrderIsSentOnce
<1> DEFINE sent == {a \in Executors(q) : broker[a] # "none"}
<1>1. OneWorks(q)
  BY DEF QueueRowsInv, RowInv, RowIsRight
<1>2. \A a \in sent : a \in Approvers /\ Works(a, q)
  BY DEF Executors, Works, OnlyTheDoneAreSent, At, Callers
<1>3. CASE sent = {}
  BY <1>3, FS_EmptySet
<1>4. ASSUME NEW a \in sent
      PROVE  Cardinality(sent) <= 1 /\ row[q].status \in {"approved", "deleted"}
  <2>1. sent = {a} /\ row[q].status \in {"approved", "deleted"}
    BY <1>1, <1>2, <1>4 DEF OneWorks
  <2>2. Cardinality({a}) = 1
    BY FS_Singleton
  <2> QED BY <2>1, <2>2
<1> QED BY <1>3, <1>4

\* The one approver that worked on an approved row wrote its answer, or failed to.
LEMMA AllAnswered ==
    ASSUME QueueRowsInv
    PROVE  ApprovedRowIsAnswered
<1> SUFFICES ASSUME NEW q \in Requests \ raced, row[q].status = "approved",
                    \A a \in Executors(q) : Decides(a, "done")
             PROVE  LET reached == \E a \in Executors(q) : Reached(a)
                    IN  /\ row[q].broker = "placed" => reached
                        /\ q \in unheard \/ row[q].broker = IF reached THEN "placed" ELSE "rejected"
  BY DEF ApprovedRowIsAnswered
<1>1. OneWorks(q) /\ AnswersAreRight(q)
  BY DEF QueueRowsInv, RowInv, RowIsRight
<1>2. \A a \in Executors(q) : a \in Approvers /\ Works(a, q)
  BY <1>1 DEF Executors, Works, AnswersAreRight, At
<1>3. PICK a : Executors(q) = {a}
  BY <1>1, <1>2 DEF AnswersAreRight, OneWorks
<1>4. RightlyAnswered(a, q)
  BY <1>1, <1>3 DEF AnswersAreRight
<1> QED BY <1>3, <1>4 DEF RightlyAnswered

\* Unless two decisions about it overlapped, a queued order is sent at most once and
\* only if it was approved, for any requests and approvers, crashes included.
THEOREM QueuedOrdersAreSentOnce == Spec => []QueuedOrderIsSentOnce
<1>1. Init => PanicInv
  BY DEF Init, SwitchInit, PanicInv, OnlyTheDoneAreSent, CleanSoFar
<1>2. PanicInv => OnlyTheDoneAreSent
  BY DEF PanicInv
<1> QED BY <1>1, <1>2, TypeInit, TypeNext, PanicNext, RowsInit, RowsNext, SentOnce, PTL DEF Spec

\* Unless two decisions about it overlapped, an approved row whose requests are through
\* never claims an order that did not reach the broker, and holds the right answer
\* unless its execution or its answer failed, for any requests and approvers.
THEOREM ApprovedRowsAreAnswered == Spec => []ApprovedRowIsAnswered
<1>1. Init => PanicInv
  BY DEF Init, SwitchInit, PanicInv, OnlyTheDoneAreSent, CleanSoFar
<1>2. PanicInv => OnlyTheDoneAreSent
  BY DEF PanicInv
<1> QED BY <1>1, <1>2, TypeInit, TypeNext, PanicNext, RowsInit, RowsNext, AllAnswered, PTL DEF Spec
=============================================================================
