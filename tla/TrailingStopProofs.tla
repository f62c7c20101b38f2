-------------------------- MODULE TrailingStopProofs --------------------------
(* The safety of the trailing stops, for any stops, trails and bounds. *)
EXTENDS TrailingStop, TLAPS

Inv == TrailingTypeOK /\ EveryCloseIsAnExit

\* compute_stop gives a level for every price.
LEMMA LevelIsInt ==
    ASSUME NEW s \in Stops, NEW from \in Int
    PROVE  ComputeStop(s, from) \in Int
<1> DEFINE sign == IF s \in Long THEN -1 ELSE 1
<1>1. sign \in Int /\ Trail[s] \in Int
  BY TrailingAssumption
<1>2. sign * Trail[s] \in Int /\ from * (100 + sign * Trail[s]) + 50 \in Int
  BY <1>1
<1>3. (from * (100 + sign * Trail[s]) + 50) \div 100 \in Int
  BY <1>2
<1> QED BY <1>1, <1>2, <1>3 DEF ComputeStop

\* Nothing is armed, sent or lost at first.
LEMMA InitInv == Init => Inv
<1> SUFFICES ASSUME Init PROVE Inv
  OBVIOUS
<1>1. TrailingTypeOK
  BY TrailingAssumption DEF Init, TrailingTypeOK, Prices, Unarmed, Asleep, Active
<1>2. EveryCloseIsAnExit
  <2> SUFFICES ASSUME NEW s \in Stops
               PROVE  /\ sent[s] = lost[s] + (IF stop[s].status = "exited" THEN 1 ELSE 0)
                                           + (IF monitor.step = "close" /\ monitor.now = s THEN 1 ELSE 0)
                      /\ lost[s] <= faults
    BY DEF EveryCloseIsAnExit
  <2>1. sent[s] = 0 /\ lost[s] = 0 /\ faults = 0
    BY DEF Init
  <2>2. stop[s].status = "none"
    BY DEF Init, Unarmed
  <2>3. monitor.step = "sleep"
    BY DEF Init, Asleep
  <2> QED BY <2>1, <2>2, <2>3
<1> QED BY <1>1, <1>2 DEF Inv

Row == [status : {"none", "active", "exited"}, peak : 0 .. MaxPrice, level : Int]

\* update_peak leaves the status, and moves the level only to a better one.
LEMMA RatchetedRow ==
    ASSUME TrailingTypeOK, NEW s \in Stops, stop[s].status = "active", Ratchet(s)
    PROVE  /\ stop' \in [Stops -> Row]
           /\ \A t \in Stops \ {s} : stop'[t] = stop[t]
           /\ stop'[s].status = "active"
           /\ stop'[s].level = stop[s].level \/ Better(s, stop'[s].level, stop[s].level)
<1> DEFINE new == ComputeStop(s, monitor.ltp)
           row == UpdatePeak(s, monitor.ltp)
<1>1. new \in Int
  BY LevelIsInt DEF TrailingTypeOK
<1>2. stop[s] \in Row /\ stop \in [Stops -> Row] /\ monitor.ltp \in 0 .. MaxPrice
  BY DEF TrailingTypeOK, Row
<1>3. row = [stop[s] EXCEPT !.peak = monitor.ltp,
                 !.level = IF Better(s, new, stop[s].level) THEN new ELSE stop[s].level]
  BY DEF UpdatePeak
<1>4. /\ row \in Row /\ row.status = "active"
      /\ row.level = stop[s].level \/ Better(s, row.level, stop[s].level)
  <2> HIDE DEF new, row
  <2>1. CASE Better(s, new, stop[s].level)
    BY <1>1, <1>2, <1>3, <2>1 DEF Row
  <2>2. CASE ~Better(s, new, stop[s].level)
    BY <1>1, <1>2, <1>3, <2>2 DEF Row
  <2> QED BY <2>1, <2>2
<1>5. \/ stop' = [stop EXCEPT ![s] = row]
      \/ stop' = [stop EXCEPT ![s] = stop[s]]
      \/ stop' = stop
  BY DEF Ratchet
<1> HIDE DEF row
<1> QED BY <1>2, <1>4, <1>5

\* The pass goes on without the stop.
LEMMA PassGoesOn ==
    ASSUME TrailingTypeOK, NEW s \in Stops
    PROVE  /\ DoneWith(s) = [step |-> "stops", todo |-> monitor.todo \ {s},
                             ltp |-> monitor.ltp, now |-> "none"]
           /\ monitor.todo \subseteq Active /\ "none" \notin monitor.todo
           /\ monitor.ltp \in 0 .. MaxPrice
<1>1. monitor \in [step : {"sleep", "stops", "close"}, todo : SUBSET Active,
                   ltp : 0 .. MaxPrice, now : Stops \cup {"none"}]
  BY DEF TrailingTypeOK
<1>2. DoneWith(s) = [monitor EXCEPT !.step = "stops", !.todo = monitor.todo \ {s},
                                    !.now = "none"]
  BY DEF DoneWith
<1>3. "none" \notin Active
  BY TrailingAssumption DEF Active
<1> QED BY <1>1, <1>2, <1>3

\* A stop of the pass is active, and is the only one whose closing is pending.
LEMMA NextInv == Inv /\ [Next]_vars => Inv'
<1> SUFFICES ASSUME Inv, [Next]_vars PROVE Inv'
  OBVIOUS
<1> USE TrailingAssumption DEF Inv, Prices
<1>1. CASE Trade
  <2>1. TrailingTypeOK'
    BY <1>1 DEF Trade, TrailingTypeOK, Active
  <2>2. EveryCloseIsAnExit'
    BY <1>1 DEF Trade, EveryCloseIsAnExit
  <2> QED BY <2>1, <2>2
<1>2. CASE WindowPasses
  <2>1. TrailingTypeOK'
    BY <1>2 DEF WindowPasses, TrailingTypeOK, Active
  <2>2. EveryCloseIsAnExit'
    BY <1>2 DEF WindowPasses, EveryCloseIsAnExit
  <2> QED BY <2>1, <2>2
<1>3. CASE Crash
  <2>1. TrailingTypeOK'
    BY <1>3 DEF Crash, Fault, Asleep, TrailingTypeOK, Active
  <2>2. EveryCloseIsAnExit'
    BY <1>3 DEF Crash, Fault, Asleep, EveryCloseIsAnExit, TrailingTypeOK
  <2> QED BY <2>1, <2>2
<1>4. ASSUME NEW s \in Stops, Arm(s) PROVE Inv'
  <2>1. ComputeStop(s, price) \in Int
    BY LevelIsInt DEF TrailingTypeOK
  <2>2. Active' = Active \cup {s}
    BY <1>4 DEF Arm, Active, TrailingTypeOK
  <2>3. TrailingTypeOK'
    BY <1>4, <2>1, <2>2 DEF Arm, TrailingTypeOK
  <2>4. EveryCloseIsAnExit'
    BY <1>4 DEF Arm, EveryCloseIsAnExit, TrailingTypeOK
  <2> QED BY <2>3, <2>4
<1>5. ASSUME NEW s \in Stops, CloseElsewhere(s) PROVE Inv'
  <2>1. TrailingTypeOK'
    BY <1>5 DEF CloseElsewhere, TrailingTypeOK, Active
  <2>2. EveryCloseIsAnExit'
    BY <1>5 DEF CloseElsewhere, EveryCloseIsAnExit
  <2> QED BY <2>1, <2>2
<1>6. CASE Wake
  <2>1. UNCHANGED <<price, stop, held, recent, sent, lost>> /\ Active' = Active
        /\ faults \in Nat /\ faults' \in faults .. MaxFaults
    BY <1>6 DEF Wake, Fault, TrailingTypeOK, Active
  <2>2. \/ monitor' = [step |-> "stops", todo |-> Active, ltp |-> price, now |-> "none"]
        \/ monitor' = monitor
    BY <1>6 DEF Wake, Asleep
  <2>3. "none" \notin Active
    BY DEF Active
  <2>4. TrailingTypeOK'
    BY <2>1, <2>2, <2>3 DEF TrailingTypeOK
  <2>5. EveryCloseIsAnExit'
    <3>1. monitor.step # "close" /\ monitor'.step # "close"
      BY <1>6, <2>2 DEF Wake
    <3>2. \A s \in Stops : lost[s] \in Nat /\ lost[s] <= faults'
      BY <2>1 DEF EveryCloseIsAnExit, TrailingTypeOK
    <3> QED BY <2>1, <3>1, <3>2 DEF EveryCloseIsAnExit
  <2> QED BY <2>4, <2>5
<1>7. CASE Sleep
  <2>1. TrailingTypeOK'
    BY <1>7 DEF Sleep, Asleep, TrailingTypeOK, Active
  <2>2. EveryCloseIsAnExit'
    BY <1>7 DEF Sleep, Asleep, EveryCloseIsAnExit
  <2> QED BY <2>1, <2>2
<1>8. ASSUME NEW s \in Stops, Ratchet(s) PROVE Inv'
  <2>1. s \in Active /\ stop[s].status = "active"
    BY <1>8 DEF Ratchet, TrailingTypeOK, Active
  <2>2. /\ stop' \in [Stops -> Row]
        /\ \A t \in Stops : stop'[t].status = stop[t].status
    BY <1>8, <2>1, RatchetedRow
  <2>3. Active' = Active
    BY <2>2 DEF Active
  <2>4. monitor' = DoneWith(s) /\ UNCHANGED <<price, held, recent, sent, lost>>
        /\ faults \in Nat /\ faults' \in faults .. MaxFaults
    BY <1>8 DEF Ratchet, Fault, TrailingTypeOK
  <2>5. TrailingTypeOK'
    BY <2>2, <2>3, <2>4, PassGoesOn DEF TrailingTypeOK, Row
  <2>6. monitor.step # "close" /\ monitor'.step # "close"
    BY <1>8, <2>4 DEF Ratchet, DoneWith, TrailingTypeOK
  <2>7. EveryCloseIsAnExit'
    BY <2>2, <2>4, <2>6 DEF EveryCloseIsAnExit, TrailingTypeOK
  <2> QED BY <2>5, <2>7
<1>9. ASSUME NEW s \in Stops, Exit(s) PROVE Inv'
  <2>1. Active' = Active /\ s \in Active
    BY <1>9 DEF Exit, Active, TrailingTypeOK
  <2>2. /\ UNCHANGED <<price, stop>> /\ recent' \subseteq {"buy", "sell"}
        /\ s \in monitor.todo /\ monitor.step = "stops"
    BY <1>9 DEF Exit, Side, TrailingTypeOK
  <2>3. CASE /\ monitor' = DoneWith(s) /\ UNCHANGED <<held, sent, lost>>
             /\ faults' \in faults .. MaxFaults
    <3>1. TrailingTypeOK'
      BY <2>1, <2>2, <2>3, PassGoesOn DEF TrailingTypeOK
    <3>2. EveryCloseIsAnExit'
      BY <2>2, <2>3, PassGoesOn DEF EveryCloseIsAnExit, TrailingTypeOK
    <3> QED BY <3>1, <3>2
  <2>4. sent[s] \in Nat /\ lost[s] \in Nat /\ faults \in 0 .. MaxFaults
    BY DEF TrailingTypeOK
  <2>5. CASE Taken(s) /\ monitor' = [monitor EXCEPT !.step = "close", !.now = s] /\ UNCHANGED <<lost, faults>>
    <3>1. monitor' = [step |-> "close", todo |-> monitor.todo, ltp |-> monitor.ltp, now |-> s]
      BY <2>5 DEF TrailingTypeOK
    <3>2. sent' \in [Stops -> Nat] /\ held' \in [Stops -> Int]
      BY <2>5 DEF Taken, TrailingTypeOK
    <3>3. TrailingTypeOK'
      BY <2>1, <2>2, <2>5, <3>1, <3>2, PassGoesOn DEF TrailingTypeOK
    <3>4. EveryCloseIsAnExit'
      BY <2>1, <2>2, <2>5 DEF Taken, EveryCloseIsAnExit, TrailingTypeOK, Active
    <3> QED BY <3>3, <3>4
  <2>6. CASE /\ Taken(s) /\ monitor' = DoneWith(s) /\ lost' = [lost EXCEPT ![s] = @ + 1]
             /\ faults' = faults + 1 /\ faults' \in 0 .. MaxFaults
    <3>1. sent' \in [Stops -> Nat] /\ held' \in [Stops -> Int] /\ lost' \in [Stops -> Nat]
      BY <2>6 DEF Taken, TrailingTypeOK
    <3>2. TrailingTypeOK'
      BY <2>1, <2>2, <2>6, <3>1, PassGoesOn DEF TrailingTypeOK
    <3>3. EveryCloseIsAnExit'
      <4> SUFFICES ASSUME NEW t \in Stops
                   PROVE  /\ sent'[t] = lost'[t] + (IF stop[t].status = "exited" THEN 1 ELSE 0)
                          /\ lost'[t] <= faults'
        <5>1. monitor'.step # "close" /\ stop' = stop
          BY <2>2, <2>6, PassGoesOn
        <5>2. EveryCloseIsAnExit' <=> \A t \in Stops :
                  /\ sent'[t] = lost'[t] + (IF stop'[t].status = "exited" THEN 1 ELSE 0)
                                         + (IF monitor'.step = "close" /\ monitor'.now = t THEN 1 ELSE 0)
                  /\ lost'[t] <= faults'
          BY DEF EveryCloseIsAnExit
        <5>3. ASSUME NEW t \in Stops PROVE lost'[t] \in Nat
          BY <3>1
        <5> QED BY <5>1, <5>2, <5>3
      <4>1. /\ sent[t] = lost[t] + (IF stop[t].status = "exited" THEN 1 ELSE 0) /\ lost[t] <= faults
            /\ sent[t] \in Nat /\ lost[t] \in Nat /\ faults \in Nat
        BY <2>2 DEF EveryCloseIsAnExit, TrailingTypeOK
      <4>2. CASE t = s
        BY <2>6, <4>1, <4>2 DEF Taken, TrailingTypeOK
      <4>3. CASE t # s
        BY <2>6, <4>1, <4>3 DEF Taken, TrailingTypeOK
      <4> QED BY <4>2, <4>3
    <3> QED BY <3>2, <3>3
  <2>7. Fault => faults' = faults + 1 /\ faults' \in 0 .. MaxFaults /\ faults' \in faults .. MaxFaults
    BY <2>4 DEF Fault
  <2>8. faults' = faults => faults' \in faults .. MaxFaults
    BY <2>4
  <2> QED BY <1>9, <2>3, <2>5, <2>6, <2>7, <2>8 DEF Exit
<1>10. ASSUME NEW s \in Stops, Close(s) PROVE Inv'
  <2>1. Active \ {s} \subseteq Active'
    BY <1>10 DEF Close, Active, TrailingTypeOK
  <2>2. s \in Active
    BY <1>10 DEF Close, TrailingTypeOK
  <2>3. TrailingTypeOK'
    <3>1. monitor' = DoneWith(s) /\ UNCHANGED <<price, held, recent, sent>>
          /\ faults' \in 0 .. MaxFaults
      BY <1>10 DEF Close, Fault, TrailingTypeOK
    <3>2. stop' \in [Stops -> Row] /\ lost' \in [Stops -> Nat]
      BY <1>10 DEF Close, TrailingTypeOK, Row
    <3> QED BY <2>1, <3>1, <3>2, PassGoesOn DEF TrailingTypeOK, Row
  <2>4. EveryCloseIsAnExit'
    BY <1>10, <2>2 DEF Close, DoneWith, Fault, EveryCloseIsAnExit, TrailingTypeOK, Active
  <2> QED BY <2>3, <2>4
<1>11. CASE UNCHANGED vars
  BY <1>11 DEF vars, TrailingTypeOK, EveryCloseIsAnExit, Active
<1> QED
  BY <1>1, <1>2, <1>3, <1>4, <1>5, <1>6, <1>7, <1>8, <1>9, <1>10, <1>11 DEF Next, MonitorStep

\* Only a ratchet moves the level of an active stop, and it compares before it moves.
LEMMA NextTightens ==
    ASSUME Inv, [Next]_vars, NEW s \in Stops, stop[s].status = "active",
           stop'[s].level # stop[s].level
    PROVE  Better(s, stop'[s].level, stop[s].level)
<1>1. \/ \E t \in Stops : Ratchet(t)
      \/ \E t \in Stops : Arm(t) \/ Close(t)
  BY DEF Next, MonitorStep, vars, Trade, WindowPasses, Crash, Wake, Sleep, CloseElsewhere, Exit
<1>2. ASSUME NEW t \in Stops, Ratchet(t) PROVE Better(s, stop'[s].level, stop[s].level)
  <2>1. stop[t].status = "active"
    BY <1>2 DEF Ratchet, Inv, TrailingTypeOK, Active
  <2>2. t = s
    BY <1>2, <2>1, RatchetedRow DEF Inv
  <2> QED BY <1>2, <2>1, <2>2, RatchetedRow DEF Inv
<1>3. ASSUME NEW t \in Stops, Arm(t) \/ Close(t) PROVE FALSE
  BY <1>3 DEF Arm, Close, Inv, TrailingTypeOK
<1> QED BY <1>1, <1>2, <1>3

-----------------------------------------------------------------------------
\* The rows and the monitor's pass keep their types, and the monitor only ever
\* stands at an active stop.
THEOREM TrailingTypes == Spec => []TrailingTypeOK
<1>1. Inv => TrailingTypeOK
  BY DEF Inv
<1> QED BY InitInv, NextInv, <1>1, PTL DEF Spec

\* Exits, closed rows and faults balance, for any stops, trails and number of faults:
\* a row is closed only after an exit, and a stop exits at most once more than faults
\* took an exit's reply or its closing away.
THEOREM ExitsBalance == Spec => []EveryCloseIsAnExit
<1>1. Inv => EveryCloseIsAnExit
  BY DEF Inv
<1> QED BY InitInv, NextInv, <1>1, PTL DEF Spec

\* No step loosens the level of an active stop.
THEOREM LevelsTighten == Spec => StopOnlyTightens
<1>1. Inv /\ [Next]_vars =>
        [\A s \in Stops :
            stop[s].status = "active" /\ stop'[s].level # stop[s].level
                => Better(s, stop'[s].level, stop[s].level)]_vars
  BY NextTightens
<1> QED BY InitInv, NextInv, <1>1, PTL DEF Spec, StopOnlyTightens
=============================================================================
