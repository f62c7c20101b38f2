----------------------------- MODULE KillSwitch -----------------------------
(***************************************************************************)
(* One user's kill switch and the orders it is there to stop: the flag and *)
(* its cached copy, the gates an order passes on its way to the broker,    *)
(* the velocity breaker that sets the flag, and the panic button, which    *)
(* sets the flag, flattens the account and clears the flag again.  Every   *)
(* caller and every press is a thread; only writes of the flag are locked. *)
(***************************************************************************)
EXTENDS Naturals, FiniteSets

CONSTANTS Requests,     \* API requests that place or queue an order
          Signals,      \* orders of the signal engine
          Approvers,    \* requests that approve a queued order
          Presses,      \* threads that press the button or unlock the switch
          MaxVelocity,  \* orders in the window before the breaker trips
          MaxFaults     \* bound on failed clean-ups, cache expiries and crashes

Callers == Requests \cup Signals \cup Approvers

ASSUME KillSwitchAssumption ==
    /\ Requests \cap Signals = {} /\ Requests \cap Approvers = {}
    /\ Signals \cap Approvers = {} /\ Callers \cap Presses = {}
    /\ "free" \notin Callers \cup Presses
    /\ MaxVelocity \in Nat /\ MaxFaults \in Nat

VARIABLES flag,      \* kill_switch_active and activated_by of the user's row
          cache,     \* the cached flag, "none" if absent
          lock,      \* who holds the lock of set_kill_switch
          call,      \* where each caller is on its way to the broker
          velocity,  \* orders counted in the window
          broker,    \* the order of each caller, as the broker has it
          press,     \* where each press is
          faults,
          staleFill  \* history: a reader cached "off" over a set flag

switch == <<flag, cache, lock, staleFill>>
switchVars == <<switch, call, velocity, broker, press, faults>>

Off == [active |-> FALSE, by |-> "none"]
On(actor) == [active |-> TRUE, by |-> actor]

\* gates: how many times the flag will still be asked.  armed: the switch was on
\* when the caller started and has not been off since.
IdleCall == [step |-> "idle", gates |-> 0, seen |-> FALSE, armed |-> FALSE]

CallSteps == {"idle", "gate", "read", "store", "risk", "halt", "unlock", "send", "done"}
PressSteps == {"idle", "set", "announce", "cancel", "close", "reset", "finish", "done", "dead"}
BrokerStates == {"none", "refused", "open", "filled", "cancelled", "closed"}

SwitchInit ==
    /\ flag = Off /\ cache = "none" /\ lock = "free"
    /\ call = [c \in Callers |-> IdleCall]
    /\ velocity = 0
    /\ broker = [c \in Callers |-> "none"]
    /\ press = [p \in Presses |-> [step |-> "idle", older |-> {}, clean |-> TRUE]]
    /\ faults = 0
    /\ staleFill = FALSE

At(c, step) == call[c].step = step
CallTo(c, step) == call' = [call EXCEPT ![c].step = step]

-----------------------------------------------------------------------------
(* The gates: is_kill_switch_active, a cached read. *)

\* API orders are asked by the decorator and again before the broker call; orders
\* of the signal engine name nobody there and are asked once, before.
GatesOf(c) == IF c \in Signals THEN 1 ELSE 2

Started(c) == [IdleCall EXCEPT !.step = "gate", !.gates = GatesOf(c),
                               !.armed = flag.active /\ lock = "free"]

\* A caller the flag lets through goes to the next gate or on to the risk checks.
Verdict(c, active) ==
    call' = [call EXCEPT ![c].gates = @ - 1,
                 ![c].step = IF active THEN "done"
                             ELSE IF call[c].gates > 1 THEN "gate" ELSE "risk"]

AskCache(c) ==
    /\ At(c, "gate")
    /\ IF cache = "none" THEN CallTo(c, "read") ELSE Verdict(c, cache = "on")
    /\ UNCHANGED <<switch, velocity, broker, press, faults>>

ReadFlag(c) ==
    /\ At(c, "read")
    /\ call' = [call EXCEPT ![c].step = "store", ![c].seen = flag.active]
    /\ UNCHANGED <<switch, velocity, broker, press, faults>>

\* The flag may have been set, and the cache cleared, since it was read.
StoreFlag(c) ==
    /\ At(c, "store")
    /\ cache' = IF call[c].seen THEN "on" ELSE "off"
    /\ staleFill' = (staleFill \/ (flag.active /\ ~call[c].seen))
    /\ Verdict(c, call[c].seen)
    /\ UNCHANGED <<flag, lock, velocity, broker, press, faults>>

\* An order too many sets the flag itself.
CheckVelocity(c) ==
    /\ At(c, "risk")
    /\ velocity' = velocity + 1
    /\ CallTo(c, IF velocity' > MaxVelocity THEN "halt" ELSE "send")
    /\ UNCHANGED <<switch, broker, press, faults>>

WindowPasses ==
    /\ velocity > 0
    /\ velocity' = 0
    /\ UNCHANGED <<switch, call, broker, press, faults>>

Send(c) ==
    /\ At(c, "send")
    /\ \E answer \in {"open", "refused"} : broker' = [broker EXCEPT ![c] = answer]
    /\ CallTo(c, "done")
    /\ UNCHANGED <<switch, velocity, press, faults>>

FillAtBroker(c) ==
    /\ broker[c] = "open"
    /\ broker' = [broker EXCEPT ![c] = "filled"]
    /\ UNCHANGED <<switch, call, velocity, press, faults>>

-----------------------------------------------------------------------------
(* Writing the flag: set_kill_switch commits, then drops the cached copy. *)

Disarmed == [c \in Callers |-> [call[c] EXCEPT !.armed = FALSE]]

\* Mutant: the writer does not take the lock.
SetFlagUnlocked(t, value) ==
    /\ lock = "free" /\ flag' = value
    /\ UNCHANGED <<cache, lock, staleFill>>

SetFlag(t, value) ==
    /\ lock = "free" /\ lock' = t
    /\ flag' = value
    /\ UNCHANGED <<cache, staleFill>>

\* Mutant: the cached copy outlives the write.
ReleaseFlagCached(t) ==
    /\ lock = t /\ lock' = "free"
    /\ UNCHANGED <<flag, cache, staleFill>>

ReleaseFlag(t) ==
    /\ lock = t /\ lock' = "free"
    /\ cache' = "none"
    /\ UNCHANGED <<flag, staleFill>>

Halt(c) ==
    /\ At(c, "halt")
    /\ SetFlag(c, On("system"))
    /\ CallTo(c, "unlock")
    /\ UNCHANGED <<velocity, broker, press, faults>>

Halted(c) ==
    /\ At(c, "unlock")
    /\ ReleaseFlag(c)
    /\ CallTo(c, "done")
    /\ UNCHANGED <<velocity, broker, press, faults>>

-----------------------------------------------------------------------------
(* The panic button: activate_kill_switch, and the unlock of a stuck switch. *)

PressTo(p, step) == press' = [press EXCEPT ![p].step = step]
PressAt(p, step) == press[p].step = step

\* The check is apart from the write: two presses may both pass it.
Press(p) ==
    /\ PressAt(p, "idle")
    /\ PressTo(p, IF flag.active THEN "done" ELSE "set")
    /\ UNCHANGED <<switch, call, velocity, broker, faults>>

Activate(p) ==
    /\ PressAt(p, "set")
    /\ SetFlag(p, On("user"))
    /\ PressTo(p, "announce")
    /\ UNCHANGED <<call, velocity, broker, faults>>

Activated(p) ==
    /\ PressAt(p, "announce")
    /\ ReleaseFlag(p)
    /\ PressTo(p, "cancel")
    /\ UNCHANGED <<call, velocity, broker, faults>>

AtBroker == {c \in Callers : broker[c] \in {"open", "filled"}}

\* Mutant: a broker that fails ends the press.
CleanedOnce(p, next, from, to) ==
    /\ \/ /\ broker' = [c \in Callers |-> IF broker[c] = from THEN to ELSE broker[c]]
          /\ press' = [press EXCEPT ![p].step = next,
                           ![p].older = IF next = "close" THEN AtBroker ELSE @]
          /\ UNCHANGED faults
       \/ /\ faults < MaxFaults
          /\ faults' = faults + 1
          /\ press' = [press EXCEPT ![p].step = "done", ![p].clean = FALSE]
          /\ UNCHANGED broker
    /\ UNCHANGED <<switch, call, velocity>>

\* A broker that fails is noted and the clean-up goes on.
Cleaned(p, next, from, to) ==
    /\ \/ /\ broker' = [c \in Callers |-> IF broker[c] = from THEN to ELSE broker[c]]
          /\ press' = [press EXCEPT ![p].step = next,
                           ![p].older = IF next = "close" THEN AtBroker ELSE @]
          /\ UNCHANGED faults
       \/ /\ faults < MaxFaults
          /\ faults' = faults + 1
          /\ press' = [press EXCEPT ![p].step = next, ![p].clean = FALSE]
          /\ UNCHANGED broker
    /\ UNCHANGED <<switch, call, velocity>>

\* Mutant: positions first, then orders.
FlattenReversed(p) ==
    \/ PressAt(p, "cancel") /\ Cleaned(p, "close", "filled", "closed")
    \/ PressAt(p, "close") /\ Cleaned(p, "reset", "open", "cancelled")

\* cancel_all_orders, then close_position.
Flatten(p) ==
    \/ PressAt(p, "cancel") /\ Cleaned(p, "close", "open", "cancelled")
    \/ PressAt(p, "close") /\ Cleaned(p, "reset", "filled", "closed")

Reset(p) ==
    /\ PressAt(p, "reset")
    /\ SetFlag(p, Off)
    /\ call' = Disarmed
    /\ PressTo(p, "finish")
    /\ UNCHANGED <<velocity, broker, faults>>

Finish(p) ==
    /\ PressAt(p, "finish")
    /\ ReleaseFlag(p)
    /\ PressTo(p, "done")
    /\ UNCHANGED <<call, velocity, broker, faults>>

\* The deactivate route: the switch is on, the hold has passed, UNLOCK is typed.
Unlock(p) ==
    /\ PressAt(p, "idle") /\ flag.active
    /\ PressTo(p, "reset")
    /\ UNCHANGED <<switch, call, velocity, broker, faults>>

PressStep(p) == Activate(p) \/ Activated(p) \/ Flatten(p) \/ Reset(p) \/ Finish(p)

\* The cached flag lives for an hour.
CacheExpires ==
    /\ cache # "none" /\ faults < MaxFaults
    /\ faults' = faults + 1
    /\ cache' = "none"
    /\ UNCHANGED <<flag, lock, staleFill, call, velocity, broker, press>>

\* The process dies; the row of the flag and the broker's orders stay.
SwitchCrash ==
    /\ faults < MaxFaults
    /\ faults' = faults + 1
    /\ cache' = "none" /\ lock' = "free" /\ velocity' = 0
    /\ call' = [c \in Callers |-> [call[c] EXCEPT !.step = IF @ = "idle" THEN @ ELSE "done"]]
    /\ press' = [p \in Presses |-> [press[p] EXCEPT !.step = IF @ \in {"idle", "done"} THEN @
                                                               ELSE "dead"]]
    /\ UNCHANGED <<flag, broker, staleFill>>

-----------------------------------------------------------------------------
(* Properties. *)

\* The flag, its copy, the threads and the broker's orders have their types, and the
\* lock is held by the thread that has written the flag and not yet returned.
SwitchTypeOK ==
    /\ flag \in {Off, On("user"), On("system")}
    /\ cache \in {"none", "on", "off"}
    /\ lock \in Callers \cup Presses \cup {"free"}
    /\ call \in [Callers -> [step : CallSteps, gates : 0 .. 2, seen : BOOLEAN, armed : BOOLEAN]]
    /\ velocity \in Nat /\ faults \in 0 .. MaxFaults
    /\ broker \in [Callers -> BrokerStates]
    /\ press \in [Presses -> [step : PressSteps, older : SUBSET Callers, clean : BOOLEAN]]
    /\ staleFill \in BOOLEAN
    /\ \A c \in Callers : lock = c <=> At(c, "unlock")
    /\ \A p \in Presses : lock = p <=> press[p].step \in {"announce", "finish"}

\* An order that was started with the switch on, and saw no reset, is not sent,
\* unless a reader put the old flag back into the cache.
ArmedOrderIsStopped ==
    ~staleFill => \A c \in Callers : call[c].armed => call[c].step \notin {"risk", "halt", "unlock", "send"}

\* When a press has flattened the account without a failure, no order that was at
\* the broker when it began to is still open or held, whatever filled meanwhile.
PanicLeavesNothingOlder ==
    \A p \in Presses :
        press[p].clean /\ press[p].step \in {"reset", "finish", "done"} =>
            \A c \in press[p].older : broker[c] \in {"cancelled", "closed"}

\* A flag that a press has set is one that a press will clear, whatever fails at the
\* broker and whoever presses or trips the breaker meanwhile: some press has it left
\* to do, or one died before it could.
PressLetsGo ==
    flag = On("user") =>
        \E p \in Presses : press[p].step \in {"announce", "cancel", "close", "reset", "dead"}
=============================================================================
