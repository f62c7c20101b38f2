--------------------------- MODULE OrderIndexProofs ---------------------------
(* What a live engine looks at and counts, for any orders, users and number of stops. *)
EXTENDS OrderIndex, FiniteSetTheorems, TLAPS

RowTypes ==
    /\ status \in [Orders -> {"absent", "open", "closed"}]
    /\ placing \in [Orders -> {"none", "ask", "notify", "subscribe", "done"}]

\* An order is taken out of the index only after its row is closed.
CompletedIsClosed ==
    feed.step = "complete" => feed.now \in Orders /\ status[feed.now] = "closed"

\* Whoever has been through notify_order_placed is in the index of a started engine.
AnnouncedIsIndexed ==
    engine \in {"subscribe", "live"} =>
        \A o \in Open : placing[o] \in {"subscribe", "done"} => o \in index

IndexInv == RowTypes /\ CompletedIsClosed /\ AnnouncedIsIndexed

\* At first there is no engine and no order.
LEMMA IndexInitInv == Init => IndexInv
BY DEF Init, IndexInv, RowTypes, CompletedIsClosed, AnnouncedIsIndexed, Quiet

\* No row is opened again and none is announced: the rows may be closed by anyone.
LEMMA ClosingRow ==
    ASSUME IndexInv, NEW o \in Orders, status' = [status EXCEPT ![o] = "closed"],
           UNCHANGED <<placing, engine, index>>,
           feed'.step = "complete" => feed'.now \in {feed.now, o} /\ (feed'.now # o => feed.step = "complete")
    PROVE  IndexInv'
<1>1. RowTypes'
  BY DEF IndexInv, RowTypes
<1>2. CompletedIsClosed'
  BY DEF IndexInv, RowTypes, CompletedIsClosed
<1>3. AnnouncedIsIndexed'
  BY DEF IndexInv, RowTypes, AnnouncedIsIndexed, Open
<1> QED BY <1>1, <1>2, <1>3 DEF IndexInv

\* The thread that places an order is not done with it before it is in the index,
\* if the engine has started by then.
LEMMA PlacingInv ==
    ASSUME IndexInv, NEW o \in Orders,
           Place(o) \/ AskEngine(o) \/ NotifyPlaced(o) \/ SubscribePlaced(o)
    PROVE  IndexInv'
<1>1. CASE Place(o)
  <2>1. /\ status[o] = "absent" /\ status' = [status EXCEPT ![o] = "open"]
        /\ placing' = [placing EXCEPT ![o] = "ask"]
        /\ UNCHANGED <<engine, index, feed>>
    BY <1>1 DEF Place, PlacingTo, object
  <2> QED BY <2>1 DEF IndexInv, RowTypes, CompletedIsClosed, AnnouncedIsIndexed, Open
<1>2. CASE AskEngine(o)
  <2>1. /\ placing[o] = "ask" /\ UNCHANGED <<status, engine, index, feed>>
        /\ placing' = [placing EXCEPT ![o] = IF status[o] = "open" /\ IsRunning
                                             THEN "notify" ELSE "done"]
    BY <1>2 DEF AskEngine, PlacingTo, object, rows
  <2>2. engine \in {"subscribe", "live"} /\ status[o] = "open" => placing' = [placing EXCEPT ![o] = "notify"]
    BY <2>1 DEF IsRunning
  <2>3. RowTypes' /\ CompletedIsClosed'
    BY <2>1 DEF IndexInv, RowTypes, CompletedIsClosed
  <2>4. AnnouncedIsIndexed'
    <3> SUFFICES ASSUME engine \in {"subscribe", "live"}, NEW p \in Orders, status[p] = "open",
                        placing'[p] \in {"subscribe", "done"}
                 PROVE  p \in index
      BY <2>1 DEF AnnouncedIsIndexed, Open
    <3>1. p # o
      BY <2>2 DEF IndexInv, RowTypes
    <3>2. placing'[p] = placing[p]
      BY <2>1, <3>1 DEF IndexInv, RowTypes
    <3> QED BY <3>2 DEF IndexInv, AnnouncedIsIndexed, Open
  <2> QED BY <2>3, <2>4 DEF IndexInv
<1>3. CASE NotifyPlaced(o)
  <2>1. /\ UNCHANGED <<status, engine, feed>> /\ index' = index \cup {o}
        /\ \E step \in {"subscribe", "done"} : placing' = [placing EXCEPT ![o] = step]
    BY <1>3 DEF NotifyPlaced, PlacingTo, rows
  <2> QED BY <2>1 DEF IndexInv, RowTypes, CompletedIsClosed, AnnouncedIsIndexed, Open
<1>4. CASE SubscribePlaced(o)
  <2>1. /\ placing[o] = "subscribe" /\ placing' = [placing EXCEPT ![o] = "done"]
        /\ UNCHANGED <<status, engine, index, feed>>
    BY <1>4 DEF SubscribePlaced, PlacingTo, object, rows
  <2> QED BY <2>1 DEF IndexInv, RowTypes, CompletedIsClosed, AnnouncedIsIndexed, Open
<1> QED BY <1>1, <1>2, <1>3, <1>4

\* The thread that delivers ticks completes only orders whose row is closed.
LEMMA FeedInv ==
    ASSUME IndexInv, Tick \/ FeedStep
    PROVE  IndexInv'
<1>1. ASSUME UNCHANGED <<status, placing, engine, index>>, feed'.step # "complete"
      PROVE  IndexInv'
  BY <1>1 DEF IndexInv, RowTypes, CompletedIsClosed, AnnouncedIsIndexed, Open
<1>2. CASE Tick
  <2>1. feed' = [Quiet EXCEPT !.step = "orders", !.todo = index, !.reached = hit \cap index, !.life = life]
    BY <1>2 DEF Tick
  <2>2. feed'.step = "orders"
    BY <2>1 DEF Quiet
  <2> QED BY <1>1, <1>2, <2>2 DEF Tick, rows, object
<1>3. CASE EndTick
  BY <1>1, <1>3 DEF EndTick, Quiet, rows, object
<1>4. CASE Unsubscribe
  <2>1. feed' = [feed EXCEPT !.step = "orders", !.now = "none"] /\ feed.step = "unsubscribe"
    BY <1>4 DEF Unsubscribe
  <2>2. feed'.step # "complete"
    BY <2>1
  <2> QED BY <1>1, <1>4, <2>2 DEF Unsubscribe, rows, object
<1>5. ASSUME NEW o \in Orders, CheckOrder(o) PROVE IndexInv'
  <2>1. /\ o \in feed.todo /\ feed.step = "orders"
        /\ UNCHANGED <<placing, engine, index>>
    BY <1>5 DEF CheckOrder, object
  <2>2. CASE status' = status /\ feed' = [feed EXCEPT !.todo = @ \ {o}, !.reached = @ \ {o}]
    BY <1>1, <2>1, <2>2
  <2>3. CASE /\ status' = [status EXCEPT ![o] = "closed"]
             /\ feed' = [feed EXCEPT !.step = "complete", !.now = o, !.reached = @ \ {o}]
    <3>1. feed'.step = "complete" => feed'.now = o
      BY <2>3
    <3> QED BY <2>1, <2>3, <3>1, ClosingRow
  <2> QED BY <1>5, <2>2, <2>3 DEF CheckOrder
<1>6. ASSUME NEW o \in Orders, NotifyCompleted(o) PROVE IndexInv'
  <2>1. /\ feed.step = "complete" /\ feed.now = o
        /\ UNCHANGED <<status, placing, engine>>
        /\ index' \in {index, index \ {o}}
        /\ feed'.step # "complete"
    BY <1>6 DEF NotifyCompleted, Completed, rows, object
  <2>2. status[o] = "closed"
    BY <2>1 DEF IndexInv, CompletedIsClosed
  <2> QED BY <2>1, <2>2 DEF IndexInv, RowTypes, CompletedIsClosed, AnnouncedIsIndexed, Open
<1> QED BY <1>2, <1>3, <1>4, <1>5, <1>6 DEF FeedStep

\* A start reads the open orders in one step; before and after, nobody looks.
LEMMA EngineInv ==
    ASSUME IndexInv, Start \/ EngineStep \/ Stop
    PROVE  IndexInv'
<1>1. UNCHANGED <<status, placing, feed>>
  BY DEF Start, EngineStep, Rebuild, GoLive, Stopped, Stop, rows
<1>2. RowTypes' /\ CompletedIsClosed'
  BY <1>1 DEF IndexInv, RowTypes, CompletedIsClosed
<1>3. CASE Start \/ Stop \/ Stopped
  <2>1. engine' \notin {"subscribe", "live"}
    BY <1>3 DEF Start, Stop, Stopped
  <2> QED BY <1>2, <2>1 DEF IndexInv, AnnouncedIsIndexed
<1>4. CASE Rebuild
  <2>1. index' = Open
    BY <1>4 DEF Rebuild
  <2> QED BY <1>1, <1>2, <2>1 DEF IndexInv, AnnouncedIsIndexed, Open
<1>5. CASE GoLive
  <2>1. engine = "subscribe" /\ index' = index
    BY <1>5 DEF GoLive, object
  <2> QED BY <1>1, <1>2, <2>1 DEF IndexInv, AnnouncedIsIndexed, Open
<1> QED BY <1>3, <1>4, <1>5 DEF EngineStep

\* Every step keeps the invariant.
LEMMA IndexNextInv ==
    ASSUME IndexInv, [Next]_vars
    PROVE  IndexInv'
<1>1. CASE UNCHANGED <<status, placing, engine, index, feed>>
  BY <1>1 DEF IndexInv, RowTypes, CompletedIsClosed, AnnouncedIsIndexed, Open
<1>2. CASE UNCHANGED vars
  BY <1>1, <1>2 DEF vars, rows, object
<1>3. ASSUME NEW o \in Orders, Reach(o) \/ Recede(o) PROVE IndexInv'
  BY <1>1, <1>3 DEF Reach, Recede, object
<1>4. ASSUME NEW o \in Orders, CloseElsewhere(o) \/ Poll(o) PROVE IndexInv'
  <2>1. /\ status' = [status EXCEPT ![o] = "closed"]
        /\ UNCHANGED <<placing, engine, index, feed>>
    BY <1>4 DEF CloseElsewhere, Poll, object
  <2> QED BY <2>1, ClosingRow
<1>5. CASE GoStale \/ Monitor
  BY <1>1, <1>5 DEF GoStale, Monitor, rows, object
<1>6. CASE Tick \/ FeedStep
  BY <1>6, FeedInv
<1>7. CASE Start \/ EngineStep \/ Stop
  BY <1>7, EngineInv
<1>8. ASSUME NEW o \in Orders,
             Place(o) \/ AskEngine(o) \/ NotifyPlaced(o) \/ SubscribePlaced(o)
      PROVE  IndexInv'
  BY <1>8, PlacingInv
<1>9. CASE Outage
  BY <1>1, <1>9 DEF Outage, object
<1> QED BY <1>2, <1>3, <1>4, <1>5, <1>6, <1>7, <1>8, <1>9 DEF Next

\* A started engine has every open order in its index whose placement is through,
\* for any orders and users, whatever the threads interleave.
THEOREM OpenOrdersAreIndexed == Spec => []OpenOrderIsIndexed
<1>1. IndexInv => OpenOrderIsIndexed
  BY DEF IndexInv, AnnouncedIsIndexed, OpenOrderIsIndexed
<1>2. IndexInv /\ [Next]_vars => IndexInv'
  BY IndexNextInv
<1> QED BY <1>1, <1>2, IndexInitInv, PTL DEF Spec

-----------------------------------------------------------------------------
(* The counts of the index. *)

EngineSteps == {"stopped", "rebuild", "subscribe", "live", "halting"}
FeedRecords == [step : {"idle", "orders", "complete", "unsubscribe"}, todo : SUBSET Orders,
                reached : SUBSET Orders, life : 0 .. MaxStops, now : Orders \cup {"none"}]

RowPart ==
    /\ status \in [Orders -> {"absent", "open", "closed"}] /\ hit \subseteq Orders /\ quoted \in BOOLEAN
    /\ placing \in [Orders -> {"none", "ask", "notify", "subscribe", "done"}]
    /\ IsFiniteSet(Open)

\* Only a live engine polls, and one that halts has not used up the stops.
EnginePart ==
    /\ engine \in EngineSteps /\ life \in 0 .. MaxStops
    /\ engine = "halting" => life < MaxStops
    /\ subscribed \subseteq Users
    /\ fresh \in BOOLEAN /\ fallback \in BOOLEAN
    /\ fallback => engine = "live"

\* The thread that delivers ticks works on a part of the index it was given, unless
\* the engine was replaced meanwhile.
FeedPart ==
    /\ feed \in FeedRecords /\ feed.life <= life
    /\ feed.step = "complete" => feed.now \in feed.todo
    /\ feed.step # "idle" /\ feed.life = life =>
           engine \in {"live", "halting"} /\ feed.todo \subseteq index

\* The index is finite, and each of its orders is counted.
CountPart ==
    /\ index \subseteq Orders /\ IsFiniteSet(index) /\ refs \in [Users -> Nat]
    /\ \A u \in Users : refs[u] >= Cardinality(index \cap Of(u))

CountInv == RowPart /\ EnginePart /\ FeedPart /\ CountPart

\* A part of a finite index has a size.
LEMMA PartsAreFinite ==
    ASSUME NEW S, IsFiniteSet(S), NEW T
    PROVE  IsFiniteSet(S \cap T) /\ Cardinality(S \cap T) \in Nat
<1>1. IsFiniteSet(S \cap T)
  BY FS_Subset
<1> QED BY <1>1, FS_CardinalityType

LEMMA CountInit == Init => CountInv
<1> SUFFICES ASSUME Init PROVE CountInv
  OBVIOUS
<1> USE DEF Init
<1>1. Open = {} /\ \A u \in Users : index \cap Of(u) = {}
  BY DEF Open
<1>2. IsFiniteSet({}) /\ Cardinality({}) = 0
  BY FS_EmptySet
<1>3. RowPart
  BY <1>1, <1>2 DEF RowPart
<1>4. EnginePart
  <2>1. fresh \in BOOLEAN /\ fallback \in BOOLEAN /\ ~fallback
    OBVIOUS
  <2>2. engine \in EngineSteps /\ life \in 0 .. MaxStops /\ engine # "halting" /\ subscribed \subseteq Users
    BY IndexAssumption DEF EngineSteps
  <2> QED BY <2>1, <2>2 DEF EnginePart
<1>5. FeedPart
  BY IndexAssumption DEF FeedPart, FeedRecords, Quiet
<1>6. CountPart
  BY <1>1, <1>2 DEF CountPart
<1> QED BY <1>3, <1>4, <1>5, <1>6 DEF CountInv

\* Rows open one at a time and may close at any time: the open ones stay finite.
LEMMA RowsStayFinite ==
    ASSUME RowPart, NEW o \in Orders, NEW s \in {"open", "closed"}, status' = [status EXCEPT ![o] = s],
           UNCHANGED <<hit, quoted>>, placing' \in [Orders -> {"none", "ask", "notify", "subscribe", "done"}]
    PROVE  RowPart'
<1>1. Open' \subseteq Open \cup {o}
  BY DEF RowPart, Open
<1>2. IsFiniteSet(Open \cup {o})
  BY FS_AddElement DEF RowPart
<1>3. IsFiniteSet(Open')
  BY <1>1, <1>2, FS_Subset
<1> QED BY <1>3 DEF RowPart

\* An order more in the index, counted for its owner.
LEMMA CountedIn ==
    ASSUME CountPart, NEW o \in Orders, index' = index \cup {o}, refs' = [refs EXCEPT ![Owner[o]] = @ + 1]
    PROVE  CountPart'
<1>1. Owner[o] \in Users /\ refs[Owner[o]] \in Nat
  BY IndexAssumption DEF CountPart
<1>2. IsFiniteSet(index') /\ index' \subseteq Orders
  BY FS_AddElement DEF CountPart
<1>3. refs' \in [Users -> Nat]
  BY <1>1 DEF CountPart
<1>4. ASSUME NEW u \in Users PROVE refs'[u] >= Cardinality(index' \cap Of(u))
  <2> DEFINE part == index \cap Of(u)
  <2>1. IsFiniteSet(part) /\ Cardinality(part) \in Nat /\ refs[u] >= Cardinality(part) /\ refs[u] \in Nat
    BY PartsAreFinite DEF CountPart
  <2>2. CASE u = Owner[o]
    <3>1. index' \cap Of(u) = part \cup {o}
      BY <2>2 DEF Of
    <3>2. Cardinality(part \cup {o}) <= Cardinality(part) + 1
      <4> HIDE DEF part
      <4>1. Cardinality(part \cup {o}) = IF o \in part THEN Cardinality(part) ELSE Cardinality(part) + 1
        BY <2>1, FS_AddElement
      <4> QED BY <2>1, <4>1
    <3>3. refs'[u] = refs[u] + 1
      BY <2>2 DEF CountPart
    <3>4. Cardinality(part \cup {o}) \in Nat
      BY <2>1, FS_AddElement, FS_CardinalityType
    <3> HIDE DEF part
    <3> QED BY <2>1, <3>1, <3>2, <3>3, <3>4
  <2>3. CASE u # Owner[o]
    <3>1. index' \cap Of(u) = part
      BY <2>3 DEF Of
    <3>2. refs'[u] = refs[u]
      BY <1>1, <2>3 DEF CountPart
    <3> QED BY <2>1, <3>1, <3>2
  <2> QED BY <2>2, <2>3
<1> QED BY <1>2, <1>3, <1>4 DEF CountPart

\* An order of the index less, and one less counted for its owner.
LEMMA CountedOut ==
    ASSUME CountPart, NEW o \in index, Completed(o)
    PROVE  CountPart'
<1>1. /\ o \in Orders /\ Owner[o] \in Users /\ refs[Owner[o]] \in Nat
      /\ index' = index \ {o}
      /\ refs' = [refs EXCEPT ![Owner[o]] = IF @ = 0 THEN 0 ELSE @ - 1]
  BY IndexAssumption DEF CountPart, Completed
<1>2. IsFiniteSet(index') /\ index' \subseteq Orders
  BY <1>1, FS_RemoveElement DEF CountPart
<1>3. refs' \in [Users -> Nat]
  BY <1>1 DEF CountPart
<1>4. ASSUME NEW u \in Users PROVE refs'[u] >= Cardinality(index' \cap Of(u))
  <2> DEFINE part == index \cap Of(u)
  <2>1. IsFiniteSet(part) /\ Cardinality(part) \in Nat /\ refs[u] >= Cardinality(part) /\ refs[u] \in Nat
    BY PartsAreFinite DEF CountPart
  <2>2. CASE u = Owner[o]
    <3>1. index' \cap Of(u) = part \ {o} /\ o \in part
      BY <1>1, <2>2 DEF Of
    <3>2. Cardinality(part \ {o}) = Cardinality(part) - 1
      BY <2>1, <3>1, FS_RemoveElement
    <3>3. refs'[u] = IF refs[u] = 0 THEN 0 ELSE refs[u] - 1
      BY <1>1, <2>2 DEF CountPart
    <3>4. IsFiniteSet(part \ {o})
      BY <2>1, FS_RemoveElement
    <3>5. Cardinality(part \ {o}) \in Nat
      BY <3>4, FS_CardinalityType
    <3> HIDE DEF part
    <3> QED BY <2>1, <3>1, <3>2, <3>3, <3>5
  <2>3. CASE u # Owner[o]
    <3>1. index' \cap Of(u) = part
      BY <1>1, <2>3 DEF Of
    <3>2. refs'[u] = refs[u]
      BY <1>1, <2>3 DEF CountPart
    <3> QED BY <2>1, <3>1, <3>2
  <2> QED BY <2>2, <2>3
<1> QED BY <1>2, <1>3, <1>4 DEF CountPart

\* The thread that places an order counts it; the feed's part of the index stays in it.
LEMMA PlacingCounts ==
    ASSUME CountInv, NEW o \in Orders, Place(o) \/ AskEngine(o) \/ NotifyPlaced(o) \/ SubscribePlaced(o)
    PROVE  CountInv'
<1>1. RowPart /\ EnginePart /\ FeedPart /\ CountPart /\ Owner[o] \in Users
  BY IndexAssumption DEF CountInv
<1>2. UNCHANGED <<hit, quoted, engine, life, feed, fresh, fallback>> /\ index \subseteq index'
  BY DEF Place, AskEngine, NotifyPlaced, SubscribePlaced, monitor, object, rows
<1>3. FeedPart'
  BY <1>1, <1>2 DEF FeedPart
<1>4. EnginePart'
  <2>1. subscribed' \subseteq Users
    BY <1>1 DEF EnginePart, Place, AskEngine, NotifyPlaced, SubscribePlaced
  <2> QED BY <1>1, <1>2, <2>1 DEF EnginePart
<1>5. placing' \in [Orders -> {"none", "ask", "notify", "subscribe", "done"}]
  <2>1. PICK step \in {"ask", "notify", "subscribe", "done"} : PlacingTo(o, step)
    BY DEF Place, AskEngine, NotifyPlaced, SubscribePlaced
  <2> QED BY <1>1, <2>1 DEF RowPart, PlacingTo
<1>6. RowPart'
  <2>1. CASE status' = status
    BY <1>1, <1>2, <1>5, <2>1 DEF RowPart, Open
  <2>2. CASE status' = [status EXCEPT ![o] = "open"]
    BY <1>1, <1>2, <1>5, <2>2, RowsStayFinite
  <2> QED BY <2>1, <2>2 DEF Place, AskEngine, NotifyPlaced, SubscribePlaced, rows
<1>7. CountPart'
  <2>1. CASE UNCHANGED <<index, refs>>
    BY <1>1, <2>1 DEF CountPart
  <2>2. CASE NotifyPlaced(o)
    BY <1>1, <2>2, CountedIn DEF NotifyPlaced
  <2> QED BY <2>1, <2>2 DEF Place, AskEngine, SubscribePlaced, object
<1> QED BY <1>3, <1>4, <1>6, <1>7 DEF CountInv

\* A tick takes the index with it, and completes what it took.
LEMMA FeedCounts ==
    ASSUME CountInv, Tick \/ FeedStep
    PROVE  CountInv'
<1>1. RowPart /\ EnginePart /\ FeedPart /\ CountPart
  BY DEF CountInv
<1>2. UNCHANGED <<hit, quoted, placing, engine, life, fallback>>
  BY DEF Tick, FeedStep, CheckOrder, NotifyCompleted, Unsubscribe, EndTick, rows, monitor
<1>3. EnginePart'
  <2>1. subscribed' \subseteq subscribed /\ fresh' \in {fresh, TRUE}
    BY DEF Tick, FeedStep, CheckOrder, NotifyCompleted, Unsubscribe, EndTick, monitor
  <2> QED BY <1>1, <1>2, <2>1 DEF EnginePart
<1>4. ASSUME UNCHANGED <<status, index, refs>> PROVE RowPart' /\ CountPart'
  BY <1>1, <1>2, <1>4 DEF RowPart, Open, CountPart
<1>5. CASE Tick
  <2>1. feed' = [Quiet EXCEPT !.step = "orders", !.todo = index, !.reached = hit \cap index, !.life = life] /\ engine = "live"
        /\ UNCHANGED <<status, index, refs>>
    BY <1>5 DEF Tick, rows, object
  <2>2. feed' = [step |-> "orders", todo |-> index, reached |-> hit \cap index, life |-> life, now |-> "none"]
    BY <2>1 DEF Quiet
  <2>3. FeedPart'
    BY <1>1, <1>2, <2>1, <2>2 DEF FeedPart, FeedRecords, CountPart, EnginePart
  <2> QED BY <1>3, <1>4, <2>1, <2>3 DEF CountInv
<1>6. ASSUME NEW o \in Orders, CheckOrder(o) PROVE CountInv'
  <2>1. o \in feed.todo /\ feed.step = "orders" /\ UNCHANGED <<index, refs>>
    BY <1>6 DEF CheckOrder, object
  <2>2. CASE status' = status /\ feed' = [feed EXCEPT !.todo = @ \ {o}, !.reached = @ \ {o}]
    <3>1. FeedPart'
      BY <1>1, <1>2, <2>1, <2>2 DEF FeedPart, FeedRecords
    <3> QED BY <1>3, <1>4, <2>1, <2>2, <3>1 DEF CountInv
  <2>3. CASE /\ status' = [status EXCEPT ![o] = "closed"]
             /\ feed' = [feed EXCEPT !.step = "complete", !.now = o, !.reached = @ \ {o}]
    <3>1. FeedPart'
      BY <1>1, <1>2, <2>1, <2>3 DEF FeedPart, FeedRecords
    <3>2. RowPart'
      BY <1>1, <1>2, <2>3, RowsStayFinite DEF RowPart
    <3>3. CountPart'
      BY <1>1, <2>1 DEF CountPart
    <3> QED BY <1>3, <3>1, <3>2, <3>3 DEF CountInv
  <2> QED BY <1>6, <2>2, <2>3 DEF CheckOrder
<1>7. ASSUME NEW o \in Orders, NotifyCompleted(o) PROVE CountInv'
  <2>1. feed.step = "complete" /\ feed.now = o /\ o \in feed.todo /\ UNCHANGED status
    BY <1>1, <1>7 DEF NotifyCompleted, FeedPart, rows
  <2>2. feed' \in {[feed EXCEPT !.todo = @ \ {o}, !.step = "unsubscribe"],
                   [feed EXCEPT !.todo = @ \ {o}, !.step = "orders", !.now = "none"]}
    BY <1>7 DEF NotifyCompleted
  <2>3. /\ feed' \in FeedRecords /\ feed'.life = feed.life /\ feed'.todo = feed.todo \ {o}
        /\ feed'.step \in {"unsubscribe", "orders"}
    BY <1>1, <2>2 DEF FeedPart, FeedRecords
  <2>4. CASE feed.life = life
    <3>1. Completed(o) /\ o \in index
      BY <1>1, <1>7, <2>1, <2>4 DEF NotifyCompleted, FeedPart
    <3>2. CountPart'
      BY <1>1, <3>1, CountedOut
    <3>3. FeedPart'
      BY <1>1, <1>2, <2>1, <2>3, <2>4, <3>1 DEF FeedPart, Completed
    <3>4. RowPart'
      BY <1>1, <1>2, <2>1 DEF RowPart, Open
    <3> QED BY <1>3, <3>2, <3>3, <3>4 DEF CountInv
  <2>5. CASE feed.life # life
    <3>1. UNCHANGED <<index, refs>>
      BY <1>7, <2>5 DEF NotifyCompleted, object
    <3>2. FeedPart'
      BY <1>1, <1>2, <2>3, <2>5 DEF FeedPart
    <3> QED BY <1>3, <1>4, <2>1, <3>1, <3>2 DEF CountInv
  <2> QED BY <2>4, <2>5
<1>8. CASE Unsubscribe
  <2>1. feed' = [feed EXCEPT !.step = "orders", !.now = "none"] /\ feed.step = "unsubscribe"
        /\ UNCHANGED <<status, index, refs>>
    BY <1>8 DEF Unsubscribe, rows, object
  <2>2. FeedPart'
    BY <1>1, <1>2, <2>1 DEF FeedPart, FeedRecords
  <2> QED BY <1>3, <1>4, <2>1, <2>2 DEF CountInv
<1>9. CASE EndTick
  <2>1. feed' = Quiet /\ UNCHANGED <<status, index, refs>>
    BY <1>9 DEF EndTick, rows, object
  <2>2. FeedPart'
    BY <1>1, <1>2, <2>1, IndexAssumption DEF FeedPart, FeedRecords, Quiet, EnginePart
  <2> QED BY <1>3, <1>4, <2>1, <2>2 DEF CountInv
<1> QED BY <1>5, <1>6, <1>7, <1>8, <1>9 DEF FeedStep

\* A start counts what it finds; a stop leaves an empty index to another object.
LEMMA EngineCounts ==
    ASSUME CountInv, Start \/ EngineStep \/ Stop
    PROVE  CountInv'
<1>1. RowPart /\ EnginePart /\ FeedPart /\ CountPart
  BY DEF CountInv
<1>2. UNCHANGED <<status, hit, quoted, placing, feed, fresh>>
  BY DEF Start, EngineStep, Rebuild, GoLive, Stopped, Stop, rows, monitor
<1>3. RowPart'
  BY <1>1, <1>2 DEF RowPart, Open
<1>4. subscribed' \subseteq Users
  BY <1>1 DEF EnginePart, Start, EngineStep, Rebuild, GoLive, Stopped, Stop
<1>5. CASE Start \/ GoLive \/ Stop
  <2>1. UNCHANGED <<life, index, refs>>
    BY <1>5 DEF Start, GoLive, Stop, object
  <2>2. EnginePart'
    <3>1. fresh' \in BOOLEAN
      BY <1>1, <1>2 DEF EnginePart
    <3>2. fallback' \in BOOLEAN /\ (fallback' => engine' = "live")
      <4>1. CASE Stop
        BY <4>1 DEF Stop
      <4>2. CASE Start \/ GoLive
        <5>1. engine # "live" /\ fallback' = fallback
          BY <4>2 DEF Start, GoLive, monitor
        <5> QED BY <1>1, <5>1 DEF EnginePart
      <4> QED BY <1>5, <4>1, <4>2
    <3>3. engine' \in EngineSteps /\ (engine' = "halting" => life < MaxStops)
      BY <1>5 DEF EngineSteps, Start, GoLive, Stop
    <3> QED BY <1>1, <1>4, <2>1, <3>1, <3>2, <3>3 DEF EnginePart
  <2>3. FeedPart'
    BY <1>1, <1>2, <1>5, <2>1 DEF FeedPart, Start, GoLive, Stop
  <2>4. CountPart'
    BY <1>1, <2>1 DEF CountPart
  <2> QED BY <1>3, <2>2, <2>3, <2>4 DEF CountInv
<1>6. CASE Rebuild
  <2>1. /\ engine = "rebuild" /\ engine' = "subscribe" /\ UNCHANGED <<life, fallback>>
        /\ index' = Open /\ refs' = [u \in Users |-> Cardinality(Open \cap Of(u))]
    BY <1>6 DEF Rebuild, monitor
  <2>2. EnginePart'
    BY <1>1, <1>2, <1>4, <2>1 DEF EnginePart, EngineSteps
  <2>3. FeedPart'
    BY <1>1, <1>2, <2>1 DEF FeedPart
  <2>4. \A u \in Users : Cardinality(Open \cap Of(u)) \in Nat
    BY <1>1, PartsAreFinite DEF RowPart
  <2>5. index' \subseteq Orders /\ IsFiniteSet(index')
    BY <1>1, <2>1 DEF RowPart, Open
  <2>6. CountPart'
    BY <2>1, <2>4, <2>5 DEF CountPart
  <2> QED BY <1>3, <2>2, <2>3, <2>6 DEF CountInv
<1>7. CASE Stopped
  <2>1. /\ engine = "halting" /\ engine' = "stopped" /\ life' = life + 1 /\ fallback' = fallback
        /\ index' = {} /\ refs' = [u \in Users |-> 0]
    BY <1>7 DEF Stopped, monitor
  <2>2. EnginePart'
    BY <1>1, <1>2, <1>4, <2>1, IndexAssumption DEF EnginePart, EngineSteps
  <2>3. feed.life \in 0 .. MaxStops /\ life \in 0 .. MaxStops
    BY <1>1 DEF FeedPart, FeedRecords, EnginePart
  <2>4. FeedPart'
    BY <1>1, <1>2, <2>1, <2>3, IndexAssumption DEF FeedPart
  <2>5. CountPart'
    <3>1. \A u \in Users : index' \cap Of(u) = {}
      BY <2>1
    <3> QED BY <2>1, <3>1, FS_EmptySet DEF CountPart
  <2> QED BY <1>3, <2>2, <2>4, <2>5 DEF CountInv
<1> QED BY <1>5, <1>6, <1>7 DEF EngineStep

\* Every step keeps the counts.
LEMMA CountNext ==
    ASSUME CountInv, [Next]_vars
    PROVE  CountInv'
<1>1. RowPart /\ EnginePart /\ FeedPart /\ CountPart
  BY DEF CountInv
<1>2. ASSUME UNCHANGED <<engine, life, index, refs, feed>> PROVE FeedPart' /\ CountPart'
  BY <1>1, <1>2 DEF FeedPart, CountPart
<1>3. CASE UNCHANGED vars
  BY <1>1, <1>2, <1>3 DEF vars, rows, object, monitor, CountInv, RowPart, Open, EnginePart
<1>4. ASSUME NEW o \in Orders, Reach(o) \/ Recede(o) PROVE CountInv'
  <2>1. hit' \in {hit \cup {o}, hit \ {o}} /\ UNCHANGED <<status, quoted, placing, engine, life, index, refs, feed, subscribed, fresh, fallback>>
    BY <1>4 DEF Reach, Recede, object, monitor
  <2> QED BY <1>1, <1>2, <2>1 DEF CountInv, RowPart, Open, EnginePart
<1>5. ASSUME NEW o \in Orders, CloseElsewhere(o) \/ Poll(o) PROVE CountInv'
  <2>1. /\ status' = [status EXCEPT ![o] = "closed"]
        /\ UNCHANGED <<hit, quoted, placing, engine, life, index, refs, feed, subscribed, fresh, fallback>>
    BY <1>5 DEF CloseElsewhere, Poll, object, monitor
  <2>2. RowPart'
    BY <1>1, <2>1, RowsStayFinite DEF RowPart
  <2>3. EnginePart'
    BY <1>1, <2>1 DEF EnginePart
  <2> QED BY <1>2, <2>1, <2>2, <2>3 DEF CountInv
<1>6. CASE GoStale \/ Monitor
  <2>1. UNCHANGED <<status, hit, quoted, placing, engine, life, index, refs, feed, subscribed>>
    BY <1>6 DEF GoStale, Monitor, rows, object
  <2>2. fresh' \in BOOLEAN /\ fallback' \in BOOLEAN /\ (fallback' => engine = "live")
    <3>1. CASE GoStale
      <4>1. fresh' = FALSE /\ fallback' = fallback
        BY <3>1 DEF GoStale
      <4> QED BY <1>1, <4>1 DEF EnginePart
    <3>2. CASE Monitor
      <4>1. engine = "live" /\ fresh' = fresh /\ fallback' = ~fresh
        BY <3>2 DEF Monitor
      <4> QED BY <1>1, <4>1 DEF EnginePart
    <3> QED BY <1>6, <3>1, <3>2
  <2>3. RowPart' /\ EnginePart'
    BY <1>1, <2>1, <2>2 DEF RowPart, Open, EnginePart
  <2> QED BY <1>2, <2>1, <2>3 DEF CountInv
<1>7. CASE Tick \/ FeedStep
  BY <1>7, FeedCounts
<1>8. CASE Start \/ EngineStep \/ Stop
  BY <1>8, EngineCounts
<1>9. ASSUME NEW o \in Orders,
             Place(o) \/ AskEngine(o) \/ NotifyPlaced(o) \/ SubscribePlaced(o)
      PROVE  CountInv'
  BY <1>9, PlacingCounts
<1>10. CASE Outage
  <2>1. UNCHANGED <<status, hit, placing, engine, life, index, refs, feed, subscribed, fresh, fallback>>
    BY <1>10 DEF Outage, object, monitor
  <2>2. quoted' \in BOOLEAN
    <3>1. quoted' = ~quoted
      BY <1>10 DEF Outage
    <3> QED BY <3>1, Zenon
  <2>3. RowPart' /\ EnginePart'
    BY <1>1, <2>1, <2>2 DEF RowPart, Open, EnginePart
  <2> QED BY <1>2, <2>1, <2>3 DEF CountInv
<1> QED BY <1>3, <1>4, <1>5, <1>6, <1>7, <1>8, <1>9, <1>10 DEF Next

\* The types of the rows, the engine and the feed, for any orders, users and stops.
THEOREM IndexTypes == Spec => []IndexTypeOK
<1>1. CountInv => IndexTypeOK
  BY DEF CountInv, RowPart, EnginePart, EngineSteps, FeedPart, FeedRecords, CountPart, IndexTypeOK
<1> QED BY <1>1, CountInit, CountNext, PTL DEF Spec

\* A user's count covers that user's part of the index, though an order may be counted
\* twice and the feed may work for an engine that is gone, for any orders and users.
THEOREM CountsCover == Spec => []CountCoversIndex
<1>1. CountInv => CountCoversIndex
  BY DEF CountInv, CountPart, CountCoversIndex
<1> QED BY <1>1, CountInit, CountNext, PTL DEF Spec
=============================================================================
