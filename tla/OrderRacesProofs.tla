-------------------------- MODULE OrderRacesProofs --------------------------
(***************************************************************************)
(* Proofs about OrderRaces for any number of request and engine threads,   *)
(* any requests, prices and capital: the types of the tables and of the    *)
(* sessions, that a traded order stays closed, and that a balance two      *)
(* requests race for is never overdrawn.  RacesInv is the inductive        *)
(* invariant; what it adds to TypeOK is what each thread has in hand at    *)
(* each step of its handler.  Three theorems are about books that one      *)
(* engine thread fills: that no cash is lost; where nobody cancels, that   *)
(* the threads implement OrderLifecycle; and where nobody modifies and     *)
(* nothing crashes, that the position is what was traded.                  *)
(***************************************************************************)
EXTENDS OrderRaces, SandboxLemmas, FiniteSetTheorems

-----------------------------------------------------------------------------
(* The types of the tables and of what the sessions hold. *)

OrderRows == [action         : {"BUY", "SELL"},
              product        : Products,
              quantity       : Nat \ {0},
              price_type     : {"MARKET", "LIMIT", "SL", "SL-M"},
              price          : Int,
              trigger_price  : Int,
              order_status   : OrderStatus,
              margin_blocked : Int]

Trade == [orderid : Nat \ {0}, quantity : Int, price : Int]

\* The rows a session may hold.
Loads == UNION {[ids -> OrderRows] : ids \in SUBSET Nat}

LocalRecords == [step : Steps, queue : Seq(Nat), loaded : Loads,
                 row : {<<>>} \cup Requests \cup OrderRows,
                 quote : Int, price : Int, held : Position, margin : Int, seen : Funds]

\* A thread at work has an order in hand, and holds its row where it uses it.
HasOrder == {"load", "check", "fill", "net", "release", "write", "validate", "reconcile",
             "reconcile_write", "cancel", "modify"}
HasRow == {"fill", "release", "write", "cancel", "modify"}

\* What a thread's record is, with these many orders in the table.
Fits(l, count) ==
    /\ l \in LocalRecords
    /\ \A n \in DOMAIN l.queue : l.queue[n] \in 1 .. count
    /\ l.step \in HasOrder => l.queue # <<>>
    /\ l.step \in HasRow => Head(l.queue) \in DOMAIN l.loaded
    /\ l.step \in {"block", "insert"} => l.row \in Requests
    /\ l.step = "modify" => /\ l.row \in OrderRows
                            /\ l.row.order_status = l.loaded[Head(l.queue)].order_status

TablePart ==
    /\ orders \in Seq(OrderRows)
    /\ trades \in Seq(Trade) /\ \A n \in DOMAIN trades : trades[n].orderid \in 1 .. Len(orders)
    /\ position \in Position /\ funds \in Funds
    /\ crashes \in 0 .. MaxCrashes

ThreadPart ==
    /\ local \in [Threads -> LocalRecords]
    /\ \A t \in Threads : Fits(local[t], Len(orders))

RacesInv == TablePart /\ ThreadPart

-----------------------------------------------------------------------------
(* Records of the sessions. *)

\* Rows by number are rows a session may hold.
LEMMA LoadsHold ==
    ASSUME NEW f, NEW ids \in SUBSET Nat, f \in [ids -> OrderRows]
    PROVE  f \in Loads
BY DEF Loads

LEMMA LoadsAreRows ==
    ASSUME NEW f \in Loads
    PROVE  /\ DOMAIN f \in SUBSET Nat /\ f \in [DOMAIN f -> OrderRows]
           /\ \A n \in DOMAIN f : f[n] \in OrderRows
BY DEF Loads

LEMMA NothingLoaded == <<>> \in Loads
<1>1. {} \in SUBSET Nat /\ <<>> \in [{} -> OrderRows]
  OBVIOUS
<1> QED BY <1>1, LoadsHold

\* A row more is a row more.
LEMMA HoldingRows ==
    ASSUME NEW f \in Loads, NEW n \in Nat, NEW row \in OrderRows
    PROVE  Holding(f, n, row) \in Loads /\ n \in DOMAIN Holding(f, n, row) /\ Holding(f, n, row)[n] = row
<1>1. DOMAIN f \cup {n} \in SUBSET Nat
  BY LoadsAreRows
<1>2. Holding(f, n, row) \in [DOMAIN f \cup {n} -> OrderRows]
  BY LoadsAreRows DEF Holding
<1> QED BY <1>1, <1>2, LoadsHold DEF Holding

\* A position that does not exist yet, and prices, are integers.
LEMMA PriceIsInt == NoPrice \in Int /\ Prices \subseteq Int /\ Arrivals \subseteq Int
BY RacesAssumption DEF NoPrice

LEMMA NoPositionTyped == NoPosition \in Position
BY DEF NoPosition, Position

\* The record of a thread that does nothing.
LEMMA IdleFits == Idle \in LocalRecords /\ \A count \in Nat : Fits(Idle, count)
<1>1. Idle \in LocalRecords
  <2>1. "idle" \in Steps /\ <<>> \in Seq(Nat) /\ <<>> \in Loads
    BY NothingLoaded DEF Steps
  <2>2. NoPosition \in Position /\ InitialFunds \in Funds /\ NoPrice \in Int /\ 0 \in Int
    BY NoPositionTyped, InitialFundsFit DEF NoPrice
  <2> QED BY <2>1, <2>2 DEF Idle, LocalRecords
<1>2. Idle.step = "idle" /\ Idle.queue = <<>>
  BY DEF Idle
<1> QED BY <1>1, <1>2 DEF Fits, HasOrder, HasRow

\* More orders in the table fit all the more.
LEMMA FitsMore ==
    ASSUME NEW l, NEW m \in Nat, NEW n \in Nat, m <= n, Fits(l, m)
    PROVE  Fits(l, n)
BY DEF Fits

\* One thread gets a record that fits; the table does not shrink.
LEMMA ThreadChanges ==
    ASSUME ThreadPart, NEW t \in Threads, NEW l, local' = [local EXCEPT ![t] = l],
           Len(orders) \in Nat, Len(orders') \in Nat, Len(orders) <= Len(orders'), Fits(l, Len(orders'))
    PROVE  ThreadPart'
<1>1. l \in LocalRecords
  BY DEF Fits
<1>2. local' \in [Threads -> LocalRecords]
  BY <1>1 DEF ThreadPart
<1>3. ASSUME NEW u \in Threads PROVE Fits(local'[u], Len(orders'))
  <2>1. CASE u = t
    BY <2>1 DEF ThreadPart
  <2>2. CASE u # t
    <3>1. local'[u] = local[u]
      BY <2>2 DEF ThreadPart
    <3>2. Fits(local[u], Len(orders))
      BY DEF ThreadPart
    <3> QED BY <3>1, <3>2, FitsMore
  <2> QED BY <2>1, <2>2
<1>4. \A u \in Threads : Fits(local[u], Len(orders))'
  <2> TAKE u \in Threads
  <2>1. Fits(local'[u], Len(orders'))
    BY <1>3
  <2> QED BY <2>1 DEF Fits
<1> QED BY <1>2, <1>4 DEF ThreadPart

\* At first nothing is in the tables and nobody is at work.
LEMMA RacesInit == Init => RacesInv
<1> SUFFICES ASSUME Init PROVE RacesInv
  OBVIOUS
<1>1. TablePart
  BY NoPositionTyped, InitialFundsFit, RacesAssumption DEF Init, TablePart
<1>2. ThreadPart
  <2>1. local = [t \in Threads |-> Idle] /\ Len(orders) = 0
    BY DEF Init
  <2>2. \A t \in Threads : local[t] = Idle
    BY <2>1
  <2> QED BY <2>1, <2>2, IdleFits DEF ThreadPart
<1> QED BY <1>1, <1>2 DEF RacesInv

-----------------------------------------------------------------------------
(* What a thread has in hand. *)

\* The current order is in the table, and so are those that wait behind it.
LEMMA InHand ==
    ASSUME RacesInv, NEW t \in Threads, local[t].step \in HasOrder
    PROVE  /\ Len(orders) \in Nat /\ DOMAIN orders = 1 .. Len(orders)
           /\ Head(local[t].queue) \in DOMAIN orders /\ Head(local[t].queue) \in Nat
           /\ orders[Head(local[t].queue)] \in OrderRows
           /\ local[t].queue \in Seq(Nat) /\ Tail(local[t].queue) \in Seq(Nat)
           /\ \A n \in DOMAIN Tail(local[t].queue) : Tail(local[t].queue)[n] \in 1 .. Len(orders)
           /\ local[t].step \in HasRow => local[t].loaded[Head(local[t].queue)] \in OrderRows
<1>1. orders \in Seq(OrderRows) /\ Fits(local[t], Len(orders)) /\ local[t] \in LocalRecords
  BY DEF RacesInv, TablePart, ThreadPart
<1>2. local[t].queue \in Seq(Nat) /\ local[t].loaded \in Loads
  BY <1>1 DEF LocalRecords
<1>3. local[t].queue # <<>> /\ \A n \in DOMAIN local[t].queue : local[t].queue[n] \in 1 .. Len(orders)
  BY <1>1 DEF Fits
<1>4. Len(orders) \in Nat /\ DOMAIN orders = 1 .. Len(orders)
  BY <1>1, LenProperties
<1> DEFINE q == local[t].queue
<1>5. Head(q) \in 1 .. Len(orders) /\ Tail(q) \in Seq(Nat)
      /\ \A n \in DOMAIN Tail(q) : Tail(q)[n] \in 1 .. Len(orders)
  <2> HIDE DEF q
  <2>1. q \in Seq(Nat) /\ q # <<>> /\ \A n \in DOMAIN q : q[n] \in 1 .. Len(orders)
    BY <1>2, <1>3 DEF q
  <2>2. Head(q) = q[1] /\ 1 \in DOMAIN q /\ Tail(q) \in Seq(Nat) /\ Len(Tail(q)) = Len(q) - 1
        /\ \A n \in 1 .. Len(Tail(q)) : Tail(q)[n] = q[n + 1] /\ n + 1 \in DOMAIN q
    BY <2>1
  <2>3. DOMAIN Tail(q) = 1 .. Len(Tail(q))
    BY <2>2
  <2> QED BY <2>1, <2>2, <2>3
<1>6. orders[Head(q)] \in OrderRows
  BY <1>1, <1>4, <1>5, ElementOfSeq
<1>7. local[t].step \in HasRow => local[t].loaded[Head(q)] \in OrderRows
  BY <1>1, <1>2, LoadsAreRows DEF Fits
<1> QED BY <1>2, <1>4, <1>5, <1>6, <1>7

\* The row a session holds of an order, or else the table's, is a row.
LEMMA LoadedTyped ==
    ASSUME RacesInv, NEW t \in Threads, NEW id \in DOMAIN orders
    PROVE  Loaded(t, id) \in OrderRows
<1>1. local[t].loaded \in Loads
  BY DEF RacesInv, ThreadPart, LocalRecords
<1>2. orders \in Seq(OrderRows)
  BY DEF RacesInv, TablePart
<1>3. orders[id] \in OrderRows
  BY <1>2, ElementOfSeq, LenProperties
<1> QED BY <1>1, <1>3, LoadsAreRows DEF Loaded

\* Going on with the next order of the batch, or with nothing.
LEMMA ProceedFits ==
    ASSUME RacesInv, NEW t \in Threads, local[t].step \in HasOrder, NEW loaded \in Loads,
           Proceed(t, loaded), Len(orders') = Len(orders)
    PROVE  ThreadPart'
<1> DEFINE rest == Tail(local[t].queue)
           l == [Idle EXCEPT !.step = "check", !.queue = rest, !.loaded = loaded, !.quote = local[t].quote]
<1>1. /\ rest \in Seq(Nat) /\ Len(orders) \in Nat
      /\ \A n \in DOMAIN rest : rest[n] \in 1 .. Len(orders)
  BY InHand
<1>2. Len(orders) \in Nat /\ Len(orders') \in Nat /\ Len(orders) <= Len(orders')
  BY <1>1
<1>3. ThreadPart /\ local[t].quote \in Int
  BY DEF RacesInv, ThreadPart, LocalRecords
<1>4. CASE rest = <<>>
  <2>1. local' = [local EXCEPT ![t] = Idle]
    BY <1>4 DEF Proceed
  <2>2. Fits(Idle, Len(orders'))
    BY <1>2, IdleFits
  <2> QED BY <1>2, <1>3, <2>1, <2>2, ThreadChanges
<1>5. CASE rest # <<>>
  <2>1. local' = [local EXCEPT ![t] = l]
    BY <1>5 DEF Proceed
  <2> HIDE DEF rest
  <2>2. l \in LocalRecords /\ l.step = "check" /\ l.queue = rest
    BY <1>1, <1>3, IdleFits DEF LocalRecords, Steps
  <2> HIDE DEF l
  <2>3. Fits(l, Len(orders))
    BY <1>1, <1>5, <2>2 DEF Fits, HasRow
  <2>4. Fits(l, Len(orders'))
    BY <2>3
  <2> QED BY <1>2, <1>3, <2>1, <2>4, ThreadChanges
<1> QED BY <1>4, <1>5

\* A status is written to a row of the table.
LEMMA StatusWritten ==
    ASSUME TablePart, NEW id \in DOMAIN orders, NEW s \in OrderStatus,
           orders' = [orders EXCEPT ![id].order_status = s]
    PROVE  /\ orders' \in Seq(OrderRows) /\ Len(orders') = Len(orders) /\ Len(orders) \in Nat
           /\ DOMAIN orders' = DOMAIN orders
           /\ \A n \in DOMAIN orders : n # id => orders'[n] = orders[n]
           /\ orders'[id].order_status = s
<1> DEFINE row == [orders[id] EXCEPT !.order_status = s]
<1>1. orders \in Seq(OrderRows) /\ orders[id] \in OrderRows
  BY ElementOfSeq, LenProperties DEF TablePart
<1>2. row \in OrderRows /\ row.order_status = s
  BY <1>1 DEF OrderRows
<1>3. orders' = [orders EXCEPT ![id] = row]
  OBVIOUS
<1> HIDE DEF row
<1>4. /\ orders' \in Seq(OrderRows) /\ DOMAIN orders' = DOMAIN orders
      /\ \A n \in DOMAIN orders : orders'[n] = IF n = id THEN row ELSE orders[n]
  BY <1>1, <1>2, <1>3, RowReplaced
<1>5. Len(orders') = Len(orders) /\ Len(orders) \in Nat
  <2>1. DOMAIN orders = 1 .. Len(orders) /\ DOMAIN orders' = 1 .. Len(orders')
        /\ Len(orders) \in Nat /\ Len(orders') \in Nat
    BY <1>1, <1>4, LenProperties
  <2> QED BY <1>4, <2>1
<1> QED BY <1>2, <1>4, <1>5

\* A row written column by column is a row.
LEMMA OrderWritten ==
    ASSUME NEW current \in OrderRows, NEW old \in OrderRows, NEW new \in OrderRows
    PROVE  /\ Written(current, old, new) \in OrderRows
           /\ Written(current, old, new).order_status =
                  IF new.order_status # old.order_status THEN new.order_status ELSE current.order_status
<1> DEFINE w == Written(current, old, new)
           columns == {"action", "product", "quantity", "price_type", "price", "trigger_price",
                       "order_status", "margin_blocked"}
<1>1. DOMAIN current = columns
  BY DEF OrderRows
<1>2. w = [c \in columns |-> IF new[c] # old[c] THEN new[c] ELSE current[c]]
  BY <1>1 DEF Written
<1> QED BY <1>2 DEF OrderRows

\* So is a position row.
LEMMA PositionWritten ==
    ASSUME NEW current \in Position, NEW old \in Position, NEW new \in Position
    PROVE  Written(current, old, new) \in Position
<1> DEFINE w == Written(current, old, new)
           columns == {"quantity", "average_price", "margin_blocked", "accumulated_realized_pnl",
                       "today_realized_pnl", "created_today"}
<1>1. DOMAIN current = columns
  BY DEF Position
<1>2. w = [c \in columns |-> IF new[c] # old[c] THEN new[c] ELSE current[c]]
  BY <1>1 DEF Written
<1> QED BY <1>2 DEF Position

-----------------------------------------------------------------------------
(* Placing, cancelling and modifying. *)

\* A step that leaves the tables alone.
LEMMA TablesStay ==
    ASSUME RacesInv, NEW t \in Threads, UNCHANGED <<book, crashes>>, NEW l, Fits(l, Len(orders)),
           local' = [local EXCEPT ![t] = l]
    PROVE  RacesInv'
<1>1. UNCHANGED <<orders, trades, position, funds, crashes>>
  BY DEF book
<1>2. TablePart /\ ThreadPart /\ Len(orders) \in Nat
  BY LenProperties DEF RacesInv, TablePart
<1>3. TablePart'
  BY <1>1, <1>2 DEF TablePart
<1>4. Len(orders') \in Nat /\ Len(orders) <= Len(orders') /\ Fits(l, Len(orders'))
  BY <1>1, <1>2
<1>5. ThreadPart'
  BY <1>2, <1>4, ThreadChanges
<1> QED BY <1>3, <1>5 DEF RacesInv

\* The columns of a request.
LEMMA RequestColumns ==
    ASSUME NEW r \in Requests
    PROVE  /\ r.action \in {"BUY", "SELL"} /\ r.product \in Products /\ r.quantity \in Nat \ {0}
           /\ r.price_type \in {"MARKET", "LIMIT", "SL", "SL-M"}
           /\ r.price \in Int /\ r.trigger_price \in Int
<1>1. r \in [action : {"BUY", "SELL"}, product : Products, quantity : Nat \ {0},
             price_type : {"MARKET", "LIMIT", "SL", "SL-M"},
             price : Prices \cup {NoPrice}, trigger_price : Prices \cup {NoPrice}]
  BY RacesAssumption
<1>2. r.price \in Prices \cup {NoPrice} /\ r.trigger_price \in Prices \cup {NoPrice}
  BY <1>1
<1> QED BY <1>1, <1>2, PriceIsInt

LEMMA PlaceKeeps ==
    ASSUME RacesInv, NEW t \in Threads, Place(t)
    PROVE  RacesInv'
<1>1. PICK r \in Requests, ltp \in Arrivals :
       \E price \in IF r.price_type = "LIMIT" THEN {r.price}
                    ELSE IF r.price_type \in {"SL", "SL-M"} THEN {r.trigger_price}
                    ELSE IF ltp # NoPrice THEN {ltp}
                    ELSE IF position.average_price # NoPrice THEN Prices
                    ELSE {} :
       \E step \in {"block", "insert"} :
          local' = [local EXCEPT ![t] =
                    [Idle EXCEPT !.step   = step,
                                 !.row    = r,
                                 !.quote  = ltp,
                                 !.price  = price,
                                 !.margin = MarginToBlock(position, r, price)]]
  BY DEF Place
<1>2. PICK price \in {r.price, r.trigger_price, ltp} \cup Prices, step \in {"block", "insert"} :
          local' = [local EXCEPT ![t] =
                    [Idle EXCEPT !.step   = step,
                                 !.row    = r,
                                 !.quote  = ltp,
                                 !.price  = price,
                                 !.margin = MarginToBlock(position, r, price)]]
  BY <1>1
<1>3. price \in Int /\ ltp \in Int
  BY RequestColumns, PriceIsInt
<1>4. position \in Position
  BY DEF RacesInv, TablePart
<1> DEFINE margin == MarginToBlock(position, r, price)
           l == [Idle EXCEPT !.step = step, !.row = r, !.quote = ltp, !.price = price, !.margin = margin]
<1>5. margin \in Int
  BY <1>3, <1>4, RequestColumns, MarginToBlockTyped
<1> HIDE DEF margin
<1>6. l \in LocalRecords /\ l.step = step /\ l.row = r /\ l.queue = <<>>
  <2>1. Idle \in LocalRecords /\ Idle.queue = <<>>
    BY IdleFits DEF Idle
  <2> QED BY <1>3, <1>5, <2>1 DEF LocalRecords, Steps
<1>7. local' = [local EXCEPT ![t] = l]
  BY <1>2 DEF margin
<1> HIDE DEF l
<1>8. Fits(l, Len(orders))
  BY <1>6 DEF Fits, HasOrder, HasRow
<1>9. UNCHANGED <<book, crashes>>
  BY DEF Place
<1> QED BY <1>7, <1>8, <1>9, TablesStay

LEMMA BlockKeeps ==
    ASSUME RacesInv, NEW t \in Threads, Block(t)
    PROVE  RacesInv'
<1>1. TablePart /\ ThreadPart /\ Len(orders) \in Nat /\ Len(orders') \in Nat /\ Len(orders) <= Len(orders')
  BY LenProperties DEF RacesInv, TablePart, Block
<1>2. local[t] \in LocalRecords /\ Fits(local[t], Len(orders)) /\ local[t].step = "block"
  BY <1>1 DEF ThreadPart, Block, At
<1>3. TablePart'
  <2>1. local[t].margin \in Int /\ funds \in Funds
    BY <1>1, <1>2 DEF LocalRecords, TablePart
  <2>2. funds' \in Funds
    BY <2>1, FundsTyped DEF Block
  <2> QED BY <1>1, <2>2 DEF TablePart, Block
<1>4. PICK l \in {Idle, [local[t] EXCEPT !.step = "insert"]} : local' = [local EXCEPT ![t] = l]
  BY DEF Block
<1>5. Fits(l, Len(orders'))
  <2>1. CASE l = Idle
    BY <1>1, <2>1, IdleFits
  <2>2. CASE l = [local[t] EXCEPT !.step = "insert"]
    <3>1. /\ l \in LocalRecords /\ l.step = "insert" /\ l.row = local[t].row
          /\ l.queue = local[t].queue /\ l.loaded = local[t].loaded
      BY <1>2, <2>2 DEF LocalRecords, Steps
    <3>2. Len(orders') = Len(orders)
      BY DEF Block
    <3> QED BY <1>2, <3>1, <3>2 DEF Fits, HasOrder, HasRow
  <2> QED BY <2>1, <2>2
<1>6. ThreadPart'
  BY <1>1, <1>4, <1>5, ThreadChanges
<1> QED BY <1>3, <1>6 DEF RacesInv

LEMMA InsertKeeps ==
    ASSUME RacesInv, NEW t \in Threads, Insert(t)
    PROVE  /\ RacesInv'
           /\ \E row \in OrderRows : row.order_status = "open" /\ orders' = Append(orders, row)
<1>1. TablePart /\ ThreadPart /\ orders \in Seq(OrderRows)
  BY DEF RacesInv, TablePart
<1>2. local[t] \in LocalRecords /\ local[t].row \in Requests
  BY <1>1 DEF ThreadPart, Fits, Insert, At
<1> DEFINE r == local[t].row
           row == OrderRow(r, local[t].price, local[t].margin)
<1>3. row \in OrderRows /\ row.order_status = "open"
  <2>1. local[t].price \in Int /\ local[t].margin \in Int
    BY <1>2 DEF LocalRecords
  <2> QED BY <1>2, <2>1, RequestColumns DEF OrderRow, OrderRows, OrderStatus
<1>4. orders' = Append(orders, row) /\ UNCHANGED <<trades, position, funds, crashes>>
  BY DEF Insert
<1> HIDE DEF row
<1>5. /\ orders' \in Seq(OrderRows) /\ Len(orders) \in Nat /\ Len(orders') \in Nat
      /\ Len(orders') = Len(orders) + 1 /\ Len(orders) <= Len(orders')
  BY <1>1, <1>3, <1>4
<1>6. TablePart'
  BY <1>1, <1>4, <1>5 DEF TablePart
<1>7. PICK l : /\ local' = [local EXCEPT ![t] = l]
               /\ \/ l = Idle
                  \/ \E step \in {"check", "load"}, p \in {NoPrice, local[t].quote} :
                        l = [Idle EXCEPT !.step = step, !.queue = <<Len(orders')>>,
                                         !.quote = local[t].quote, !.price = p]
  BY DEF Insert
<1>8. Fits(l, Len(orders'))
  <2>1. CASE l = Idle
    BY <1>5, <2>1, IdleFits
  <2>2. ASSUME NEW step \in {"check", "load"}, NEW p \in {NoPrice, local[t].quote},
               l = [Idle EXCEPT !.step = step, !.queue = <<Len(orders')>>,
                                !.quote = local[t].quote, !.price = p]
        PROVE  Fits(l, Len(orders'))
    <3> DEFINE q == <<Len(orders')>>
    <3>1. q \in Seq(Nat) /\ q # <<>> /\ \A n \in DOMAIN q : q[n] \in 1 .. Len(orders')
      BY <1>5
    <3>2. local[t].quote \in Int /\ p \in Int
      BY <1>2, PriceIsInt DEF LocalRecords
    <3> HIDE DEF q
    <3>3. l = [Idle EXCEPT !.step = step, !.queue = q, !.quote = local[t].quote, !.price = p]
      BY <2>2 DEF q
    <3>4. l \in LocalRecords /\ l.step = step /\ l.queue = q
      BY <3>1, <3>2, <3>3, IdleFits DEF LocalRecords, Steps
    <3> QED BY <3>1, <3>4 DEF Fits, HasRow
  <2> QED BY <1>7, <2>1, <2>2
<1>9. ThreadPart'
  BY <1>1, <1>5, <1>7, <1>8, ThreadChanges
<1> QED BY <1>3, <1>4, <1>6, <1>9 DEF RacesInv

\* A thread that goes on with the order it has in hand.
LEMMA GoesOn ==
    ASSUME RacesInv, NEW t \in Threads, local[t].step \in HasOrder, Len(orders') = Len(orders),
           NEW l \in LocalRecords, l.queue = local[t].queue, l.step \in HasOrder \ {"modify"},
           l.step \in HasRow => Head(l.queue) \in DOMAIN l.loaded,
           local' = [local EXCEPT ![t] = l]
    PROVE  ThreadPart'
<1>1. ThreadPart /\ Fits(local[t], Len(orders)) /\ Len(orders) \in Nat
  BY InHand DEF RacesInv, ThreadPart
<1>2. Fits(l, Len(orders))
  BY <1>1 DEF Fits, HasOrder
<1>3. Fits(l, Len(orders')) /\ Len(orders') \in Nat /\ Len(orders) <= Len(orders')
  BY <1>1, <1>2
<1> QED BY <1>1, <1>3, ThreadChanges

LEMMA LoadKeeps ==
    ASSUME RacesInv, NEW t \in Threads, Load(t)
    PROVE  RacesInv'
<1> DEFINE id == Head(local[t].queue)
           held == Holding(<<>>, id, orders[id])
           l == [local[t] EXCEPT !.step = "fill", !.loaded = held]
<1>1. local[t].step = "load" /\ local[t].step \in HasOrder /\ local[t] \in LocalRecords
  BY DEF RacesInv, ThreadPart, Load, At, HasOrder
<1>2. id \in Nat /\ orders[id] \in OrderRows
  BY <1>1, InHand
<1>3. held \in Loads /\ id \in DOMAIN held
  BY <1>2, NothingLoaded, HoldingRows
<1>4. UNCHANGED <<book, crashes>> /\ local' = [local EXCEPT ![t].step = "fill", ![t].loaded = held]
  BY DEF Load
<1> HIDE DEF held
<1>5. l \in LocalRecords /\ l.step = "fill" /\ l.loaded = held /\ l.queue = local[t].queue
  BY <1>1, <1>3 DEF LocalRecords, Steps
<1>6. local' = [local EXCEPT ![t] = l]
  BY <1>4
<1> HIDE DEF l
<1>7. Fits(local[t], Len(orders))
  BY DEF RacesInv, ThreadPart
<1>8. Fits(l, Len(orders))
  BY <1>1, <1>3, <1>5, <1>7 DEF Fits, HasOrder
<1> QED BY <1>4, <1>6, <1>8, TablesStay

\* A request that cancels or modifies starts from the row as it finds it.
LEMMA RequestFits ==
    ASSUME RacesInv, NEW id \in DOMAIN orders, NEW l \in LocalRecords,
           l.step \in {"cancel", "modify"}, l.queue = <<id>>, l.loaded = Holding(<<>>, id, orders[id]),
           l.step = "modify" => l.row \in OrderRows /\ l.row.order_status = orders[id].order_status
    PROVE  Fits(l, Len(orders))
<1>1. orders \in Seq(OrderRows) /\ id \in Nat /\ id \in 1 .. Len(orders) /\ orders[id] \in OrderRows
  BY ElementOfSeq, LenProperties DEF RacesInv, TablePart
<1>2. id \in DOMAIN l.loaded /\ l.loaded[id] = orders[id]
  BY <1>1, NothingLoaded, HoldingRows
<1>3. l.queue # <<>> /\ Head(l.queue) = id /\ \A n \in DOMAIN l.queue : l.queue[n] \in 1 .. Len(orders)
  BY <1>1
<1>4. l.step = "modify" => l.row \in OrderRows /\ l.row.order_status = l.loaded[Head(l.queue)].order_status
  BY <1>2, <1>3
<1> QED BY <1>2, <1>3, <1>4 DEF Fits

LEMMA StartCancelKeeps ==
    ASSUME RacesInv, NEW t \in Threads, StartCancel(t)
    PROVE  RacesInv'
<1>1. PICK id \in DOMAIN orders, ltp \in Arrivals :
        local' = [local EXCEPT ![t] =
               [Idle EXCEPT !.step = "cancel", !.queue = <<id>>, !.quote = ltp,
                            !.loaded = Holding(<<>>, id, orders[id])]]
  BY DEF StartCancel
<1> DEFINE held == Holding(<<>>, id, orders[id])
           q == <<id>>
           l == [Idle EXCEPT !.step = "cancel", !.queue = q, !.quote = ltp, !.loaded = held]
<1>2. local' = [local EXCEPT ![t] = l]
  BY <1>1
<1>3. orders \in Seq(OrderRows) /\ id \in Nat /\ orders[id] \in OrderRows
  BY ElementOfSeq, LenProperties DEF RacesInv, TablePart
<1>4. held \in Loads /\ q \in Seq(Nat) /\ ltp \in Int
  BY <1>3, NothingLoaded, HoldingRows, PriceIsInt
<1> HIDE DEF held, q
<1>5. l \in LocalRecords /\ l.step = "cancel" /\ l.queue = q /\ l.loaded = held
  BY <1>4, IdleFits DEF LocalRecords, Steps
<1> HIDE DEF l
<1>6. Fits(l, Len(orders))
  BY <1>5, RequestFits DEF held, q
<1>7. UNCHANGED <<book, crashes>>
  BY DEF StartCancel
<1> QED BY <1>2, <1>6, <1>7, TablesStay

LEMMA StartModifyKeeps ==
    ASSUME RacesInv, NEW t \in Threads, StartModify(t)
    PROVE  RacesInv'
<1>1. PICK id \in DOMAIN orders, q \in Quantities :
      \E p \in IF orders[id].price_type \in {"LIMIT", "SL"} THEN Prices
               ELSE {orders[id].price},
         g \in IF orders[id].price_type \in {"SL", "SL-M"} THEN Prices
               ELSE {orders[id].trigger_price} :
         /\ orders[id].order_status = "open"
         /\ local' = [local EXCEPT ![t] =
                [Idle EXCEPT !.step = "modify", !.queue = <<id>>,
                             !.loaded = Holding(<<>>, id, orders[id]),
                             !.row = [orders[id] EXCEPT !.quantity = q, !.price = p,
                                                        !.trigger_price = g]]]
  BY DEF StartModify
<1>2. PICK p \in IF orders[id].price_type \in {"LIMIT", "SL"} THEN Prices
                 ELSE {orders[id].price},
           g \in IF orders[id].price_type \in {"SL", "SL-M"} THEN Prices
                 ELSE {orders[id].trigger_price} :
         /\ orders[id].order_status = "open"
         /\ local' = [local EXCEPT ![t] =
                [Idle EXCEPT !.step = "modify", !.queue = <<id>>,
                             !.loaded = Holding(<<>>, id, orders[id]),
                             !.row = [orders[id] EXCEPT !.quantity = q, !.price = p,
                                                        !.trigger_price = g]]]
  BY <1>1
<1>3. orders \in Seq(OrderRows) /\ id \in Nat /\ orders[id] \in OrderRows /\ q \in Nat \ {0}
  BY ElementOfSeq, LenProperties, RacesAssumption DEF RacesInv, TablePart
<1>4. p \in Int /\ g \in Int
  <2>1. orders[id].price \in Int /\ orders[id].trigger_price \in Int
    BY <1>3 DEF OrderRows
  <2> QED BY <2>1, PriceIsInt
<1> DEFINE row == [orders[id] EXCEPT !.quantity = q, !.price = p, !.trigger_price = g]
           held == Holding(<<>>, id, orders[id])
           queue == <<id>>
           l == [Idle EXCEPT !.step = "modify", !.queue = queue, !.loaded = held, !.row = row]
<1>5. row \in OrderRows /\ row.order_status = orders[id].order_status
  BY <1>3, <1>4 DEF OrderRows
<1>6. local' = [local EXCEPT ![t] = l]
  BY <1>2
<1>7. held \in Loads /\ queue \in Seq(Nat)
  BY <1>3, NothingLoaded, HoldingRows
<1> HIDE DEF row, held, queue
<1>8. l \in LocalRecords /\ l.step = "modify" /\ l.queue = queue /\ l.loaded = held /\ l.row = row
  BY <1>5, <1>7, IdleFits DEF LocalRecords, Steps
<1> HIDE DEF l
<1>9. Fits(l, Len(orders))
  BY <1>5, <1>8, RequestFits DEF held, queue
<1>10. UNCHANGED <<book, crashes>>
  BY DEF StartModify
<1> QED BY <1>6, <1>9, <1>10, TablesStay

\* What a cancellation releases is an integer.
LEMMA CancelReleaseTyped ==
    ASSUME NEW row \in OrderRows, NEW ltp \in Int
    PROVE  CancelRelease(row, ltp) \in Int
<1>1. row.product \in Products /\ row.quantity \in Int /\ row.price \in Int /\ row.margin_blocked \in Int
  BY DEF OrderRows
<1>2. (IF row.price = NoPrice THEN ltp ELSE row.price) \in Int
  BY <1>1
<1>3. MarginRequired(row.product, row.quantity, IF row.price = NoPrice THEN ltp ELSE row.price) \in Int
  BY <1>1, <1>2, MarginTyped
<1> QED BY <1>1, <1>3 DEF CancelRelease

LEMMA CancelKeeps ==
    ASSUME RacesInv, NEW t \in Threads, Cancel(t)
    PROVE  RacesInv'
<1> DEFINE id == Head(local[t].queue)
           row == local[t].loaded[id]
           released == CancelRelease(row, local[t].quote)
<1>1. TablePart /\ ThreadPart /\ local[t] \in LocalRecords /\ local[t].step \in HasOrder
      /\ local[t].step \in HasRow
  BY DEF RacesInv, ThreadPart, Cancel, At, HasOrder, HasRow
<1>2. id \in DOMAIN orders /\ row \in OrderRows /\ local[t].quote \in Int
  BY <1>1, InHand DEF LocalRecords
<1>3. /\ orders' = [orders EXCEPT ![id].order_status = "cancelled"]
      /\ funds' = ReleaseMargin(funds, released, 0)
      /\ local' = [local EXCEPT ![t] = Idle] /\ UNCHANGED <<trades, position, crashes>>
  BY DEF Cancel
<1>4. released \in Int
  <2> HIDE DEF row, id
  <2> QED BY <1>2, CancelReleaseTyped
<1> HIDE DEF id, released
<1>5. /\ orders' \in Seq(OrderRows) /\ Len(orders') = Len(orders) /\ Len(orders) \in Nat
  BY <1>1, <1>2, <1>3, StatusWritten DEF OrderStatus
<1>6. funds' \in Funds
  BY <1>1, <1>3, <1>4, FundsTyped DEF TablePart
<1>7. TablePart'
  BY <1>1, <1>3, <1>5, <1>6 DEF TablePart
<1>8. Fits(Idle, Len(orders')) /\ Len(orders') \in Nat /\ Len(orders) <= Len(orders')
  BY <1>5, IdleFits
<1>9. ThreadPart'
  BY <1>1, <1>3, <1>5, <1>8, ThreadChanges
<1> QED BY <1>7, <1>9 DEF RacesInv

\* A modified row has the status the table has.
LEMMA ModifyKeeps ==
    ASSUME RacesInv, NEW t \in Threads, Modify(t)
    PROVE  /\ RacesInv' /\ trades' = trades /\ DOMAIN orders' = DOMAIN orders
           /\ \A n \in DOMAIN orders : orders'[n].order_status = orders[n].order_status
<1> DEFINE id == Head(local[t].queue)
           old == local[t].loaded[id]
           row == local[t].row
           written == Written(orders[id], old, row)
<1>1. TablePart /\ ThreadPart /\ local[t] \in LocalRecords /\ local[t].step \in HasOrder
      /\ local[t].step \in HasRow /\ local[t].step = "modify" /\ Fits(local[t], Len(orders))
  BY DEF RacesInv, ThreadPart, Modify, At, HasOrder, HasRow
<1>2. id \in DOMAIN orders /\ old \in OrderRows /\ orders[id] \in OrderRows
  BY <1>1, InHand
<1>3. row \in OrderRows /\ row.order_status = old.order_status
  BY <1>1 DEF Fits
<1>4. written \in OrderRows /\ written.order_status = orders[id].order_status
  <2> HIDE DEF row, old
  <2> QED BY <1>2, <1>3, OrderWritten
<1>5. orders' = [orders EXCEPT ![id] = written] /\ local' = [local EXCEPT ![t] = Idle]
      /\ UNCHANGED <<trades, position, funds, crashes>>
  BY DEF Modify
<1> HIDE DEF id, written
<1>6. /\ orders \in Seq(OrderRows) /\ orders' \in Seq(OrderRows) /\ DOMAIN orders' = DOMAIN orders
      /\ \A n \in DOMAIN orders : orders'[n] = IF n = id THEN written ELSE orders[n]
  BY <1>1, <1>2, <1>4, <1>5, RowReplaced DEF TablePart
<1>7. Len(orders) \in Nat /\ Len(orders') \in Nat /\ Len(orders') = Len(orders)
  BY <1>6, LenProperties
<1>8. TablePart'
  BY <1>1, <1>5, <1>6, <1>7 DEF TablePart
<1>9. Fits(Idle, Len(orders')) /\ Len(orders) <= Len(orders')
  BY <1>7, IdleFits
<1>10. ThreadPart'
  BY <1>1, <1>5, <1>7, <1>9, ThreadChanges
<1> QED BY <1>4, <1>5, <1>6, <1>8, <1>10 DEF RacesInv

-----------------------------------------------------------------------------
(* Executing. *)

\* The orders a batch lists, in whatever order, are orders of the table.
LEMMA ListedFits ==
    ASSUME NEW count \in Nat, NEW ids \in SUBSET (1 .. count), ids # {}, NEW listed \in SetToSeqs(ids)
    PROVE  listed \in Seq(Nat) /\ listed # <<>> /\ \A n \in DOMAIN listed : listed[n] \in 1 .. count
<1>1. IsFiniteSet(ids)
  <2>1. IsFiniteSet(1 .. count)
    BY FS_Interval
  <2> QED BY <2>1, FS_Subset
<1>2. Cardinality(ids) \in Nat
  BY <1>1, FS_CardinalityType
<1>3. Cardinality(ids) # 0
  BY <1>1, FS_EmptySet
<1> DEFINE c == Cardinality(ids)
<1>4. listed \in [1 .. c -> ids]
  BY DEF SetToSeqs
<1>5. c \in Nat /\ c # 0
  BY <1>2, <1>3
<1> HIDE DEF c
<1>6. \A n \in 1 .. c : listed[n] \in 1 .. count /\ listed[n] \in Nat
  <2> TAKE n \in 1 .. c
  <2>1. listed[n] \in ids
    BY <1>4
  <2>2. listed[n] \in 1 .. count
    BY <2>1
  <2> QED BY <2>2
<1>7. listed \in [1 .. c -> Nat]
  BY <1>4, <1>6
<1>8. listed \in Seq(Nat) /\ DOMAIN listed = 1 .. c
  BY <1>5, <1>7
<1>9. listed # <<>>
  BY <1>5, <1>8
<1> QED BY <1>6, <1>8, <1>9

LEMMA ListKeeps ==
    ASSUME RacesInv, NEW t \in Threads, NEW ids \in SUBSET DOMAIN orders, NEW quotes \in SUBSET Int,
           List(t, ids, quotes)
    PROVE  RacesInv'
<1>1. PICK ltp \in quotes, listed \in SetToSeqs(ids) :
        local' = [local EXCEPT ![t] =
            [Idle EXCEPT !.step = "check", !.queue = listed,
                         !.loaded = [id \in ids |-> orders[id]], !.quote = ltp]]
  BY DEF List
<1>2. orders \in Seq(OrderRows) /\ Len(orders) \in Nat /\ DOMAIN orders = 1 .. Len(orders)
  BY LenProperties DEF RacesInv, TablePart
<1>3. ids # {} /\ ids \in SUBSET Nat /\ UNCHANGED <<book, crashes>> /\ ltp \in Int
  BY <1>2, PriceIsInt DEF List
<1>4. listed \in Seq(Nat) /\ listed # <<>> /\ \A n \in DOMAIN listed : listed[n] \in 1 .. Len(orders)
  BY <1>2, <1>3, ListedFits
<1> DEFINE held == [id \in ids |-> orders[id]]
           l == [Idle EXCEPT !.step = "check", !.queue = listed, !.loaded = held, !.quote = ltp]
<1>5. held \in Loads
  <2>1. held \in [ids -> OrderRows]
    BY <1>2, ElementOfSeq
  <2> HIDE DEF held
  <2> QED BY <1>3, <2>1, LoadsHold
<1>6. local' = [local EXCEPT ![t] = l]
  BY <1>1
<1> HIDE DEF held
<1>7. l \in LocalRecords /\ l.step = "check" /\ l.queue = listed
  BY <1>3, <1>4, <1>5, IdleFits DEF LocalRecords, Steps
<1> HIDE DEF l
<1>8. Fits(l, Len(orders))
  BY <1>4, <1>7 DEF Fits, HasRow
<1> QED BY <1>3, <1>6, <1>8, TablesStay

LEMMA ListingKeeps ==
    ASSUME RacesInv, NEW t \in Threads, Poll(t) \/ Tick(t)
    PROVE  RacesInv'
<1>1. CASE Poll(t)
  <2>1. OpenOrders \in SUBSET DOMAIN orders /\ Polled \in SUBSET Int
    BY PriceIsInt DEF OpenOrders, Polled
  <2> QED BY <1>1, <2>1, ListKeeps DEF Poll
<1>2. CASE Tick(t)
  <2>1. PICK id \in OpenOrders : List(t, {id}, Prices)
    BY <1>2 DEF Tick
  <2>2. {id} \in SUBSET DOMAIN orders /\ Prices \in SUBSET Int
    BY PriceIsInt DEF OpenOrders
  <2> QED BY <2>1, <2>2, ListKeeps
<1> QED BY <1>1, <1>2

\* A step that leaves the tables alone and goes on with the batch.
LEMMA BatchGoesOn ==
    ASSUME RacesInv, NEW t \in Threads, local[t].step \in HasOrder, NEW loaded \in Loads,
           Proceed(t, loaded), UNCHANGED <<book, crashes>>
    PROVE  RacesInv'
<1>1. UNCHANGED <<orders, trades, position, funds, crashes>>
  BY DEF book
<1>2. TablePart'
  BY <1>1 DEF RacesInv, TablePart
<1>3. ThreadPart'
  BY <1>1, ProceedFits
<1> QED BY <1>2, <1>3 DEF RacesInv

\* A status is written and the batch goes on.
LEMMA StatusAndBatch ==
    ASSUME RacesInv, NEW t \in Threads, local[t].step \in HasOrder, NEW loaded \in Loads,
           Proceed(t, loaded), NEW s \in OrderStatus,
           orders' = [orders EXCEPT ![Head(local[t].queue)].order_status = s],
           UNCHANGED <<trades, position, funds, crashes>>
    PROVE  RacesInv'
<1> DEFINE id == Head(local[t].queue)
<1>1. id \in DOMAIN orders
  BY InHand
<1>2. TablePart
  BY DEF RacesInv
<1>3. orders' = [orders EXCEPT ![id].order_status = s]
  OBVIOUS
<1> HIDE DEF id
<1>4. orders' \in Seq(OrderRows) /\ Len(orders') = Len(orders)
  BY <1>1, <1>2, <1>3, StatusWritten
<1>5. TablePart'
  BY <1>2, <1>4 DEF TablePart
<1>6. ThreadPart'
  BY <1>4, ProceedFits
<1> QED BY <1>5, <1>6 DEF RacesInv

LEMMA SkipTradedKeeps ==
    ASSUME RacesInv, NEW t \in Threads, SkipTraded(t)
    PROVE  RacesInv'
<1>1. local[t].step \in HasOrder /\ local[t].loaded \in Loads
  BY DEF RacesInv, ThreadPart, LocalRecords, SkipTraded, At, HasOrder
<1> DEFINE repairs == Loaded(t, Head(local[t].queue)).order_status = "open"
<1>2. CASE repairs
  <2>1. /\ orders' = [orders EXCEPT ![Head(local[t].queue)].order_status = "complete"]
        /\ Proceed(t, <<>>) /\ UNCHANGED <<trades, position, funds, crashes>>
    BY <1>2 DEF SkipTraded
  <2> QED BY <1>1, <2>1, NothingLoaded, StatusAndBatch DEF OrderStatus
<1>3. CASE ~repairs
  <2>1. orders' = orders /\ Proceed(t, local[t].loaded) /\ UNCHANGED <<trades, position, funds, crashes>>
    BY <1>3 DEF SkipTraded
  <2> QED BY <1>1, <2>1, BatchGoesOn DEF book
<1> QED BY <1>2, <1>3

LEMMA LeaveRestingKeeps ==
    ASSUME RacesInv, NEW t \in Threads, LeaveResting(t)
    PROVE  RacesInv'
<1>1. local[t].step \in HasOrder /\ local[t].loaded \in Loads
  BY DEF RacesInv, ThreadPart, LocalRecords, LeaveResting, At, HasOrder
<1> QED BY <1>1, BatchGoesOn DEF LeaveResting

LEMMA DecideKeeps ==
    ASSUME RacesInv, NEW t \in Threads, Decide(t)
    PROVE  RacesInv'
<1> DEFINE id == Head(local[t].queue)
           row == Loaded(t, id)
           held == Holding(local[t].loaded, id, row)
<1>1. /\ local[t].step = "check" /\ local[t].step \in HasOrder
      /\ local[t] \in LocalRecords /\ local[t].loaded \in Loads /\ local[t].quote \in Int
  BY DEF RacesInv, ThreadPart, LocalRecords, Decide, At, HasOrder
<1>2. id \in DOMAIN orders /\ id \in Nat
  BY <1>1, InHand
<1>3. row \in OrderRows
  <2> HIDE DEF id
  <2> QED BY <1>2, LoadedTyped
<1>4. PICK price \in Prices \cup {row.price, local[t].quote} :
         local' = [local EXCEPT ![t].step = "fill", ![t].price = price, ![t].loaded = Holding(@, id, row)]
  BY DEF Decide
<1>5. price \in Int
  <2>1. row.price \in Int
    BY <1>3 DEF OrderRows
  <2> QED BY <1>1, <2>1, PriceIsInt
<1> HIDE DEF id, row
<1>6. held \in Loads /\ id \in DOMAIN held
  BY <1>1, <1>2, <1>3, HoldingRows
<1> DEFINE l == [local[t] EXCEPT !.step = "fill", !.price = price, !.loaded = held]
<1>7. local' = [local EXCEPT ![t] = l]
  <2>1. local \in [Threads -> LocalRecords]
    BY DEF RacesInv, ThreadPart
  <2> QED BY <1>4, <2>1
<1> HIDE DEF held
<1>8. l \in LocalRecords /\ l.step = "fill" /\ l.queue = local[t].queue /\ l.loaded = held
  BY <1>1, <1>5, <1>6 DEF LocalRecords, Steps
<1> HIDE DEF l
<1>9. Head(l.queue) \in DOMAIN l.loaded
  BY <1>6, <1>8 DEF id
<1>10. Fits(local[t], Len(orders))
  BY DEF RacesInv, ThreadPart
<1>11. Fits(l, Len(orders))
  BY <1>1, <1>8, <1>9, <1>10 DEF Fits
<1>12. UNCHANGED <<book, crashes>>
  BY DEF Decide
<1> QED BY <1>7, <1>11, <1>12, TablesStay

\* The trade of a fill is one of an order of the table, which is complete with it.
LEMMA FillKeeps ==
    ASSUME RacesInv, NEW t \in Threads, Fill(t)
    PROVE  /\ RacesInv'
           /\ \E id \in DOMAIN orders, trade \in Trade :
                 /\ trade.orderid = id /\ trades' = Append(trades, trade)
                 /\ orders' = [orders EXCEPT ![id].order_status = "complete"]
<1> DEFINE id == Head(local[t].queue)
           row == local[t].loaded[id]
           trade == [orderid |-> id, quantity |-> Signed(row.action, row.quantity), price |-> local[t].price]
           l == [local[t] EXCEPT !.step = "net", !.loaded = <<>>]
<1>1. /\ local[t].step \in HasOrder /\ local[t].step \in HasRow /\ local[t] \in LocalRecords
      /\ TablePart /\ local[t].price \in Int
  BY DEF RacesInv, ThreadPart, LocalRecords, Fill, At, HasOrder, HasRow
<1>2. id \in DOMAIN orders /\ id \in Nat /\ id \in 1 .. Len(orders) /\ Len(orders) \in Nat /\ row \in OrderRows
  BY <1>1, InHand
<1>3. trade \in Trade /\ trade.orderid = id
  <2> HIDE DEF row, id
  <2>1. Signed(row.action, row.quantity) \in Int
    BY <1>2 DEF OrderRows, Signed
  <2> QED BY <1>1, <1>2, <2>1 DEF Trade
<1>4. /\ trades' = Append(trades, trade) /\ orders' = [orders EXCEPT ![id].order_status = "complete"]
      /\ local' = [local EXCEPT ![t].step = "net", ![t].loaded = <<>>]
      /\ UNCHANGED <<position, funds, crashes>>
  BY DEF Fill
<1> HIDE DEF trade
<1>5. l \in LocalRecords /\ l.step = "net" /\ l.queue = local[t].queue
  BY <1>1, NothingLoaded DEF LocalRecords, Steps
<1>6. local' = [local EXCEPT ![t] = l]
  BY <1>1, <1>4 DEF RacesInv, ThreadPart
<1> HIDE DEF l, id
<1>7. orders' \in Seq(OrderRows) /\ Len(orders') = Len(orders)
  BY <1>1, <1>2, <1>4, StatusWritten DEF OrderStatus
<1>8. trades' \in Seq(Trade) /\ \A n \in DOMAIN trades' : trades'[n].orderid \in 1 .. Len(orders)
  <2>1. trades \in Seq(Trade) /\ \A n \in DOMAIN trades : trades[n].orderid \in 1 .. Len(orders)
    BY <1>1 DEF TablePart
  <2>2. /\ Append(trades, trade) \in Seq(Trade)
        /\ \A n \in DOMAIN Append(trades, trade) :
              \/ n \in DOMAIN trades /\ Append(trades, trade)[n] = trades[n]
              \/ Append(trades, trade)[n] = trade
    <3>1. trades \in Seq(Trade) /\ trade \in Trade
      BY <1>3, <2>1
    <3> QED BY <3>1
  <2> QED BY <1>2, <1>3, <1>4, <2>1, <2>2
<1>9. TablePart'
  BY <1>1, <1>4, <1>7, <1>8 DEF TablePart
<1>10. ThreadPart'
  BY <1>1, <1>5, <1>6, <1>7, GoesOn DEF HasOrder, HasRow
<1> QED BY <1>2, <1>3, <1>4, <1>9, <1>10 DEF RacesInv

LEMMA ReadPositionKeeps ==
    ASSUME RacesInv, NEW t \in Threads, ReadPosition(t)
    PROVE  RacesInv'
<1> DEFINE id == Head(local[t].queue)
           held == Holding(<<>>, id, orders[id])
<1>1. /\ local[t].step = "net" /\ local[t].step \in HasOrder /\ local[t] \in LocalRecords
      /\ position \in Position
  BY DEF RacesInv, ThreadPart, TablePart, ReadPosition, At, HasOrder
<1>2. id \in Nat /\ orders[id] \in OrderRows
  BY <1>1, InHand
<1>3. held \in Loads /\ id \in DOMAIN held
  BY <1>2, NothingLoaded, HoldingRows
<1>4. PICK step \in {"release", "write"} :
        local' = [local EXCEPT ![t].step = step, ![t].held = position, ![t].loaded = held]
  BY DEF ReadPosition
<1> HIDE DEF held
<1> DEFINE l == [local[t] EXCEPT !.step = step, !.held = position, !.loaded = held]
<1>5. l \in LocalRecords /\ l.step = step /\ l.loaded = held /\ l.queue = local[t].queue
  BY <1>1, <1>3 DEF LocalRecords, Steps
<1>6. local' = [local EXCEPT ![t] = l]
  BY <1>4 DEF RacesInv, ThreadPart
<1> HIDE DEF l
<1>7. Fits(local[t], Len(orders))
  BY DEF RacesInv, ThreadPart
<1>8. Fits(l, Len(orders))
  BY <1>1, <1>3, <1>5, <1>7 DEF Fits, HasOrder
<1>9. UNCHANGED <<book, crashes>>
  BY DEF ReadPosition
<1> QED BY <1>6, <1>8, <1>9, TablesStay

\* What a fill closes, releases and earns are integers.
LEMMA ClosesTyped ==
    ASSUME RacesInv, NEW t \in Threads, local[t].step \in {"release", "write"}
    PROVE  /\ local[t].held \in Position /\ local[t].price \in Int
           /\ local[t].loaded[Head(local[t].queue)] \in OrderRows
           /\ Closes(t) \in Nat /\ Releases(t) \in Int
           /\ RealizedPnl(local[t].held, Closes(t), local[t].price) \in Int
<1> DEFINE row == local[t].loaded[Head(local[t].queue)]
           held == local[t].held
           closed == ClosedQuantity(held, row.action, row.quantity)
<1>1. held \in Position /\ local[t].price \in Int /\ local[t].step \in HasOrder /\ local[t].step \in HasRow
  BY DEF RacesInv, ThreadPart, LocalRecords, HasOrder, HasRow
<1>2. row \in OrderRows
  BY <1>1, InHand
<1> HIDE DEF row, held
<1>3. row.action \in {"BUY", "SELL"} /\ row.quantity \in Nat \ {0}
  BY <1>2 DEF OrderRows
<1>4. closed \in Nat /\ closed <= Magnitude(held.quantity)
  BY <1>1, <1>3, ClosedBounds
<1>5. closed # 0 => Magnitude(held.quantity) \in Nat \ {0}
  <2>1. Magnitude(held.quantity) \in Nat
    BY <1>1, MagnitudeFacts DEF Position
  <2> QED BY <1>4, <2>1
<1>6. Closes(t) = closed /\ Releases(t) = MarginToRelease(held, closed)
  BY DEF Closes, Releases, row, held
<1> HIDE DEF closed
<1>7. MarginToRelease(held, closed) \in Int /\ RealizedPnl(held, closed, local[t].price) \in Int
  BY <1>1, <1>4, <1>5, ReleaseTyped
<1> QED BY <1>1, <1>2, <1>4, <1>6, <1>7 DEF held, row

LEMMA ReleaseKeeps ==
    ASSUME RacesInv, NEW t \in Threads, Release(t)
    PROVE  RacesInv'
<1>1. /\ local[t].step = "release" /\ local[t].step \in HasOrder /\ local[t].step \in HasRow
      /\ local[t] \in LocalRecords /\ TablePart /\ Fits(local[t], Len(orders))
  BY DEF RacesInv, ThreadPart, Release, At, HasOrder, HasRow
<1>2. /\ local[t].held \in Position /\ local[t].price \in Int
      /\ Closes(t) \in Nat /\ Releases(t) \in Int
      /\ RealizedPnl(local[t].held, Closes(t), local[t].price) \in Int
  BY <1>1, ClosesTyped
<1>3. funds' = ReleaseMargin(funds, Releases(t), RealizedPnl(local[t].held, Closes(t), local[t].price))
  BY DEF Release
<1>4. funds' \in Funds
  <2>1. funds \in Funds
    BY <1>1 DEF TablePart
  <2> QED BY <1>2, <1>3, <2>1, FundsTyped
<1>5. position' \in Position
  <2>1. position \in Position
    BY <1>1 DEF TablePart
  <2> DEFINE realized == Realized(local[t].held, Closes(t), local[t].price)
  <2>2. realized \in Position
    BY <1>2, RealizedTyped
  <2>3. position' = position \/ position' = Written(position, local[t].held, realized)
    BY DEF Release
  <2> HIDE DEF realized
  <2> QED BY <1>2, <2>1, <2>2, <2>3, PositionWritten
<1>6. UNCHANGED <<orders, trades, crashes>> /\ local' = [local EXCEPT ![t].step = "write"]
  BY DEF Release
<1>7. TablePart'
  BY <1>1, <1>4, <1>5, <1>6 DEF TablePart
<1> DEFINE l == [local[t] EXCEPT !.step = "write"]
<1>8. l \in LocalRecords /\ l.step = "write" /\ l.queue = local[t].queue /\ l.loaded = local[t].loaded
  BY <1>1 DEF LocalRecords, Steps
<1>9. local' = [local EXCEPT ![t] = l]
  BY <1>6
<1> HIDE DEF l
<1>10. Head(l.queue) \in DOMAIN l.loaded
  BY <1>1, <1>8 DEF Fits
<1>11. ThreadPart'
  BY <1>1, <1>6, <1>8, <1>9, <1>10, GoesOn DEF HasOrder
<1> QED BY <1>7, <1>11 DEF RacesInv

\* A row whose quantity, margin and profit are written is a row.
LEMMA ColumnsWritten ==
    ASSUME NEW p \in Position, NEW q \in Int, NEW m \in Int, NEW earned \in Int, NEW today \in Int
    PROVE  [p EXCEPT !.quantity = q, !.margin_blocked = m, !.accumulated_realized_pnl = earned,
                     !.today_realized_pnl = today] \in Position
BY DEF Position

\* What a thread commits is a position row.
LEMMA CommittedTyped ==
    ASSUME RacesInv, NEW t \in Threads, local[t].step = "write"
    PROVE  Committed(t) \in Position
<1> DEFINE row == local[t].loaded[Head(local[t].queue)]
           held == local[t].held
           netted == Netted(held, row, local[t].price)
           pnl == RealizedPnl(held, Closes(t), local[t].price)
<1>1. held \in Position /\ row \in OrderRows /\ local[t].price \in Int /\ pnl \in Int /\ position \in Position
  BY ClosesTyped DEF RacesInv, TablePart
<1>2. netted \in Position
  <2> HIDE DEF row, held
  <2>1. row.action \in {"BUY", "SELL"} /\ row.quantity \in Nat \ {0} /\ row.margin_blocked \in Int
    BY <1>1 DEF OrderRows
  <2> QED BY <1>1, <2>1, NettedTyped
<1> DEFINE earned == position.accumulated_realized_pnl + pnl
           today == position.today_realized_pnl + pnl
           closedRow == [position EXCEPT !.quantity = 0, !.margin_blocked = 0,
                                         !.accumulated_realized_pnl = earned,
                                         !.today_realized_pnl = today]
           reducedRow == [position EXCEPT !.quantity = netted.quantity,
                                          !.margin_blocked = netted.margin_blocked,
                                          !.average_price = IF row.quantity > Closes(t) THEN netted.average_price
                                                                                        ELSE @]
<1>3. Committed(t) \in {Written(position, held, netted), closedRow, reducedRow}
  BY DEF Committed
<1> HIDE DEF held, netted, pnl
<1>4. Written(position, held, netted) \in Position
  BY <1>1, <1>2, PositionWritten
<1>5. closedRow \in Position
  <2>1. earned \in Int /\ today \in Int
    BY <1>1 DEF Position
  <2> HIDE DEF earned, today
  <2>2. 0 \in Int /\ position \in Position
    BY <1>1
  <2> QED BY <2>1, <2>2, ColumnsWritten
<1>6. reducedRow \in Position
  BY <1>1, <1>2 DEF Position
<1> HIDE DEF closedRow, reducedRow
<1> QED BY <1>3, <1>4, <1>5, <1>6

LEMMA WritePositionKeeps ==
    ASSUME RacesInv, NEW t \in Threads, WritePosition(t)
    PROVE  RacesInv'
<1>1. /\ local[t].step = "write" /\ local[t].step \in HasOrder /\ local[t] \in LocalRecords
      /\ local[t].queue \in Seq(Nat) /\ local[t].quote \in Int /\ TablePart
  BY DEF RacesInv, ThreadPart, LocalRecords, WritePosition, At, HasOrder
<1> DEFINE l == [Idle EXCEPT !.step = "validate", !.queue = local[t].queue, !.quote = local[t].quote]
<1>2. l \in LocalRecords /\ l.step = "validate" /\ l.queue = local[t].queue
  BY <1>1, IdleFits DEF LocalRecords, Steps
<1>3. /\ position' = Committed(t) /\ local' = [local EXCEPT ![t] = l]
      /\ UNCHANGED <<orders, trades, funds, crashes>>
  BY DEF WritePosition
<1> HIDE DEF l
<1>4. TablePart'
  BY <1>1, <1>3, CommittedTyped DEF TablePart
<1>5. ThreadPart'
  BY <1>1, <1>2, <1>3, GoesOn DEF HasOrder, HasRow
<1> QED BY <1>4, <1>5 DEF RacesInv

LEMMA LoseInsertKeeps ==
    ASSUME RacesInv, NEW t \in Threads, LoseInsert(t)
    PROVE  RacesInv'
<1>1. local[t].step \in HasOrder
  BY DEF LoseInsert, At, HasOrder
<1> QED BY <1>1, NothingLoaded, StatusAndBatch DEF LoseInsert, OrderStatus

LEMMA ValidateKeeps ==
    ASSUME RacesInv, NEW t \in Threads, Validate(t)
    PROVE  RacesInv'
<1>1. local[t].step \in HasOrder /\ local[t] \in LocalRecords /\ position \in Position
  BY DEF RacesInv, ThreadPart, TablePart, Validate, At, HasOrder
<1> DEFINE m == IF position.quantity = 0 THEN 0 ELSE position.margin_blocked
<1>2. m \in Int
  BY <1>1 DEF Position
<1>3. local' = [local EXCEPT ![t].step = "reconcile", ![t].margin = m]
  BY DEF Validate
<1> HIDE DEF m
<1> DEFINE l == [local[t] EXCEPT !.step = "reconcile", !.margin = m]
<1>4. l \in LocalRecords /\ l.step = "reconcile" /\ l.queue = local[t].queue
  BY <1>1, <1>2 DEF LocalRecords, Steps
<1>5. local' = [local EXCEPT ![t] = l]
  BY <1>3 DEF RacesInv, ThreadPart
<1> HIDE DEF l
<1>6. Fits(local[t], Len(orders))
  BY DEF RacesInv, ThreadPart
<1>7. Fits(l, Len(orders))
  BY <1>1, <1>4, <1>6 DEF Fits, HasOrder, HasRow
<1>8. UNCHANGED <<book, crashes>>
  BY DEF Validate
<1> QED BY <1>5, <1>7, <1>8, TablesStay

LEMMA ReconcileKeeps ==
    ASSUME RacesInv, NEW t \in Threads, Reconcile(t)
    PROVE  RacesInv'
<1>1. local[t].step \in HasOrder /\ local[t] \in LocalRecords /\ funds \in Funds
  BY DEF RacesInv, ThreadPart, TablePart, Reconcile, At, HasOrder
<1>2. UNCHANGED <<book, crashes>>
  BY DEF Reconcile
<1>3. CASE funds.used_margin = local[t].margin
  <2>1. Proceed(t, <<>>)
    BY <1>3 DEF Reconcile
  <2> QED BY <1>1, <1>2, <2>1, NothingLoaded, BatchGoesOn
<1>4. CASE funds.used_margin # local[t].margin
  <2> DEFINE l == [local[t] EXCEPT !.step = "reconcile_write", !.seen = funds]
  <2>1. l \in LocalRecords /\ l.step = "reconcile_write" /\ l.queue = local[t].queue
    BY <1>1 DEF LocalRecords, Steps
  <2>2. local' = [local EXCEPT ![t].step = "reconcile_write", ![t].seen = funds]
    BY <1>4 DEF Reconcile
  <2>3. local' = [local EXCEPT ![t] = l]
    BY <2>2 DEF RacesInv, ThreadPart
  <2> HIDE DEF l
  <2>4. Fits(local[t], Len(orders))
    BY DEF RacesInv, ThreadPart
  <2>5. Fits(l, Len(orders))
    BY <1>1, <2>1, <2>4 DEF Fits, HasOrder, HasRow
  <2> QED BY <1>2, <2>3, <2>5, TablesStay
<1> QED BY <1>3, <1>4

LEMMA ReconcileWriteKeeps ==
    ASSUME RacesInv, NEW t \in Threads, ReconcileWrite(t)
    PROVE  RacesInv'
<1> DEFINE fixed == ReconcileMargin(local[t].seen, local[t].margin)
<1>1. /\ local[t].step \in HasOrder /\ local[t].seen \in Funds /\ local[t].margin \in Int
      /\ TablePart /\ funds \in Funds
  BY DEF RacesInv, ThreadPart, TablePart, LocalRecords, ReconcileWrite, At, HasOrder
<1>2. fixed \in Funds
  BY <1>1, FundsTyped
<1> HIDE DEF fixed
<1>3. fixed.available_balance \in Int /\ fixed.used_margin \in Int
  BY <1>2 DEF Funds
<1>4. /\ funds' = [funds EXCEPT !.available_balance = fixed.available_balance,
                                !.used_margin = fixed.used_margin]
      /\ Proceed(t, <<>>) /\ UNCHANGED <<orders, trades, position, crashes>>
  BY DEF ReconcileWrite, fixed
<1>5. funds' \in Funds
  BY <1>1, <1>3, <1>4 DEF Funds
<1>6. TablePart'
  BY <1>1, <1>4, <1>5 DEF TablePart
<1>7. ThreadPart'
  BY <1>1, <1>4, NothingLoaded, ProceedFits
<1> QED BY <1>6, <1>7 DEF RacesInv

\* A crash leaves what was committed, and nobody at work.
LEMMA CrashKeeps ==
    ASSUME RacesInv, Crash
    PROVE  RacesInv'
<1>1. TablePart /\ Len(orders) \in Nat
  BY LenProperties DEF RacesInv, TablePart
<1>2. /\ crashes < MaxCrashes /\ crashes' = crashes + 1
      /\ local' = [t \in Threads |-> Idle] /\ UNCHANGED <<orders, trades, position, funds>>
  BY DEF Crash, book
<1>3. crashes' \in 0 .. MaxCrashes
  BY <1>1, <1>2, RacesAssumption DEF TablePart
<1>4. TablePart'
  BY <1>1, <1>2, <1>3 DEF TablePart
<1>5. local' \in [Threads -> LocalRecords] /\ \A t \in Threads : local'[t] = Idle
  BY <1>2, IdleFits
<1>6. ThreadPart'
  <2> SUFFICES ASSUME NEW t \in Threads PROVE Fits(local[t], Len(orders))'
    BY <1>5 DEF ThreadPart
  <2>1. Fits(local'[t], Len(orders))
    BY <1>1, <1>5, IdleFits
  <2>2. Fits(local'[t], Len(orders'))
    BY <1>2, <2>1
  <2> QED BY <2>2 DEF Fits
<1> QED BY <1>4, <1>6 DEF RacesInv

-----------------------------------------------------------------------------
(* The system. *)

\* Everything but whether there are quotes.
records == <<orders, trades, position, funds, local, crashes>>

\* What a step of the system is.  That quotes are lost or come back, by itself,
\* changes nothing else.
LEMMA NextSteps ==
    ASSUME [Next]_vars
    PROVE  \/ \E t \in Threads : Continue(t)
           \/ \E t \in Pollers : Poll(t)
           \/ \E t \in Tickers : Tick(t)
           \/ \E t \in Users : Place(t) \/ StartCancel(t) \/ StartModify(t)
           \/ Crash
           \/ UNCHANGED records
<1>1. CASE Outage
  BY <1>1 DEF Outage, records, book
<1>2. CASE UNCHANGED vars
  BY <1>2 DEF vars, records
<1> QED BY <1>1, <1>2 DEF Next

\* What a thread that has begun something does next.
LEMMA ContinueKeeps ==
    ASSUME RacesInv, NEW t \in Threads, Continue(t)
    PROVE  RacesInv'
<1>1. CASE Block(t)
  BY <1>1, BlockKeeps
<1>2. CASE Insert(t)
  BY <1>2, InsertKeeps
<1>3. CASE Load(t)
  BY <1>3, LoadKeeps
<1>4. CASE Cancel(t)
  BY <1>4, CancelKeeps
<1>5. CASE Modify(t)
  BY <1>5, ModifyKeeps
<1>6. CASE SkipTraded(t)
  BY <1>6, SkipTradedKeeps
<1>7. CASE LeaveResting(t)
  BY <1>7, LeaveRestingKeeps
<1>8. CASE Decide(t)
  BY <1>8, DecideKeeps
<1>9. CASE Fill(t)
  BY <1>9, FillKeeps
<1>10. CASE ReadPosition(t)
  BY <1>10, ReadPositionKeeps
<1>11. CASE Release(t)
  BY <1>11, ReleaseKeeps
<1>12. CASE WritePosition(t)
  BY <1>12, WritePositionKeeps
<1>13. CASE LoseInsert(t)
  BY <1>13, LoseInsertKeeps
<1>14. CASE Validate(t)
  BY <1>14, ValidateKeeps
<1>15. CASE Reconcile(t)
  BY <1>15, ReconcileKeeps
<1>16. CASE ReconcileWrite(t)
  BY <1>16, ReconcileWriteKeeps
<1> QED BY <1>1, <1>2, <1>3, <1>4, <1>5, <1>6, <1>7, <1>8, <1>9, <1>10, <1>11, <1>12, <1>13,
           <1>14, <1>15, <1>16 DEF Continue

LEMMA RacesNext == RacesInv /\ [Next]_vars => RacesInv'
<1> SUFFICES ASSUME RacesInv, [Next]_vars PROVE RacesInv'
  OBVIOUS
<1>1. ASSUME NEW t \in Threads, Continue(t) PROVE RacesInv'
  BY <1>1, ContinueKeeps
<1>2. ASSUME NEW t \in Pollers, Poll(t) PROVE RacesInv'
  BY <1>2, ListingKeeps DEF Threads, Engines
<1>3. ASSUME NEW t \in Tickers, Tick(t) PROVE RacesInv'
  BY <1>3, ListingKeeps DEF Threads, Engines
<1>4. ASSUME NEW t \in Users, Place(t) PROVE RacesInv'
  BY <1>4, PlaceKeeps DEF Threads
<1>5. ASSUME NEW t \in Users, StartCancel(t) PROVE RacesInv'
  BY <1>5, StartCancelKeeps DEF Threads
<1>6. ASSUME NEW t \in Users, StartModify(t) PROVE RacesInv'
  BY <1>6, StartModifyKeeps DEF Threads
<1>7. CASE Crash
  BY <1>7, CrashKeeps
<1>8. CASE UNCHANGED records
  <2>1. UNCHANGED <<orders, trades, position, funds, local, crashes>>
    BY <1>8 DEF records
  <2>2. TablePart' /\ ThreadPart'
    BY <2>1 DEF RacesInv, TablePart, ThreadPart, Fits
  <2> QED BY <2>2 DEF RacesInv
<1> QED BY <1>1, <1>2, <1>3, <1>4, <1>5, <1>6, <1>7, <1>8, NextSteps

LEMMA RacesInvariant == Spec => []RacesInv
BY RacesInit, RacesNext, PTL DEF Spec

-----------------------------------------------------------------------------
(* What the tables promise. *)

TableTypes ==
    /\ \A id \in DOMAIN orders : IsOrder(orders[id])
    /\ \A n \in DOMAIN trades : trades[n].orderid \in DOMAIN orders
    /\ position \in Position
    /\ funds \in Funds
    /\ \A t \in Threads :
          /\ local[t].step \in Steps
          /\ \A id \in DOMAIN local[t].loaded : IsOrder(local[t].loaded[id])
    /\ crashes \in 0..MaxCrashes

\* Quotes are there or they are not.
LEMMA QuotedTyped == Spec => [](quoted \in BOOLEAN)
<1> DEFINE Typed == quoted \in BOOLEAN
<1>1. Init => Typed
  BY DEF Init
<1>2. ASSUME Typed, [Next]_vars PROVE Typed'
  <2>1. CASE Outage
    <3>1. quoted' = ~quoted
      BY <2>1 DEF Outage
    <3> QED BY <3>1, Zenon
  <2>2. ASSUME NEW t \in Threads, Continue(t) PROVE quoted' = quoted
    <3>1. CASE Block(t) \/ Insert(t) \/ Load(t) \/ Cancel(t) \/ Modify(t)
      BY <3>1 DEF Block, Insert, Load, Cancel, Modify
    <3>2. CASE SkipTraded(t) \/ LeaveResting(t) \/ Decide(t) \/ Fill(t) \/ ReadPosition(t)
      BY <3>2 DEF SkipTraded, LeaveResting, Decide, Fill, ReadPosition
    <3>3. CASE Release(t) \/ WritePosition(t) \/ LoseInsert(t)
      BY <3>3 DEF Release, WritePosition, LoseInsert
    <3>4. CASE Validate(t) \/ Reconcile(t) \/ ReconcileWrite(t)
      BY <3>4 DEF Validate, Reconcile, ReconcileWrite
    <3> QED BY <2>2, <3>1, <3>2, <3>3, <3>4 DEF Continue
  <2>3. CASE \E t \in Threads : Continue(t)
    BY <1>2, <2>2, <2>3
  <2>4. CASE (\E t \in Pollers : Poll(t)) \/ (\E t \in Tickers : Tick(t)) \/ Crash
    <3>1. quoted' = quoted
      BY <2>4 DEF Poll, Tick, List, Crash
    <3> QED BY <1>2, <3>1
  <2>5. CASE \E t \in Users : Place(t) \/ StartCancel(t) \/ StartModify(t)
    <3>1. quoted' = quoted
      BY <2>5 DEF Place, StartCancel, StartModify
    <3> QED BY <1>2, <3>1
  <2>6. CASE UNCHANGED vars
    <3>1. quoted' = quoted
      BY <2>6 DEF vars
    <3> QED BY <1>2, <3>1
  <2> QED BY <1>2, <2>1, <2>3, <2>4, <2>5, <2>6 DEF Next
<1> QED BY <1>1, <1>2, PTL DEF Spec

\* The rows of the orders, of the trades, of the position and of the funds are
\* what the tables may hold, and so are the copies the sessions keep, whatever
\* threads write in between: no column that one thread writes on a row another
\* has loaded makes a row the table cannot hold.
THEOREM RacesTypes == Spec => []TypeOK
<1>1. ASSUME RacesInv PROVE TableTypes
  <2>1. ASSUME NEW o \in OrderRows PROVE IsOrder(o)
    BY DEF IsOrder, OrderRows
  <2>2. \A id \in DOMAIN orders : IsOrder(orders[id])
    <3>1. orders \in Seq(OrderRows)
      BY <1>1 DEF RacesInv, TablePart
    <3>2. \A id \in DOMAIN orders : orders[id] \in OrderRows
      BY <3>1, ElementOfSeq, LenProperties
    <3> QED BY <2>1, <3>2
  <2>3. \A n \in DOMAIN trades : trades[n].orderid \in DOMAIN orders
    BY <1>1, LenProperties DEF RacesInv, TablePart
  <2>4. ASSUME NEW t \in Threads
        PROVE  local[t].step \in Steps /\ \A id \in DOMAIN local[t].loaded : IsOrder(local[t].loaded[id])
    <3>1. local[t].step \in Steps /\ local[t].loaded \in Loads
      BY <1>1 DEF RacesInv, ThreadPart, LocalRecords
    <3>2. \A id \in DOMAIN local[t].loaded : local[t].loaded[id] \in OrderRows
      BY <3>1, LoadsAreRows
    <3> QED BY <2>1, <3>1, <3>2
  <2>5. position \in Position /\ funds \in Funds /\ crashes \in 0..MaxCrashes
    BY <1>1 DEF RacesInv, TablePart
  <2> QED BY <2>2, <2>3, <2>4, <2>5 DEF TableTypes
<1>2. RacesInv /\ quoted \in BOOLEAN => TypeOK
  BY <1>1 DEF TableTypes, TypeOK
<1> QED BY <1>2, RacesInvariant, QuotedTyped, PTL

\* No order becomes open, and what trades is not open.
LEMMA NothingReopens ==
    ASSUME RacesInv, TradedOrderIsNotOpen,
           \A n \in DOMAIN orders : orders'[n].order_status = "open" => orders[n].order_status = "open",
           \A n \in DOMAIN trades' : \/ n \in DOMAIN trades /\ trades'[n] = trades[n]
                                     \/ orders'[trades'[n].orderid].order_status # "open"
    PROVE  TradedOrderIsNotOpen'
<1>1. \A n \in DOMAIN trades : trades[n].orderid \in DOMAIN orders
  BY LenProperties DEF RacesInv, TablePart
<1> QED BY <1>1 DEF TradedOrderIsNotOpen

LEMMA StatusCloses ==
    ASSUME RacesInv, TradedOrderIsNotOpen, NEW id \in DOMAIN orders, NEW s \in OrderStatus \ {"open"},
           orders' = [orders EXCEPT ![id].order_status = s], trades' = trades
    PROVE  TradedOrderIsNotOpen'
<1>1. /\ \A n \in DOMAIN orders : n # id => orders'[n] = orders[n]
      /\ orders'[id].order_status = s
  BY StatusWritten DEF RacesInv
<1>2. \A n \in DOMAIN orders : orders'[n].order_status = "open" => orders[n].order_status = "open"
  BY <1>1
<1> QED BY <1>2, NothingReopens

LEMMA CurrentCloses ==
    ASSUME RacesInv, TradedOrderIsNotOpen, NEW t \in Threads, local[t].step \in HasOrder,
           NEW s \in OrderStatus \ {"open"}, trades' = trades,
           orders' = [orders EXCEPT ![Head(local[t].queue)].order_status = s]
    PROVE  TradedOrderIsNotOpen'
<1> DEFINE id == Head(local[t].queue)
<1>1. id \in DOMAIN orders
  BY InHand
<1>2. orders' = [orders EXCEPT ![id].order_status = s]
  OBVIOUS
<1> HIDE DEF id
<1> QED BY <1>1, <1>2, StatusCloses

LEMMA ContinueReopensNothing ==
    ASSUME RacesInv, TradedOrderIsNotOpen, NEW t \in Threads, Continue(t)
    PROVE  TradedOrderIsNotOpen'
<1>1. CASE UNCHANGED <<orders, trades>>
  BY <1>1 DEF TradedOrderIsNotOpen
<1>2. CASE Insert(t)
  <2>1. PICK row \in OrderRows : orders' = Append(orders, row)
    BY <1>2, InsertKeeps
  <2>2. orders \in Seq(OrderRows) /\ trades' = trades
    BY <1>2 DEF RacesInv, TablePart, Insert
  <2>3. \A n \in DOMAIN orders : orders'[n] = orders[n]
    BY <2>1, <2>2, RowAppended
  <2> QED BY <2>2, <2>3, NothingReopens
<1>3. CASE Cancel(t)
  <2>1. local[t].step \in HasOrder
    BY <1>3 DEF Cancel, At, HasOrder
  <2>2. /\ orders' = [orders EXCEPT ![Head(local[t].queue)].order_status = "cancelled"]
        /\ trades' = trades
    BY <1>3 DEF Cancel
  <2>3. "cancelled" \in OrderStatus \ {"open"}
    BY DEF OrderStatus
  <2> QED BY <2>1, <2>2, <2>3, CurrentCloses
<1>4. CASE Modify(t)
  <2>1. trades' = trades /\ \A n \in DOMAIN orders : orders'[n].order_status = orders[n].order_status
    BY <1>4, ModifyKeeps
  <2> QED BY <2>1, NothingReopens
<1>5. CASE SkipTraded(t)
  <2>1. local[t].step \in HasOrder
    BY <1>5 DEF SkipTraded, At, HasOrder
  <2>2. CASE orders' = orders
    BY <1>1, <1>5, <2>2 DEF SkipTraded
  <2>3. CASE orders' = [orders EXCEPT ![Head(local[t].queue)].order_status = "complete"]
    <3>1. trades' = trades
      BY <1>5 DEF SkipTraded
    <3>2. "complete" \in OrderStatus \ {"open"}
      BY DEF OrderStatus
    <3> QED BY <2>1, <2>3, <3>1, <3>2, CurrentCloses
  <2>4. orders' \in {orders, [orders EXCEPT ![Head(local[t].queue)].order_status = "complete"]}
    BY <1>5 DEF SkipTraded
  <2> QED BY <2>2, <2>3, <2>4
<1>6. CASE LoseInsert(t)
  <2>1. local[t].step \in HasOrder
    BY <1>6 DEF LoseInsert, At, HasOrder
  <2>2. /\ orders' = [orders EXCEPT ![Head(local[t].queue)].order_status = "rejected"]
        /\ trades' = trades
    BY <1>6 DEF LoseInsert
  <2>3. "rejected" \in OrderStatus \ {"open"}
    BY DEF OrderStatus
  <2> QED BY <2>1, <2>2, <2>3, CurrentCloses
<1>7. CASE Fill(t)
  <2>1. PICK id \in DOMAIN orders, trade \in Trade :
           /\ trade.orderid = id /\ trades' = Append(trades, trade)
           /\ orders' = [orders EXCEPT ![id].order_status = "complete"]
    BY <1>7, FillKeeps
  <2>2. /\ \A n \in DOMAIN orders : n # id => orders'[n] = orders[n]
        /\ orders'[id].order_status = "complete"
    <3>1. "complete" \in OrderStatus /\ TablePart
      BY DEF RacesInv, OrderStatus
    <3> QED BY <2>1, <3>1, StatusWritten
  <2>3. \A n \in DOMAIN orders : orders'[n].order_status = "open" => orders[n].order_status = "open"
    BY <2>2
  <2>4. trades \in Seq(Trade)
    BY DEF RacesInv, TablePart
  <2>5. \A n \in DOMAIN trades' : \/ n \in DOMAIN trades /\ trades'[n] = trades[n]
                                  \/ trades'[n] = trade
    BY <2>1, <2>4
  <2>6. orders'[trade.orderid].order_status # "open"
    BY <2>1, <2>2
  <2>7. \A n \in DOMAIN trades' : \/ n \in DOMAIN trades /\ trades'[n] = trades[n]
                                  \/ orders'[trades'[n].orderid].order_status # "open"
    BY <2>5, <2>6
  <2> HIDE <2>1
  <2> QED BY <2>3, <2>7, NothingReopens
<1>8. CASE Block(t) \/ Load(t) \/ LeaveResting(t) \/ Decide(t) \/ ReadPosition(t)
  BY <1>1, <1>8 DEF Block, Load, LeaveResting, Decide, ReadPosition, book
<1>9. CASE Release(t) \/ WritePosition(t) \/ Validate(t) \/ Reconcile(t) \/ ReconcileWrite(t)
  BY <1>1, <1>9 DEF Release, WritePosition, Validate, Reconcile, ReconcileWrite, book
<1> QED BY <1>2, <1>3, <1>4, <1>5, <1>6, <1>7, <1>8, <1>9 DEF Continue

\* A traded order stays closed, however many engines race for it, whatever a
\* request wrote meanwhile from the row it had loaded, and across crashes: the
\* trade and the status are one commit, a cancellation writes another closed
\* status, and a modification writes only the columns it changed.
THEOREM TradedOrdersStayClosed == Spec => []TradedOrderIsNotOpen
<1>1. Init => TradedOrderIsNotOpen
  BY DEF Init, TradedOrderIsNotOpen
<1>2. ASSUME RacesInv, TradedOrderIsNotOpen, [Next]_vars PROVE TradedOrderIsNotOpen'
  <2>1. ASSUME NEW t \in Threads, Continue(t) PROVE TradedOrderIsNotOpen'
    BY <1>2, <2>1, ContinueReopensNothing
  <2>2. CASE UNCHANGED book
    BY <1>2, <2>2 DEF TradedOrderIsNotOpen, book
  <2>3. CASE UNCHANGED records
    BY <1>2, <2>3 DEF TradedOrderIsNotOpen, records
  <2>4. (\E t \in Pollers : Poll(t)) \/ (\E t \in Tickers : Tick(t)) => UNCHANGED book
    BY DEF Poll, Tick, List
  <2>5. (\E t \in Users : Place(t) \/ StartCancel(t) \/ StartModify(t)) => UNCHANGED book
    BY DEF Place, StartCancel, StartModify
  <2>6. Crash => UNCHANGED book
    BY DEF Crash
  <2> QED BY <1>2, <2>1, <2>2, <2>3, <2>4, <2>5, <2>6, NextSteps
<1> QED BY <1>1, <1>2, RacesInvariant, PTL DEF Spec

-----------------------------------------------------------------------------
(* The balance under two requests at once. *)

\* A thread's step leaves the other threads where they are.
LEMMA OthersStay ==
    ASSUME ThreadPart, NEW t \in Threads, NEW u \in Threads, u # t, Continue(u)
    PROVE  local'[t] = local[t]
<1>1. local \in [Threads -> LocalRecords]
  BY DEF ThreadPart
<1>2. ASSUME NEW loaded, Proceed(u, loaded) PROVE local'[t] = local[t]
  BY <1>1, <1>2 DEF Proceed
<1>3. CASE Block(u)
  BY <1>1, <1>3 DEF Block
<1>4. CASE Insert(u)
  BY <1>1, <1>4 DEF Insert
<1>5. CASE Load(u)
  BY <1>1, <1>5 DEF Load
<1>6. CASE Cancel(u)
  BY <1>1, <1>6 DEF Cancel
<1>7. CASE Modify(u)
  BY <1>1, <1>7 DEF Modify
<1>8. CASE SkipTraded(u)
  BY <1>2, <1>8 DEF SkipTraded
<1>9. CASE LeaveResting(u)
  BY <1>2, <1>9 DEF LeaveResting
<1>10. CASE Decide(u)
  BY <1>1, <1>10 DEF Decide
<1>11. CASE Fill(u)
  BY <1>1, <1>11 DEF Fill
<1>12. CASE ReadPosition(u)
  BY <1>1, <1>12 DEF ReadPosition
<1>13. CASE Release(u)
  BY <1>1, <1>13 DEF Release
<1>14. CASE WritePosition(u)
  BY <1>1, <1>14 DEF WritePosition
<1>15. CASE LoseInsert(u)
  BY <1>2, <1>15 DEF LoseInsert
<1>16. CASE Validate(u)
  BY <1>1, <1>16 DEF Validate
<1>17. CASE Reconcile(u)
  BY <1>1, <1>2, <1>17 DEF Reconcile
<1>18. CASE ReconcileWrite(u)
  BY <1>2, <1>18 DEF ReconcileWrite
<1> QED BY <1>3, <1>4, <1>5, <1>6, <1>7, <1>8, <1>9, <1>10, <1>11, <1>12, <1>13, <1>14, <1>15,
           <1>16, <1>17, <1>18 DEF Continue

\* A thread that is to block does nothing else.
LEMMA BlockerBlocks ==
    ASSUME NEW t \in Threads, At(t, "block"), Continue(t)
    PROVE  Block(t)
<1>1. local[t].step = "block"
  BY DEF At
<1>2. ~(Insert(t) \/ Load(t) \/ Cancel(t) \/ Modify(t))
  BY <1>1 DEF Insert, Load, Cancel, Modify, At
<1>3. ~(SkipTraded(t) \/ LeaveResting(t) \/ Decide(t) \/ Fill(t))
  BY <1>1 DEF SkipTraded, LeaveResting, Decide, Fill, At
<1>4. ~(ReadPosition(t) \/ Release(t) \/ WritePosition(t) \/ LoseInsert(t))
  BY <1>1 DEF ReadPosition, Release, WritePosition, LoseInsert, At
<1>5. ~(Validate(t) \/ Reconcile(t) \/ ReconcileWrite(t))
  BY <1>1 DEF Validate, Reconcile, ReconcileWrite, At
<1> QED BY <1>2, <1>3, <1>4, <1>5 DEF Continue

\* Two requests that both saw enough balance cannot both block it: block_margin
\* looks again under its lock, so the balance it leaves is never negative,
\* whoever spent from it since the request was validated.
THEOREM BlocksNeverOverdraw == Spec => BlockNeverOverdraws
<1> DEFINE Step == \A t \in Users : At(t, "block") /\ ~At(t, "block")' /\ funds' # funds
                                        => funds'.available_balance >= 0
<1>1. ASSUME RacesInv, [Next]_vars PROVE Step
  <2> SUFFICES ASSUME NEW t \in Users, At(t, "block"), ~At(t, "block")', funds' # funds
               PROVE  funds'.available_balance >= 0
    OBVIOUS
  <2>1. ThreadPart /\ t \in Threads /\ funds \in Funds /\ local[t].margin \in Int
    BY <1>1 DEF RacesInv, ThreadPart, TablePart, LocalRecords, Threads
  <2>2. PICK u \in Threads : Continue(u)
    <3>1. ~UNCHANGED records /\ ~UNCHANGED book
      BY DEF records, book
    <3>2. ~Crash /\ ~(\E u \in Pollers : Poll(u)) /\ ~(\E u \in Tickers : Tick(u))
      BY <3>1 DEF Crash, Poll, Tick, List
    <3>3. ~(\E u \in Users : Place(u) \/ StartCancel(u) \/ StartModify(u))
      BY <3>1 DEF Place, StartCancel, StartModify
    <3> QED BY <1>1, <3>1, <3>2, <3>3, NextSteps
  <2>3. u = t
    <3>1. SUFFICES ASSUME u # t PROVE FALSE
      OBVIOUS
    <3>2. local'[t] = local[t]
      BY <2>1, <2>2, <3>1, OthersStay
    <3> QED BY <3>2 DEF At
  <2>4. Block(t)
    BY <2>1, <2>2, <2>3, BlockerBlocks
  <2>5. CanBlock(funds, local[t].margin) /\ funds' = BlockMargin(funds, local[t].margin)
    BY <2>4 DEF Block
  <2> QED BY <2>1, <2>5 DEF CanBlock, BlockMargin, Funds
<1>2. RacesInv /\ [Next]_vars => [Step]_vars
  BY <1>1
<1> QED BY <1>2, RacesInvariant, PTL DEF Spec, BlockNeverOverdraws

-----------------------------------------------------------------------------
(* One thread does all the filling. *)

\* Only this engine fills: the requests get no quote to fill at.
OneFiller(e) == Engines = {e} /\ Arrivals \subseteq {NoPrice}

\* A request thread only places, cancels and modifies, without a quote.
UsersOnlyAsk == \A t \in Users :
    /\ local[t].step \in {"idle", "block", "insert", "cancel", "modify"}
    /\ local[t].quote = NoPrice

\* What the engine is about to reconcile accounts for all the cash there is.
SeenIsCash(e) ==
    local[e].step = "reconcile_write"
        => local[e].seen.available_balance + local[e].seen.used_margin
               = StartingCapital + funds.realized_pnl

\* A thread's first step leaves the other threads where they are, and the book.
LEMMA OthersRest ==
    ASSUME ThreadPart, NEW t \in Threads, NEW u \in Threads, u # t,
           Poll(u) \/ Tick(u) \/ Place(u) \/ StartCancel(u) \/ StartModify(u)
    PROVE  local'[t] = local[t]
<1>1. local \in [Threads -> LocalRecords]
  BY DEF ThreadPart
<1>2. CASE Poll(u) \/ Tick(u)
  BY <1>1, <1>2 DEF Poll, Tick, List
<1>3. CASE Place(u)
  BY <1>1, <1>3 DEF Place
<1>4. CASE StartCancel(u)
  BY <1>1, <1>4 DEF StartCancel
<1>5. CASE StartModify(u)
  BY <1>1, <1>5 DEF StartModify
<1> QED BY <1>2, <1>3, <1>4, <1>5

\* A request thread that goes on blocks, inserts, cancels or modifies, and is
\* idle again or inserts next.
LEMMA UserGoesOn ==
    ASSUME ThreadPart, UsersOnlyAsk, NEW t \in Users, Continue(t)
    PROVE  /\ Block(t) \/ Insert(t) \/ Cancel(t) \/ Modify(t)
           /\ local'[t] = Idle \/ local'[t] = [local[t] EXCEPT !.step = "insert"]
<1>1. /\ local[t].step \in {"idle", "block", "insert", "cancel", "modify"} /\ local[t].quote = NoPrice
      /\ t \in Threads /\ local \in [Threads -> LocalRecords]
  BY DEF UsersOnlyAsk, Threads, ThreadPart
<1>2. ~(Load(t) \/ SkipTraded(t) \/ LeaveResting(t) \/ Decide(t) \/ Fill(t))
  BY <1>1 DEF Load, SkipTraded, LeaveResting, Decide, Fill, At
<1>3. ~(ReadPosition(t) \/ Release(t) \/ WritePosition(t) \/ LoseInsert(t))
  BY <1>1 DEF ReadPosition, Release, WritePosition, LoseInsert, At
<1>4. ~(Validate(t) \/ Reconcile(t) \/ ReconcileWrite(t))
  BY <1>1 DEF Validate, Reconcile, ReconcileWrite, At
<1>5. Block(t) \/ Insert(t) \/ Cancel(t) \/ Modify(t)
  BY <1>2, <1>3, <1>4 DEF Continue
<1>6. CASE Block(t)
  <2>1. \/ local' = [local EXCEPT ![t].step = "insert"]
        \/ local' = [local EXCEPT ![t] = Idle]
    BY <1>6 DEF Block
  <2> QED BY <1>1, <1>5, <2>1
<1>7. CASE Insert(t)
  BY <1>1, <1>5, <1>7 DEF Insert, Executes
<1>8. CASE Cancel(t) \/ Modify(t)
  BY <1>1, <1>5, <1>8 DEF Cancel, Modify
<1> QED BY <1>5, <1>6, <1>7, <1>8

\* What a request thread starts with.
LEMMA PlaceRecord ==
    ASSUME NEW t \in Users, Place(t)
    PROVE  \E l : /\ local' = [local EXCEPT ![t] = l]
                  /\ l.step \in {"block", "insert"} /\ l.quote \in Arrivals
<1>1. PICK r \in Requests, ltp \in Arrivals :
       \E price \in IF r.price_type = "LIMIT" THEN {r.price}
                    ELSE IF r.price_type \in {"SL", "SL-M"} THEN {r.trigger_price}
                    ELSE IF ltp # NoPrice THEN {ltp}
                    ELSE IF position.average_price # NoPrice THEN Prices
                    ELSE {} :
       \E step \in {"block", "insert"} :
          local' = [local EXCEPT ![t] =
                    [Idle EXCEPT !.step   = step,
                                 !.row    = r,
                                 !.quote  = ltp,
                                 !.price  = price,
                                 !.margin = MarginToBlock(position, r, price)]]
  BY DEF Place
<1>2. PICK price \in {r.price, r.trigger_price, ltp} \cup Prices, step \in {"block", "insert"} :
          local' = [local EXCEPT ![t] =
                    [Idle EXCEPT !.step   = step,
                                 !.row    = r,
                                 !.quote  = ltp,
                                 !.price  = price,
                                 !.margin = MarginToBlock(position, r, price)]]
  BY <1>1
<1> DEFINE l == [Idle EXCEPT !.step = step, !.row = r, !.quote = ltp, !.price = price,
                             !.margin = MarginToBlock(position, r, price)]
<1>3. l.step = step /\ l.quote = ltp
  BY DEF Idle
<1>4. local' = [local EXCEPT ![t] = l]
  BY <1>2
<1> HIDE DEF l
<1> QED BY <1>3, <1>4

LEMMA CancelRecord ==
    ASSUME NEW t \in Users, StartCancel(t)
    PROVE  \E l : /\ local' = [local EXCEPT ![t] = l]
                  /\ l.step = "cancel" /\ l.quote \in Arrivals
<1>1. PICK id \in DOMAIN orders, ltp \in Arrivals :
        local' = [local EXCEPT ![t] =
               [Idle EXCEPT !.step = "cancel", !.queue = <<id>>, !.quote = ltp,
                            !.loaded = Holding(<<>>, id, orders[id])]]
  BY DEF StartCancel
<1> DEFINE l == [Idle EXCEPT !.step = "cancel", !.queue = <<id>>, !.quote = ltp,
                             !.loaded = Holding(<<>>, id, orders[id])]
<1>2. l.step = "cancel" /\ l.quote = ltp
  BY DEF Idle
<1>3. local' = [local EXCEPT ![t] = l]
  BY <1>1
<1> HIDE DEF l
<1> QED BY <1>2, <1>3

LEMMA ModifyRecord ==
    ASSUME NEW t \in Users, StartModify(t)
    PROVE  \E l : /\ local' = [local EXCEPT ![t] = l]
                  /\ l.step = "modify" /\ l.quote = NoPrice
<1>1. PICK id \in DOMAIN orders, q \in Quantities :
      \E p \in IF orders[id].price_type \in {"LIMIT", "SL"} THEN Prices
               ELSE {orders[id].price},
         g \in IF orders[id].price_type \in {"SL", "SL-M"} THEN Prices
               ELSE {orders[id].trigger_price} :
         /\ orders[id].order_status = "open"
         /\ local' = [local EXCEPT ![t] =
                [Idle EXCEPT !.step = "modify", !.queue = <<id>>,
                             !.loaded = Holding(<<>>, id, orders[id]),
                             !.row = [orders[id] EXCEPT !.quantity = q, !.price = p,
                                                        !.trigger_price = g]]]
  BY DEF StartModify
<1>2. PICK p, g :
         local' = [local EXCEPT ![t] =
                [Idle EXCEPT !.step = "modify", !.queue = <<id>>,
                             !.loaded = Holding(<<>>, id, orders[id]),
                             !.row = [orders[id] EXCEPT !.quantity = q, !.price = p,
                                                        !.trigger_price = g]]]
  BY <1>1
<1> DEFINE l == [Idle EXCEPT !.step = "modify", !.queue = <<id>>,
                             !.loaded = Holding(<<>>, id, orders[id]),
                             !.row = [orders[id] EXCEPT !.quantity = q, !.price = p,
                                                        !.trigger_price = g]]
<1>3. l.step = "modify" /\ l.quote = NoPrice
  BY DEF Idle
<1>4. local' = [local EXCEPT ![t] = l]
  BY <1>2
<1> HIDE DEF l
<1> QED BY <1>3, <1>4

LEMMA RequestRecord ==
    ASSUME NEW t \in Users, Place(t) \/ StartCancel(t) \/ StartModify(t),
           \A ltp \in Arrivals : ltp = NoPrice
    PROVE  \E l : /\ local' = [local EXCEPT ![t] = l]
                  /\ l.step \in {"block", "insert", "cancel", "modify"} /\ l.quote = NoPrice
<1>1. CASE Place(t)
  BY <1>1, PlaceRecord
<1>2. CASE StartCancel(t)
  BY <1>2, CancelRecord
<1>3. CASE StartModify(t)
  BY <1>3, ModifyRecord
<1> QED BY <1>1, <1>2, <1>3

\* The request threads stay request threads.
LEMMA UsersGoOnAsking ==
    ASSUME NEW e, OneFiller(e), RacesInv, UsersOnlyAsk, [Next]_vars
    PROVE  UsersOnlyAsk'
<1> SUFFICES ASSUME NEW t \in Users
             PROVE  /\ local'[t].step \in {"idle", "block", "insert", "cancel", "modify"}
                    /\ local'[t].quote = NoPrice
  BY DEF UsersOnlyAsk
<1>1. /\ local[t].step \in {"idle", "block", "insert", "cancel", "modify"} /\ local[t].quote = NoPrice
      /\ t \in Threads /\ ThreadPart /\ local \in [Threads -> LocalRecords] /\ local[t] \in LocalRecords
  BY DEF UsersOnlyAsk, Threads, ThreadPart, RacesInv
<1>2. Idle.step = "idle" /\ Idle.quote = NoPrice
  BY DEF Idle
<1>3. CASE local'[t] = local[t] \/ local'[t] = Idle
  BY <1>1, <1>2, <1>3
<1>4. ASSUME NEW u \in Threads, Continue(u)
      PROVE  /\ local'[t].step \in {"idle", "block", "insert", "cancel", "modify"}
             /\ local'[t].quote = NoPrice
  <2>1. CASE u = t
    <3>1. local'[t] = Idle \/ local'[t] = [local[t] EXCEPT !.step = "insert"]
      BY <1>1, <1>4, <2>1, UserGoesOn
    <3>2. CASE local'[t] = [local[t] EXCEPT !.step = "insert"]
      BY <1>1, <3>2 DEF LocalRecords
    <3> QED BY <1>3, <3>1, <3>2
  <2> QED BY <1>1, <1>3, <1>4, <2>1, OthersStay
<1>5. ASSUME NEW u \in Engines, Poll(u) \/ Tick(u)
      PROVE  local'[t] = local[t]
  <2>1. u \in Threads /\ u # t
    BY RacesAssumption DEF Threads
  <2> QED BY <1>1, <1>5, <2>1, OthersRest
<1>6. ASSUME NEW u \in Users, Place(u) \/ StartCancel(u) \/ StartModify(u)
      PROVE  /\ local'[t].step \in {"idle", "block", "insert", "cancel", "modify"}
             /\ local'[t].quote = NoPrice
  <2>1. u \in Threads
    BY DEF Threads
  <2>2. CASE u # t
    BY <1>1, <1>3, <1>6, <2>1, <2>2, OthersRest
  <2>3. ASSUME NEW ltp \in Arrivals PROVE ltp = NoPrice
    BY DEF OneFiller
  <2>4. CASE u = t
    <3>1. PICK l : /\ local' = [local EXCEPT ![t] = l] /\ l.step \in {"block", "insert", "cancel", "modify"}
                   /\ l.quote = NoPrice
      BY <1>6, <2>3, <2>4, RequestRecord
    <3> QED BY <1>1, <3>1
  <2> QED BY <2>2, <2>4
<1>7. CASE Crash
  BY <1>1, <1>3, <1>7 DEF Crash
<1>8. CASE UNCHANGED records
  BY <1>3, <1>8 DEF records
<1> QED BY <1>3, <1>4, <1>5, <1>6, <1>7, <1>8, NextSteps DEF Engines

\* Where each step of a handler leads.
LEMMA StepsFollow ==
    ASSUME ThreadPart, NEW t \in Threads
    PROVE  /\ Block(t) => local'[t].step \in {"insert", "idle"}
           /\ Insert(t) => local'[t].step \in {"idle", "check", "load"}
           /\ Load(t) \/ Decide(t) => local'[t].step = "fill"
           /\ Cancel(t) \/ Modify(t) => local'[t].step = "idle"
           /\ SkipTraded(t) \/ LeaveResting(t) => local'[t].step \in {"idle", "check"}
           /\ LoseInsert(t) \/ ReconcileWrite(t) => local'[t].step \in {"idle", "check"}
           /\ Fill(t) => local'[t].step = "net"
           /\ ReadPosition(t) => local'[t].step \in {"release", "write"}
           /\ Release(t) => local'[t].step = "write"
           /\ WritePosition(t) => local'[t].step = "validate"
           /\ Validate(t) => local'[t].step = "reconcile"
           /\ Reconcile(t) => local'[t].step \in {"idle", "check", "reconcile_write"}
<1>1. local \in [Threads -> LocalRecords] /\ local[t] \in LocalRecords
  BY DEF ThreadPart
<1>2. Idle.step = "idle"
  BY DEF Idle
<1>3. ASSUME NEW loaded, Proceed(t, loaded) PROVE local'[t].step \in {"idle", "check"}
  <2> DEFINE next == [Idle EXCEPT !.step = "check", !.queue = Tail(local[t].queue),
                                  !.loaded = loaded, !.quote = local[t].quote]
  <2>1. local' = [local EXCEPT ![t] = Idle] \/ local' = [local EXCEPT ![t] = next]
    BY <1>3 DEF Proceed
  <2>2. next.step = "check"
    BY DEF Idle
  <2> HIDE DEF next
  <2> QED BY <1>1, <1>2, <2>1, <2>2
<1>4. ASSUME Block(t) PROVE local'[t].step \in {"insert", "idle"}
  <2>1. local' = [local EXCEPT ![t].step = "insert"] \/ local' = [local EXCEPT ![t] = Idle]
    BY <1>4 DEF Block
  <2>2. CASE local' = [local EXCEPT ![t].step = "insert"]
    BY <1>1, <2>2 DEF LocalRecords
  <2> QED BY <1>1, <1>2, <2>1, <2>2
<1>5. ASSUME Insert(t) PROVE local'[t].step \in {"idle", "check", "load"}
  <2>1. PICK step \in {"check", "load"}, p \in {NoPrice, local[t].quote} :
           local' \in {[local EXCEPT ![t] = Idle],
                       [local EXCEPT ![t] = [Idle EXCEPT !.step = step, !.queue = <<Len(orders')>>,
                                                         !.quote = local[t].quote, !.price = p]]}
    BY <1>5 DEF Insert
  <2> DEFINE next == [Idle EXCEPT !.step = step, !.queue = <<Len(orders')>>,
                                  !.quote = local[t].quote, !.price = p]
  <2>2. next.step = step
    BY DEF Idle
  <2>3. local' = [local EXCEPT ![t] = Idle] \/ local' = [local EXCEPT ![t] = next]
    BY <2>1
  <2> HIDE DEF next
  <2> QED BY <1>1, <1>2, <2>2, <2>3
<1>6. ASSUME Load(t) PROVE local'[t].step = "fill"
  BY <1>1, <1>6 DEF Load, LocalRecords
<1>7. ASSUME Decide(t) PROVE local'[t].step = "fill"
  <2>1. PICK price, loaded :
           local' = [local EXCEPT ![t].step = "fill", ![t].price = price, ![t].loaded = loaded]
    BY <1>7 DEF Decide
  <2> QED BY <1>1, <2>1 DEF LocalRecords
<1>8. Cancel(t) \/ Modify(t) => local'[t].step = "idle"
  BY <1>1, <1>2 DEF Cancel, Modify
<1>9. SkipTraded(t) \/ LeaveResting(t) => local'[t].step \in {"idle", "check"}
  BY <1>3 DEF SkipTraded, LeaveResting
<1>10. LoseInsert(t) \/ ReconcileWrite(t) => local'[t].step \in {"idle", "check"}
  BY <1>3 DEF LoseInsert, ReconcileWrite
<1>11. ASSUME Fill(t) PROVE local'[t].step = "net"
  <2>1. local' = [local EXCEPT ![t].step = "net", ![t].loaded = <<>>]
    BY <1>11 DEF Fill
  <2> QED BY <1>1, <2>1 DEF LocalRecords
<1>12. ASSUME ReadPosition(t) PROVE local'[t].step \in {"release", "write"}
  <2>1. PICK step \in {"release", "write"} : \E loaded :
           local' = [local EXCEPT ![t].step = step, ![t].held = position, ![t].loaded = loaded]
    BY <1>12 DEF ReadPosition
  <2> QED BY <1>1, <2>1 DEF LocalRecords
<1>13. ASSUME Release(t) PROVE local'[t].step = "write"
  BY <1>1, <1>13 DEF Release, LocalRecords
<1>14. ASSUME WritePosition(t) PROVE local'[t].step = "validate"
  <2> DEFINE l == [Idle EXCEPT !.step = "validate", !.queue = local[t].queue, !.quote = local[t].quote]
  <2>1. l.step = "validate" /\ local' = [local EXCEPT ![t] = l]
    BY <1>14 DEF WritePosition, Idle
  <2> HIDE DEF l
  <2> QED BY <1>1, <2>1
<1>15. ASSUME Validate(t) PROVE local'[t].step = "reconcile"
  <2>1. PICK m : local' = [local EXCEPT ![t].step = "reconcile", ![t].margin = m]
    BY <1>15 DEF Validate
  <2> QED BY <1>1, <2>1 DEF LocalRecords
<1>16. ASSUME Reconcile(t) PROVE local'[t].step \in {"idle", "check", "reconcile_write"}
  <2>1. CASE Proceed(t, <<>>)
    BY <1>3, <2>1
  <2>2. CASE local' = [local EXCEPT ![t].step = "reconcile_write", ![t].seen = funds]
    BY <1>1, <2>2 DEF LocalRecords
  <2> QED BY <1>16, <2>1, <2>2 DEF Reconcile
<1> QED BY <1>4, <1>5, <1>6, <1>7, <1>8, <1>9, <1>10, <1>11, <1>12, <1>13, <1>14, <1>15, <1>16

\* Only the comparison leads to a reconciliation.
LEMMA ReconciliationStarts ==
    ASSUME ThreadPart, NEW t \in Threads, Continue(t), ~Reconcile(t)
    PROVE  local'[t].step # "reconcile_write"
BY StepsFollow DEF Continue

\* What a request does to the funds moves cash between the columns.
LEMMA RequestsKeepCash ==
    ASSUME RacesInv, NEW t \in Threads, Block(t) \/ Insert(t) \/ Cancel(t) \/ Modify(t), CashConserved
    PROVE  CashConserved' /\ funds'.realized_pnl = funds.realized_pnl
<1>1. funds \in Funds /\ local[t].margin \in Int
  BY DEF RacesInv, TablePart, ThreadPart, LocalRecords
<1>2. ASSUME NEW m \in Int, funds' = BlockMargin(funds, m)
      PROVE  CashConserved' /\ funds'.realized_pnl = funds.realized_pnl
  BY <1>1, <1>2, CapitalAssumption DEF BlockMargin, CashConserved, Balanced, Funds
<1>3. ASSUME NEW m \in Int, funds' = ReleaseMargin(funds, m, 0)
      PROVE  CashConserved' /\ funds'.realized_pnl = funds.realized_pnl
  BY <1>1, <1>3, CapitalAssumption DEF ReleaseMargin, CashConserved, Balanced, Funds
<1>4. CASE funds' = funds
  BY <1>4 DEF CashConserved
<1>5. CASE Block(t)
  BY <1>1, <1>2, <1>4, <1>5 DEF Block
<1>6. CASE Insert(t) \/ Modify(t)
  BY <1>4, <1>6 DEF Insert, Modify
<1>7. CASE Cancel(t)
  <2> DEFINE row == local[t].loaded[Head(local[t].queue)]
             released == CancelRelease(row, local[t].quote)
  <2>1. local[t].step \in HasOrder /\ local[t].step \in HasRow
    BY <1>7 DEF Cancel, At, HasOrder, HasRow
  <2>2. row \in OrderRows /\ local[t].quote \in Int
    BY <2>1, InHand DEF RacesInv, ThreadPart, LocalRecords
  <2>3. released \in Int
    <3> HIDE DEF row
    <3> QED BY <2>2, CancelReleaseTyped
  <2>4. funds' = ReleaseMargin(funds, released, 0)
    BY <1>7 DEF Cancel
  <2> HIDE DEF released
  <2> QED BY <1>3, <2>3, <2>4
<1> QED BY <1>5, <1>6, <1>7

\* The engine pays out what it books, and its reconciliation hands back what it
\* takes off: nobody else books a profit between its read and its write.
LEMMA EngineKeepsCash ==
    ASSUME RacesInv, NEW e \in Threads, Continue(e), SeenIsCash(e), CashConserved
    PROVE  CashConserved' /\ SeenIsCash(e)'
<1>1. /\ ThreadPart /\ local[e] \in LocalRecords /\ funds \in Funds /\ local[e].seen \in Funds
      /\ local \in [Threads -> LocalRecords] /\ local[e].margin \in Int
  BY DEF RacesInv, TablePart, ThreadPart, LocalRecords
<1>2. ~Reconcile(e) => SeenIsCash(e)'
  BY <1>1, ReconciliationStarts DEF SeenIsCash
<1>3. CASE Block(e) \/ Insert(e) \/ Cancel(e) \/ Modify(e)
  <2>1. ~Reconcile(e)
    BY <1>3 DEF Block, Insert, Cancel, Modify, Reconcile, At
  <2> QED BY <1>2, <1>3, <2>1, RequestsKeepCash
<1>4. CASE Release(e)
  <2> DEFINE pnl == RealizedPnl(local[e].held, Closes(e), local[e].price)
  <2>1. ~Reconcile(e) /\ local[e].step = "release"
    BY <1>4 DEF Release, Reconcile, At
  <2>2. pnl \in Int /\ Releases(e) \in Int
    BY <2>1, ClosesTyped
  <2>3. funds' = ReleaseMargin(funds, Releases(e), pnl)
    BY <1>4 DEF Release
  <2> HIDE DEF pnl
  <2>4. CashConserved'
    BY <1>1, <2>2, <2>3, CapitalAssumption DEF ReleaseMargin, CashConserved, Balanced, Funds
  <2> QED BY <1>2, <2>1, <2>4
<1>5. CASE Reconcile(e)
  <2>1. funds' = funds
    BY <1>5 DEF Reconcile, book
  <2>2. CashConserved'
    BY <2>1 DEF CashConserved
  <2>3. CASE Proceed(e, <<>>)
    <3> DEFINE next == [Idle EXCEPT !.step = "check", !.queue = Tail(local[e].queue),
                                    !.loaded = <<>>, !.quote = local[e].quote]
    <3>1. local' = [local EXCEPT ![e] = Idle] \/ local' = [local EXCEPT ![e] = next]
      BY <2>3 DEF Proceed
    <3>2. next.step = "check" /\ Idle.step = "idle"
      BY DEF Idle
    <3> HIDE DEF next
    <3>3. local'[e].step # "reconcile_write"
      BY <1>1, <3>1, <3>2
    <3> QED BY <2>2, <3>3 DEF SeenIsCash
  <2>4. CASE local' = [local EXCEPT ![e].step = "reconcile_write", ![e].seen = funds]
    <3>1. local'[e].seen = funds
      BY <1>1, <2>4 DEF LocalRecords
    <3>2. SeenIsCash(e)'
      BY <2>1, <3>1 DEF SeenIsCash, CashConserved, Balanced
    <3> QED BY <2>2, <3>2
  <2> QED BY <1>5, <2>3, <2>4 DEF Reconcile
<1>6. CASE ReconcileWrite(e)
  <2> DEFINE fixed == ReconcileMargin(local[e].seen, local[e].margin)
  <2>1. ~Reconcile(e) /\ local[e].step = "reconcile_write"
    BY <1>6 DEF ReconcileWrite, Reconcile, At
  <2>2. fixed.available_balance \in Int /\ fixed.used_margin \in Int
        /\ fixed.available_balance + fixed.used_margin
               = local[e].seen.available_balance + local[e].seen.used_margin
    BY <1>1 DEF ReconcileMargin, Funds
  <2>3. funds' = [funds EXCEPT !.available_balance = fixed.available_balance,
                               !.used_margin = fixed.used_margin]
    BY <1>6 DEF ReconcileWrite
  <2> HIDE DEF fixed
  <2>4. /\ funds'.available_balance = fixed.available_balance /\ funds'.used_margin = fixed.used_margin
        /\ funds'.realized_pnl = funds.realized_pnl
    BY <1>1, <2>3 DEF Funds
  <2>5. CashConserved'
    BY <2>1, <2>2, <2>4 DEF SeenIsCash, CashConserved, Balanced
  <2> QED BY <1>2, <2>1, <2>5
<1>7. CASE Load(e) \/ SkipTraded(e) \/ LeaveResting(e) \/ Decide(e) \/ Fill(e) \/ ReadPosition(e)
  <2>1. funds' = funds /\ ~Reconcile(e)
    BY <1>7 DEF Load, SkipTraded, LeaveResting, Decide, Fill, ReadPosition, Reconcile, At, book
  <2> QED BY <1>2, <2>1 DEF CashConserved
<1>8. CASE WritePosition(e) \/ LoseInsert(e) \/ Validate(e)
  <2>1. funds' = funds /\ ~Reconcile(e)
    BY <1>8 DEF WritePosition, LoseInsert, Validate, Reconcile, At, book
  <2> QED BY <1>2, <2>1 DEF CashConserved
<1> QED BY <1>3, <1>4, <1>5, <1>6, <1>7, <1>8 DEF Continue

LEMMA CashStep ==
    ASSUME NEW e, OneFiller(e), RacesInv, UsersOnlyAsk, SeenIsCash(e), CashConserved, [Next]_vars
    PROVE  CashConserved' /\ SeenIsCash(e)'
<1>1. /\ ThreadPart /\ e \in Threads /\ e \notin Users /\ local \in [Threads -> LocalRecords]
      /\ Threads = {e} \cup Users /\ Pollers \subseteq {e} /\ Tickers \subseteq {e}
  BY RacesAssumption DEF RacesInv, ThreadPart, Threads, OneFiller, Engines
<1>2. CASE funds' = funds /\ local'[e] = local[e]
  BY <1>2 DEF CashConserved, SeenIsCash
<1>3. ASSUME NEW t \in Users, Continue(t) PROVE CashConserved' /\ SeenIsCash(e)'
  <2>1. t \in Threads /\ t # e /\ local'[e] = local[e]
    BY <1>1, <1>3, OthersStay
  <2>2. Block(t) \/ Insert(t) \/ Cancel(t) \/ Modify(t)
    BY <1>1, <1>3, UserGoesOn
  <2>3. CashConserved' /\ funds'.realized_pnl = funds.realized_pnl
    BY <2>1, <2>2, RequestsKeepCash
  <2> QED BY <2>1, <2>3 DEF SeenIsCash
<1>4. CASE Continue(e)
  BY <1>1, <1>4, EngineKeepsCash
<1>5. CASE Poll(e) \/ Tick(e)
  <2>1. funds' = funds
    BY <1>5 DEF Poll, Tick, List, book
  <2>2. PICK ids, quotes : List(e, ids, quotes)
    BY <1>5 DEF Poll, Tick
  <2>3. PICK ltp \in quotes, listed \in SetToSeqs(ids) :
          local' = [local EXCEPT ![e] = [Idle EXCEPT !.step = "check", !.queue = listed,
                                             !.loaded = [id \in ids |-> orders[id]], !.quote = ltp]]
    BY <2>2 DEF List
  <2> DEFINE next == [Idle EXCEPT !.step = "check", !.queue = listed,
                                  !.loaded = [id \in ids |-> orders[id]], !.quote = ltp]
  <2>4. local'[e].step # "reconcile_write"
    <3>1. next.step = "check" /\ local' = [local EXCEPT ![e] = next]
      BY <2>3 DEF Idle
    <3> HIDE DEF next
    <3> QED BY <1>1, <3>1
  <2> QED BY <2>1, <2>4 DEF CashConserved, SeenIsCash
<1>6. ASSUME NEW t \in Users, Place(t) \/ StartCancel(t) \/ StartModify(t)
      PROVE  CashConserved' /\ SeenIsCash(e)'
  <2>1. t \in Threads /\ t # e /\ funds' = funds
    BY <1>1, <1>6 DEF Place, StartCancel, StartModify, book
  <2>2. local'[e] = local[e]
    BY <1>1, <1>6, <2>1, OthersRest
  <2> QED BY <1>2, <2>1, <2>2
<1>7. CASE Crash
  <2>1. funds' = funds /\ local'[e] = Idle
    BY <1>1, <1>7 DEF Crash, book
  <2> QED BY <2>1 DEF CashConserved, SeenIsCash, Idle
<1>8. CASE UNCHANGED records
  BY <1>2, <1>8 DEF records
<1> QED BY <1>1, <1>3, <1>4, <1>5, <1>6, <1>7, <1>8, NextSteps

\* Where one engine thread does all the filling, no cash is made or lost: the
\* reconciliation writes back a balance it read earlier, whatever margins requests
\* blocked and released meanwhile, and only its own thread books profits.
THEOREM OneEngineKeepsCash ==
    ASSUME NEW e, OneFiller(e)
    PROVE  Spec => []CashConserved
<1>1. Init => UsersOnlyAsk /\ SeenIsCash(e) /\ CashConserved
  <2> SUFFICES ASSUME Init PROVE UsersOnlyAsk /\ SeenIsCash(e) /\ CashConserved
    OBVIOUS
  <2>1. e \in Threads /\ \A t \in Threads : local[t] = Idle
    BY DEF Init, Threads, OneFiller
  <2>2. UsersOnlyAsk /\ SeenIsCash(e)
    BY <2>1 DEF UsersOnlyAsk, SeenIsCash, Idle, Threads
  <2>3. CashConserved
    BY InitialFundsFit DEF Init, CashConserved
  <2> QED BY <2>2, <2>3
<1>2. RacesInv /\ UsersOnlyAsk /\ SeenIsCash(e) /\ CashConserved /\ [Next]_vars
          => UsersOnlyAsk' /\ SeenIsCash(e)' /\ CashConserved'
  BY UsersGoOnAsking, CashStep
<1> QED BY <1>1, <1>2, RacesInvariant, PTL DEF Spec

-----------------------------------------------------------------------------
(* One thread does all the filling, and nobody cancels. *)

\* The engine has only the steps of filling.
EngineOnlyFills(e) ==
    local[e].step \in {"idle", "check", "fill", "net", "release", "write", "validate",
                       "reconcile", "reconcile_write"}

NobodyCancels == \A t \in Users : local[t].step # "cancel"

\* A status is open exactly as long as there is no trade.
StatusIsFill ==
    \A id \in DOMAIN orders : orders[id].order_status = IF NotYet(id) THEN "open" ELSE "complete"

\* What the engine is about to fill has no trade; the row it nets into is there.
FillsOnce(e) ==
    /\ local[e].step = "fill" => NotYet(Head(local[e].queue))
    /\ local[e].step \in {"release", "write"} /\ Exists(position) => Exists(local[e].held)

\* Requests on their way to the table have their place in it.
Placing == {u \in Users : local[u].step \in {"block", "insert"}}
RoomForAll == Len(orders) + Cardinality(Placing) <= MaxOrders

FillerInv(e) ==
    /\ UsersOnlyAsk /\ EngineOnlyFills(e) /\ NobodyCancels
    /\ StatusIsFill /\ FillsOnce(e) /\ RoomForAll

\* What one step changes, seen from the orders.
OrdersRest == UNCHANGED <<trades, orders>>
OrderComes == /\ trades' = trades
              /\ \E row \in OrderRows : row.order_status = "open" /\ orders' = Append(orders, row)
StatusesRest == /\ trades' = trades /\ DOMAIN orders' = DOMAIN orders
                /\ \A n \in DOMAIN orders : orders'[n].order_status = orders[n].order_status
OrderFills == \E id \in DOMAIN orders, trade \in Trade :
                 /\ trade.orderid = id /\ NotYet(id) /\ trades' = Append(trades, trade)
                 /\ orders' = [orders EXCEPT ![id].order_status = "complete"]

\* The step a request thread starts with is that of what it is asked for.
LEMMA AskedStep ==
    ASSUME ThreadPart, NEW t \in Users
    PROVE  /\ Place(t) => local'[t].step \in {"block", "insert"}
           /\ StartCancel(t) => "cancel" \in Handlers /\ local'[t].step = "cancel"
           /\ StartModify(t) => local'[t].step = "modify"
<1>1. local \in [Threads -> LocalRecords] /\ t \in Threads
  BY DEF ThreadPart, Threads
<1>2. ASSUME Place(t) PROVE local'[t].step \in {"block", "insert"}
  BY <1>1, <1>2, PlaceRecord
<1>3. ASSUME StartCancel(t) PROVE "cancel" \in Handlers /\ local'[t].step = "cancel"
  <2>1. "cancel" \in Handlers
    BY <1>3 DEF StartCancel
  <2> QED BY <1>1, <1>3, <2>1, CancelRecord
<1>4. ASSUME StartModify(t) PROVE local'[t].step = "modify"
  BY <1>1, <1>4, ModifyRecord
<1> QED BY <1>2, <1>3, <1>4

\* The requests: an order comes, open, or the statuses stay.
LEMMA RequestSeen ==
    ASSUME RacesInv, UsersOnlyAsk, NobodyCancels, NEW t \in Users, Continue(t)
    PROVE  /\ Insert(t) => OrderComes
           /\ ~Insert(t) => StatusesRest
           /\ UNCHANGED position
<1>1. t \in Threads /\ ThreadPart /\ local[t].step # "cancel"
  BY DEF Threads, RacesInv, NobodyCancels
<1>2. Block(t) \/ Insert(t) \/ Modify(t)
  BY <1>1, UserGoesOn DEF Cancel, At
<1>3. CASE Insert(t)
  <2>1. OrderComes
    BY <1>1, <1>3, InsertKeeps DEF OrderComes, Insert
  <2>2. UNCHANGED position
    BY <1>3 DEF Insert
  <2> QED BY <1>3, <2>1, <2>2
<1>4. CASE Block(t)
  <2>1. ~Insert(t) /\ StatusesRest
    BY <1>4 DEF Block, Insert, At, StatusesRest
  <2> QED BY <1>4, <2>1 DEF Block
<1>5. CASE Modify(t)
  <2>1. ~Insert(t)
    BY <1>5 DEF Modify, Insert, At
  <2>2. StatusesRest
    BY <1>1, <1>5, ModifyKeeps DEF StatusesRest
  <2> QED BY <1>5, <2>1, <2>2 DEF Modify
<1> QED BY <1>2, <1>3, <1>4, <1>5

\* The engine: an order without a trade is filled, or the statuses stay.
LEMMA EngineSeen ==
    ASSUME RacesInv, NEW e \in Threads, EngineOnlyFills(e), StatusIsFill, FillsOnce(e), Continue(e)
    PROVE  /\ Fill(e) => OrderFills
           /\ ~Fill(e) => StatusesRest
           /\ ~LoseInsert(e) /\ ~Load(e) /\ ~Insert(e) /\ ~Block(e) /\ ~Cancel(e) /\ ~Modify(e)
<1>1. ~Load(e) /\ ~Insert(e) /\ ~Block(e) /\ ~Cancel(e) /\ ~Modify(e)
  BY DEF EngineOnlyFills, Load, Insert, Block, Cancel, Modify, At
<1>2. ~LoseInsert(e)
  BY DEF LoseInsert, FillsOnce, At
<1>3. CASE Fill(e)
  <2> DEFINE id == Head(local[e].queue)
             row == local[e].loaded[id]
             trade == [orderid |-> id, quantity |-> Signed(row.action, row.quantity), price |-> local[e].price]
  <2>1. NotYet(id) /\ local[e].step \in HasOrder
    BY <1>3 DEF Fill, At, FillsOnce, HasOrder
  <2>2. PICK n \in DOMAIN orders, tr \in Trade :
           /\ tr.orderid = n /\ trades' = Append(trades, tr)
           /\ orders' = [orders EXCEPT ![n].order_status = "complete"]
    BY <1>3, FillKeeps
  <2>3. trades' = Append(trades, trade) /\ trade.orderid = id
    BY <1>3 DEF Fill
  <2>4. trades \in Seq(Trade)
    BY DEF RacesInv, TablePart
  <2>5. tr = trade
    <3> HIDE DEF trade
    <3>1. Append(trades, tr)[Len(trades) + 1] = tr /\ Append(trades, trade)[Len(trades) + 1] = trade
      BY <2>4
    <3> QED BY <2>2, <2>3, <3>1
  <2>6. n = id
    BY <2>2, <2>3, <2>5
  <2> HIDE DEF id, trade
  <2>7. OrderFills
    BY <2>1, <2>2, <2>6 DEF OrderFills
  <2> QED BY <1>1, <1>2, <1>3, <2>7
<1>4. CASE SkipTraded(e)
  <2> DEFINE id == Head(local[e].queue)
  <2>1. ~Fill(e) /\ local[e].step \in HasOrder /\ ~NotYet(id) /\ trades' = trades
    BY <1>4 DEF SkipTraded, Fill, At, HasOrder
  <2>2. id \in DOMAIN orders
    BY <2>1, InHand
  <2>3. orders[id].order_status = "complete"
    BY <2>1, <2>2 DEF StatusIsFill
  <2>4. orders' = orders \/ orders' = [orders EXCEPT ![id].order_status = "complete"]
    BY <1>4 DEF SkipTraded
  <2> HIDE DEF id
  <2>5. StatusesRest
    <3>1. CASE orders' = orders
      BY <2>1, <3>1 DEF StatusesRest
    <3>2. CASE orders' = [orders EXCEPT ![id].order_status = "complete"]
      <4>1. "complete" \in OrderStatus /\ TablePart
        BY DEF OrderStatus, RacesInv
      <4>2. /\ DOMAIN orders' = DOMAIN orders
            /\ \A n \in DOMAIN orders : n # id => orders'[n] = orders[n]
            /\ orders'[id].order_status = "complete"
        BY <2>2, <3>2, <4>1, StatusWritten
      <4> QED BY <2>1, <2>3, <4>2 DEF StatusesRest
    <3> QED BY <2>4, <3>1, <3>2
  <2> QED BY <1>1, <1>2, <2>1, <2>5
<1>5. CASE LeaveResting(e) \/ Decide(e) \/ ReadPosition(e) \/ Release(e) \/ WritePosition(e)
  <2>1. ~Fill(e) /\ trades' = trades /\ orders' = orders
    BY <1>5 DEF LeaveResting, Decide, ReadPosition, Release, WritePosition, Fill, At, book
  <2> QED BY <1>1, <1>2, <2>1 DEF StatusesRest
<1>6. CASE Validate(e) \/ Reconcile(e) \/ ReconcileWrite(e)
  <2>1. ~Fill(e) /\ trades' = trades /\ orders' = orders
    BY <1>6 DEF Validate, Reconcile, ReconcileWrite, Fill, At, book
  <2> QED BY <1>1, <1>2, <2>1 DEF StatusesRest
<1> QED BY <1>1, <1>2, <1>3, <1>4, <1>5, <1>6 DEF Continue

\* What a step of the system is: a request's, the engine's, or one that leaves the
\* orders, the trades and the position alone.
LEMMA OneFillerStep ==
    ASSUME NEW e, OneFiller(e), [Next]_vars
    PROVE  \/ \E t \in Users : Continue(t)
           \/ Continue(e)
           \/ Poll(e) \/ Tick(e)
           \/ \E t \in Users : Place(t) \/ StartCancel(t) \/ StartModify(t)
           \/ Crash
           \/ UNCHANGED records
<1>1. Threads = {e} \cup Users /\ Pollers \subseteq {e} /\ Tickers \subseteq {e}
  BY DEF OneFiller, Engines, Threads
<1> QED BY <1>1, NextSteps

LEMMA Bystanders ==
    ASSUME NEW e, OneFiller(e)
    PROVE  e \in Threads /\ e \notin Users /\ Users \subseteq Threads
BY RacesAssumption DEF OneFiller, Threads, Engines

\* The statuses tell the fills.
LEMMA StatusIsFillKept ==
    ASSUME RacesInv, StatusIsFill, OrderComes \/ StatusesRest \/ OrderFills
    PROVE  StatusIsFill'
<1>1. orders \in Seq(OrderRows) /\ trades \in Seq(Trade) /\ TablePart
      /\ \A n \in DOMAIN trades : trades[n].orderid \in 1 .. Len(orders)
  BY DEF RacesInv, TablePart
<1>2. CASE OrderComes
  <2>1. PICK row \in OrderRows : row.order_status = "open" /\ orders' = Append(orders, row)
    BY <1>2 DEF OrderComes
  <2>2. trades' = trades /\ \A id : NotYet(id)' <=> NotYet(id)
    BY <1>2 DEF OrderComes, NotYet
  <2>3. /\ Len(orders) \in Nat /\ DOMAIN orders = 1 .. Len(orders)
        /\ DOMAIN orders' = 1 .. Len(orders) + 1
        /\ \A k \in DOMAIN orders : orders'[k] = orders[k]
        /\ orders'[Len(orders) + 1] = row
    BY <1>1, <2>1, RowAppended
  <2>4. NotYet(Len(orders) + 1)
    <3>1. \A n \in DOMAIN trades : trades[n].orderid # Len(orders) + 1
      BY <1>1, <2>3
    <3> QED BY <3>1 DEF NotYet
  <2>5. ASSUME NEW id \in DOMAIN orders'
        PROVE  orders'[id].order_status = IF NotYet(id)' THEN "open" ELSE "complete"
    <3>1. CASE id \in DOMAIN orders
      BY <2>2, <2>3, <3>1 DEF StatusIsFill
    <3>2. CASE id = Len(orders) + 1
      BY <2>1, <2>2, <2>3, <2>4, <3>2
    <3> QED BY <2>3, <3>1, <3>2
  <2> QED BY <2>5 DEF StatusIsFill
<1>3. CASE StatusesRest
  <2>1. trades' = trades /\ \A id : NotYet(id)' <=> NotYet(id)
    BY <1>3 DEF StatusesRest, NotYet
  <2> QED BY <1>3, <2>1 DEF StatusesRest, StatusIsFill
<1>4. CASE OrderFills
  <2>1. PICK id \in DOMAIN orders, trade \in Trade :
           /\ trade.orderid = id /\ trades' = Append(trades, trade)
           /\ orders' = [orders EXCEPT ![id].order_status = "complete"]
    BY <1>4 DEF OrderFills
  <2>2. /\ DOMAIN orders' = DOMAIN orders
        /\ \A n \in DOMAIN orders : n # id => orders'[n] = orders[n]
        /\ orders'[id].order_status = "complete"
    <3>1. "complete" \in OrderStatus
      BY DEF OrderStatus
    <3> QED BY <1>1, <2>1, <3>1, StatusWritten
  <2>3. /\ DOMAIN trades' = 1 .. Len(trades) + 1 /\ DOMAIN trades = 1 .. Len(trades) /\ Len(trades) \in Nat
        /\ \A k \in DOMAIN trades : trades'[k] = trades[k]
        /\ trades'[Len(trades) + 1] = trade
    BY <1>1, <2>1, RowAppended
  <2>4. ~NotYet(id)' /\ \A n : n # id => (NotYet(n)' <=> NotYet(n))
    BY <2>1, <2>3 DEF NotYet
  <2> QED BY <2>2, <2>4 DEF StatusIsFill
<1> QED BY <1>2, <1>3, <1>4

\* Only a request that is placed takes a place, and it gives it up when its row is
\* in the table.
LEMMA RoomKept ==
    ASSUME NEW e, OneFiller(e), IsFiniteSet(Users), RacesInv, FillerInv(e), [Next]_vars
    PROVE  RoomForAll'
<1> DEFINE C == Cardinality(Placing)
<1>1. IsFiniteSet(Placing) /\ C \in Nat /\ Len(orders) \in Nat /\ MaxOrders \in Nat
      /\ orders \in Seq(OrderRows)
  <2>1. Placing \in SUBSET Users
    BY DEF Placing
  <2>2. IsFiniteSet(Placing)
    BY <2>1, FS_Subset
  <2>3. C \in Nat
    BY <2>2, FS_CardinalityType
  <2> QED BY <2>2, <2>3, LenProperties, RacesAssumption DEF RacesInv, TablePart
<1>2. Len(orders) + C <= MaxOrders
  BY DEF FillerInv, RoomForAll
<1>3. ASSUME Len(orders') = Len(orders), Placing' \subseteq Placing PROVE RoomForAll'
  <2>1. IsFiniteSet(Placing') /\ Cardinality(Placing') <= C
    BY <1>1, <1>3, FS_Subset
  <2>2. Cardinality(Placing') \in Nat
    BY <2>1, FS_CardinalityType
  <2>3. Len(orders') + Cardinality(Placing') <= MaxOrders
    BY <1>1, <1>2, <1>3, <2>1, <2>2
  <2> QED BY <2>3 DEF RoomForAll, Placing
<1>4. /\ e \in Threads /\ e \notin Users /\ Users \subseteq Threads /\ ThreadPart
      /\ UsersOnlyAsk /\ EngineOnlyFills(e) /\ NobodyCancels /\ StatusIsFill /\ FillsOnce(e)
  BY Bystanders DEF FillerInv, RacesInv
<1>5. ASSUME StatusesRest PROVE Len(orders') = Len(orders)
  <2>1. orders' \in Seq(OrderRows) /\ DOMAIN orders' = DOMAIN orders
    BY <1>5, RacesNext DEF StatusesRest, RacesInv, TablePart
  <2>2. DOMAIN orders' = 1 .. Len(orders') /\ DOMAIN orders = 1 .. Len(orders) /\ Len(orders') \in Nat
    BY <1>1, <2>1, LenProperties
  <2>3. PICK m \in Nat, n \in Nat : m = Len(orders') /\ n = Len(orders) /\ 1 .. m = 1 .. n
    BY <1>1, <2>1, <2>2
  <2>4. m = n
    <3> HIDE <2>2
    <3>1. m \in 1 .. m => m \in 1 .. n
      BY <2>3
    <3>2. n \in 1 .. n => n \in 1 .. m
      BY <2>3
    <3> QED BY <3>1, <3>2
  <2> QED BY <2>3, <2>4
<1>6. ASSUME NEW t \in Users, Continue(t) PROVE RoomForAll'
  <2>1. t \in Threads /\ \A u \in Users : u # t => local'[u] = local[u]
    BY <1>4, <1>6, OthersStay
  <2>2. CASE Insert(t)
    <3>1. OrderComes
      BY <1>4, <1>6, <2>2, RequestSeen
    <3>2. Len(orders') = Len(orders) + 1
      BY <1>1, <3>1 DEF OrderComes
    <3>3. t \in Placing /\ local'[t].step \in {"idle", "check", "load"}
      BY <1>4, <2>1, <2>2, StepsFollow DEF Placing, Insert, At
    <3>4. Placing' = Placing \ {t}
      BY <2>1, <3>3 DEF Placing
    <3>5. Cardinality(Placing') = C - 1
      BY <1>1, <3>3, <3>4, FS_RemoveElement
    <3>6. Len(orders') + Cardinality(Placing') <= MaxOrders
      BY <1>1, <1>2, <3>2, <3>5
    <3> QED BY <3>6 DEF RoomForAll, Placing
  <2>3. CASE ~Insert(t)
    <3>1. StatusesRest /\ (Block(t) \/ Cancel(t) \/ Modify(t))
      BY <1>4, <1>6, <2>3, RequestSeen, UserGoesOn
    <3>2. t \in Placing' => t \in Placing
      BY <1>4, <2>1, <3>1, StepsFollow DEF Placing, Block, Cancel, Modify, At
    <3>3. Placing' \subseteq Placing
      BY <2>1, <3>2 DEF Placing
    <3> QED BY <1>3, <1>5, <3>1, <3>3
  <2> QED BY <2>2, <2>3
<1>7. CASE Continue(e)
  <2>1. \A u \in Users : local'[u] = local[u]
    BY <1>4, <1>7, OthersStay
  <2>2. Placing' \subseteq Placing
    BY <2>1 DEF Placing
  <2>3. OrderFills \/ StatusesRest
    BY <1>4, <1>7, EngineSeen
  <2>4. CASE OrderFills
    <3>1. PICK id \in DOMAIN orders : orders' = [orders EXCEPT ![id].order_status = "complete"]
      BY <2>4 DEF OrderFills
    <3>2. Len(orders') = Len(orders)
      BY <3>1, StatusWritten DEF RacesInv, OrderStatus
    <3> QED BY <1>3, <2>2, <3>2
  <2> QED BY <1>3, <1>5, <2>2, <2>3, <2>4
<1>8. CASE Poll(e) \/ Tick(e)
  <2>1. \A u \in Users : local'[u] = local[u]
    BY <1>4, <1>8, OthersRest
  <2>2. Placing' \subseteq Placing /\ orders' = orders
    BY <1>8, <2>1 DEF Placing, Poll, Tick, List, book
  <2> QED BY <1>3, <2>2
<1>9. ASSUME NEW t \in Users, StartCancel(t) \/ StartModify(t) PROVE RoomForAll'
  <2>1. \A u \in Users : u # t => local'[u] = local[u]
    BY <1>4, <1>9, OthersRest
  <2>2. local'[t].step \in {"cancel", "modify"}
    BY <1>4, <1>9, AskedStep
  <2>3. Placing' \subseteq Placing
    BY <2>1, <2>2 DEF Placing
  <2>4. orders' = orders
    BY <1>9 DEF StartCancel, StartModify, book
  <2> QED BY <1>3, <2>3, <2>4
<1>10. ASSUME NEW t \in Users, Place(t) PROVE RoomForAll'
  <2>1. \A u \in Users : u # t => local'[u] = local[u]
    BY <1>4, <1>10, OthersRest
  <2>2. local'[t].step \in {"block", "insert"}
    BY <1>4, <1>10, AskedStep
  <2>3. t \notin Placing /\ orders' = orders /\ Len(orders) + C < MaxOrders
    BY <1>10 DEF Placing, Place, At, book
  <2>4. Placing' = Placing \cup {t}
    BY <2>1, <2>2 DEF Placing
  <2>5. Cardinality(Placing') = C + 1
    BY <1>1, <2>3, <2>4, FS_AddElement
  <2>6. Len(orders') + Cardinality(Placing') <= MaxOrders
    BY <1>1, <2>3, <2>5
  <2> QED BY <2>6 DEF RoomForAll, Placing
<1>11. CASE Crash
  <2>1. \A u \in Users : local'[u].step = "idle"
    BY <1>4, <1>11 DEF Crash, Idle
  <2>2. Placing' \subseteq Placing /\ orders' = orders
    BY <1>11, <2>1 DEF Placing, Crash, book
  <2> QED BY <1>3, <2>2
<1>12. CASE UNCHANGED records
  BY <1>3, <1>12 DEF records, Placing
<1> QED BY <1>6, <1>7, <1>8, <1>9, <1>10, <1>11, <1>12, OneFillerStep

\* A batch starts with a check.
LEMMA ListStep ==
    ASSUME ThreadPart, NEW t \in Threads, Poll(t) \/ Tick(t)
    PROVE  local'[t].step = "check"
<1>1. PICK ids, quotes : List(t, ids, quotes)
  BY DEF Poll, Tick
<1>2. PICK ltp \in quotes, listed \in SetToSeqs(ids) :
        local' = [local EXCEPT ![t] = [Idle EXCEPT !.step = "check", !.queue = listed,
                                           !.loaded = [id \in ids |-> orders[id]], !.quote = ltp]]
  BY <1>1 DEF List
<1> DEFINE next == [Idle EXCEPT !.step = "check", !.queue = listed,
                                !.loaded = [id \in ids |-> orders[id]], !.quote = ltp]
<1>3. next.step = "check" /\ local' = [local EXCEPT ![t] = next]
  BY <1>2 DEF Idle
<1> HIDE DEF next
<1> QED BY <1>3 DEF ThreadPart

\* What the engine has in hand stays unfilled until it fills it.
LEMMA FillsOnceKept ==
    ASSUME NEW e, OneFiller(e), RacesInv, FillerInv(e), [Next]_vars
    PROVE  FillsOnce(e)' /\ EngineOnlyFills(e)'
<1>1. /\ e \in Threads /\ e \notin Users /\ Users \subseteq Threads /\ ThreadPart
      /\ UsersOnlyAsk /\ EngineOnlyFills(e) /\ NobodyCancels /\ StatusIsFill /\ FillsOnce(e)
      /\ local \in [Threads -> LocalRecords] /\ local[e] \in LocalRecords
  BY Bystanders DEF FillerInv, RacesInv, ThreadPart
<1>2. ASSUME local'[e] = local[e], UNCHANGED <<trades, position>>
      PROVE  FillsOnce(e)' /\ EngineOnlyFills(e)'
  <2>1. NotYet(Head(local[e].queue)) => NotYet(Head(local[e].queue))'
    BY <1>2 DEF NotYet
  <2> QED BY <1>1, <1>2, <2>1 DEF FillsOnce, EngineOnlyFills
<1>3. ASSUME local'[e].step \in {"idle", "check", "net", "validate", "reconcile", "reconcile_write"}
      PROVE  FillsOnce(e)' /\ EngineOnlyFills(e)'
  BY <1>3 DEF FillsOnce, EngineOnlyFills
<1>4. ASSUME NEW t \in Users, Continue(t) PROVE FillsOnce(e)' /\ EngineOnlyFills(e)'
  <2>1. local'[e] = local[e]
    BY <1>1, <1>4, OthersStay
  <2>2. UNCHANGED <<trades, position>>
    BY <1>1, <1>4, RequestSeen DEF OrderComes, StatusesRest
  <2> QED BY <1>2, <2>1, <2>2
<1>5. CASE Continue(e)
  <2>1. ~LoseInsert(e) /\ ~Load(e) /\ ~Insert(e) /\ ~Block(e) /\ ~Cancel(e) /\ ~Modify(e)
    BY <1>1, <1>5, EngineSeen
  <2>2. CASE SkipTraded(e) \/ LeaveResting(e) \/ Fill(e) \/ WritePosition(e) \/ Validate(e)
    BY <1>1, <1>3, <2>2, StepsFollow
  <2>3. CASE Reconcile(e) \/ ReconcileWrite(e)
    BY <1>1, <1>3, <2>3, StepsFollow
  <2>4. CASE Decide(e)
    <3>1. local'[e].step = "fill"
      BY <1>1, <2>4, StepsFollow
    <3>2. NotYet(Head(local[e].queue)) /\ trades' = trades
      BY <2>4 DEF Decide, book
    <3>3. local'[e].queue = local[e].queue
      <4>1. PICK price, loaded :
              local' = [local EXCEPT ![e].step = "fill", ![e].price = price, ![e].loaded = loaded]
        BY <2>4 DEF Decide
      <4> QED BY <1>1, <4>1 DEF LocalRecords
    <3>4. NotYet(Head(local[e].queue))'
      BY <3>2, <3>3 DEF NotYet
    <3> QED BY <3>1, <3>4 DEF FillsOnce, EngineOnlyFills
  <2>5. CASE ReadPosition(e)
    <3>1. local'[e].step \in {"release", "write"} /\ position' = position
      BY <1>1, <2>5, StepsFollow DEF ReadPosition, book
    <3>2. local'[e].held = position
      <4>1. PICK step \in {"release", "write"} : \E loaded :
              local' = [local EXCEPT ![e].step = step, ![e].held = position, ![e].loaded = loaded]
        BY <2>5 DEF ReadPosition
      <4> QED BY <1>1, <4>1 DEF LocalRecords
    <3> QED BY <3>1, <3>2 DEF FillsOnce, EngineOnlyFills
  <2>6. CASE Release(e)
    <3> DEFINE realized == Realized(local[e].held, Closes(e), local[e].price)
    <3>1. local'[e].step = "write" /\ local[e].step = "release"
      BY <1>1, <2>6, StepsFollow DEF Release, At
    <3>2. local'[e].held = local[e].held
      BY <1>1, <2>6 DEF Release, LocalRecords
    <3>3. position' = position \/ position' = Written(position, local[e].held, realized)
      BY <2>6 DEF Release
    <3>4. /\ local[e].held \in Position /\ position \in Position
          /\ realized.average_price = local[e].held.average_price
      <4>1. local[e].held \in Position /\ position \in Position
        BY <1>1, <3>1, ClosesTyped DEF RacesInv, TablePart
      <4> QED BY <4>1 DEF Realized, Position
    <3> HIDE DEF realized
    <3>5. Written(position, local[e].held, realized).average_price = position.average_price
      BY <3>4 DEF Written, Position
    <3>6. Exists(position)' => Exists(position)
      BY <3>3, <3>5 DEF Exists
    <3>7. Exists(position) => Exists(local[e].held)
      BY <1>1, <3>1 DEF FillsOnce
    <3>8. Exists(position)' => Exists(local[e].held)'
      BY <3>2, <3>6, <3>7 DEF Exists
    <3> QED BY <3>1, <3>8 DEF FillsOnce, EngineOnlyFills
  <2> QED BY <1>5, <2>1, <2>2, <2>3, <2>4, <2>5, <2>6 DEF Continue
<1>6. CASE Poll(e) \/ Tick(e)
  BY <1>1, <1>3, <1>6, ListStep
<1>7. ASSUME NEW t \in Users, Place(t) \/ StartCancel(t) \/ StartModify(t)
      PROVE  FillsOnce(e)' /\ EngineOnlyFills(e)'
  <2>1. local'[e] = local[e]
    BY <1>1, <1>7, OthersRest
  <2>2. UNCHANGED <<trades, position>>
    BY <1>7 DEF Place, StartCancel, StartModify, book
  <2> QED BY <1>2, <2>1, <2>2
<1>8. CASE Crash
  <2>1. local'[e] = Idle /\ Idle.step = "idle"
    BY <1>1, <1>8 DEF Crash, Idle
  <2> QED BY <1>3, <2>1
<1>9. CASE UNCHANGED records
  BY <1>2, <1>9 DEF records
<1> QED BY <1>4, <1>5, <1>6, <1>7, <1>8, <1>9, OneFillerStep

\* Nobody begins to cancel where no handler cancels.
LEMMA NobodyBegins ==
    ASSUME NEW e, OneFiller(e), "cancel" \notin Handlers, RacesInv, UsersOnlyAsk, NobodyCancels,
           [Next]_vars
    PROVE  NobodyCancels'
<1> SUFFICES ASSUME NEW t \in Users PROVE local'[t].step # "cancel"
  BY DEF NobodyCancels
<1>1. /\ e \in Threads /\ e # t /\ t \in Threads /\ Users \subseteq Threads /\ ThreadPart
      /\ local[t].step # "cancel"
  BY Bystanders DEF RacesInv, NobodyCancels
<1>2. CASE local'[t] = local[t]
  BY <1>1, <1>2
<1>3. ASSUME NEW u \in Users, Continue(u) PROVE local'[t].step # "cancel"
  <2>1. CASE u = t
    <3>1. Block(t) \/ Insert(t) \/ Cancel(t) \/ Modify(t)
      BY <1>1, <1>3, <2>1, UserGoesOn
    <3> QED BY <1>1, <3>1, StepsFollow
  <2> QED BY <1>1, <1>2, <1>3, <2>1, OthersStay
<1>4. CASE Continue(e)
  BY <1>1, <1>2, <1>4, OthersStay
<1>5. CASE Poll(e) \/ Tick(e)
  BY <1>1, <1>2, <1>5, OthersRest
<1>6. ASSUME NEW u \in Users, Place(u) \/ StartCancel(u) \/ StartModify(u) PROVE local'[t].step # "cancel"
  <2>1. CASE u = t
    BY <1>1, <1>6, <2>1, AskedStep
  <2> QED BY <1>1, <1>2, <1>6, <2>1, OthersRest
<1>7. CASE Crash
  BY <1>1, <1>7 DEF Crash, Idle
<1>8. CASE UNCHANGED records
  BY <1>2, <1>8 DEF records
<1> QED BY <1>3, <1>4, <1>5, <1>6, <1>7, <1>8, OneFillerStep

\* Every step of the system is one of these, for the orders and their trades.
LEMMA OrdersSeen ==
    ASSUME NEW e, OneFiller(e), RacesInv, FillerInv(e), [Next]_vars
    PROVE  OrderComes \/ StatusesRest \/ OrderFills
<1>1. /\ e \in Threads /\ Users \subseteq Threads
      /\ UsersOnlyAsk /\ EngineOnlyFills(e) /\ NobodyCancels /\ StatusIsFill /\ FillsOnce(e)
  BY Bystanders DEF FillerInv
<1>2. ASSUME UNCHANGED book PROVE StatusesRest
  BY <1>2 DEF book, StatusesRest
<1>3. ASSUME NEW t \in Users, Continue(t) PROVE OrderComes \/ StatusesRest
  BY <1>1, <1>3, RequestSeen
<1>4. CASE Continue(e)
  BY <1>1, <1>4, EngineSeen
<1>5. CASE Poll(e) \/ Tick(e)
  BY <1>2, <1>5 DEF Poll, Tick, List
<1>6. ASSUME NEW t \in Users, Place(t) \/ StartCancel(t) \/ StartModify(t) PROVE StatusesRest
  BY <1>2, <1>6 DEF Place, StartCancel, StartModify
<1>7. CASE Crash
  BY <1>2, <1>7 DEF Crash
<1>8. CASE UNCHANGED records
  BY <1>2, <1>8 DEF records, book
<1> QED BY <1>3, <1>4, <1>5, <1>6, <1>7, <1>8, OneFillerStep

LEMMA FillerNext ==
    ASSUME NEW e, OneFiller(e), IsFiniteSet(Users), "cancel" \notin Handlers,
           RacesInv, FillerInv(e), [Next]_vars
    PROVE  FillerInv(e)'
<1>1. UsersOnlyAsk /\ NobodyCancels /\ StatusIsFill
  BY DEF FillerInv
<1>2. UsersOnlyAsk'
  BY <1>1, UsersGoOnAsking
<1>3. FillsOnce(e)' /\ EngineOnlyFills(e)'
  BY FillsOnceKept
<1>4. NobodyCancels'
  BY <1>1, NobodyBegins
<1>5. StatusIsFill'
  BY <1>1, OrdersSeen, StatusIsFillKept
<1>6. RoomForAll'
  BY RoomKept
<1> QED BY <1>2, <1>3, <1>4, <1>5, <1>6 DEF FillerInv

\* Each of these steps is a step of OrderLifecycle, or none.
LEMMA LifecycleFollows ==
    ASSUME RacesInv, StatusIsFill, Len(orders) <= MaxOrders, Len(orders') <= MaxOrders,
           OrderComes \/ StatusesRest \/ OrderFills
    PROVE  [Lifecycle!Next]_(Lifecycle!lifecycle)
<1>1. /\ orders \in Seq(OrderRows) /\ trades \in Seq(Trade) /\ TablePart /\ MaxOrders \in Nat
      /\ Len(orders) \in Nat /\ DOMAIN orders = 1 .. Len(orders)
  BY LenProperties, RacesAssumption DEF RacesInv, TablePart
<1>2. CASE OrderComes
  <2>1. PICK row \in OrderRows : row.order_status = "open" /\ orders' = Append(orders, row)
    BY <1>2 DEF OrderComes
  <2>2. PICK n \in Nat : n = Len(orders) + 1
    BY <1>1
  <2>3. /\ DOMAIN orders' = DOMAIN orders \cup {n} /\ n \notin DOMAIN orders
        /\ \A k \in DOMAIN orders : orders'[k] = orders[k]
        /\ orders'[n] = row
    BY <1>1, <2>1, <2>2, RowAppended
  <2>4. n \in 1 .. MaxOrders
    <3>1. Len(orders') = n
      BY <1>1, <2>1, <2>2
    <3> QED BY <1>1, <2>2, <3>1
  <2>5. StatusOf[n] = "none"
    BY <2>3, <2>4 DEF StatusOf
  <2>6. StatusOf' = [StatusOf EXCEPT ![n] = "open"]
    BY <2>1, <2>3, <2>4 DEF StatusOf
  <2>7. UNCHANGED FillsInOrder
    BY <1>2 DEF OrderComes, FillsInOrder
  <2> QED BY <2>4, <2>5, <2>6, <2>7 DEF Lifecycle!Next, Lifecycle!Accept, Lifecycle!Becomes
<1>3. CASE StatusesRest
  <2>1. StatusOf' = StatusOf
    BY <1>3 DEF StatusesRest, StatusOf
  <2>2. FillsInOrder' = FillsInOrder
    BY <1>3 DEF StatusesRest, FillsInOrder
  <2> QED BY <2>1, <2>2 DEF Lifecycle!lifecycle
<1>4. CASE OrderFills
  <2>1. PICK id \in DOMAIN orders, trade \in Trade :
           /\ trade.orderid = id /\ NotYet(id) /\ trades' = Append(trades, trade)
           /\ orders' = [orders EXCEPT ![id].order_status = "complete"]
    BY <1>4 DEF OrderFills
  <2>2. /\ DOMAIN orders' = DOMAIN orders
        /\ \A n \in DOMAIN orders : n # id => orders'[n] = orders[n]
        /\ orders'[id].order_status = "complete"
    <3>1. "complete" \in OrderStatus
      BY DEF OrderStatus
    <3> QED BY <1>1, <2>1, <3>1, StatusWritten
  <2>3. id \in 1 .. MaxOrders
    BY <1>1, <2>1
  <2>4. StatusOf[id] = "open"
    BY <2>1, <2>3 DEF StatusOf, StatusIsFill
  <2>5. StatusOf' = [StatusOf EXCEPT ![id] = "complete"]
    BY <2>1, <2>2, <2>3 DEF StatusOf
  <2>6. FillsInOrder' = Append(FillsInOrder, id)
    <3>1. \A r \in Trade : r.orderid \in Nat
      BY DEF Trade
    <3>2. [n \in DOMAIN Append(trades, trade) |-> Append(trades, trade)[n].orderid]
              = Append([n \in DOMAIN trades |-> trades[n].orderid], trade.orderid)
      BY <1>1, <3>1, ColumnAppended
    <3> QED BY <2>1, <3>2 DEF FillsInOrder
  <2> QED BY <2>3, <2>4, <2>5, <2>6 DEF Lifecycle!Next, Lifecycle!Fill, Lifecycle!Becomes
<1> QED BY <1>2, <1>3, <1>4

\* Where one engine does all the filling and nobody cancels, the interleaved
\* threads still implement OrderLifecycle: whatever a session remembers, and
\* however often the process dies between two commits, an order is accepted once
\* and filled at most once, and every trade is the fill of an open order.
THEOREM OneEngineImplementsLifecycle ==
    ASSUME NEW e, OneFiller(e), IsFiniteSet(Users), "cancel" \notin Handlers
    PROVE  Spec => ImplementsLifecycle
<1>1. Init => Lifecycle!Init
  BY DEF Init, Lifecycle!Init, StatusOf, FillsInOrder
<1>2. Init => FillerInv(e)
  <2> SUFFICES ASSUME Init PROVE FillerInv(e)
    OBVIOUS
  <2>1. e \in Threads /\ Users \subseteq Threads /\ \A t \in Threads : local[t] = Idle
    BY Bystanders DEF Init
  <2>2. Idle.step = "idle" /\ Idle.quote = NoPrice
    BY DEF Idle
  <2>3. UsersOnlyAsk /\ EngineOnlyFills(e) /\ NobodyCancels /\ FillsOnce(e)
    BY <2>1, <2>2 DEF UsersOnlyAsk, EngineOnlyFills, NobodyCancels, FillsOnce
  <2>4. StatusIsFill
    BY DEF Init, StatusIsFill
  <2>5. RoomForAll
    <3>1. Placing = {}
      BY <2>1, <2>2 DEF Placing
    <3> QED BY <3>1, FS_EmptySet, RacesAssumption DEF Init, RoomForAll
  <2> QED BY <2>3, <2>4, <2>5 DEF FillerInv
<1>3. RacesInv /\ FillerInv(e) /\ [Next]_vars => FillerInv(e)'
  BY FillerNext
<1>4. RacesInv /\ FillerInv(e) /\ RacesInv' /\ FillerInv(e)' /\ [Next]_vars
          => [Lifecycle!Next]_(Lifecycle!lifecycle)
  <2> SUFFICES ASSUME RacesInv, FillerInv(e), RacesInv', FillerInv(e)', [Next]_vars
               PROVE  [Lifecycle!Next]_(Lifecycle!lifecycle)
    OBVIOUS
  <2>1. ASSUME NEW m \in Nat, NEW S, IsFiniteSet(S), m + Cardinality(S) <= MaxOrders
        PROVE  m <= MaxOrders
    <3>1. Cardinality(S) \in Nat
      BY <2>1, FS_CardinalityType
    <3> QED BY <2>1, <3>1, RacesAssumption
  <2>2. Len(orders) <= MaxOrders
    <3>1. Placing \in SUBSET Users /\ Len(orders) \in Nat
      BY LenProperties DEF Placing, RacesInv, TablePart
    <3>2. IsFiniteSet(Placing)
      BY <3>1, FS_Subset
    <3> QED BY <2>1, <3>1, <3>2 DEF FillerInv, RoomForAll
  <2>3. Len(orders') <= MaxOrders
    <3>1. Placing' \in SUBSET Users /\ Len(orders') \in Nat
      BY LenProperties DEF Placing, RacesInv, TablePart
    <3>2. IsFiniteSet(Placing')
      BY <3>1, FS_Subset
    <3>3. Len(orders') + Cardinality(Placing') <= MaxOrders
      BY DEF FillerInv, RoomForAll, Placing
    <3> QED BY <2>1, <3>1, <3>2, <3>3
  <2>4. OrderComes \/ StatusesRest \/ OrderFills
    BY OrdersSeen
  <2> QED BY <2>2, <2>3, <2>4, LifecycleFollows DEF FillerInv
<1> QED BY <1>1, <1>2, <1>3, <1>4, RacesInvariant, PTL DEF Spec, ImplementsLifecycle, Lifecycle!Spec

-----------------------------------------------------------------------------
(***************************************************************************)
(* One thread does all the filling, nobody modifies and nothing crashes:   *)
(* the position is what was traded.  Between the commit of the trade and   *)
(* that of the position the order in hand is traded and not yet netted;    *)
(* what the engine nets is what it traded, because the rows it holds and   *)
(* the rows in the table agree in what they trade, and what it nets into   *)
(* is the position, because nobody else writes it.                         *)
(***************************************************************************)

Traded(row) == Signed(row.action, row.quantity)

NobodyModifies == \A t \in Users : local[t].step # "modify"

RowsAsStored(e) ==
    \A id \in DOMAIN local[e].loaded :
        /\ id \in DOMAIN orders
        /\ local[e].loaded[id].action = orders[id].action
        /\ local[e].loaded[id].quantity = orders[id].quantity

HeldIsPosition(e) ==
    local[e].step \in {"release", "write"} =>
        /\ local[e].held.quantity = position.quantity
        /\ local[e].held.average_price = position.average_price

InFlight(e) == IF local[e].step \in {"net", "release", "write"}
               THEN Traded(orders[Head(local[e].queue)]) ELSE 0

TradesAreNetted(e) == NetTraded = position.quantity + InFlight(e)

NettingInv(e) ==
    /\ UsersOnlyAsk /\ EngineOnlyFills(e) /\ NobodyModifies
    /\ RowsAsStored(e) /\ HeldIsPosition(e) /\ TradesAreNetted(e)

\* No step changes what the orders in the table trade.
OrdersKeepTerms ==
    \A id \in DOMAIN orders : /\ id \in DOMAIN orders'
                              /\ orders'[id].action = orders[id].action
                              /\ orders'[id].quantity = orders[id].quantity

LEMMA StatusKeepsTerms ==
    ASSUME TablePart, NEW id \in DOMAIN orders, NEW s,
           orders' = [orders EXCEPT ![id].order_status = s]
    PROVE  OrdersKeepTerms
<1>1. \A n \in DOMAIN orders : orders[n] \in OrderRows
  BY ElementOfSeq, LenProperties DEF TablePart
<1> QED BY <1>1 DEF OrdersKeepTerms, OrderRows

LEMMA AppendKeepsTerms ==
    ASSUME TablePart, NEW row \in OrderRows, orders' = Append(orders, row)
    PROVE  OrdersKeepTerms
<1>1. orders \in Seq(OrderRows)
  BY DEF TablePart
<1>2. /\ DOMAIN orders = 1 .. Len(orders) /\ Len(orders) \in Nat
      /\ DOMAIN orders' = 1 .. Len(orders) + 1
      /\ \A k \in DOMAIN orders : orders'[k] = orders[k]
  BY <1>1, RowAppended, LenProperties
<1> QED BY <1>2 DEF OrdersKeepTerms

LEMMA ContinueKeepsTerms ==
    ASSUME RacesInv, NEW t \in Threads, Continue(t), ~Modify(t)
    PROVE  OrdersKeepTerms
<1>1. TablePart
  BY DEF RacesInv
<1>2. CASE orders' = orders
  BY <1>2 DEF OrdersKeepTerms
<1>3. ASSUME NEW s, local[t].step \in HasOrder,
             orders' = [orders EXCEPT ![Head(local[t].queue)].order_status = s]
      PROVE  OrdersKeepTerms
  <2>1. Head(local[t].queue) \in DOMAIN orders
    BY <1>3, InHand
  <2> QED BY <1>1, <1>3, <2>1, StatusKeepsTerms
<1>4. CASE Insert(t)
  <2>1. PICK row \in OrderRows : orders' = Append(orders, row)
    BY <1>4, InsertKeeps
  <2> QED BY <1>1, <2>1, AppendKeepsTerms
<1>5. CASE Cancel(t) \/ Fill(t) \/ LoseInsert(t)
  <2>1. local[t].step \in HasOrder
    BY <1>5 DEF Cancel, Fill, LoseInsert, At, HasOrder
  <2>2. \/ orders' = [orders EXCEPT ![Head(local[t].queue)].order_status = "cancelled"]
        \/ orders' = [orders EXCEPT ![Head(local[t].queue)].order_status = "complete"]
        \/ orders' = [orders EXCEPT ![Head(local[t].queue)].order_status = "rejected"]
    BY <1>5 DEF Cancel, Fill, LoseInsert
  <2> QED BY <1>3, <2>1, <2>2
<1>6. CASE SkipTraded(t)
  BY <1>2, <1>3, <1>6 DEF SkipTraded, At, HasOrder
<1>7. CASE Block(t) \/ Load(t) \/ LeaveResting(t) \/ Decide(t) \/ ReadPosition(t)
  BY <1>2, <1>7 DEF Block, Load, LeaveResting, Decide, ReadPosition, book
<1>8. CASE Release(t) \/ WritePosition(t) \/ Validate(t) \/ Reconcile(t) \/ ReconcileWrite(t)
  BY <1>2, <1>8 DEF Release, WritePosition, Validate, Reconcile, ReconcileWrite, book
<1> QED BY <1>4, <1>5, <1>6, <1>7, <1>8 DEF Continue

\* Going on with the batch keeps some of the loaded rows, or none.
LEMMA ProceedLoads ==
    ASSUME ThreadPart, NEW t \in Threads, NEW loaded, Proceed(t, loaded)
    PROVE  local'[t].loaded \in {loaded, <<>>} /\ local'[t].step \in {"idle", "check"}
<1>1. local \in [Threads -> LocalRecords]
  BY DEF ThreadPart
<1> DEFINE next == [Idle EXCEPT !.step = "check", !.queue = Tail(local[t].queue),
                                !.loaded = loaded, !.quote = local[t].quote]
<1>2. local' = [local EXCEPT ![t] = Idle] \/ local' = [local EXCEPT ![t] = next]
  BY DEF Proceed
<1>3. next.step = "check" /\ next.loaded = loaded /\ Idle.step = "idle" /\ Idle.loaded = <<>>
  BY DEF Idle
<1> HIDE DEF next
<1> QED BY <1>1, <1>2, <1>3

\* A trade adds its quantity to what was traded.
LEMMA NetTradedGrows ==
    ASSUME trades \in Seq(Trade), NEW trade \in Trade, trades' = Append(trades, trade)
    PROVE  NetTraded' = NetTraded + trade.quantity
<1>1. PICK S, end, f, h : /\ S = DOMAIN trades /\ end = Len(trades) + 1
                          /\ f = QuantityIn(trades) /\ h = QuantityIn(trades')
  OBVIOUS
<1>2. \A r \in Trade : r.quantity \in Int
  BY DEF Trade
<1>3. /\ IsFiniteSet(S) /\ end \notin S /\ DOMAIN trades' = S \cup {end}
      /\ \A t \in S : f[t] \in Int /\ h[t] \in Int /\ h[t] = f[t]
      /\ h[end] = trade.quantity /\ h[end] \in Int
  BY <1>1, <1>2, QuantityAppended
<1>4. SumFunctionOnSet(h, S) = SumFunctionOnSet(f, S)
  BY <1>3, SumOfSameValues
<1>5. SumFunctionOnSet(h, S \cup {end}) = SumFunctionOnSet(h, S) + h[end]
  BY <1>3, SumWithOneMore
<1>6. NetTraded = SumFunctionOnSet(f, S)
  BY <1>1 DEF NetTraded, QuantityIn
<1>7. NetTraded' = SumFunctionOnSet(h, DOMAIN trades')
  BY <1>1 DEF NetTraded, QuantityIn
<1> QED BY <1>3, <1>4, <1>5, <1>6, <1>7

\* Writing what a fill makes of a row, column by column, keeps the other columns.
LEMMA WrittenTerms ==
    ASSUME NEW current \in Position, NEW old \in Position, NEW new \in Position,
           old.quantity = current.quantity, old.average_price = current.average_price
    PROVE  /\ Written(current, old, new).quantity = new.quantity
           /\ Written(current, old, new).average_price = new.average_price
<1> DEFINE columns == {"quantity", "average_price", "margin_blocked", "accumulated_realized_pnl",
                       "today_realized_pnl", "created_today"}
<1>1. DOMAIN current = columns
  BY DEF Position
<1>2. Written(current, old, new) = [c \in columns |-> IF new[c] # old[c] THEN new[c] ELSE current[c]]
  BY <1>1 DEF Written
<1> QED BY <1>2 DEF Position

\* Rows that stay in the session, of orders that keep their terms.
LEMMA RowsStay ==
    ASSUME NEW e, RowsAsStored(e), OrdersKeepTerms, local'[e].loaded \in {local[e].loaded, <<>>}
    PROVE  RowsAsStored(e)'
<1>1. CASE local'[e].loaded = <<>>
  <2>1. DOMAIN local'[e].loaded = {}
    BY <1>1
  <2> QED BY <2>1 DEF RowsAsStored
<1>2. CASE local'[e].loaded = local[e].loaded
  BY <1>2 DEF RowsAsStored, OrdersKeepTerms
<1> QED BY <1>1, <1>2

\* What does not touch the trades, the position and the engine keeps them together.
LEMMA QuietNets ==
    ASSUME NEW e \in Threads, RacesInv, RowsAsStored(e), HeldIsPosition(e), TradesAreNetted(e),
           UNCHANGED <<trades, position>>, local'[e] = local[e], OrdersKeepTerms
    PROVE  RowsAsStored(e)' /\ HeldIsPosition(e)' /\ TradesAreNetted(e)'
<1>1. RowsAsStored(e)'
  BY RowsStay
<1>2. HeldIsPosition(e)'
  BY DEF HeldIsPosition
<1>3. NetTraded' = NetTraded
  BY DEF NetTraded
<1>4. InFlight(e)' = InFlight(e)
  <2>1. CASE local[e].step \in {"net", "release", "write"}
    <3>1. local[e].step \in HasOrder
      BY <2>1 DEF HasOrder
    <3>2. Head(local[e].queue) \in DOMAIN orders
      BY <3>1, InHand
    <3>3. /\ orders'[Head(local[e].queue)].action = orders[Head(local[e].queue)].action
          /\ orders'[Head(local[e].queue)].quantity = orders[Head(local[e].queue)].quantity
      BY <3>2 DEF OrdersKeepTerms
    <3> QED BY <2>1, <3>3 DEF InFlight, Traded
  <2> QED BY <2>1 DEF InFlight
<1> QED BY <1>1, <1>2, <1>3, <1>4 DEF TradesAreNetted

\* An engine with no trade in flight before and after leaves the sum as it is.
LEMMA NothingInFlight ==
    ASSUME NEW e, TradesAreNetted(e), UNCHANGED <<trades, position>>,
           local[e].step \notin {"net", "release", "write"},
           local'[e].step \notin {"net", "release", "write"}
    PROVE  HeldIsPosition(e)' /\ TradesAreNetted(e)'
<1>1. NetTraded' = NetTraded
  BY DEF NetTraded
<1>2. InFlight(e) = 0 /\ InFlight(e)' = 0
  BY DEF InFlight
<1> QED BY <1>1, <1>2 DEF HeldIsPosition, TradesAreNetted

\* Going through a batch without filling.
LEMMA BatchNets ==
    ASSUME NEW e \in Threads, RacesInv, RowsAsStored(e), TradesAreNetted(e),
           SkipTraded(e) \/ LeaveResting(e) \/ Validate(e) \/ Reconcile(e) \/ ReconcileWrite(e)
    PROVE  RowsAsStored(e)' /\ HeldIsPosition(e)' /\ TradesAreNetted(e)'
<1>1. /\ ThreadPart /\ local[e] \in LocalRecords /\ local \in [Threads -> LocalRecords]
      /\ e \in Threads
  BY DEF RacesInv, ThreadPart
<1>2. OrdersKeepTerms
  <2>1. Continue(e) /\ ~Modify(e)
    BY DEF Continue, Modify, SkipTraded, LeaveResting, Validate, Reconcile, ReconcileWrite, At
  <2> QED BY <2>1, ContinueKeepsTerms
<1>3. UNCHANGED <<trades, position>>
  BY DEF SkipTraded, LeaveResting, Validate, Reconcile, ReconcileWrite, book
<1>4. local[e].step \notin {"net", "release", "write"}
  BY DEF SkipTraded, LeaveResting, Validate, Reconcile, ReconcileWrite, At
<1>5. local'[e].step \notin {"net", "release", "write"}
  BY <1>1, StepsFollow
<1>6. local'[e].loaded \in {local[e].loaded, <<>>}
  <2>1. CASE SkipTraded(e)
    <3>1. Proceed(e, <<>>) \/ Proceed(e, local[e].loaded)
      BY <2>1 DEF SkipTraded
    <3> QED BY <1>1, <3>1, ProceedLoads
  <2>2. CASE LeaveResting(e)
    BY <1>1, <2>2, ProceedLoads DEF LeaveResting
  <2>3. CASE Validate(e)
    <3>1. PICK m : local' = [local EXCEPT ![e].step = "reconcile", ![e].margin = m]
      BY <2>3 DEF Validate
    <3> QED BY <1>1, <3>1 DEF LocalRecords
  <2>4. CASE Reconcile(e)
    <3>1. CASE Proceed(e, <<>>)
      BY <1>1, <3>1, ProceedLoads
    <3>2. CASE local' = [local EXCEPT ![e].step = "reconcile_write", ![e].seen = funds]
      BY <1>1, <3>2 DEF LocalRecords
    <3> QED BY <2>4, <3>1, <3>2 DEF Reconcile
  <2>5. CASE ReconcileWrite(e)
    BY <1>1, <2>5, ProceedLoads DEF ReconcileWrite
  <2> QED BY <2>1, <2>2, <2>3, <2>4, <2>5
<1>7. RowsAsStored(e)'
  BY <1>2, <1>6, RowsStay
<1> QED BY <1>3, <1>4, <1>5, <1>7, NothingInFlight

\* A row more in the session, as it is in the table or as the session had it.
LEMMA RowHeld ==
    ASSUME NEW e, NEW f, NEW id \in DOMAIN orders, NEW row,
           row.action = orders[id].action, row.quantity = orders[id].quantity,
           \A n \in DOMAIN f : /\ n \in DOMAIN orders
                               /\ f[n].action = orders[n].action
                               /\ f[n].quantity = orders[n].quantity,
           orders' = orders, local'[e].loaded = Holding(f, id, row)
    PROVE  RowsAsStored(e)'
BY DEF RowsAsStored, Holding

LEMMA DecideNets ==
    ASSUME NEW e \in Threads, RacesInv, RowsAsStored(e), TradesAreNetted(e), Decide(e)
    PROVE  RowsAsStored(e)' /\ HeldIsPosition(e)' /\ TradesAreNetted(e)'
<1>1. /\ ThreadPart /\ local[e] \in LocalRecords /\ local \in [Threads -> LocalRecords]
      /\ local[e].step = "check" /\ local[e].step \in HasOrder
  BY DEF RacesInv, ThreadPart, Decide, At, HasOrder
<1>2. orders' = orders /\ UNCHANGED <<trades, position>>
  BY DEF Decide, book
<1>3. local'[e].step = "fill"
  BY <1>1, StepsFollow
<1>4. PICK id : id = Head(local[e].queue)
  OBVIOUS
<1>5. id \in DOMAIN orders
  BY <1>1, <1>4, InHand
<1>6. PICK row : row = Loaded(e, id)
  OBVIOUS
<1>7. row.action = orders[id].action /\ row.quantity = orders[id].quantity
  BY <1>6 DEF Loaded, RowsAsStored
<1>8. PICK price : local' = [local EXCEPT ![e].step = "fill", ![e].price = price,
                                          ![e].loaded = Holding(@, id, row)]
  BY <1>4, <1>6 DEF Decide
<1>9. local'[e].loaded = Holding(local[e].loaded, id, row)
  BY <1>1, <1>8 DEF LocalRecords
<1>10. RowsAsStored(e)'
  <2>1. \A n \in DOMAIN local[e].loaded : /\ n \in DOMAIN orders
                                          /\ local[e].loaded[n].action = orders[n].action
                                          /\ local[e].loaded[n].quantity = orders[n].quantity
    BY DEF RowsAsStored
  <2> QED BY <1>2, <1>5, <1>7, <1>9, <2>1, RowHeld
<1> QED BY <1>1, <1>2, <1>3, <1>10, NothingInFlight

\* The trade of a fill is what the order in the table trades.
LEMMA FillNets ==
    ASSUME NEW e \in Threads, RacesInv, RowsAsStored(e), TradesAreNetted(e), Fill(e)
    PROVE  RowsAsStored(e)' /\ HeldIsPosition(e)' /\ TradesAreNetted(e)'
<1>1. /\ ThreadPart /\ local[e] \in LocalRecords /\ local \in [Threads -> LocalRecords]
      /\ TablePart /\ local[e].step = "fill" /\ local[e].step \in HasOrder /\ local[e].step \in HasRow
  BY DEF RacesInv, ThreadPart, Fill, At, HasOrder, HasRow
<1>2. PICK id, row, trade : /\ id = Head(local[e].queue) /\ row = local[e].loaded[id]
                            /\ trade = [orderid |-> id, quantity |-> Traded(row), price |-> local[e].price]
  OBVIOUS
<1>3. /\ id \in DOMAIN orders /\ id \in Nat \ {0} /\ row \in OrderRows /\ id \in DOMAIN local[e].loaded
  <2>1. id \in DOMAIN orders /\ DOMAIN orders = 1 .. Len(orders) /\ row \in OrderRows
    BY <1>1, <1>2, InHand
  <2>2. Fits(local[e], Len(orders))
    BY <1>1 DEF ThreadPart
  <2> QED BY <1>1, <1>2, <2>1, <2>2 DEF Fits
<1>4. Traded(row) \in Int /\ local[e].price \in Int
  BY <1>1, <1>3 DEF OrderRows, Traded, Signed, LocalRecords
<1>5. trade \in Trade /\ trade.quantity = Traded(row)
  BY <1>2, <1>3, <1>4 DEF Trade
<1>6. trades' = Append(trades, trade) /\ position' = position
      /\ orders' = [orders EXCEPT ![id].order_status = "complete"]
      /\ local' = [local EXCEPT ![e].step = "net", ![e].loaded = <<>>]
  BY <1>2 DEF Fill, Traded
<1>7. local'[e].step = "net" /\ local'[e].loaded = <<>> /\ local'[e].queue = local[e].queue
  BY <1>1, <1>6 DEF LocalRecords
<1>8. OrdersKeepTerms
  BY <1>1, <1>3, <1>6, StatusKeepsTerms
<1>9. NetTraded' = NetTraded + Traded(row)
  <2>1. trades \in Seq(Trade)
    BY <1>1 DEF TablePart
  <2> QED BY <1>5, <1>6, <2>1, NetTradedGrows
<1>10. InFlight(e) = 0 /\ InFlight(e)' = Traded(row)
  <2>1. row.action = orders[id].action /\ row.quantity = orders[id].quantity
    BY <1>2, <1>3 DEF RowsAsStored
  <2>2. orders'[id].action = row.action /\ orders'[id].quantity = row.quantity
    BY <1>3, <1>8, <2>1 DEF OrdersKeepTerms
  <2> QED BY <1>1, <1>2, <1>7, <2>2 DEF InFlight, Traded
<1>11. TradesAreNetted(e)'
  <2>1. position.quantity \in Int
    BY <1>1 DEF TablePart, Position
  <2> QED BY <1>4, <1>6, <1>9, <1>10, <2>1 DEF TradesAreNetted
<1>12. RowsAsStored(e)'
  BY <1>7, <1>8, RowsStay
<1> QED BY <1>7, <1>11, <1>12 DEF HeldIsPosition

\* The position is held as it is, and the row as the table has it.
LEMMA ReadPositionNets ==
    ASSUME NEW e \in Threads, RacesInv, TradesAreNetted(e), ReadPosition(e)
    PROVE  RowsAsStored(e)' /\ HeldIsPosition(e)' /\ TradesAreNetted(e)'
<1>1. /\ ThreadPart /\ local[e] \in LocalRecords /\ local \in [Threads -> LocalRecords]
      /\ local[e].step = "net" /\ local[e].step \in HasOrder
  BY DEF RacesInv, ThreadPart, ReadPosition, At, HasOrder
<1>2. UNCHANGED <<orders, trades, position>>
  BY DEF ReadPosition, book
<1>3. PICK id, row : id = Head(local[e].queue) /\ row = orders[id]
  OBVIOUS
<1>4. id \in DOMAIN orders
  BY <1>1, <1>3, InHand
<1>5. PICK step \in {"release", "write"} :
        local' = [local EXCEPT ![e].step = step, ![e].held = position,
                               ![e].loaded = Holding(<<>>, id, row)]
  BY <1>3 DEF ReadPosition
<1>6. /\ local'[e].step = step /\ local'[e].held = position /\ local'[e].queue = local[e].queue
      /\ local'[e].loaded = Holding(<<>>, id, row)
  BY <1>1, <1>5 DEF LocalRecords
<1>7. RowsAsStored(e)'
  <2>1. DOMAIN <<>> = {}
    OBVIOUS
  <2> QED BY <1>2, <1>3, <1>4, <1>6, <2>1, RowHeld
<1>8. HeldIsPosition(e)'
  BY <1>2, <1>6 DEF HeldIsPosition
<1>9. TradesAreNetted(e)'
  <2>1. NetTraded' = NetTraded
    BY <1>2 DEF NetTraded
  <2>2. InFlight(e)' = InFlight(e)
    BY <1>1, <1>2, <1>6 DEF InFlight
  <2> QED BY <1>2, <2>1, <2>2 DEF TradesAreNetted
<1> QED BY <1>7, <1>8, <1>9

\* The release writes profits only.
LEMMA ReleaseNets ==
    ASSUME NEW e \in Threads, RacesInv, RowsAsStored(e), HeldIsPosition(e), TradesAreNetted(e),
           Release(e)
    PROVE  RowsAsStored(e)' /\ HeldIsPosition(e)' /\ TradesAreNetted(e)'
<1>1. /\ local[e] \in LocalRecords /\ local \in [Threads -> LocalRecords]
      /\ local[e].step = "release" /\ position \in Position
  BY DEF RacesInv, TablePart, ThreadPart, Release, At
<1>2. UNCHANGED <<orders, trades>> /\ local' = [local EXCEPT ![e].step = "write"]
  BY DEF Release
<1>3. /\ local'[e].step = "write" /\ local'[e].held = local[e].held
      /\ local'[e].queue = local[e].queue /\ local'[e].loaded = local[e].loaded
  BY <1>1, <1>2 DEF LocalRecords
<1>4. PICK held, realized : held = local[e].held /\ realized = Realized(held, Closes(e), local[e].price)
  OBVIOUS
<1>5. held.quantity = position.quantity /\ held.average_price = position.average_price
  BY <1>1, <1>4 DEF HeldIsPosition
<1>6. held \in Position /\ Closes(e) \in Int /\ local[e].price \in Int
  BY <1>1, <1>4, ClosesTyped
<1>7. realized \in Position /\ realized.quantity = held.quantity
  BY <1>4, <1>6, RealizedTyped
<1>8. realized.average_price = held.average_price
  BY <1>4, <1>6 DEF Realized, Position
<1>9. position' = position \/ position' = Written(position, held, realized)
  BY <1>4 DEF Release
<1>10. position'.quantity = position.quantity /\ position'.average_price = position.average_price
  <2>1. CASE position' = Written(position, held, realized)
    BY <1>1, <1>5, <1>6, <1>7, <1>8, <2>1, WrittenTerms
  <2> QED BY <1>9, <2>1
<1>11. RowsAsStored(e)'
  BY <1>2, <1>3, RowsStay DEF OrdersKeepTerms
<1>12. HeldIsPosition(e)'
  BY <1>3, <1>4, <1>5, <1>10 DEF HeldIsPosition
<1>13. TradesAreNetted(e)'
  <2>1. NetTraded' = NetTraded
    BY <1>2 DEF NetTraded
  <2>2. InFlight(e)' = InFlight(e)
    BY <1>1, <1>2, <1>3 DEF InFlight
  <2> QED BY <1>10, <2>1, <2>2 DEF TradesAreNetted
<1> QED BY <1>11, <1>12, <1>13

\* What is committed is the position with the order's quantity in it, whichever
\* way the row is written.
LEMMA CommittedQuantity ==
    ASSUME NEW e \in Threads, RacesInv, HeldIsPosition(e), local[e].step = "write"
    PROVE  Committed(e).quantity
               = position.quantity + Traded(local[e].loaded[Head(local[e].queue)])
<1>1. PICK row, held, price, pnl :
        /\ row = local[e].loaded[Head(local[e].queue)] /\ held = local[e].held
        /\ price = local[e].price /\ pnl = RealizedPnl(held, Closes(e), price)
  OBVIOUS
<1>2. PICK netted : netted = Netted(held, row, price)
  OBVIOUS
<1>3. /\ held \in Position /\ row \in OrderRows /\ price \in Int /\ position \in Position
      /\ position.quantity \in Int
  BY <1>1, ClosesTyped DEF RacesInv, TablePart, Position
<1>4. row.action \in {"BUY", "SELL"} /\ row.quantity \in Nat \ {0} /\ row.margin_blocked \in Int
  BY <1>3 DEF OrderRows
<1>5. held.quantity = position.quantity /\ held.average_price = position.average_price
  BY <1>1 DEF HeldIsPosition
<1>6. netted.quantity = position.quantity + Traded(row)
  BY <1>2, <1>3, <1>4, <1>5, NettedQuantity DEF Traded
<1>7. netted \in Position
  <2>1. held \in Position /\ price \in Int
    BY <1>3
  <2>2. Netted(held, row, price) \in Position
    BY <1>4, <2>1, NettedTyped
  <2> QED BY <1>2, <2>2
<1>8. CASE Releases(e) = 0
  <2>1. Committed(e) = Written(position, held, netted)
    BY <1>1, <1>2, <1>8 DEF Committed
  <2> QED BY <1>1, <1>3, <1>5, <1>6, <1>7, <2>1, WrittenTerms
<1>9. CASE Releases(e) # 0 /\ Closing(e)
  <2>1. held.quantity + Traded(row) = 0
    BY <1>1, <1>9 DEF Closing, Traded
  <2>2. Committed(e).quantity = 0
    <3>1. PICK none, margin, earned, today :
            /\ none = 0
            /\ Committed(e) = [position EXCEPT !.quantity = none, !.margin_blocked = margin,
                                               !.accumulated_realized_pnl = earned,
                                               !.today_realized_pnl = today]
      BY <1>9 DEF Committed
    <3> QED BY <1>3, <3>1 DEF Position
  <2> QED BY <1>1, <1>5, <2>1, <2>2
<1>10. CASE Releases(e) # 0 /\ ~Closing(e)
  <2>1. PICK margin, average :
          Committed(e) = [position EXCEPT !.quantity = netted.quantity, !.margin_blocked = margin,
                                          !.average_price = average]
    BY <1>1, <1>2, <1>10 DEF Committed
  <2>2. Committed(e).quantity = netted.quantity
    BY <1>3, <2>1 DEF Position
  <2> QED BY <1>1, <1>6, <2>2
<1> QED BY <1>8, <1>9, <1>10

\* With that the trade is netted.
LEMMA WriteNets ==
    ASSUME NEW e \in Threads, RacesInv, RowsAsStored(e), HeldIsPosition(e), TradesAreNetted(e),
           WritePosition(e)
    PROVE  RowsAsStored(e)' /\ HeldIsPosition(e)' /\ TradesAreNetted(e)'
<1>1. /\ ThreadPart /\ local \in [Threads -> LocalRecords] /\ local[e] \in LocalRecords
      /\ local[e].step = "write" /\ local[e].step \in HasOrder /\ local[e].step \in HasRow
      /\ position.quantity \in Int
  BY DEF RacesInv, ThreadPart, TablePart, Position, WritePosition, At, HasOrder, HasRow
<1>2. UNCHANGED <<orders, trades>> /\ position' = Committed(e)
  BY DEF WritePosition
<1>3. local'[e].step = "validate"
  BY <1>1, StepsFollow
<1>4. local'[e].loaded = <<>>
  <2> DEFINE l == [Idle EXCEPT !.step = "validate", !.queue = local[e].queue, !.quote = local[e].quote]
  <2>1. l.loaded = <<>> /\ local' = [local EXCEPT ![e] = l]
    BY DEF WritePosition, Idle
  <2> HIDE DEF l
  <2> QED BY <1>1, <2>1
<1>5. PICK id, row : id = Head(local[e].queue) /\ row = local[e].loaded[id]
  OBVIOUS
<1>6. id \in DOMAIN local[e].loaded /\ row \in OrderRows
  <2>1. Fits(local[e], Len(orders))
    BY <1>1 DEF ThreadPart
  <2> QED BY <1>1, <1>5, <2>1, InHand DEF Fits
<1>7. Traded(row) = Traded(orders[id]) /\ Traded(row) \in Int
  <2>1. row.action = orders[id].action /\ row.quantity = orders[id].quantity
    BY <1>5, <1>6 DEF RowsAsStored
  <2> QED BY <1>6, <2>1 DEF Traded, Signed, OrderRows
<1>8. position'.quantity = position.quantity + Traded(row)
  BY <1>1, <1>2, <1>5, CommittedQuantity
<1>9. NetTraded = position.quantity + Traded(row)
  BY <1>1, <1>5, <1>7 DEF TradesAreNetted, InFlight
<1>10. NetTraded' = NetTraded
  BY <1>2 DEF NetTraded
<1>11. InFlight(e)' = 0
  BY <1>3 DEF InFlight
<1>12. TradesAreNetted(e)'
  BY <1>1, <1>7, <1>8, <1>9, <1>10, <1>11 DEF TradesAreNetted
<1>13. RowsAsStored(e)'
  BY <1>2, <1>4, RowsStay DEF OrdersKeepTerms
<1> QED BY <1>3, <1>12, <1>13 DEF HeldIsPosition

\* The engine's steps, and none of them is another's.
LEMMA EngineNets ==
    ASSUME NEW e \in Threads, RacesInv, EngineOnlyFills(e), RowsAsStored(e), HeldIsPosition(e),
           TradesAreNetted(e), Continue(e)
    PROVE  RowsAsStored(e)' /\ HeldIsPosition(e)' /\ TradesAreNetted(e)' /\ EngineOnlyFills(e)'
<1>1. ~Load(e) /\ ~Insert(e) /\ ~Block(e) /\ ~Cancel(e) /\ ~Modify(e)
  BY DEF EngineOnlyFills, Load, Insert, Block, Cancel, Modify, At
<1>2. ~LoseInsert(e)
  BY DEF LoseInsert, HeldIsPosition, Exists, At
<1>3. ThreadPart
  BY DEF RacesInv
<1>4. EngineOnlyFills(e)'
  BY <1>1, <1>3, StepsFollow DEF Continue, EngineOnlyFills
<1>5. CASE SkipTraded(e) \/ LeaveResting(e) \/ Validate(e) \/ Reconcile(e) \/ ReconcileWrite(e)
  BY <1>4, <1>5, BatchNets
<1>6. CASE Decide(e)
  BY <1>4, <1>6, DecideNets
<1>7. CASE Fill(e)
  BY <1>4, <1>7, FillNets
<1>8. CASE ReadPosition(e)
  BY <1>4, <1>8, ReadPositionNets
<1>9. CASE Release(e)
  BY <1>4, <1>9, ReleaseNets
<1>10. CASE WritePosition(e)
  BY <1>4, <1>10, WriteNets
<1> QED BY <1>1, <1>2, <1>5, <1>6, <1>7, <1>8, <1>9, <1>10 DEF Continue

\* A batch is loaded as it is in the table.
LEMMA PollNets ==
    ASSUME NEW e \in Threads, RacesInv, TradesAreNetted(e), Poll(e) \/ Tick(e)
    PROVE  RowsAsStored(e)' /\ HeldIsPosition(e)' /\ TradesAreNetted(e)' /\ EngineOnlyFills(e)'
<1>1. ThreadPart /\ local \in [Threads -> LocalRecords]
  BY DEF RacesInv, ThreadPart
<1>2. PICK ids \in SUBSET OpenOrders, quotes \in {Polled, Prices} : List(e, ids, quotes)
  BY DEF Poll, Tick
<1>3. UNCHANGED <<orders, trades, position>> /\ local[e].step = "idle"
  BY <1>2 DEF List, book, At
<1>4. PICK ltp \in quotes, listed \in SetToSeqs(ids) :
        local' = [local EXCEPT ![e] = [Idle EXCEPT !.step = "check", !.queue = listed,
                                           !.loaded = [id \in ids |-> orders[id]], !.quote = ltp]]
  BY <1>2 DEF List
<1> DEFINE next == [Idle EXCEPT !.step = "check", !.queue = listed,
                                !.loaded = [id \in ids |-> orders[id]], !.quote = ltp]
<1>5. next.step = "check" /\ next.loaded = [id \in ids |-> orders[id]] /\ local' = [local EXCEPT ![e] = next]
  BY <1>4 DEF Idle
<1> HIDE DEF next
<1>6. local'[e].step = "check" /\ local'[e].loaded = [id \in ids |-> orders[id]]
  BY <1>1, <1>5
<1>7. RowsAsStored(e)'
  BY <1>3, <1>6 DEF RowsAsStored, OpenOrders
<1>8. HeldIsPosition(e)' /\ TradesAreNetted(e)'
  BY <1>3, <1>6, NothingInFlight
<1> QED BY <1>6, <1>7, <1>8 DEF EngineOnlyFills

\* Requests leave the trades, the position and the terms of the orders alone.
LEMMA RequestsKeepTerms ==
    ASSUME RacesInv, UsersOnlyAsk, NobodyModifies, NEW t \in Users, Continue(t)
    PROVE  OrdersKeepTerms /\ UNCHANGED <<trades, position>>
<1>1. t \in Threads /\ ThreadPart /\ ~Modify(t)
  BY DEF Threads, RacesInv, NobodyModifies, Modify, At
<1>2. OrdersKeepTerms
  BY <1>1, ContinueKeepsTerms
<1>3. Block(t) \/ Insert(t) \/ Cancel(t)
  BY <1>1, UserGoesOn
<1> QED BY <1>2, <1>3 DEF Block, Insert, Cancel

\* Nobody begins to modify where no handler modifies.
LEMMA NobodyBeginsToModify ==
    ASSUME NEW e, OneFiller(e), "modify" \notin Handlers, RacesInv, UsersOnlyAsk, NobodyModifies,
           [Next]_vars
    PROVE  NobodyModifies'
<1> SUFFICES ASSUME NEW t \in Users PROVE local'[t].step # "modify"
  BY DEF NobodyModifies
<1>1. /\ e \in Threads /\ e # t /\ t \in Threads /\ Users \subseteq Threads /\ ThreadPart
      /\ local[t].step # "modify"
  BY Bystanders DEF RacesInv, NobodyModifies
<1>2. CASE local'[t] = local[t]
  BY <1>1, <1>2
<1>3. ASSUME NEW u \in Users, Continue(u) PROVE local'[t].step # "modify"
  <2>1. CASE u = t
    <3>1. Block(t) \/ Insert(t) \/ Cancel(t) \/ Modify(t)
      BY <1>1, <1>3, <2>1, UserGoesOn
    <3> QED BY <1>1, <3>1, StepsFollow
  <2> QED BY <1>1, <1>2, <1>3, <2>1, OthersStay
<1>4. CASE Continue(e)
  BY <1>1, <1>2, <1>4, OthersStay
<1>5. CASE Poll(e) \/ Tick(e)
  BY <1>1, <1>2, <1>5, OthersRest
<1>6. ASSUME NEW u \in Users, Place(u) \/ StartCancel(u) \/ StartModify(u) PROVE local'[t].step # "modify"
  <2>1. ~StartModify(u)
    BY DEF StartModify
  <2>2. CASE u = t
    BY <1>1, <1>6, <2>1, <2>2, AskedStep
  <2> QED BY <1>1, <1>2, <1>6, <2>2, OthersRest
<1>7. CASE Crash
  BY <1>1, <1>7 DEF Crash, Idle
<1>8. CASE UNCHANGED records
  BY <1>2, <1>8 DEF records
<1> QED BY <1>3, <1>4, <1>5, <1>6, <1>7, <1>8, OneFillerStep

LEMMA NettingNext ==
    ASSUME NEW e, OneFiller(e), MaxCrashes = 0, "modify" \notin Handlers,
           RacesInv, NettingInv(e), [Next]_vars
    PROVE  NettingInv(e)'
<1>1. /\ e \in Threads /\ e \notin Users /\ Users \subseteq Threads /\ ThreadPart
      /\ UsersOnlyAsk /\ EngineOnlyFills(e) /\ NobodyModifies
      /\ RowsAsStored(e) /\ HeldIsPosition(e) /\ TradesAreNetted(e)
  BY Bystanders DEF RacesInv, NettingInv
<1>2. UsersOnlyAsk' /\ NobodyModifies'
  BY <1>1, UsersGoOnAsking, NobodyBeginsToModify
<1>3. ASSUME UNCHANGED <<trades, position>>, local'[e] = local[e], OrdersKeepTerms
      PROVE  NettingInv(e)'
  <2>1. RowsAsStored(e)' /\ HeldIsPosition(e)' /\ TradesAreNetted(e)'
    BY <1>1, <1>3, QuietNets
  <2>2. EngineOnlyFills(e)'
    BY <1>1, <1>3 DEF EngineOnlyFills
  <2> QED BY <1>2, <2>1, <2>2 DEF NettingInv
<1>4. orders' = orders => OrdersKeepTerms
  BY DEF OrdersKeepTerms
<1>5. ASSUME NEW t \in Users, Continue(t) PROVE NettingInv(e)'
  <2>1. local'[e] = local[e]
    BY <1>1, <1>5, OthersStay
  <2>2. OrdersKeepTerms /\ UNCHANGED <<trades, position>>
    BY <1>1, <1>5, RequestsKeepTerms
  <2> QED BY <1>3, <2>1, <2>2
<1>6. CASE Continue(e)
  BY <1>1, <1>2, <1>6, EngineNets DEF NettingInv
<1>7. CASE Poll(e) \/ Tick(e)
  BY <1>1, <1>2, <1>7, PollNets DEF NettingInv
<1>8. ASSUME NEW t \in Users, Place(t) \/ StartCancel(t) \/ StartModify(t)
      PROVE  NettingInv(e)'
  <2>1. local'[e] = local[e]
    BY <1>1, <1>8, OthersRest
  <2>2. UNCHANGED <<orders, trades, position>>
    BY <1>8 DEF Place, StartCancel, StartModify, book
  <2> QED BY <1>3, <1>4, <2>1, <2>2
<1>9. ~Crash
  BY DEF Crash, RacesInv, TablePart
<1>10. CASE UNCHANGED records
  BY <1>3, <1>4, <1>10 DEF records
<1> QED BY <1>5, <1>6, <1>7, <1>8, <1>9, <1>10, OneFillerStep

\* Where one engine does all the filling, nobody modifies an order and no crash
\* comes in between, the position is what was traded whenever no trade waits to
\* be netted, whatever requests place and cancel meanwhile.
THEOREM OneEngineNetsTrades ==
    ASSUME NEW e, OneFiller(e), MaxCrashes = 0, "modify" \notin Handlers
    PROVE  Spec => []PositionMatchesTrades
<1>1. Init => NettingInv(e)
  <2> SUFFICES ASSUME Init PROVE NettingInv(e)
    OBVIOUS
  <2>1. e \in Threads /\ Users \subseteq Threads /\ \A t \in Threads : local[t] = Idle
    BY Bystanders DEF Init
  <2>2. Idle.step = "idle" /\ Idle.quote = NoPrice /\ DOMAIN Idle.loaded = {}
    BY DEF Idle
  <2>3. UsersOnlyAsk /\ EngineOnlyFills(e) /\ NobodyModifies /\ RowsAsStored(e) /\ HeldIsPosition(e)
    BY <2>1, <2>2 DEF UsersOnlyAsk, EngineOnlyFills, NobodyModifies, RowsAsStored, HeldIsPosition
  <2>4. TradesAreNetted(e)
    <3>1. DOMAIN trades = {} /\ position.quantity = 0
      BY DEF Init, NoPosition
    <3>2. NetTraded = 0
      BY <3>1, SumOfNothing DEF NetTraded
    <3>3. InFlight(e) = 0
      BY <2>1, <2>2 DEF InFlight
    <3> QED BY <3>1, <3>2, <3>3 DEF TradesAreNetted
  <2> QED BY <2>3, <2>4 DEF NettingInv
<1>2. RacesInv /\ NettingInv(e) /\ [Next]_vars => NettingInv(e)'
  BY NettingNext
<1>3. RacesInv /\ NettingInv(e) => PositionMatchesTrades
  <2> SUFFICES ASSUME RacesInv, NettingInv(e),
                      \A t \in Threads : local[t].step \notin {"net", "release", "write"}
               PROVE  position.quantity = NetTraded
    BY DEF PositionMatchesTrades
  <2>1. InFlight(e) = 0
    BY Bystanders DEF InFlight
  <2>2. position.quantity \in Int
    BY DEF RacesInv, TablePart, Position
  <2> QED BY <2>1, <2>2 DEF NettingInv, TradesAreNetted
<1> QED BY <1>1, <1>2, <1>3, RacesInvariant, PTL DEF Spec
=============================================================================
