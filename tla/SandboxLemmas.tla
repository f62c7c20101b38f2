--------------------------- MODULE SandboxLemmas ---------------------------
(***************************************************************************)
(* What the operators on a funds row, a position row and a table of rows   *)
(* return, for any values, and how a sum changes with the set it is over:  *)
(* cited by the theorems about the book and about the threads.             *)
(***************************************************************************)
EXTENDS SandboxFunds, SandboxOrders, FiniteSetsExt, TLAPS, SequenceTheorems,
        FiniteSetTheorems

-----------------------------------------------------------------------------
(* The operators on the funds row. *)

\* Blocking, releasing and reconciling keep the row a row of integers.
LEMMA FundsTyped ==
    ASSUME NEW f \in Funds, NEW a \in Int, NEW pnl \in Int
    PROVE  /\ BlockMargin(f, a) \in Funds
           /\ ReleaseMargin(f, a, pnl) \in Funds
           /\ ReconcileMargin(f, a) \in Funds
  <1>1. /\ f.available_balance \in Int
        /\ f.used_margin \in Int
        /\ f.realized_pnl \in Int
        /\ f.today_realized_pnl \in Int
    BY DEF Funds
  <1>2. /\ f.available_balance - a \in Int
        /\ f.used_margin + a \in Int
    BY <1>1
  <1>3. BlockMargin(f, a) \in Funds
    BY <1>2 DEF Funds, BlockMargin
  <1>4. /\ f.used_margin - a \in Int
        /\ f.available_balance + a + pnl \in Int
        /\ f.realized_pnl + pnl \in Int
        /\ f.today_realized_pnl + pnl \in Int
    BY <1>1
  <1>5. ReleaseMargin(f, a, pnl) \in Funds
    BY <1>4 DEF Funds, ReleaseMargin
  <1>6. f.available_balance + (f.used_margin - a) \in Int
    BY <1>1
  <1>7. ReconcileMargin(f, a) \in Funds
    BY <1>6 DEF Funds, ReconcileMargin
  <1> QED
    BY <1>3, <1>5, <1>7

\* Blocking, releasing and reconciling keep the balance equation.
LEMMA FundsStayBalanced ==
    ASSUME NEW f \in Funds, NEW a \in Int, NEW pnl \in Int, Balanced(f)
    PROVE  /\ Balanced(BlockMargin(f, a))
           /\ Balanced(ReleaseMargin(f, a, pnl))
           /\ Balanced(ReconcileMargin(f, a))
  BY CapitalAssumption
  DEF Balanced, Funds, BlockMargin, ReleaseMargin, ReconcileMargin

\* A fresh row is a row of integers, and balanced.
LEMMA InitialFundsFit == InitialFunds \in Funds /\ Balanced(InitialFunds)
  BY CapitalAssumption DEF InitialFunds, Funds, Balanced

-----------------------------------------------------------------------------
(* The operators on a position row. *)

\* A margin is an integer.
LEMMA MarginTyped ==
    ASSUME NEW p \in Products, NEW q \in Int, NEW price \in Int
    PROVE  MarginRequired(p, q, price) \in Int
  <1>1. Leverage[p] \in Nat \ {0}
    BY LeverageAssumption
  <1>2. q * price \in Int
    OBVIOUS
  <1> QED
    BY <1>1, <1>2 DEF MarginRequired

\* What a fill closes lies between nothing and the whole position.
LEMMA ClosedBounds ==
    ASSUME NEW position \in Position, NEW action \in {"BUY", "SELL"},
           NEW quantity \in Nat \ {0}
    PROVE  LET closed == ClosedQuantity(position, action, quantity)
           IN /\ closed \in Nat
              /\ closed <= quantity
              /\ closed <= Magnitude(position.quantity)
              /\ closed # 0 => Magnitude(position.quantity) \in Nat \ {0}
  BY DEF ClosedQuantity, Opposes, Magnitude, Position

\* What is released and what is realised are integers.
LEMMA ReleaseTyped ==
    ASSUME NEW position \in Position, NEW closed \in Nat, NEW price \in Int,
           closed # 0 => Magnitude(position.quantity) \in Nat \ {0}
    PROVE  /\ MarginToRelease(position, closed) \in Int
           /\ RealizedPnl(position, closed, price) \in Int
  <1>1. RealizedPnl(position, closed, price) \in Int
    BY DEF RealizedPnl, Position
  <1>2. CASE closed = 0
    BY <1>1, <1>2 DEF MarginToRelease
  <1>3. CASE closed # 0
    <2>1. position.margin_blocked * closed \in Int
      BY DEF Position
    <2> QED
      BY <1>1, <1>3, <2>1 DEF MarginToRelease
  <1> QED
    BY <1>2, <1>3

\* The margin an order asks for is an integer.
LEMMA MarginToBlockTyped ==
    ASSUME NEW position \in Position, NEW r, r.action \in {"BUY", "SELL"}, r.product \in Products,
           r.quantity \in Nat \ {0}, NEW price \in Int
    PROVE  MarginToBlock(position, r, price) \in Int
  <1>1. NewExposure(position, r) \in Int
    BY ClosedBounds DEF NewExposure
  <1> QED
    BY <1>1, MarginTyped DEF MarginToBlock

\* Writing integers to a position row leaves a position row.
LEMMA RowUpdated ==
    ASSUME NEW position \in Position, NEW q \in Int, NEW avg \in Int, NEW m \in Int
    PROVE  [position EXCEPT !.quantity = q, !.average_price = avg,
                            !.margin_blocked = m] \in Position
  BY DEF Position

\* A profit that is booked leaves a position row, with its quantity.
LEMMA RealizedTyped ==
    ASSUME NEW position \in Position, NEW closed \in Int, NEW price \in Int
    PROVE  /\ RealizedPnl(position, closed, price) \in Int
           /\ Realized(position, closed, price) \in Position
           /\ Realized(position, closed, price).quantity = position.quantity
  <1>1. RealizedPnl(position, closed, price) \in Int
    BY DEF RealizedPnl, Position
  <1>2. /\ position.accumulated_realized_pnl + RealizedPnl(position, closed, price) \in Int
        /\ position.today_realized_pnl + RealizedPnl(position, closed, price) \in Int
    BY <1>1 DEF Position
  <1> QED
    BY <1>1, <1>2 DEF Realized, Position

\* A fill turns a position row into a position row.
LEMMA NettedTyped ==
    ASSUME NEW position \in Position, NEW price \in Int,
           NEW order, order.action \in {"BUY", "SELL"},
           order.quantity \in Nat \ {0}, order.margin_blocked \in Int
    PROVE  Netted(position, order, price) \in Position
  <1> DEFINE held == Magnitude(position.quantity)
             signed == Signed(order.action, order.quantity)
  <1>1. /\ position.quantity \in Int
        /\ position.average_price \in Int
        /\ position.margin_blocked \in Int
        /\ position.accumulated_realized_pnl \in Int
        /\ position.today_realized_pnl \in Int
    BY DEF Position
  <1>2. signed \in Int /\ held \in Nat
    BY <1>1 DEF Signed, Magnitude
  <1>3. CASE position.quantity = 0
    BY <1>2, <1>3 DEF Netted, Opened, Position
  <1>4. CASE position.quantity # 0 /\ ~Opposes(position, order.action)
    <2> DEFINE total == held + order.quantity
    <2>1. total \in Nat \ {0}
      BY <1>2
    <2>2. held * position.average_price + order.quantity * price \in Int
      BY <1>1, <1>2
    <2> HIDE DEF total, held, signed
    <2>3. (held * position.average_price + order.quantity * price) \div total \in Int
      BY <2>1, <2>2
    <2>4. /\ position.quantity + signed \in Int
          /\ position.margin_blocked + order.margin_blocked \in Int
      BY <1>1, <1>2
    <2>5. Netted(position, order, price) = Added(position, order, price)
      BY <1>4 DEF Netted
    <2> DEFINE average ==
                 (held * position.average_price + order.quantity * price) \div total
    <2>6. Added(position, order, price) =
              [position EXCEPT
                 !.quantity = position.quantity + signed,
                 !.average_price = average,
                 !.margin_blocked = position.margin_blocked + order.margin_blocked]
      BY DEF Added, held, total, signed
    <2>7. average \in Int
      BY <2>3
    <2> HIDE DEF average
    <2>8. [position EXCEPT
              !.quantity = position.quantity + signed,
              !.average_price = average,
              !.margin_blocked = position.margin_blocked + order.margin_blocked]
            \in Position
      BY <2>4, <2>7, RowUpdated
    <2> QED
      BY <2>5, <2>6, <2>8
  <1>5. ASSUME NEW closed \in Nat
        PROVE  Realized(position, closed, price) \in Position
    BY RealizedTyped
  <1>6. CASE Opposes(position, order.action) /\ position.quantity # 0
    <2>1. held \in Nat \ {0}
      BY <1>1, <1>6 DEF Magnitude
    <2>2. CASE order.quantity > held
      <3> DEFINE excess == order.quantity - held
                 realized == Realized(position, held, price)
                 margin == (order.margin_blocked * excess) \div order.quantity
      <3>1. excess \in Nat /\ Signed(order.action, excess) \in Int
        BY <2>1, <2>2 DEF Signed
      <3>2. realized \in Position
        BY <1>5, <2>1
      <3>3. order.margin_blocked * excess \in Int
        BY <3>1
      <3>4. margin \in Int
        BY <3>3
      <3>5. Netted(position, order, price)
              = [realized EXCEPT !.quantity = Signed(order.action, excess),
                                 !.average_price = price,
                                 !.margin_blocked = margin]
        BY <1>6, <2>2 DEF Netted, Reversed
      <3> HIDE DEF realized, margin, excess
      <3> QED
        BY <3>1, <3>2, <3>4, <3>5 DEF Position
    <2>3. CASE ~(order.quantity > held)
      <3> DEFINE realized == Realized(position, order.quantity, price)
                 release == MarginToRelease(position, order.quantity)
      <3>1. realized \in Position
        BY <1>5
      <3>2. release \in Int
        BY <2>1, ReleaseTyped
      <3>3. Netted(position, order, price)
              = [realized EXCEPT !.quantity = @ + signed,
                                 !.margin_blocked = @ - release]
        BY <1>6, <2>3 DEF Netted, ReducedOrClosed
      <3> HIDE DEF realized, release, signed
      <3>4. /\ realized.quantity + signed \in Int
            /\ realized.margin_blocked - release \in Int
        BY <1>2, <3>1, <3>2 DEF Position
      <3> QED
        BY <3>1, <3>3, <3>4 DEF Position
    <2> QED
      BY <2>2, <2>3
  <1> QED
    BY <1>3, <1>4, <1>6

\* Releasing in proportion to the whole quantity releases everything.
LEMMA WholeShare ==
    ASSUME NEW m \in Int, NEW q \in Nat \ {0}
    PROVE  (m * q) \div q = m
  OBVIOUS

\* The size of a signed quantity.
LEMMA MagnitudeFacts ==
    ASSUME NEW n \in Int
    PROVE  /\ Magnitude(n) \in Nat
           /\ n # 0 => Magnitude(n) > 0
           /\ n > 0 => n = Magnitude(n)
           /\ n < 0 => n = -Magnitude(n)
  BY DEF Magnitude

\* The four netting rules agree on the quantity: what was held plus what was
\* traded.
LEMMA NettedQuantity ==
    ASSUME NEW position \in Position, NEW price \in Int,
           NEW order, order.action \in {"BUY", "SELL"}, order.quantity \in Nat \ {0}
    PROVE  Netted(position, order, price).quantity
               = position.quantity + Signed(order.action, order.quantity)
  <1> DEFINE q == position.quantity
             signed == Signed(order.action, order.quantity)
  <1>1. /\ position \in Position /\ q \in Int
        /\ order.action \in {"BUY", "SELL"} /\ order.quantity \in Nat \ {0}
    BY DEF Position
  <1>2. signed \in Int
    BY <1>1 DEF Signed
  <1>3. CASE q = 0
    BY <1>1, <1>2, <1>3 DEF Netted, Opened, Position
  <1>4. CASE q # 0 /\ ~Opposes(position, order.action)
    BY <1>1, <1>2, <1>4 DEF Netted, Added, Position
  <1>5. CASE q # 0 /\ Opposes(position, order.action)
    <2>1. CASE order.quantity > Magnitude(q)
      <3>1. Netted(position, order, price).quantity
              = Signed(order.action, order.quantity - Magnitude(q))
        BY <1>1, <1>5, <2>1 DEF Netted, Reversed, Realized, Position
      <3> QED
        BY <1>1, <1>5, <2>1, <3>1, MagnitudeFacts DEF Opposes, Signed
    <2>2. CASE ~(order.quantity > Magnitude(q))
      BY <1>1, <1>2, <1>5, <2>2 DEF Netted, ReducedOrClosed, Realized, Position
    <2> QED
      BY <2>1, <2>2
  <1> QED
    BY <1>3, <1>4, <1>5

MarginFollows(position) == position.quantity = 0 => position.margin_blocked = 0

\* A fill that leaves nothing of the position releases all of its margin.
LEMMA NettedMargin ==
    ASSUME NEW position \in Position, NEW price \in Int,
           NEW order, order.action \in {"BUY", "SELL"}, order.quantity \in Nat \ {0}
    PROVE  MarginFollows(Netted(position, order, price))
  <1> DEFINE q == position.quantity
             m == position.margin_blocked
             after == Netted(position, order, price)
             signed == Signed(order.action, order.quantity)
  <1>1. /\ position \in Position /\ q \in Int /\ m \in Int
        /\ order.action \in {"BUY", "SELL"} /\ order.quantity \in Nat \ {0}
    BY DEF Position
  <1>2. signed \in Int /\ signed # 0
    BY <1>1 DEF Signed
  <1>3. after.quantity = q + signed
    BY NettedQuantity
  <1>4. SUFFICES ASSUME q + signed = 0
                 PROVE  after.margin_blocked = 0
    BY <1>3 DEF MarginFollows
  <1>5. q # 0 /\ Opposes(position, order.action) /\ order.quantity = Magnitude(q)
    BY <1>1, <1>2, <1>4 DEF Opposes, Signed, Magnitude
  <1>6. after.margin_blocked = m - MarginToRelease(position, order.quantity)
    <2>1. after = ReducedOrClosed(position, order, price)
      BY <1>1, <1>5, MagnitudeFacts DEF Netted
    <2> QED
      BY <1>1, <2>1 DEF ReducedOrClosed, Realized, Position
  <1>7. MarginToRelease(position, order.quantity) = m
    <2>1. MarginToRelease(position, order.quantity)
            = (m * order.quantity) \div order.quantity
      BY <1>1, <1>5 DEF MarginToRelease
    <2> QED
      BY <1>1, <2>1, WholeShare
  <1> QED
    BY <1>1, <1>6, <1>7

-----------------------------------------------------------------------------
(* The order book and the trade book. *)

\* Replacing a row keeps the length and the other rows.
LEMMA RowReplaced ==
    ASSUME NEW S, NEW rows \in Seq(S), NEW n \in DOMAIN rows, NEW row \in S
    PROVE  /\ [rows EXCEPT ![n] = row] \in Seq(S)
           /\ DOMAIN [rows EXCEPT ![n] = row] = DOMAIN rows
           /\ \A k \in DOMAIN rows :
                 [rows EXCEPT ![n] = row][k] = IF k = n THEN row ELSE rows[k]
  <1>1. DOMAIN rows = 1..Len(rows)
    BY LenProperties
  <1> QED
    BY <1>1, ExceptSeq

\* Appending a row keeps the rows there were.
LEMMA RowAppended ==
    ASSUME NEW S, NEW rows \in Seq(S), NEW row \in S
    PROVE  /\ Append(rows, row) \in Seq(S)
           /\ DOMAIN rows = 1..Len(rows)
           /\ Len(rows) + 1 \in Nat \ {0}
           /\ DOMAIN Append(rows, row) = 1..Len(rows) + 1
           /\ \A k \in DOMAIN rows : Append(rows, row)[k] = rows[k]
           /\ Append(rows, row)[Len(rows) + 1] = row
  <1>1. DOMAIN rows = 1..Len(rows) /\ Len(rows) \in Nat
    BY LenProperties
  <1> QED
    BY <1>1, AppendProperties

\* Replacing the row that was just appended.
LEMMA LastRowReplaced ==
    ASSUME NEW S, NEW rows \in Seq(S), NEW row \in S, NEW done \in S
    PROVE  [Append(rows, row) EXCEPT ![Len(rows) + 1] = done] = Append(rows, done)
  <1> DEFINE longer == Append(rows, row)
             last == Len(rows) + 1
             replaced == [longer EXCEPT ![last] = done]
             appended == Append(rows, done)
  <1>1. /\ longer \in Seq(S) /\ appended \in Seq(S)
        /\ DOMAIN rows = 1..Len(rows) /\ last \in Nat \ {0} /\ last \in 1..last
        /\ DOMAIN longer = 1..last /\ DOMAIN appended = 1..last
    BY RowAppended
  <1>2. /\ replaced \in Seq(S)
        /\ DOMAIN replaced = 1..last
        /\ \A k \in 1..last : replaced[k] = IF k = last THEN done ELSE longer[k]
    <2> HIDE DEF longer, last, appended
    <2> QED
      BY <1>1, RowReplaced
  <1>3. ASSUME NEW k \in 1..last PROVE replaced[k] = appended[k]
    <2>1. CASE k = last
      BY <1>2, <2>1, RowAppended
    <2>2. CASE k # last
      <3>1. k \in DOMAIN rows
        BY <1>1, <2>2
      <3> QED
        BY <1>2, <2>2, <3>1, RowAppended
    <2> QED
      BY <2>1, <2>2
  <1>4. Len(replaced) = last /\ Len(appended) = last
    BY <1>1, <1>2, LenProperties
  <1> HIDE DEF replaced, appended, last
  <1>5. replaced = appended
    BY <1>1, <1>2, <1>3, <1>4, SeqEqual
  <1> QED
    BY <1>5 DEF replaced, appended, last

\* The column of order numbers of a table grows with the table.
LEMMA ColumnAppended ==
    ASSUME NEW S, NEW rows \in Seq(S), NEW row \in S, \A r \in S : r.orderid \in Nat
    PROVE  [t \in DOMAIN Append(rows, row) |-> Append(rows, row)[t].orderid]
               = Append([t \in DOMAIN rows |-> rows[t].orderid], row.orderid)
  <1> DEFINE longer == Append(rows, row)
             before == [t \in DOMAIN rows |-> rows[t].orderid]
             id == row.orderid
             after == Append(before, id)
             last == Len(rows) + 1
  <1>1. /\ DOMAIN rows = 1..Len(rows) /\ Len(rows) \in Nat
        /\ DOMAIN longer = 1..last
        /\ \A k \in DOMAIN rows : longer[k] = rows[k]
        /\ longer[last] = row
    BY RowAppended, LenProperties
  <1>2. id \in Nat
    OBVIOUS
  <1>3. before \in Seq(Nat) /\ Len(before) = Len(rows) /\ DOMAIN before = 1..Len(rows)
    <2>1. \A t \in DOMAIN rows : rows[t].orderid \in Nat
      BY <1>1, ElementOfSeq
    <2>2. before \in [1..Len(rows) -> Nat]
      BY <1>1, <2>1
    <2>3. before \in Seq(Nat)
      BY <1>1, <2>2, SeqDef
    <2> QED
      BY <1>1, <2>2, <2>3, LenProperties
  <1>4. \A k \in DOMAIN rows : before[k] = rows[k].orderid
    OBVIOUS
  <1> HIDE DEF before, id, longer
  <1>5. /\ DOMAIN after = 1..last
        /\ \A k \in 1..Len(rows) : after[k] = before[k]
        /\ after[last] = id
        /\ after \in Seq(Nat)
    BY <1>2, <1>3, RowAppended
  <1>6. after = [t \in 1..last |-> after[t]]
    <2>1. after \in [1..Len(after) -> Nat] /\ DOMAIN after = 1..Len(after)
      BY <1>5, LenProperties
    <2> HIDE DEF after, last
    <2> QED
      BY <1>5, <2>1
  <1>7. ASSUME NEW t \in 1..last PROVE longer[t].orderid = after[t]
    <2>1. CASE t = last
      BY <1>1, <1>5, <2>1 DEF id
    <2>2. CASE t # last
      <3>1. t \in 1..Len(rows)
        BY <1>1, <2>2
      <3> QED
        BY <1>1, <1>4, <1>5, <3>1
    <2> QED
      BY <2>1, <2>2
  <1>8. [t \in DOMAIN longer |-> longer[t].orderid] = [t \in 1..last |-> after[t]]
    BY <1>1, <1>7
  <1> QED
    BY <1>6, <1>8 DEF longer, before, id

-----------------------------------------------------------------------------
(***************************************************************************)
(* Sums.  SumFunctionOnSet takes the elements of a set in an order of its  *)
(* own; of integers the sum is an integer, and any element can be taken    *)
(* out of it.  What is proved of every subset of a finite set is proved    *)
(* from a smallest subset it would fail for.                               *)
(***************************************************************************)

\* A set of subsets of a finite set has a smallest member: a claim about every
\* subset that fails for one fails for a smallest one.
LEMMA SmallestSubset ==
    ASSUME NEW S, IsFiniteSet(S), NEW T, T \subseteq SUBSET S, T # {}
    PROVE  \E s \in T : \A t \in T : t \subseteq s => t = s
  <1>1. IsWellFoundedOn(StrictSubsetOrdering(S), SUBSET S)
    BY FS_StrictSubsetOrderingWellFounded, FS_FiniteSubsetsOfFinite
  <1>2. PICK s \in T : \A t \in T : ~ (<<t, s>> \in StrictSubsetOrdering(S))
    BY <1>1, WFMin, Zenon
  <1>3. ASSUME NEW t \in T, t \subseteq s PROVE t = s
    BY <1>2, <1>3 DEF StrictSubsetOrdering
  <1> QED
    BY <1>3

\* The element that a fold takes next from a set.
Taken(s) == CHOOSE x \in s : TRUE

LEMMA TakenFacts ==
    ASSUME NEW s, s # {}
    PROVE  /\ Taken(s) \in s
           /\ s \ {Taken(s)} \subseteq s
           /\ s \ {Taken(s)} # s
  BY DEF Taken

\* The sums of f over the subsets of S, added up in the order of the fold.
AreSums(g, f, S) ==
    g = [s \in SUBSET S |-> IF s = {} THEN 0 ELSE f[Taken(s)] + g[s \ {Taken(s)}]]

LEMMA SumsAt ==
    ASSUME NEW g, NEW f, NEW S, AreSums(g, f, S), NEW s \in SUBSET S
    PROVE  g[s] = IF s = {} THEN 0 ELSE f[Taken(s)] + g[s \ {Taken(s)}]
  BY DEF AreSums

\* There is one way only to add up.
LEMMA SumsAreUnique ==
    ASSUME NEW S, IsFiniteSet(S), NEW T, NEW f, NEW h, NEW d, NEW e,
           \A x \in S \cap T : f[x] = h[x],
           AreSums(d, f, S), AreSums(e, h, T)
    PROVE  \A s \in SUBSET (S \cap T) : d[s] = e[s]
  <1> DEFINE differ == {s \in SUBSET (S \cap T) : d[s] # e[s]}
  <1>1. SUFFICES ASSUME differ # {} PROVE FALSE
    OBVIOUS
  <1>2. differ \subseteq SUBSET S
    OBVIOUS
  <1>3. PICK s \in differ : \A t \in differ : t \subseteq s => t = s
    <2> HIDE DEF differ
    <2> QED
      BY <1>1, <1>2, SmallestSubset
  <1>4. s \in SUBSET S /\ s \in SUBSET T /\ d[s] # e[s]
    OBVIOUS
  <1>5. /\ d[s] = IF s = {} THEN 0 ELSE f[Taken(s)] + d[s \ {Taken(s)}]
        /\ e[s] = IF s = {} THEN 0 ELSE h[Taken(s)] + e[s \ {Taken(s)}]
    BY <1>4, SumsAt
  <1>6. s # {}
    BY <1>4, <1>5
  <1> DEFINE rest == s \ {Taken(s)}
  <1>7. Taken(s) \in s /\ rest \subseteq s /\ rest # s
    BY <1>6, TakenFacts
  <1>8. rest \notin differ
    BY <1>3, <1>7
  <1>9. rest \in SUBSET (S \cap T)
    BY <1>4, <1>7
  <1>10. d[rest] = e[rest]
    BY <1>8, <1>9
  <1>11. f[Taken(s)] = h[Taken(s)]
    BY <1>4, <1>7
  <1> QED
    BY <1>4, <1>5, <1>6, <1>10, <1>11

\* The sums exist, and are integers when the values are.
LEMMA SumsExist ==
    ASSUME NEW U, IsFiniteSet(U), NEW f
    PROVE  \A S \in SUBSET U : \E g : AreSums(g, f, S)
  <1> DEFINE without == {S \in SUBSET U : \A g : ~ AreSums(g, f, S)}
  <1>1. SUFFICES ASSUME without # {} PROVE FALSE
    OBVIOUS
  <1>2. PICK S \in without : \A t \in without : t \subseteq S => t = S
    <2>1. without \subseteq SUBSET U
      OBVIOUS
    <2> HIDE DEF without
    <2> QED
      BY <1>1, <2>1, SmallestSubset
  <1> DEFINE sums(t) == CHOOSE g : AreSums(g, f, t)
             below(t) == IF t = {} THEN 0
                         ELSE f[Taken(t)] + sums(t \ {Taken(t)})[t \ {Taken(t)}]
             g == [t \in SUBSET S |-> below(t)]
  <1>3. ASSUME NEW t \in SUBSET S, t # S PROVE AreSums(sums(t), f, t)
    <2>1. t \in SUBSET U /\ t \notin without
      BY <1>2, <1>3
    <2>2. \E e : AreSums(e, f, t)
      BY <2>1
    <2> QED
      BY <2>2
  <1>4. ASSUME NEW t \in SUBSET S
        PROVE  g[t] = IF t = {} THEN 0 ELSE f[Taken(t)] + g[t \ {Taken(t)}]
    <2>1. CASE t = {}
      BY <2>1
    <2>2. CASE t # {}
      <3> DEFINE u == t \ {Taken(t)}
      <3>1. u \subseteq t /\ u # t /\ u \in SUBSET S /\ u # S
        BY <2>2, TakenFacts
      <3>2. AreSums(sums(u), f, u)
        BY <1>3, <3>1
      <3>3. sums(u)[u] = IF u = {} THEN 0 ELSE f[Taken(u)] + sums(u)[u \ {Taken(u)}]
        <4> HIDE DEF u, sums
        <4> QED
          BY <3>2, SumsAt
      <3>4. u # {} => sums(u)[u \ {Taken(u)}] = sums(u \ {Taken(u)})[u \ {Taken(u)}]
        <4> SUFFICES ASSUME u # {} PROVE sums(u)[u \ {Taken(u)}] = sums(u \ {Taken(u)})[u \ {Taken(u)}]
          OBVIOUS
        <4> DEFINE v == u \ {Taken(u)}
        <4>1. v \subseteq u /\ v \in SUBSET S /\ v # S
          BY <3>1, TakenFacts
        <4>2. AreSums(sums(v), f, v)
          BY <1>3, <4>1
        <4>3. IsFiniteSet(u) /\ v \in SUBSET (u \cap v)
          BY <3>1, <4>1, FS_Subset
        <4> HIDE DEF u, v, sums
        <4>4. sums(u)[v] = sums(v)[v]
          BY <3>2, <4>2, <4>3, SumsAreUnique
        <4> QED
          BY <4>4 DEF v
      <3>5. sums(u)[u] = below(u)
        <4> HIDE DEF u, sums
        <4> QED
          BY <3>3, <3>4
      <3>6. g[u] = sums(u)[u]
        <4> HIDE DEF u, below, sums
        <4> QED
          BY <3>1, <3>5
      <3>7. g[t] = f[Taken(t)] + sums(u)[u]
        BY <2>2
      <3> HIDE DEF u, g, sums
      <3>8. g[t] = f[Taken(t)] + g[u]
        BY <3>6, <3>7
      <3> QED
        BY <2>2, <3>8 DEF u
    <2> QED
      BY <2>1, <2>2
  <1>5. g = [t \in SUBSET S |-> IF t = {} THEN 0 ELSE f[Taken(t)] + g[t \ {Taken(t)}]]
    <2> DEFINE e == [t \in SUBSET S |-> IF t = {} THEN 0
                                        ELSE f[Taken(t)] + g[t \ {Taken(t)}]]
    <2>1. \A t \in SUBSET S : g[t] = e[t]
      <3> HIDE DEF g
      <3> QED
        BY <1>4
    <2>2. DOMAIN g = SUBSET S /\ DOMAIN e = SUBSET S
      OBVIOUS
    <2>3. g = [t \in SUBSET S |-> g[t]] /\ e = [t \in SUBSET S |-> e[t]]
      OBVIOUS
    <2> HIDE DEF g, e
    <2>4. g = e
      BY <2>1, <2>3
    <2> QED
      BY <2>4 DEF e
  <1>6. AreSums(g, f, S)
    <2> HIDE DEF g
    <2> QED
      BY <1>5 DEF AreSums
  <1> QED
    BY <1>2, <1>6

\* The sum of the community module is one of these sums.
LEMMA SumIsAmongSums ==
    ASSUME NEW S, IsFiniteSet(S), NEW f
    PROVE  \E g : AreSums(g, f, S) /\ SumFunctionOnSet(f, S) = g[S]
  <1> DEFINE g == CHOOSE iter : AreSums(iter, f, S)
  <1>1. AreSums(g, f, S)
    <2>1. \E iter : AreSums(iter, f, S)
      BY SumsExist
    <2> QED
      BY <2>1
  <1>2. SumFunctionOnSet(f, S) = g[S]
    BY DEF SumFunctionOnSet, FoldFunctionOnSet, MapThenFoldSet, AreSums, Taken
  <1> HIDE DEF g
  <1> QED
    BY <1>1, <1>2

\* The sum over no element.
LEMMA SumOfNothing ==
    ASSUME NEW f
    PROVE  SumFunctionOnSet(f, {}) = 0
  <1>1. PICK g : AreSums(g, f, {}) /\ SumFunctionOnSet(f, {}) = g[{}]
    BY FS_EmptySet, SumIsAmongSums
  <1> QED
    BY <1>1, SumsAt

\* The sum depends on the values only.
LEMMA SumOfSameValues ==
    ASSUME NEW S, IsFiniteSet(S), NEW f, NEW h, \A x \in S : f[x] = h[x]
    PROVE  SumFunctionOnSet(f, S) = SumFunctionOnSet(h, S)
  <1>1. PICK d : AreSums(d, f, S) /\ SumFunctionOnSet(f, S) = d[S]
    BY SumIsAmongSums
  <1>2. PICK e : AreSums(e, h, S) /\ SumFunctionOnSet(h, S) = e[S]
    BY SumIsAmongSums
  <1>3. S \in SUBSET (S \cap S)
    OBVIOUS
  <1>4. d[S] = e[S]
    BY <1>1, <1>2, <1>3, SumsAreUnique
  <1> QED
    BY <1>1, <1>2, <1>4

\* The step of the fold.
LEMMA SumWithoutTaken ==
    ASSUME NEW S, IsFiniteSet(S), S # {}, NEW f
    PROVE  SumFunctionOnSet(f, S)
               = f[Taken(S)] + SumFunctionOnSet(f, S \ {Taken(S)})
  <1> DEFINE T == S \ {Taken(S)}
  <1>1. T \subseteq S /\ IsFiniteSet(T)
    BY FS_Subset
  <1>2. PICK d : AreSums(d, f, S) /\ SumFunctionOnSet(f, S) = d[S]
    BY SumIsAmongSums
  <1>3. PICK e : AreSums(e, f, T) /\ SumFunctionOnSet(f, T) = e[T]
    BY <1>1, SumIsAmongSums
  <1>4. d[S] = f[Taken(S)] + d[T]
    BY <1>2, SumsAt
  <1>5. d[T] = e[T]
    <2>1. T \in SUBSET (S \cap T)
      OBVIOUS
    <2> HIDE DEF T
    <2> QED
      BY <1>2, <1>3, <2>1, SumsAreUnique
  <1> QED
    BY <1>2, <1>3, <1>4, <1>5

\* A sum of integers is an integer.
LEMMA SumTyped ==
    ASSUME NEW S, IsFiniteSet(S), NEW f, \A x \in S : f[x] \in Int
    PROVE  SumFunctionOnSet(f, S) \in Int
  <1> DEFINE others == {s \in SUBSET S : SumFunctionOnSet(f, s) \notin Int}
  <1>1. SUFFICES ASSUME others # {} PROVE FALSE
    OBVIOUS
  <1>2. PICK s \in others : \A t \in others : t \subseteq s => t = s
    <2>1. others \subseteq SUBSET S
      OBVIOUS
    <2> HIDE DEF others
    <2> QED
      BY <1>1, <2>1, SmallestSubset
  <1>3. s \in SUBSET S /\ IsFiniteSet(s) /\ s # {}
    <2>1. s \in SUBSET S /\ SumFunctionOnSet(f, s) \notin Int
      OBVIOUS
    <2>2. SumFunctionOnSet(f, {}) \in Int
      BY SumOfNothing
    <2> QED
      BY <2>1, <2>2, FS_Subset
  <1> DEFINE rest == s \ {Taken(s)}
  <1>4. Taken(s) \in S /\ rest \in SUBSET S /\ rest \subseteq s /\ rest # s
    BY <1>3, TakenFacts
  <1>5. SumFunctionOnSet(f, rest) \in Int
    BY <1>2, <1>4
  <1>6. SumFunctionOnSet(f, s) = f[Taken(s)] + SumFunctionOnSet(f, rest)
    BY <1>3, SumWithoutTaken
  <1> QED
    BY <1>2, <1>4, <1>5, <1>6

\* Any element can be taken first: the order of the fold does not matter.
LEMMA SumWithout ==
    ASSUME NEW S, IsFiniteSet(S), NEW f, \A x \in S : f[x] \in Int, NEW a \in S
    PROVE  SumFunctionOnSet(f, S) = f[a] + SumFunctionOnSet(f, S \ {a})
  <1> DEFINE sum(s) == SumFunctionOnSet(f, s)
             wrong == {s \in SUBSET S : \E x \in s : sum(s) # f[x] + sum(s \ {x})}
  <1>1. SUFFICES ASSUME wrong # {} PROVE FALSE
    OBVIOUS
  <1>2. PICK s \in wrong : \A t \in wrong : t \subseteq s => t = s
    <2>1. wrong \subseteq SUBSET S
      OBVIOUS
    <2> HIDE DEF wrong
    <2> QED
      BY <1>1, <2>1, SmallestSubset
  <1>3. PICK x \in s : sum(s) # f[x] + sum(s \ {x})
    OBVIOUS
  <1>4. s \in SUBSET S
    OBVIOUS
  <1> DEFINE y == Taken(s)
  <1>5. y \in s /\ sum(s) = f[y] + sum(s \ {y})
    BY <1>3, <1>4, FS_Subset, TakenFacts, SumWithoutTaken
  <1> HIDE DEF y
  <1>6. x # y
    BY <1>3, <1>5
  <1>7. /\ s \ {x} \in SUBSET S /\ s \ {x} # s /\ y \in s \ {x}
        /\ s \ {y} \in SUBSET S /\ s \ {y} # s /\ x \in s \ {y}
        /\ (s \ {x}) \ {y} = (s \ {y}) \ {x}
    BY <1>3, <1>5, <1>6
  <1>8. s \ {x} \notin wrong /\ s \ {y} \notin wrong
    <2> HIDE DEF wrong
    <2> QED
      BY <1>2, <1>7
  <1>9. /\ sum(s \ {x}) = f[y] + sum((s \ {x}) \ {y})
        /\ sum(s \ {y}) = f[x] + sum((s \ {y}) \ {x})
    <2> HIDE DEF sum
    <2> QED
      BY <1>7, <1>8
  <1>10. sum((s \ {x}) \ {y}) \in Int
    <2>1. (s \ {x}) \ {y} \in SUBSET S
      BY <1>4
    <2>2. \A z \in (s \ {x}) \ {y} : f[z] \in Int
      BY <1>4
    <2> QED
      BY <2>1, <2>2, FS_Subset, SumTyped
  <1>11. f[x] \in Int /\ f[y] \in Int
    BY <1>3, <1>4, <1>5
  <1> DEFINE rest == sum((s \ {x}) \ {y})
  <1>12. sum(s) = f[y] + (f[x] + rest) /\ sum(s \ {x}) = f[y] + rest
    BY <1>5, <1>7, <1>9
  <1>13. rest \in Int
    BY <1>10
  <1> HIDE DEF rest, sum, wrong
  <1>14. f[y] + (f[x] + rest) = f[x] + (f[y] + rest)
    BY <1>11, <1>13
  <1> QED
    BY <1>3, <1>12, <1>14

\* One more element adds its value.
LEMMA SumWithOneMore ==
    ASSUME NEW S, IsFiniteSet(S), NEW a, a \notin S,
           NEW f, \A x \in S : f[x] \in Int, f[a] \in Int
    PROVE  SumFunctionOnSet(f, S \cup {a}) = SumFunctionOnSet(f, S) + f[a]
  <1>1. IsFiniteSet(S \cup {a}) /\ (S \cup {a}) \ {a} = S
    BY FS_AddElement
  <1>2. SumFunctionOnSet(f, S \cup {a}) = f[a] + SumFunctionOnSet(f, S)
    BY <1>1, SumWithout
  <1>3. SumFunctionOnSet(f, S) \in Int
    BY SumTyped
  <1> QED
    BY <1>2, <1>3

\* The quantities of a trade book.
QuantityIn(rows) == [t \in DOMAIN rows |-> rows[t].quantity]

\* A trade that is appended adds its quantity, and changes no other.
LEMMA QuantityAppended ==
    ASSUME NEW S, \A r \in S : r.quantity \in Int, NEW rows \in Seq(S), NEW row \in S
    PROVE  /\ IsFiniteSet(DOMAIN rows) /\ Len(rows) + 1 \notin DOMAIN rows
           /\ DOMAIN Append(rows, row) = DOMAIN rows \cup {Len(rows) + 1}
           /\ \A t \in DOMAIN rows : /\ QuantityIn(rows)[t] \in Int
                                     /\ QuantityIn(Append(rows, row))[t] = QuantityIn(rows)[t]
           /\ QuantityIn(Append(rows, row))[Len(rows) + 1] = row.quantity
  <1>1. PICK longer, end : longer = Append(rows, row) /\ end = Len(rows) + 1
    OBVIOUS
  <1>2. /\ DOMAIN rows = 1..Len(rows) /\ Len(rows) \in Nat
        /\ DOMAIN longer = 1..end
        /\ \A t \in DOMAIN rows : longer[t] = rows[t]
        /\ longer[end] = row
    BY <1>1, RowAppended, LenProperties
  <1>3. DOMAIN longer = DOMAIN rows \cup {end} /\ end \notin DOMAIN rows
    BY <1>1, <1>2
  <1>4. IsFiniteSet(DOMAIN rows)
    <2>1. 1 \in Int /\ Len(rows) \in Int
      BY <1>2
    <2>2. IsFiniteSet(1..Len(rows))
      BY <2>1, FS_Interval
    <2> QED
      BY <1>2, <2>2
  <1>5. \A t \in DOMAIN rows : rows[t].quantity \in Int
    <2>1. \A t \in DOMAIN rows : rows[t] \in S
      BY <1>2, ElementOfSeq
    <2> QED
      BY <2>1
  <1>6. /\ \A t \in DOMAIN rows : /\ QuantityIn(rows)[t] \in Int
                                  /\ QuantityIn(longer)[t] = QuantityIn(rows)[t]
        /\ QuantityIn(longer)[end] = row.quantity
    BY <1>2, <1>3, <1>5 DEF QuantityIn
  <1> QED
    BY <1>1, <1>3, <1>4, <1>6

\* What a position has earned, less the cost of what is open.
Worth(position) ==
    position.accumulated_realized_pnl - position.quantity * position.average_price

\* Adding shares of the same sign at this price leaves an average that needs no
\* rounding: a whole one that values the new quantity at its cost.
AveragesExactly(position, quantity, price) ==
    (position.quantity > 0 /\ quantity > 0) \/ (position.quantity < 0 /\ quantity < 0) =>
        \E average \in Int :
            (position.quantity + quantity) * average
                = position.quantity * position.average_price + quantity * price

\* An average that comes out whole is not rounded.
LEMMA AverageOf ==
    ASSUME NEW total \in Nat \ {0}, NEW average \in Int, NEW sum, sum = total * average
    PROVE  sum \div total = average
  OBVIOUS

\* Through opening, averaging, reducing, closing and reversing, a fill changes what
\* the position is worth by the cash it moves and by nothing else.
LEMMA NettedWorth ==
    ASSUME NEW position \in Position, NEW price \in Int,
           NEW order, order.action \in {"BUY", "SELL"}, order.quantity \in Nat \ {0},
           order.margin_blocked \in Int,
           AveragesExactly(position, Signed(order.action, order.quantity), price)
    PROVE  Worth(Netted(position, order, price))
               = Worth(position) - Signed(order.action, order.quantity) * price
  <1>1. PICK q, a, e, m, n, h : /\ q = position.quantity /\ a = position.average_price
                          /\ e = position.accumulated_realized_pnl /\ m = position.margin_blocked
                          /\ n = order.quantity /\ h = Magnitude(q)
    OBVIOUS
  <1>2. q \in Int /\ a \in Int /\ e \in Int /\ m \in Int /\ n \in Nat \ {0} /\ h \in Nat
    BY <1>1, MagnitudeFacts DEF Position
  <1>3. Worth(position) = e - q * a
    BY <1>1 DEF Worth
  <1>4. PICK signed \in Int : signed = Signed(order.action, n) /\ signed = IF order.action = "BUY" THEN n ELSE -n
    BY <1>1, <1>2 DEF Signed
  <1>5. PICK after : after = Netted(position, order, price)
    OBVIOUS
  <1>6. SUFFICES Worth(after) = e - q * a - signed * price
    BY <1>1, <1>3, <1>4, <1>5
  <1>10. after \in Position
    BY <1>5, NettedTyped
  <1>7. CASE q = 0
    <2>1. after.quantity = signed /\ after.average_price = price /\ after.accumulated_realized_pnl = e
      BY <1>1, <1>4, <1>5, <1>7 DEF Netted, Opened, Position
    <2>2. q * a = 0
      BY <1>2, <1>7
    <2> QED
      BY <1>2, <1>4, <2>1, <2>2 DEF Worth
  <1>8. CASE q # 0 /\ ~Opposes(position, order.action)
    <2>1. q = IF order.action = "BUY" THEN h ELSE -h
      BY <1>1, <1>2, <1>8, MagnitudeFacts DEF Opposes
    <2>2. PICK total \in Nat \ {0} : total = h + n
      BY <1>2
    <2>3. \/ q > 0 /\ q = h /\ signed = n /\ q + signed = total
          \/ q < 0 /\ q = -h /\ signed = -n /\ q + signed = -total
      <3>2. h > 0
        BY <1>1, <1>2, <1>8, MagnitudeFacts
      <3>3. CASE order.action = "BUY"
        BY <1>2, <1>4, <1>8, <2>1, <2>2, <3>2, <3>3
      <3>4. CASE order.action # "BUY"
        BY <1>2, <1>4, <1>8, <2>1, <2>2, <3>2, <3>4
      <3> QED
        BY <3>3, <3>4
    <2>4. PICK average \in Int : (q + signed) * average = q * a + signed * price
      <3>1. (q > 0 /\ signed > 0) \/ (q < 0 /\ signed < 0)
        BY <1>2, <2>3
      <3> QED
        BY <1>1, <1>4, <3>1 DEF AveragesExactly
    <2>5. h * a + n * price = total * average
      <3>1. CASE q = h /\ signed = n /\ q + signed = total
        BY <2>4, <3>1
      <3>2. CASE q = -h /\ signed = -n /\ q + signed = -total
        <4>1. (-total) * average = (-h) * a + (-n) * price
          BY <2>4, <3>2
        <4>2. (-total) * average = -(total * average) /\ (-h) * a = -(h * a) /\ (-n) * price = -(n * price)
          BY <1>2, <2>2
        <4> QED
          BY <1>2, <2>2, <4>1, <4>2
      <3> QED
        BY <2>3, <3>1, <3>2
    <2>6. /\ after.quantity = q + signed /\ after.accumulated_realized_pnl = e
          /\ after.average_price = (h * a + n * price) \div total
      BY <1>1, <1>4, <1>5, <1>8, <2>2 DEF Netted, Added, Position
    <2>7. after.average_price = average
      BY <2>2, <2>5, <2>6, AverageOf
    <2>8. Worth(after) = e - (q + signed) * average
      BY <2>6, <2>7 DEF Worth
    <2> QED
      BY <1>2, <1>4, <2>4, <2>8
  <1>9. CASE q # 0 /\ Opposes(position, order.action)
    <2>1. /\ q > 0 => q = h /\ signed = -n
          /\ q < 0 => q = -h /\ signed = n
      BY <1>1, <1>2, <1>4, <1>9, MagnitudeFacts DEF Opposes
    <2>2. CASE n > h
      <3>1. /\ after.quantity = Signed(order.action, n - h) /\ after.average_price = price
            /\ after.accumulated_realized_pnl = e + RealizedPnl(position, h, price)
        BY <1>1, <1>5, <1>9, <2>2 DEF Netted, Reversed, Realized, Position
      <3>2. RealizedPnl(position, h, price) = IF q > 0 THEN (price - a) * h ELSE (a - price) * h
        BY <1>1 DEF RealizedPnl
      <3>0. PICK now, mean, left \in Int : /\ now = after.accumulated_realized_pnl /\ mean = after.average_price
                                          /\ left = after.quantity
        BY <1>10 DEF Position
      <3>3. left = IF q > 0 THEN h - n ELSE n - h
        BY <1>1, <1>2, <1>9, <3>0, <3>1 DEF Opposes, Signed
      <3>7. Worth(after) = now - left * mean
        BY <3>0 DEF Worth
      <3>8. PICK earned \in Int : earned = RealizedPnl(position, h, price)
        BY <1>2, RealizedTyped
      <3>9. now = e + earned /\ mean = price
        BY <3>0, <3>1, <3>8
      <3>4. Worth(after) = e + earned - left * price
        BY <1>2, <3>7, <3>9
      <3>5. CASE q > 0
        <4>1. Worth(after) = e + (price - a) * h - (h - n) * price
          BY <3>2, <3>3, <3>4, <3>5, <3>8
        <4>2. (price - a) * h - (h - n) * price = n * price - h * a
          BY <1>2
        <4>3. (-n) * price = -(n * price)
          BY <1>2
        <4>4. signed * price = -(n * price) /\ q * a = h * a
          BY <2>1, <3>5, <4>3
        <4> QED
          BY <1>2, <1>4, <4>1, <4>2, <4>4
      <3>6. CASE q < 0
        <4>1. Worth(after) = e + (a - price) * h - (n - h) * price
          BY <1>2, <3>2, <3>3, <3>4, <3>6, <3>8
        <4>2. (a - price) * h - (n - h) * price = h * a - n * price
          BY <1>2
        <4>3. (-h) * a = -(h * a)
          BY <1>2
        <4> QED
          BY <1>2, <2>1, <3>6, <4>1, <4>2, <4>3
      <3> QED
        BY <1>2, <1>9, <3>5, <3>6
    <2>3. CASE ~(n > h)
      <3>1. /\ after.quantity = q + signed /\ after.average_price = a
            /\ after.accumulated_realized_pnl = e + RealizedPnl(position, n, price)
        BY <1>1, <1>4, <1>5, <1>9, <2>3 DEF Netted, ReducedOrClosed, Realized, Position
      <3>2. RealizedPnl(position, n, price) = IF q > 0 THEN (price - a) * n ELSE (a - price) * n
        BY <1>1 DEF RealizedPnl
      <3>0. PICK now, mean, left \in Int : /\ now = after.accumulated_realized_pnl /\ mean = after.average_price
                                          /\ left = after.quantity
        BY <1>10 DEF Position
      <3>7. Worth(after) = now - left * mean
        BY <3>0 DEF Worth
      <3>8. PICK earned \in Int : earned = RealizedPnl(position, n, price)
        BY <1>2, RealizedTyped
      <3>9. now = e + earned /\ left = q + signed /\ mean = a
        BY <3>0, <3>1, <3>8
      <3>3. Worth(after) = e + earned - (q + signed) * a
        BY <1>2, <3>7, <3>9
      <3>4. CASE q > 0
        <4>1. Worth(after) = e + (price - a) * n - (q - n) * a
          BY <1>2, <2>1, <3>2, <3>3, <3>4, <3>8
        <4>2. (price - a) * n - (q - n) * a = n * price - q * a
          BY <1>2
        <4>3. (-n) * price = -(n * price)
          BY <1>2
        <4>4. signed * price = -(n * price)
          BY <2>1, <3>4, <4>3
        <4> QED
          BY <1>2, <1>4, <4>1, <4>2, <4>4
      <3>5. CASE q < 0
        <4>1. Worth(after) = e + (a - price) * n - (q + n) * a
          BY <1>2, <2>1, <3>2, <3>3, <3>5, <3>8
        <4>2. (a - price) * n - (q + n) * a = -(q * a) - n * price
          BY <1>2
        <4> QED
          BY <1>2, <2>1, <3>5, <4>1, <4>2
      <3> QED
        BY <1>2, <1>9, <3>4, <3>5
    <2> QED
      BY <2>2, <2>3
  <1> QED
    BY <1>7, <1>8, <1>9

\* The cash each trade of a trade book moves.
CashIn(rows) == [t \in DOMAIN rows |-> -(rows[t].quantity * rows[t].price)]

\* A trade that is appended moves its own cash, and changes no other's.
LEMMA CashAppended ==
    ASSUME NEW S, \A r \in S : r.quantity \in Int /\ r.price \in Int,
           NEW rows \in Seq(S), NEW row \in S
    PROVE  /\ \A t \in DOMAIN rows : /\ CashIn(rows)[t] \in Int
                                     /\ CashIn(Append(rows, row))[t] = CashIn(rows)[t]
           /\ CashIn(Append(rows, row))[Len(rows) + 1] = -(row.quantity * row.price)
  <1>1. PICK longer, end : longer = Append(rows, row) /\ end = Len(rows) + 1
    OBVIOUS
  <1>2. /\ DOMAIN rows = 1..Len(rows) /\ Len(rows) \in Nat
        /\ DOMAIN longer = 1..end
        /\ \A t \in DOMAIN rows : longer[t] = rows[t]
        /\ longer[end] = row
    BY <1>1, RowAppended, LenProperties
  <1>3. \A t \in DOMAIN rows : t \in DOMAIN longer
    BY <1>1, <1>2
  <1>4. end \in DOMAIN longer
    BY <1>1, <1>2
  <1>5. ASSUME NEW t \in DOMAIN rows
        PROVE  CashIn(rows)[t] \in Int /\ CashIn(longer)[t] = CashIn(rows)[t]
    <2>1. rows[t] \in S
      BY <1>2, ElementOfSeq
    <2>2. PICK q \in Int, p \in Int : q = rows[t].quantity /\ p = rows[t].price
      BY <2>1
    <2>3. CashIn(rows)[t] = -(q * p) /\ CashIn(longer)[t] = -(q * p)
      BY <1>2, <1>3, <2>2 DEF CashIn
    <2> QED
      BY <2>2, <2>3
  <1>6. CashIn(longer)[end] = -(row.quantity * row.price)
    BY <1>2, <1>4 DEF CashIn
  <1> QED
    BY <1>1, <1>5, <1>6
=============================================================================
