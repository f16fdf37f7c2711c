-------------------------- MODULE Inventory_proofs --------------------------
(***************************************************************************)
(* Proofs about Inventory for any shelves, receipts, counts, clerks and    *)
(* number of lots.  The quantity of every lot the lot endpoint left alone  *)
(* is the sum of its movements and within what was delivered, and the      *)
(* services implement the stock book.                                      *)
(***************************************************************************)
EXTENDS Inventory, FiniteSetTheorems, WellFoundedInduction, TLAPS

\* A plan takes from each lot a part of what remains there.
LEMMA PlanTakes ==
  ASSUME RowsOK, NEW amount, NEW take \in Plans(amount), NEW l \in Created
  PROVE  take[l] \in Nat /\ take[l] <= remaining[l]
  <1>1. take \in [Created -> UNION {0 .. Available(m) : m \in Created}] /\ take[l] <= Available(l)
    BY DEF Plans
  <1>2. \A m \in Created : Available(m) \in Nat
    BY DEF Available, RowsOK, Created
  <1>3. take[l] \in Nat
    BY <1>1, <1>2
  <1>4. QED
    BY <1>1, <1>3 DEF Available
-----------------------------------------------------------------------------
\* A posted receipt gives each lot the same delivered quantity in its three
\* columns.
LEMMA ReceiptStep ==
  ASSUME RowsOK, NEW g \in Receipts, PostGoodsReceipt(g)
  PROVE  /\ RowsOK'
         /\ \A l \in Lots : \E q \in Nat : /\ received'[l] = received[l] + q
                                           /\ remaining'[l] = remaining[l] + q
                                           /\ moved'[l] = moved[l] + q
  <1> DEFINE lines   == AcceptedLines(g)
             opening == {x \in lines : ExistingLots(x) = {}
                                       /\ \A y \in lines : SameLot(x, y) => x <= y}
             fresh   == NextLots(Cardinality(opening))
             put(f, l) == QuantityOf[{x \in lines : f[x] = l}]
             booked(y) == QuantityOf[CountedIn(lines, y)]
  <1>1. PICK f \in [lines -> Lots] :
          /\ {f[x] : x \in opening} = fresh
          /\ shelf' = [l \in Lots |-> IF l \in fresh
                         THEN ShelfOf[CHOOSE x \in opening : f[x] = l] ELSE shelf[l]]
          /\ received' = [l \in Lots |-> Delivery(l, put(f, l))]
          /\ remaining' = [l \in Lots |-> remaining[l] + put(f, l)]
          /\ moved' = [l \in Lots |-> moved[l] + put(f, l)]
          /\ lineLot' = [x \in ReceiptLines |-> IF x \in lines THEN f[x] ELSE lineLot[x]]
    BY DEF PostGoodsReceipt
  <1>2. lines \subseteq ReceiptLines /\ opening \subseteq lines
    BY DEF AcceptedLines, LinesOfReceipt
  <1>3. \A l : put(f, l) \in Nat
    BY <1>2, LinesAssumption
  <1>4. \A y : booked(y) \in Nat
    BY <1>2, LinesAssumption DEF CountedIn, AllLinesFor
  <1>5. lineReceived' = [y \in OrderLines |-> lineReceived[y] + booked(y)]
    BY DEF PostGoodsReceipt
  <1> HIDE DEF lines, opening, fresh, put, booked
  <1>6. shelf' \in [Lots -> Shelves \cup {"none"}]
    <2> SUFFICES ASSUME NEW l \in Lots
                 PROVE shelf'[l] \in Shelves \cup {"none"}
      BY <1>1
    <2>1. CASE l \in fresh
      <3>1. PICK x \in opening : f[x] = l
        BY <1>1, <2>1
      <3>2. (CHOOSE z \in opening : f[z] = l) \in ReceiptLines
        BY <1>2, <3>1
      <3>3. ShelfOf[CHOOSE z \in opening : f[z] = l] \in Shelves
        BY <3>2, LinesAssumption
      <3>4. QED
        BY <1>1, <2>1, <3>3
    <2>2. CASE l \notin fresh
      BY <1>1, <2>2 DEF RowsOK
    <2>3. QED
      BY <2>1, <2>2
  <1>7. ASSUME NEW l \in Lots
        PROVE  /\ received'[l] = received[l] + put(f, l)
               /\ remaining'[l] = remaining[l] + put(f, l)
               /\ moved'[l] = moved[l] + put(f, l)
    BY <1>1 DEF Delivery
  <1>8. /\ received' \in [Lots -> Nat]
        /\ remaining' \in [Lots -> Nat]
        /\ moved' \in [Lots -> Int]
    BY <1>1, <1>3 DEF RowsOK, Delivery
  <1>9. lineLot' \in [ReceiptLines -> Lots \cup {NoLot}]
    BY <1>1 DEF RowsOK
  <1>10. lineReceived' \in [OrderLines -> Nat]
    BY <1>4, <1>5 DEF RowsOK
  <1>11. orderStatus' \in [PurchaseOrders -> {"draft", "partial", "received"}]
    BY DEF PostGoodsReceipt, RowsOK
  <1>12. RowsOK'
    BY <1>6, <1>8, <1>9, <1>10, <1>11 DEF PostGoodsReceipt, countVars, RowsOK
  <1>13. QED
    BY <1>3, <1>7, <1>12

\* A posted count gives fresh lots a surplus and takes a shortage from lots
\* that hold it, with movements of the same quantities.
LEMMA CountStep ==
  ASSUME RowsOK, NEW k \in Clerks, PostStockCount(k)
  PROVE  /\ RowsOK'
         /\ \A l \in Lots : \E q \in Nat, t \in 0 .. remaining[l] :
              /\ received'[l] = received[l] + q
              /\ remaining'[l] = remaining[l] + q - t
              /\ moved'[l] = moved[l] + q - t
  <1> DEFINE c       == clerk[k].count
             surplus == {s \in Shelves : Variance[c][s] > 0}
             short   == [s \in Shelves |-> IF Variance[c][s] < 0 THEN -Variance[c][s] ELSE 0]
             fresh   == NextLots(Cardinality(surplus))
             gain(on, l) == IF l \in fresh THEN Variance[c][on[l]] ELSE 0
             given(take, l) == IF l \in Created THEN take[l] ELSE 0
  <1>1. c \in Counts
    BY SentinelAssumption DEF PostStockCount, HeldUnposted, RowsOK
  <1>2. PICK take \in Plans(short), on \in [fresh -> surplus] :
          /\ shelf' = [l \in Lots |-> IF l \in fresh THEN on[l] ELSE shelf[l]]
          /\ received' = [l \in Lots |-> received[l] + gain(on, l)]
          /\ remaining' = [l \in Lots |-> remaining[l] + gain(on, l) - given(take, l)]
          /\ moved' = [l \in Lots |-> moved[l] + gain(on, l) + Outgoing(take, l)]
    BY DEF PostStockCount
  <1>3. \A s \in surplus : s \in Shelves /\ Variance[c][s] \in Nat
    BY <1>1, QuantitiesAssumption
  <1>4. \A l : gain(on, l) \in Nat
    BY <1>2, <1>3
  <1>5. ASSUME NEW l \in Lots
        PROVE  /\ given(take, l) \in 0 .. remaining[l]
               /\ Outgoing(take, l) = 0 - given(take, l)
    <2>1. remaining[l] \in Nat
      BY DEF RowsOK
    <2>2. CASE l \in Created
      BY <2>1, <2>2, <1>2, PlanTakes DEF Outgoing
    <2>3. CASE l \notin Created
      <3>1. given(take, l) = 0 /\ Outgoing(take, l) = 0
        BY <2>3 DEF Outgoing
      <3>2. 0 \in 0 .. remaining[l] /\ 0 = 0 - 0
        BY <2>1
      <3> HIDE DEF given
      <3>3. QED
        BY <3>1, <3>2, Zenon
    <2>4. QED
      BY <2>2, <2>3
  <1>6. /\ countStatus' = [countStatus EXCEPT ![c] = "posted"]
        /\ countMoved' = [countMoved EXCEPT ![c] = [s \in Shelves |-> @[s] + Variance[c][s]]]
        /\ clerk' = [clerk EXCEPT ![k] = Idle]
        /\ UNCHANGED <<lineLot, lineReceived, orderStatus>>
    BY DEF PostStockCount, orderVars
  <1> HIDE DEF c, surplus, short, fresh, gain, given
  <1>7. shelf' \in [Lots -> Shelves \cup {"none"}]
    BY <1>2, <1>3 DEF RowsOK
  <1>8. ASSUME NEW l \in Lots
        PROVE  /\ received'[l] = received[l] + gain(on, l)
               /\ remaining'[l] = remaining[l] + gain(on, l) - given(take, l)
               /\ moved'[l] = moved[l] + gain(on, l) - given(take, l)
    <2>1. moved[l] \in Int
      BY DEF RowsOK
    <2>2. QED
      BY <2>1, <1>2, <1>4, <1>5
  <1>9. ASSUME NEW l \in Lots
        PROVE  received'[l] \in Nat /\ remaining'[l] \in Nat /\ moved'[l] \in Int
    <2>1. received[l] \in Nat /\ remaining[l] \in Nat /\ moved[l] \in Int
      BY DEF RowsOK
    <2>2. gain(on, l) \in Nat /\ given(take, l) \in 0 .. remaining[l]
      BY <1>4, <1>5
    <2>3. QED
      BY <2>1, <2>2, <1>8
  <1>10. /\ received' \in [Lots -> Nat]
         /\ remaining' \in [Lots -> Nat]
         /\ moved' \in [Lots -> Int]
    BY <1>2, <1>9
  <1>11. countMoved' \in [Counts -> [Shelves -> Int]]
    <2>1. Variance[c] \in [Shelves -> Int] /\ countMoved[c] \in [Shelves -> Int]
      BY <1>1, QuantitiesAssumption DEF RowsOK
    <2>2. [s \in Shelves |-> countMoved[c][s] + Variance[c][s]] \in [Shelves -> Int]
      BY <2>1
    <2>3. countMoved' = [countMoved EXCEPT ![c] = [s \in Shelves |-> countMoved[c][s] + Variance[c][s]]]
      BY <1>1, <1>6 DEF RowsOK
    <2>4. QED
      BY <2>2, <2>3 DEF RowsOK
  <1>12. /\ countStatus' \in [Counts -> {"open", "posted"}]
         /\ clerk' \in [Clerks -> [count : Counts, status : {"open", "posted"}] \cup {Idle}]
    BY <1>6 DEF RowsOK
  <1>13. RowsOK'
    BY <1>6, <1>7, <1>10, <1>11, <1>12 DEF RowsOK
  <1>14. QED
    BY <1>4, <1>5, <1>8, <1>13

\* Wastage takes from lots that hold it, with movements of the same quantity.
LEMMA WastageStep ==
  ASSUME RowsOK, NEW s \in Shelves, NEW w \in Wasted, RecordWastage(s, w)
  PROVE  /\ RowsOK'
         /\ \A l \in Lots : \E t \in 0 .. remaining[l] :
              /\ received'[l] = received[l]
              /\ remaining'[l] = remaining[l] - t
              /\ moved'[l] = moved[l] - t
  <1> DEFINE amount == [t \in Shelves |-> IF t = s THEN w ELSE 0]
             given(take, l) == IF l \in Created THEN take[l] ELSE 0
  <1>1. PICK take \in Plans(amount) :
          /\ remaining' = [l \in Lots |-> remaining[l] - given(take, l)]
          /\ moved' = [l \in Lots |-> moved[l] + Outgoing(take, l)]
    BY DEF RecordWastage
  <1>2. ASSUME NEW l \in Lots
        PROVE  /\ given(take, l) \in 0 .. remaining[l]
               /\ Outgoing(take, l) = 0 - given(take, l)
    <2>1. remaining[l] \in Nat
      BY DEF RowsOK
    <2>2. CASE l \in Created
      BY <2>1, <2>2, <1>1, PlanTakes DEF Outgoing
    <2>3. CASE l \notin Created
      <3>1. given(take, l) = 0 /\ Outgoing(take, l) = 0
        BY <2>3 DEF Outgoing
      <3>2. 0 \in 0 .. remaining[l] /\ 0 = 0 - 0
        BY <2>1
      <3> HIDE DEF given
      <3>3. QED
        BY <3>1, <3>2, Zenon
    <2>4. QED
      BY <2>2, <2>3
  <1> HIDE DEF amount, given
  <1>3. ASSUME NEW l \in Lots
        PROVE  /\ received'[l] = received[l]
               /\ remaining'[l] = remaining[l] - given(take, l)
               /\ moved'[l] = moved[l] - given(take, l)
               /\ remaining'[l] \in Nat /\ moved'[l] \in Int
    <2>1. remaining[l] \in Nat /\ moved[l] \in Int
      BY DEF RowsOK
    <2>2. received'[l] = received[l]
      BY DEF RecordWastage
    <2>3. QED
      BY <2>1, <2>2, <1>1, <1>2
  <1>4. remaining' \in [Lots -> Nat] /\ moved' \in [Lots -> Int]
    BY <1>1, <1>3
  <1>5. RowsOK'
    BY <1>4 DEF RecordWastage, orderVars, countVars, RowsOK
  <1>6. QED
    BY <1>2, <1>3, <1>5
-----------------------------------------------------------------------------
LEMMA InitRowsOK == Init => RowsOK
  BY LotsAssumption DEF Init, RowsOK, Lots

LEMMA NextRowsOK == RowsOK /\ [Next]_vars => RowsOK'
  <1> SUFFICES ASSUME RowsOK, [Next]_vars
               PROVE  RowsOK'
    OBVIOUS
  <1>1. ASSUME NEW g \in Receipts, PostGoodsReceipt(g) PROVE RowsOK'
    BY <1>1, ReceiptStep
  <1>2. ASSUME NEW k \in Clerks, NEW c \in Counts, LoadCount(k, c) PROVE RowsOK'
    BY <1>2 DEF LoadCount, lotVars, orderVars, countVars, RowsOK
  <1>3. ASSUME NEW k \in Clerks, PostStockCount(k) PROVE RowsOK'
    BY <1>3, CountStep
  <1>4. ASSUME NEW k \in Clerks, Refused(k) PROVE RowsOK'
    BY <1>4 DEF Refused, lotVars, orderVars, countVars, RowsOK
  <1>5. ASSUME NEW s \in Shelves, NEW q \in Wasted, RecordWastage(s, q) PROVE RowsOK'
    BY <1>5, WastageStep
  <1>6. ASSUME NEW l \in Lots, NEW q \in EditTo, EditLot(l, q) PROVE RowsOK'
    BY <1>6, QuantitiesAssumption DEF EditLot, orderVars, countVars, RowsOK
  <1>7. CASE UNCHANGED vars
    BY <1>7 DEF vars, lotVars, orderVars, countVars, RowsOK
  <1>8. QED
    BY <1>1, <1>2, <1>3, <1>4, <1>5, <1>6, <1>7 DEF Next, Serve

\* Type correctness of the stock services, the lot endpoint included.
THEOREM TypeCorrect == Spec => []TypeOK
  <1>1. Init => edited \in SUBSET Lots
    BY DEF Init
  <1>2. edited \in SUBSET Lots /\ [Next]_vars => (edited \in SUBSET Lots)'
    BY DEF Next, EditLot, vars
  <1>3. RowsOK /\ edited \in SUBSET Lots => TypeOK
    BY DEF TypeOK
  <1>4. QED
    BY <1>1, <1>2, <1>3, InitRowsOK, NextRowsOK, PTL DEF Spec
-----------------------------------------------------------------------------
\* The inductive invariant: both stock rules, which follow from the three
\* step lemmas because every service writes a movement with each change.
IInv == RowsOK /\ BalanceIsMovements /\ NothingFromNothing

LEMMA InitIInv == Init => IInv
  BY InitRowsOK DEF Init, IInv, BalanceIsMovements, NothingFromNothing

LEMMA NextIInv ==
  ASSUME IInv, [Next]_vars
  PROVE  IInv'
  <1>1. RowsOK'
    BY NextRowsOK DEF IInv
  <1>2. ASSUME NEW l \in Lots \ edited
        PROVE  received[l] \in Nat /\ remaining[l] \in Nat /\ moved[l] \in Int
               /\ remaining[l] = moved[l] /\ remaining[l] <= received[l]
    BY DEF IInv, RowsOK, BalanceIsMovements, NothingFromNothing
  <1>3. ASSUME NEW g \in Receipts, PostGoodsReceipt(g), NEW l \in Lots \ edited
        PROVE  remaining'[l] = moved'[l] /\ remaining'[l] <= received'[l]
    <2>1. PICK q \in Nat : /\ received'[l] = received[l] + q
                           /\ remaining'[l] = remaining[l] + q
                           /\ moved'[l] = moved[l] + q
      BY <1>3, ReceiptStep DEF IInv
    <2>2. QED
      BY <2>1, <1>2
  <1>4. ASSUME NEW k \in Clerks, PostStockCount(k), NEW l \in Lots \ edited
        PROVE  remaining'[l] = moved'[l] /\ remaining'[l] <= received'[l]
    <2>1. PICK q \in Nat, t \in 0 .. remaining[l] :
            /\ received'[l] = received[l] + q
            /\ remaining'[l] = remaining[l] + q - t
            /\ moved'[l] = moved[l] + q - t
      BY <1>4, CountStep DEF IInv
    <2>2. QED
      BY <2>1, <1>2
  <1>5. ASSUME NEW s \in Shelves, NEW w \in Wasted, RecordWastage(s, w), NEW l \in Lots \ edited
        PROVE  remaining'[l] = moved'[l] /\ remaining'[l] <= received'[l]
    <2>1. PICK t \in 0 .. remaining[l] :
            /\ received'[l] = received[l]
            /\ remaining'[l] = remaining[l] - t
            /\ moved'[l] = moved[l] - t
      BY <1>5, WastageStep DEF IInv
    <2>2. QED
      BY <2>1, <1>2
  <1>6. ASSUME \/ \E k \in Clerks, c \in Counts : LoadCount(k, c)
               \/ \E k \in Clerks : Refused(k)
               \/ UNCHANGED vars,
               NEW l \in Lots \ edited
        PROVE  remaining'[l] = moved'[l] /\ remaining'[l] <= received'[l]
    BY <1>2, <1>6 DEF LoadCount, Refused, vars, lotVars
  <1>7. ASSUME NEW l \in Lots \ edited'
        PROVE  remaining'[l] = moved'[l] /\ remaining'[l] <= received'[l]
    <2>1. CASE Serve /\ UNCHANGED edited
      BY <2>1, <1>3, <1>4, <1>5, <1>6 DEF Serve
    <2>2. ASSUME NEW m \in Lots, NEW q \in EditTo, EditLot(m, q)
          PROVE  remaining'[l] = moved'[l] /\ remaining'[l] <= received'[l]
      <3>1. l \in Lots \ edited /\ l # m
        BY <2>2 DEF EditLot
      <3>2. remaining'[l] = remaining[l] /\ UNCHANGED <<moved, received>>
        BY <2>2, <3>1 DEF EditLot, IInv, RowsOK
      <3>3. QED
        BY <1>2, <3>1, <3>2
    <2>3. CASE UNCHANGED vars
      BY <1>6, <2>3 DEF vars
    <2>4. QED
      BY <2>1, <2>2, <2>3 DEF Next
  <1>8. QED
    BY <1>1, <1>7 DEF IInv, BalanceIsMovements, NothingFromNothing

\* Every lot's balance can be verified from its movements, as long as the lot
\* endpoint has not written it, whatever it did to other lots.
THEOREM BalanceVerifiable == Spec => []BalanceIsMovements
  <1>1. IInv /\ [Next]_vars => IInv'
    BY NextIInv
  <1>2. IInv => BalanceIsMovements
    BY DEF IInv
  <1>3. QED
    BY InitIInv, <1>1, <1>2, PTL DEF Spec

\* No lot the endpoint left alone gives out more than came in, for any overlap
\* of the services.
THEOREM NoLotOverdrawn == Spec => []NothingFromNothing
  <1>1. IInv /\ [Next]_vars => IInv'
    BY NextIInv
  <1>2. IInv => NothingFromNothing
    BY DEF IInv
  <1>3. QED
    BY InitIInv, <1>1, <1>2, PTL DEF Spec
-----------------------------------------------------------------------------
\* A receipt line stays in the lot it was posted to: its receipt is refused
\* once one of its lines is in a lot, and nothing else writes the column.
THEOREM PostedLinesStay == Spec => PostedForGood
  <1> DEFINE Stays == \A x \in ReceiptLines : lineLot[x] # NoLot => lineLot'[x] = lineLot[x]
  <1>1. ASSUME NEW g \in Receipts, PostGoodsReceipt(g) PROVE Stays
    <2>1. \A x \in AcceptedLines(g) : lineLot[x] = NoLot
      BY <1>1 DEF PostGoodsReceipt, NotYetPosted, AcceptedLines
    <2>2. \A x \in ReceiptLines : x \notin AcceptedLines(g) => lineLot'[x] = lineLot[x]
      BY <1>1 DEF PostGoodsReceipt
    <2>3. QED
      BY <2>1, <2>2
  <1>2. ASSUME \/ \E k \in Clerks, c \in Counts : LoadCount(k, c)
               \/ \E k \in Clerks : PostStockCount(k) \/ Refused(k)
               \/ \E s \in Shelves, q \in Wasted : RecordWastage(s, q)
               \/ \E l \in Lots, q \in EditTo : EditLot(l, q)
        PROVE Stays
    BY <1>2 DEF LoadCount, PostStockCount, Refused, RecordWastage, EditLot, orderVars
  <1>3. [Next]_vars => [Stays]_vars
    BY <1>1, <1>2 DEF Next, Serve
  <1>4. QED
    BY <1>3, PTL DEF Spec, PostedForGood
-----------------------------------------------------------------------------
\* The quantity of no receipt lines.
LEMMA NoLinesNoQuantity == QuantityOf[{}] = 0
  <1>1. {} \in SUBSET ReceiptLines /\ {} \cap {} = {} /\ {} \cup {} = {}
    OBVIOUS
  <1>2. QuantityOf[{}] = QuantityOf[{}] + QuantityOf[{}] /\ QuantityOf[{}] \in Nat
    BY <1>1, LinesAssumption
  <1>3. QED
    BY <1>2

\* No receipt has two accepted lines for one order line.
OneLineEach ==
  \A x, z \in ReceiptLines :
    ReceiptOf[x] = ReceiptOf[z] /\ Accepted[x] > 0 /\ Accepted[z] > 0
      /\ OrderLineOf[x] = OrderLineOf[z] /\ OrderLineOf[x] \in OrderLines
      => x = z

\* Posting a receipt adds its lines of an order line to what is in lots.
LEMMA OrderedStep ==
  ASSUME OneLineEach, RowsOK, OrderedIsDelivered, NEW g \in Receipts, PostGoodsReceipt(g)
  PROVE  OrderedIsDelivered'
  <1> DEFINE lines == AcceptedLines(g)
             In(y) == {x \in ReceiptLines : OrderLineOf[x] = y /\ lineLot[x] # NoLot}
             Of(y) == {x \in lines : OrderLineOf[x] = y}
  <1> SUFFICES ASSUME NEW y \in OrderLines
               PROVE  lineReceived'[y] = QuantityOf[In(y)']
    BY DEF OrderedIsDelivered
  <1>1. lines \subseteq ReceiptLines /\ \A x \in lines : lineLot[x] = NoLot
    BY DEF AcceptedLines, LinesOfReceipt, PostGoodsReceipt, NotYetPosted
  <1>2. \A x \in ReceiptLines : lineLot'[x] # NoLot <=> x \in lines \/ lineLot[x] # NoLot
    <2>1. PICK f \in [lines -> Lots] :
            lineLot' = [x \in ReceiptLines |-> IF x \in lines THEN f[x] ELSE lineLot[x]]
      BY DEF PostGoodsReceipt
    <2>2. \A x \in lines : f[x] # NoLot
      BY LotsAssumption DEF Lots, NoLot
    <2>3. QED
      BY <1>1, <2>1, <2>2
  <1>3. In(y)' = In(y) \cup Of(y) /\ In(y) \cap Of(y) = {}
    BY <1>1, <1>2
  <1>4. CountedIn(lines, y) = Of(y)
    <2>1. \A x, z \in Of(y) : x = z
      BY DEF OneLineEach, AcceptedLines, LinesOfReceipt
    <2>2. \A x \in Of(y) : x <= x
      <3>1. \A x \in Of(y) : x \in Nat
        BY <1>1, LinesAssumption
      <3>2. QED
        BY <3>1
    <2>3. QED
      BY <2>1, <2>2 DEF CountedIn, AllLinesFor
  <1>5. lineReceived'[y] = lineReceived[y] + QuantityOf[CountedIn(lines, y)]
    BY DEF PostGoodsReceipt
  <1>6. In(y) \in SUBSET ReceiptLines /\ Of(y) \in SUBSET ReceiptLines
    BY <1>1
  <1>7. lineReceived[y] = QuantityOf[In(y)]
    BY DEF OrderedIsDelivered
  <1> HIDE DEF In, Of, lines
  <1>8. QED
    BY <1>3, <1>4, <1>5, <1>6, <1>7, LinesAssumption

\* What a purchase order line counts as received is what its receipts brought
\* into lots, however often and by whomever they are posted, if no receipt has
\* two lines for it.
THEOREM OrdersCountDeliveries == OneLineEach => (Spec => []OrderedIsDelivered)
  <1> SUFFICES ASSUME OneLineEach PROVE Spec => []OrderedIsDelivered
    OBVIOUS
  <1>1. Init => OrderedIsDelivered
    <2> SUFFICES ASSUME Init, NEW y \in OrderLines
                 PROVE  lineReceived[y] = QuantityOf[{x \in ReceiptLines : OrderLineOf[x] = y /\ lineLot[x] # NoLot}]
      BY DEF OrderedIsDelivered
    <2>1. {x \in ReceiptLines : OrderLineOf[x] = y /\ lineLot[x] # NoLot} = {} /\ lineReceived[y] = 0
      BY DEF Init
    <2>2. QED
      BY <2>1, NoLinesNoQuantity
  <1>2. OrderedIsDelivered /\ RowsOK /\ [Next]_vars => OrderedIsDelivered'
    <2> SUFFICES ASSUME OrderedIsDelivered, RowsOK, [Next]_vars PROVE OrderedIsDelivered'
      OBVIOUS
    <2>1. ASSUME NEW g \in Receipts, PostGoodsReceipt(g) PROVE OrderedIsDelivered'
      BY <2>1, OrderedStep
    <2>2. CASE UNCHANGED <<lineReceived, lineLot>>
      BY <2>2 DEF OrderedIsDelivered
    <2>3. QED
      BY <2>1, <2>2 DEF Next, Serve, LoadCount, PostStockCount, Refused, RecordWastage, EditLot, vars, orderVars
  <1>3. QED
    BY <1>1, <1>2, TypeCorrect, PTL DEF Spec, TypeOK
-----------------------------------------------------------------------------
\* Expiry dates are days, or none.
DatesOK == expires \in [Lots -> Int \cup {NoDate}]

LEMMA DatesStep == DatesOK /\ [Next]_vars => DatesOK'
  <1> SUFFICES ASSUME DatesOK, [Next]_vars PROVE DatesOK'
    OBVIOUS
  <1>1. ASSUME NEW g \in Receipts, PostGoodsReceipt(g) PROVE DatesOK'
    <2> DEFINE lines   == AcceptedLines(g)
               opening == {x \in lines : ExistingLots(x) = {}
                                         /\ \A y \in lines : SameLot(x, y) => x <= y}
               fresh   == NextLots(Cardinality(opening))
               expiry(x) == IF ExpiryOf[x] = NoDate THEN DefaultExpiry[ShelfOf[x]] ELSE ExpiryOf[x]
    <2>1. PICK f \in [lines -> Lots] :
            /\ {f[x] : x \in opening} = fresh
            /\ expires' = [l \in Lots |-> IF l \in fresh
                             THEN expiry(CHOOSE x \in opening : f[x] = l) ELSE expires[l]]
      BY <1>1 DEF PostGoodsReceipt
    <2>2. \A x \in ReceiptLines : expiry(x) \in Int \cup {NoDate}
      BY DatesAssumption, LinesAssumption
    <2>3. opening \subseteq ReceiptLines
      BY DEF AcceptedLines, LinesOfReceipt
    <2> HIDE DEF lines, opening, fresh, expiry
    <2>4. ASSUME NEW l \in Lots PROVE expires'[l] \in Int \cup {NoDate}
      <3>1. CASE l \in fresh
        <4>1. \E x \in opening : f[x] = l
          BY <2>1, <3>1
        <4>2. (CHOOSE x \in opening : f[x] = l) \in opening
          BY <4>1
        <4>3. QED
          BY <2>1, <2>2, <2>3, <3>1, <4>2
      <3>2. CASE l \notin fresh
        BY <2>1, <3>2 DEF DatesOK
      <3>3. QED
        BY <3>1, <3>2
    <2>5. QED
      BY <2>1, <2>4 DEF DatesOK
  <1>2. ASSUME NEW k \in Clerks, PostStockCount(k) PROVE DatesOK'
    <2> DEFINE c       == clerk[k].count
               surplus == {s \in Shelves : Variance[c][s] > 0}
               fresh   == NextLots(Cardinality(surplus))
    <2>1. PICK on \in [fresh -> surplus] :
            expires' = [l \in Lots |-> IF l \in fresh THEN DefaultExpiry[on[l]] ELSE expires[l]]
      BY <1>2 DEF PostStockCount
    <2>2. surplus \subseteq Shelves
      OBVIOUS
    <2> HIDE DEF surplus, fresh
    <2>3. QED
      BY <2>1, <2>2, DatesAssumption DEF DatesOK
  <1>3. CASE UNCHANGED expires
    BY <1>3 DEF DatesOK
  <1>4. QED
    BY <1>1, <1>2, <1>3 DEF Next, Serve, LoadCount, Refused, RecordWastage, EditLot, vars, lotVars

\* A plan empties every lot before it takes from a later one.
LEMMA PlanEmptiesEarlier ==
  ASSUME RowsOK, DatesOK, NEW amount, NEW take \in Plans(amount),
         NEW l \in Created, NEW m \in Created, shelf[l] = shelf[m], shelf[l] \in Fefo,
         expires[m] # NoDate, expires[l] # NoDate, expires[m] < expires[l], take[l] > 0
  PROVE  take[m] = remaining[m]
  <1>1. expires[m] \in Int /\ expires[l] \in Int
    BY DEF DatesOK, Created
  <1>2. Before(m, l)
    BY <1>1 DEF Before
  <1>3. QED
    BY <1>2 DEF Plans, Available

\* FEFO on every shelf that asks for it: receipts take nothing, and counts and
\* wastage take by a plan.
THEOREM ExpiringFirst == Spec => EarliestExpiryFirst
  <1> DEFINE First == edited' = edited => \A l, m \in Created :
       shelf[l] = shelf[m] /\ shelf[l] \in Fefo /\ remaining'[l] < remaining[l]
         /\ expires[m] # NoDate /\ expires[l] # NoDate /\ expires[m] < expires[l]
       => remaining'[m] = 0
  <1>1. RowsOK /\ DatesOK /\ [Next]_vars => [First]_vars
    <2> SUFFICES ASSUME RowsOK, DatesOK, Next, edited' = edited, NEW l \in Created, NEW m \in Created,
                        shelf[l] = shelf[m], shelf[l] \in Fefo, remaining'[l] < remaining[l],
                        expires[m] # NoDate, expires[l] # NoDate, expires[m] < expires[l]
                 PROVE  remaining'[m] = 0
      OBVIOUS
    <2>0. l \in Lots /\ m \in Lots /\ remaining[l] \in Nat /\ remaining[m] \in Nat
          /\ l \notin NewLots /\ m \notin NewLots
      BY DEF Created, RowsOK, NewLots
    <2>1. ASSUME NEW g \in Receipts, PostGoodsReceipt(g) PROVE FALSE
      <3>1. \E q \in Nat : remaining'[l] = remaining[l] + q
        BY <2>0, <2>1, ReceiptStep
      <3>2. QED
        BY <2>0, <3>1
    <2>2. ASSUME NEW k \in Clerks, PostStockCount(k) PROVE remaining'[m] = 0
      <3> DEFINE c       == clerk[k].count
                 surplus == {s \in Shelves : Variance[c][s] > 0}
                 short   == [s \in Shelves |-> IF Variance[c][s] < 0 THEN -Variance[c][s] ELSE 0]
                 fresh   == NextLots(Cardinality(surplus))
                 gain(on, x) == IF x \in fresh THEN Variance[c][on[x]] ELSE 0
      <3>1. PICK take \in Plans(short), on \in [fresh -> surplus] :
              remaining' = [x \in Lots |-> remaining[x] + gain(on, x) - (IF x \in Created THEN take[x] ELSE 0)]
        BY <2>2 DEF PostStockCount
      <3>2. l \notin fresh /\ m \notin fresh
        BY <2>0 DEF NextLots
      <3> HIDE DEF short, fresh, surplus
      <3>3. remaining'[l] = remaining[l] - take[l] /\ remaining'[m] = remaining[m] - take[m]
            /\ take[l] \in Nat /\ take[m] \in Nat
        BY <2>0, <3>1, <3>2, PlanTakes
      <3>4. take[l] > 0
        BY <2>0, <3>3
      <3>5. QED
        BY <2>0, <3>3, <3>4, PlanEmptiesEarlier
    <2>3. ASSUME NEW s \in Shelves, NEW q \in Wasted, RecordWastage(s, q) PROVE remaining'[m] = 0
      <3> DEFINE amount == [t \in Shelves |-> IF t = s THEN q ELSE 0]
      <3>1. PICK take \in Plans(amount) :
              remaining' = [x \in Lots |-> remaining[x] - (IF x \in Created THEN take[x] ELSE 0)]
        BY <2>3 DEF RecordWastage
      <3> HIDE DEF amount
      <3>2. remaining'[l] = remaining[l] - take[l] /\ remaining'[m] = remaining[m] - take[m]
            /\ take[l] \in Nat /\ take[m] \in Nat
        BY <2>0, <3>1, PlanTakes
      <3>3. take[l] > 0
        BY <2>0, <3>2
      <3>4. QED
        BY <2>0, <3>2, <3>3, PlanEmptiesEarlier
    <2>4. ASSUME NEW x \in Lots, NEW q \in EditTo, EditLot(x, q) PROVE FALSE
      BY <2>4 DEF EditLot
    <2>5. CASE UNCHANGED remaining
      BY <2>0, <2>5
    <2>6. QED
      BY <2>1, <2>2, <2>3, <2>4, <2>5 DEF Next, Serve, LoadCount, Refused, lotVars
  <1>2. Init => DatesOK
    BY DEF Init, DatesOK
  <1>3. Spec => []DatesOK
    BY <1>2, DatesStep, PTL DEF Spec
  <1>4. QED
    BY <1>1, <1>3, TypeCorrect, PTL DEF Spec, TypeOK, EarliestExpiryFirst
-----------------------------------------------------------------------------
\* Of any natural numbers one is the least.
LEMMA LeastExists ==
  ASSUME NEW T \in SUBSET Nat, T # {}
  PROVE  \E x \in T : \A y \in T : x <= y
  <1> DEFINE R == {s \in Nat \X Nat : s[1] < s[2]}
  <1>1. IsWellFoundedOn(R, Nat)
    BY NatLessThanWellFounded DEF OpToRel
  <1>2. PICK x \in T : \A y \in T : <<y, x>> \notin R
    BY <1>1, WFMin
  <1>3. \A y \in T : <<y, x>> \in Nat \X Nat /\ <<y, x>>[1] = y /\ <<y, x>>[2] = x
    OBVIOUS
  <1>4. \A y \in T : ~(y < x)
    BY <1>2, <1>3
  <1>5. QED
    BY <1>4

\* Of any subsets of a finite set one is such that no smaller one is among them.
LEMMA SmallestExists ==
  ASSUME NEW S, IsFiniteSet(S), NEW Bad \in SUBSET (SUBSET S), Bad # {}
  PROVE  \E A \in Bad : \A x \in A : \A B \in SUBSET (A \ {x}) : B \notin Bad
  <1> DEFINE T == {Cardinality(A) : A \in Bad}
  <1>1. \A A \in Bad : IsFiniteSet(A) /\ Cardinality(A) \in Nat
    BY FS_Subset, FS_CardinalityType
  <1>2. T \in SUBSET Nat /\ T # {}
    BY <1>1
  <1>3. PICK n \in T : \A m \in T : n <= m
    BY <1>2, LeastExists
  <1>4. PICK A \in Bad : n = Cardinality(A)
    BY <1>3
  <1>5. ASSUME NEW x \in A, NEW B \in SUBSET (A \ {x}), B \in Bad PROVE FALSE
    <2>1. IsFiniteSet(A \ {x}) /\ Cardinality(A \ {x}) = Cardinality(A) - 1
      BY <1>1, FS_RemoveElement
    <2>2. Cardinality(B) <= Cardinality(A) - 1 /\ Cardinality(B) \in Nat /\ Cardinality(A) \in Nat
      BY <1>1, <1>5, <2>1, FS_Subset
    <2>3. Cardinality(A) <= Cardinality(B)
      BY <1>3, <1>4, <1>5
    <2>4. QED
      BY <2>2, <2>3
  <1>6. QED
    BY <1>5

\* What SumFunctionOnSet computes, as a function of the subsets of a set: each
\* value follows from that of the set without one member.
AnyOf(s) == CHOOSE x \in s : TRUE
Folds(g, f, A) == \A s \in SUBSET A : g[s] = IF s = {} THEN 0 ELSE f[AnyOf(s)] + g[s \ {AnyOf(s)}]

\* Two such functions agree where both are defined.
LEMMA FoldsAgree ==
  ASSUME NEW S, IsFiniteSet(S), NEW f, NEW A \in SUBSET S, NEW B \in SUBSET S, NEW g, NEW h,
         Folds(g, f, A), Folds(h, f, B), NEW s \in SUBSET (A \cap B)
  PROVE  g[s] = h[s]
  <1> DEFINE Bad == {t \in SUBSET (A \cap B) : g[t] # h[t]}
  <1> SUFFICES ASSUME Bad # {} PROVE FALSE
    OBVIOUS
  <1>0. Bad \in SUBSET (SUBSET S)
    OBVIOUS
  <1> HIDE DEF Bad
  <1>1. PICK t \in Bad : \A x \in t : \A u \in SUBSET (t \ {x}) : u \notin Bad
    BY <1>0, SmallestExists
  <1> USE DEF Bad
  <1>2. t # {}
    BY <1>1 DEF Folds
  <1>3. AnyOf(t) \in t
    BY <1>2 DEF AnyOf
  <1>4. g[t \ {AnyOf(t)}] = h[t \ {AnyOf(t)}]
    BY <1>1, <1>3
  <1>5. g[t] = f[AnyOf(t)] + g[t \ {AnyOf(t)}] /\ h[t] = f[AnyOf(t)] + h[t \ {AnyOf(t)}]
    BY <1>1, <1>2 DEF Folds
  <1>6. QED
    BY <1>1, <1>4, <1>5

\* A finite set has such a function.
LEMMA FoldExists ==
  ASSUME NEW S, IsFiniteSet(S), NEW f, \A x \in S : f[x] \in Int, NEW A \in SUBSET S
  PROVE  \E g \in [SUBSET A -> Int] : Folds(g, f, A)
  <1> DEFINE Has(B) == \E g \in [SUBSET B -> Int] : Folds(g, f, B)
             Bad == {B \in SUBSET S : ~Has(B)}
  <1> SUFFICES ASSUME Bad # {} PROVE FALSE
    OBVIOUS
  <1>0. Bad \in SUBSET (SUBSET S)
    OBVIOUS
  <1> HIDE DEF Bad
  <1>1. PICK B \in Bad : \A x \in B : \A C \in SUBSET (B \ {x}) : C \notin Bad
    BY <1>0, SmallestExists
  <1> USE DEF Bad
  <1> DEFINE Of(C) == CHOOSE g \in [SUBSET C -> Int] : Folds(g, f, C)
             val(C) == Of(C)[C]
             h == [C \in SUBSET B |-> IF C = {} THEN 0 ELSE f[AnyOf(C)] + val(C \ {AnyOf(C)})]
  <1>2. ASSUME NEW x \in B, NEW C \in SUBSET (B \ {x})
        PROVE  Of(C) \in [SUBSET C -> Int] /\ Folds(Of(C), f, C)
    <2>1. Has(C)
      BY <1>1, <1>2
    <2>2. QED
      BY <2>1
  <1>3. \A C \in SUBSET B : C # {} => AnyOf(C) \in C /\ AnyOf(C) \in B
    BY DEF AnyOf
  <1>4. ASSUME NEW C \in SUBSET B, C # {}
        PROVE  val(C \ {AnyOf(C)}) \in Int /\ val(C \ {AnyOf(C)}) = h[C \ {AnyOf(C)}]
    <2> DEFINE D == C \ {AnyOf(C)}
    <2>1. AnyOf(C) \in B /\ D \in SUBSET (B \ {AnyOf(C)}) /\ D \in SUBSET B
      BY <1>3, <1>4
    <2>2. Of(D) \in [SUBSET D -> Int] /\ Folds(Of(D), f, D)
      BY <1>2, <2>1
    <2>3. val(D) \in Int
      BY <2>2
    <2>4. CASE D = {}
      <3>1. val(D) = 0
        BY <2>2, <2>4 DEF Folds
      <3>2. h[D] = 0
        BY <2>1, <2>4
      <3>3. QED
        BY <2>3, <3>1, <3>2
    <2>5. CASE D # {}
      <3> DEFINE E == D \ {AnyOf(D)}
      <3>1. E \in SUBSET (B \ {AnyOf(C)}) /\ E \in SUBSET D
        BY <2>1
      <3>2. Of(E) \in [SUBSET E -> Int] /\ Folds(Of(E), f, E)
        BY <1>2, <2>1, <3>1
      <3>3. Of(D)[E] = Of(E)[E]
        <4>1. D \in SUBSET S /\ E \in SUBSET S /\ E \in SUBSET (D \cap E)
          BY <2>1, <3>1
        <4> HIDE DEF Of, D, E
        <4>2. QED
          BY <2>2, <3>2, <4>1, FoldsAgree
      <3>4. Of(D)[D] = f[AnyOf(D)] + Of(D)[E]
        BY <2>2, <2>5 DEF Folds
      <3>5. h[D] = f[AnyOf(D)] + val(E)
        BY <2>1, <2>5
      <3>6. QED
        BY <2>3, <3>3, <3>4, <3>5
    <2>6. QED
      BY <2>3, <2>4, <2>5
  <1> HIDE DEF val, Of
  <1>5. h \in [SUBSET B -> Int]
    <2>1. ASSUME NEW C \in SUBSET B PROVE h[C] \in Int
      <3>1. CASE C = {}
        BY <3>1
      <3>2. CASE C # {}
        <4>1. f[AnyOf(C)] \in Int /\ val(C \ {AnyOf(C)}) \in Int
          BY <1>3, <1>4, <3>2
        <4>2. QED
          BY <3>2, <4>1
      <3>3. QED
        BY <3>1, <3>2
    <2>2. QED
      BY <2>1
  <1>6. Folds(h, f, B)
    BY <1>4 DEF Folds
  <1> HIDE DEF h
  <1>7. QED
    BY <1>1, <1>5, <1>6

\* The sum over a finite set is its value.
LEMMA SumIsFold ==
  ASSUME NEW S, IsFiniteSet(S), NEW f, \A x \in S : f[x] \in Int
  PROVE  \E g \in [SUBSET S -> Int] : Folds(g, f, S) /\ SumFunctionOnSet(f, S) = g[S]
  <1> DEFINE Eq(g) == g = [s \in SUBSET S |-> IF s = {} THEN 0 ELSE f[AnyOf(s)] + g[s \ {AnyOf(s)}]]
             iter == CHOOSE g : Eq(g)
  <1>1. SumFunctionOnSet(f, S) = iter[S]
    BY DEF SumFunctionOnSet, FoldFunctionOnSet, MapThenFoldSet, AnyOf
  <1>2. PICK g \in [SUBSET S -> Int] : Folds(g, f, S)
    BY FoldExists
  <1>3. Eq(g)
    BY <1>2 DEF Folds
  <1>4. Eq(iter)
    BY <1>3
  <1>5. Folds(iter, f, S)
    BY <1>4 DEF Folds
  <1> HIDE DEF iter
  <1>6. g[S] = iter[S]
    BY <1>2, <1>5, FoldsAgree
  <1>7. QED
    BY <1>1, <1>2, <1>6

\* Any member of the set may be taken off first.
LEMMA SumRemove ==
  ASSUME NEW S, IsFiniteSet(S), NEW f, \A x \in S : f[x] \in Int
  PROVE  /\ SumFunctionOnSet(f, {}) = 0
         /\ \A A \in SUBSET S :
              /\ SumFunctionOnSet(f, A) \in Int
              /\ \A y \in A : SumFunctionOnSet(f, A) = f[y] + SumFunctionOnSet(f, A \ {y})
  <1>1. PICK g \in [SUBSET S -> Int] : Folds(g, f, S)
    BY FoldExists
  <1>2. ASSUME NEW A \in SUBSET S PROVE SumFunctionOnSet(f, A) = g[A]
    <2>1. IsFiniteSet(A) /\ \A x \in A : f[x] \in Int
      BY FS_Subset
    <2>2. PICK h \in [SUBSET A -> Int] : Folds(h, f, A) /\ SumFunctionOnSet(f, A) = h[A]
      BY <2>1, SumIsFold
    <2>3. g[A] = h[A]
      <3>1. S \in SUBSET S /\ A \in SUBSET (S \cap A)
        OBVIOUS
      <3>2. QED
        BY <1>1, <2>2, <3>1, FoldsAgree
    <2>4. QED
      BY <2>2, <2>3
  <1>3. g[{}] = 0
    BY <1>1 DEF Folds
  <1>4. \A A \in SUBSET S : \A y \in A : g[A] = f[y] + g[A \ {y}]
    <2> DEFINE Bad == {A \in SUBSET S : \E y \in A : g[A] # f[y] + g[A \ {y}]}
    <2> SUFFICES ASSUME Bad # {} PROVE FALSE
      OBVIOUS
    <2>0. Bad \in SUBSET (SUBSET S)
      OBVIOUS
    <2> HIDE DEF Bad
    <2>1. PICK A \in Bad : \A x \in A : \A B \in SUBSET (A \ {x}) : B \notin Bad
      BY <2>0, SmallestExists
    <2> USE DEF Bad
    <2>2. PICK y \in A : g[A] # f[y] + g[A \ {y}]
      BY <2>1
    <2> DEFINE z == AnyOf(A)
    <2>3. z \in A /\ A \in SUBSET S
      BY <2>1, <2>2 DEF AnyOf
    <2>4. g[A] = f[z] + g[A \ {z}]
      BY <1>1, <2>2, <2>3 DEF Folds
    <2> HIDE DEF z
    <2>5. y # z
      BY <2>2, <2>4
    <2> DEFINE W == (A \ {y}) \ {z}
    <2>6. W = (A \ {z}) \ {y} /\ W \in SUBSET S
      BY <2>3
    <2> HIDE DEF W
    <2>7. g[A \ {z}] = f[y] + g[W]
      BY <2>1, <2>3, <2>5, <2>6
    <2>8. g[A \ {y}] = f[z] + g[W]
      BY <2>1, <2>3, <2>5 DEF W
    <2>9. f[y] \in Int /\ f[z] \in Int /\ g[W] \in Int
      BY <2>3, <2>6
    <2>10. QED
      BY <2>2, <2>4, <2>7, <2>8, <2>9
  <1>5. SumFunctionOnSet(f, {}) = 0
    BY <1>2, <1>3
  <1>6. ASSUME NEW A \in SUBSET S
        PROVE  /\ SumFunctionOnSet(f, A) \in Int
               /\ \A y \in A : SumFunctionOnSet(f, A) = f[y] + SumFunctionOnSet(f, A \ {y})
    <2>1. SumFunctionOnSet(f, A) = g[A] /\ g[A] \in Int
      BY <1>2
    <2>2. ASSUME NEW y \in A PROVE SumFunctionOnSet(f, A) = f[y] + SumFunctionOnSet(f, A \ {y})
      <3>1. A \ {y} \in SUBSET S
        OBVIOUS
      <3>2. SumFunctionOnSet(f, A \ {y}) = g[A \ {y}]
        BY <1>2, <3>1
      <3>3. QED
        BY <1>4, <2>1, <3>2
    <2>3. QED
      BY <2>1, <2>2
  <1>7. QED
    BY <1>5, <1>6

\* A quantity of subsets that grows by f[y] with every y is the sum of f.
LEMMA SumIsUnique ==
  ASSUME NEW S, IsFiniteSet(S), NEW f, \A x \in S : f[x] \in Int, NEW F,
         F[{}] = 0, \A A \in SUBSET S : \A y \in A : F[A] = f[y] + F[A \ {y}]
  PROVE  F[S] = SumFunctionOnSet(f, S)
  <1> DEFINE Bad == {A \in SUBSET S : F[A] # SumFunctionOnSet(f, A)}
  <1> SUFFICES ASSUME Bad # {} PROVE FALSE
    OBVIOUS
  <1>0. Bad \in SUBSET (SUBSET S)
    OBVIOUS
  <1> HIDE DEF Bad
  <1>1. PICK A \in Bad : \A x \in A : \A B \in SUBSET (A \ {x}) : B \notin Bad
    BY <1>0, SmallestExists
  <1> USE DEF Bad
  <1>2. SumFunctionOnSet(f, {}) = 0
    BY SumRemove
  <1>3. PICK y \in A : TRUE
    BY <1>1, <1>2
  <1>4. SumFunctionOnSet(f, A) = f[y] + SumFunctionOnSet(f, A \ {y})
    BY <1>1, SumRemove
  <1>5. F[A \ {y}] = SumFunctionOnSet(f, A \ {y})
    BY <1>1
  <1>6. QED
    BY <1>1, <1>4, <1>5

\* A sum of sums, member by member.
LEMMA SumAdds ==
  ASSUME NEW S, IsFiniteSet(S), NEW f, NEW g, NEW h,
         \A x \in S : f[x] \in Int /\ g[x] \in Int /\ h[x] = f[x] + g[x]
  PROVE  SumFunctionOnSet(h, S) = SumFunctionOnSet(f, S) + SumFunctionOnSet(g, S)
  <1> DEFINE F == [A \in SUBSET S |-> SumFunctionOnSet(f, A) + SumFunctionOnSet(g, A)]
  <1>1. \A x \in S : h[x] \in Int
    OBVIOUS
  <1>2. F[{}] = 0
    BY SumRemove
  <1>3. ASSUME NEW A \in SUBSET S, NEW y \in A PROVE F[A] = h[y] + F[A \ {y}]
    <2>1. /\ SumFunctionOnSet(f, A) = f[y] + SumFunctionOnSet(f, A \ {y})
          /\ SumFunctionOnSet(f, A \ {y}) \in Int
      BY SumRemove
    <2>2. /\ SumFunctionOnSet(g, A) = g[y] + SumFunctionOnSet(g, A \ {y})
          /\ SumFunctionOnSet(g, A \ {y}) \in Int
      BY SumRemove
    <2>3. h[y] = f[y] + g[y] /\ f[y] \in Int /\ g[y] \in Int
      OBVIOUS
    <2>4. QED
      BY <2>1, <2>2, <2>3
  <1> HIDE DEF F
  <1>4. F[S] = SumFunctionOnSet(h, S)
    BY <1>1, <1>2, <1>3, SumIsUnique
  <1>5. QED
    BY <1>4 DEF F

\* A sum over a part is the sum over all with nothing for the others.
LEMMA SumOfPart ==
  ASSUME NEW S, IsFiniteSet(S), NEW T \in SUBSET S, NEW f, \A x \in T : f[x] \in Int, NEW g,
         \A x \in S : g[x] = IF x \in T THEN f[x] ELSE 0
  PROVE  SumFunctionOnSet(g, S) = SumFunctionOnSet(f, T)
  <1> DEFINE F == [A \in SUBSET S |-> SumFunctionOnSet(f, A \cap T)]
  <1>1. IsFiniteSet(T) /\ \A x \in S : g[x] \in Int
    BY FS_Subset
  <1>2. F[{}] = 0
    <2>1. {} \cap T = {}
      OBVIOUS
    <2>2. QED
      BY <1>1, <2>1, SumRemove
  <1>3. ASSUME NEW A \in SUBSET S, NEW y \in A PROVE F[A] = g[y] + F[A \ {y}]
    <2>1. A \cap T \in SUBSET T /\ (A \ {y}) \cap T = (A \cap T) \ {y}
      OBVIOUS
    <2>2. SumFunctionOnSet(f, A \cap T) \in Int
      BY <1>1, <2>1, SumRemove
    <2>3. CASE y \in T
      <3>1. SumFunctionOnSet(f, A \cap T) = f[y] + SumFunctionOnSet(f, (A \cap T) \ {y})
        BY <1>1, <2>1, <2>3, SumRemove
      <3>2. QED
        BY <2>1, <2>3, <3>1
    <2>4. CASE y \notin T
      <3>1. (A \ {y}) \cap T = A \cap T
        BY <2>4
      <3>2. QED
        BY <2>2, <2>4, <3>1
    <2>5. QED
      BY <2>3, <2>4
  <1> HIDE DEF F
  <1>4. F[S] = SumFunctionOnSet(g, S)
    BY <1>1, <1>2, <1>3, SumIsUnique
  <1>5. S \cap T = T
    OBVIOUS
  <1>6. QED
    BY <1>4, <1>5 DEF F

\* A sum of natural numbers is one.
LEMMA SumNatural ==
  ASSUME NEW S, IsFiniteSet(S), NEW f, \A x \in S : f[x] \in Nat
  PROVE  SumFunctionOnSet(f, S) \in Nat
  <1> DEFINE Bad == {A \in SUBSET S : SumFunctionOnSet(f, A) \notin Nat}
  <1> SUFFICES ASSUME Bad # {} PROVE FALSE
    OBVIOUS
  <1>0. Bad \in SUBSET (SUBSET S) /\ \A x \in S : f[x] \in Int
    OBVIOUS
  <1> HIDE DEF Bad
  <1>1. PICK A \in Bad : \A x \in A : \A B \in SUBSET (A \ {x}) : B \notin Bad
    BY <1>0, SmallestExists
  <1> USE DEF Bad
  <1>2. SumFunctionOnSet(f, {}) = 0
    BY <1>0, SumRemove
  <1>3. PICK y \in A : TRUE
    BY <1>1, <1>2
  <1>4. SumFunctionOnSet(f, A) = f[y] + SumFunctionOnSet(f, A \ {y})
    BY <1>0, <1>1, SumRemove
  <1>5. SumFunctionOnSet(f, A \ {y}) \in Nat
    BY <1>1
  <1>6. f[y] \in Nat
    BY <1>1
  <1>7. QED
    BY <1>1, <1>4, <1>5, <1>6

\* Nothing adds up to nothing.
LEMMA NothingAddsNothing ==
  ASSUME NEW S, IsFiniteSet(S), NEW t, \A x \in S : t[x] = 0
  PROVE  SumFunctionOnSet(t, S) = 0
  <1>1. {} \in SUBSET S /\ (\A x \in {} : t[x] \in Int) /\ \A x \in S : t[x] = IF x \in {} THEN t[x] ELSE 0
    OBVIOUS
  <1>2. SumFunctionOnSet(t, S) = SumFunctionOnSet(t, {})
    BY <1>1, SumOfPart
  <1>3. SumFunctionOnSet(t, {}) = 0
    BY SumRemove
  <1>4. QED
    BY <1>2, <1>3

\* One member that counts makes the sum.
LEMMA OneAddsItself ==
  ASSUME NEW S, IsFiniteSet(S), NEW y \in S, NEW p, p[y] \in Int, \A x \in S : x # y => p[x] = 0
  PROVE  SumFunctionOnSet(p, S) = p[y]
  <1>1. S \in SUBSET S /\ S \ {y} \in SUBSET S /\ \A x \in S : p[x] \in Int
    OBVIOUS
  <1>2. SumFunctionOnSet(p, S) = p[y] + SumFunctionOnSet(p, S \ {y})
    BY <1>1, SumRemove
  <1>3. IsFiniteSet(S \ {y})
    BY <1>1, FS_Subset
  <1>4. SumFunctionOnSet(p, S \ {y}) = 0
    BY <1>3, NothingAddsNothing
  <1>5. QED
    BY <1>2, <1>4

\* A sum whose members gain p and lose t gains and loses as much.
LEMMA SharesMove ==
  ASSUME NEW S, IsFiniteSet(S), NEW a, NEW b, NEW p, NEW t,
         \A x \in S : a[x] \in Int /\ b[x] \in Int /\ p[x] \in Int /\ t[x] \in Int /\ b[x] = a[x] + p[x] - t[x]
  PROVE  SumFunctionOnSet(b, S) = SumFunctionOnSet(a, S) + SumFunctionOnSet(p, S) - SumFunctionOnSet(t, S)
  <1> DEFINE h == [x \in S |-> a[x] + p[x]]
  <1>1. \A x \in S : a[x] \in Int /\ p[x] \in Int /\ h[x] = a[x] + p[x]
    OBVIOUS
  <1>2. \A x \in S : b[x] \in Int /\ t[x] \in Int /\ h[x] = b[x] + t[x]
    OBVIOUS
  <1> HIDE DEF h
  <1>3. SumFunctionOnSet(h, S) = SumFunctionOnSet(a, S) + SumFunctionOnSet(p, S)
    BY <1>1, SumAdds
  <1>4. SumFunctionOnSet(h, S) = SumFunctionOnSet(b, S) + SumFunctionOnSet(t, S)
    BY <1>2, SumAdds
  <1>5. S \in SUBSET S
    OBVIOUS
  <1>6. SumFunctionOnSet(a, S) \in Int /\ SumFunctionOnSet(p, S) \in Int
    BY <1>1, <1>5, SumRemove
  <1>7. SumFunctionOnSet(b, S) \in Int /\ SumFunctionOnSet(t, S) \in Int
    BY <1>2, <1>5, SumRemove
  <1> DEFINE sa == SumFunctionOnSet(a, S)
             sb == SumFunctionOnSet(b, S)
             sp == SumFunctionOnSet(p, S)
             st == SumFunctionOnSet(t, S)
  <1>8. sb + st = sa + sp /\ sa \in Int /\ sb \in Int /\ sp \in Int /\ st \in Int
    BY <1>3, <1>4, <1>6, <1>7, Zenon
  <1> HIDE DEF sa, sb, sp, st
  <1>9. sb = sa + sp - st
    BY <1>8
  <1>10. QED
    BY <1>9 DEF sa, sb, sp, st
-----------------------------------------------------------------------------
\* There are finitely many lots, on any shelf.
LEMMA LotsFinite == IsFiniteSet(Lots) /\ \A s : IsFiniteSet(LotsOn(s))
  <1>1. IsFiniteSet(Lots)
    BY LotsAssumption, FS_Interval DEF Lots
  <1>2. \A s : LotsOn(s) \subseteq Lots
    BY DEF LotsOn
  <1>3. QED
    BY <1>1, <1>2, FS_Subset

\* What lies in any lots is a natural number.
LEMMA OnHandNatural ==
  ASSUME NEW rem \in [Lots -> Nat], NEW T \in SUBSET Lots
  PROVE  SumFunctionOnSet(rem, T) \in Nat
  <1>1. IsFiniteSet(T) /\ \A l \in T : rem[l] \in Nat
    BY LotsFinite, FS_Subset
  <1>2. QED
    BY <1>1, SumNatural

\* What all lots are given of some lines is the quantity of those lines.
LEMMA PutsAdd ==
  ASSUME NEW P \in SUBSET ReceiptLines, NEW f, \A x \in P : f[x] \in Lots
  PROVE  SumFunctionOnSet([l \in Lots |-> QuantityOf[{x \in P : f[x] = l}]], Lots) = QuantityOf[P]
  <1> DEFINE p == [l \in Lots |-> QuantityOf[{x \in P : f[x] = l}]]
             F == [A \in SUBSET Lots |-> QuantityOf[{x \in P : f[x] \in A}]]
  <1>1. IsFiniteSet(Lots)
    BY LotsFinite
  <1>2. ASSUME NEW l \in Lots PROVE p[l] \in Int
    <2>1. {x \in P : f[x] = l} \in SUBSET ReceiptLines
      OBVIOUS
    <2>2. QED
      BY <2>1, LinesAssumption
  <1>3. F[{}] = 0
    <2>1. {x \in P : f[x] \in {}} = {}
      OBVIOUS
    <2>2. {} \in SUBSET Lots /\ QuantityOf[{}] = 0
      BY NoLinesNoQuantity
    <2>3. QED
      BY <2>1, <2>2, Zenon
  <1>4. ASSUME NEW A \in SUBSET Lots, NEW l \in A PROVE F[A] = p[l] + F[A \ {l}]
    <2> DEFINE U == {x \in P : f[x] = l}
               V == {x \in P : f[x] \in A \ {l}}
    <2>1. U \in SUBSET ReceiptLines /\ V \in SUBSET ReceiptLines /\ U \cap V = {} /\ {x \in P : f[x] \in A} = U \cup V
      OBVIOUS
    <2>2. QuantityOf[U \cup V] = QuantityOf[U] + QuantityOf[V]
      BY <2>1, LinesAssumption
    <2>3. QED
      BY <2>1, <2>2
  <1> HIDE DEF p, F
  <1>5. F[Lots] = SumFunctionOnSet(p, Lots)
    BY <1>1, <1>2, <1>3, <1>4, SumIsUnique
  <1>6. {x \in P : f[x] \in Lots} = P
    OBVIOUS
  <1>7. QED
    BY <1>5, <1>6 DEF F, p

\* What a plan takes from the lots of a shelf is the amount asked of it.
LEMMA PlanSums ==
  ASSUME RowsOK, NEW amount, NEW take \in Plans(amount), NEW s \in Shelves
  PROVE  SumFunctionOnSet([l \in Lots |-> IF shelf[l] = s THEN take[l] ELSE 0], Lots) = amount[s]
  <1> DEFINE T == {l \in Lots : shelf[l] = s}
             t == [l \in Lots |-> IF shelf[l] = s THEN take[l] ELSE 0]
  <1>1. IsFiniteSet(Lots)
    BY LotsFinite
  <1>2. T \subseteq Created
    BY ShelvesAssumption DEF Created
  <1>3. SumFunctionOnSet(take, T) = amount[s]
    BY DEF Plans, LotsOn
  <1>4. \A l \in T : take[l] \in Int
    BY <1>2, PlanTakes
  <1>5. T \in SUBSET Lots /\ \A x \in Lots : t[x] = IF x \in T THEN take[x] ELSE 0
    OBVIOUS
  <1> HIDE DEF T, t
  <1>6. SumFunctionOnSet(t, Lots) = SumFunctionOnSet(take, T)
    BY <1>1, <1>4, <1>5, SumOfPart
  <1>7. QED
    BY <1>3, <1>6 DEF t

\* The lots of a shelf before and after a step that gave the lots p and took t.
LEMMA ShelfMoves ==
  ASSUME RowsOK, RowsOK', NEW s \in Shelves, NEW p, NEW t,
         \A l \in Lots : p[l] \in Int /\ t[l] \in Int,
         \A l \in Lots : (IF shelf'[l] = s THEN remaining'[l] ELSE 0)
                           = (IF shelf[l] = s THEN remaining[l] ELSE 0) + p[l] - t[l]
  PROVE  /\ OnHand(s) \in Nat /\ OnHand(s)' \in Nat
         /\ SumFunctionOnSet(p, Lots) \in Int /\ SumFunctionOnSet(t, Lots) \in Int
         /\ OnHand(s)' = OnHand(s) + SumFunctionOnSet(p, Lots) - SumFunctionOnSet(t, Lots)
  <1> DEFINE a == [l \in Lots |-> IF shelf[l] = s THEN remaining[l] ELSE 0]
             b == [l \in Lots |-> IF shelf'[l] = s THEN remaining'[l] ELSE 0]
  <1>1. IsFiniteSet(Lots) /\ Lots \in SUBSET Lots
    BY LotsFinite
  <1>2. remaining \in [Lots -> Nat] /\ remaining' \in [Lots -> Nat]
    BY DEF RowsOK
  <1>3. \A l \in Lots : a[l] \in Int /\ b[l] \in Int /\ p[l] \in Int /\ t[l] \in Int /\ b[l] = a[l] + p[l] - t[l]
    BY <1>2
  <1>4. OnHand(s) \in Nat /\ OnHand(s)' \in Nat
    <2>1. /\ OnHand(s) = SumFunctionOnSet(remaining, LotsOn(s)) /\ LotsOn(s) \in SUBSET Lots
          /\ OnHand(s)' = SumFunctionOnSet(remaining', LotsOn(s)') /\ LotsOn(s)' \in SUBSET Lots
      BY DEF OnHand, LotsOn
    <2>2. QED
      BY <1>2, <2>1, OnHandNatural
  <1>5. /\ LotsOn(s) \in SUBSET Lots /\ \A l \in Lots : a[l] = IF l \in LotsOn(s) THEN remaining[l] ELSE 0
        /\ LotsOn(s)' \in SUBSET Lots /\ \A l \in Lots : b[l] = IF l \in LotsOn(s)' THEN remaining'[l] ELSE 0
    BY DEF LotsOn
  <1> HIDE DEF a, b
  <1>6. OnHand(s) = SumFunctionOnSet(a, Lots) /\ OnHand(s)' = SumFunctionOnSet(b, Lots)
    <2>1. \A l \in Lots : remaining[l] \in Int /\ remaining'[l] \in Int
      BY <1>2
    <2>2. SumFunctionOnSet(a, Lots) = SumFunctionOnSet(remaining, LotsOn(s))
      BY <1>1, <1>5, <2>1, SumOfPart
    <2>3. SumFunctionOnSet(b, Lots) = SumFunctionOnSet(remaining', LotsOn(s)')
      BY <1>1, <1>5, <2>1, SumOfPart
    <2>4. QED
      BY <2>2, <2>3 DEF OnHand
  <1>7. SumFunctionOnSet(b, Lots) = SumFunctionOnSet(a, Lots) + SumFunctionOnSet(p, Lots) - SumFunctionOnSet(t, Lots)
    BY <1>1, <1>3, SharesMove
  <1>8. SumFunctionOnSet(p, Lots) \in Int /\ SumFunctionOnSet(t, Lots) \in Int
    BY <1>1, <1>3, SumRemove
  <1>9. QED
    BY <1>4, <1>6, <1>7, <1>8
-----------------------------------------------------------------------------
\* A lot that was never created holds nothing.
EmptyBeforeCreated == \A l \in Lots : shelf[l] = "none" => remaining[l] = 0

\* Posting a receipt puts every accepted line on its shelf: into the lot of
\* its code there, or into a lot created for it.
LEMMA LinesFindLots ==
  ASSUME RowsOK, NEW g \in Receipts, PostGoodsReceipt(g)
  PROVE  \E f \in [AcceptedLines(g) -> Lots] :
           /\ \A l \in Lots : remaining'[l] = remaining[l] + QuantityOf[{x \in AcceptedLines(g) : f[x] = l}]
           /\ \A x \in AcceptedLines(g) : shelf'[f[x]] = ShelfOf[x]
           /\ \A l \in Created : shelf'[l] = shelf[l]
           /\ \A l \in Lots : shelf'[l] = "none" => shelf[l] = "none"
           /\ \A x \in ReceiptLines : lineLot'[x] = IF x \in AcceptedLines(g) THEN f[x] ELSE lineLot[x]
  <1> DEFINE lines   == AcceptedLines(g)
             opening == {x \in lines : ExistingLots(x) = {}
                                       /\ \A y \in lines : SameLot(x, y) => x <= y}
             fresh   == NextLots(Cardinality(opening))
  <1>1. PICK f \in [lines -> Lots] :
          /\ \A x \in lines : ExistingLots(x) # {} => f[x] \in ExistingLots(x)
          /\ {f[x] : x \in opening} = fresh
          /\ \A x, y \in lines : f[x] = f[y] <=> SameLot(x, y)
          /\ shelf' = [l \in Lots |-> IF l \in fresh
                         THEN ShelfOf[CHOOSE x \in opening : f[x] = l] ELSE shelf[l]]
          /\ remaining' = [l \in Lots |-> remaining[l] + QuantityOf[{x \in lines : f[x] = l}]]
          /\ lineLot' = [x \in ReceiptLines |-> IF x \in lines THEN f[x] ELSE lineLot[x]]
    BY DEF PostGoodsReceipt
  <1>2. lines \subseteq ReceiptLines /\ opening \subseteq lines
    BY DEF AcceptedLines, LinesOfReceipt
  <1>3. fresh \subseteq Lots \ Created
    BY DEF NextLots, NewLots
  <1>4. \A x \in lines : ShelfOf[x] \in Shelves /\ ShelfOf[x] # "none"
    BY <1>2, LinesAssumption, ShelvesAssumption
  <1>5. ASSUME NEW x \in lines, ExistingLots(x) = {} PROVE f[x] \in fresh
    <2> DEFINE T == {y \in lines : SameLot(x, y)}
    <2>1. T \in SUBSET Nat /\ x \in T
      BY <1>2, LinesAssumption DEF SameLot
    <2>2. PICK y \in T : \A z \in T : y <= z
      <3> HIDE DEF T
      <3>1. QED
        BY <2>1, LeastExists
    <2>3. ExistingLots(y) = {}
      BY <1>5 DEF SameLot, ExistingLots
    <2>4. \A z \in lines : SameLot(y, z) => SameLot(x, z)
      BY DEF SameLot
    <2>5. y \in opening
      BY <2>2, <2>3, <2>4
    <2>6. f[x] = f[y]
      BY <1>1
    <2>7. QED
      BY <1>1, <2>5, <2>6
  <1>6. \A x, y \in lines : f[x] = f[y] => ShelfOf[x] = ShelfOf[y]
    BY <1>1 DEF SameLot
  <1>7. ASSUME NEW l \in fresh PROVE \E x \in opening : f[x] = l /\ shelf'[l] = ShelfOf[x]
    <2>1. \E x \in opening : f[x] = l
      BY <1>1
    <2>2. (CHOOSE x \in opening : f[x] = l) \in opening /\ f[CHOOSE x \in opening : f[x] = l] = l
      BY <2>1
    <2>3. l \in Lots
      BY <1>3
    <2>4. shelf'[l] = ShelfOf[CHOOSE x \in opening : f[x] = l]
      BY <1>1, <2>3
    <2>5. QED
      BY <2>2, <2>4
  <1>8. ASSUME NEW x \in lines PROVE shelf'[f[x]] = ShelfOf[x]
    <2>1. f[x] \in Lots
      BY <1>1
    <2>2. CASE ExistingLots(x) # {}
      <3>1. f[x] \in Lots /\ shelf[f[x]] = ShelfOf[x]
        BY <1>1, <2>2 DEF ExistingLots, LotsOn
      <3>2. f[x] \notin fresh
        BY <1>3, <1>4, <3>1 DEF Created
      <3>3. QED
        BY <1>1, <3>1, <3>2
    <2>3. CASE ExistingLots(x) = {}
      <3>1. f[x] \in fresh
        BY <1>5, <2>3
      <3>2. PICK y \in opening : f[y] = f[x] /\ shelf'[f[x]] = ShelfOf[y]
        BY <1>7, <3>1
      <3>3. QED
        BY <1>2, <1>6, <3>2
    <2>4. QED
      BY <2>2, <2>3
  <1>9. \A l \in Created : shelf'[l] = shelf[l]
    BY <1>1, <1>3 DEF Created
  <1>10. ASSUME NEW l \in Lots, shelf'[l] = "none" PROVE shelf[l] = "none"
    <2>1. l \notin fresh
      BY <1>2, <1>4, <1>7, <1>10
    <2>2. QED
      BY <1>1, <1>10, <2>1
  <1> HIDE DEF opening, fresh
  <1>11. QED
    BY <1>1, <1>8, <1>9, <1>10

\* Stock is only put into lots that are created with it or before it.
LEMMA EmptyStep == EmptyBeforeCreated /\ RowsOK /\ [Next]_vars => EmptyBeforeCreated'
  <1> SUFFICES ASSUME EmptyBeforeCreated, RowsOK, [Next]_vars, NEW l \in Lots, shelf'[l] = "none"
               PROVE  remaining'[l] = 0
    BY DEF EmptyBeforeCreated
  <1>1. ASSUME NEW g \in Receipts, PostGoodsReceipt(g) PROVE remaining'[l] = 0
    <2> DEFINE lines == AcceptedLines(g)
    <2>1. PICK f \in [lines -> Lots] :
            /\ remaining'[l] = remaining[l] + QuantityOf[{x \in lines : f[x] = l}]
            /\ \A x \in lines : shelf'[f[x]] = ShelfOf[x]
            /\ shelf[l] = "none"
      BY <1>1, LinesFindLots
    <2>2. \A x \in lines : ShelfOf[x] # "none"
      BY LinesAssumption, ShelvesAssumption DEF AcceptedLines, LinesOfReceipt
    <2>3. {x \in lines : f[x] = l} = {}
      BY <2>1, <2>2
    <2>4. QuantityOf[{}] = 0
      BY NoLinesNoQuantity
    <2>5. QED
      BY <2>1, <2>3, <2>4 DEF EmptyBeforeCreated
  <1>2. ASSUME NEW k \in Clerks, PostStockCount(k) PROVE remaining'[l] = 0
    <2> DEFINE c       == clerk[k].count
               surplus == {s \in Shelves : Variance[c][s] > 0}
               short   == [s \in Shelves |-> IF Variance[c][s] < 0 THEN -Variance[c][s] ELSE 0]
               fresh   == NextLots(Cardinality(surplus))
    <2>1. PICK take \in Plans(short), on \in [fresh -> surplus] :
            /\ shelf'[l] = IF l \in fresh THEN on[l] ELSE shelf[l]
            /\ remaining'[l] = remaining[l] + (IF l \in fresh THEN Variance[c][on[l]] ELSE 0)
                                 - (IF l \in Created THEN take[l] ELSE 0)
      BY <1>2 DEF PostStockCount
    <2>2. surplus \subseteq Shelves
      OBVIOUS
    <2> HIDE DEF short, fresh, surplus
    <2>3. l \notin fresh
      BY <2>1, <2>2, ShelvesAssumption
    <2>4. l \notin Created
      BY <2>1, <2>3 DEF Created
    <2>5. QED
      BY <2>1, <2>3, <2>4 DEF EmptyBeforeCreated, Created
  <1>3. ASSUME NEW s \in Shelves, NEW q \in Wasted, RecordWastage(s, q) PROVE remaining'[l] = 0
    <2>1. PICK take : remaining' = [m \in Lots |-> remaining[m] - (IF m \in Created THEN take[m] ELSE 0)]
      BY <1>3 DEF RecordWastage
    <2>2. l \notin Created
      BY <1>3 DEF RecordWastage, Created
    <2>3. QED
      BY <2>1, <2>2 DEF EmptyBeforeCreated, Created
  <1>4. ASSUME NEW m \in Lots, NEW q \in EditTo, EditLot(m, q) PROVE remaining'[l] = 0
    BY <1>4 DEF EditLot, EmptyBeforeCreated, Created, RowsOK
  <1>5. CASE UNCHANGED <<shelf, remaining>>
    BY <1>5 DEF EmptyBeforeCreated
  <1>6. QED
    BY <1>1, <1>2, <1>3, <1>4, <1>5 DEF Next, Serve, LoadCount, Refused, vars, lotVars
-----------------------------------------------------------------------------
\* A receipt is entered whole, and only if it was not entered before.
LEMMA ReceiptEnters ==
  ASSUME RowsOK, EmptyBeforeCreated, NEW g \in Receipts, PostGoodsReceipt(g), edited' = edited
  PROVE  [Book!Next]_(Book!vars)
  <1> DEFINE lines == AcceptedLines(g)
             on(s) == {x \in lines : ShelfOf[x] = s}
             entered == {h \in Receipts : \E x \in LinesOfReceipt(h) : lineLot[x] # NoLot}
  <1>1. PICK f \in [lines -> Lots] :
          /\ \A l \in Lots : remaining'[l] = remaining[l] + QuantityOf[{x \in lines : f[x] = l}]
          /\ \A x \in lines : shelf'[f[x]] = ShelfOf[x]
          /\ \A l \in Created : shelf'[l] = shelf[l]
          /\ \A l \in Lots : shelf'[l] = "none" => shelf[l] = "none"
          /\ \A x \in ReceiptLines : lineLot'[x] = IF x \in lines THEN f[x] ELSE lineLot[x]
    BY LinesFindLots
  <1>2. RowsOK'
    BY ReceiptStep
  <1>3. lines \subseteq ReceiptLines /\ lines \subseteq LinesOfReceipt(g) /\ LinesOfReceipt(g) \subseteq ReceiptLines
    BY DEF AcceptedLines, LinesOfReceipt
  <1>4. ASSUME NEW s \in Shelves PROVE OnHand(s)' = OnHand(s) + QuantityOf[on(s)]
    <2> DEFINE before(l) == IF shelf[l] = s THEN remaining[l] ELSE 0
               after(l)  == IF shelf'[l] = s THEN remaining'[l] ELSE 0
               p == [l \in Lots |-> QuantityOf[{x \in on(s) : f[x] = l}]]
               t == [l \in Lots |-> 0]
    <2>1. \A l \in Lots : t[l] = 0
      OBVIOUS
    <2>2. ASSUME NEW l \in Lots
          PROVE  p[l] \in Int /\ t[l] \in Int /\ after(l) = before(l) + p[l] - t[l]
      <3> DEFINE all == {x \in lines : f[x] = l}
                 here == {x \in on(s) : f[x] = l}
      <3>1. all \in SUBSET ReceiptLines /\ here \in SUBSET ReceiptLines
        BY <1>3
      <3>2. QuantityOf[all] \in Nat /\ QuantityOf[here] \in Nat
        BY <3>1, LinesAssumption
      <3>3. remaining[l] \in Nat /\ remaining'[l] \in Nat
        BY <1>2 DEF RowsOK
      <3>4. remaining'[l] = remaining[l] + QuantityOf[all] /\ p[l] = QuantityOf[here] /\ t[l] = 0
        BY <1>1
      <3>5. CASE shelf'[l] = s
        <4>1. here = all
          BY <1>1, <3>5
        <4>2. before(l) = remaining[l]
          <5>1. CASE l \in Created
            BY <1>1, <3>5, <5>1
          <5>2. CASE l \notin Created
            BY <5>2 DEF EmptyBeforeCreated, Created
          <5>3. QED
            BY <5>1, <5>2
        <4>3. after(l) = remaining'[l]
          BY <3>5
        <4> HIDE DEF all, here, before, after, p, t
        <4>4. QED
          BY <3>2, <3>3, <3>4, <4>1, <4>2, <4>3
      <3>6. CASE shelf'[l] # s
        <4>1. here = {}
          BY <1>1, <3>6
        <4>2. before(l) = 0
          <5>1. CASE l \in Created
            BY <1>1, <3>6, <5>1
          <5>2. CASE l \notin Created
            BY <5>2, ShelvesAssumption DEF Created
          <5>3. QED
            BY <5>1, <5>2
        <4>3. after(l) = 0
          BY <3>6
        <4> HIDE DEF all, here, before, after, p, t
        <4>4. QED
          BY <3>4, <4>1, <4>2, <4>3, NoLinesNoQuantity
      <3>7. QED
        BY <3>5, <3>6
    <2>3. SumFunctionOnSet(p, Lots) = QuantityOf[on(s)]
      <3>1. on(s) \in SUBSET ReceiptLines /\ \A x \in on(s) : f[x] \in Lots
        BY <1>1, <1>3
      <3> HIDE DEF on
      <3>2. QED
        BY <3>1, PutsAdd
    <2>4. SumFunctionOnSet(t, Lots) = 0
      <3> HIDE DEF t
      <3>1. QED
        BY <2>1, LotsFinite, NothingAddsNothing
    <2> HIDE DEF p, t
    <2>5. OnHand(s) \in Nat /\ OnHand(s)' = OnHand(s) + SumFunctionOnSet(p, Lots) - SumFunctionOnSet(t, Lots)
      BY <1>2, <2>2, ShelfMoves
    <2>6. QuantityOf[on(s)] \in Nat
      <3>1. on(s) \in SUBSET ReceiptLines
        BY <1>3
      <3>2. QED
        BY <3>1, LinesAssumption
    <2> HIDE DEF on
    <2>7. QED
      BY <2>3, <2>4, <2>5, <2>6
  <1>5. CASE lines = {}
    <2>1. ASSUME NEW s \in Shelves PROVE OnHand(s)' = OnHand(s)
      <3>1. on(s) = {}
        BY <1>5
      <3>2. OnHand(s) \in Nat
        <4>1. remaining \in [Lots -> Nat]
          BY DEF RowsOK
        <4>2. LotsOn(s) \in SUBSET Lots
          BY DEF LotsOn
        <4>3. QED
          BY <4>1, <4>2, OnHandNatural DEF OnHand
      <3> HIDE DEF on
      <3>3. QED
        BY <1>4, <3>1, <3>2, NoLinesNoQuantity
    <2>2. entered' = entered
      BY <1>1, <1>5 DEF LinesOfReceipt
    <2>3. QED
      BY <2>1, <2>2 DEF Book!vars
  <1>6. CASE lines # {}
    <2>1. g \notin entered
      BY DEF PostGoodsReceipt, NotYetPosted
    <2>2. entered' = entered \cup {g}
      <3>1. \A x \in lines : f[x] # NoLot
        BY LotsAssumption DEF Lots, NoLot
      <3>2. \A h \in Receipts : h # g => LinesOfReceipt(h) \cap lines = {}
        BY <1>3 DEF LinesOfReceipt
      <3>3. \A h \in Receipts : h # g => (h \in entered' <=> h \in entered)
        BY <1>1, <3>2 DEF LinesOfReceipt
      <3>4. g \in entered'
        BY <1>1, <1>3, <1>6, <3>1
      <3>5. QED
        BY <3>3, <3>4
    <2> HIDE DEF entered, lines
    <2>3. [s \in Shelves |-> OnHand(s)'] = [s \in Shelves |-> OnHand(s) + QuantityOf[on(s)]]
      BY <1>4
    <2>4. Book!Enter(g)
      BY <2>1, <2>2, <2>3 DEF Book!Enter, entered, lines
    <2>5. QED
      BY <2>4 DEF Book!Next
  <1>7. QED
    BY <1>5, <1>6

\* A count corrects every shelf by its variance.
LEMMA CountCorrects ==
  ASSUME RowsOK, EmptyBeforeCreated, NEW k \in Clerks, PostStockCount(k), edited' = edited
  PROVE  [Book!Next]_(Book!vars)
  <1> DEFINE c       == clerk[k].count
             surplus == {s \in Shelves : Variance[c][s] > 0}
             short   == [s \in Shelves |-> IF Variance[c][s] < 0 THEN -Variance[c][s] ELSE 0]
             fresh   == NextLots(Cardinality(surplus))
  <1>1. c \in Counts /\ Variance[c] \in [Shelves -> Int]
    BY SentinelAssumption, QuantitiesAssumption DEF PostStockCount, HeldUnposted, RowsOK
  <1>2. PICK take \in Plans(short), on \in [fresh -> surplus] :
          /\ \A l, m \in fresh : on[l] = on[m] => l = m
          /\ shelf' = [l \in Lots |-> IF l \in fresh THEN on[l] ELSE shelf[l]]
          /\ remaining' = [l \in Lots |-> remaining[l] + (IF l \in fresh THEN Variance[c][on[l]] ELSE 0)
                                            - (IF l \in Created THEN take[l] ELSE 0)]
    BY DEF PostStockCount
  <1>3. RowsOK'
    BY CountStep
  <1>4. fresh \subseteq Lots \ Created /\ Cardinality(fresh) = Cardinality(surplus)
    BY DEF NextLots, NewLots, PostStockCount
  <1>5. IsFiniteSet(Lots) /\ IsFiniteSet(surplus)
    BY LotsFinite, ShelvesAssumption, FS_Subset
  <1>6. UNCHANGED lineLot
    BY DEF PostStockCount, orderVars
  <1>7. \A s \in Shelves : short[s] = IF Variance[c][s] < 0 THEN -Variance[c][s] ELSE 0
    OBVIOUS
  <1>8. \A s \in surplus : s \in Shelves /\ Variance[c][s] > 0
    OBVIOUS
  <1>9. \A s \in Shelves : s \notin surplus => ~(Variance[c][s] > 0)
    OBVIOUS
  <1> HIDE DEF c, surplus, short, fresh
  <1>10. \A s \in surplus : \E l \in fresh : on[l] = s
    <2>1. on \in Injection(fresh, surplus)
      BY <1>2 DEF Injection, IsInjective
    <2>2. on \in Surjection(fresh, surplus)
      BY <1>4, <1>5, <2>1, FS_Injection
    <2>3. QED
      BY <2>2 DEF Surjection
  <1>11. ASSUME NEW s \in Shelves
         PROVE  OnHand(s)' = OnHand(s) + Variance[c][s] /\ OnHand(s)' \in Nat
    <2> DEFINE p == [l \in Lots |-> IF l \in fresh /\ on[l] = s THEN Variance[c][s] ELSE 0]
               t == [l \in Lots |-> IF shelf[l] = s THEN take[l] ELSE 0]
    <2>1. s # "none" /\ Variance[c][s] \in Int
      BY <1>1, ShelvesAssumption
    <2>2. ASSUME NEW l \in Lots
          PROVE  /\ p[l] \in Int /\ t[l] \in Int
                 /\ (IF shelf'[l] = s THEN remaining'[l] ELSE 0)
                      = (IF shelf[l] = s THEN remaining[l] ELSE 0) + p[l] - t[l]
      <3>1. remaining[l] \in Nat
        BY DEF RowsOK
      <3>2. CASE l \in Created
        <4>1. l \notin fresh /\ take[l] \in Nat
          BY <1>2, <1>4, <3>2, PlanTakes
        <4>2. shelf'[l] = shelf[l] /\ remaining'[l] = remaining[l] + 0 - take[l] /\ p[l] = 0
          BY <1>2, <3>2, <4>1
        <4>3. QED
          BY <3>1, <4>1, <4>2
      <3>3. CASE l \notin Created
        <4>1. shelf[l] = "none" /\ remaining[l] = 0
          BY <3>3 DEF Created, EmptyBeforeCreated
        <4>2. CASE l \in fresh
          <5>1. shelf'[l] = on[l] /\ on[l] \in Shelves /\ remaining'[l] = 0 + Variance[c][on[l]] - 0
            BY <1>2, <1>8, <3>3, <4>1, <4>2
          <5>2. Variance[c][on[l]] \in Int
            BY <1>1, <5>1
          <5>3. QED
            BY <2>1, <4>1, <4>2, <5>1, <5>2
        <4>3. CASE l \notin fresh
          BY <1>2, <2>1, <4>1, <4>3
        <4>4. QED
          BY <4>2, <4>3
      <3>4. QED
        BY <3>2, <3>3
    <2>3. SumFunctionOnSet(t, Lots) = short[s]
      BY <1>2, PlanSums
    <2>4. SumFunctionOnSet(p, Lots) = IF Variance[c][s] > 0 THEN Variance[c][s] ELSE 0
      <3>1. CASE s \in surplus
        <4>1. PICK l \in fresh : on[l] = s
          BY <1>10, <3>1
        <4>2. l \in Lots /\ p[l] = Variance[c][s] /\ p[l] \in Int /\ \A x \in Lots : x # l => p[x] = 0
          BY <1>2, <1>4, <2>1, <4>1
        <4> HIDE DEF p
        <4>3. SumFunctionOnSet(p, Lots) = p[l]
          BY <1>5, <4>2, OneAddsItself
        <4>4. QED
          BY <1>8, <3>1, <4>2, <4>3
      <3>2. CASE s \notin surplus
        <4>1. \A x \in Lots : p[x] = 0
          BY <1>2, <3>2
        <4> HIDE DEF p
        <4>2. SumFunctionOnSet(p, Lots) = 0
          BY <1>5, <4>1, NothingAddsNothing
        <4>3. QED
          BY <1>9, <3>2, <4>2
      <3>3. QED
        BY <3>1, <3>2
    <2> HIDE DEF p, t
    <2>5. /\ OnHand(s) \in Nat /\ OnHand(s)' \in Nat
          /\ OnHand(s)' = OnHand(s) + SumFunctionOnSet(p, Lots) - SumFunctionOnSet(t, Lots)
      BY <1>3, <2>2, ShelfMoves
    <2>6. QED
      BY <1>7, <2>1, <2>3, <2>4, <2>5
  <1>12. Book!Correct(c)
    <2>1. [s \in Shelves |-> OnHand(s)'] = [s \in Shelves |-> OnHand(s) + Variance[c][s]]
      BY <1>11
    <2>2. \A s \in Shelves : OnHand(s) + Variance[c][s] >= 0
      BY <1>11
    <2>3. QED
      BY <1>6, <2>1, <2>2 DEF Book!Correct
  <1>13. QED
    BY <1>1, <1>12 DEF Book!Next

\* Wastage takes from one shelf no more than lies on it.
LEMMA WastageIssues ==
  ASSUME RowsOK, NEW s \in Shelves, NEW q \in Wasted, RecordWastage(s, q), edited' = edited
  PROVE  [Book!Next]_(Book!vars)
  <1> DEFINE amount == [u \in Shelves |-> IF u = s THEN q ELSE 0]
  <1>1. PICK take \in Plans(amount) :
          remaining' = [l \in Lots |-> remaining[l] - (IF l \in Created THEN take[l] ELSE 0)]
    BY DEF RecordWastage
  <1>2. RowsOK' /\ UNCHANGED <<shelf, lineLot>> /\ IsFiniteSet(Lots) /\ q \in Nat
    BY WastageStep, QuantitiesAssumption, LotsFinite DEF RecordWastage, orderVars
  <1>3. \A u \in Shelves : amount[u] = IF u = s THEN q ELSE 0
    OBVIOUS
  <1> HIDE DEF amount
  <1>4. ASSUME NEW u \in Shelves
        PROVE  OnHand(u)' = OnHand(u) - amount[u] /\ OnHand(u) \in Nat /\ OnHand(u)' \in Nat
    <2> DEFINE p == [l \in Lots |-> 0]
               t == [l \in Lots |-> IF shelf[l] = u THEN take[l] ELSE 0]
    <2>1. ASSUME NEW l \in Lots
          PROVE  /\ p[l] \in Int /\ t[l] \in Int
                 /\ (IF shelf'[l] = u THEN remaining'[l] ELSE 0)
                      = (IF shelf[l] = u THEN remaining[l] ELSE 0) + p[l] - t[l]
      <3>1. remaining[l] \in Nat /\ shelf'[l] = shelf[l]
        BY <1>2 DEF RowsOK
      <3>2. CASE l \in Created
        <4>1. take[l] \in Nat /\ remaining'[l] = remaining[l] - take[l]
          BY <1>1, <3>2, PlanTakes
        <4>2. QED
          BY <3>1, <4>1
      <3>3. CASE l \notin Created
        BY <3>1, <3>3, ShelvesAssumption DEF Created
      <3>4. QED
        BY <3>2, <3>3
    <2>2. SumFunctionOnSet(t, Lots) = amount[u]
      BY PlanSums
    <2>3. SumFunctionOnSet(p, Lots) = 0
      <3>1. \A x \in Lots : p[x] = 0
        OBVIOUS
      <3> HIDE DEF p
      <3>2. QED
        BY <1>2, <3>1, NothingAddsNothing
    <2> HIDE DEF p, t
    <2>4. /\ OnHand(u) \in Nat /\ OnHand(u)' \in Nat
          /\ OnHand(u)' = OnHand(u) + SumFunctionOnSet(p, Lots) - SumFunctionOnSet(t, Lots)
      BY <1>2, <2>1, ShelfMoves
    <2>5. amount[u] \in Nat
      BY <1>2, <1>3
    <2>6. QED
      BY <2>2, <2>3, <2>4, <2>5
  <1>5. Book!Issue(s)
    <2>1. \A u \in Shelves : u # s => OnHand(u)' = OnHand(u)
      BY <1>3, <1>4
    <2>2. OnHand(s)' \in 0 .. OnHand(s)
      BY <1>2, <1>3, <1>4
    <2>3. QED
      BY <1>2, <2>1, <2>2 DEF Book!Issue
  <1>6. QED
    BY <1>5 DEF Book!Next

\* The lot endpoint gives the shelf of its lot another quantity.
LEMMA EditWrites ==
  ASSUME RowsOK, NEW l \in Lots, NEW q \in EditTo, EditLot(l, q)
  PROVE  [Book!Next]_(Book!vars)
  <1>1. RowsOK' /\ UNCHANGED <<shelf, lineLot>> /\ edited' # edited /\ shelf[l] \in Shelves
    BY NextRowsOK DEF EditLot, orderVars, Created, RowsOK, Next
  <1>2. ASSUME NEW u \in Shelves
        PROVE  OnHand(u)' \in Nat /\ (u # shelf[l] => OnHand(u)' = OnHand(u))
    <2>1. remaining' \in [Lots -> Nat] /\ remaining \in [Lots -> Nat]
      BY <1>1 DEF RowsOK
    <2>2. OnHand(u)' = SumFunctionOnSet(remaining', LotsOn(u))
      BY <1>1 DEF OnHand, LotsOn
    <2>3. OnHand(u)' \in Nat
      BY <2>1, <2>2, OnHandNatural DEF LotsOn
    <2>4. ASSUME u # shelf[l] PROVE OnHand(u)' = OnHand(u)
      <3> DEFINE T == LotsOn(u)
      <3>1. \A x \in T : remaining[x] \in Int /\ remaining'[x] = IF x \in T THEN remaining[x] ELSE 0
        BY <2>1, <2>4 DEF EditLot, LotsOn
      <3>2. T \in SUBSET T /\ IsFiniteSet(T)
        BY LotsFinite
      <3> HIDE DEF T
      <3>3. SumFunctionOnSet(remaining', T) = SumFunctionOnSet(remaining, T)
        BY <3>1, <3>2, SumOfPart
      <3>4. QED
        BY <2>2, <3>3 DEF OnHand, T
    <2>5. QED
      BY <2>3, <2>4
  <1>3. Book!Write(shelf[l])
    BY <1>1, <1>2 DEF Book!Write
  <1>4. QED
    BY <1>1, <1>3 DEF Book!Next

\* The stock services implement the stock book.
THEOREM StockBookKept == Spec => ImplementsStockBook
  <1>1. Init => Book!Init /\ EmptyBeforeCreated
    <2> SUFFICES ASSUME Init PROVE Book!Init /\ EmptyBeforeCreated
      OBVIOUS
    <2>1. EmptyBeforeCreated
      BY DEF Init, EmptyBeforeCreated
    <2>2. ASSUME NEW s \in Shelves PROVE OnHand(s) = 0
      <3>1. IsFiniteSet(LotsOn(s))
        BY LotsFinite
      <3>2. \A x \in LotsOn(s) : remaining[x] = 0
        BY DEF Init, LotsOn
      <3>3. QED
        BY <3>1, <3>2, NothingAddsNothing DEF OnHand
    <2>3. {g \in Receipts : \E x \in LinesOfReceipt(g) : lineLot[x] # NoLot} = {} /\ edited = {}
      BY DEF Init, LinesOfReceipt
    <2>4. QED
      BY <2>1, <2>2, <2>3 DEF Book!Init
  <1>2. TypeOK /\ EmptyBeforeCreated /\ [Next]_vars => [Book!Next]_(Book!vars)
    <2> SUFFICES ASSUME RowsOK, EmptyBeforeCreated, [Next]_vars PROVE [Book!Next]_(Book!vars)
      BY DEF TypeOK
    <2>1. ASSUME NEW g \in Receipts, PostGoodsReceipt(g), edited' = edited PROVE [Book!Next]_(Book!vars)
      BY <2>1, ReceiptEnters
    <2>2. ASSUME NEW k \in Clerks, PostStockCount(k), edited' = edited PROVE [Book!Next]_(Book!vars)
      BY <2>2, CountCorrects
    <2>3. ASSUME NEW s \in Shelves, NEW q \in Wasted, RecordWastage(s, q), edited' = edited PROVE [Book!Next]_(Book!vars)
      BY <2>3, WastageIssues
    <2>4. ASSUME NEW l \in Lots, NEW q \in EditTo, EditLot(l, q) PROVE [Book!Next]_(Book!vars)
      BY <2>4, EditWrites
    <2>5. CASE UNCHANGED <<shelf, remaining, lineLot, edited>>
      BY <2>5 DEF Book!vars, OnHand, LotsOn, LinesOfReceipt
    <2>6. QED
      BY <2>1, <2>2, <2>3, <2>4, <2>5 DEF Next, Serve, LoadCount, Refused, vars, lotVars, orderVars
  <1>3. EmptyBeforeCreated /\ TypeOK /\ [Next]_vars => EmptyBeforeCreated'
    BY EmptyStep DEF TypeOK
  <1>4. QED
    BY <1>1, <1>2, <1>3, TypeCorrect, PTL DEF Spec, ImplementsStockBook, Book!Spec
=============================================================================
