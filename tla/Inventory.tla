----------------------------- MODULE Inventory -----------------------------
(***************************************************************************)
(* Stock lots and movements of apps/inventory: goods receipts, counts,     *)
(* wastage, and the lot endpoint.  A lot belongs to a shelf: a stock item  *)
(* in a warehouse.  Each service is one IMMEDIATE transaction; only the    *)
(* status of a count is read from an instance the view loaded earlier (a   *)
(* receipt is posted from rows read inside the transaction).               *)
(*                                                                         *)
(* Quantities are in units of 0.0001.  Lot identifiers grow, so the order  *)
(* of identifiers is the order of received_on and id.                      *)
(***************************************************************************)
EXTENDS Integers, FiniteSets, Functions

CONSTANTS
  Shelves,
  MaxLots,          \* bound: lot rows that can be created
  Fefo,             \* shelves whose item is tracked FEFO, the others FIFO
  DefaultExpiry,    \* expiry given by the item's shelf life, or NoDate
  NoDate,
  NoCode,           \* a lot code generated by next_document_number
  Receipts, ReceiptLines,
  ReceiptOf, ShelfOf, CodeOf, ExpiryOf, OrderLineOf,   \* a receipt line's fields
  Accepted,         \* quantity minus rejected_quantity of a receipt line
  QuantityOf,       \* total Accepted of a set of receipt lines
  OrderLines, NoLine, OrderOf, Ordered,     \* purchase order lines
  PurchaseOrders, NoOrder, OrderOfReceipt,
  Counts, Variance, \* counted minus system quantity, 0 where not counted
  Wasted,           \* quantities of wastage requests
  EditTo,           \* quantities the lot endpoint writes
  MaxEdits,         \* bound: lots it writes, each once
  Clerks, Idle      \* threads holding a StockCount instance

Lots == 1 .. MaxLots
NoLot == 0

ASSUME LotsAssumption == MaxLots \in Nat
ASSUME ShelvesAssumption == IsFiniteSet(Shelves) /\ "none" \notin Shelves
ASSUME LinesAssumption ==
  /\ ReceiptLines \subseteq Nat
  /\ Accepted \in [ReceiptLines -> Int]
  /\ QuantityOf \in [SUBSET ReceiptLines -> Nat]
  /\ \A S, T \in SUBSET ReceiptLines : S \cap T = {} => QuantityOf[S \cup T] = QuantityOf[S] + QuantityOf[T]
  /\ ShelfOf \in [ReceiptLines -> Shelves]
  /\ Ordered \in [OrderLines -> Nat]
ASSUME DatesAssumption ==
  /\ DefaultExpiry \in [Shelves -> Int \cup {NoDate}]
  /\ ExpiryOf \in [ReceiptLines -> Int \cup {NoDate}]
ASSUME QuantitiesAssumption ==
  /\ Variance \in [Counts -> [Shelves -> Int]]
  /\ Wasted \subseteq Nat /\ EditTo \subseteq Nat /\ MaxEdits \in Nat
ASSUME SentinelAssumption == Idle \notin [count : Counts, status : {"open", "posted"}]

VARIABLES
  shelf, code, expires,  \* of a lot; shelf is "none" before the lot exists
  received,              \* quantity_received of a lot
  remaining,             \* quantity_remaining of a lot
  moved,                 \* sum of the quantities of a lot's movements
  lineLot,               \* GoodsReceiptLine.lot
  lineReceived,          \* PurchaseOrderLine.quantity_received
  orderStatus,           \* PurchaseOrder.status
  countStatus,           \* StockCount.status
  countMoved,            \* sum of a count's movements on a shelf
  clerk,                 \* StockCount instance held by a clerk
  edited                 \* history: lots written by the lot endpoint

lotVars   == <<shelf, code, expires, received, remaining, moved>>
orderVars == <<lineLot, lineReceived, orderStatus>>
countVars == <<countStatus, countMoved>>
vars == <<lotVars, orderVars, countVars, clerk, edited>>

Created   == {l \in Lots : shelf[l] # "none"}
NewLots   == Lots \ Created
LotsOn(s) == {l \in Lots : shelf[l] = s}

\* k new lots get the next identifiers.
NextLots(k) == {l \in NewLots : l <= Cardinality(Created) + k}

\* ORDER BY expires_on (SQLite puts NULL first), received_on, id.
ById(m, l) == m < l                                            \* mutant of Before
Before(m, l) ==
  LET e == expires[m]  f == expires[l] IN
  IF shelf[l] \notin Fefo \/ e = f THEN m < l
  ELSE e = NoDate \/ (f # NoDate /\ e < f)

EverReceived(l)    == received[l]                              \* mutant of Available
Available(l)       == remaining[l]
Unsigned(take, l)  == IF l \in Created THEN take[l] ELSE 0        \* mutant of Outgoing
Outgoing(take, l)  == IF l \in Created THEN -take[l] ELSE 0
Delivery(l, q)      == received[l] + q

\* What each lot gives when shelf s issues amount[s]: earlier lots first, and
\* no plan when the shelf holds less (InsufficientStockError).
Plans(amount) ==
  {take \in [Created -> UNION {0 .. Available(l) : l \in Created}] :
     /\ \A l \in Created : take[l] <= Available(l)
     /\ \A s \in Shelves : SumFunctionOnSet(take, LotsOn(s)) = amount[s]
     /\ \A l, m \in Created :
          shelf[l] = shelf[m] /\ Before(m, l) /\ take[l] > 0 => take[m] = Available(m)}

OnHand(s) == SumFunctionOnSet(remaining, LotsOn(s))

LinesOfReceipt(g) == {x \in ReceiptLines : ReceiptOf[x] = g}
AnyReceipt(g)     == LinesOfReceipt(g) # {}                     \* mutant of NotYetPosted
NotYetPosted(g)   == LinesOfReceipt(g) # {} /\ \A x \in LinesOfReceipt(g) : lineLot[x] = NoLot
AcceptedLines(g)  == {x \in LinesOfReceipt(g) : Accepted[x] > 0}

\* Lines of a receipt that end in the same lot: get_or_create by item,
\* warehouse and code, where a line without a code always gets a new one.
SameLot(x, y) == x = y \/ (CodeOf[x] # NoCode /\ CodeOf[x] = CodeOf[y] /\ ShelfOf[x] = ShelfOf[y])
ExistingLots(x) == {l \in LotsOn(ShelfOf[x]) : CodeOf[x] # NoCode /\ code[l] = CodeOf[x]}

\* Every receipt line carries its own copy of its order line, read before the
\* first one is saved: of several lines for one order line the last one counts.
AllLinesFor(lines, y) == {x \in lines : OrderLineOf[x] = y}
CountedIn(lines, y) == {x \in AllLinesFor(lines, y) : \A z \in AllLinesFor(lines, y) : z <= x}

RowsOK ==
  /\ shelf \in [Lots -> Shelves \cup {"none"}]
  /\ received \in [Lots -> Nat]
  /\ remaining \in [Lots -> Nat]
  /\ moved \in [Lots -> Int]
  /\ lineLot \in [ReceiptLines -> Lots \cup {NoLot}]
  /\ lineReceived \in [OrderLines -> Nat]
  /\ orderStatus \in [PurchaseOrders -> {"draft", "partial", "received"}]
  /\ countStatus \in [Counts -> {"open", "posted"}]
  /\ countMoved \in [Counts -> [Shelves -> Int]]
  /\ clerk \in [Clerks -> [count : Counts, status : {"open", "posted"}] \cup {Idle}]

TypeOK == RowsOK /\ edited \in SUBSET Lots

Init ==
  /\ shelf = [l \in Lots |-> "none"]
  /\ code = [l \in Lots |-> NoCode]
  /\ expires = [l \in Lots |-> NoDate]
  /\ received = [l \in Lots |-> 0]
  /\ remaining = [l \in Lots |-> 0]
  /\ moved = [l \in Lots |-> 0]
  /\ lineLot = [x \in ReceiptLines |-> NoLot]
  /\ lineReceived = [y \in OrderLines |-> 0]
  /\ orderStatus = [o \in PurchaseOrders |-> "draft"]
  /\ countStatus = [c \in Counts |-> "open"]
  /\ countMoved = [c \in Counts |-> [s \in Shelves |-> 0]]
  /\ clerk = [k \in Clerks |-> Idle]
  /\ edited = {}
-----------------------------------------------------------------------------
\* Posting a receipt: every accepted line goes to the lot of its code, which
\* is created when the shelf has none; the purchase order counts it in.
PostGoodsReceipt(g) ==
  LET lines   == AcceptedLines(g)
      opening == {x \in lines : ExistingLots(x) = {} /\ \A y \in lines : SameLot(x, y) => x <= y}
      fresh   == NextLots(Cardinality(opening))
      firstOf(f, l) == CHOOSE x \in opening : f[x] = l
      expiry(x)     == IF ExpiryOf[x] = NoDate THEN DefaultExpiry[ShelfOf[x]] ELSE ExpiryOf[x]
      put(f, l)     == QuantityOf[{x \in lines : f[x] = l}]
      booked(y)     == QuantityOf[CountedIn(lines, y)]
      o == OrderOfReceipt[g]
      complete == \A y \in OrderLines : OrderOf[y] = o => lineReceived'[y] >= Ordered[y]
  IN
  /\ NotYetPosted(g) /\ Cardinality(fresh) = Cardinality(opening)
  /\ \E f \in [lines -> Lots] :
       /\ \A x \in lines : ExistingLots(x) # {} => f[x] \in ExistingLots(x)
       /\ {f[x] : x \in opening} = fresh
       /\ \A x, y \in lines : f[x] = f[y] <=> SameLot(x, y)
       /\ \A x, y \in opening : x < y => f[x] < f[y]
       /\ shelf' = [l \in Lots |-> IF l \in fresh THEN ShelfOf[firstOf(f, l)] ELSE shelf[l]]
       /\ code' = [l \in Lots |-> IF l \in fresh THEN CodeOf[firstOf(f, l)] ELSE code[l]]
       /\ expires' = [l \in Lots |-> IF l \in fresh THEN expiry(firstOf(f, l)) ELSE expires[l]]
       /\ received' = [l \in Lots |-> Delivery(l, put(f, l))]
       /\ remaining' = [l \in Lots |-> remaining[l] + put(f, l)]
       /\ moved' = [l \in Lots |-> moved[l] + put(f, l)]
       /\ lineLot' = [x \in ReceiptLines |-> IF x \in lines THEN f[x] ELSE lineLot[x]]
  /\ lineReceived' = [y \in OrderLines |-> lineReceived[y] + booked(y)]
  /\ orderStatus' = [p \in PurchaseOrders |->
       IF p = o THEN (IF complete THEN "received" ELSE "partial") ELSE orderStatus[p]]
  /\ UNCHANGED <<countVars, clerk>>

\* The view's get_object of a count, and a request that ends with no effect.
LoadCount(k, c) ==
  /\ clerk[k] = Idle
  /\ clerk' = [clerk EXCEPT ![k] = [count |-> c, status |-> countStatus[c]]]
  /\ UNCHANGED <<lotVars, orderVars, countVars>>

Refused(k) ==
  /\ clerk[k] # Idle
  /\ clerk' = [clerk EXCEPT ![k] = Idle]
  /\ UNCHANGED <<lotVars, orderVars, countVars>>

\* Posting a count: a surplus becomes a new lot, a shortage is consumed; one
\* shelf that holds less than its shortage refuses the whole count.
HeldUnposted(k) == clerk[k] # Idle /\ clerk[k].status # "posted"
PostStockCount(k) ==
  LET c       == clerk[k].count
      surplus == {s \in Shelves : Variance[c][s] > 0}
      short   == [s \in Shelves |-> IF Variance[c][s] < 0 THEN -Variance[c][s] ELSE 0]
      fresh   == NextLots(Cardinality(surplus))
  IN
  /\ HeldUnposted(k) /\ Cardinality(fresh) = Cardinality(surplus)
  /\ \E take \in Plans(short), on \in [fresh -> surplus] :
       LET gain(l) == IF l \in fresh THEN Variance[c][on[l]] ELSE 0
       IN /\ \A l, m \in fresh : on[l] = on[m] => l = m
          /\ shelf' = [l \in Lots |-> IF l \in fresh THEN on[l] ELSE shelf[l]]
          /\ expires' = [l \in Lots |-> IF l \in fresh THEN DefaultExpiry[on[l]] ELSE expires[l]]
          /\ received' = [l \in Lots |-> received[l] + gain(l)]
          /\ remaining' = [l \in Lots |->
               remaining[l] + gain(l) - (IF l \in Created THEN take[l] ELSE 0)]
          /\ moved' = [l \in Lots |-> moved[l] + gain(l) + Outgoing(take, l)]
  /\ countStatus' = [countStatus EXCEPT ![c] = "posted"]
  /\ countMoved' = [countMoved EXCEPT ![c] = [s \in Shelves |-> @[s] + Variance[c][s]]]
  /\ clerk' = [clerk EXCEPT ![k] = Idle]
  /\ UNCHANGED <<code, orderVars>>

\* record_wastage consumes from the shelf and writes the wastage entry.
RecordWastage(s, q) ==
  /\ \E take \in Plans([t \in Shelves |-> IF t = s THEN q ELSE 0]) :
       /\ remaining' = [l \in Lots |-> remaining[l] - (IF l \in Created THEN take[l] ELSE 0)]
       /\ moved' = [l \in Lots |-> moved[l] + Outgoing(take, l)]
  /\ UNCHANGED <<shelf, code, expires, received, orderVars, countVars, clerk>>

\* The generic lot endpoint writes quantity_remaining and no movement.
EditLot(l, q) ==
  /\ l \in Created \ edited /\ Cardinality(edited) < MaxEdits
  /\ edited' = edited \cup {l}
  /\ remaining' = [remaining EXCEPT ![l] = q]
  /\ UNCHANGED <<shelf, code, expires, received, moved, orderVars, countVars, clerk>>
-----------------------------------------------------------------------------
Serve ==
  \/ \E g \in Receipts : PostGoodsReceipt(g)
  \/ \E k \in Clerks, c \in Counts : LoadCount(k, c)
  \/ \E k \in Clerks : PostStockCount(k) \/ Refused(k)
  \/ \E s \in Shelves, q \in Wasted : RecordWastage(s, q)

Next ==
  \/ Serve /\ UNCHANGED edited
  \/ \E l \in Lots, q \in EditTo : EditLot(l, q)

Spec == Init /\ [][Next]_vars
-----------------------------------------------------------------------------
\* A lot's remaining quantity can be verified from its movements, unless the
\* lot endpoint has written it.
BalanceIsMovements == \A l \in Lots \ edited : remaining[l] = moved[l]

\* No lot gives out more than came in, unless the lot endpoint has written it.
NothingFromNothing == \A l \in Lots \ edited : remaining[l] <= received[l]

\* What a purchase order line counts as received is what its receipt lines
\* brought into lots (no receipt with two lines for one order line).
OrderedIsDelivered ==
  \A y \in OrderLines :
    lineReceived[y] = QuantityOf[{x \in ReceiptLines : OrderLineOf[x] = y /\ lineLot[x] # NoLot}]

\* A receipt line that is in a lot stays in it: no later posting, however
\* stale its receipt, moves what was delivered.
PostedForGood ==
  [][\A x \in ReceiptLines : lineLot[x] # NoLot => lineLot'[x] = lineLot[x]]_vars

\* FEFO: of two lots with an expiry date, the services empty the earlier first.
EarliestExpiryFirst ==
  [][edited' = edited => \A l, m \in Created :
       shelf[l] = shelf[m] /\ shelf[l] \in Fefo /\ remaining'[l] < remaining[l]
         /\ expires[m] # NoDate /\ expires[l] # NoDate /\ expires[m] < expires[l]
       => remaining'[m] = 0]_vars

\* The services implement the stock book: a receipt enters once and whole
\* however often it is posted, no issue overdraws a shelf, and only the lot
\* endpoint changes a quantity at will.
Book == INSTANCE StockBook WITH
  Delivered <- [g \in Receipts |-> [s \in Shelves |->
                  QuantityOf[{x \in AcceptedLines(g) : ShelfOf[x] = s}]]],
  onHand    <- [s \in Shelves |-> OnHand(s)],
  entered   <- {g \in Receipts : \E x \in LinesOfReceipt(g) : lineLot[x] # NoLot},
  writes    <- edited
ImplementsStockBook == Book!Spec

\* A count corrects each shelf by its variance, once (one clerk at a time).
CountPostedOnce ==
  \A c \in Counts : \A s \in Shelves : countMoved[c][s] \in {0, Variance[c][s]}
=============================================================================
