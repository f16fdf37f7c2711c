---------------------------- MODULE StockFigures ----------------------------
(***************************************************************************)
(* What stock and purchasing show besides their balances: cost and value   *)
(* of an item, what to order, what expires, and which quotation is best    *)
(* (inventory/models.py, services.py, views.py).  Quantities are integers, *)
(* unit costs in 1/100 of a kuruş, values and prices in kuruş.             *)
(***************************************************************************)
LOCAL INSTANCE Integers
LOCAL INSTANCE Sequences
LOCAL INSTANCE FiniteSetsExt
LOCAL INSTANCE SequencesExt
F == INSTANCE Figures

NoDay == -1
Money(n) == F!HalfEven(n, 100)

Held(item, lots)     == {l \in lots : l.item = item.id /\ ~l.deleted}
InStock(lots)        == {l \in lots : ~l.deleted /\ l.remaining > 0}
Quantity(lots)       == F!SumOf(lots, LAMBDA l : l.remaining)
QuantityOnHand(item, lots) == Quantity(Held(item, lots))
LotCost(l)           == l.remaining * l.cost
\* Weighted by quantity; an empty shelf shows the cost of the newest lot,
\* deleted or not.
AverageUnitCost(item, lots) ==
  LET stocked == InStock(Held(item, lots))
      ever    == {l \in lots : l.item = item.id}
      newest  == {l \in ever : \A m \in ever : m.received <= l.received}
  IN IF stocked # {} THEN F!HalfEven(F!SumOf(stocked, LotCost), Quantity(stocked))
     ELSE IF ever = {} THEN 0 ELSE F!One(newest).cost
StockValue(item, lots) == Money(F!SumOf(Held(item, lots), LotCost))
IsBelowMinimum(item, lots) == item.minimum > 0 /\ QuantityOnHand(item, lots) < item.minimum

LotValue(l) == Money(LotCost(l))
\* Each lot is rounded for itself before the sums are made.
StockValuation(lots, categoryOf) ==
  LET stocked == InStock(lots) IN
  [total |-> F!SumOf(stocked, LotValue),
   byCategory |-> [c \in {categoryOf[l.item] : l \in stocked} |->
                     F!SumOf({l \in stocked : categoryOf[l.item] = c}, LotValue)]]
-----------------------------------------------------------------------------
(* Expiry. *)
DaysToExpiry(l, today)   == l.expires - today
IsExpired(l, today)      == l.expires # NoDay /\ DaysToExpiry(l, today) < 0
IsExpiringSoon(l, today) == l.expires # NoDay /\ DaysToExpiry(l, today) \in 0 .. 7
\* In stock and due within some days or overdue, the earliest first.
ExpiringLots(lots, today, days, limit) ==
  LET due == {l \in InStock(lots) : l.expires # NoDay /\ l.expires <= today + days}
      sorted == SetToSortSeq(due, LAMBDA l, m : l.expires < m.expires)
  IN SubSeq(sorted, 1, Min({limit, Len(sorted)}))
LotList(lots, today, onlyExpiring) ==
  InStock(lots) \cap (IF onlyExpiring THEN Range(ExpiringLots(lots, today, 14, 500)) ELSE lots)
-----------------------------------------------------------------------------
(* What to order. *)
\* At least what is missing, the usual quantity if that is more.
Suggestion(item, lots) ==
  LET missing == item.minimum - QuantityOnHand(item, lots)
      order   == Max({missing, item.reorder})
  IN [item |-> item.id, shortfall |-> missing, quantity |-> order,
      cost |-> Money(order * AverageUnitCost(item, lots))]
\* The list is cut in the order of the names and sorted by shortfall after.
ReorderSuggestions(items, lots, limit) ==
  LET low == SelectSeq(items, LAMBDA i : i.active /\ ~i.deleted /\ IsBelowMinimum(i, lots))
      cut == [n \in 1 .. Min({limit, Len(low)}) |-> Suggestion(low[n], lots)]
  IN SortSeq(cut, LAMBDA r, s : r.shortfall > s.shortfall)
StockList(items, lots, onlyLow) ==
  SelectSeq(items, LAMBDA i : ~i.deleted /\ (onlyLow => IsBelowMinimum(i, lots)))

\* Of equally good quotations the one listed first is marked; they are listed
\* by amount.
Best(rows, field) ==
  {n \in DOMAIN rows : \A m \in DOMAIN rows :
     /\ rows[n][field] <= rows[m][field]
     /\ rows[n][field] = rows[m][field] => n <= m}
CompareQuotations(quotations) ==
  LET listed == SetToSortSeq(quotations, LAMBDA q, r : q.amount < r.amount) IN
  [listed |-> listed, cheapest |-> Best(listed, "amount"), fastest |-> Best(listed, "days")]
-----------------------------------------------------------------------------
(* Counts and waste. *)
CountVariance(line) == line.counted - line.system
VarianceValue(line) == Money(CountVariance(line) * line.cost)
TotalVarianceValue(lines) == F!SumOf(lines, VarianceValue)
\* The page lists the entries of one reason under the cost of all of them.
WastageList(entries, reason) ==
  [entries |-> {e \in entries : reason = "" \/ e.reason = reason}, total |-> F!SumOf(entries, LAMBDA e : e.cost)]
=============================================================================
