---------------------------- MODULE MCInventory ----------------------------
(* Two FEFO/FIFO shelves; receipt r1 has two lines of one code and a line  *)
(* with none, r2 brings the code again, an undated lot and a rejected line *)
(* Before the run TLC evaluates the claims about the figures below.        *)
EXTENDS Inventory, FiniteSetsExt, Sequences, TLC
SF == INSTANCE StockFigures

CONSTANTS flour, oil, r1, r2, c1, c2, y1, p1, a

MCReceiptOf   == (1 :> r1) @@ (2 :> r1) @@ (3 :> r2) @@ (4 :> r2)
MCShelfOf     == (1 :> flour) @@ (2 :> flour) @@ (3 :> flour) @@ (4 :> oil)
MCCodeOf      == (1 :> a) @@ (2 :> NoCode) @@ (3 :> a) @@ (4 :> a)
MCExpiryOf    == (1 :> 2) @@ (2 :> 1) @@ (3 :> NoDate) @@ (4 :> NoDate)
MCAccepted    == (1 :> 1) @@ (2 :> 1) @@ (3 :> 1) @@ (4 :> 2)
MCOrderLineOf == (1 :> y1) @@ (2 :> NoLine) @@ (3 :> y1) @@ (4 :> NoLine)
MCQuantityOf  == [S \in SUBSET ReceiptLines |-> MapThenSumSet(LAMBDA x : MCAccepted[x], S)]
MCOrder       == (r1 :> p1) @@ (r2 :> p1)
MCVariance    == [c \in Counts |-> IF c = c1 THEN (flour :> -1) @@ (oil :> 1)
                                             ELSE (flour :> 1) @@ (oil :> -1)]
MCDefault     == (flour :> NoDate) @@ (oil :> 3)
MCOrderOf     == y1 :> p1
MCOrdered     == y1 :> 2
Sym           == Permutations(Clerks)
-----------------------------------------------------------------------------
Shelf(n) == [id |-> n, minimum |-> 3, reorder |-> 2 * n, active |-> TRUE, deleted |-> FALSE]
Batch(n, item, kept, cost, due, deleted) ==
  [id |-> n, item |-> item, remaining |-> kept, cost |-> cost, received |-> n, expires |-> due, deleted |-> deleted]
Batches(item, kept, cost, gone) == {Batch(n, item, kept[n], cost[n], SF!NoDay, n \in gone) : n \in 1 .. 2}

\* The average cost of an item lies between those of its lots in stock, times
\* the quantity it is the value of the stock to the rounding; the warehouse is
\* worth its items to half a kuruş a lot.
ASSUME CostsAreAverages ==
  \A kept \in [1 .. 2 -> 0 .. 3], cost \in [1 .. 2 -> {0, 149, 150, 1000}], gone \in SUBSET (1 .. 2) :
    LET lots == Batches(1, kept, cost, gone)
        stocked == SF!InStock(lots)
        average == SF!AverageUnitCost(Shelf(1), lots)
        exact == MapThenSumSet(SF!LotCost, stocked)
        worth == SF!StockValuation(lots, <<"dry">>).total
    IN /\ stocked # {} => /\ \E l \in stocked : l.cost <= average
                          /\ \E l \in stocked : average <= l.cost
                          /\ 2 * (average * SF!Quantity(stocked) - exact) \in -SF!Quantity(stocked) .. SF!Quantity(stocked)
       /\ stocked = {} => average \in {cost[1], cost[2]}
       /\ (worth - SF!StockValue(Shelf(1), lots)) \in -1 .. 1

\* What is suggested brings an item to its minimum at least; none is suggested
\* twice, and whatever is cut off is short of less only if nothing was cut.
ASSUME SuggestionsSuffice ==
  \A kept \in [1 .. 3 -> 0 .. 4], limit \in 1 .. 3 :
    LET lots == {Batch(n, n, kept[n], 100, SF!NoDay, FALSE) : n \in 1 .. 3}
        items == [n \in 1 .. 3 |-> Shelf(n)]
        list == SF!ReorderSuggestions(items, lots, limit)
        low == SF!StockList(items, lots, TRUE)
    IN /\ \A i \in DOMAIN list :
            /\ kept[list[i].item] < 3 /\ kept[list[i].item] + list[i].quantity >= 3
            /\ \A j \in DOMAIN list : i < j => list[i].item # list[j].item /\ list[i].shortfall >= list[j].shortfall
       /\ Len(list) = IF limit < Len(low) THEN limit ELSE Len(low)
       /\ {list[i].item : i \in DOMAIN list} = {low[i].id : i \in 1 .. Len(list)}

\* A lot that is expired or expires within a week is among the warnings of a
\* week, unless it is empty or deleted; the earliest comes first.
ASSUME ExpiringAreWarned ==
  \A kept \in [1 .. 3 -> 0 .. 1], due \in [1 .. 3 -> {SF!NoDay, 8, 10, 17, 18}] :
    LET lots == {Batch(n, 1, kept[n], 1, due[n], n = 3) : n \in 1 .. 3}
        list == SF!ExpiringLots(lots, 10, 7, 100)
    IN /\ {list[i] : i \in DOMAIN list} =
            {l \in SF!InStock(lots) : SF!IsExpired(l, 10) \/ SF!IsExpiringSoon(l, 10)}
       /\ \A i, j \in DOMAIN list : i < j => list[i].expires <= list[j].expires
       /\ \A l \in lots : ~(SF!IsExpired(l, 10) /\ SF!IsExpiringSoon(l, 10))

\* Exactly one quotation is marked cheapest and one fastest, and the cheapest
\* is the first of the list.
ASSUME OneBestQuotation ==
  \A amount \in [1 .. 3 -> 1 .. 2], days \in [1 .. 3 -> 1 .. 3] :
    LET c == SF!CompareQuotations({[id |-> n, amount |-> amount[n], days |-> days[n]] : n \in 1 .. 3}) IN
    /\ c.cheapest = {1}
    /\ \E n \in 1 .. 3 : c.fastest = {n} /\ \A m \in 1 .. 3 : c.listed[n].days <= days[m]

\* The value of a count is that of what was found less that of what was booked,
\* to half a kuruş a line.
ASSUME VariancesAreValued ==
  \A counted, booked \in [1 .. 2 -> 0 .. 3], cost \in {1, 50, 149} :
    LET lines == {[item |-> n, counted |-> counted[n], system |-> booked[n], cost |-> cost] : n \in 1 .. 2}
        exact == cost * (counted[1] + counted[2] - booked[1] - booked[2])
    IN (100 * SF!TotalVarianceValue(lines) - exact) \in -100 .. 100
=============================================================================
