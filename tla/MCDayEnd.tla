------------------------------ MODULE MCDayEnd ------------------------------
(* Two orders and two lines, one of them on a seat and one for the kitchen, *)
(* over two dates: 1.250 at 0.30 and 0.750 at 0.49, with 10 % tax and a 10 % *)
(* service charge.  No line is a whole number of hundredths, and the bills  *)
(* of one line are a hundredth apart.  The figures of the reports are       *)
(* checked on all small tables.                                             *)
EXTENDS DayEnd, FiniteSetsExt, TLC

CONSTANTS l1, l2, kitchen

MCSeat    == [l \in Lines |-> IF l = l1 THEN 1 ELSE NoSeat]
MCStation == [l \in Lines |-> IF l = l2 THEN kitchen ELSE NoStation]
Rows      == Permutations(Orders) \cup Permutations(Managers)

Fig == INSTANCE Figures
Quantity(l)   == IF l = l1 THEN 1250 ELSE 750
UnitPrice(l)  == IF l = l1 THEN 30 ELSE 49
Gross(l)      == Fig!HalfEven(Quantity(l) * UnitPrice(l), 1000)
TaxAmount(l)  == Fig!HalfEven(Gross(l) * 10, 100)
Sums(value(_)) == [S \in SUBSET Lines |-> MapThenSumSet(value, S)]
MCSubtotal    == Sums(Gross)
MCService     == [S \in SUBSET Lines |-> Fig!HalfEven(MCSubtotal[S] * 10, 100)]
MCTax         == Sums(TaxAmount)
MCLineTotals  == Sums(LAMBDA l : Gross(l) + TaxAmount(l))
MCTurnover    == Sums(LAMBDA l : Quantity(l) * UnitPrice(l))
MCTotal       == [S \in SUBSET Lines |-> MCSubtotal[S] + MCService[S] + MCTax[S]]
\* Two managers at once work on the first day, and one of them holds it open.
SameDay ==
  (\A m \in Managers : desk[m] # Idle) =>
    /\ \A m \in Managers : desk[m].day = 1
    /\ \E m \in Managers : desk[m].status = "open"
-----------------------------------------------------------------------------
R == INSTANCE Reports
Period == [start |-> 1, end |-> 9]

\* Rounding is off by half at most, and goes either way at a tie.
ASSUME RoundingIsNear ==
  \A n \in -12 .. 12, d \in 1 .. 6 :
    LET even == Fig!HalfEven(n, d)  up == Fig!HalfUp(n, d) IN
    /\ 2 * R!Abs(even * d - n) <= d /\ 2 * R!Abs(up * d - n) <= d
    /\ 2 * R!Abs(even * d - n) = d => even % 2 = 0
    /\ Fig!HalfUp(-n, d) = -up

\* The average of a period lies between those of its days, whatever the number
\* of orders of each.
Snapshot(day, orders, net) ==
  [day |-> day, orders |-> orders, guests |-> orders, net |-> net, cost |-> net \div 3,
   bottleSales |-> net \div 2, glassSales |-> 0]
ASSUME AveragesLieBetween ==
  \A a, b \in 1 .. 3, x, y \in {0, 1, 5, 7} :
    LET t == R!DailySalesTable(Period, {Snapshot(1, a, x), Snapshot(2, b, y)})
        checks == {r.check : r \in t.rows}
    IN Min(checks) <= t.totals.check /\ t.totals.check <= Max(checks)

\* Lines of three items on two days, of two servers; one of them may be voided.
Line(item, n, price, voided) ==
  [item |-> item, order |-> item, server |-> IF item = 1 THEN "a" ELSE "b", day |-> item, quantity |-> n,
   price |-> price, cost |-> 1, paid |-> TRUE, voided |-> voided, unit |-> "glass", wine |-> "w"]
SomeLines ==
  {{Line(1, a, 3, FALSE), Line(2, b, 2, v), Line(3, c, d, FALSE)} :
     a, b, c \in 1 .. 3, d \in {1, 9}, v \in BOOLEAN}

\* In the menu matrix some item is profitable and some is popular, and what sells
\* and earns no less than a star is one.
ASSUME MenuMatrixIsBalanced ==
  \A lines \in SomeLines :
    LET menu == R!MenuEngineering(Period, lines) IN
    /\ \E r \in menu : r.quadrant \in {"star", "puzzle"}
    /\ \E r \in menu : r.quadrant \in {"star", "plough horse"}
    /\ \A r, s \in menu : r.gain >= s.gain /\ r.popularity >= s.popularity /\ s.quadrant = "star" => r.quadrant = "star"

\* The profit shown is revenue less cost, row by row and in total; the product
\* report shows the same revenue when nothing is cut off, and a total of what
\* it shows when the list is cut.
Wines == {[id |-> "w", purchase |-> 7, pour |-> 150, size |-> 750]}
ASSUME ProfitAddsUp ==
  \A lines \in SomeLines, limit \in 1 .. 3 :
    LET wine    == R!WineProfitability(Period, lines, Wines, limit)
        product == R!ProductSalesTable(Period, lines, limit)
    IN /\ wine.totals.margin = wine.totals.revenue - wine.totals.cost
       /\ wine.totals.revenue >= product.totals.gross
       /\ Cardinality(product.rows) <= limit
       /\ limit = 3 => wine.totals.revenue = product.totals.gross

\* Shares of waste add up to a hundred but for the rounding of each.
Waste(reason, cost) == [reason |-> reason, day |-> 2, cost |-> cost]
ASSUME SharesAddUp ==
  \A a, b, c \in {1, 2, 7} :
    LET t == R!WasteAnalysis(Period, {Waste("x", a), Waste("y", b), Waste("z", c)})
    IN 2 * R!Abs(Fig!SumOf(t.rows, LAMBDA r : r.share) - t.totals.share) <= Cardinality(t.rows)

\* What is paid out and what is kept is what was taken.
Paid(id, method, amount) ==
  [id |-> id, method |-> method, day |-> id, amount |-> amount, tip |-> 1, commission |-> 250, voided |-> amount = 9]
ASSUME CommissionIsPart ==
  \A a, b, c \in {1, 20, 50, 9} :
    LET t == R!PaymentTable(Period, {Paid(1, "card", a), Paid(2, "card", b), Paid(3, "cash", c)}) IN
    /\ t.totals.net = Fig!SumOf(t.rows, LAMBDA r : r.net)
    /\ \A r \in t.rows : 0 <= r.commission /\ r.commission <= r.amount

\* A forecast lies within its sample, looks at no day of the period itself, and
\* is 0 without a sample.
ASSUME ForecastIsWithinSample ==
  \A x, y \in {0, 3, 8}, start \in {60, 61} :
    LET past == {Snapshot(start - 7, 1, x), Snapshot(start - 14, 1, y), Snapshot(start, 1, 99)}
        f == R!Forecast([start |-> start, end |-> start + 7], past)
    IN \A day \in DOMAIN f :
         /\ f[day].lowest <= f[day].average /\ f[day].average <= f[day].highest /\ f[day].highest < 99
         /\ f[day].samples = 0 <=> day % 7 # start % 7

\* Nobody exports what he may not view, and a run is kept of every export.
Report == [code |-> "r", permission |-> "p"]
Users == [name : {"u"}, superuser : BOOLEAN, permissions : SUBSET {"p", "reporting.can_export_report"}]
ASSUME ExportsAreViewable ==
  \A u \in Users, format \in R!Formats \cup {"doc"} :
    LET runs == R!ExportReport(u, Report, format, {}) IN
    /\ runs # {} => R!MayView(u, Report) /\ R!AvailableReports(u, {Report}) = {Report}
    /\ runs # {} <=> R!MayExport(u, Report) /\ format # "doc"
ASSUME PeriodsAreForward ==
  \A start, end \in {R!NoDate, 1, 40, 90} :
    LET p == R!ParsePeriod(60, start, end) IN p.start <= p.end
=============================================================================
