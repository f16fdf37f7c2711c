------------------------------ MODULE Reports ------------------------------
(***************************************************************************)
(* The figures of the reports (reporting/reports.py), who may read and     *)
(* export them, and how they are printed.  Rows come from the database as  *)
(* sets of records; a table is the set of its rows and their totals.       *)
(* Titles, columns and sorting within a table are left out.  What the      *)
(* reports show while bills are paid and days closed is in DayEnd.         *)
(***************************************************************************)
LOCAL INSTANCE Integers
LOCAL INSTANCE FiniteSets
LOCAL INSTANCE FiniteSetsExt
F == INSTANCE Figures

Table(rows, totals) == [rows |-> rows, totals |-> totals]
InPeriod(p, day) == p.start <= day /\ day <= p.end
Within(p, rows)  == {r \in rows : InPeriod(p, r.day)}
\* Lines the sales reports count: not voided, of a paid order.
SoldLines(p, lines) == {l \in Within(p, lines) : ~l.voided /\ l.paid}
Quantity(lines) == F!SumOf(lines, LAMBDA l : l.quantity)
Revenue(lines)  == F!SumOf(lines, LAMBDA l : l.quantity * l.price)
Cost(lines)     == F!SumOf(lines, LAMBDA l : l.quantity * l.cost)
-----------------------------------------------------------------------------
(* The registry and the access to it. *)
MayView(user, report) == report.permission = "" \/ user.superuser \/ report.permission \in user.permissions
AvailableReports(user, registry) == {r \in registry : MayView(user, r)}
MayExport(user, report) ==
  MayView(user, report) /\ (user.superuser \/ "reporting.can_export_report" \in user.permissions)

\* A missing or unreadable date falls back to the last 30 days; a period given
\* backwards is turned round.
NoDate == -1
ParsePeriod(today, start, end) ==
  LET s == IF start = NoDate THEN today - 29 ELSE start
      e == IF end = NoDate THEN today ELSE end
  IN [start |-> Min({s, e}), end |-> Max({s, e})]

\* A report read on screen leaves a run behind, and the first one its definition;
\* an export leaves them only if the format is known.
Formats == {"csv", "xlsx", "excel", "pdf"}
ViewReport(user, report, runs) ==
  IF MayView(user, report) THEN runs \cup {[report |-> report.code, by |-> user.name, format |-> "html"]} ELSE runs
ExportReport(user, report, format, runs) ==
  IF MayExport(user, report) /\ format \in Formats
  THEN runs \cup {[report |-> report.code, by |-> user.name,
                   format |-> IF format = "excel" THEN "xlsx" ELSE format]}
  ELSE runs

\* A figure as it is printed: two places, and which mark parts thousands.
FormatDecimal(n, d, language) ==
  [kurus |-> F!HalfUp(100 * n, d),
   thousands |-> IF language = "tr" THEN "." ELSE ",", fraction |-> IF language = "tr" THEN "," ELSE "."]
-----------------------------------------------------------------------------
(* Sales. *)
WineSales(s) == s.bottleSales + s.glassSales
SnapshotRow(s) ==
  [day |-> s.day, check |-> F!Quotient(s.net, s.orders), guest |-> F!Quotient(s.net, s.guests),
   wine |-> WineSales(s), share |-> F!Percent(WineSales(s), s.net),
   margin |-> F!Percent(s.net - s.cost, s.net)]
DailySalesTable(p, snapshots) ==
  LET days == Within(p, snapshots)
      net  == F!SumOf(days, LAMBDA s : s.net)
      wine == F!SumOf(days, WineSales)
  IN Table({SnapshotRow(s) : s \in days},
       [net |-> net, wine |-> wine,
        check  |-> F!Quotient(net, F!SumOf(days, LAMBDA s : s.orders)),
        guest  |-> F!Quotient(net, F!SumOf(days, LAMBDA s : s.guests)),
        share  |-> F!Percent(wine, net),
        margin |-> F!Percent(net - F!SumOf(days, LAMBDA s : s.cost), net)])

\* The totals are those of the rows shown, not of the period.
ProductSalesTable(p, lines, limit) ==
  LET shown == F!Top({[item |-> F!One(g).item, quantity |-> Quantity(g), gross |-> Revenue(g)] :
                        g \in F!Groups(SoldLines(p, lines), LAMBDA l : l.item)}, LAMBDA r : r.gross, limit)
  IN Table(shown, [quantity |-> F!SumOf(shown, LAMBDA r : r.quantity), gross |-> F!SumOf(shown, LAMBDA r : r.gross)])

Commission(amount, percent) == F!HalfEven(amount * percent, 10000)
PaymentTable(p, payments) ==
  LET row(g) == LET amount == F!SumOf(g, LAMBDA y : y.amount)
                    fee    == Commission(amount, F!One(g).commission)
                IN [method |-> F!One(g).method, count |-> Cardinality(g), amount |-> amount,
                    tips |-> F!SumOf(g, LAMBDA y : y.tip), commission |-> fee, net |-> amount - fee]
      rows == {row(g) : g \in F!Groups({y \in Within(p, payments) : ~y.voided}, LAMBDA y : y.method)}
      sum(field) == F!SumOf(rows, LAMBDA r : r[field])
  IN Table(rows, [count |-> sum("count"), amount |-> sum("amount"), tips |-> sum("tips"),
                  commission |-> sum("commission"), net |-> sum("amount") - sum("commission")])

\* Eight weeks of the same weekday before the period; no sample, no forecast.
Forecast(p, snapshots) ==
  LET past(day) == {s \in snapshots : p.start - 56 <= s.day /\ s.day < p.start /\ s.day % 7 = day % 7}
      nets(day) == {s.net : s \in past(day)}
  IN [day \in p.start .. p.end |->
        [samples |-> Cardinality(past(day)),
         average |-> F!Quotient(F!SumOf(past(day), LAMBDA s : s.net), Cardinality(past(day))),
         lowest  |-> IF nets(day) = {} THEN 0 ELSE Min(nets(day)),
         highest |-> IF nets(day) = {} THEN 0 ELSE Max(nets(day))]]
Abs(n) == IF n < 0 THEN -n ELSE n
ForecastError(predicted, actual) == F!Percent(Abs(predicted - actual), actual)   \* none where actual is 0
-----------------------------------------------------------------------------
(* Wine. *)
GlassCost(w) == F!HalfEven(w.purchase * w.pour, w.size)
WineProfitability(p, lines, wines, limit) ==
  LET row(g) ==
        LET w == CHOOSE w \in wines : w.id = F!One(g).wine
            bottles == Quantity({l \in g : l.unit = "bottle"})
            glasses == Quantity({l \in g : l.unit = "glass"})
            cost    == bottles * w.purchase + glasses * GlassCost(w)
        IN [wine |-> w.id, bottles |-> bottles, glasses |-> glasses, revenue |-> Revenue(g), cost |-> cost,
            margin |-> Revenue(g) - cost, percent |-> F!Percent(Revenue(g) - cost, Revenue(g))]
      wineLines == {l \in SoldLines(p, lines) : l.wine # ""}
      shown == F!Top({row(g) : g \in F!Groups(wineLines, LAMBDA l : l.wine)}, LAMBDA r : r.margin, limit)
      sum(field) == F!SumOf(shown, LAMBDA r : r[field])
  IN Table(shown, [revenue |-> sum("revenue"), cost |-> sum("cost"), margin |-> sum("margin")])

\* Millilitres sold and lost of each bottle opened.
GlassVersusBottle(p, openings) ==
  {LET ml(types) == F!SumOf({c \in o.pours : c.type \in types}, LAMBDA c : c.ml) IN
   [id |-> o.id, expected |-> o.expected, actual |-> o.glasses,
    sale |-> ml({"glass_sale"}), waste |-> ml({"spillage", "waste"}), yield |-> o.yield] :
     o \in Within(p, openings)}

CellarValuation(wines, limit) ==
  LET row(w) == [wine |-> w.id, bottles |-> w.bottles, cost |-> w.value,
                 retail |-> w.bottles * w.price, profit |-> w.bottles * w.price - w.value]
      shown == F!Top({row(w) : w \in {w \in wines : w.active /\ w.bottles # 0}}, LAMBDA r : r.retail, limit)
      sum(field) == F!SumOf(shown, LAMBDA r : r[field])
  IN Table(shown, [bottles |-> sum("bottles"), cost |-> sum("cost"), retail |-> sum("retail"), profit |-> sum("profit")])
-----------------------------------------------------------------------------
(* Stock, tables, staff, menu, AI. *)
\* The total of the shares is printed as 100 whatever they add up to.
WasteAnalysis(p, entries) ==
  LET all    == F!SumOf(Within(p, entries), LAMBDA e : e.cost)
      row(g) == LET cost == F!SumOf(g, LAMBDA e : e.cost)
                IN [reason |-> F!One(g).reason, count |-> Cardinality(g), cost |-> cost, share |-> F!Percent(cost, all)]
  IN Table({row(g) : g \in F!Groups(Within(p, entries), LAMBDA e : e.reason)}, [cost |-> all, share |-> 10000])

StockValuation(items, limit) ==
  LET held  == {i \in items : i.active /\ i.quantity > 0}
      shown == F!Top({[code |-> i.code, value |-> i.value, below |-> i.minimum > 0 /\ i.quantity < i.minimum] : i \in held},
                     LAMBDA r : r.value, limit)
  IN Table(shown, [value |-> F!SumOf(shown, LAMBDA r : r.value)])

TableTurnover(p, snapshots) ==
  {[day |-> s.day, turns |-> s.turns, noShow |-> F!Percent(s.noShows, s.reservations)] : s \in Within(p, snapshots)}

StaffTable(p, orders, lines) ==
  LET paid == {o \in Within(p, orders) : o.paid /\ ~o.deleted}
      withWine(server) == {l.order : l \in {l \in SoldLines(p, lines) : l.wine # "" /\ l.server = server}}
      row(g) == LET server == F!One(g).server  revenue == F!SumOf(g, LAMBDA o : o.total)
                IN [server |-> server, orders |-> Cardinality(g), revenue |-> revenue,
                    average |-> F!Quotient(revenue, Cardinality(g)),
                    wine |-> Cardinality(withWine(server)),
                    attach |-> F!Percent(Cardinality(withWine(server)), Cardinality(g))]
      rows == {row(g) : g \in F!Groups(paid, LAMBDA o : o.server)}
  IN Table(rows, [orders |-> F!SumOf(rows, LAMBDA r : r.orders), revenue |-> F!SumOf(rows, LAMBDA r : r.revenue)])

\* Four quadrants: popular is at least 70 % of an even share of the quantity
\* sold, profitable at least the average contribution.
MenuEngineering(p, lines) ==
  LET items == F!Groups(SoldLines(p, lines), LAMBDA l : l.item)
      n     == Cardinality(items)
      gain(g) == Revenue(g) - Cost(g)
      popularity(g) == F!Percent(Quantity(g), Quantity(SoldLines(p, lines)))
      popular(g)    == popularity(g) * n >= 7000
      profitable(g) == gain(g) * n >= F!SumOf(items, gain)
      quadrant(g) == CASE popular(g) /\ profitable(g)   -> "star"
                       [] popular(g) /\ ~profitable(g)  -> "plough horse"
                       [] ~popular(g) /\ profitable(g)  -> "puzzle"
                       [] OTHER                         -> "dog"
  IN {[item |-> F!One(g).item, gain |-> gain(g), popularity |-> popularity(g), quadrant |-> quadrant(g)] : g \in items}

AIUsage(p, calls) ==
  LET row(g) == [key |-> <<F!One(g).provider, F!One(g).feature, F!One(g).local>>, count |-> Cardinality(g),
                 tokens |-> F!SumOf(g, LAMBDA c : c.prompt + c.completion), cost |-> F!SumOf(g, LAMBDA c : c.cost),
                 latency |-> F!SumOf(g, LAMBDA c : c.latency) \div Cardinality(g)]
      rows == {row(g) : g \in F!Groups(Within(p, calls), LAMBDA c : <<c.provider, c.feature, c.local>>)}
  IN Table(rows, [count |-> F!SumOf(rows, LAMBDA r : r.count), tokens |-> F!SumOf(rows, LAMBDA r : r.tokens),
                  cost |-> F!SumOf(rows, LAMBDA r : r.cost)])
=============================================================================
