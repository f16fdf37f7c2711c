------------------------------- MODULE DayEnd -------------------------------
(***************************************************************************)
(* The end of the business day: closing a day sums up the orders opened on *)
(* its date and freezes the figures twice, in the BusinessDay row and in   *)
(* the DailySalesSnapshot the reports read.                                *)
(*                                                                         *)
(* Composed with Orders: the waiters' services go on at any time, over     *)
(* midnight and after a day was closed.  The view loads the BusinessDay    *)
(* before the transaction of close_business_day, as with orders.  A sum    *)
(* over orders is kept as the function that is summed.                     *)
(*                                                                         *)
(* The reports do not sum one column: the amounts of a bill are columns of *)
(* its order, written by recalculate() and read later, or amounts of its   *)
(* lines, computed when they are read.                                     *)
(***************************************************************************)
EXTENDS Orders

CONSTANTS
  Managers,      \* threads serving requests to close a day
  LastDay,       \* bound: dates 1 .. LastDay are lived through
  Subtotal,      \* of a set of lines: sum of gross_amount, of hundredths each
  Service,       \*   the service charge, a percentage of the subtotal
  Tax,           \*   sum of tax_amount
  LineTotals,    \*   sum of total_amount
  Turnover       \*   sum of quantity * unit_price, in thousandths of a hundredth

Distance(x, y) == IF x < y THEN y - x ELSE x - y

ASSUME DayAssumption == LastDay \in Nat \ {0}
\* recalculate() and OrderLine.total_amount add amounts that are rounded already;
\* rounding a line to hundredths moves it by half of one at most.  No line is
\* discounted: apply_discount has no caller.
ASSUME ColumnsAssumption ==
  \A S \in SUBSET Lines :
    /\ {Subtotal[S], Service[S], Tax[S], LineTotals[S], Turnover[S]} \subseteq Nat
    /\ Total[S] = Subtotal[S] + Service[S] + Tax[S]
    /\ LineTotals[S] = Subtotal[S] + Tax[S]
    /\ 2 * Distance(Turnover[S], 1000 * Subtotal[S]) <= 1000 * Cardinality(S)

Days  == 1 .. LastDay
NoDay == 0

VARIABLES
  today,         \* the local date
  openedOn,      \* date of Order.opened_at
  dayStatus,     \* BusinessDay.status; "none" before the row exists
  summary,       \* figures frozen in the BusinessDay
  snapshot,      \* figures frozen in the DailySalesSnapshot
  desk           \* copy of a business day held by a manager's request

dayVars == <<dayStatus, summary, snapshot, desk>>
allVars == <<vars, today, openedOn, dayVars>>

OpenedOn(d)   == {o \in Orders : openedOn[o] = d}
PaidSoFar(d)  == {o \in Orders : openedOn[o] <= d /\ status[o] = "paid"}  \* mutant of PaidOf
PaidOf(d)     == {o \in OpenedOn(d) : status[o] = "paid"}
ReportedLines(o) == LinesOf(o)

\* Columns of an order beside grand_total.
TaxTotal(o)      == Tax[billed[o]]
ServiceCharge(o) == Service[billed[o]]

\* The figures of the BusinessDay row, from the columns of the paid orders, and
\* those of the DailySalesSnapshot: copied from it, the service charge, the
\* lines whose total_amount is summed by category, and the voided orders.
TaxIncluded(d) ==                                          \* mutant of NetSales
  [o \in PaidOf(d) |-> total[o]]
NetSales(d)    == [o \in PaidOf(d) |-> total[o] - TaxTotal(o)]
SummaryOf(d)   == [net |-> NetSales(d), tax |-> [o \in PaidOf(d) |-> TaxTotal(o)]]
SnapshotOf(d)  ==
  [net |-> SummaryOf(d).net, service |-> [o \in PaidOf(d) |-> ServiceCharge(o)],
   lines |-> [o \in PaidOf(d) |-> ReportedLines(o)],
   voided |-> {o \in OpenedOn(d) : status[o] = "void"}]
NoSummary      == [net |-> [o \in {} |-> 0], tax |-> [o \in {} |-> 0]]
NoSnapshot     == [net |-> [o \in {} |-> 0], service |-> [o \in {} |-> 0],
                   lines |-> [o \in {} |-> {}], voided |-> {}]

DayTypeOK ==
  /\ TypeOK
  /\ today \in Days
  /\ openedOn \in [Orders -> Days \cup {NoDay}]
  /\ dayStatus \in [Days -> {"none", "open", "closed"}]
  /\ \A d \in Days : \E S \in SUBSET Orders :
       /\ summary[d] \in [net : [S -> Nat], tax : [S -> Nat]]
       /\ snapshot[d] \in [net : [S -> Nat], service : [S -> Nat],
                           lines : [S -> SUBSET Lines], voided : SUBSET Orders]
  /\ desk \in [Managers -> [day : Days, status : {"open", "closed"}] \cup {Idle}]

DayInit ==
  /\ Init
  /\ today = 1
  /\ openedOn = [o \in Orders |-> NoDay]
  /\ dayStatus = [d \in Days |-> "none"]
  /\ summary = [d \in Days |-> NoSummary]
  /\ snapshot = [d \in Days |-> NoSnapshot]
  /\ desk = [m \in Managers |-> Idle]
-----------------------------------------------------------------------------
\* Any order service.  Rows it creates, the children of a split included, are
\* opened today.
OrderService ==
  /\ Next
  /\ openedOn' = [o \in Orders |->
       IF status[o] = "none" /\ status'[o] # "none" THEN today ELSE openedOn[o]]
  /\ UNCHANGED <<today, dayVars>>

Midnight ==
  /\ today < LastDay
  /\ today' = today + 1
  /\ UNCHANGED <<vars, openedOn, dayVars>>

GetOrOpenBusinessDay ==
  /\ dayStatus[today] = "none"
  /\ dayStatus' = [dayStatus EXCEPT ![today] = "open"]
  /\ UNCHANGED <<vars, today, openedOn, summary, snapshot, desk>>

LoadDay(m, d) ==
  /\ desk[m] = Idle /\ dayStatus[d] # "none"
  /\ desk' = [desk EXCEPT ![m] = [day |-> d, status |-> dayStatus[d]]]
  /\ UNCHANGED <<vars, today, openedOn, dayStatus, summary, snapshot>>

HoldsDay(m)     == desk[m] # Idle                                   \* mutant of HoldsOpenDay
HoldsOpenDay(m) == desk[m] # Idle /\ desk[m].status # "closed"
AllClosed(d)    == \A o \in OpenedOn(d) : ~IsOpen(o)

\* Freezes the day held in the copy.
CloseBusinessDay(m) ==
  LET d == desk[m].day IN
  /\ HoldsOpenDay(m) /\ AllClosed(d)
  /\ summary' = [summary EXCEPT ![d] = SummaryOf(d)]
  /\ snapshot' = [snapshot EXCEPT ![d] = SnapshotOf(d)]
  /\ dayStatus' = [dayStatus EXCEPT ![d] = "closed"]
  /\ desk' = [desk EXCEPT ![m] = Idle]
  /\ UNCHANGED <<vars, today, openedOn>>

\* "Day already closed" or "orders not closed".
RefuseClose(m) ==
  /\ desk[m] # Idle
  /\ desk[m].status = "closed" \/ ~AllClosed(desk[m].day)
  /\ desk' = [desk EXCEPT ![m] = Idle]
  /\ UNCHANGED <<vars, today, openedOn, dayStatus, summary, snapshot>>
-----------------------------------------------------------------------------
DayNext ==
  \/ OrderService
  \/ Midnight
  \/ GetOrOpenBusinessDay
  \/ \E m \in Managers, d \in Days : LoadDay(m, d)
  \/ \E m \in Managers : CloseBusinessDay(m) \/ RefuseClose(m)

DaySpec == DayInit /\ [][DayNext]_allVars
-----------------------------------------------------------------------------
(* The reports of a date.  The daily list reads the frozen row: its sales   *)
(* by category are with tax, its net sales without.  The product and the    *)
(* staff report read the lines and the orders as they are now.              *)
DailySales(d)       == [net |-> snapshot[d].net, byCategory |->
                          [o \in DOMAIN snapshot[d].lines |-> LineTotals[snapshot[d].lines[o]]]]
ProductSales(d)     == [o \in PaidOf(d) |-> Turnover[ReportedLines(o)]]
StaffPerformance(d) == [o \in PaidOf(d) |-> total[o]]

Summed(d) == DOMAIN summary[d].net

\* The two frozen tables tell the same of every bill, though one sums columns
\* of orders and the other amounts of lines: the sales by category, with the
\* service charge, are the net sales and the tax collected.
FrozenReportsAgree ==
  \A d \in Days :
    /\ DOMAIN DailySales(d).byCategory = Summed(d)
    /\ \A o \in Summed(d) :
         /\ DailySales(d).net[o] = summary[d].net[o]
         /\ DailySales(d).byCategory[o] + snapshot[d].service[o]
              = summary[d].net[o] + summary[d].tax[o]

\* The live reports tell the same at any moment, between any two steps of the
\* waiters: what the staff turned over, less tax and service charge, is what the
\* products brought, to half a hundredth for every line.
LiveReportsAgree ==
  \A d \in Days : \A o \in PaidOf(d) :
    LET products == StaffPerformance(d)[o] - TaxTotal(o) - ServiceCharge(o)
    IN 2 * Distance(ProductSales(d)[o], 1000 * products) <= 1000 * Cardinality(LinesOf(o))

\* Whichever reports the owner lays side by side, they differ by tax, service
\* charge and rounding, and by nothing else.
ReportAddsUp == FrozenReportsAgree /\ LiveReportsAgree

\* No bill and no line is sold on two days, however bills are split over
\* midnight: a line of a closed day is not reported by another one.
SoldOnce ==
  \A d, e \in Days : d # e =>
    \A o \in Summed(d), p \in Summed(e) :
      o # p /\ snapshot[d].lines[o] \cap snapshot[e].lines[p] = {}

\* The figures of a closed day are frozen for good once no manager holds a copy
\* of it from before it was closed.  A manager who does can still close it a
\* second time, over the figures of the first; that forgets no bill of them but
\* those voided meanwhile.
HeldOver(d) == \E m \in Managers : desk[m] # Idle /\ desk[m].day = d /\ desk[m].status # "closed"
Frozen(d)   == dayStatus[d] = "closed" /\ ~HeldOver(d)
FrozenAtClose ==
  [][\A d \in Days :
       /\ Frozen(d) => Frozen(d)' /\ summary'[d] = summary[d] /\ snapshot'[d] = snapshot[d]
       /\ \A o \in Summed(d) \ Summed(d)' : status[o] = "void"]_allVars

\* A closed day misses no bill: every paid order of its date is in its summary.
ClosedDayIsComplete ==
  \A d \in Days : dayStatus[d] = "closed" => PaidOf(d) \subseteq Summed(d)
=============================================================================
