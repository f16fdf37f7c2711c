------------------------------- MODULE Orders -------------------------------
(***************************************************************************)
(* The order ("adisyon") life cycle of apps/operations: opening a table,   *)
(* adding lines, sending preparation tickets, serving, splitting, paying   *)
(* and voiding.                                                            *)
(*                                                                         *)
(* Every service function runs in one transaction, and SQLite is opened    *)
(* with transaction_mode IMMEDIATE, so a service is one atomic step.  But  *)
(* the REST view loads the order (get_object) BEFORE that transaction      *)
(* starts, and the service then reads status, total and table status from  *)
(* the loaded Python object.  A terminal therefore takes two steps: Load   *)
(* copies the row, and the service acts later on the copy, which may be    *)
(* stale.  Lines, tickets and payments are queried inside the transaction. *)
(***************************************************************************)
EXTENDS Integers, FiniteSets

CONSTANTS
  Orders, Lines, Tickets, Tables, Reservations,  \* row identifiers
  Terminals,     \* threads serving requests that hold an Order instance
  Screens,       \* threads serving requests that hold a PrepTicket instance
  NoTable, NoReservation, NoOrder, NoTicket, Idle,
  SeatOf,        \* seat number a line is entered with, or NoSeat
  NoSeat,
  StationOf,     \* (station, course) pair a line is prepared at, or NoStation
  NoStation,
  Total,         \* grand total recalculate() computes for a set of lines
  AskedStatus,   \* ticket statuses that bump requests name in their body
  Amounts,       \* payment amounts, in hundredths
  PayBound,      \* bound: an order's recorded payments do not exceed this
  MaxInFlight    \* bound: requests served at the same time

TWO_PLACES == 1                     \* Decimal("0.01")

ASSUME AmountsAssumption  == Amounts \subseteq Int /\ PayBound \in Nat
ASSUME AskedAssumption    == AskedStatus \subseteq {"queued", "preparing", "ready",
                                                   "served", "cancelled"}
ASSUME TotalAssumption    == Total \in [SUBSET Lines -> Nat]
\* No line has a negative amount: more lines never cost less.
ASSUME MonotoneAssumption ==
  \A S, T \in SUBSET Lines : S \subseteq T => Total[S] <= Total[T]
ASSUME SentinelAssumption ==
  /\ NoOrder \notin Orders /\ NoTicket \notin Tickets
  /\ NoTable \notin Tables /\ NoReservation \notin Reservations
ASSUME ThreadsAssumption  == IsFiniteSet(Terminals) /\ IsFiniteSet(Screens)

OPEN_STATUSES  == {"open", "sent", "served", "billed"}
CLOSED         == {"paid", "void"}
OrderStatus    == OPEN_STATUSES \cup CLOSED
TicketStatus   == {"queued", "preparing", "ready", "served", "cancelled"}
TableStatus    == {"free", "reserved", "seated", "ordered", "served",
                   "bill_requested", "cleaning", "out_of_service"}
ReservationStatus == {"pending", "confirmed", "seated", "completed",
                      "cancelled", "no_show"}

VARIABLES
  status,        \* Order.status; "none" before the row exists
  table,         \* Order.table
  reservation,   \* Order.reservation
  parent,        \* Order.parent_order
  billed,        \* lines recalculate() last took the order's amount columns from
  paid,          \* sum of the order's payments (Order.amount_paid)
  lineOrder,     \* OrderLine.order
  sent,          \* lines whose sent_at is set
  ticketOrder,   \* PrepTicket.order
  ticketStatus,  \* PrepTicket.status
  ticketLines,   \* lines printed on the ticket (PrepTicketLine)
  tableStatus,   \* DiningTable.status
  resStatus,     \* Reservation.status
  pos,           \* copy of an order held by a terminal
  kds            \* copy of a ticket held by a screen

orderVars  == <<status, table, reservation, parent, billed, paid>>
lineVars   == <<lineOrder, sent>>
ticketVars == <<ticketOrder, ticketStatus, ticketLines>>
roomVars   == <<tableStatus, resStatus>>
vars == <<orderVars, lineVars, ticketVars, roomVars, pos, kds>>

OrderCopy  == [order : Orders, status : OrderStatus, total : Nat, seated : BOOLEAN]
TicketCopy == [ticket : Tickets, status : TicketStatus, order : Orders]

LinesOf(o)    == {l \in Lines : lineOrder[l] = o}
TicketsOf(o)  == {k \in Tickets : ticketOrder[k] = o}
\* The amounts of an order are columns of its row, written when recalculate()
\* runs: grand_total here, the others in module DayEnd.
total == [o \in Orders |-> Total[billed[o]]]
RecalcFirst(o, S) == [billed EXCEPT ![o] = LinesOf(o)]            \* mutant of Recalc
Recalc(o, S)      == [billed EXCEPT ![o] = S]
KeepStatus(o, copied) == status                                  \* mutant of AfterSend
AfterSend(o, copied)  == IF copied = "open" THEN [status EXCEPT ![o] = "sent"] ELSE status
Created       == {o \in Orders : status[o] # "none"}
NewOrders     == Orders \ Created
NewTickets    == {k \in Tickets : ticketOrder[k] = NoOrder}
IsOpen(o)     == status[o] \in OPEN_STATUSES
OpenOn(t)     == {o \in Orders : table[o] = t /\ IsOpen(o)}
DueOnBill(tot, p) == tot                                         \* mutant of AmountDue
AmountDue(tot, p) == IF tot > p THEN tot - p ELSE 0
NearlyPaid(tot, p) == tot > 0 /\ p + TWO_PLACES >= tot           \* mutant of FullyPaid
FullyPaid(tot, p)  == tot > 0 /\ p >= tot
AllLines(o)        == LinesOf(o)                                 \* mutant of Unsent
Unsent(o)          == LinesOf(o) \ sent
AnyOrder(o)        == TRUE                                       \* mutant of NothingPaid
NothingPaid(o)     == paid[o] = 0
Injections(S, T)  == {f \in [S -> T] : \A a, b \in S : f[a] = f[b] => a = b}

\* A closing order leaves its table in state s unless other bills are open on it.
VacateAlways(o, s) == [u \in Tables |-> IF u = table[o] THEN s ELSE tableStatus[u]]  \* mutant
VacateTable(o, s)  ==
  [u \in Tables |-> IF u = table[o] /\ OpenOn(u) \ {o} = {} THEN s ELSE tableStatus[u]]

InFlight == {r \in Terminals : pos[r] # Idle} \cup {s \in Screens : kds[s] # Idle}
CanStart == Cardinality(InFlight) < MaxInFlight

TypeOK ==
  /\ status \in [Orders -> OrderStatus \cup {"none"}]
  /\ table \in [Orders -> Tables \cup {NoTable}]
  /\ reservation \in [Orders -> Reservations \cup {NoReservation}]
  /\ parent \in [Orders -> Orders \cup {NoOrder}]
  /\ billed \in [Orders -> SUBSET Lines]
  /\ paid \in [Orders -> Nat]
  /\ lineOrder \in [Lines -> Orders \cup {NoOrder}]
  /\ sent \in SUBSET Lines
  /\ ticketOrder \in [Tickets -> Orders \cup {NoOrder}]
  /\ ticketStatus \in [Tickets -> TicketStatus]
  /\ ticketLines \in [Tickets -> SUBSET Lines]
  /\ tableStatus \in [Tables -> TableStatus]
  /\ resStatus \in [Reservations -> ReservationStatus]
  /\ pos \in [Terminals -> OrderCopy \cup {Idle}]
  /\ kds \in [Screens -> TicketCopy \cup {Idle}]

\* No order exists yet; tables are free and reservations confirmed.
Init ==
  /\ status = [o \in Orders |-> "none"]
  /\ table = [o \in Orders |-> NoTable]
  /\ reservation = [o \in Orders |-> NoReservation]
  /\ parent = [o \in Orders |-> NoOrder]
  /\ billed = [o \in Orders |-> {}]
  /\ paid = [o \in Orders |-> 0]
  /\ lineOrder = [l \in Lines |-> NoOrder]
  /\ sent = {}
  /\ ticketOrder = [k \in Tickets |-> NoOrder]
  /\ ticketStatus = [k \in Tickets |-> "queued"]
  /\ ticketLines = [k \in Tickets |-> {}]
  /\ tableStatus = [t \in Tables |-> "free"]
  /\ resStatus = [v \in Reservations |-> "confirmed"]
  /\ pos = [r \in Terminals |-> Idle]
  /\ kds = [s \in Screens |-> Idle]
-----------------------------------------------------------------------------
(* Requests: the view's get_object, and a request that ends with no effect *)
(* (a refusal is raised inside the transaction, which is rolled back).     *)

LoadOrder(r, o) ==
  /\ CanStart /\ pos[r] = Idle /\ o \in Created
  /\ pos' = [pos EXCEPT ![r] = [order |-> o, status |-> status[o], total |-> total[o],
       seated |-> table[o] \in Tables /\ tableStatus[table[o]] = "seated"]]
  /\ UNCHANGED <<orderVars, lineVars, ticketVars, roomVars, kds>>

LoadTicket(s, k) ==
  /\ CanStart /\ kds[s] = Idle /\ k \notin NewTickets
  /\ kds' = [kds EXCEPT ![s] =
       [ticket |-> k, status |-> ticketStatus[k], order |-> ticketOrder[k]]]
  /\ UNCHANGED <<orderVars, lineVars, ticketVars, roomVars, pos>>

Refused ==
  /\ \/ \E r \in Terminals : pos[r] # Idle /\ pos' = [pos EXCEPT ![r] = Idle] /\ kds' = kds
     \/ \E s \in Screens : kds[s] # Idle /\ kds' = [kds EXCEPT ![s] = Idle] /\ pos' = pos
  /\ UNCHANGED <<orderVars, lineVars, ticketVars, roomVars>>

Holds(r) == pos[r] # Idle
Done(r)  == pos' = [pos EXCEPT ![r] = Idle]
\* The copy says the order is neither paid nor void.
HeldOpen(r) == Holds(r) /\ pos[r].status \notin CLOSED
-----------------------------------------------------------------------------
\* open_order re-reads the table inside its transaction, so it needs no copy.
OpenOrder(o, t, v) ==
  /\ CanStart /\ o \in NewOrders
  /\ t \in Tables => tableStatus[t] # "out_of_service" /\ OpenOn(t) = {}
  /\ status' = [status EXCEPT ![o] = "open"]
  /\ table' = [table EXCEPT ![o] = t]
  /\ reservation' = [reservation EXCEPT ![o] = v]
  /\ tableStatus' = [u \in Tables |-> IF u = t THEN "seated" ELSE tableStatus[u]]
  /\ resStatus' = [w \in Reservations |-> IF w = v THEN "seated" ELSE resStatus[w]]
  /\ UNCHANGED <<parent, billed, paid, lineVars, ticketVars, pos, kds>>

\* A new line l joins the held order; recalculate() re-reads the lines but
\* trusts the copy's status; the table moves on only if the copy saw "seated".
AddLine(r, l) ==
  LET o == pos[r].order IN
  /\ HeldOpen(r) /\ lineOrder[l] = NoOrder
  /\ lineOrder' = [lineOrder EXCEPT ![l] = o]
  /\ billed' = Recalc(o, LinesOf(o) \cup {l})
  /\ tableStatus' = [t \in Tables |->
       IF t = table[o] /\ pos[r].seated THEN "ordered" ELSE tableStatus[t]]
  /\ Done(r)
  /\ UNCHANGED <<status, table, reservation, parent, paid, sent, ticketVars, resStatus, kds>>

\* One ticket per (station, course) among the lines not sent yet; lines that
\* need no station are only marked.  A copy that says "open" writes "sent".
SendToStations(r) ==
  LET o        == pos[r].order
      pending  == Unsent(o)
      stations == {StationOf[l] : l \in pending} \ {NoStation}
      at(g)    == {l \in pending : StationOf[l] = g}
  IN
  /\ Holds(r) /\ pending # {}
  /\ \E f \in Injections(stations, NewTickets) :
       LET issued == {f[g] : g \in stations}
           group(k) == CHOOSE g \in stations : f[g] = k
       IN /\ ticketOrder' = [k \in Tickets |-> IF k \in issued THEN o ELSE ticketOrder[k]]
          /\ ticketLines' = [k \in Tickets |->
               IF k \in issued THEN at(group(k)) ELSE ticketLines[k]]
  /\ sent' = sent \cup pending
  /\ status' = AfterSend(o, pos[r].status)
  /\ Done(r)
  /\ UNCHANGED <<table, reservation, parent, billed, paid, lineOrder, ticketStatus,
                 roomVars, kds>>

Flow == [queued |-> "preparing", preparing |-> "ready", ready |-> "served"]

\* The next status of a bump: one named in the request, else the flow's next.
BumpTargets(s) == AskedStatus \cup (IF s \in DOMAIN Flow THEN {Flow[s]} ELSE {})
BumpStatuses   == UNION {BumpTargets(s) : s \in TicketStatus}

\* Serving the last outstanding ticket marks the order and its table served,
\* whatever the order's own status is by then.
BumpTicket(s, new) ==
  LET k == kds[s].ticket
      o == kds[s].order
      allServed == \A j \in TicketsOf(o) : ticketStatus'[j] \in {"served", "cancelled"}
  IN
  /\ kds[s] # Idle /\ new \in BumpTargets(kds[s].status)
  /\ ticketStatus' = [ticketStatus EXCEPT ![k] = new]
  /\ IF new = "served" /\ allServed
     THEN /\ status' = [status EXCEPT ![o] = "served"]
          /\ tableStatus' = [t \in Tables |-> IF t = table[o] THEN "served" ELSE tableStatus[t]]
     ELSE UNCHANGED <<status, tableStatus>>
  /\ kds' = [kds EXCEPT ![s] = Idle]
  /\ UNCHANGED <<table, reservation, parent, billed, paid, lineVars, ticketOrder,
                 ticketLines, resStatus, pos>>

\* One billed child per seat takes that seat's lines; both sides recalculate.
SplitOrderBySeat(r) ==
  LET o     == pos[r].order
      seats == {SeatOf[l] : l \in LinesOf(o)} \ {NoSeat}
      of(n) == {l \in LinesOf(o) : SeatOf[l] = n}
      rest  == {l \in LinesOf(o) : SeatOf[l] = NoSeat}
  IN
  /\ HeldOpen(r) /\ NothingPaid(o) /\ seats # {}
  /\ \E f \in Injections(seats, NewOrders) :
       LET children == {f[n] : n \in seats}
           seat(c)  == CHOOSE n \in seats : f[n] = c
       IN /\ status' = [p \in Orders |-> IF p \in children THEN "billed" ELSE status[p]]
          /\ table' = [p \in Orders |-> IF p \in children THEN table[o] ELSE table[p]]
          /\ reservation' = [p \in Orders |->
               IF p \in children THEN reservation[o] ELSE reservation[p]]
          /\ parent' = [p \in Orders |-> IF p \in children THEN o ELSE parent[p]]
          /\ lineOrder' = [l \in Lines |->
               IF l \in LinesOf(o) \ rest THEN f[SeatOf[l]] ELSE lineOrder[l]]
          /\ billed' = [p \in Orders |-> IF p = o THEN rest
               ELSE IF p \in children THEN of(seat(p)) ELSE billed[p]]
  /\ Done(r)
  /\ UNCHANGED <<paid, sent, ticketVars, roomVars, kds>>

\* recalculate() runs unless the copy is paid; the debt test allows 0.01 more
\* than is due; a fully paid order closes, frees its table and completes its
\* reservation.
TakePayment(r, amount) ==
  LET o     == pos[r].order
      grand == IF pos[r].status = "paid" THEN pos[r].total ELSE Total[LinesOf(o)]
  IN
  /\ Holds(r) /\ pos[r].status # "void"
  /\ amount > 0 /\ amount <= AmountDue(grand, paid[o]) + TWO_PLACES
  /\ paid[o] + amount <= PayBound
  /\ paid' = [paid EXCEPT ![o] = @ + amount]
  /\ billed' = IF pos[r].status = "paid" THEN billed ELSE Recalc(o, LinesOf(o))
  /\ IF FullyPaid(grand, paid[o] + amount)
     THEN /\ status' = [status EXCEPT ![o] = "paid"]
          /\ tableStatus' = VacateTable(o, "cleaning")
          /\ resStatus' = [v \in Reservations |->
               IF v = reservation[o] THEN "completed" ELSE resStatus[v]]
     ELSE UNCHANGED <<status, tableStatus, resStatus>>
  /\ Done(r)
  /\ UNCHANGED <<table, reservation, parent, lineVars, ticketVars, kds>>

\* By a user who may approve "void_order"; others get the rolled-back request
\* of module Approvals.  Payments are not looked at.
VoidOrder(r) ==
  LET o == pos[r].order IN
  /\ Holds(r) /\ pos[r].status # "void"
  /\ status' = [status EXCEPT ![o] = "void"]
  /\ ticketStatus' = [k \in Tickets |->
       IF k \in TicketsOf(o) /\ ticketStatus[k] # "served" THEN "cancelled" ELSE ticketStatus[k]]
  /\ tableStatus' = VacateTable(o, "free")
  /\ Done(r)
  /\ UNCHANGED <<table, reservation, parent, billed, paid, lineVars, ticketOrder,
                 ticketLines, resStatus, kds>>

\* Staff set a cleaned table back to free through the table endpoint.
FinishCleaning(t) ==
  /\ tableStatus[t] = "cleaning"
  /\ tableStatus' = [tableStatus EXCEPT ![t] = "free"]
  /\ UNCHANGED <<orderVars, lineVars, ticketVars, resStatus, pos, kds>>
-----------------------------------------------------------------------------
Next ==
  \/ \E o \in Orders, t \in Tables \cup {NoTable}, v \in Reservations \cup {NoReservation} :
       OpenOrder(o, t, v)
  \/ \E r \in Terminals, o \in Orders : LoadOrder(r, o)
  \/ \E s \in Screens, k \in Tickets : LoadTicket(s, k)
  \/ \E r \in Terminals, l \in Lines : AddLine(r, l)
  \/ \E r \in Terminals : SendToStations(r)
  \/ \E s \in Screens, new \in BumpStatuses : BumpTicket(s, new)
  \/ \E r \in Terminals : SplitOrderBySeat(r)
  \/ \E r \in Terminals, a \in Amounts : TakePayment(r, a)
  \/ \E r \in Terminals : VoidOrder(r)
  \/ \E t \in Tables : FinishCleaning(t)
  \/ Refused

Spec == Init /\ [][Next]_vars
-----------------------------------------------------------------------------
(* Properties that hold however many requests overlap.                     *)

\* A bill always shows the amount its lines add up to: every service that
\* moves or adds lines recalculates each order it touched, re-reading lines.
TotalsMatchLines == \A o \in Orders : total[o] = Total[LinesOf(o)]

\* No line is prepared twice and none sent is forgotten: a line is printed on
\* exactly one ticket if it was sent and needs a station, else on none.
Printed(l) == {k \in Tickets : l \in ticketLines[k]}
EveryLineTicketedOnce ==
  \A l \in Lines :
    IF l \in sent /\ StationOf[l] # NoStation
    THEN \E k \in Tickets : Printed(l) = {k}
    ELSE Printed(l) = {}

\* An order still "open" has sent nothing to a station: none of its lines is
\* marked sent, so the waiter's "not sent yet" list is complete.
OpenMeansNothingSent ==
  \A o \in Orders : status[o] = "open" => LinesOf(o) \cap sent = {}

\* The services implement the ledger, whichever copies the requests hold.
Ledger == INSTANCE BillLedger WITH
  Bills <- Orders, NoBill <- NoOrder, billOf <- lineOrder, owed <- total, received <- paid
ImplementsLedger == Ledger!Spec

\* However many terminals collect a bill at once, and however old their copies:
\* a payment takes a hundredth more than is left to pay at most.  The tolerance
\* of the debt test is granted to every payment, so cents can add up.
CollectedOnce ==
  [][\A o \in Orders :
       \/ paid'[o] <= total'[o] + TWO_PLACES
       \/ paid'[o] - paid[o] <= TWO_PLACES]_vars

\* A paid bill is final for as long as it is neither voided nor written over by
\* a late request, and these are all there are: the last ticket of the order is
\* served only now ("served" over "paid", the bill is open again); a terminal
\* that loaded the order before it was paid adds a line to it, or sends it
\* ("sent" over "paid").  None of them takes a line or an amount off it.
SameBill(o)   == LinesOf(o)' = LinesOf(o) /\ total'[o] = total[o]
ServedLate(o) ==
  /\ status'[o] = "served" /\ SameBill(o)
  /\ \E s \in Screens : kds[s] # Idle /\ kds[s].order = o /\ ticketStatus'[kds[s].ticket] = "served"
  /\ \A k \in TicketsOf(o) : ticketStatus'[k] \in {"served", "cancelled"}
LoadedBefore(r, o) == pos[r] # Idle /\ pos[r].order = o /\ pos[r].status # "paid"
LateSend(o)   ==
  /\ status'[o] = "sent" /\ SameBill(o)
  /\ \E r \in Terminals : LoadedBefore(r, o) /\ pos[r].status = "open"
LateLine(o)   ==
  /\ status'[o] = "paid"
  /\ \E r \in Terminals, l \in Lines \ LinesOf(o) :
       LoadedBefore(r, o) /\ LinesOf(o)' = LinesOf(o) \cup {l}
PaidBillStays ==
  [][\A o \in Orders : status[o] = "paid" =>
       \/ status'[o] \in {"paid", "void"} /\ SameBill(o)
       \/ ServedLate(o) \/ LateSend(o) \/ LateLine(o)]_vars
-----------------------------------------------------------------------------
(* Properties of one request at a time (MaxInFlight = 1).                  *)

\* A paid order is covered by its payments and was worth something.
PaidIsCovered ==
  \A o \in Orders : status[o] = "paid" => total[o] > 0 /\ paid[o] >= total[o]

\* The room plan never offers a table that still has an open bill: paying or
\* voiding one of several bills leaves the table with its other guests.
TableHeldWhileBillOpen ==
  \A t \in Tables : OpenOn(t) # {} => tableStatus[t] \notin {"free", "cleaning"}
=============================================================================
