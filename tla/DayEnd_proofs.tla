---------------------------- MODULE DayEnd_proofs ----------------------------
(***************************************************************************)
(* Proofs about Orders and DayEnd for any number of orders, lines, tickets,*)
(* tables, threads, managers and days, and any amounts the assumptions of  *)
(* the two modules allow.                                                  *)
(*                                                                         *)
(* First the order services.  Whichever stale copies the requests act on,  *)
(* bills show the amount of their lines, no line is printed twice, no debt *)
(* is collected twice, a paid bill changes in no way but the named ones,   *)
(* and the services implement BillLedger.  If requests do not overlap,     *)
(* copies are current, and then paid bills are covered and tables held.    *)
(*                                                                         *)
(* Then the closing of days, which reads the orders: every step of the     *)
(* composition is a step of the order services or leaves them alone, so    *)
(* what holds of orders holds in it.                                       *)
(***************************************************************************)
EXTENDS DayEnd, FiniteSetTheorems, TLAPS

USE DEF OPEN_STATUSES, CLOSED, OrderStatus, TicketStatus, TableStatus,
        ReservationStatus, OrderCopy, TicketCopy

-----------------------------------------------------------------------------
(* The inductive invariant: what is true of rows no request has created,   *)
(* and of a copy however old it is.                                        *)

\* Nothing is charged to, or received on, an order that does not exist.
NewOrdersBlank == \A o \in NewOrders : LinesOf(o) = {} /\ paid[o] = 0

NewTicketsBlank == \A k \in NewTickets : ticketLines[k] = {}

\* Only a line that is on an order has been sent.
SentLinesOrdered == \A l \in sent : lineOrder[l] # NoOrder

\* A copy is of an order that exists; no order ever becomes "open" again, so
\* a copy that is not open is of an order that is not open either.
CopiesOK ==
  \A r \in Terminals : pos[r] # Idle =>
    /\ status[pos[r].order] # "none"
    /\ pos[r].status # "open" => status[pos[r].order] # "open"

\* The amounts of every order were taken from the lines it has.
BilledAreLines == \A o \in Orders : billed[o] = LinesOf(o)

IInv ==
  /\ TypeOK
  /\ BilledAreLines
  /\ TotalsMatchLines
  /\ EveryLineTicketedOnce
  /\ OpenMeansNothingSent
  /\ NewOrdersBlank
  /\ NewTicketsBlank
  /\ SentLinesOrdered
  /\ CopiesOK
-----------------------------------------------------------------------------
LEMMA InitIInv == Init => IInv
  <1> SUFFICES ASSUME Init PROVE IInv
    OBVIOUS
  <1>1. TypeOK
    BY TotalAssumption DEF Init, TypeOK
  <1>2. \A o \in Orders : LinesOf(o) = {}
    BY SentinelAssumption DEF Init, LinesOf
  <1>3. BilledAreLines /\ TotalsMatchLines
    BY <1>2 DEF Init, BilledAreLines, TotalsMatchLines, total
  <1>4. EveryLineTicketedOnce
    BY DEF Init, EveryLineTicketedOnce, Printed
  <1>5. OpenMeansNothingSent /\ NewOrdersBlank /\ NewTicketsBlank /\ SentLinesOrdered
    BY <1>2 DEF Init, OpenMeansNothingSent, NewOrdersBlank, NewOrders, Created,
                NewTicketsBlank, NewTickets, SentLinesOrdered
  <1>6. CopiesOK
    BY DEF Init, CopiesOK
  <1>7. QED
    BY <1>1, <1>3, <1>4, <1>5, <1>6 DEF IInv

\* Every set of lines has an amount.
LEMMA TotalIsNat == \A S \in SUBSET Lines : Total[S] \in Nat
  BY TotalAssumption

LEMMA AmountsAreNat == ASSUME TypeOK PROVE total \in [Orders -> Nat]
  BY TotalIsNat DEF TypeOK, total

\* Whatever a bump writes is a ticket status.
LEMMA BumpedIsStatus == BumpStatuses \subseteq TicketStatus
  <1>1. \A s \in TicketStatus : s \in DOMAIN Flow => Flow[s] \in TicketStatus
    BY DEF Flow
  <1>2. \A s \in TicketStatus : BumpTargets(s) \subseteq TicketStatus
    BY <1>1, AskedAssumption DEF BumpTargets
  <1>3. QED
    BY <1>2 DEF BumpStatuses

\* Types are preserved by every step.
LEMMA TypeStep == IInv /\ [Next]_vars => TypeOK'
  <1> SUFFICES ASSUME IInv, [Next]_vars PROVE TypeOK'
    OBVIOUS
  <1> USE DEF IInv, orderVars, lineVars, ticketVars, roomVars
  <1>1. ASSUME NEW o \in Orders, NEW t \in Tables \cup {NoTable},
               NEW v \in Reservations \cup {NoReservation}, OpenOrder(o, t, v)
        PROVE TypeOK'
    BY <1>1 DEF OpenOrder, TypeOK
  <1>2. ASSUME NEW r \in Terminals, NEW o \in Orders, LoadOrder(r, o)
        PROVE TypeOK'
    BY <1>2, AmountsAreNat DEF LoadOrder, TypeOK, Created
  <1>3. ASSUME NEW s \in Screens, NEW k \in Tickets, LoadTicket(s, k)
        PROVE TypeOK'
    BY <1>3 DEF LoadTicket, TypeOK, NewTickets
  <1>4. ASSUME NEW r \in Terminals, NEW l \in Lines, AddLine(r, l)
        PROVE TypeOK'
    BY <1>4 DEF AddLine, TypeOK, HeldOpen, Holds, Done, Recalc, LinesOf
  <1>5. ASSUME NEW r \in Terminals, SendToStations(r)
        PROVE TypeOK'
    <2> DEFINE o == pos[r].order
               pending == Unsent(o)
               stations == {StationOf[l] : l \in pending} \ {NoStation}
    <2>1. o \in Orders /\ pending \subseteq Lines
      BY <1>5 DEF SendToStations, TypeOK, Holds, Unsent, LinesOf
    <2>2. PICK f \in Injections(stations, NewTickets) :
            /\ ticketOrder' = [k \in Tickets |->
                 IF k \in {f[g] : g \in stations} THEN o ELSE ticketOrder[k]]
            /\ ticketLines' = [k \in Tickets |-> IF k \in {f[g] : g \in stations}
                 THEN {l \in pending : StationOf[l] = CHOOSE g \in stations : f[g] = k}
                 ELSE ticketLines[k]]
      BY <1>5 DEF SendToStations
    <2>3. ticketOrder' \in [Tickets -> Orders \cup {NoOrder}]
      BY <2>1, <2>2 DEF TypeOK
    <2>4. ticketLines' \in [Tickets -> SUBSET Lines]
      BY <2>1, <2>2 DEF TypeOK
    <2>5. sent' \in SUBSET Lines /\ status' \in [Orders -> OrderStatus \cup {"none"}]
      BY <1>5, <2>1 DEF SendToStations, TypeOK, AfterSend
    <2>6. QED
      BY <1>5, <2>3, <2>4, <2>5 DEF SendToStations, TypeOK, Done
  <1>6. ASSUME NEW s \in Screens, NEW new \in BumpStatuses, BumpTicket(s, new)
        PROVE TypeOK'
    BY <1>6, BumpedIsStatus DEF BumpTicket, TypeOK
  <1>7. ASSUME NEW r \in Terminals, SplitOrderBySeat(r)
        PROVE TypeOK'
    <2> DEFINE o == pos[r].order
               rest == {l \in LinesOf(o) : SeatOf[l] = NoSeat}
               seats == {SeatOf[l] : l \in LinesOf(o)} \ {NoSeat}
               of(n) == {l \in LinesOf(o) : SeatOf[l] = n}
    <2>1. o \in Orders
      BY <1>7 DEF SplitOrderBySeat, TypeOK, HeldOpen, Holds
    <2>2. PICK f \in Injections(seats, NewOrders) :
            LET children == {f[n] : n \in seats}
                seat(c)  == CHOOSE n \in seats : f[n] = c
            IN
            /\ status' = [p \in Orders |-> IF p \in children THEN "billed" ELSE status[p]]
            /\ table' = [p \in Orders |-> IF p \in children THEN table[o] ELSE table[p]]
            /\ reservation' = [p \in Orders |->
                 IF p \in children THEN reservation[o] ELSE reservation[p]]
            /\ parent' = [p \in Orders |-> IF p \in children THEN o ELSE parent[p]]
            /\ lineOrder' = [l \in Lines |->
                 IF l \in LinesOf(o) \ rest THEN f[SeatOf[l]] ELSE lineOrder[l]]
            /\ billed' = [p \in Orders |-> IF p = o THEN rest
                 ELSE IF p \in children THEN of(seat(p)) ELSE billed[p]]
      BY <1>7 DEF SplitOrderBySeat
    <2>3. \A l \in LinesOf(o) \ rest : SeatOf[l] \in seats /\ f[SeatOf[l]] \in Orders
      BY <2>2 DEF Injections, NewOrders
    <2>4. lineOrder' \in [Lines -> Orders \cup {NoOrder}]
      BY <2>2, <2>3 DEF TypeOK
    <2>5. billed' \in [Orders -> SUBSET Lines]
      <3>1. rest \in SUBSET Lines /\ \A x : of(x) \in SUBSET Lines
        BY DEF LinesOf
      <3> HIDE DEF of, rest
      <3>2. QED
        BY <2>2, <3>1 DEF TypeOK
    <2>6. QED
      BY <1>7, <2>1, <2>2, <2>4, <2>5 DEF SplitOrderBySeat, TypeOK, Done
  <1>8. ASSUME NEW r \in Terminals, NEW a \in Amounts, TakePayment(r, a)
        PROVE TypeOK'
    <2> DEFINE o == pos[r].order
    <2>1. o \in Orders /\ a \in Nat /\ paid[o] \in Nat
      BY <1>8, AmountsAssumption DEF TakePayment, TypeOK, Holds
    <2>2. paid' \in [Orders -> Nat] /\ billed' \in [Orders -> SUBSET Lines]
      BY <1>8, <2>1 DEF TakePayment, TypeOK, Recalc, LinesOf
    <2>3. QED
      BY <1>8, <2>1, <2>2 DEF TakePayment, TypeOK, Done, VacateTable
  <1>9. ASSUME NEW r \in Terminals, VoidOrder(r)
        PROVE TypeOK'
    BY <1>9 DEF VoidOrder, TypeOK, Holds, Done, VacateTable
  <1>10. ASSUME NEW t \in Tables, FinishCleaning(t)
         PROVE TypeOK'
    BY <1>10 DEF FinishCleaning, TypeOK
  <1>11. CASE Refused
    BY <1>11 DEF Refused, TypeOK
  <1>12. CASE UNCHANGED vars
    BY <1>12 DEF vars, TypeOK
  <1>13. QED
    BY <1>1, <1>2, <1>3, <1>4, <1>5, <1>6, <1>7, <1>8, <1>9, <1>10, <1>11, <1>12 DEF Next

\* No step un-creates an order, and only opening makes one "open".
LEMMA StatusStep ==
  ASSUME IInv, [Next]_vars, NEW o \in Orders
  PROVE  /\ status'[o] = "none" => status[o] = "none"
         /\ status'[o] = "open" => status[o] \in {"open", "none"}
  <1> USE DEF IInv, orderVars, lineVars, ticketVars, roomVars, TypeOK
  <1>1. ASSUME NEW p \in Orders, NEW t \in Tables \cup {NoTable},
               NEW v \in Reservations \cup {NoReservation}, OpenOrder(p, t, v)
        PROVE status'[o] = status[o] \/ (status[o] = "none" /\ status'[o] # "none")
    BY <1>1 DEF OpenOrder, NewOrders, Created
  <1>2. ASSUME NEW r \in Terminals, SendToStations(r)
        PROVE status'[o] = status[o] \/ status'[o] = "sent"
    BY <1>2 DEF SendToStations, AfterSend
  <1>3. ASSUME NEW s \in Screens, NEW new \in BumpStatuses, BumpTicket(s, new)
        PROVE status'[o] = status[o] \/ status'[o] = "served"
    BY <1>3 DEF BumpTicket
  <1>4. ASSUME NEW r \in Terminals, SplitOrderBySeat(r)
        PROVE status'[o] = status[o] \/ status'[o] = "billed"
    BY <1>4 DEF SplitOrderBySeat
  <1>5. ASSUME NEW r \in Terminals, NEW a \in Amounts, TakePayment(r, a)
        PROVE status'[o] = status[o] \/ status'[o] = "paid"
    BY <1>5 DEF TakePayment
  <1>6. ASSUME NEW r \in Terminals, VoidOrder(r)
        PROVE status'[o] = status[o] \/ status'[o] = "void"
    BY <1>6 DEF VoidOrder
  <1>7. CASE UNCHANGED status
    BY <1>7
  <1>8. QED
    BY <1>1, <1>2, <1>3, <1>4, <1>5, <1>6, <1>7
       DEF Next, vars, LoadOrder, LoadTicket, AddLine, FinishCleaning, Refused
-----------------------------------------------------------------------------
(* Money.                                                                  *)

\* Adding a line enters it on the ledger's bill.
LEMMA AddLineEnters ==
  ASSUME IInv, NEW r \in Terminals, NEW l \in Lines, AddLine(r, l)
  PROVE  /\ Ledger!Next
         /\ NewOrdersBlank' /\ BilledAreLines'
  <1> DEFINE o == pos[r].order
  <1>1. o \in Orders /\ status[o] # "none"
    BY DEF IInv, TypeOK, CopiesOK, AddLine, HeldOpen, Holds
  <1>2. Ledger!Enter(l, o)
    <2>1. total' = [total EXCEPT ![o] = Total[LinesOf(o) \cup {l}]]
      BY <1>1 DEF AddLine, Recalc, total, IInv, TypeOK
    <2>2. QED
      BY <1>1, <2>1 DEF Ledger!Enter, Ledger!Charged, AddLine, LinesOf
  <1>3. NewOrdersBlank'
    BY <1>1 DEF AddLine, IInv, TypeOK, NewOrdersBlank, NewOrders, Created, LinesOf
  <1>4. BilledAreLines'
    <2> SUFFICES ASSUME NEW p \in Orders PROVE billed'[p] = LinesOf(p)'
      BY DEF BilledAreLines
    <2>1. LinesOf(p)' = IF p = o THEN LinesOf(p) \cup {l} ELSE LinesOf(p)
      BY <1>1, SentinelAssumption DEF AddLine, LinesOf, IInv, TypeOK
    <2>2. billed'[p] = IF p = o THEN LinesOf(p) \cup {l} ELSE billed[p]
      BY <1>1 DEF AddLine, Recalc, IInv, TypeOK
    <2>3. QED
      BY <2>1, <2>2 DEF IInv, BilledAreLines
  <1>5. QED
    BY <1>1, <1>2, <1>3, <1>4 DEF Ledger!Next

\* Splitting divides the bill among orders that were blank.
LEMMA SplitDivides ==
  ASSUME IInv, NEW r \in Terminals, SplitOrderBySeat(r)
  PROVE  /\ Ledger!Next
         /\ NewOrdersBlank' /\ BilledAreLines'
  <1> DEFINE o == pos[r].order
             rest == {l \in LinesOf(o) : SeatOf[l] = NoSeat}
             seats == {SeatOf[l] : l \in LinesOf(o)} \ {NoSeat}
             of(n) == {l \in LinesOf(o) : SeatOf[l] = n}
  <1>1. o \in Orders /\ status[o] # "none" /\ paid[o] = 0 /\ UNCHANGED paid
    BY DEF IInv, TypeOK, CopiesOK, SplitOrderBySeat, HeldOpen, Holds, NothingPaid
  <1>2. PICK f \in Injections(seats, NewOrders) :
          LET children == {f[n] : n \in seats}
              seat(c)  == CHOOSE n \in seats : f[n] = c
          IN
          /\ status' = [p \in Orders |-> IF p \in children THEN "billed" ELSE status[p]]
          /\ lineOrder' = [l \in Lines |->
               IF l \in LinesOf(o) \ rest THEN f[SeatOf[l]] ELSE lineOrder[l]]
          /\ billed' = [p \in Orders |-> IF p = o THEN rest
               ELSE IF p \in children THEN of(seat(p)) ELSE billed[p]]
    BY DEF SplitOrderBySeat
  <1> DEFINE children == {f[n] : n \in seats}
             seat(c)  == CHOOSE n \in seats : f[n] = c
  <1>3. /\ \A n \in seats : f[n] \in NewOrders /\ f[n] \in Orders
        /\ \A m, n \in seats : f[m] = f[n] => m = n
        /\ children \subseteq NewOrders
        /\ o \notin children
    BY <1>1, <1>2 DEF Injections, NewOrders, Created
  <1>4. \A l \in LinesOf(o) \ rest : SeatOf[l] \in seats
    OBVIOUS
  <1>5. \A p \in NewOrders : LinesOf(p) = {} /\ paid[p] = 0
    BY DEF IInv, NewOrdersBlank
  <1>6. \A p \in Orders : billed'[p] = {l \in Lines : lineOrder'[l] = p}
    <2> SUFFICES ASSUME NEW p \in Orders
                 PROVE  billed'[p] = {l \in Lines : lineOrder'[l] = p}
      OBVIOUS
    <2>1. CASE p = o
      <3>1. {l \in Lines : lineOrder'[l] = o} = rest
        BY <1>2, <1>3, <1>4 DEF LinesOf
      <3>2. QED
        BY <2>1, <3>1, <1>2, <1>1
    <2>2. CASE p \in children
      <3>1. PICK n \in seats : p = f[n]
        BY <2>2
      <3>2. seat(p) = n
        BY <3>1, <1>3
      <3>3. {l \in Lines : lineOrder'[l] = p} = of(n)
        BY <3>1, <1>2, <1>3, <1>4, <1>5 DEF LinesOf
      <3>4. billed'[p] = of(seat(p))
        <4> HIDE DEF of, rest, seat, children
        <4>1. QED
          BY <1>2, <1>3, <2>2 DEF children, seat
      <3>5. QED
        BY <3>2, <3>3, <3>4
    <2>3. CASE p # o /\ p \notin children
      <3>1. {l \in Lines : lineOrder'[l] = p} = LinesOf(p)
        BY <2>3, <1>2, <1>4 DEF LinesOf
      <3>2. billed'[p] = billed[p]
        <4> HIDE DEF of, rest
        <4>1. QED
          BY <2>3, <1>2
      <3>3. QED
        BY <3>1, <3>2 DEF IInv, BilledAreLines
    <2>4. QED
      BY <2>1, <2>2, <2>3
  <1>7. Ledger!Divide(o)
    <2>1. lineOrder' \in [Lines -> Orders \cup {NoOrder}]
      BY <1>2, <1>3, <1>4 DEF IInv, TypeOK
    <2>2. \A l \in Lines \ LinesOf(o) : lineOrder'[l] = lineOrder[l]
      BY <1>2
    <2>3. \A l \in LinesOf(o) : lineOrder'[l] = o \/
            (lineOrder'[l] \in Orders /\ LinesOf(lineOrder'[l]) = {} /\ paid[lineOrder'[l]] = 0)
      BY <1>2, <1>3, <1>4, <1>5 DEF LinesOf
    <2>4. total' = [p \in Orders |-> Total[{l \in Lines : lineOrder'[l] = p}]]
      <3> HIDE DEF of, rest
      <3>1. QED
        BY <1>6 DEF total
    <2>5. QED
      BY <1>1, <2>1, <2>2, <2>3, <2>4 DEF Ledger!Divide, Ledger!Charged, Ledger!Blank, LinesOf
  <1>8. NewOrdersBlank'
    BY <1>1, <1>2, <1>3, <1>4, <1>5 DEF NewOrdersBlank, NewOrders, Created, LinesOf, IInv, TypeOK
  <1>9. BilledAreLines'
    BY <1>6 DEF BilledAreLines, LinesOf
  <1>10. QED
    BY <1>1, <1>7, <1>8, <1>9 DEF Ledger!Next

\* The recalculation of a payment changes nothing, for the total already was
\* that of the lines.
LEMMA PaymentKeepsAmounts ==
  ASSUME IInv, NEW r \in Terminals, NEW a \in Amounts, TakePayment(r, a)
  PROVE  billed' = billed /\ total' = total
  <1>1. pos[r].order \in Orders
    BY DEF IInv, TypeOK, TakePayment, Holds
  <1>2. QED
    BY <1>1 DEF TakePayment, Recalc, IInv, TypeOK, BilledAreLines, total

\* A payment is received on the ledger.
LEMMA PaymentReceives ==
  ASSUME IInv, NEW r \in Terminals, NEW a \in Amounts, TakePayment(r, a)
  PROVE  /\ Ledger!Next
         /\ NewOrdersBlank' /\ BilledAreLines'
  <1> DEFINE o == pos[r].order
  <1>1. o \in Orders /\ status[o] # "none" /\ a \in Int /\ a > 0 /\ paid[o] \in Nat
    BY AmountsAssumption DEF IInv, TypeOK, CopiesOK, TakePayment, Holds
  <1>2. billed' = billed /\ total' = total
    BY PaymentKeepsAmounts
  <1>3. paid' = [paid EXCEPT ![o] = paid'[o]] /\ paid'[o] > paid[o] /\ lineOrder' = lineOrder
    <2>1. paid' = [paid EXCEPT ![o] = paid[o] + a] /\ lineOrder' = lineOrder
      BY DEF TakePayment, lineVars
    <2>2. paid'[o] = paid[o] + a
      BY <1>1, <2>1 DEF IInv, TypeOK
    <2>3. paid'[o] > paid[o]
      BY <1>1, <2>2
    <2>4. QED
      BY <2>1, <2>2, <2>3
  <1>4. Ledger!Receive(o)
    BY <1>2, <1>3 DEF Ledger!Receive
  <1>5. NewOrdersBlank'
    BY <1>1, <1>3 DEF TakePayment, IInv, TypeOK, NewOrdersBlank, NewOrders, Created, LinesOf
  <1>6. BilledAreLines'
    BY <1>2, <1>3 DEF IInv, BilledAreLines, LinesOf
  <1>7. QED
    BY <1>1, <1>4, <1>5, <1>6 DEF Ledger!Next

\* Every step of the services is a step of the ledger or leaves it alone.
LEMMA LedgerStep ==
  IInv /\ [Next]_vars => [Ledger!Next]_(Ledger!vars) /\ NewOrdersBlank' /\ BilledAreLines'
  <1> SUFFICES ASSUME IInv, [Next]_vars
               PROVE  [Ledger!Next]_(Ledger!vars) /\ NewOrdersBlank' /\ BilledAreLines'
    OBVIOUS
  <1>1. ASSUME NEW r \in Terminals, NEW l \in Lines, AddLine(r, l)
        PROVE  Ledger!Next /\ NewOrdersBlank' /\ BilledAreLines'
    BY <1>1, AddLineEnters
  <1>2. ASSUME NEW r \in Terminals, SplitOrderBySeat(r)
        PROVE  Ledger!Next /\ NewOrdersBlank' /\ BilledAreLines'
    BY <1>2, SplitDivides
  <1>3. ASSUME NEW r \in Terminals, NEW a \in Amounts, TakePayment(r, a)
        PROVE  Ledger!Next /\ NewOrdersBlank' /\ BilledAreLines'
    BY <1>3, PaymentReceives
  <1>4. CASE UNCHANGED <<lineOrder, billed, paid>>
    <2>1. NewOrders' \subseteq NewOrders
      BY StatusStep DEF NewOrders, Created
    <2>2. NewOrdersBlank'
      BY <1>4, <2>1 DEF IInv, NewOrdersBlank, LinesOf
    <2>3. BilledAreLines'
      BY <1>4 DEF IInv, BilledAreLines, LinesOf
    <2>4. QED
      BY <1>4, <2>2, <2>3 DEF Ledger!vars, total
  <1>5. QED
    BY <1>1, <1>2, <1>3, <1>4
       DEF Next, vars, orderVars, lineVars, OpenOrder, LoadOrder, LoadTicket, SendToStations,
           BumpTicket, VoidOrder, FinishCleaning, Refused
-----------------------------------------------------------------------------
(* Tickets.                                                                *)

\* A line waits to be sent until it is on an order, and is printed when sent.
LEMMA TicketStep ==
  IInv /\ [Next]_vars => /\ EveryLineTicketedOnce'
                         /\ NewTicketsBlank'
                         /\ SentLinesOrdered'
  <1> SUFFICES ASSUME IInv, [Next]_vars
               PROVE  EveryLineTicketedOnce' /\ NewTicketsBlank' /\ SentLinesOrdered'
    OBVIOUS
  <1>1. ASSUME NEW r \in Terminals, SendToStations(r)
        PROVE  EveryLineTicketedOnce' /\ NewTicketsBlank' /\ SentLinesOrdered'
    <2> DEFINE o == pos[r].order
               pending == Unsent(o)
               stations == {StationOf[l] : l \in pending} \ {NoStation}
               at(g) == {l \in pending : StationOf[l] = g}
    <2>1. o \in Orders /\ o # NoOrder /\ pending \subseteq LinesOf(o) \ sent
      BY <1>1, SentinelAssumption DEF SendToStations, IInv, TypeOK, Holds, Unsent
    <2>2. PICK f \in Injections(stations, NewTickets) :
            LET issued == {f[g] : g \in stations}
                group(k) == CHOOSE g \in stations : f[g] = k
            IN /\ ticketOrder' = [k \in Tickets |-> IF k \in issued THEN o ELSE ticketOrder[k]]
               /\ ticketLines' = [k \in Tickets |->
                    IF k \in issued THEN at(group(k)) ELSE ticketLines[k]]
      BY <1>1 DEF SendToStations
    <2>3. sent' = sent \cup pending /\ lineOrder' = lineOrder
      BY <1>1 DEF SendToStations
    <2> DEFINE issued == {f[g] : g \in stations}
               group(k) == CHOOSE g \in stations : f[g] = k
    <2>4. /\ \A g \in stations : f[g] \in NewTickets /\ f[g] \in Tickets
          /\ \A g, h \in stations : f[g] = f[h] => g = h
          /\ issued \subseteq NewTickets
      BY <2>2 DEF Injections, NewTickets
    <2>5. \A g \in stations : ticketLines'[f[g]] = at(g)
      <3> SUFFICES ASSUME NEW g \in stations PROVE ticketLines'[f[g]] = at(g)
        OBVIOUS
      <3>1. group(f[g]) = g
        BY <2>4
      <3>2. ticketLines'[f[g]] = at(group(f[g]))
        <4> HIDE DEF at, group, pending, stations
        <4>1. QED
          BY <2>2, <2>4 DEF group
      <3>3. QED
        BY <3>1, <3>2
    <2>6. \A k \in Tickets \ issued : ticketLines'[k] = ticketLines[k]
      <3> HIDE DEF at
      <3>1. QED
        BY <2>2
    <2>7. \A k \in issued : ticketLines[k] = {}
      BY <2>4 DEF IInv, NewTicketsBlank
    <2>8. ASSUME NEW l \in Lines
          PROVE IF l \in sent' /\ StationOf[l] # NoStation
                THEN \E k \in Tickets : Printed(l)' = {k} ELSE Printed(l)' = {}
      <3>1. CASE l \in pending /\ StationOf[l] # NoStation
        <4>1. StationOf[l] \in stations /\ Printed(l) = {}
          BY <3>1, <2>1 DEF IInv, EveryLineTicketedOnce
        <4>2. Printed(l)' = {f[StationOf[l]]}
          BY <3>1, <4>1, <2>4, <2>5, <2>6 DEF Printed
        <4>3. QED
          BY <3>1, <4>1, <4>2, <2>3, <2>4
      <3>2. CASE ~(l \in pending /\ StationOf[l] # NoStation)
        <4>1. Printed(l)' = Printed(l)
          BY <3>2, <2>4, <2>5, <2>6, <2>7 DEF Printed
        <4>2. QED
          BY <3>2, <4>1, <2>3 DEF IInv, EveryLineTicketedOnce
      <3>3. QED
        BY <3>1, <3>2
    <2>9. NewTicketsBlank'
      BY <2>1, <2>2, <2>6 DEF IInv, NewTicketsBlank, NewTickets, TypeOK
    <2>10. SentLinesOrdered'
      BY <2>1, <2>3 DEF IInv, SentLinesOrdered, LinesOf
    <2>11. QED
      BY <2>8, <2>9, <2>10 DEF EveryLineTicketedOnce
  <1>2. ASSUME NEW r \in Terminals, NEW l \in Lines, AddLine(r, l)
        PROVE  EveryLineTicketedOnce' /\ NewTicketsBlank' /\ SentLinesOrdered'
    <2>1. pos[r].order \in Orders
      BY <1>2 DEF AddLine, HeldOpen, Holds, IInv, TypeOK
    <2>2. QED
      BY <1>2, <2>1, SentinelAssumption
         DEF AddLine, IInv, TypeOK, EveryLineTicketedOnce, Printed, NewTicketsBlank,
             NewTickets, SentLinesOrdered, ticketVars
  <1>3. ASSUME NEW r \in Terminals, SplitOrderBySeat(r)
        PROVE  EveryLineTicketedOnce' /\ NewTicketsBlank' /\ SentLinesOrdered'
    <2> DEFINE o == pos[r].order
               rest == {l \in LinesOf(o) : SeatOf[l] = NoSeat}
               seats == {SeatOf[l] : l \in LinesOf(o)} \ {NoSeat}
    <2>1. PICK f \in Injections(seats, NewOrders) :
            lineOrder' = [l \in Lines |->
              IF l \in LinesOf(o) \ rest THEN f[SeatOf[l]] ELSE lineOrder[l]]
      BY <1>3 DEF SplitOrderBySeat
    <2>2. \A l \in LinesOf(o) \ rest : f[SeatOf[l]] \in Orders
      BY <2>1 DEF Injections, NewOrders
    <2>3. SentLinesOrdered'
      BY <1>3, <2>1, <2>2, SentinelAssumption
         DEF SplitOrderBySeat, IInv, TypeOK, SentLinesOrdered
    <2>4. QED
      BY <1>3, <2>3 DEF SplitOrderBySeat, ticketVars, IInv, EveryLineTicketedOnce, Printed,
                        NewTicketsBlank, NewTickets
  <1>4. CASE UNCHANGED <<lineVars, ticketOrder, ticketLines>>
    BY <1>4 DEF lineVars, IInv, EveryLineTicketedOnce, Printed, NewTicketsBlank, NewTickets,
                SentLinesOrdered
  <1>5. QED
    BY <1>1, <1>2, <1>3, <1>4
       DEF Next, vars, ticketVars, OpenOrder, LoadOrder, LoadTicket, BumpTicket, TakePayment,
           VoidOrder, FinishCleaning, Refused
-----------------------------------------------------------------------------
(* Copies, and what "open" means.                                          *)

\* A terminal gets its copy by loading an order, and only then.
LEMMA CopyComesFromLoad ==
  ASSUME IInv, [Next]_vars, NEW r \in Terminals, pos'[r] # Idle, pos'[r] # pos[r]
  PROVE  \E q \in Terminals, o \in Orders : LoadOrder(q, o)
  <1>1. ASSUME NEW q \in Terminals, Done(q) PROVE FALSE
    BY <1>1 DEF Done, IInv, TypeOK
  <1>2. CASE Refused
    BY <1>2 DEF Refused, IInv, TypeOK
  <1>3. CASE ~Refused
    BY <1>1, <1>3 DEF Next, vars, OpenOrder, LoadTicket, AddLine, SendToStations, BumpTicket,
       SplitOrderBySeat, TakePayment, VoidOrder, FinishCleaning
  <1>4. QED
    BY <1>2, <1>3

\* A copy only grows older: its order never returns to "open".
LEMMA CopyStep == IInv /\ [Next]_vars => CopiesOK'
  <1> SUFFICES ASSUME IInv, [Next]_vars, NEW r \in Terminals, pos'[r] # Idle
               PROVE  /\ status'[pos'[r].order] # "none"
                      /\ pos'[r].status # "open" => status'[pos'[r].order] # "open"
    BY DEF CopiesOK
  <1>1. CASE pos'[r] = pos[r]
    <2>1. pos[r].order \in Orders
      BY <1>1 DEF IInv, TypeOK
    <2>2. QED
      BY <1>1, <2>1, StatusStep DEF IInv, CopiesOK
  <1>2. CASE pos'[r] # pos[r]
    <2>1. PICK q \in Terminals, o \in Orders : LoadOrder(q, o)
      BY <1>2, CopyComesFromLoad
    <2>2. pos'[r].order = o /\ pos'[r].status = status[o] /\ status[o] # "none"
          /\ status' = status
      BY <1>2, <2>1 DEF LoadOrder, Created, IInv, TypeOK, orderVars
    <2>3. QED
      BY <2>2
  <1>3. QED
    BY <1>1, <1>2

\* An order stays free of sent lines while it is "open": sending through a
\* copy that is not "open" only happens to an order that is not either.
LEMMA OpenStep == IInv /\ [Next]_vars => OpenMeansNothingSent'
  <1> SUFFICES ASSUME IInv, [Next]_vars, NEW o \in Orders, status'[o] = "open"
               PROVE  LinesOf(o)' \cap sent' = {}
    BY DEF OpenMeansNothingSent
  <1>1. status[o] \in {"open", "none"}
    BY StatusStep
  <1>2. LinesOf(o) \cap sent = {}
    BY <1>1 DEF IInv, OpenMeansNothingSent, NewOrdersBlank, NewOrders, Created
  <1>3. ASSUME NEW r \in Terminals, NEW l \in Lines, AddLine(r, l)
        PROVE  LinesOf(o)' \cap sent' = {}
    BY <1>2, <1>3 DEF AddLine, LinesOf, IInv, TypeOK, SentLinesOrdered
  <1>4. ASSUME NEW r \in Terminals, SendToStations(r)
        PROVE  LinesOf(o)' \cap sent' = {}
    <2> DEFINE p == pos[r].order
    <2>1. p \in Orders /\ p # o
      BY <1>1, <1>4 DEF SendToStations, Holds, AfterSend, IInv, TypeOK, CopiesOK
    <2>2. lineOrder' = lineOrder /\ sent' = sent \cup (LinesOf(p) \ sent)
      BY <1>4 DEF SendToStations, Unsent
    <2>3. QED
      BY <1>2, <2>1, <2>2 DEF LinesOf
  <1>5. ASSUME NEW r \in Terminals, SplitOrderBySeat(r)
        PROVE  LinesOf(o)' \cap sent' = {}
    <2> DEFINE p == pos[r].order
               rest == {l \in LinesOf(p) : SeatOf[l] = NoSeat}
               seats == {SeatOf[l] : l \in LinesOf(p)} \ {NoSeat}
    <2>1. PICK f \in Injections(seats, NewOrders) :
            /\ status' = [q \in Orders |-> IF q \in {f[n] : n \in seats}
                                           THEN "billed" ELSE status[q]]
            /\ lineOrder' = [l \in Lines |->
                 IF l \in LinesOf(p) \ rest THEN f[SeatOf[l]] ELSE lineOrder[l]]
      BY <1>5 DEF SplitOrderBySeat
    <2>2. o \notin {f[n] : n \in seats}
      BY <2>1
    <2>3. LinesOf(o)' \subseteq LinesOf(o)
      BY <2>1, <2>2 DEF LinesOf
    <2>4. QED
      BY <1>2, <1>5, <2>3 DEF SplitOrderBySeat
  <1>6. CASE UNCHANGED lineVars
    BY <1>2, <1>6 DEF lineVars, LinesOf
  <1>7. QED
    BY <1>3, <1>4, <1>5, <1>6
       DEF Next, vars, LoadOrder, LoadTicket, OpenOrder, BumpTicket, TakePayment, VoidOrder,
           FinishCleaning, Refused
-----------------------------------------------------------------------------
LEMMA Inductive == IInv /\ [Next]_vars => IInv'
  <1> SUFFICES ASSUME IInv, [Next]_vars PROVE IInv'
    OBVIOUS
  <1>1. TypeOK' /\ CopiesOK' /\ OpenMeansNothingSent'
    BY TypeStep, CopyStep, OpenStep
  <1>2. EveryLineTicketedOnce' /\ NewTicketsBlank' /\ SentLinesOrdered'
    BY TicketStep
  <1>3. BilledAreLines' /\ NewOrdersBlank'
    BY LedgerStep
  <1>4. TotalsMatchLines'
    BY <1>3 DEF BilledAreLines, TotalsMatchLines, total
  <1>5. QED
    BY <1>1, <1>2, <1>3, <1>4 DEF IInv

LEMMA Invariance == Spec => []IInv
  BY InitIInv, Inductive, PTL DEF Spec

\* Type correctness of the order services, for requests that overlap freely.
THEOREM TypeCorrect == Spec => []TypeOK
  <1>1. IInv => TypeOK
    BY DEF IInv
  <1>2. QED
    BY <1>1, Invariance, PTL

\* recalculate() keeps every bill equal to the amount of its lines although
\* add_line, split and payment start from a stale order.
THEOREM TotalsAlwaysMatch == Spec => []TotalsMatchLines
  <1>1. IInv => TotalsMatchLines
    BY DEF IInv
  <1>2. QED
    BY <1>1, Invariance, PTL

\* send_to_stations prints every line that needs a station exactly once.
THEOREM LinesTicketedOnce == Spec => []EveryLineTicketedOnce
  <1>1. IInv => EveryLineTicketedOnce
    BY DEF IInv
  <1>2. QED
    BY <1>1, Invariance, PTL

\* An order that still reads "open" has nothing at a station.
THEOREM OpenNothingSent == Spec => []OpenMeansNothingSent
  <1>1. IInv => OpenMeansNothingSent
    BY DEF IInv
  <1>2. QED
    BY <1>1, Invariance, PTL

\* The order services implement the ledger of BillLedger.
THEOREM OrdersImplementLedger == Spec => ImplementsLedger
  <1>1. Init => Ledger!Init
    BY DEF Init, Ledger!Init, total
  <1>2. IInv /\ [Next]_vars => [Ledger!Next]_(Ledger!vars)
    BY LedgerStep
  <1>3. QED
    BY <1>1, <1>2, Invariance, PTL DEF Spec, ImplementsLedger, Ledger!Spec
-----------------------------------------------------------------------------
(* One request at a time.  A request that nothing overlaps acts on a copy  *)
(* that still tells what the row is.                                       *)

OneRequest == MaxInFlight = 1

OneAtATime ==
  /\ \A r, q \in Terminals : pos[r] # Idle /\ pos[q] # Idle => r = q
  /\ \A s, q \in Screens : kds[s] # Idle /\ kds[q] # Idle => s = q
  /\ \A r \in Terminals, s \in Screens : pos[r] = Idle \/ kds[s] = Idle

CopiesCurrent ==
  /\ \A r \in Terminals : pos[r] # Idle =>
       pos[r].status = status[pos[r].order] /\ pos[r].total = total[pos[r].order]
  /\ \A s \in Screens : kds[s] # Idle =>
       /\ kds[s].status = ticketStatus[kds[s].ticket]
       /\ kds[s].order = ticketOrder[kds[s].ticket]

Alone == OneAtATime /\ CopiesCurrent

NoCopies == (\A r \in Terminals : pos[r] = Idle) /\ (\A s \in Screens : kds[s] = Idle)

\* A request starts only when no other is under way.
LEMMA StartsAlone == ASSUME OneRequest, CanStart PROVE NoCopies
  <1>1. IsFiniteSet(InFlight)
    <2>1. IsFiniteSet({r \in Terminals : pos[r] # Idle}) /\ IsFiniteSet({s \in Screens : kds[s] # Idle})
      BY ThreadsAssumption, FS_Subset
    <2>2. QED
      BY <2>1, FS_Union DEF InFlight
  <1>2. Cardinality(InFlight) = 0
    BY <1>1, FS_CardinalityType DEF OneRequest, CanStart
  <1>3. InFlight = {}
    BY <1>1, <1>2, FS_EmptySet
  <1>4. QED
    BY <1>3 DEF InFlight, NoCopies

\* A request that is done leaves nobody with a copy.
LEMMA LeavesNobody ==
  ASSUME TypeOK, OneAtATime
  PROVE  /\ \A r \in Terminals : Holds(r) /\ Done(r) /\ kds' = kds => NoCopies'
         /\ \A s \in Screens :
              kds[s] # Idle /\ kds' = [kds EXCEPT ![s] = Idle] /\ pos' = pos => NoCopies'
  <1>1. ASSUME NEW r \in Terminals, Holds(r), Done(r), kds' = kds PROVE NoCopies'
    BY <1>1 DEF Holds, Done, NoCopies, TypeOK, OneAtATime
  <1>2. ASSUME NEW s \in Screens, kds[s] # Idle, kds' = [kds EXCEPT ![s] = Idle], pos' = pos
        PROVE  NoCopies'
    BY <1>2 DEF NoCopies, TypeOK, OneAtATime
  <1>3. QED
    BY <1>1, <1>2

LEMMA AloneStep == OneRequest /\ TypeOK /\ Alone /\ [Next]_vars => Alone'
  <1> SUFFICES ASSUME OneRequest, TypeOK, Alone, [Next]_vars PROVE Alone'
    OBVIOUS
  <1> USE DEF Alone
  <1>1. NoCopies' => Alone'
    BY DEF NoCopies, OneAtATime, CopiesCurrent
  <1>2. ASSUME NEW r \in Terminals, NEW o \in Orders, LoadOrder(r, o) PROVE Alone'
    <2>1. NoCopies
      BY <1>2, StartsAlone DEF LoadOrder
    <2>2. OneAtATime'
      BY <1>2, <2>1 DEF LoadOrder, NoCopies, TypeOK, OneAtATime
    <2>3. CopiesCurrent'
      BY <1>2, <2>1 DEF LoadOrder, NoCopies, TypeOK, CopiesCurrent, orderVars, ticketVars, total
    <2>4. QED
      BY <2>2, <2>3
  <1>3. ASSUME NEW s \in Screens, NEW k \in Tickets, LoadTicket(s, k) PROVE Alone'
    <2>1. NoCopies
      BY <1>3, StartsAlone DEF LoadTicket
    <2>2. OneAtATime'
      BY <1>3, <2>1 DEF LoadTicket, NoCopies, TypeOK, OneAtATime
    <2>3. CopiesCurrent'
      BY <1>3, <2>1 DEF LoadTicket, NoCopies, TypeOK, CopiesCurrent, orderVars, ticketVars
    <2>4. QED
      BY <2>2, <2>3
  <1>4. ASSUME NEW o \in Orders, NEW t \in Tables \cup {NoTable},
               NEW v \in Reservations \cup {NoReservation}, OpenOrder(o, t, v)
        PROVE  Alone'
    <2>1. NoCopies
      BY <1>4, StartsAlone DEF OpenOrder
    <2>2. NoCopies'
      BY <1>4, <2>1 DEF OpenOrder, NoCopies
    <2>3. QED
      BY <2>2, <1>1
  <1>5. ASSUME NEW r \in Terminals,
               \/ \E l \in Lines : AddLine(r, l)
               \/ SendToStations(r) \/ SplitOrderBySeat(r) \/ VoidOrder(r)
               \/ \E a \in Amounts : TakePayment(r, a)
        PROVE  Alone'
    BY <1>1, <1>5, LeavesNobody
       DEF AddLine, SendToStations, SplitOrderBySeat, VoidOrder, TakePayment, HeldOpen
  <1>6. ASSUME NEW s \in Screens, NEW new \in BumpStatuses, BumpTicket(s, new) PROVE Alone'
    BY <1>1, <1>6, LeavesNobody DEF BumpTicket
  <1>7. CASE Refused
    BY <1>1, <1>7, LeavesNobody DEF Refused, Holds, Done
  <1>8. CASE UNCHANGED <<pos, kds, orderVars, ticketVars>>
    BY <1>8 DEF OneAtATime, CopiesCurrent, orderVars, ticketVars, total
  <1>9. QED
    BY <1>2, <1>3, <1>4, <1>5, <1>6, <1>7, <1>8 DEF Next, vars, FinishCleaning

LEMMA AloneAlways == OneRequest /\ Spec => []Alone
  <1> SUFFICES ASSUME OneRequest PROVE Spec => []Alone
    OBVIOUS
  <1>1. Init => Alone
    BY DEF Init, Alone, OneAtATime, CopiesCurrent
  <1>2. TypeOK /\ Alone /\ [Next]_vars => Alone'
    BY AloneStep
  <1>3. QED
    BY <1>1, <1>2, TypeCorrect, PTL DEF Spec

LEMMA OneRequestIsCurrent == OneRequest /\ Spec => []CopiesCurrent
  <1>1. Alone => CopiesCurrent
    BY DEF Alone
  <1>2. QED
    BY <1>1, AloneAlways, PTL
-----------------------------------------------------------------------------
(* What holds as long as no request acts on a stale copy, however many are *)
(* under way: of orders at different tables, say.                          *)

\* What a split does to the orders it does not divide, and to its children.
LEMMA SplitSpares ==
  ASSUME IInv, NEW r \in Terminals, SplitOrderBySeat(r)
  PROVE  \E children \in SUBSET NewOrders :
           LET o == pos[r].order IN
           /\ o \in Created
           /\ status' = [p \in Orders |-> IF p \in children THEN "billed" ELSE status[p]]
           /\ table' = [p \in Orders |-> IF p \in children THEN table[o] ELSE table[p]]
           /\ \A p \in Created \ {o} : total'[p] = total[p] /\ LinesOf(p)' = LinesOf(p)
  <1> DEFINE o == pos[r].order
             rest == {l \in LinesOf(o) : SeatOf[l] = NoSeat}
             seats == {SeatOf[l] : l \in LinesOf(o)} \ {NoSeat}
             of(n) == {l \in LinesOf(o) : SeatOf[l] = n}
  <1>1. o \in Created
    BY DEF IInv, TypeOK, CopiesOK, SplitOrderBySeat, HeldOpen, Holds, Created
  <1>2. PICK f \in Injections(seats, NewOrders) :
          LET children == {f[n] : n \in seats}
              seat(c)  == CHOOSE n \in seats : f[n] = c
          IN
          /\ status' = [p \in Orders |-> IF p \in children THEN "billed" ELSE status[p]]
          /\ table' = [p \in Orders |-> IF p \in children THEN table[o] ELSE table[p]]
          /\ lineOrder' = [l \in Lines |->
               IF l \in LinesOf(o) \ rest THEN f[SeatOf[l]] ELSE lineOrder[l]]
          /\ billed' = [p \in Orders |-> IF p = o THEN rest
               ELSE IF p \in children THEN of(seat(p)) ELSE billed[p]]
    BY DEF SplitOrderBySeat
  <1> DEFINE children == {f[n] : n \in seats}
  <1>3. children \in SUBSET NewOrders /\ \A l \in LinesOf(o) \ rest : f[SeatOf[l]] \in NewOrders
    BY <1>2 DEF Injections
  <1>4. ASSUME NEW p \in Created \ {o} PROVE total'[p] = total[p] /\ LinesOf(p)' = LinesOf(p)
    <2>1. p \in Orders /\ p # o /\ p \notin NewOrders
      BY DEF Created, NewOrders
    <2>2. total'[p] = total[p]
      <3> HIDE DEF of, rest
      <3>1. QED
        BY <1>2, <1>3, <2>1 DEF total
    <2>3. LinesOf(p)' = LinesOf(p)
      BY <1>2, <1>3, <2>1 DEF LinesOf
    <2>4. QED
      BY <2>2, <2>3
  <1> HIDE DEF children
  <1>5. /\ status' = [p \in Orders |-> IF p \in children THEN "billed" ELSE status[p]]
        /\ table' = [p \in Orders |-> IF p \in children THEN table[o] ELSE table[p]]
    BY <1>2 DEF children
  <1>6. QED
    BY <1>1, <1>3, <1>4, <1>5

\* What a payment makes of a bill whose copy is current.
LEMMA PaymentCovers ==
  ASSUME IInv, CopiesCurrent, NEW r \in Terminals, NEW a \in Amounts, TakePayment(r, a)
  PROVE  LET o == pos[r].order IN
         /\ o \in Created
         /\ paid' = [paid EXCEPT ![o] = @ + a] /\ a > 0 /\ a \in Int
         /\ total' = total
         /\ \/ /\ status' = [status EXCEPT ![o] = "paid"]
               /\ total[o] > 0 /\ paid[o] + a >= total[o]
               /\ tableStatus' = VacateTable(o, "cleaning")
            \/ UNCHANGED <<status, tableStatus>>
  <1> DEFINE o == pos[r].order
             grand == IF pos[r].status = "paid" THEN pos[r].total ELSE Total[LinesOf(o)]
  <1>1. o \in Created /\ o \in Orders /\ a \in Int /\ a > 0
    BY AmountsAssumption DEF IInv, TypeOK, CopiesOK, TakePayment, Holds, Created
  <1>2. grand = total[o]
    BY <1>1 DEF CopiesCurrent, TakePayment, Holds, IInv, TotalsMatchLines
  <1>3. total' = total
    BY PaymentKeepsAmounts
  <1>4. paid' = [paid EXCEPT ![o] = @ + a]
    BY DEF TakePayment
  <1>5. CASE FullyPaid(grand, paid[o] + a)
    <2>1. total[o] > 0 /\ paid[o] + a >= total[o]
      BY <1>2, <1>5 DEF FullyPaid
    <2>2. status' = [status EXCEPT ![o] = "paid"] /\ tableStatus' = VacateTable(o, "cleaning")
      BY <1>5 DEF TakePayment
    <2>3. QED
      BY <1>1, <1>3, <1>4, <2>1, <2>2
  <1>6. CASE ~FullyPaid(grand, paid[o] + a)
    <2>1. UNCHANGED <<status, tableStatus>>
      BY <1>6 DEF TakePayment
    <2>2. QED
      BY <1>1, <1>3, <1>4, <2>1
  <1>7. QED
    BY <1>5, <1>6

\* A held order that the copy calls open is open.
LEMMA HeldIsOpen ==
  ASSUME IInv, CopiesCurrent, NEW r \in Terminals, HeldOpen(r)
  PROVE  pos[r].order \in Orders /\ IsOpen(pos[r].order)
  BY DEF IInv, TypeOK, CopiesCurrent, HeldOpen, Holds, IsOpen

\* Sending changes the status of an order to "sent" only from "open".
LEMMA SendOpens ==
  ASSUME IInv, CopiesCurrent, NEW r \in Terminals, SendToStations(r)
  PROVE  \A o \in Orders : status'[o] = status[o] \/ (status[o] = "open" /\ status'[o] = "sent")
  BY DEF SendToStations, AfterSend, IInv, TypeOK, CopiesCurrent, Holds

LEMMA CoveredStep == IInv /\ CopiesCurrent /\ PaidIsCovered /\ [Next]_vars => PaidIsCovered'
  <1> SUFFICES ASSUME IInv, CopiesCurrent, PaidIsCovered, [Next]_vars,
                      NEW o \in Orders, status'[o] = "paid"
               PROVE  total'[o] > 0 /\ paid'[o] >= total'[o]
    BY DEF PaidIsCovered
  <1> USE DEF PaidIsCovered
  <1>1. ASSUME NEW p \in Orders, NEW t \in Tables \cup {NoTable},
               NEW v \in Reservations \cup {NoReservation}, OpenOrder(p, t, v)
        PROVE  total'[o] > 0 /\ paid'[o] >= total'[o]
    BY <1>1 DEF OpenOrder, total, IInv, TypeOK
  <1>2. ASSUME NEW r \in Terminals, NEW l \in Lines, AddLine(r, l)
        PROVE  total'[o] > 0 /\ paid'[o] >= total'[o]
    <2>1. IsOpen(pos[r].order) /\ status[o] = "paid"
      BY <1>2, HeldIsOpen DEF AddLine
    <2>2. o # pos[r].order
      BY <2>1 DEF IsOpen
    <2>3. QED
      BY <1>2, <2>1, <2>2 DEF AddLine, Recalc, total, IInv, TypeOK
  <1>3. ASSUME NEW r \in Terminals, SendToStations(r)
        PROVE  total'[o] > 0 /\ paid'[o] >= total'[o]
    BY <1>3, SendOpens DEF SendToStations, total
  <1>4. ASSUME NEW s \in Screens, NEW new \in BumpStatuses, BumpTicket(s, new)
        PROVE  total'[o] > 0 /\ paid'[o] >= total'[o]
    BY <1>4 DEF BumpTicket, total, IInv, TypeOK
  <1>5. ASSUME NEW r \in Terminals, SplitOrderBySeat(r)
        PROVE  total'[o] > 0 /\ paid'[o] >= total'[o]
    <2>1. o \in Created /\ status[o] = "paid"
      BY <1>5, SplitSpares DEF Created
    <2>2. o # pos[r].order
      BY <1>5, <2>1, HeldIsOpen DEF SplitOrderBySeat, IsOpen
    <2>3. total'[o] = total[o] /\ paid' = paid
      BY <1>5, <2>1, <2>2, SplitSpares DEF SplitOrderBySeat
    <2>4. QED
      BY <2>1, <2>3
  <1>6. ASSUME NEW r \in Terminals, NEW a \in Amounts, TakePayment(r, a)
        PROVE  total'[o] > 0 /\ paid'[o] >= total'[o]
    <2> DEFINE p == pos[r].order
    <2>1. /\ p \in Created
          /\ paid' = [paid EXCEPT ![p] = @ + a] /\ a > 0 /\ a \in Int
          /\ total' = total
          /\ \/ status' = [status EXCEPT ![p] = "paid"] /\ total[p] > 0 /\ paid[p] + a >= total[p]
             \/ status' = status
      BY <1>6, PaymentCovers
    <2> HIDE DEF p
    <2>2. p \in Orders /\ paid[p] \in Nat /\ paid[o] \in Nat /\ total[o] \in Nat
      BY <2>1, AmountsAreNat DEF IInv, TypeOK, Created
    <2>3. CASE o = p
      BY <2>1, <2>2, <2>3 DEF IInv, TypeOK
    <2>4. CASE o # p
      BY <2>1, <2>2, <2>4 DEF IInv, TypeOK
    <2>5. QED
      BY <2>3, <2>4
  <1>7. ASSUME NEW r \in Terminals, VoidOrder(r)
        PROVE  total'[o] > 0 /\ paid'[o] >= total'[o]
    BY <1>7 DEF VoidOrder, total, IInv, TypeOK
  <1>8. CASE UNCHANGED orderVars
    BY <1>8 DEF orderVars, total
  <1>9. QED
    BY <1>1, <1>2, <1>3, <1>4, <1>5, <1>6, <1>7, <1>8
       DEF Next, vars, LoadOrder, LoadTicket, FinishCleaning, Refused

LEMMA CoveredWhileCurrent == Spec /\ []CopiesCurrent => []PaidIsCovered
  <1>1. Init => PaidIsCovered
    BY DEF Init, PaidIsCovered
  <1>2. IInv /\ CopiesCurrent /\ PaidIsCovered /\ [Next]_vars => PaidIsCovered'
    BY CoveredStep
  <1>3. QED
    BY <1>1, <1>2, Invariance, PTL DEF Spec

\* take_payment closes an order only on payments that cover it, and no later
\* service charges a closed order: true when requests do not overlap, for a
\* copy from before the payment lets add_line raise a paid order's total.
THEOREM PaidCovered == OneRequest /\ Spec => []PaidIsCovered
  BY OneRequestIsCurrent, CoveredWhileCurrent, PTL
-----------------------------------------------------------------------------
\* An order that closes takes itself, and nobody else, off its table.
LEMMA VacatedIsEmpty ==
  ASSUME IInv, NEW o \in Orders, NEW new \in CLOSED, NEW s \in TableStatus,
         status' = [status EXCEPT ![o] = new], table' = table,
         tableStatus' = VacateTable(o, s), TableHeldWhileBillOpen
  PROVE  TableHeldWhileBillOpen'
  <1> SUFFICES ASSUME NEW t \in Tables, OpenOn(t)' # {}
               PROVE  tableStatus'[t] \notin {"free", "cleaning"}
    BY DEF TableHeldWhileBillOpen
  <1>1. OpenOn(t)' = OpenOn(t) \ {o}
    BY DEF OpenOn, IsOpen, IInv, TypeOK
  <1>2. tableStatus'[t] = tableStatus[t]
    BY <1>1 DEF VacateTable
  <1>3. QED
    BY <1>1, <1>2 DEF TableHeldWhileBillOpen

LEMMA HeldStep == IInv /\ CopiesCurrent /\ TableHeldWhileBillOpen /\ [Next]_vars => TableHeldWhileBillOpen'
  <1> SUFFICES ASSUME IInv, CopiesCurrent, TableHeldWhileBillOpen, [Next]_vars
               PROVE  TableHeldWhileBillOpen'
    OBVIOUS
  <1>1. ASSUME NEW p \in Orders, NEW t \in Tables \cup {NoTable},
               NEW v \in Reservations \cup {NoReservation}, OpenOrder(p, t, v)
        PROVE  TableHeldWhileBillOpen'
    <2> SUFFICES ASSUME NEW u \in Tables, OpenOn(u)' # {}
                 PROVE  tableStatus'[u] \notin {"free", "cleaning"}
      BY DEF TableHeldWhileBillOpen
    <2>1. CASE u = t
      BY <1>1, <2>1 DEF OpenOrder
    <2>2. CASE u # t
      <3>1. OpenOn(u)' \subseteq OpenOn(u)
        BY <1>1, <2>2 DEF OpenOrder, OpenOn, IsOpen, IInv, TypeOK
      <3>2. tableStatus'[u] = tableStatus[u]
        BY <1>1, <2>2 DEF OpenOrder
      <3>3. QED
        BY <3>1, <3>2 DEF TableHeldWhileBillOpen
    <2>3. QED
      BY <2>1, <2>2
  <1>2. ASSUME NEW r \in Terminals, NEW l \in Lines, AddLine(r, l)
        PROVE  TableHeldWhileBillOpen'
    BY <1>2 DEF AddLine, TableHeldWhileBillOpen, OpenOn, IsOpen
  <1>3. ASSUME NEW r \in Terminals, SendToStations(r)
        PROVE  TableHeldWhileBillOpen'
    <2>1. \A t \in Tables : OpenOn(t)' = OpenOn(t)
      BY <1>3, SendOpens DEF SendToStations, OpenOn, IsOpen
    <2>2. QED
      BY <1>3, <2>1 DEF SendToStations, roomVars, TableHeldWhileBillOpen
  <1>4. ASSUME NEW s \in Screens, NEW new \in BumpStatuses, BumpTicket(s, new)
        PROVE  TableHeldWhileBillOpen'
    <2> DEFINE o == kds[s].order
    <2>1. CASE UNCHANGED <<status, tableStatus>>
      BY <1>4, <2>1 DEF BumpTicket, TableHeldWhileBillOpen, OpenOn, IsOpen
    <2>2. CASE /\ status' = [status EXCEPT ![o] = "served"]
               /\ tableStatus' = [t \in Tables |-> IF t = table[o] THEN "served" ELSE tableStatus[t]]
      <3> SUFFICES ASSUME NEW u \in Tables, OpenOn(u)' # {}
                   PROVE  tableStatus'[u] \notin {"free", "cleaning"}
        BY DEF TableHeldWhileBillOpen
      <3>1. table' = table /\ o \in Orders
        BY <1>4 DEF BumpTicket, IInv, TypeOK
      <3>2. CASE u = table[o]
        BY <2>2, <3>2
      <3>3. CASE u # table[o]
        <4>1. OpenOn(u)' \subseteq OpenOn(u) /\ tableStatus'[u] = tableStatus[u]
          BY <2>2, <3>1, <3>3 DEF OpenOn, IsOpen, IInv, TypeOK
        <4>2. QED
          BY <4>1 DEF TableHeldWhileBillOpen
      <3>4. QED
        BY <3>2, <3>3
    <2>3. QED
      BY <1>4, <2>1, <2>2 DEF BumpTicket
  <1>5. ASSUME NEW r \in Terminals, SplitOrderBySeat(r)
        PROVE  TableHeldWhileBillOpen'
    <2> DEFINE o == pos[r].order
    <2>1. PICK children \in SUBSET NewOrders :
            /\ status' = [p \in Orders |-> IF p \in children THEN "billed" ELSE status[p]]
            /\ table' = [p \in Orders |-> IF p \in children THEN table[o] ELSE table[p]]
      BY <1>5, SplitSpares
    <2>2. HeldOpen(r) /\ tableStatus' = tableStatus
      BY <1>5 DEF SplitOrderBySeat, roomVars
    <2>3. o \in Orders /\ IsOpen(o)
      BY <2>2, HeldIsOpen
    <2>4. ASSUME NEW t \in Tables, OpenOn(t)' # {} PROVE OpenOn(t) # {}
      BY <2>1, <2>3, <2>4 DEF OpenOn, IsOpen
    <2>5. QED
      BY <2>2, <2>4 DEF TableHeldWhileBillOpen
  <1>6. ASSUME NEW r \in Terminals, NEW a \in Amounts, TakePayment(r, a)
        PROVE  TableHeldWhileBillOpen'
    <2> DEFINE o == pos[r].order
    <2>1. /\ o \in Created
          /\ \/ status' = [status EXCEPT ![o] = "paid"] /\ tableStatus' = VacateTable(o, "cleaning")
             \/ UNCHANGED <<status, tableStatus>>
      BY <1>6, PaymentCovers
    <2>2. o \in Orders /\ table' = table
      BY <1>6, <2>1 DEF TakePayment, Created
    <2>3. CASE UNCHANGED <<status, tableStatus>>
      BY <2>2, <2>3 DEF TableHeldWhileBillOpen, OpenOn, IsOpen
    <2>4. CASE status' = [status EXCEPT ![o] = "paid"] /\ tableStatus' = VacateTable(o, "cleaning")
      BY <2>2, <2>4, VacatedIsEmpty
    <2>5. QED
      BY <2>1, <2>3, <2>4
  <1>7. ASSUME NEW r \in Terminals, VoidOrder(r)
        PROVE  TableHeldWhileBillOpen'
    <2> DEFINE o == pos[r].order
    <2>1. /\ o \in Orders /\ table' = table
          /\ status' = [status EXCEPT ![o] = "void"] /\ tableStatus' = VacateTable(o, "free")
      BY <1>7 DEF VoidOrder, Holds, IInv, TypeOK
    <2>2. QED
      BY <2>1, VacatedIsEmpty
  <1>8. ASSUME NEW t \in Tables, FinishCleaning(t)
        PROVE  TableHeldWhileBillOpen'
    BY <1>8 DEF FinishCleaning, orderVars, TableHeldWhileBillOpen, OpenOn, IsOpen, IInv, TypeOK
  <1>9. CASE UNCHANGED <<orderVars, tableStatus>>
    BY <1>9 DEF orderVars, TableHeldWhileBillOpen, OpenOn, IsOpen
  <1>10. QED
    BY <1>1, <1>2, <1>3, <1>4, <1>5, <1>6, <1>7, <1>8, <1>9
       DEF Next, vars, roomVars, LoadOrder, LoadTicket, Refused

LEMMA HeldWhileCurrent == Spec /\ []CopiesCurrent => []TableHeldWhileBillOpen
  <1>1. Init => TableHeldWhileBillOpen
    BY DEF Init, TableHeldWhileBillOpen, OpenOn, IsOpen
  <1>2. IInv /\ CopiesCurrent /\ TableHeldWhileBillOpen /\ [Next]_vars => TableHeldWhileBillOpen'
    BY HeldStep
  <1>3. QED
    BY <1>1, <1>2, Invariance, PTL DEF Spec

\* Paying, voiding and splitting keep a table while any bill is open on it, as
\* long as requests do not overlap.
THEOREM TableHeld == OneRequest /\ Spec => []TableHeldWhileBillOpen
  BY OneRequestIsCurrent, HeldWhileCurrent, PTL
-----------------------------------------------------------------------------
\* Money is never taken off a bill; a bill that was paid something exists and
\* keeps its lines, for split_order_by_seat asks for payments in its transaction.
LEMMA PaidKeepsLines ==
  ASSUME IInv, [Next]_vars, NEW o \in Orders, paid[o] > 0
  PROVE  /\ status[o] # "none"
         /\ paid'[o] > 0
         /\ LinesOf(o) \subseteq LinesOf(o)'
  <1>1. status[o] # "none"
    BY DEF IInv, NewOrdersBlank, NewOrders, Created
  <1>2. ASSUME NEW r \in Terminals, NEW l \in Lines, AddLine(r, l)
        PROVE  paid'[o] > 0 /\ LinesOf(o) \subseteq LinesOf(o)'
    BY <1>2, SentinelAssumption DEF AddLine, LinesOf, IInv, TypeOK
  <1>3. ASSUME NEW r \in Terminals, SplitOrderBySeat(r)
        PROVE  paid'[o] > 0 /\ LinesOf(o) \subseteq LinesOf(o)'
    <2>1. paid[pos[r].order] = 0 /\ paid' = paid
      BY <1>3 DEF SplitOrderBySeat, NothingPaid
    <2>2. o \in Created \ {pos[r].order}
      BY <1>1, <2>1 DEF Created
    <2>3. LinesOf(o)' = LinesOf(o)
      BY <1>3, <2>2, SplitSpares
    <2>4. QED
      BY <2>1, <2>3
  <1>4. ASSUME NEW r \in Terminals, NEW a \in Amounts, TakePayment(r, a)
        PROVE  paid'[o] > 0 /\ LinesOf(o) \subseteq LinesOf(o)'
    <2>1. paid' = [paid EXCEPT ![pos[r].order] = @ + a] /\ a > 0 /\ a \in Int /\ lineOrder' = lineOrder
      BY <1>4, AmountsAssumption DEF TakePayment, lineVars
    <2>2. QED
      BY <2>1 DEF LinesOf, IInv, TypeOK
  <1>5. CASE UNCHANGED <<paid, lineOrder>>
    BY <1>1, <1>5 DEF LinesOf
  <1>6. QED
    BY <1>1, <1>2, <1>3, <1>4, <1>5
       DEF Next, vars, orderVars, lineVars, OpenOrder, LoadOrder, LoadTicket, SendToStations,
           BumpTicket, VoidOrder, FinishCleaning, Refused

\* Only a payment makes a bill paid.
PaymentMade == \A o \in Orders : status[o] = "paid" => paid[o] > 0

LEMMA PaymentMadeStep == IInv /\ PaymentMade /\ [Next]_vars => PaymentMade'
  <1> SUFFICES ASSUME IInv, PaymentMade, [Next]_vars, NEW o \in Orders, status'[o] = "paid"
               PROVE  paid'[o] > 0
    BY DEF PaymentMade
  <1>1. CASE status[o] = "paid"
    BY <1>1, PaidKeepsLines DEF PaymentMade
  <1>2. CASE status[o] # "paid"
    <2>1. ASSUME NEW r \in Terminals, NEW a \in Amounts, TakePayment(r, a)
          PROVE  paid'[o] > 0
      <3>1. pos[r].order = o /\ paid' = [paid EXCEPT ![o] = @ + a] /\ a > 0 /\ a \in Int
        BY <1>2, <2>1, AmountsAssumption DEF TakePayment, IInv, TypeOK
      <3>2. QED
        BY <3>1 DEF IInv, TypeOK
    <2>2. ASSUME NEW r \in Terminals, SplitOrderBySeat(r) PROVE FALSE
      BY <1>2, <2>2, SplitSpares
    <2>3. ASSUME NEW r \in Terminals, SendToStations(r) PROVE FALSE
      BY <1>2, <2>3 DEF SendToStations, AfterSend, IInv, TypeOK
    <2>4. ASSUME NEW s \in Screens, NEW new \in BumpStatuses, BumpTicket(s, new) PROVE FALSE
      BY <1>2, <2>4 DEF BumpTicket, IInv, TypeOK
    <2>5. ASSUME NEW p \in Orders, NEW t \in Tables \cup {NoTable},
                 NEW v \in Reservations \cup {NoReservation}, OpenOrder(p, t, v)
          PROVE  FALSE
      BY <1>2, <2>5 DEF OpenOrder, IInv, TypeOK
    <2>6. ASSUME NEW r \in Terminals, VoidOrder(r) PROVE FALSE
      BY <1>2, <2>6 DEF VoidOrder, IInv, TypeOK
    <2>7. ~UNCHANGED status
      BY <1>2
    <2>8. QED
      BY <2>1, <2>2, <2>3, <2>4, <2>5, <2>6, <2>7
         DEF Next, vars, orderVars, LoadOrder, LoadTicket, AddLine, FinishCleaning, Refused
  <1>3. QED
    BY <1>1, <1>2

LEMMA PaymentWasMade == Spec => []PaymentMade
  <1>1. Init => PaymentMade
    BY DEF Init, PaymentMade
  <1>2. QED
    BY <1>1, PaymentMadeStep, Invariance, PTL DEF Spec
-----------------------------------------------------------------------------
(* A paid bill, whichever copies the requests hold.                        *)

\* No copy that calls a paid order open can split it: it was paid on.
LEMMA PaidNotSplit ==
  ASSUME IInv, PaymentMade, NEW r \in Terminals, SplitOrderBySeat(r),
         NEW o \in Orders, status[o] = "paid"
  PROVE  status'[o] = "paid" /\ SameBill(o)
  <1>1. o # pos[r].order
    BY DEF PaymentMade, SplitOrderBySeat, NothingPaid
  <1>2. o \in Created \ {pos[r].order} /\ o \notin NewOrders
    BY <1>1 DEF Created, NewOrders
  <1>3. QED
    BY <1>2, SplitSpares DEF SameBill

LEMMA PaidStaysStep ==
  IInv /\ PaymentMade /\ [Next]_vars =>
    [\A o \in Orders : status[o] = "paid" =>
       \/ status'[o] \in {"paid", "void"} /\ SameBill(o)
       \/ ServedLate(o) \/ LateSend(o) \/ LateLine(o)]_vars
  <1> SUFFICES ASSUME IInv, PaymentMade, [Next]_vars, NEW o \in Orders, status[o] = "paid"
               PROVE  \/ status'[o] \in {"paid", "void"} /\ SameBill(o)
                      \/ ServedLate(o) \/ LateSend(o) \/ LateLine(o)
    OBVIOUS
  <1>1. ASSUME NEW p \in Orders, NEW t \in Tables \cup {NoTable},
               NEW v \in Reservations \cup {NoReservation}, OpenOrder(p, t, v)
        PROVE  status'[o] = "paid" /\ SameBill(o)
    BY <1>1 DEF OpenOrder, NewOrders, Created, SameBill, LinesOf, total, lineVars, IInv, TypeOK
  <1>2. ASSUME NEW r \in Terminals, NEW l \in Lines, AddLine(r, l)
        PROVE  status'[o] = "paid" /\ (SameBill(o) \/ LateLine(o))
    <2>1. pos[r].order \in Orders /\ status' = status /\ lineOrder[l] = NoOrder
          /\ lineOrder' = [lineOrder EXCEPT ![l] = pos[r].order]
      BY <1>2 DEF AddLine, HeldOpen, Holds, IInv, TypeOK
    <2>2. CASE o = pos[r].order
      <3>1. LoadedBefore(r, o)
        BY <1>2, <2>2 DEF AddLine, HeldOpen, Holds, LoadedBefore
      <3>2. l \in Lines \ LinesOf(o) /\ LinesOf(o)' = LinesOf(o) \cup {l}
        BY <2>1, <2>2, SentinelAssumption DEF LinesOf, IInv, TypeOK
      <3>3. QED
        BY <2>1, <3>1, <3>2 DEF LateLine
    <2>3. CASE o # pos[r].order
      <3>1. LinesOf(o)' = LinesOf(o)
        BY <2>1, <2>3, SentinelAssumption DEF LinesOf, IInv, TypeOK
      <3>2. total'[o] = total[o]
        BY <1>2, <2>1, <2>3 DEF AddLine, Recalc, total, IInv, TypeOK
      <3>3. QED
        BY <2>1, <3>1, <3>2 DEF SameBill
    <2>4. QED
      BY <2>2, <2>3
  <1>3. ASSUME NEW r \in Terminals, SendToStations(r)
        PROVE  (status'[o] = "paid" /\ SameBill(o)) \/ LateSend(o)
    <2>1. SameBill(o)
      BY <1>3 DEF SendToStations, SameBill, LinesOf, total
    <2>2. CASE status' = status
      BY <2>1, <2>2
    <2>3. CASE status' # status
      <3>1. pos[r] # Idle /\ pos[r].status = "open" /\ status' = [status EXCEPT ![pos[r].order] = "sent"]
        BY <1>3, <2>3 DEF SendToStations, AfterSend, Holds
      <3>2. CASE o = pos[r].order
        <4>1. LoadedBefore(r, o) /\ status'[o] = "sent"
          BY <3>1, <3>2 DEF LoadedBefore, IInv, TypeOK
        <4>2. QED
          BY <2>1, <3>1, <4>1 DEF LateSend
      <3>3. CASE o # pos[r].order
        BY <2>1, <3>1, <3>3 DEF IInv, TypeOK
      <3>4. QED
        BY <3>2, <3>3
    <2>4. QED
      BY <2>2, <2>3
  <1>4. ASSUME NEW s \in Screens, NEW new \in BumpStatuses, BumpTicket(s, new)
        PROVE  (status'[o] = "paid" /\ SameBill(o)) \/ ServedLate(o)
    <2> DEFINE k == kds[s].ticket
    <2>1. SameBill(o) /\ ticketOrder' = ticketOrder
      BY <1>4 DEF BumpTicket, SameBill, LinesOf, total, lineVars
    <2>2. CASE status'[o] = "paid"
      BY <2>1, <2>2
    <2>3. CASE status'[o] # "paid"
      <3>1. /\ new = "served" /\ status'[o] = "served" /\ kds[s] # Idle /\ kds[s].order = o
            /\ \A j \in TicketsOf(o) : ticketStatus'[j] \in {"served", "cancelled"}
        BY <1>4, <2>3 DEF BumpTicket, IInv, TypeOK
      <3>2. ticketStatus'[k] = "served"
        BY <1>4, <3>1 DEF BumpTicket, IInv, TypeOK
      <3>3. QED
        BY <2>1, <3>1, <3>2 DEF ServedLate
    <2>4. QED
      BY <2>2, <2>3
  <1>5. ASSUME NEW r \in Terminals, SplitOrderBySeat(r)
        PROVE  status'[o] = "paid" /\ SameBill(o)
    BY <1>5, PaidNotSplit
  <1>6. ASSUME NEW r \in Terminals, NEW a \in Amounts, TakePayment(r, a)
        PROVE  status'[o] = "paid" /\ SameBill(o)
    <2>1. total' = total /\ LinesOf(o)' = LinesOf(o)
      BY <1>6, PaymentKeepsAmounts DEF TakePayment, lineVars, LinesOf
    <2>2. status'[o] = "paid"
      BY <1>6 DEF TakePayment, IInv, TypeOK
    <2>3. QED
      BY <2>1, <2>2 DEF SameBill
  <1>7. ASSUME NEW r \in Terminals, VoidOrder(r)
        PROVE  status'[o] \in {"paid", "void"} /\ SameBill(o)
    BY <1>7 DEF VoidOrder, SameBill, LinesOf, total, lineVars, IInv, TypeOK
  <1>8. CASE UNCHANGED <<orderVars, lineVars>>
    BY <1>8 DEF orderVars, lineVars, LinesOf, total, SameBill
  <1>9. QED
    BY <1>1, <1>2, <1>3, <1>4, <1>5, <1>6, <1>7, <1>8
       DEF Next, vars, LoadOrder, LoadTicket, FinishCleaning, Refused

\* Whatever requests overlap, a paid bill changes only by being voided or by a
\* late serving, sending or entering of a line; it never loses a line, for
\* split_order_by_seat asks for payments inside its transaction.
THEOREM PaidBillFinal == Spec => PaidBillStays
  BY PaidStaysStep, PaymentWasMade, Invariance, PTL DEF Spec, PaidBillStays
-----------------------------------------------------------------------------
\* A copy that calls its order paid shows no more than the order's amount: a
\* bill that was paid on only ever gets lines.
PaidCopies ==
  \A r \in Terminals : pos[r] # Idle /\ pos[r].status = "paid" =>
    paid[pos[r].order] > 0 /\ pos[r].total <= total[pos[r].order]

LEMMA PaidOnGrows ==
  ASSUME IInv, IInv', [Next]_vars, NEW o \in Orders, paid[o] > 0
  PROVE  paid'[o] > 0 /\ total[o] <= total'[o]
  <1>1. paid'[o] > 0 /\ LinesOf(o) \subseteq LinesOf(o)'
    BY PaidKeepsLines
  <1>2. total[o] = Total[LinesOf(o)] /\ total'[o] = Total[LinesOf(o)']
    BY DEF IInv, TotalsMatchLines
  <1>3. LinesOf(o) \in SUBSET Lines /\ LinesOf(o)' \in SUBSET Lines
    BY DEF LinesOf
  <1>4. QED
    BY <1>1, <1>2, <1>3, MonotoneAssumption

LEMMA PaidCopiesStep ==
  IInv /\ IInv' /\ PaymentMade /\ PaidCopies /\ [Next]_vars => PaidCopies'
  <1> SUFFICES ASSUME IInv, IInv', PaymentMade, PaidCopies, [Next]_vars,
                      NEW r \in Terminals, pos'[r] # Idle, pos'[r].status = "paid"
               PROVE  paid'[pos'[r].order] > 0 /\ pos'[r].total <= total'[pos'[r].order]
    BY DEF PaidCopies
  <1> DEFINE o == pos'[r].order
  <1>1. o \in Orders /\ pos'[r].total \in Nat /\ total[o] \in Nat /\ total'[o] \in Nat
    BY AmountsAreNat, TotalIsNat DEF IInv, TypeOK, total
  <1>2. CASE pos'[r] = pos[r]
    <2>1. paid[o] > 0 /\ pos'[r].total <= total[o]
      BY <1>2 DEF PaidCopies
    <2>2. paid'[o] > 0 /\ total[o] <= total'[o]
      BY <1>1, <2>1, PaidOnGrows
    <2>3. QED
      BY <1>1, <2>1, <2>2
  <1>3. CASE pos'[r] # pos[r]
    <2>1. PICK q \in Terminals, p \in Orders : LoadOrder(q, p)
      BY <1>3, CopyComesFromLoad
    <2>2. o = p /\ pos'[r].total = total[o] /\ status[o] = "paid" /\ paid' = paid /\ total' = total
      BY <1>3, <2>1 DEF LoadOrder, IInv, TypeOK, orderVars, total
    <2>3. QED
      BY <1>1, <2>2 DEF PaymentMade
  <1>4. QED
    BY <1>2, <1>3

LEMMA PaidCopiesHold == Spec => []PaidCopies
  <1>1. Init => PaidCopies
    BY DEF Init, PaidCopies
  <1>2. QED
    BY <1>1, PaidCopiesStep, PaymentWasMade, Invariance, PTL DEF Spec

\* What the debt test measures by is no more than the bill shows.
LEMMA PaymentMeasured ==
  ASSUME IInv, PaidCopies, NEW r \in Terminals, NEW a \in Amounts, TakePayment(r, a)
  PROVE  LET o == pos[r].order IN
         /\ paid' = [paid EXCEPT ![o] = @ + a] /\ a \in Int /\ o \in Orders
         /\ a <= AmountDue(total'[o], paid[o]) + TWO_PLACES
  <1> DEFINE o == pos[r].order
             grand == IF pos[r].status = "paid" THEN pos[r].total ELSE Total[LinesOf(o)]
  <1>1. /\ o \in Orders /\ a \in Int /\ paid[o] \in Nat /\ pos[r].total \in Nat
        /\ total[o] \in Nat /\ total' = total
    BY AmountsAssumption, AmountsAreNat, PaymentKeepsAmounts DEF IInv, TypeOK, TakePayment, Holds
  <1>2. grand <= total[o] /\ grand \in Nat
    BY <1>1 DEF PaidCopies, IInv, TotalsMatchLines, TakePayment, Holds
  <1>3. a <= AmountDue(grand, paid[o]) + TWO_PLACES /\ paid' = [paid EXCEPT ![o] = @ + a]
    BY DEF TakePayment
  <1> HIDE DEF grand, o
  <1>4. AmountDue(grand, paid[o]) <= AmountDue(total[o], paid[o])
    BY <1>1, <1>2 DEF AmountDue
  <1>5. AmountDue(grand, paid[o]) \in Nat /\ AmountDue(total[o], paid[o]) \in Nat
    BY <1>1, <1>2 DEF AmountDue
  <1>6. a <= AmountDue(total'[o], paid[o]) + TWO_PLACES
    BY <1>1, <1>3, <1>4, <1>5 DEF TWO_PLACES
  <1>7. QED
    BY <1>1, <1>3, <1>6 DEF o

LEMMA CollectedStep ==
  IInv /\ PaidCopies /\ [Next]_vars =>
    [\A o \in Orders : \/ paid'[o] <= total'[o] + TWO_PLACES
                       \/ paid'[o] - paid[o] <= TWO_PLACES]_vars
  <1> SUFFICES ASSUME IInv, PaidCopies, [Next]_vars, NEW o \in Orders
               PROVE  \/ paid'[o] <= total'[o] + TWO_PLACES
                      \/ paid'[o] - paid[o] <= TWO_PLACES
    OBVIOUS
  <1>1. paid[o] \in Nat
    BY DEF IInv, TypeOK
  <1>2. CASE paid'[o] = paid[o]
    BY <1>1, <1>2 DEF TWO_PLACES
  <1>3. ASSUME NEW r \in Terminals, NEW a \in Amounts, TakePayment(r, a), paid'[o] # paid[o]
        PROVE  \/ paid'[o] <= total'[o] + TWO_PLACES
               \/ paid'[o] - paid[o] <= TWO_PLACES
    <2>1. /\ paid' = [paid EXCEPT ![pos[r].order] = @ + a] /\ a \in Int /\ pos[r].order \in Orders
          /\ a <= AmountDue(total'[pos[r].order], paid[pos[r].order]) + TWO_PLACES
      BY <1>3, PaymentMeasured
    <2>2. o = pos[r].order
      BY <1>3, <2>1 DEF IInv, TypeOK
    <2>3. paid'[o] = paid[o] + a /\ a <= AmountDue(total'[o], paid[o]) + TWO_PLACES
      BY <2>1, <2>2 DEF IInv, TypeOK
    <2>4. total'[o] \in Nat
      BY <1>3, PaymentKeepsAmounts, AmountsAreNat DEF IInv
    <2>5. QED
      BY <1>1, <2>1, <2>3, <2>4 DEF AmountDue, TWO_PLACES
  <1>4. QED
    BY <1>2, <1>3
       DEF Next, vars, orderVars, lineVars, OpenOrder, LoadOrder, LoadTicket, AddLine,
           SendToStations, BumpTicket, SplitOrderBySeat, VoidOrder, FinishCleaning, Refused

\* No payment takes more than a hundredth beyond what the bill still asks for,
\* whatever requests overlap and however old the total in a copy is.
THEOREM DebtCollectedOnce == Spec => CollectedOnce
  BY CollectedStep, PaidCopiesHold, Invariance, PTL DEF Spec, CollectedOnce
-----------------------------------------------------------------------------
(* The closing of days.  The frozen tables of a day agree, no line is sold *)
(* twice and closed days stay as they are, whichever stale copies of orders*)
(* and of days the requests act on.                                        *)

\* The figures frozen for a day are tables over one set of orders.
FiguresOK(d) ==
  \E S \in SUBSET Orders :
    /\ summary[d] \in [net : [S -> Nat], tax : [S -> Nat]]
    /\ snapshot[d] \in [net : [S -> Nat], service : [S -> Nat],
                        lines : [S -> SUBSET Lines], voided : SUBSET Orders]

\* The two frozen tables of a day tell the same.
AgreeOn(d) ==
  /\ DOMAIN DailySales(d).byCategory = Summed(d)
  /\ \A o \in Summed(d) :
       /\ DailySales(d).net[o] = summary[d].net[o]
       /\ DailySales(d).byCategory[o] + snapshot[d].service[o]
            = summary[d].net[o] + summary[d].tax[o]

\* The frozen figures are tables over the days.
PerDay == DOMAIN summary = Days /\ DOMAIN snapshot = Days

\* The inductive invariant of the composition, beside those of Orders.
DayIInv == DayTypeOK /\ PerDay /\ FrozenReportsAgree

\* A step of the composition is a step of the order services or leaves them
\* alone, so their theorems hold in it.
LEMMA DayImplementsOrders == DaySpec => Spec
<1>1. DayInit => Init
  BY DEF DayInit
<1>2. [DayNext]_allVars => [Next]_vars
  BY DEF DayNext, allVars, OrderService, Midnight, GetOrOpenBusinessDay, LoadDay,
         CloseBusinessDay, RefuseClose
<1> QED
  BY <1>1, <1>2, PTL DEF DaySpec, Spec

LEMMA OrdersInvariant == DaySpec => []IInv
  BY DayImplementsOrders, Invariance, PTL

LEMMA DayInitIInv == DayInit /\ TypeOK => DayIInv
<1> SUFFICES ASSUME DayInit, TypeOK PROVE DayIInv
  OBVIOUS
<1>1. ASSUME NEW d \in Days PROVE FiguresOK(d) /\ AgreeOn(d)
  <2>1. summary[d] = NoSummary /\ snapshot[d] = NoSnapshot
    BY DEF DayInit
  <2>2. NoSummary \in [net : [{} -> Nat], tax : [{} -> Nat]]
    BY DEF NoSummary
  <2>3. NoSnapshot \in [net : [{} -> Nat], service : [{} -> Nat],
                        lines : [{} -> SUBSET Lines], voided : SUBSET Orders]
    BY DEF NoSnapshot
  <2>4. FiguresOK(d)
    BY <2>1, <2>2, <2>3 DEF FiguresOK
  <2>5. AgreeOn(d)
    BY <2>1 DEF AgreeOn, DailySales, Summed, NoSummary, NoSnapshot
  <2> QED
    BY <2>4, <2>5
<1>2. DayTypeOK
  <2>1. 1 \in Days
    BY DayAssumption DEF Days
  <2> QED
    BY <1>1, <2>1 DEF DayInit, DayTypeOK, FiguresOK
<1>3. PerDay
  BY DEF DayInit, PerDay
<1>4. FrozenReportsAgree
  BY <1>1 DEF FrozenReportsAgree, AgreeOn
<1> QED
  BY <1>2, <1>3, <1>4 DEF DayIInv
-----------------------------------------------------------------------------
\* Closing a day freezes the figures of its date as they are, and no others.
LEMMA CloseFreezes ==
  ASSUME DayIInv, NEW m \in Managers, CloseBusinessDay(m)
  PROVE  \E d \in Days :
           /\ d = desk[m].day
           /\ summary'[d] = SummaryOf(d) /\ snapshot'[d] = SnapshotOf(d)
           /\ \A e \in Days \ {d} : summary'[e] = summary[e] /\ snapshot'[e] = snapshot[e]
           /\ PerDay'
           /\ UNCHANGED <<vars, openedOn>>
<1> DEFINE d == desk[m].day
           sold == SummaryOf(d)
           told == SnapshotOf(d)
<1>1. d \in Days
  BY DEF DayIInv, DayTypeOK, CloseBusinessDay, HoldsOpenDay
<1>2. summary' = [summary EXCEPT ![d] = sold] /\ snapshot' = [snapshot EXCEPT ![d] = told]
  BY DEF CloseBusinessDay
<1>3. DOMAIN summary = Days /\ DOMAIN snapshot = Days
  BY DEF DayIInv, PerDay
<1>4. UNCHANGED <<vars, openedOn>>
  BY DEF CloseBusinessDay
<1> HIDE DEF sold, told
<1>5. summary'[d] = sold /\ snapshot'[d] = told
  BY <1>1, <1>2, <1>3
<1>6. \A e \in Days \ {d} : summary'[e] = summary[e] /\ snapshot'[e] = snapshot[e]
  BY <1>2, <1>3
<1>7. PerDay'
  BY <1>2, <1>3 DEF PerDay
<1> QED
  BY <1>1, <1>4, <1>5, <1>6, <1>7 DEF sold, told

\* The columns of an order with the lines recalculate() took them from.
LEMMA ColumnsOf ==
  ASSUME IInv, NEW o \in Orders
  PROVE  LET S == LinesOf(o) IN
         /\ S \in SUBSET Lines
         /\ {Subtotal[S], Service[S], Tax[S], LineTotals[S], Turnover[S]} \subseteq Nat
         /\ total[o] = Subtotal[S] + Service[S] + Tax[S]
         /\ TaxTotal(o) = Tax[S] /\ ServiceCharge(o) = Service[S]
         /\ LineTotals[S] = Subtotal[S] + Tax[S]
         /\ 2 * Distance(Turnover[S], 1000 * Subtotal[S]) <= 1000 * Cardinality(S)
<1> DEFINE S == LinesOf(o)
<1>1. S \in SUBSET Lines /\ billed[o] = S
  BY DEF LinesOf, IInv, BilledAreLines
<1>2. total[o] = Total[S] /\ TaxTotal(o) = Tax[S] /\ ServiceCharge(o) = Service[S]
  BY <1>1 DEF total, TaxTotal, ServiceCharge
<1> HIDE DEF S
<1>3. /\ {Subtotal[S], Service[S], Tax[S], LineTotals[S], Turnover[S]} \subseteq Nat
      /\ Total[S] = Subtotal[S] + Service[S] + Tax[S]
      /\ LineTotals[S] = Subtotal[S] + Tax[S]
      /\ 2 * Distance(Turnover[S], 1000 * Subtotal[S]) <= 1000 * Cardinality(S)
  BY <1>1, ColumnsAssumption
<1> QED
  BY <1>1, <1>2, <1>3 DEF S

\* What closing freezes: the sales by category, summed from the lines, tell the
\* same as the columns of the orders, which were taken from these lines.
LEMMA FreezesAgreeing ==
  ASSUME IInv, NEW d \in Days, summary'[d] = SummaryOf(d), snapshot'[d] = SnapshotOf(d)
  PROVE  FiguresOK(d)' /\ AgreeOn(d)'
<1> DEFINE P == PaidOf(d)
<1>1. P \in SUBSET Orders
  BY DEF PaidOf, OpenedOn
<1>2. /\ summary'[d].net = [o \in P |-> total[o] - TaxTotal(o)]
      /\ summary'[d].tax = [o \in P |-> TaxTotal(o)]
      /\ snapshot'[d].net = summary'[d].net
      /\ snapshot'[d].service = [o \in P |-> ServiceCharge(o)]
      /\ snapshot'[d].lines = [o \in P |-> LinesOf(o)]
      /\ DOMAIN summary'[d].net = P
  BY DEF SummaryOf, SnapshotOf, NetSales, ReportedLines
<1>3. ASSUME NEW o \in P
      PROVE  /\ total[o] - TaxTotal(o) \in Nat /\ TaxTotal(o) \in Nat /\ ServiceCharge(o) \in Nat
             /\ LinesOf(o) \in SUBSET Lines
             /\ LineTotals[LinesOf(o)] + ServiceCharge(o) = (total[o] - TaxTotal(o)) + TaxTotal(o)
  <2> DEFINE S == LinesOf(o)
  <2>1. /\ Subtotal[S] \in Nat /\ Service[S] \in Nat /\ Tax[S] \in Nat /\ LineTotals[S] \in Nat
        /\ total[o] = Subtotal[S] + Service[S] + Tax[S]
        /\ TaxTotal(o) = Tax[S] /\ ServiceCharge(o) = Service[S]
        /\ LineTotals[S] = Subtotal[S] + Tax[S] /\ S \in SUBSET Lines
    BY <1>1, <1>3, ColumnsOf
  <2> HIDE DEF S
  <2>2. total[o] - TaxTotal(o) \in Nat
    BY <2>1
  <2>3. LineTotals[S] + ServiceCharge(o) = (total[o] - TaxTotal(o)) + TaxTotal(o)
    BY <2>1
  <2> QED
    BY <2>1, <2>2, <2>3 DEF S
<1>4. FiguresOK(d)'
  <2>1. SummaryOf(d) \in [net : [P -> Nat], tax : [P -> Nat]]
    BY <1>3 DEF SummaryOf, NetSales
  <2>2. NetSales(d) \in [P -> Nat]
    BY <1>3 DEF NetSales
  <2>3. [o \in P |-> ServiceCharge(o)] \in [P -> Nat]
    BY <1>3
  <2>4. [o \in P |-> ReportedLines(o)] \in [P -> SUBSET Lines]
    BY <1>3 DEF ReportedLines
  <2>5. {o \in OpenedOn(d) : status[o] = "void"} \in SUBSET Orders
    BY DEF OpenedOn
  <2>6. SnapshotOf(d) \in [net : [P -> Nat], service : [P -> Nat],
                           lines : [P -> SUBSET Lines], voided : SUBSET Orders]
    BY <2>2, <2>3, <2>4, <2>5 DEF SnapshotOf, SummaryOf
  <2> HIDE DEF P
  <2> QED
    BY <1>1, <2>1, <2>6 DEF FiguresOK
<1>5. AgreeOn(d)'
  <2> HIDE DEF P
  <2> QED
    BY <1>2, <1>3 DEF AgreeOn, DailySales, Summed
<1> QED
  BY <1>4, <1>5

LEMMA KeepsAgreeing ==
  ASSUME NEW d \in Days, summary'[d] = summary[d], snapshot'[d] = snapshot[d],
         FiguresOK(d), AgreeOn(d)
  PROVE  FiguresOK(d)' /\ AgreeOn(d)'
<1>1. FiguresOK(d)'
  BY DEF FiguresOK
<1>2. AgreeOn(d)'
  BY DEF AgreeOn, DailySales, Summed
<1> QED
  BY <1>1, <1>2

LEMMA DayStep == DayIInv /\ IInv /\ IInv' /\ [DayNext]_allVars => DayIInv'
<1> SUFFICES ASSUME DayIInv, IInv, IInv', [DayNext]_allVars
             PROVE  DayIInv'
  OBVIOUS
<1>1. (today \in Days)'
  <2>1. today \in 1 .. LastDay
    BY DEF DayIInv, DayTypeOK, Days
  <2>2. today' = today \/ (today < LastDay /\ today' = today + 1)
    BY DEF DayNext, allVars, OrderService,
       Midnight, GetOrOpenBusinessDay, LoadDay, CloseBusinessDay, RefuseClose
  <2> QED
    BY <2>1, <2>2, DayAssumption DEF Days
<1>2. (openedOn \in [Orders -> Days \cup {NoDay}])'
  BY DEF DayIInv, DayTypeOK, DayNext, allVars, dayVars, OrderService,
     Midnight, GetOrOpenBusinessDay, LoadDay, CloseBusinessDay, RefuseClose
<1>3. (dayStatus \in [Days -> {"none", "open", "closed"}])'
  BY DEF DayIInv, DayTypeOK, DayNext, allVars, dayVars, OrderService,
     Midnight, GetOrOpenBusinessDay, LoadDay, CloseBusinessDay, RefuseClose
<1>4. (desk \in [Managers -> [day : Days, status : {"open", "closed"}] \cup {Idle}])'
  <2>1. ASSUME NEW m \in Managers, NEW d \in Days, LoadDay(m, d)
        PROVE  desk' \in [Managers -> [day : Days, status : {"open", "closed"}] \cup {Idle}]
    <3>1. dayStatus[d] \in {"open", "closed"}
      BY <2>1 DEF DayIInv, DayTypeOK, LoadDay
    <3>2. [day |-> d, status |-> dayStatus[d]] \in [day : Days, status : {"open", "closed"}]
      BY <3>1
    <3> QED
      BY <2>1, <3>2 DEF DayIInv, DayTypeOK, LoadDay
  <2> QED
    BY <2>1 DEF DayIInv, DayTypeOK, DayNext, allVars, dayVars, OrderService,
       Midnight, GetOrOpenBusinessDay, CloseBusinessDay, RefuseClose
<1>5. \A d \in Days : FiguresOK(d) /\ AgreeOn(d)
  BY DEF DayIInv, DayTypeOK, FrozenReportsAgree, FiguresOK, AgreeOn
<1>6. PerDay' /\ \A d \in Days : FiguresOK(d)' /\ AgreeOn(d)'
  <2>1. CASE UNCHANGED <<summary, snapshot>>
    BY <1>5, <2>1, KeepsAgreeing DEF DayIInv, PerDay
  <2>2. ASSUME NEW m \in Managers, CloseBusinessDay(m)
        PROVE  PerDay' /\ \A d \in Days : FiguresOK(d)' /\ AgreeOn(d)'
    <3>1. PICK d \in Days :
            /\ summary'[d] = SummaryOf(d) /\ snapshot'[d] = SnapshotOf(d)
            /\ \A e \in Days \ {d} : summary'[e] = summary[e] /\ snapshot'[e] = snapshot[e]
            /\ PerDay'
      BY <2>2, CloseFreezes
    <3>2. FiguresOK(d)' /\ AgreeOn(d)'
      BY <3>1, FreezesAgreeing
    <3>3. \A e \in Days \ {d} : FiguresOK(e)' /\ AgreeOn(e)'
      BY <1>5, <3>1, KeepsAgreeing
    <3> QED
      BY <3>1, <3>2, <3>3
  <2> QED
    BY <2>1, <2>2 DEF DayNext, allVars, dayVars, OrderService, Midnight,
       GetOrOpenBusinessDay, LoadDay, RefuseClose
<1>7. DayTypeOK'
  BY <1>1, <1>2, <1>3, <1>4, <1>6 DEF DayTypeOK, FiguresOK, IInv
<1>8. FrozenReportsAgree'
  BY <1>6 DEF FrozenReportsAgree, AgreeOn
<1> QED
  BY <1>6, <1>7, <1>8 DEF DayIInv

LEMMA DayInvariance == DaySpec => []DayIInv
<1>1. DayInit /\ IInv => DayIInv
  BY DayInitIInv DEF IInv
<1>2. DayIInv /\ IInv /\ IInv' /\ [DayNext]_allVars => DayIInv'
  BY DayStep
<1> QED
  BY <1>1, <1>2, OrdersInvariant, PTL DEF DaySpec
-----------------------------------------------------------------------------
\* Type correctness of the closing of days beside overlapping order services.
THEOREM DayTypeCorrect == DaySpec => []DayTypeOK
<1>1. DayIInv => DayTypeOK
  BY DEF DayIInv
<1> QED
  BY <1>1, DayInvariance, PTL

\* The reports of a day tell the same of every bill, whatever requests overlap:
\* the columns of an order, which the day end and the staff report sum, and the
\* amounts of its lines, which the category and the product reports sum, differ
\* by tax, service charge and rounding only, for recalculate() ran on these lines.
THEOREM ReportAlwaysAddsUp == DaySpec => []ReportAddsUp
<1>1. ASSUME IInv PROVE LiveReportsAgree
  <2> SUFFICES ASSUME NEW d \in Days, NEW o \in PaidOf(d)
               PROVE  2 * Distance(Turnover[LinesOf(o)],
                                   1000 * (total[o] - TaxTotal(o) - ServiceCharge(o)))
                        <= 1000 * Cardinality(LinesOf(o))
    BY DEF LiveReportsAgree, ProductSales, StaffPerformance, ReportedLines
  <2>1. o \in Orders
    BY DEF PaidOf, OpenedOn
  <2> DEFINE S == LinesOf(o)
  <2>2. /\ Subtotal[S] \in Nat /\ Service[S] \in Nat /\ Tax[S] \in Nat
        /\ total[o] = Subtotal[S] + Service[S] + Tax[S]
        /\ TaxTotal(o) = Tax[S] /\ ServiceCharge(o) = Service[S]
        /\ 2 * Distance(Turnover[S], 1000 * Subtotal[S]) <= 1000 * Cardinality(S)
    BY <1>1, <2>1, ColumnsOf
  <2> HIDE DEF S
  <2>3. total[o] - TaxTotal(o) - ServiceCharge(o) = Subtotal[S]
    BY <2>2
  <2> QED
    BY <2>2, <2>3 DEF S
<1>2. DayIInv /\ IInv => ReportAddsUp
  BY <1>1 DEF DayIInv, ReportAddsUp
<1> QED
  BY <1>2, DayInvariance, OrdersInvariant, PTL
-----------------------------------------------------------------------------
\* A bill in the figures of a day was opened on its date, has been paid on, and
\* still has the lines that were reported.
SoldStays ==
  \A d \in Days : \A o \in Summed(d) :
    /\ o \in Orders /\ openedOn[o] = d /\ paid[o] > 0
    /\ snapshot[d].lines[o] \subseteq LinesOf(o)

LEMMA SoldStaysStep ==
  DayIInv /\ IInv /\ PaymentMade /\ SoldStays /\ [DayNext]_allVars => SoldStays'
<1> SUFFICES ASSUME DayIInv, IInv, PaymentMade, SoldStays, [DayNext]_allVars
             PROVE  SoldStays'
  OBVIOUS
<1>1. CASE OrderService
  <2>1. UNCHANGED <<summary, snapshot>> /\ Next
    BY <1>1 DEF OrderService, dayVars
  <2>2. ASSUME NEW d \in Days, NEW o \in Summed(d)
        PROVE  /\ o \in Orders /\ openedOn'[o] = d /\ paid'[o] > 0
               /\ snapshot[d].lines[o] \subseteq LinesOf(o)'
    <3>1. o \in Orders /\ openedOn[o] = d /\ paid[o] > 0 /\ snapshot[d].lines[o] \subseteq LinesOf(o)
      BY DEF SoldStays
    <3>2. status[o] # "none" /\ paid'[o] > 0 /\ LinesOf(o) \subseteq LinesOf(o)'
      BY <2>1, <3>1, PaidKeepsLines
    <3>3. openedOn'[o] = openedOn[o]
      BY <1>1, <3>1, <3>2 DEF OrderService
    <3> QED
      BY <3>1, <3>2, <3>3
  <2> QED
    BY <2>1, <2>2 DEF SoldStays, Summed
<1>2. CASE UNCHANGED <<summary, snapshot, openedOn, vars>>
  BY <1>2 DEF SoldStays, Summed, LinesOf, vars, orderVars, lineVars
<1>3. ASSUME NEW m \in Managers, CloseBusinessDay(m)
      PROVE  SoldStays'
  <2>1. PICK d \in Days :
          /\ summary'[d] = SummaryOf(d) /\ snapshot'[d] = SnapshotOf(d)
          /\ \A e \in Days \ {d} : summary'[e] = summary[e] /\ snapshot'[e] = snapshot[e]
          /\ UNCHANGED <<vars, openedOn>>
    BY <1>3, CloseFreezes
  <2>2. UNCHANGED <<paid, lineOrder>>
    BY <2>1 DEF vars, orderVars, lineVars
  <2>3. Summed(d)' = PaidOf(d) /\ snapshot'[d].lines = [o \in PaidOf(d) |-> LinesOf(o)]
    BY <2>1 DEF Summed, SummaryOf, NetSales, SnapshotOf, ReportedLines
  <2>4. \A o \in Summed(d)' : /\ o \in Orders /\ openedOn[o] = d /\ paid[o] > 0
                              /\ snapshot'[d].lines[o] \subseteq LinesOf(o)
    BY <2>3 DEF PaidOf, OpenedOn, PaymentMade
  <2>5. \A e \in Days \ {d} : Summed(e)' = Summed(e)
    BY <2>1 DEF Summed
  <2>6. \A o : LinesOf(o)' = LinesOf(o)
    BY <2>2 DEF LinesOf
  <2>7. ASSUME NEW e \in Days, NEW o \in Summed(e)'
        PROVE  /\ o \in Orders /\ openedOn'[o] = e /\ paid'[o] > 0
               /\ snapshot'[e].lines[o] \subseteq LinesOf(o)'
    <3>1. CASE e = d
      BY <2>1, <2>2, <2>4, <2>6, <3>1
    <3>2. CASE e # d
      BY <2>1, <2>2, <2>5, <2>6, <3>2 DEF SoldStays
    <3> QED
      BY <3>1, <3>2
  <2> QED
    BY <2>7 DEF SoldStays
<1> QED
  BY <1>1, <1>2, <1>3 DEF DayNext, allVars, dayVars, Midnight, GetOrOpenBusinessDay, LoadDay,
     RefuseClose

LEMMA SoldAlwaysStays == DaySpec => []SoldStays
<1>1. DayInit => SoldStays
  BY DEF DayInit, SoldStays, Summed, NoSummary
<1>2. DaySpec => []PaymentMade
  BY DayImplementsOrders, PaymentWasMade, PTL
<1> QED
  BY <1>1, <1>2, SoldStaysStep, OrdersInvariant, DayInvariance, PTL DEF DaySpec

\* No bill and no line is sold on two days, whatever requests overlap: a bill
\* keeps its date, and once paid on it cannot be split.
THEOREM NothingSoldTwice == DaySpec => []SoldOnce
<1>1. SoldStays => SoldOnce
  BY DEF SoldStays, SoldOnce, LinesOf
<1> QED
  BY <1>1, SoldAlwaysStays, PTL
-----------------------------------------------------------------------------
\* Only a copy from before the day was closed can close it again, and a copy
\* loaded now tells that it is closed.
LEMMA FrozenStays ==
  ASSUME DayIInv, [DayNext]_allVars, NEW d \in Days, Frozen(d)
  PROVE  Frozen(d)' /\ summary'[d] = summary[d] /\ snapshot'[d] = snapshot[d]
<1> USE DEF DayIInv, DayTypeOK
<1>1. CASE UNCHANGED <<dayStatus, summary, snapshot, desk>>
  BY <1>1 DEF Frozen, HeldOver
<1>2. CASE GetOrOpenBusinessDay
  <2>1. dayStatus'[d] = "closed"
    BY <1>2 DEF GetOrOpenBusinessDay, Frozen
  <2> QED
    BY <1>2, <2>1 DEF GetOrOpenBusinessDay, Frozen, HeldOver
<1>3. ASSUME NEW n \in Managers, NEW e \in Days, LoadDay(n, e)
      PROVE  Frozen(d)' /\ summary'[d] = summary[d] /\ snapshot'[d] = snapshot[d]
  <2>1. ASSUME NEW m \in Managers, desk'[m] # Idle, desk'[m].day = d
        PROVE  desk'[m].status = "closed"
    <3>1. CASE m = n
      BY <1>3, <2>1, <3>1 DEF LoadDay, Frozen
    <3>2. CASE m # n
      BY <1>3, <2>1, <3>2 DEF LoadDay, Frozen, HeldOver
    <3> QED
      BY <3>1, <3>2
  <2> QED
    BY <1>3, <2>1 DEF LoadDay, Frozen, HeldOver
<1>4. ASSUME NEW n \in Managers, CloseBusinessDay(n)
      PROVE  Frozen(d)' /\ summary'[d] = summary[d] /\ snapshot'[d] = snapshot[d]
  <2>1. desk[n].day \in Days \ {d}
    BY <1>4 DEF CloseBusinessDay, HoldsOpenDay, Frozen, HeldOver
  <2>2. dayStatus'[d] = dayStatus[d] /\ desk' = [desk EXCEPT ![n] = Idle]
    BY <1>4, <2>1 DEF CloseBusinessDay
  <2>3. Frozen(d)'
    BY <2>2 DEF Frozen, HeldOver
  <2>4. summary'[d] = summary[d] /\ snapshot'[d] = snapshot[d]
    BY <1>4, <2>1, CloseFreezes
  <2> QED
    BY <2>3, <2>4
<1>5. ASSUME NEW n \in Managers, RefuseClose(n)
      PROVE  Frozen(d)' /\ summary'[d] = summary[d] /\ snapshot'[d] = snapshot[d]
  BY <1>5 DEF RefuseClose, Frozen, HeldOver
<1> QED
  BY <1>1, <1>2, <1>3, <1>4, <1>5 DEF DayNext, allVars, dayVars, OrderService, Midnight

\* A day is closed only when none of its orders is open, so what a second
\* closing leaves out of the figures has been voided.
LEMMA ForgetsVoided ==
  ASSUME DayIInv, IInv, SoldStays, [DayNext]_allVars, NEW d \in Days,
         NEW o \in Summed(d), o \notin Summed(d)'
  PROVE  status[o] = "void"
<1>1. PICK m \in Managers : CloseBusinessDay(m)
  BY DEF Summed, DayNext, allVars, dayVars, OrderService, Midnight, GetOrOpenBusinessDay,
     LoadDay, RefuseClose
<1>2. PICK e \in Days :
        /\ e = desk[m].day
        /\ summary'[e] = SummaryOf(e)
        /\ \A c \in Days \ {e} : summary'[c] = summary[c]
  BY <1>1, CloseFreezes
<1>3. e = d
  BY <1>2 DEF Summed
<1>4. Summed(d)' = PaidOf(d)
  BY <1>2, <1>3 DEF Summed, SummaryOf, NetSales
<1>5. o \in Orders /\ o \in OpenedOn(d) /\ paid[o] > 0
  BY DEF SoldStays, OpenedOn
<1>6. status[o] # "none"
  BY <1>5 DEF IInv, NewOrdersBlank, NewOrders, Created
<1>7. ~IsOpen(o)
  BY <1>1, <1>2, <1>3, <1>5 DEF CloseBusinessDay, AllClosed
<1>8. status[o] # "paid"
  BY <1>4, <1>5 DEF PaidOf
<1> QED
  BY <1>5, <1>6, <1>7, <1>8 DEF IInv, TypeOK, IsOpen

\* However many managers close days at once: the figures of a closed day stay
\* for good once no copy from before its closing is left, and a second closing
\* from such a copy forgets no bill that still counts.
THEOREM FrozenForGood == DaySpec => FrozenAtClose
<1>1. DayIInv /\ IInv /\ SoldStays /\ [DayNext]_allVars =>
        [\A d \in Days :
           /\ Frozen(d) => Frozen(d)' /\ summary'[d] = summary[d] /\ snapshot'[d] = snapshot[d]
           /\ \A o \in Summed(d) \ Summed(d)' : status[o] = "void"]_allVars
  BY FrozenStays, ForgetsVoided
<1> QED
  BY <1>1, SoldAlwaysStays, DayInvariance, OrdersInvariant, PTL DEF DaySpec, FrozenAtClose
=============================================================================
