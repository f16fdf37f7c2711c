SPECIFICATION DaySpec
CONSTANTS
  l1 = l1  l2 = l2
  kitchen = kitchen
  Orders = {o1, o2}
  Lines = {l1, l2}
  Tickets = {k1}
  Tables = {t1}
  Reservations = {}
  Terminals = {p1}
  Screens = {s1}
  NoTable = NoTable  NoReservation = NoReservation  NoOrder = NoOrder
  NoTicket = NoTicket  Idle = Idle  NoSeat = NoSeat  NoStation = NoStation
  SeatOf <- MCSeat
  StationOf <- MCStation
  Total <- MCTotal
  Subtotal <- MCSubtotal
  Service <- MCService
  Tax <- MCTax
  LineTotals <- MCLineTotals
  Turnover <- MCTurnover
  AskedStatus = {}
  Amounts = {45, 46}
  PayBound = 91
  MaxInFlight = 1
  Managers = {m1, m2}
  LastDay = 2
CONSTRAINT SameDay
SYMMETRY Rows
INVARIANTS ReportAddsUp SoldOnce PaidIsCovered TableHeldWhileBillOpen
PROPERTY FrozenAtClose
CHECK_DEADLOCK FALSE
