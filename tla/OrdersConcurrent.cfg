SPECIFICATION Spec
CONSTANTS
  l1 = l1  l2 = l2  l3 = l3
  kitchen = kitchen  bar = bar
  Orders = {o1, o2}
  Lines = {l1, l2}
  Tickets = {k1, k2}
  Tables = {t1}
  Reservations = {v1}
  Terminals = {p1, p2}
  Screens = {s1}
  NoTable = NoTable  NoReservation = NoReservation  NoOrder = NoOrder
  NoTicket = NoTicket  Idle = Idle  NoSeat = NoSeat  NoStation = NoStation
  SeatOf <- MCSeat
  StationOf <- MCStation
  Total <- MCTotal
  AskedStatus = {"served"}
  Amounts = {2}
  PayBound = 4
  MaxInFlight = 2
SYMMETRY Rows
INVARIANTS TotalsMatchLines EveryLineTicketedOnce OpenMeansNothingSent
PROPERTIES ImplementsLedger PaidBillStays CollectedOnce
CHECK_DEADLOCK FALSE
