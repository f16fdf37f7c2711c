SPECIFICATION Spec
CONSTANTS
  Bookings = {b1, b2}
  Tables = {t1, t2}
  Clerks = {c1, c2}
  Seats <- SeatsOf
  Times = {0, 1, 2}
  Lengths = {2}
  Parties = {4}
  Statuses = {"confirmed", "cancelled"}
  StaffWrites = {"out_of_service"}
  MaxParts = 2
  MaxWrites = 1
  MaxRequests = 3
  MaxBills = 1
  NoBooking = NoBooking
  NoRow = NoRow
  Deleted = Deleted
SYMMETRY Sym
INVARIANTS NoDoubleBooking 
CHECK_DEADLOCK FALSE
