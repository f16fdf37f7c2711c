SPECIFICATION Spec
CONSTANTS
  Clerks = {k1, k2}
  People = {c1}
  Papers = {o1, o2, booking}
  Bookings = {booking}
  Requests = {r1, r2}
  MinimumRedeem = 1
  MaxPoints = 3
  Nobody = Nobody
SYMMETRY Sym
INVARIANTS ErasedStaysErased NeverOwed BalanceIsEntries
CHECK_DEADLOCK FALSE
