SPECIFICATION Spec
CONSTANTS
  Writers = {w1, w2}
  Purgers = {p1, p2}
  Retention = 1
  MaxTime = 2
  MaxRows = 4
  MaxFaults = 1
  Nobody = Nobody
SYMMETRY Sym
INVARIANTS BreaksAreRaces ReceiptsFollow GoneAreArchived
CHECK_DEADLOCK FALSE
