SPECIFICATION Spec
CONSTANTS
  flour = flour  oil = oil  r1 = r1  r2 = r2  c1 = c1  c2 = c2  y1 = y1  p1 = p1  a = a
  Shelves = {flour, oil}
  Fefo = {flour}
  DefaultExpiry <- MCDefault
  NoDate = NoDate  NoCode = NoCode  NoLine = NoLine  NoOrder = NoOrder  Idle = Idle
  Receipts = {r1, r2}
  ReceiptLines = {1, 2, 3, 4}
  ReceiptOf <- MCReceiptOf
  ShelfOf <- MCShelfOf
  CodeOf <- MCCodeOf
  ExpiryOf <- MCExpiryOf
  OrderLineOf <- MCOrderLineOf
  Accepted <- MCAccepted
  QuantityOf <- MCQuantityOf
  OrderLines = {y1}
  OrderOf <- MCOrderOf
  Ordered <- MCOrdered
  PurchaseOrders = {p1}
  OrderOfReceipt <- MCOrder
  Counts = {c1, c2}
  Variance <- MCVariance
  Wasted = {1, 2}
  MaxLots = 4
  Clerks = {k1, k2}
  EditTo = {0, 2}
  MaxEdits = 1
SYMMETRY Sym
INVARIANTS BalanceIsMovements OrderedIsDelivered
PROPERTIES EarliestExpiryFirst ImplementsStockBook
CHECK_DEADLOCK FALSE
