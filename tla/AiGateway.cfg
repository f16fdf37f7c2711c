SPECIFICATION Spec
CONSTANTS
  anthropic = anthropic  mock = mock
  sommelier = sommelier
  Calls = {1, 2, 3}
  Features = {sommelier}
  DefaultOf <- MCDefault
  Rules <- MCRules
  Every = Every
  Order <- MCOrder
  Local = {mock}
  Mock = mock
  LocalOnly = FALSE
  PreferLocal = TRUE
  CostOf <- MCCost
  Limit = 1
  MaxRetries = 1
  Choices = {None}
  CloudWanted = {TRUE}
  None = None
  MaxInFlight = 2
  MaxChanges = 1
  MaxFaults = 1
  MaxLost = 1
INVARIANTS CloudOnlyIfAllowed BudgetIsSpending SentIsLogged
PROPERTIES CallsEnd
CHECK_DEADLOCK FALSE
