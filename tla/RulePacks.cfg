SPECIFICATION PacksSpec
CONSTANTS
  v1 = v1  v2 = v2  c1 = c1  c2 = c2  law = law
  Packs = {v1, v2}
  Codes = {c1, c2}
  Admins = {a1, a2}
  Forms = {f1}
  Clients = {q1}
  RegulationOf <- MCRegulationOf
  VersionOf <- MCVersionOf
  SeededRules <- MCSeededRules
  HandRules <- MCHandRules
  EditTo <- MCEditTo
  Starts <- MCStarts
  MonthsLater <- MCMonthsLater
  NoRule = NoRule  NoSeal = NoSeal  NoDeadline = NoDeadline  Idle = Idle  Saved = Saved
  MaxEdits = 1
SYMMETRY Sym
INVARIANTS DeadlinesWereApproved OneGoverningPack
CHECK_DEADLOCK FALSE
