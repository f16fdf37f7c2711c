SPECIFICATION Spec
CONSTANTS
  waiter = waiter  manager = manager  line = line  bill = bill
  d1 = d1  d2 = d2  t1 = t1  t2 = t2
  Users = {waiter, manager}
  Superusers = {}
  Roles = {"waiter", "general_manager"}
  NoRole = "none"
  Permissions <- AllPermissions
  NamesView <- ViewNames
  NoUser = NoUser  NoRequest = NoRequest  Idle = Idle
  RoleOf <- MCRoleOf
  MayApprove <- MCMayApprove
  FreeDiscounts <- MCFree
  Editors = {e}
  Doors = {t1, t2}
  MaxAttempts = 2
  Attempts <- MCAttempts
  MaxEdits = 1
  Lines = {line}
  Bills = {bill}
  MaxRequests = 1
  Desks = {d1, d2}
CONSTRAINT Apart
INVARIANTS LockedAfterAttempts OverLimitWasApproved EachApprovalServesOnce
CHECK_DEADLOCK FALSE
SYMMETRY Threads
