---------------------------- MODULE StaffFigures ----------------------------
(***************************************************************************)
(* Shifts, hours and leave of the staff (apps/hr) and their progress       *)
(* through the training modules (apps/training).  Days and minutes are     *)
(* integers; the year of a day is given.                                   *)
(***************************************************************************)
LOCAL INSTANCE Integers
LOCAL INSTANCE FiniteSets
LOCAL INSTANCE Sequences
LOCAL INSTANCE FiniteSetsExt
LOCAL INSTANCE SequencesExt
F == INSTANCE Figures

DayCount(leave) == leave.end - leave.start + 1     \* the database holds start <= end
\* Leave counts whole in the year it starts, overlapping leave twice.
LeaveDaysUsed(employee, leaves, year, yearOf) ==
  F!SumOf({l \in leaves : /\ l.employee = employee.id /\ l.status = "approved"
                          /\ l.type = "annual" /\ yearOf[l.start] = year}, DayCount)
LeaveDaysRemaining(employee, leaves, year, yearOf) ==
  Max({0, employee.annual - LeaveDaysUsed(employee, leaves, year, yearOf)})

AssignedCount(shift, assignments) == Cardinality({a \in assignments : a.shift = shift.id /\ ~a.cancelled})
IsUnderstaffed(shift, assignments) == AssignedCount(shift, assignments) < shift.required
\* The plan shows the last week and whatever is ahead.
ShiftList(shifts, assignments, today) ==
  LET shown == {s \in shifts : s.day >= today - 7} IN
  [shifts |-> shown, understaffed |-> {s \in shown : IsUnderstaffed(s, assignments)}]
\* An employee is assigned to a shift once, even if that was cancelled.
Assign(assignments, a) ==
  IF \E b \in assignments : b.shift = a.shift /\ b.employee = a.employee THEN assignments
  ELSE assignments \cup {a}
NoTime == -1
\* In 1/100 of an hour; a shift without a template has no break.
WorkedHours(a, break) ==
  IF a.clockIn = NoTime \/ a.clockOut = NoTime THEN 0
  ELSE F!HalfEven(100 * Max({0, a.clockOut - a.clockIn - break}), 60)
MayReadSensitive(user) == user.superuser \/ "hr.view_employee_sensitive" \in user.permissions
-----------------------------------------------------------------------------
(* Training. *)
IsVisibleTo(module, user) ==
  module.published /\ (module.roles = {} \/ user.superuser \/ module.roles \cap user.roles # {})
Lessons(module, lessons) == {l \in lessons : l.module = module.id}
Completed(user, progress) == {p.lesson : p \in {p \in progress : p.user = user.id /\ p.completed}}
\* A module without lessons is never begun, nor done.  The code divides in
\* floats and may print one percent less, but 100 of a full module only.
PercentDone(module, user, lessons, progress) ==
  LET own == Lessons(module, lessons) IN
  IF own = {} THEN 0
  ELSE (100 * Cardinality({l \in own : l.id \in Completed(user, progress)})) \div Cardinality(own)
TrainingHome(user, modules, lessons, progress) ==
  LET shown == {m \in modules : IsVisibleTo(m, user)} IN
  [shown |-> shown,
   pending |-> {m \in shown : m.mandatory /\ PercentDone(m, user, lessons, progress) < 100}]
\* Completing asks only for a signed-in user, not whether the lesson is for them.
CompleteLesson(user, lesson, progress) ==
  {p \in progress : p.user # user.id \/ p.lesson # lesson.id}
  \cup {[user |-> user.id, lesson |-> lesson.id, completed |-> TRUE]}
InOrder(module, lessons) ==
  SetToSortSeq(Lessons(module, lessons), LAMBDA l, m : l.sort < m.sort \/ (l.sort = m.sort /\ l.id < m.id))
\* Where a lesson leads: the next one, or back to the module.
NextLesson(module, lesson, lessons) ==
  LET order == InOrder(module, lessons)
      here  == CHOOSE i \in DOMAIN order : order[i] = lesson
  IN IF here < Len(order) THEN {order[here + 1]} ELSE {}
=============================================================================
