------------------------------ MODULE Accounts ------------------------------
(***************************************************************************)
(* User rows of apps/accounts: the groups and the primary role a user      *)
(* holds, and the counter of failed logins that locks an account.          *)
(*                                                                         *)
(* A login loads the row and writes counter and lock back in a second      *)
(* step.  The view that edits a user loads the row too, and UserForm.save  *)
(* writes ALL its columns back, counter and lock included, and then        *)
(* replaces the groups in three more writes.  No transaction spans any of  *)
(* these, so logins and forms write over each other.                       *)
(***************************************************************************)
EXTENDS Integers, FiniteSets

CONSTANTS
  Users, Superusers,
  Roles, NoRole,
  RoleOf,        \* role a user is created with (create_user_with_role)
  Editors,       \* people editing user forms
  Doors,         \* threads serving logins
  MaxAttempts,   \* failed logins that lock an account
  Attempts,      \* bound: failed logins of one user
  MaxEdits,      \* bound: changes of roles
  Idle

ASSUME UsersAssumption ==
  /\ Superusers \subseteq Users /\ NoRole \notin Roles
  /\ RoleOf \in [Users -> Roles]
  /\ MaxAttempts \in Nat \ {0} /\ Attempts \in [Users -> Nat] /\ MaxEdits \in Nat

VARIABLES
  groups, primary,   \* User.groups, User.primary_role
  failed, lock,      \* User.failed_login_count, locked_until: null, ahead or past
  login,             \* the row a login has loaded, and whether it was right
  form,              \* an open user form: the row it loaded, its role, its progress
  wrong,             \* history: wrong logins of a user since it was created
  since,             \* history: wrong logins counted since the last one that cleared them
  raced,             \* history: users whose counter or lock was written from a copy
                     \*   that was no longer the row, and not cleared since
  edits              \* counts changes of roles, for MaxEdits

roleVars    == <<groups, primary>>
counterVars == <<failed, lock, since, raced>>
accountVars == <<roleVars, counterVars, login, form, wrong, edits>>

LockStates == {"none", "running", "past"}
LoginCopy  == [user : Users, right : BOOLEAN, failed : Nat, lock : LockStates]
FormCopy ==
  [user : Users, role : Roles, primary : Roles \cup {NoRole}, failed : Nat, lock : LockStates,
   step : {"shown", "saved", "cleared", "added"}]

RoleCodes(u) == groups[u] \cup ({primary[u]} \ {NoRole})

AccountTypeOK ==
  /\ groups \in [Users -> SUBSET Roles]
  /\ primary \in [Users -> Roles \cup {NoRole}]
  /\ failed \in [Users -> Nat] /\ since \in [Users -> Nat]
  /\ lock \in [Users -> LockStates]
  /\ raced \in SUBSET Users
  /\ login \in [Doors -> LoginCopy \cup {Idle}]
  /\ form \in [Editors -> FormCopy \cup {Idle}]
  /\ wrong \in [Users -> Nat]
  /\ edits \in Nat

AccountInit ==
  /\ groups = [u \in Users |-> {RoleOf[u]}]
  /\ primary = [u \in Users |-> RoleOf[u]]
  /\ failed = [u \in Users |-> 0] /\ since = [u \in Users |-> 0]
  /\ lock = [u \in Users |-> "none"]
  /\ raced = {}
  /\ login = [t \in Doors |-> Idle]
  /\ form = [e \in Editors |-> Idle]
  /\ wrong = [u \in Users |-> 0]
  /\ edits = 0
-----------------------------------------------------------------------------
\* A copy is stale when the row no longer has its counter, or no longer has or
\* has not a lock.  A lock written back may have run out meanwhile.
Stale(copy) ==
  \/ copy.failed # failed[copy.user]
  \/ (copy.lock = "none") # (lock[copy.user] = "none")
WrittenBack(l) == IF l = "running" THEN {"running", "past"} ELSE {l}

\* The row is loaded.  A wrong password, or at the terminal a wrong PIN or any
\* PIN on a locked account, will be counted; a right one goes on if the loaded
\* row is not locked.
TryLogin(t, u, right) ==
  /\ login[t] = Idle
  /\ right => lock[u] # "running"
  /\ ~right => wrong[u] < Attempts[u]
  /\ login' = [login EXCEPT ![t] = [user |-> u, right |-> right, failed |-> failed[u], lock |-> lock[u]]]
  /\ wrong' = [wrong EXCEPT ![u] = IF right THEN @ ELSE @ + 1]
  /\ UNCHANGED <<roleVars, counterVars, form, edits>>

\* register_failed_login: counter and lock of the loaded row are written back.
LocksLate(n) == n > MaxAttempts                                     \* mutant of Locks
Locks(n) == n >= MaxAttempts
CountFailure(t) ==
  LET c == login[t]  n == c.failed + 1 IN
  /\ c # Idle /\ ~c.right
  /\ failed' = [failed EXCEPT ![c.user] = n]
  /\ \E l \in (IF Locks(n) THEN {"running"} ELSE WrittenBack(c.lock)) :
       lock' = [lock EXCEPT ![c.user] = l]
  /\ since' = [since EXCEPT ![c.user] = @ + 1]
  /\ raced' = raced \cup (IF Stale(c) THEN {c.user} ELSE {})
  /\ login' = [login EXCEPT ![t] = Idle]
  /\ UNCHANGED <<roleVars, form, wrong, edits>>

\* register_successful_login: what others counted since the load goes too.
ClearCounter(t) ==
  LET c == login[t] IN
  /\ c # Idle /\ c.right
  /\ failed' = [failed EXCEPT ![c.user] = 0]
  /\ lock' = [lock EXCEPT ![c.user] = "none"]
  /\ since' = [since EXCEPT ![c.user] = 0]
  /\ raced' = raced \ {c.user}
  /\ login' = [login EXCEPT ![t] = Idle]
  /\ UNCHANGED <<roleVars, form, wrong, edits>>

\* The lock runs out; the counter stays.
LockExpires(u) ==
  /\ lock[u] = "running"
  /\ lock' = [lock EXCEPT ![u] = "past"]
  /\ UNCHANGED <<roleVars, failed, since, raced, login, form, wrong, edits>>

OpenForm(e, u, role) ==
  /\ form[e] = Idle /\ edits < MaxEdits /\ edits' = edits + 1
  /\ form' = [form EXCEPT ![e] = [user |-> u, role |-> role, primary |-> primary[u],
       failed |-> failed[u], lock |-> lock[u], step |-> "shown"]]
  /\ UNCHANGED <<roleVars, counterVars, login, wrong>>

At(e, step) == form[e] # Idle /\ form[e].step = step
Go(e, step) == form' = [form EXCEPT ![e] = [@ EXCEPT !.step = step]]

\* user.save(): every column of the loaded row.
SaveForm(e) ==
  LET f == form[e] IN
  /\ At(e, "shown") /\ Go(e, "saved")
  /\ primary' = [primary EXCEPT ![f.user] = f.primary]
  /\ failed' = [failed EXCEPT ![f.user] = f.failed]
  /\ \E l \in WrittenBack(f.lock) : lock' = [lock EXCEPT ![f.user] = l]
  /\ raced' = raced \cup (IF Stale(f) THEN {f.user} ELSE {})
  /\ UNCHANGED <<groups, since, login, wrong, edits>>

\* assign_role(user, role, primary=True, replace=True)
ClearGroups(e) ==
  /\ At(e, "saved") /\ Go(e, "cleared")
  /\ groups' = [groups EXCEPT ![form[e].user] = {}]
  /\ UNCHANGED <<primary, counterVars, login, wrong, edits>>

AddGroup(e) ==
  /\ At(e, "cleared") /\ Go(e, "added")
  /\ groups' = [groups EXCEPT ![form[e].user] = @ \cup {form[e].role}]
  /\ UNCHANGED <<primary, counterVars, login, wrong, edits>>

NewPrimary(role, held) == role
SetPrimary(e) ==
  LET f == form[e] IN
  /\ At(e, "added")
  /\ primary' = [primary EXCEPT ![f.user] = NewPrimary(f.role, @)]
  /\ form' = [form EXCEPT ![e] = Idle]
  /\ UNCHANGED <<groups, counterVars, login, wrong, edits>>

\* remove_role: another group becomes the primary role, if there is one.
RemoveRole(e, u, role) ==
  /\ form[e] = Idle /\ edits < MaxEdits /\ edits' = edits + 1 /\ role \in groups[u]
  /\ groups' = [groups EXCEPT ![u] = @ \ {role}]
  /\ IF primary[u] = role
     THEN primary' \in {[primary EXCEPT ![u] = r] : r \in groups'[u]
                          \cup (IF groups'[u] = {} THEN {NoRole} ELSE {})}
     ELSE UNCHANGED primary
  /\ UNCHANGED <<counterVars, login, form, wrong>>

AccountNext ==
  \/ \E t \in Doors, u \in Users, right \in BOOLEAN : TryLogin(t, u, right)
  \/ \E t \in Doors : CountFailure(t) \/ ClearCounter(t)
  \/ \E u \in Users : LockExpires(u)
  \/ \E e \in Editors, u \in Users, r \in Roles : OpenForm(e, u, r) \/ RemoveRole(e, u, r)
  \/ \E e \in Editors : SaveForm(e) \/ ClearGroups(e) \/ AddGroup(e) \/ SetPrimary(e)
-----------------------------------------------------------------------------
\* The lock follows the wrong logins.  Whatever stale rows logins and forms
\* write back, nobody is locked out before MaxAttempts wrong logins; and since
\* the last login that cleared the counter it has lost no wrong one, and there
\* is a lock, running or past, exactly from the MaxAttempts-th on, unless a
\* login or a form wrote a row that had changed after it was loaded.
LockedAfterAttempts ==
  \A u \in Users :
    /\ lock[u] # "none" => wrong[u] >= MaxAttempts
    /\ u \notin raced => failed[u] = since[u] /\ (lock[u] # "none" <=> since[u] >= MaxAttempts)
=============================================================================
