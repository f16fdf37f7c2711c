------------------------- MODULE Safeguards_proofs -------------------------
(***************************************************************************)
(* What guards the house against its own people and its own machine:       *)
(* accounts and approvals, and the backups a restore falls back on.        *)
(*                                                                         *)
(* For any users, roles, forms, requests and threads: nobody is locked out *)
(* early, and nothing beyond a user's own right is given without somebody  *)
(* else having decided on the request it rests on.                         *)
(*                                                                         *)
(* For any jobs, any retention and any number of backups, faults and       *)
(* restores: a usable backup has its archive, a restore has a way back,    *)
(* and a verification says what is on disk.                                *)
(***************************************************************************)
EXTENDS Approvals, Backups, FiniteSetTheorems, TLAPS


\* The counter never shows more than the wrong logins there were, and no lock is
\* set before MaxAttempts of them: not in the row, and not in a row that a form
\* or a login is about to write back, with its own wrong login counted.
Earned(n, l, w) == n <= w /\ (l # "none" => w >= MaxAttempts)
Written(c) == IF c.right THEN c.failed ELSE c.failed + 1
CountsAreWrongLogins ==
  /\ \A u \in Users : Earned(failed[u], lock[u], wrong[u])
  /\ \A e \in Editors : form[e] # Idle => Earned(form[e].failed, form[e].lock, wrong[form[e].user])
  /\ \A t \in Doors : login[t] # Idle => Earned(Written(login[t]), login[t].lock, wrong[login[t].user])

\* Unless a stale row was written, the counter is exact and the lock follows it.
Exact(u) == failed[u] = since[u] /\ (lock[u] # "none" <=> since[u] >= MaxAttempts)
ExactUnlessRaced == \A u \in Users \ raced : Exact(u)

\* Requests are numbered as they are filed.
FiledInOrder == \E n \in 0 .. MaxRequests : Filed = 1 .. n

\* An approved request, or a row loaded while it was, was decided by another.
DecidedByAnother(r) == r \in Filed /\ reviewer[r] \notin {NoUser, by[r]}
ApprovedByAnother ==
  /\ \A r \in Requests : rstatus[r] = "approved" => DecidedByAnother(r)
  /\ \A d \in Desks : Holds(d) =>
       /\ desk[d].request \in Filed
       /\ desk[d].status = "approved" => DecidedByAnother(desk[d].request)

AccountInv == AccountTypeOK /\ CountsAreWrongLogins /\ ExactUnlessRaced
RequestOK ==
  /\ action \in [Requests -> Actions \cup {"none"}]
  /\ by \in [Requests -> Users \cup {NoUser}]
  /\ reviewer \in [Requests -> Users \cup {NoUser}]
  /\ rstatus \in [Requests -> {"none", "pending", "approved", "rejected", "expired", "applied"}]
  /\ late \in SUBSET Requests /\ crossed \in SUBSET Requests
  /\ desk \in [Desks -> Copy \cup {Idle}]
DeedOK ==
  /\ given \in [Subjects -> Deeds \cup {"none"}]
  /\ under \in [Subjects -> Requests \cup {NoRequest}]
  /\ ownRight \in [Subjects -> BOOLEAN]
RequestInv == RequestOK /\ FiledInOrder /\ ApprovedByAnother /\ DeedOK /\ OverLimitWasApproved

\* What was given under a request that no stale copy touched was its one use.
UsedOnce ==
  \A r \in Requests \ crossed, s \in Subjects :
    under[s] = r => rstatus[r] = "applied" /\ \A t \in Subjects : under[t] = r => s = t
Inv == AccountInv /\ RequestInv /\ UsedOnce

LEMMA InitInv == ASSUME UsersAssumption, ApprovalAssumption PROVE Init => Inv
<1> SUFFICES ASSUME Init PROVE Inv
  OBVIOUS
<1>1. AccountInv
  BY UsersAssumption DEF Init, AccountInit, AccountInv, AccountTypeOK, CountsAreWrongLogins,
     ExactUnlessRaced, Exact, Earned, LockStates, UsersAssumption
<1>2. RequestOK /\ DeedOK /\ ApprovedByAnother /\ OverLimitWasApproved
  BY DEF Init, RequestOK, DeedOK, ApprovedByAnother, OverLimitWasApproved, Holds
<1>5. UsedOnce
  BY ApprovalAssumption DEF Init, UsedOnce, ApprovalAssumption
<1>3. Filed = 1 .. 0
  BY DEF Init, Filed
<1>4. FiledInOrder
  BY <1>3, ApprovalAssumption DEF FiledInOrder, ApprovalAssumption
<1> QED BY <1>1, <1>2, <1>4, <1>5 DEF Inv, RequestInv

LEMMA NextNumber ==
  ASSUME ApprovalAssumption, FiledInOrder
  PROVE  /\ NextId \notin Filed
         /\ Filed \cup {NextId} = 1 .. NextId
         /\ NextId \in Nat
<1>1. PICK n \in 0 .. MaxRequests : Filed = 1 .. n
  BY DEF FiledInOrder
<1>2. n \in Nat /\ Cardinality(1 .. n) = n
  BY FS_Interval, ApprovalAssumption DEF ApprovalAssumption
<1>3. NextId = n + 1
  BY <1>1, <1>2 DEF NextId
<1> QED BY <1>1, <1>2, <1>3
-----------------------------------------------------------------------------
(* Accounts.                                                               *)

\* What the copies of a row hold.
LEMMA CopiesHold ==
  ASSUME AccountInv
  PROVE  /\ \A e \in Editors : form[e] # Idle =>
              /\ form[e] \in FormCopy /\ form[e].user \in Users /\ form[e].failed \in Nat
              /\ form[e].lock \in LockStates
         /\ \A t \in Doors : login[t] # Idle =>
              /\ login[t] \in LoginCopy /\ login[t].user \in Users /\ login[t].failed \in Nat
              /\ login[t].lock \in LockStates /\ Written(login[t]) \in Nat
         /\ \A u \in Users : /\ failed[u] \in Nat /\ wrong[u] \in Nat /\ since[u] \in Nat
                             /\ lock[u] \in LockStates
BY DEF AccountInv, AccountTypeOK, FormCopy, LoginCopy, Written

LEMMA EarnedStays ==
  ASSUME UsersAssumption, NEW n \in Nat, NEW l, NEW w \in Nat, NEW v \in Nat, w <= v, Earned(n, l, w)
  PROVE  Earned(n, l, v)
BY DEF Earned, UsersAssumption

\* A row written back from a copy is earned, and an old row written back is no
\* longer exact only if the copy was stale.
LEMMA WriteBack ==
  ASSUME AccountInv, UsersAssumption, NEW u \in Users, NEW n \in Nat, NEW l \in LockStates,
         Earned(n, l, wrong[u]),
         failed' = [failed EXCEPT ![u] = n], lock' = [lock EXCEPT ![u] = l], wrong' = wrong,
         since' \in [Users -> Nat], \A x \in Users \ {u} : since'[x] = since[x],
         raced' \in SUBSET Users, raced \subseteq raced' \cup {u},
         u \notin raced' => n = since'[u] /\ (l # "none" <=> since'[u] >= MaxAttempts)
  PROVE  /\ failed' \in [Users -> Nat] /\ lock' \in [Users -> LockStates]
         /\ \A x \in Users : Earned(failed'[x], lock'[x], wrong'[x])
         /\ ExactUnlessRaced'
<1>1. /\ failed' \in [Users -> Nat] /\ lock' \in [Users -> LockStates]
      /\ failed'[u] = n /\ lock'[u] = l
      /\ \A x \in Users \ {u} : failed'[x] = failed[x] /\ lock'[x] = lock[x]
  BY DEF AccountInv, AccountTypeOK
<1>2. \A x \in Users : Earned(failed'[x], lock'[x], wrong'[x])
  BY <1>1 DEF AccountInv, CountsAreWrongLogins
<1>3. \A x \in Users \ raced' : Exact(x)'
  BY <1>1 DEF AccountInv, ExactUnlessRaced, Exact
<1> QED BY <1>1, <1>2, <1>3 DEF ExactUnlessRaced

\* A login that is over takes its copy with it.
LEMMA LoginEnds ==
  ASSUME AccountInv, NEW t \in Doors, login' = [login EXCEPT ![t] = Idle], UNCHANGED <<form, wrong>>,
         \A x \in Users : Earned(failed'[x], lock'[x], wrong'[x])
  PROVE  login' \in [Doors -> LoginCopy \cup {Idle}] /\ CountsAreWrongLogins'
<1>1. login' \in [Doors -> LoginCopy \cup {Idle}] /\ \A x \in Doors : login'[x] \in {login[x], Idle}
  BY DEF AccountInv, AccountTypeOK
<1> QED BY <1>1 DEF AccountInv, CountsAreWrongLogins

LEMMA LoginStep ==
  ASSUME AccountInv, UsersAssumption,
         \/ \E t \in Doors, u \in Users, right \in BOOLEAN : TryLogin(t, u, right)
         \/ \E t \in Doors : CountFailure(t) \/ ClearCounter(t)
         \/ \E u \in Users : LockExpires(u)
  PROVE  AccountInv'
<1>1. ASSUME NEW t \in Doors, NEW u \in Users, NEW right \in BOOLEAN, TryLogin(t, u, right)
      PROVE  AccountInv'
  <2> DEFINE c == [user |-> u, right |-> right, failed |-> failed[u], lock |-> lock[u]]
             w == IF right THEN wrong[u] ELSE wrong[u] + 1
  <2>1. /\ login' = [login EXCEPT ![t] = c] /\ wrong' = [wrong EXCEPT ![u] = w]
        /\ UNCHANGED <<groups, primary, failed, lock, since, raced, form, edits>>
    BY <1>1 DEF TryLogin, roleVars, counterVars
  <2>2. /\ c \in LoginCopy
        /\ c.user = u /\ c.lock = lock[u] /\ c.failed = failed[u] /\ c.right = right
        /\ w \in Nat /\ wrong[u] \in Nat /\ wrong[u] <= w /\ (~right => wrong[u] + 1 <= w)
    BY CopiesHold DEF LoginCopy
  <2> HIDE DEF c, w
  <2>3. AccountTypeOK'
    BY <2>1, <2>2 DEF AccountInv, AccountTypeOK
  <2>4. wrong'[u] = w /\ \A x \in Users : wrong[x] <= wrong'[x] /\ wrong[x] \in Nat /\ wrong'[x] \in Nat
    BY <2>1, <2>2 DEF AccountInv, AccountTypeOK
  <2>5. \A x \in Users : Earned(failed'[x], lock'[x], wrong'[x])
    BY <2>1, <2>4, EarnedStays, CopiesHold DEF AccountInv, CountsAreWrongLogins
  <2>6. \A e \in Editors : form'[e] # Idle => Earned(form'[e].failed, form'[e].lock, wrong'[form'[e].user])
    BY <2>1, <2>4, EarnedStays, CopiesHold DEF AccountInv, CountsAreWrongLogins
  <2>7. login'[t] = c /\ \A x \in Doors \ {t} : login'[x] = login[x]
    BY <2>1 DEF AccountInv, AccountTypeOK
  <2>8. Earned(Written(c), c.lock, wrong'[c.user])
    <3>1. Earned(failed[u], lock[u], wrong[u]) /\ failed[u] \in Nat
      BY CopiesHold DEF AccountInv, CountsAreWrongLogins
    <3>2. Written(c) <= w
      BY <2>2, <3>1 DEF Written, Earned
    <3>3. lock[u] # "none" => w >= MaxAttempts
      BY <2>2, <3>1, UsersAssumption DEF Earned, UsersAssumption
    <3> QED BY <2>2, <2>4, <3>2, <3>3 DEF Earned
  <2>9. ASSUME NEW x \in Doors \ {t}, login'[x] # Idle
        PROVE  Earned(Written(login'[x]), login'[x].lock, wrong'[login'[x].user])
    <3>1. login'[x] = login[x]
      BY <2>7
    <3>2. Earned(Written(login[x]), login[x].lock, wrong[login[x].user])
      BY <2>9, <3>1 DEF AccountInv, CountsAreWrongLogins
    <3>3. login[x].user \in Users /\ Written(login[x]) \in Nat
      BY <2>9, <3>1, CopiesHold
    <3> QED BY <2>4, <3>1, <3>2, <3>3, EarnedStays
  <2>10. CountsAreWrongLogins'
    BY <2>5, <2>6, <2>7, <2>8, <2>9 DEF CountsAreWrongLogins
  <2>11. ExactUnlessRaced'
    BY <2>1 DEF AccountInv, ExactUnlessRaced, Exact
  <2> QED BY <2>3, <2>10, <2>11 DEF AccountInv
<1>2. ASSUME NEW t \in Doors, CountFailure(t) PROVE AccountInv'
  <2> DEFINE u == login[t].user
             n == login[t].failed + 1
             k == login[t].lock
             m == since[u] + 1
  <2>1. PICK l \in (IF Locks(n) THEN {"running"} ELSE WrittenBack(k)) :
          /\ login[t] # Idle /\ ~login[t].right
          /\ failed' = [failed EXCEPT ![u] = n] /\ lock' = [lock EXCEPT ![u] = l]
          /\ since' = [since EXCEPT ![u] = m]
          /\ raced' = raced \cup (IF Stale(login[t]) THEN {u} ELSE {})
          /\ login' = [login EXCEPT ![t] = Idle]
          /\ UNCHANGED <<groups, primary, form, wrong, edits>>
    BY <1>2 DEF CountFailure, roleVars
  <2>2. /\ u \in Users /\ n \in Nat /\ k \in LockStates /\ l \in LockStates /\ since[u] \in Nat
        /\ m = since[u] + 1 /\ m \in Nat
        /\ wrong[u] \in Nat /\ MaxAttempts \in Nat
        /\ l # "none" <=> n >= MaxAttempts \/ k # "none"
    BY <2>1, CopiesHold, UsersAssumption DEF Locks, WrittenBack, LockStates, UsersAssumption
  <2>3. Earned(n, l, wrong[u])
    <3>1. n <= wrong[u] /\ (k # "none" => wrong[u] >= MaxAttempts)
      BY <2>1 DEF AccountInv, CountsAreWrongLogins, Earned, Written
    <3> QED BY <2>2, <3>1 DEF Earned
  <2>4. u \notin raced' => n = m /\ (l # "none" <=> m >= MaxAttempts)
    <3> SUFFICES ASSUME u \notin raced' PROVE n = m /\ (l # "none" <=> m >= MaxAttempts)
      OBVIOUS
    <3>1. u \notin raced /\ ~Stale(login[t])
      BY <2>1
    <3>2. n = failed[u] + 1 /\ (k # "none" <=> lock[u] # "none")
      BY <2>2, <3>1 DEF Stale
    <3>3. failed[u] = since[u] /\ (lock[u] # "none" <=> since[u] >= MaxAttempts)
      BY <2>2, <3>1 DEF AccountInv, ExactUnlessRaced, Exact
    <3> QED BY <2>2, <3>2, <3>3
  <2> HIDE DEF u, n, k, m
  <2>5. /\ since' \in [Users -> Nat] /\ since'[u] = m /\ \A x \in Users \ {u} : since'[x] = since[x]
        /\ raced' \in SUBSET Users /\ raced \subseteq raced' \cup {u}
    BY <2>1, <2>2 DEF AccountInv, AccountTypeOK
  <2>6. /\ failed' \in [Users -> Nat] /\ lock' \in [Users -> LockStates]
        /\ \A x \in Users : Earned(failed'[x], lock'[x], wrong'[x])
        /\ ExactUnlessRaced'
    BY <2>1, <2>2, <2>3, <2>4, <2>5, WriteBack
  <2>7. login' \in [Doors -> LoginCopy \cup {Idle}] /\ CountsAreWrongLogins'
    BY <2>1, <2>6, LoginEnds
  <2>8. AccountTypeOK'
    BY <2>1, <2>5, <2>6, <2>7 DEF AccountInv, AccountTypeOK
  <2> QED BY <2>6, <2>7, <2>8 DEF AccountInv
<1>3. ASSUME NEW t \in Doors, ClearCounter(t) PROVE AccountInv'
  <2> DEFINE u == login[t].user
  <2>1. /\ login[t] # Idle
        /\ failed' = [failed EXCEPT ![u] = 0] /\ lock' = [lock EXCEPT ![u] = "none"]
        /\ since' = [since EXCEPT ![u] = 0] /\ raced' = raced \ {u}
        /\ login' = [login EXCEPT ![t] = Idle]
        /\ UNCHANGED <<groups, primary, form, wrong, edits>>
    BY <1>3 DEF ClearCounter, roleVars
  <2>2. u \in Users /\ wrong[u] \in Nat /\ MaxAttempts \in Nat \ {0} /\ "none" \in LockStates
    BY <2>1, CopiesHold, UsersAssumption DEF UsersAssumption, LockStates
  <2>3. Earned(0, "none", wrong[u]) /\ ~(0 >= MaxAttempts)
    BY <2>2 DEF Earned
  <2> HIDE DEF u
  <2>4. /\ since' \in [Users -> Nat] /\ since'[u] = 0 /\ \A x \in Users \ {u} : since'[x] = since[x]
        /\ raced' \in SUBSET Users /\ raced \subseteq raced' \cup {u}
    BY <2>1, <2>2 DEF AccountInv, AccountTypeOK
  <2>5. /\ failed' \in [Users -> Nat] /\ lock' \in [Users -> LockStates]
        /\ \A x \in Users : Earned(failed'[x], lock'[x], wrong'[x])
        /\ ExactUnlessRaced'
    BY <2>1, <2>2, <2>3, <2>4, WriteBack
  <2>6. login' \in [Doors -> LoginCopy \cup {Idle}] /\ CountsAreWrongLogins'
    BY <2>1, <2>5, LoginEnds
  <2>7. AccountTypeOK'
    BY <2>1, <2>4, <2>5, <2>6 DEF AccountInv, AccountTypeOK
  <2> QED BY <2>5, <2>6, <2>7 DEF AccountInv
<1>4. ASSUME NEW u \in Users, LockExpires(u) PROVE AccountInv'
  <2>1. /\ lock[u] = "running" /\ lock' = [lock EXCEPT ![u] = "past"]
        /\ UNCHANGED <<groups, primary, failed, since, raced, login, form, wrong, edits>>
    BY <1>4 DEF LockExpires, roleVars
  <2>2. lock' \in [Users -> LockStates] /\ \A x \in Users : lock'[x] # "none" <=> lock[x] # "none"
    BY <2>1 DEF AccountInv, AccountTypeOK, LockStates
  <2>3. AccountTypeOK'
    BY <2>1, <2>2 DEF AccountInv, AccountTypeOK
  <2>4. CountsAreWrongLogins' /\ ExactUnlessRaced'
    BY <2>1, <2>2 DEF AccountInv, CountsAreWrongLogins, ExactUnlessRaced, Exact, Earned, Written
  <2> QED BY <2>3, <2>4 DEF AccountInv
<1> QED BY <1>1, <1>2, <1>3, <1>4

\* A form that moves on keeps its copy.
LEMMA FormGoes ==
  ASSUME AccountInv, NEW e \in Editors, NEW s \in {"shown", "saved", "cleared", "added"},
         form[e] # Idle, Go(e, s), UNCHANGED <<login, wrong>>,
         \A x \in Users : Earned(failed'[x], lock'[x], wrong'[x])
  PROVE  form' \in [Editors -> FormCopy \cup {Idle}] /\ CountsAreWrongLogins'
<1> DEFINE f == [form[e] EXCEPT !.step = s]
<1>1. form[e] \in FormCopy
  BY DEF AccountInv, AccountTypeOK
<1>2. /\ f \in FormCopy /\ f.user = form[e].user /\ f.failed = form[e].failed
      /\ f.lock = form[e].lock
  BY <1>1 DEF FormCopy
<1>3. form' = [form EXCEPT ![e] = f]
  BY DEF Go
<1> HIDE DEF f
<1>4. form'[e] = f /\ \A x \in Editors \ {e} : form'[x] = form[x]
  BY <1>3 DEF AccountInv, AccountTypeOK
<1>5. form' \in [Editors -> FormCopy \cup {Idle}]
  BY <1>2, <1>3 DEF AccountInv, AccountTypeOK
<1>6. CountsAreWrongLogins'
  BY <1>2, <1>4 DEF AccountInv, CountsAreWrongLogins
<1> QED BY <1>5, <1>6

\* A form that only moves roles leaves counters and logins as they are.
LEMMA FormMovesRoles ==
  ASSUME AccountInv, NEW e \in Editors, NEW s \in {"shown", "saved", "cleared", "added"},
         form[e] # Idle, Go(e, s), UNCHANGED <<counterVars, login, wrong, edits>>,
         groups' \in [Users -> SUBSET Roles], primary' \in [Users -> Roles \cup {NoRole}]
  PROVE  AccountInv'
<1>1. UNCHANGED <<failed, lock, since, raced, login, wrong, edits>>
  BY DEF counterVars
<1>2. \A x \in Users : Earned(failed'[x], lock'[x], wrong'[x])
  BY <1>1 DEF AccountInv, CountsAreWrongLogins
<1>3. form' \in [Editors -> FormCopy \cup {Idle}] /\ CountsAreWrongLogins'
  BY <1>1, <1>2, FormGoes
<1>4. AccountTypeOK' /\ ExactUnlessRaced'
  BY <1>1, <1>3 DEF AccountInv, AccountTypeOK, ExactUnlessRaced, Exact
<1> QED BY <1>3, <1>4 DEF AccountInv

LEMMA FormStep ==
  ASSUME AccountInv, UsersAssumption, NEW e \in Editors,
         \/ SaveForm(e) \/ ClearGroups(e) \/ AddGroup(e) \/ SetPrimary(e)
         \/ \E u \in Users, r \in Roles : OpenForm(e, u, r) \/ RemoveRole(e, u, r)
  PROVE  AccountInv'
<1>1. CASE SaveForm(e)
  <2> DEFINE u == form[e].user
             n == form[e].failed
             k == form[e].lock
  <2>1. form[e] \in FormCopy /\ form[e] # Idle
    BY <1>1 DEF SaveForm, At, AccountInv, AccountTypeOK
  <2>2. PICK l \in WrittenBack(k) :
          /\ Go(e, "saved") /\ primary' = [primary EXCEPT ![u] = form[e].primary]
          /\ failed' = [failed EXCEPT ![u] = n] /\ lock' = [lock EXCEPT ![u] = l]
          /\ raced' = raced \cup (IF Stale(form[e]) THEN {u} ELSE {})
          /\ UNCHANGED <<groups, since, login, wrong, edits>>
    BY <1>1 DEF SaveForm
  <2>3. /\ u \in Users /\ n \in Nat /\ k \in LockStates /\ l \in LockStates
        /\ form[e].primary \in Roles \cup {NoRole} /\ (l # "none" <=> k # "none")
    BY <2>1, <2>2 DEF FormCopy, WrittenBack, LockStates
  <2>4. Earned(n, l, wrong[u])
    BY <2>1, <2>3 DEF AccountInv, CountsAreWrongLogins, Earned
  <2>5. u \notin raced' => n = since'[u] /\ (l # "none" <=> since'[u] >= MaxAttempts)
    BY <2>2, <2>3 DEF AccountInv, ExactUnlessRaced, Exact, Stale
  <2> HIDE DEF u, n, k
  <2>6. since' \in [Users -> Nat] /\ raced' \in SUBSET Users /\ raced \subseteq raced' \cup {u}
    BY <2>2, <2>3 DEF AccountInv, AccountTypeOK
  <2>7. /\ failed' \in [Users -> Nat] /\ lock' \in [Users -> LockStates]
        /\ \A x \in Users : Earned(failed'[x], lock'[x], wrong'[x])
        /\ ExactUnlessRaced'
    BY <2>2, <2>3, <2>4, <2>5, <2>6, WriteBack
  <2>8. form' \in [Editors -> FormCopy \cup {Idle}] /\ CountsAreWrongLogins'
    BY <2>1, <2>2, <2>7, FormGoes
  <2>9. AccountTypeOK'
    BY <2>2, <2>3, <2>6, <2>7, <2>8 DEF AccountInv, AccountTypeOK
  <2> QED BY <2>7, <2>8, <2>9 DEF AccountInv
<1>2. CASE ClearGroups(e)
  <2>1. /\ form[e] # Idle /\ Go(e, "cleared") /\ UNCHANGED <<primary, counterVars, login, wrong, edits>>
    BY <1>2 DEF ClearGroups, At
  <2>2. groups' \in [Users -> SUBSET Roles] /\ primary' \in [Users -> Roles \cup {NoRole}]
    BY <1>2, <2>1 DEF ClearGroups, AccountInv, AccountTypeOK
  <2> QED BY <2>1, <2>2, FormMovesRoles
<1>3. CASE AddGroup(e)
  <2>1. /\ form[e] # Idle /\ Go(e, "added") /\ UNCHANGED <<primary, counterVars, login, wrong, edits>>
        /\ form[e] \in FormCopy
    BY <1>3 DEF AddGroup, At, AccountInv, AccountTypeOK
  <2>2. groups' \in [Users -> SUBSET Roles] /\ primary' \in [Users -> Roles \cup {NoRole}]
    BY <1>3, <2>1 DEF AddGroup, AccountInv, AccountTypeOK, FormCopy
  <2> QED BY <2>1, <2>2, FormMovesRoles
<1>4. CASE SetPrimary(e)
  <2>1. /\ form[e] \in FormCopy
        /\ primary' = [primary EXCEPT ![form[e].user] = form[e].role]
        /\ form' = [form EXCEPT ![e] = Idle]
        /\ UNCHANGED <<groups, failed, lock, since, raced, login, wrong, edits>>
    BY <1>4 DEF SetPrimary, At, NewPrimary, counterVars, AccountInv, AccountTypeOK
  <2>2. AccountTypeOK'
    BY <2>1 DEF AccountInv, AccountTypeOK, FormCopy
  <2>3. CountsAreWrongLogins' /\ ExactUnlessRaced'
    BY <2>1 DEF AccountInv, AccountTypeOK, CountsAreWrongLogins, ExactUnlessRaced, Exact
  <2> QED BY <2>2, <2>3 DEF AccountInv
<1>5. ASSUME NEW u \in Users, NEW r \in Roles, OpenForm(e, u, r) PROVE AccountInv'
  <2> DEFINE f == [user |-> u, role |-> r, primary |-> primary[u],
                   failed |-> failed[u], lock |-> lock[u], step |-> "shown"]
  <2>1. /\ form' = [form EXCEPT ![e] = f] /\ edits' = edits + 1
        /\ UNCHANGED <<groups, primary, failed, lock, since, raced, login, wrong>>
    BY <1>5 DEF OpenForm, roleVars, counterVars
  <2>2. f \in FormCopy /\ f.user = u /\ f.failed = failed[u] /\ f.lock = lock[u]
    BY DEF AccountInv, AccountTypeOK, FormCopy
  <2> HIDE DEF f
  <2>3. AccountTypeOK'
    BY <2>1, <2>2 DEF AccountInv, AccountTypeOK
  <2>4. form'[e] = f /\ \A x \in Editors \ {e} : form'[x] = form[x]
    BY <2>1 DEF AccountInv, AccountTypeOK
  <2>5. CountsAreWrongLogins'
    BY <2>1, <2>2, <2>4 DEF AccountInv, CountsAreWrongLogins
  <2>6. ExactUnlessRaced'
    BY <2>1 DEF AccountInv, ExactUnlessRaced, Exact
  <2> QED BY <2>3, <2>5, <2>6 DEF AccountInv
<1>6. ASSUME NEW u \in Users, NEW r \in Roles, RemoveRole(e, u, r) PROVE AccountInv'
  <2>1. /\ groups' = [groups EXCEPT ![u] = groups[u] \ {r}] /\ edits' = edits + 1
        /\ UNCHANGED <<failed, lock, since, raced, login, form, wrong>>
    BY <1>6 DEF RemoveRole, counterVars
  <2>2. groups' \in [Users -> SUBSET Roles] /\ groups'[u] \in SUBSET Roles
    BY <2>1 DEF AccountInv, AccountTypeOK
  <2>3. primary' \in [Users -> Roles \cup {NoRole}]
    BY <1>6, <2>2 DEF RemoveRole, AccountInv, AccountTypeOK
  <2>4. AccountTypeOK'
    BY <2>1, <2>2, <2>3 DEF AccountInv, AccountTypeOK
  <2> QED BY <2>1, <2>4 DEF AccountInv, CountsAreWrongLogins, ExactUnlessRaced, Exact
<1> QED BY <1>1, <1>2, <1>3, <1>4, <1>5, <1>6
-----------------------------------------------------------------------------
(* Requests and what rests on them.                                        *)

\* While decisions stand, what was given rests on them.
LEMMA DeedsStand ==
  ASSUME RequestInv, UNCHANGED <<given, under, ownRight>>,
         \A r \in Requests : DecidedByAnother(r) => DecidedByAnother(r)'
  PROVE  DeedOK' /\ OverLimitWasApproved'
BY DEF RequestInv, DeedOK, OverLimitWasApproved, DecidedByAnother, Filed

\* A thread loads a row or drops the one it has; the others keep theirs.
LEMMA DeskStep ==
  ASSUME RequestInv, NEW d \in Desks, NEW c \in Copy \cup {Idle},
         desk' = [desk EXCEPT ![d] = c],
         Filed \subseteq Filed',
         \A r \in Requests : DecidedByAnother(r) => DecidedByAnother(r)',
         c # Idle => /\ c.request \in Filed'
                     /\ c.status = "approved" => DecidedByAnother(c.request)',
         \A r \in Requests : rstatus'[r] = "approved" => DecidedByAnother(r)'
  PROVE  desk' \in [Desks -> Copy \cup {Idle}] /\ ApprovedByAnother'
<1>1. desk' \in [Desks -> Copy \cup {Idle}]
  BY DEF RequestInv, RequestOK
<1>2. desk'[d] = c /\ \A x \in Desks \ {d} : desk'[x] = desk[x]
  BY DEF RequestInv, RequestOK
<1>3. ASSUME NEW x \in Desks, desk'[x] # Idle
      PROVE  /\ desk'[x].request \in Filed'
             /\ (desk[x].status = "approved" => DecidedByAnother(desk[x].request))'
  <2>1. CASE x = d
    BY <1>2, <1>3, <2>1
  <2>2. CASE x # d
    <3>1. desk'[x] = desk[x] /\ Holds(x)
      BY <1>2, <1>3, <2>2 DEF Holds
    <3>2. desk[x].request \in Filed /\ desk[x].request \in Requests
      BY <3>1 DEF RequestInv, ApprovedByAnother, Filed
    <3>3. desk[x].status = "approved" => DecidedByAnother(desk[x].request)
      BY <3>1 DEF RequestInv, ApprovedByAnother
    <3> QED BY <3>1, <3>2, <3>3
  <2> QED BY <2>1, <2>2
<1> QED BY <1>1, <1>3 DEF ApprovedByAnother, Holds

LEMMA FileStep ==
  ASSUME RequestInv, ApprovalAssumption, NEW u \in Users, NEW a \in Actions, File(u, a)
  PROVE  RequestInv'
<1> DEFINE r == NextId
<1>1. /\ r \in Requests /\ r \notin Filed /\ r \in Nat /\ Filed \cup {r} = 1 .. r
  BY NextNumber DEF File, RequestInv
<1>2. /\ action' = [action EXCEPT ![r] = a] /\ by' = [by EXCEPT ![r] = u]
      /\ rstatus' = [rstatus EXCEPT ![r] = "pending"]
      /\ UNCHANGED <<reviewer, late, crossed, desk, given, under, ownRight>>
  BY DEF File, deedVars
<1> HIDE DEF r
<1>3. RequestOK'
  BY <1>1, <1>2 DEF RequestInv, RequestOK
<1>4. Filed' = Filed \cup {r}
  BY <1>1, <1>2 DEF Filed, RequestInv, RequestOK
<1>5. FiledInOrder'
  <2>1. r \in 0 .. MaxRequests
    BY <1>1 DEF Requests
  <2> QED BY <1>1, <1>4, <2>1 DEF FiledInOrder
<1>6. \A x \in Requests : DecidedByAnother(x) => DecidedByAnother(x)'
  BY <1>1, <1>2, <1>4 DEF DecidedByAnother, RequestInv, RequestOK
<1>7. \A x \in Requests : rstatus'[x] = "approved" => rstatus[x] = "approved"
  BY <1>1, <1>2 DEF RequestInv, RequestOK
<1>8. ApprovedByAnother'
  <2>1. \A x \in Requests : rstatus'[x] = "approved" => DecidedByAnother(x)'
    BY <1>6, <1>7 DEF RequestInv, ApprovedByAnother
  <2>2. ASSUME NEW d \in Desks, Holds(d)'
        PROVE  /\ desk'[d].request \in Filed'
               /\ (desk[d].status = "approved" => DecidedByAnother(desk[d].request))'
    <3>1. Holds(d) /\ desk'[d] = desk[d]
      BY <1>2, <2>2 DEF Holds
    <3>2. desk[d].request \in Filed /\ desk[d].request \in Requests
      BY <3>1 DEF RequestInv, ApprovedByAnother, Filed
    <3>3. desk[d].status = "approved" => DecidedByAnother(desk[d].request)
      BY <3>1 DEF RequestInv, ApprovedByAnother
    <3> QED BY <1>4, <1>6, <3>1, <3>2, <3>3
  <2> QED BY <2>1, <2>2 DEF ApprovedByAnother
<1>9. DeedOK' /\ OverLimitWasApproved'
  BY <1>2, <1>6, DeedsStand
<1> QED BY <1>3, <1>5, <1>8, <1>9 DEF RequestInv

\* What a desk that holds a row holds.
LEMMA HeldRow ==
  ASSUME RequestInv, NEW d \in Desks, Holds(d)
  PROVE  /\ desk[d] \in Copy /\ desk[d].request \in Requests /\ desk[d].request \in Filed
         /\ desk[d].status = "approved" => DecidedByAnother(desk[d].request)
BY DEF RequestInv, RequestOK, ApprovedByAnother, Holds, Copy

\* A request decided or used is marked unless the copy was the row.
LEMMA CrossGives ==
  ASSUME RequestInv, NEW d \in Desks, Holds(d), Cross(d)
  PROVE  /\ crossed' \in SUBSET Requests /\ crossed \subseteq crossed'
         /\ desk[d].request \notin crossed' => rstatus[desk[d].request] = desk[d].status
BY HeldRow DEF Cross, RequestInv, RequestOK

LEMMA ReviewStep ==
  ASSUME RequestInv, ApprovalAssumption, NEW d \in Desks,
         \/ \E r \in Requests : Load(d, r)
         \/ \E u \in Users, v \in {"approved", "rejected"} : Decide(d, u, v)
         \/ FindExpired(d) \/ Refused(d)
  PROVE  RequestInv'
<1>1. ASSUME NEW r \in Requests, Load(d, r) PROVE RequestInv'
  <2> DEFINE c == [request |-> r, status |-> rstatus[r]]
  <2>1. /\ r \in Filed /\ desk' = [desk EXCEPT ![d] = c]
        /\ UNCHANGED <<action, by, reviewer, rstatus, late, crossed, given, under, ownRight>>
    BY <1>1 DEF Load, requestVars, deedVars
  <2>2. c \in Copy
    BY <2>1 DEF Copy, Filed, RequestInv, RequestOK
  <2>3. c.request = r /\ c.status = rstatus[r]
    OBVIOUS
  <2> HIDE DEF c
  <2>4. Filed' = Filed /\ \A x \in Requests : DecidedByAnother(x) => DecidedByAnother(x)'
    BY <2>1 DEF Filed, DecidedByAnother
  <2>5. \A x \in Requests : rstatus'[x] = "approved" => DecidedByAnother(x)'
    BY <2>1, <2>4 DEF RequestInv, ApprovedByAnother
  <2>6. c.status = "approved" => DecidedByAnother(r)'
    BY <2>1, <2>3, <2>5
  <2>7. desk' \in [Desks -> Copy \cup {Idle}] /\ ApprovedByAnother'
    BY <2>1, <2>2, <2>3, <2>4, <2>5, <2>6, DeskStep
  <2>8. RequestOK' /\ FiledInOrder'
    BY <2>1, <2>4, <2>7 DEF RequestInv, RequestOK, FiledInOrder
  <2> QED BY <2>1, <2>4, <2>7, <2>8, DeedsStand DEF RequestInv
<1>2. ASSUME NEW u \in Users, NEW v \in {"approved", "rejected"}, Decide(d, u, v)
      PROVE  RequestInv'
  <2>1. PICK r \in Requests : r = desk[d].request /\ r \in Filed
    BY <1>2, HeldRow DEF Decide
  <2>2. /\ rstatus' = [rstatus EXCEPT ![r] = v] /\ reviewer' = [reviewer EXCEPT ![r] = u]
        /\ u # by[r] /\ desk' = [desk EXCEPT ![d] = Idle] /\ crossed' \in SUBSET Requests
        /\ UNCHANGED <<action, by, late, given, under, ownRight>>
    BY <1>2, <2>1, CrossGives DEF Decide, MayReview, Drop, deedVars
  <2>3. Filed' = Filed
    BY <2>1, <2>2 DEF Filed, RequestInv, RequestOK
  <2>4. reviewer'[r] = u /\ \A x \in Requests \ {r} : reviewer'[x] = reviewer[x] /\ rstatus'[x] = rstatus[x]
    BY <2>1, <2>2 DEF RequestInv, RequestOK
  <2>5. DecidedByAnother(r)'
    BY <2>1, <2>2, <2>3, <2>4, ApprovalAssumption DEF DecidedByAnother, ApprovalAssumption
  <2>6. \A x \in Requests : DecidedByAnother(x) => DecidedByAnother(x)'
    BY <2>2, <2>3, <2>4, <2>5 DEF DecidedByAnother
  <2>7. \A x \in Requests : rstatus'[x] = "approved" => DecidedByAnother(x)'
    BY <2>4, <2>5, <2>6 DEF RequestInv, ApprovedByAnother
  <2>8. desk' \in [Desks -> Copy \cup {Idle}] /\ ApprovedByAnother'
    BY <2>2, <2>3, <2>6, <2>7, DeskStep
  <2>9. RequestOK' /\ FiledInOrder'
    BY <2>1, <2>2, <2>3, <2>8 DEF RequestInv, RequestOK, FiledInOrder
  <2> QED BY <2>2, <2>6, <2>8, <2>9, DeedsStand DEF RequestInv
<1>3. CASE FindExpired(d)
  <2> DEFINE r == desk[d].request
  <2>1. r \in Requests /\ r \in Filed
    BY <1>3, HeldRow DEF FindExpired
  <2>2. /\ rstatus' = [rstatus EXCEPT ![r] = "expired"] /\ desk' = [desk EXCEPT ![d] = Idle]
        /\ crossed' \in SUBSET Requests
        /\ UNCHANGED <<action, by, reviewer, late, given, under, ownRight>>
    BY <1>3, CrossGives DEF FindExpired, Drop, deedVars
  <2> HIDE DEF r
  <2>3. Filed' = Filed
    BY <2>1, <2>2 DEF Filed, RequestInv, RequestOK
  <2>4. \A x \in Requests : DecidedByAnother(x) => DecidedByAnother(x)'
    BY <2>2, <2>3 DEF DecidedByAnother
  <2>5. \A x \in Requests : rstatus'[x] = "approved" => DecidedByAnother(x)'
    BY <2>1, <2>2, <2>4 DEF RequestInv, RequestOK, ApprovedByAnother
  <2>6. desk' \in [Desks -> Copy \cup {Idle}] /\ ApprovedByAnother'
    BY <2>2, <2>3, <2>4, <2>5, DeskStep
  <2>7. RequestOK' /\ FiledInOrder'
    BY <2>1, <2>2, <2>3, <2>6 DEF RequestInv, RequestOK, FiledInOrder
  <2> QED BY <2>2, <2>4, <2>6, <2>7, DeedsStand DEF RequestInv
<1>4. CASE Refused(d)
  <2>1. /\ desk' = [desk EXCEPT ![d] = Idle]
        /\ UNCHANGED <<action, by, reviewer, rstatus, late, crossed, given, under, ownRight>>
    BY <1>4 DEF Refused, Drop, requestVars, deedVars
  <2>2. Filed' = Filed /\ \A x \in Requests : DecidedByAnother(x) => DecidedByAnother(x)'
    BY <2>1 DEF Filed, DecidedByAnother
  <2>3. \A x \in Requests : rstatus'[x] = "approved" => DecidedByAnother(x)'
    BY <2>1, <2>2 DEF RequestInv, ApprovedByAnother
  <2>4. desk' \in [Desks -> Copy \cup {Idle}] /\ ApprovedByAnother'
    BY <2>1, <2>2, <2>3, DeskStep
  <2>5. RequestOK' /\ FiledInOrder'
    BY <2>1, <2>2, <2>4 DEF RequestInv, RequestOK, FiledInOrder
  <2> QED BY <2>1, <2>2, <2>4, <2>5, DeedsStand DEF RequestInv
<1> QED BY <1>1, <1>2, <1>3, <1>4

\* Deeds, and steps that leave requests alone.
LEMMA RequestsUntouched ==
  ASSUME RequestInv, UNCHANGED <<action, by, reviewer, rstatus, crossed, desk>>, late' \in SUBSET Requests,
         DeedOK', OverLimitWasApproved'
  PROVE  RequestInv'
BY DEF RequestInv, RequestOK, FiledInOrder, Filed, ApprovedByAnother, DecidedByAnother, Holds

LEMMA DeedStep ==
  ASSUME RequestInv, ApprovalAssumption, DeedNext
  PROVE  RequestInv'
<1>0. PICK s \in Subjects, deed \in Deeds :
        \/ \E u \in Users : DoByRight(u, s, deed) \/ AskForApproval(u, s, deed)
        \/ \E d \in Desks : DoUnderApproval(d, s, deed)
  BY DEF DeedNext
<1>1. ASSUME NEW u \in Users, DoByRight(u, s, deed) PROVE RequestInv'
  <2>1. /\ given' = [given EXCEPT ![s] = deed] /\ ownRight' = [ownRight EXCEPT ![s] = TRUE]
        /\ UNCHANGED <<action, by, reviewer, rstatus, late, crossed, desk, under>>
    BY <1>1 DEF DoByRight, requestVars
  <2>2. DeedOK'
    BY <2>1 DEF RequestInv, DeedOK
  <2>3. OverLimitWasApproved'
    BY <2>1 DEF RequestInv, DeedOK, OverLimitWasApproved, Filed
  <2> QED BY <2>1, <2>2, <2>3, RequestsUntouched DEF RequestInv, RequestOK
<1>2. ASSUME NEW u \in Users, AskForApproval(u, s, deed) PROVE RequestInv'
  <2>1. UNCHANGED <<action, by, reviewer, rstatus, late, crossed, desk, given, under, ownRight>>
    BY <1>2 DEF AskForApproval, vars, requestVars, deedVars
  <2>2. DeedOK' /\ OverLimitWasApproved'
    BY <2>1 DEF RequestInv, DeedOK, OverLimitWasApproved, Filed
  <2> QED BY <2>1, <2>2, RequestsUntouched DEF RequestInv, RequestOK
<1>3. ASSUME NEW d \in Desks, DoUnderApproval(d, s, deed) PROVE RequestInv'
  <2> DEFINE r == desk[d].request
  <2>1. r \in Requests /\ r \in Filed /\ DecidedByAnother(r)
    BY <1>3, HeldRow DEF DoUnderApproval, ShowsApproved
  <2>2. /\ rstatus' = [rstatus EXCEPT ![r] = "applied"] /\ desk' = [desk EXCEPT ![d] = Idle]
        /\ given' = [given EXCEPT ![s] = deed] /\ under' = [under EXCEPT ![s] = r]
        /\ ownRight' = [ownRight EXCEPT ![s] = FALSE]
        /\ crossed' \in SUBSET Requests
        /\ UNCHANGED <<action, by, reviewer, late>>
    BY <1>3, CrossGives DEF DoUnderApproval, MarkApplied, Drop
  <2> HIDE DEF r
  <2>3. Filed' = Filed
    BY <2>1, <2>2 DEF Filed, RequestInv, RequestOK
  <2>4. \A x \in Requests : DecidedByAnother(x) => DecidedByAnother(x)'
    BY <2>2, <2>3 DEF DecidedByAnother
  <2>5. \A x \in Requests : rstatus'[x] = "approved" => DecidedByAnother(x)'
    BY <2>1, <2>2, <2>4 DEF RequestInv, RequestOK, ApprovedByAnother
  <2>6. desk' \in [Desks -> Copy \cup {Idle}] /\ ApprovedByAnother'
    BY <2>2, <2>3, <2>4, <2>5, DeskStep
  <2>7. DeedOK'
    BY <2>1, <2>2 DEF RequestInv, DeedOK
  <2>8. OverLimitWasApproved'
    <3>1. \A x \in Subjects \ {s} : given'[x] = given[x] /\ under'[x] = under[x] /\ ownRight'[x] = ownRight[x]
      BY <2>2 DEF RequestInv, DeedOK
    <3>2. under'[s] = r
      BY <2>2 DEF RequestInv, DeedOK
    <3> QED BY <2>1, <2>2, <2>3, <3>1, <3>2 DEF RequestInv, OverLimitWasApproved, DecidedByAnother
  <2>9. RequestOK' /\ FiledInOrder'
    BY <2>1, <2>2, <2>3, <2>6 DEF RequestInv, RequestOK, FiledInOrder
  <2> QED BY <2>6, <2>7, <2>8, <2>9 DEF RequestInv
<1> QED BY <1>0, <1>1, <1>2, <1>3

\* A request is used only from a copy that says approved: if the copy is the
\* row, nothing rests on the request yet.
LEMMA UsedOnceStep ==
  ASSUME RequestInv, UsedOnce, ApprovalAssumption, RequestNext \/ DeedNext
  PROVE  UsedOnce'
<1>1. ASSUME NEW r \in Requests, r \notin Filed, rstatus' = [rstatus EXCEPT ![r] = "pending"],
             UNCHANGED <<under, crossed>>
      PROVE  UsedOnce'
  <2>1. rstatus[r] = "none" /\ \A x \in Requests \ {r} : rstatus'[x] = rstatus[x]
    BY <1>1 DEF Filed, RequestInv, RequestOK
  <2> QED BY <1>1, <2>1 DEF UsedOnce
<1>2. ASSUME NEW d \in Desks, NEW v \in {"approved", "rejected", "expired"}, Holds(d), Cross(d),
             desk[d].status = "pending",
             rstatus' = [rstatus EXCEPT ![desk[d].request] = v], UNCHANGED under
      PROVE  UsedOnce'
  <2> DEFINE r == desk[d].request
  <2>1. r \in Requests /\ crossed \subseteq crossed' /\ (r \notin crossed' => rstatus[r] = "pending")
    BY <1>2, HeldRow, CrossGives
  <2>2. \A x \in Requests \ {r} : rstatus'[x] = rstatus[x]
    BY <1>2 DEF RequestInv, RequestOK
  <2> QED BY <1>2, <2>1, <2>2 DEF UsedOnce
<1>3. ASSUME NEW d \in Desks, NEW s \in Subjects, NEW deed \in Deeds, DoUnderApproval(d, s, deed)
      PROVE  UsedOnce'
  <2> DEFINE r == desk[d].request
  <2>1. /\ r \in Requests /\ crossed \subseteq crossed' /\ (r \notin crossed' => rstatus[r] = "approved")
        /\ rstatus' = [rstatus EXCEPT ![r] = "applied"] /\ under' = [under EXCEPT ![s] = r]
    BY <1>3, HeldRow, CrossGives DEF DoUnderApproval, ShowsApproved, MarkApplied
  <2> HIDE DEF r
  <2>2. /\ rstatus'[r] = "applied" /\ \A x \in Requests \ {r} : rstatus'[x] = rstatus[x]
        /\ under'[s] = r /\ \A x \in Subjects \ {s} : under'[x] = under[x]
    BY <2>1 DEF RequestInv, RequestOK, DeedOK
  <2>3. r \notin crossed' => \A x \in Subjects : under[x] # r
    BY <2>1 DEF UsedOnce
  <2> QED BY <2>1, <2>2, <2>3 DEF UsedOnce
<1>4. ASSUME UNCHANGED <<rstatus, under, crossed>> PROVE UsedOnce'
  BY <1>4 DEF UsedOnce
<1>5. CASE RequestNext
  <2>1. ASSUME NEW u \in Users, NEW a \in Actions, File(u, a) PROVE UsedOnce'
    <3>1. NextId \in Requests /\ NextId \notin Filed
      BY <2>1, NextNumber DEF File, RequestInv
    <3> QED BY <1>1, <2>1, <3>1 DEF File, deedVars
  <2>2. ASSUME NEW d \in Desks, NEW u \in Users, NEW v \in {"approved", "rejected"}, Decide(d, u, v)
        PROVE  UsedOnce'
    BY <1>2, <2>2 DEF Decide, deedVars
  <2>3. ASSUME NEW d \in Desks, FindExpired(d) PROVE UsedOnce'
    BY <1>2, <2>3 DEF FindExpired, deedVars
  <2>4. ASSUME \/ \E r \in Requests : PassExpiry(r)
               \/ \E d \in Desks, r \in Requests : Load(d, r)
               \/ \E d \in Desks : Refused(d)
        PROVE  UsedOnce'
    BY <1>4, <2>4 DEF PassExpiry, Load, Refused, requestVars, deedVars
  <2> QED BY <1>5, <2>1, <2>2, <2>3, <2>4 DEF RequestNext
<1>6. CASE DeedNext
  <2>1. ASSUME NEW s \in Subjects, NEW deed \in Deeds, NEW u \in Users,
               DoByRight(u, s, deed) \/ AskForApproval(u, s, deed)
        PROVE  UsedOnce'
    BY <1>4, <2>1 DEF DoByRight, AskForApproval, vars, requestVars, deedVars
  <2> QED BY <1>3, <1>6, <2>1 DEF DeedNext
<1> QED BY <1>5, <1>6
-----------------------------------------------------------------------------
LEMMA InvKept ==
  ASSUME UsersAssumption, ApprovalAssumption
  PROVE  Inv /\ [Next]_vars => Inv'
<1> SUFFICES ASSUME Inv, [Next]_vars PROVE Inv'
  OBVIOUS
<1>1. UNCHANGED accountVars => AccountInv'
  BY DEF Inv, AccountInv, AccountTypeOK, CountsAreWrongLogins, ExactUnlessRaced, Exact, accountVars,
     roleVars, counterVars
<1>2. UNCHANGED <<requestVars, desk, deedVars>> => RequestInv' /\ UsedOnce'
  <2> SUFFICES ASSUME UNCHANGED <<requestVars, desk, deedVars>> PROVE RequestInv' /\ UsedOnce'
    OBVIOUS
  <2>1. UNCHANGED <<action, by, reviewer, rstatus, late, crossed, desk, given, under, ownRight>>
    BY DEF requestVars, deedVars
  <2>2. DeedOK' /\ OverLimitWasApproved'
    BY <2>1 DEF Inv, RequestInv, DeedOK, OverLimitWasApproved, Filed
  <2>3. UsedOnce'
    BY <2>1 DEF Inv, UsedOnce
  <2> QED BY <2>1, <2>2, <2>3, RequestsUntouched DEF Inv, RequestInv, RequestOK
<1>3. CASE AccountNext /\ UNCHANGED <<requestVars, desk, deedVars>>
  BY <1>2, <1>3, LoginStep, FormStep DEF AccountNext, Inv
<1>4. CASE RequestNext
  <2>1. UNCHANGED accountVars
    BY <1>4 DEF RequestNext, File, PassExpiry, Load, Decide, FindExpired, Refused
  <2>2. ASSUME NEW r \in Requests, PassExpiry(r) PROVE RequestInv'
    <3>1. /\ UNCHANGED <<action, by, reviewer, rstatus, crossed, desk, given, under, ownRight>>
          /\ late' \in SUBSET Requests
      BY <2>2 DEF PassExpiry, deedVars, Inv, RequestInv, RequestOK
    <3>2. DeedOK' /\ OverLimitWasApproved'
      BY <3>1 DEF Inv, RequestInv, DeedOK, OverLimitWasApproved, Filed
    <3> QED BY <3>1, <3>2, RequestsUntouched DEF Inv
  <2>3. RequestInv'
    BY <1>4, <2>2, FileStep, ReviewStep DEF RequestNext, Inv
  <2> QED BY <1>1, <1>4, <2>1, <2>3, UsedOnceStep DEF Inv
<1>5. CASE DeedNext
  <2>1. UNCHANGED accountVars
    BY <1>5 DEF DeedNext, DoByRight, AskForApproval, DoUnderApproval, vars
  <2> QED BY <1>1, <1>5, <2>1, DeedStep, UsedOnceStep DEF Inv
<1>6. CASE UNCHANGED vars
  BY <1>1, <1>2, <1>6 DEF vars, Inv
<1> QED BY <1>3, <1>4, <1>5, <1>6 DEF Next

LEMMA Safety == Spec => []Inv
<1>1. UsersAssumption /\ ApprovalAssumption
  BY UsersAssumption, ApprovalAssumption
<1> QED BY <1>1, InitInv, InvKept, PTL DEF Spec

\* Rows of users, requests, threads and deeds keep their types.
THEOREM TypeCorrect == Spec => []TypeOK
<1>1. Inv => TypeOK
  BY DEF Inv, AccountInv, RequestInv, RequestOK, DeedOK, TypeOK
<1> QED BY <1>1, Safety, PTL

\* Whatever stale rows are written back, nobody is locked out before MaxAttempts
\* wrong logins; and unless one was, the counter has lost none of them since it
\* was cleared and there is a lock from the MaxAttempts-th on.
THEOREM NoEarlyLock == Spec => []LockedAfterAttempts
<1>1. Inv => LockedAfterAttempts
  BY DEF Inv, AccountInv, CountsAreWrongLogins, Earned, ExactUnlessRaced, Exact, LockedAfterAttempts
<1> QED BY <1>1, Safety, PTL

\* Nothing beyond the giver's own right lacks a second person's decision.
THEOREM SecondPerson == Spec => []OverLimitWasApproved
<1>1. Inv => OverLimitWasApproved
  BY DEF Inv, RequestInv
<1> QED BY <1>1, Safety, PTL

\* An approval serves one deed and a request not approved none, whichever threads
\* decide and use requests at once, unless one of them held a stale row.
THEOREM ServesOnce == Spec => []EachApprovalServesOnce
<1>1. Inv => EachApprovalServesOnce
  BY DEF Inv, UsedOnce, EachApprovalServesOnce, Filed
<1> QED BY <1>1, Safety, PTL

(***************************************************************************)
(* Backups                                                                 *)
(***************************************************************************)

\* Where records are met: in the database, in what archives hold of it, and as
\* the instances that jobs hold.
Held(j)   == {job[j].new, job[j].old} \ {None}
Stored(d) == {[id |-> b, row |-> d.rows[b]] : b \in Existing(d.rows)}
Archives  == UNION {Stored(image[k]) : k \in DOMAIN image}
Copies    == Stored(db) \cup Archives \cup UNION {Held(j) : j \in Busy}
Seen      == {begun[k] : k \in DOMAIN begun}

\* All but the instances whose archive is still being made.
MakingSteps  == {"write", "close", "encrypt", "finish"}
ReadingSteps == {"decrypt", "decrypted", "read"}
Making  == {j \in Busy : job[j].step \in MakingSteps}
Settled == Stored(db) \cup Archives \cup {job[j].old : j \in Busy} \cup {job[j].new : j \in Busy \ Making}

\* A job holds what its step needs, and an instance in the making has no sum.
SoundJob(m, archives) ==
  /\ m.task = "restore" => m.old # None
  /\ m.step \in MakingSteps =>
       /\ m.new # None /\ m.new.row.sum = 0
       /\ m.new.row.ext = IF m.new.row.enc /\ m.step = "finish" THEN "enc" ELSE "zip"
       /\ m.step = "encrypt" => m.new.row.enc
  /\ m.step \in {"check", "decrypt", "decrypted", "read", "safety", "copy", "record"} => m.old # None
  /\ m.step \in {"decrypt", "decrypted"} => m.old.row.enc
  /\ m.step = "decrypted" => m.mem # None /\ m.mem.is = "whole" /\ m.mem.id \in archives
  /\ m.step \in {"copy", "record"} /\ m.task = "restore" => m.new # None
JobsSound == \A j \in Busy : SoundJob(job[j], DOMAIN image)

\* Names say whether a file is encrypted, and a whole one holds a known archive.
SoundFile(f, c, archives) ==
  /\ f[2] = "zip" => c.plain
  /\ f[2] = "enc" => ~c.plain
  /\ c.is = "damaged" => c.id = 0
  /\ c.is = "whole" => c.id \in archives
FilesSound ==
  \A f \in Files : disk[f] # None => f[1] \in Seen /\ SoundFile(f, disk[f], DOMAIN image)

\* Every copy of a record comes from a backup that began, and copies of one
\* second are of one record where only one backup began in it. Rows come and go
\* with restores; what they were made with does not.
CopiesBegun ==
  \A x \in Copies : x.row.stamp \in Seen /\ x.id <= Len(begun)
OneOrigin ==
  \A x, y \in Copies :
    x.row.stamp = y.row.stamp /\ Alone(x.row.stamp) => x.id = y.id /\ x.row.enc = y.row.enc
OneMaker ==
  \A j, k \in Busy :
    job[j].new # None /\ job[k].new # None /\ job[j].new.row.stamp = job[k].new.row.stamp
      /\ Alone(job[j].new.row.stamp) => j = k

\* A decrypted file is in part only while a job decrypts it, or after one was
\* killed that read the same record.
Partial ==
  \A s \in 1 .. Seconds : LET t == <<s, "verify">> IN
    disk[t] # None /\ disk[t].is # "whole" /\ Alone(s) =>
       \/ \E k \in Busy : On(k, "decrypted") /\ job[k].old.row.stamp = s
       \/ \E b \in Records : <<"reading", b>> \in interrupted
                          /\ \A x \in Copies : x.row.stamp = s => x.id = b
Grounds == JobsSound /\ FilesSound /\ CopiesBegun /\ OneOrigin /\ OneMaker /\ Partial

\* The rest holds until a restore takes the database back under another job.
\* Records are numbered from one on, in the database and in every archive.
UpToOne(d, len) == \E n \in 0 .. len : Existing(d.rows) = 1 .. n
Segments ==
  UpToOne(db, Len(begun)) /\ \A k \in DOMAIN image : UpToOne(image[k], Len(begun))

\* An instance a job holds is of a row of the database.
SameRowAs(x) ==
  /\ db.rows[x.id] # None /\ db.rows[x.id].stamp = x.row.stamp /\ db.rows[x.id].enc = x.row.enc
  /\ Alone(x.row.stamp) /\ x.row.sum # 0 => db.rows[x.id].sum # 0
SameRow == \A j \in Busy : job[j].step # "record" => \A x \in Held(j) : SameRowAs(x)

\* The file of a backup in the making is as far as the job that makes it.
HasCopyOf(f, b) ==
  /\ ~Missing(f) /\ disk[f].is = "whole" /\ disk[f].id \in DOMAIN image
  /\ image[disk[f].id].rows[b] # None
MakersFileIs(s, i) ==
  \/ Missing(PathOf(i))
  \/ s = "close" /\ disk[PathOf(i)].is = "partial"
  \/ s \in {"encrypt", "finish"} /\ HasCopyOf(PathOf(i), i.id)
MakersFile ==
  \A j \in Making : Alone(job[j].new.row.stamp) => MakersFileIs(job[j].step, job[j].new)

\* A row with a sum has its archive and nobody makes it any more. One without
\* was never finished; it is usable only if a verification found the plain
\* archive whole.
MakersOf(s) == {j \in Making : job[j].new.row.stamp = s}
SoundRow(row) ==
  /\ row.sum # 0 => Archived(row) /\ MakersOf(row.stamp) = {} /\ row.ext = (IF row.enc THEN "enc" ELSE "zip")
  /\ row.sum = 0 => row.ext = "zip" /\
       (row.status \in {"success", "verified"} =>
          ~row.enc /\ Archived(row) /\ \A j \in MakersOf(row.stamp) : job[j].step = "finish")
SettledSound == \A x \in Settled \ {None} : Alone(x.row.stamp) => SoundRow(x.row)

\* What a verification has passed stays passed while it reads on.
WholeOrRetired(f) == f \in retired \/ (~Missing(f) /\ disk[f].is = "whole")
PassedJob(m) ==
  m.step \in ReadingSteps /\ Alone(m.old.row.stamp) =>
    /\ m.old.row.enc /\ m.step # "decrypt" => m.old.row.sum # 0
    /\ m.old.row.sum # 0 => WholeOrRetired(PathOf(m.old))
Passed == \A j \in Busy : PassedJob(job[j])

\* A restore about to copy has its safety backup.
WayBack ==
  \A j \in Busy : job[j].step = "copy" /\ job[j].task = "restore" /\ Alone(job[j].new.row.stamp) =>
     PathOf(job[j].new) \in retired \/ HasCopyOf(PathOf(job[j].new), job[j].new.id)
Unmixed == Segments /\ SameRow /\ MakersFile /\ SettledSound /\ Passed /\ WayBack

BackupsIInv == BackupsTypeOK /\ Grounds /\ (~mixed => Unmixed)
-----------------------------------------------------------------------------
\* The steps fall into those that make an archive, those that begin one, and
\* all others, which are Going: they finish or verify what is there.
Others(j) == \A k \in Jobs : k # j => job'[k] = job[k]
Makes(j) == OpenArchive(j) \/ CloseArchive(j) \/ Encrypt(j) \/ FinishBackup(j)
Inserts(j, enc) == BeginBackup(j, enc) \/ SafetyBackup(j, enc)
Reads(j) == Check(j) \/ BeginDecrypt(j) \/ EndDecrypt(j) \/ ReadArchive(j)
BeginsToRead(j) ==
  (\E b \in Records : BeginVerify(j, b)) \/ (\E task \in {"restore", "rehearse"} : BeginRestore(j, task))
Ends(j) == MissingFails(j) \/ WriteFails(j) \/ CopyFails(j) \/ RecordRestore(j) \/ EndRetention(j) \/ Kill(j)
Lists(j) == ListOld(j) \/ \E f \in Files : DeleteOne(j, f)
Aside == (\E b \in Records : FileRestore(b)) \/ (\E f \in Files : Damage(f)) \/ Tick
Otherwise ==
  \/ \E j \in Jobs :
       \/ BeginsToRead(j) \/ Makes(j) \/ (\E enc \in Encrypted : Inserts(j, enc))
       \/ Ends(j) \/ CopyOver(j) \/ Lists(j)
  \/ Aside

\* Rows stay but for their status, which gets worse, or better for those in V.
RowsKept(d, e, V) ==
  \A b \in Records :
    /\ e.rows[b] = None <=> d.rows[b] = None
    /\ d.rows[b] # None =>
         LET r == d.rows[b]
             q == e.rows[b] IN
         /\ q.stamp = r.stamp /\ q.enc = r.enc /\ q.ext = r.ext /\ q.sum = r.sum
         /\ q.status \in {r.status, "failed", "corrupt"} \/ (b \in V /\ q.status = "verified")
FilesKept ==
  /\ retired \subseteq retired'
  /\ \A f \in Files : f[2] # "verify" =>
       \/ disk'[f] = disk[f]
       \/ disk'[f] = None /\ f \in retired'
       \/ /\ disk'[f] # None /\ disk'[f].is = "damaged"
          /\ \A j \in Busy : \A i \in Held(j) : i.row.stamp # f[1]
JobsGoOn ==
  \A k \in Jobs :
    \/ job'[k] = job[k]
    \/ job'[k] = None
    \/ /\ job'[k] # None /\ job'[k].step \notin MakingSteps
       /\ ~(job'[k].step = "copy" /\ job'[k].task = "restore")
       /\ \/ /\ job[k] # None /\ job[k].step \notin MakingSteps \cup {"record"}
             /\ job'[k].new = job[k].new /\ job'[k].old = job[k].old
          \/ job[k] = None /\ job'[k].new = None /\ job'[k].old \in Stored(db)

\* What a verification that ends well, and a restore, do to the rows.
Verifies(j) ==
  /\ On(j, "read") /\ RowsKept(db, db', {job[j].old.id})
  /\ ~Missing(Source(job[j].old)) /\ disk[Source(job[j].old)].is = "whole"
TakesBack(j) ==
  /\ On(j, "copy") /\ job'[j] # None /\ job'[j].step = "record"
  /\ db' = db \/ \E k \in DOMAIN image : db' = image[k]
  /\ \A k \in Jobs : k # j => job'[k] = job[k]
  /\ ~mixed' => Busy = {j}
Going ==
  /\ image' = image /\ begun' = begun /\ (mixed => mixed')
  /\ FilesKept /\ JobsGoOn
  /\ RowsKept(db, db', {}) \/ (\E j \in Jobs : Verifies(j)) \/ (\E j \in Jobs : TakesBack(j))
-----------------------------------------------------------------------------

LEMMA NoneIsNothing ==
  None \notin Row /\ None \notin Request /\ None \notin Content /\ None \notin Instance /\ None \notin Job
BY NoneAssumption DEF NoneAssumption

LEMMA UpTo ==
  ASSUME NEW n \in Nat PROVE IsFiniteSet(1 .. n) /\ Cardinality(1 .. n) = n
BY FS_Interval

\* Alone, said without a cardinality.
LEMMA AtMostOne ==
  ASSUME NEW q \in Seq(1 .. Seconds), NEW s
  PROVE  Cardinality({k \in DOMAIN q : q[k] = s}) <= 1
           <=> \A k, l \in DOMAIN q : q[k] = s /\ q[l] = s => k = l
<1> DEFINE S == {k \in DOMAIN q : q[k] = s}
<1>1. IsFiniteSet(S) /\ Cardinality(S) \in Nat
  <2>1. DOMAIN q = 1 .. Len(q) /\ Len(q) \in Nat
    OBVIOUS
  <2>2. IsFiniteSet(1 .. Len(q))
    BY <2>1, FS_Interval
  <2> QED BY <2>1, <2>2, FS_Subset, FS_CardinalityType
<1>2. ASSUME NEW k \in S, NEW l \in S, k # l, Cardinality(S) <= 1 PROVE FALSE
  <2>1. IsFiniteSet(S \ {k}) /\ Cardinality(S \ {k}) = Cardinality(S) - 1
    BY <1>1, FS_RemoveElement
  <2>2. Cardinality(S \ {k}) = 0
    BY <1>1, <1>2, <2>1, FS_CardinalityType
  <2>3. S \ {k} = {}
    BY <2>1, <2>2, FS_EmptySet
  <2> QED BY <1>2, <2>3
<1>3. ASSUME \A k, l \in S : k = l PROVE Cardinality(S) <= 1
  <2> HIDE DEF S
  <2>1. CASE S = {}
    <3>1. Cardinality(S) = 0
      BY <1>1, <2>1, FS_EmptySet
    <3> QED BY <3>1
  <2>2. ASSUME NEW k \in S PROVE Cardinality(S) <= 1
    <3>1. S = {k}
      BY <1>3, <2>2
    <3>2. Cardinality(S) = 1
      BY <3>1, FS_Singleton
    <3> QED BY <3>2
  <2> QED BY <2>1, <2>2
<1> QED BY <1>2, <1>3

\* A backup that begins in the second of another leaves neither alone.
LEMMA AloneAfter ==
  ASSUME BackupsTypeOK, CountBackup, NEW s
  PROVE  /\ begun' \in Seq(1 .. Seconds) /\ Len(begun') = Len(begun) + 1
         /\ Seen' = Seen \cup {clock}
         /\ Alone(s)' => Alone(s) /\ (s = clock => clock \notin Seen)
<1>1. begun \in Seq(1 .. Seconds) /\ clock \in 1 .. Seconds /\ begun' = Append(begun, clock)
  BY DEF BackupsTypeOK, CountBackup
<1>2. /\ Len(begun) \in Nat /\ DOMAIN begun = 1 .. Len(begun)
      /\ begun' \in Seq(1 .. Seconds) /\ Len(begun') = Len(begun) + 1
      /\ DOMAIN begun' = 1 .. Len(begun) + 1
      /\ \A k \in 1 .. Len(begun) : begun'[k] = begun[k]
      /\ begun'[Len(begun) + 1] = clock
  BY <1>1
<1>3. Seen' = Seen \cup {clock}
  BY <1>2 DEF Seen
<1>4. Alone(s)' <=> \A k, l \in DOMAIN begun' : begun'[k] = s /\ begun'[l] = s => k = l
  BY <1>2, AtMostOne DEF Alone
<1>5. ASSUME Alone(s)' PROVE Alone(s)
  <2>1. Alone(s) <=> \A k, l \in DOMAIN begun : begun[k] = s /\ begun[l] = s => k = l
    BY <1>1, AtMostOne DEF Alone
  <2> QED BY <1>2, <1>4, <1>5, <2>1
<1>6. ASSUME Alone(s)', s = clock PROVE clock \notin Seen
  BY <1>2, <1>4, <1>6 DEF Seen
<1> QED BY <1>2, <1>3, <1>5, <1>6
-----------------------------------------------------------------------------
Statuses == {"running", "success", "failed", "verified", "corrupt"}

\* Types: the handlers write rows, files, archives and jobs of their type.
LEMMA MarkedTypes ==
  ASSUME NEW d \in Database, NEW b \in Records, NEW s \in Statuses
  PROVE  /\ Marked(d, b, s) \in Database /\ Marked(d, b, s).restore = d.restore
         /\ \A c \in Records : /\ c # b => Marked(d, b, s).rows[c] = d.rows[c]
                               /\ d.rows[c] = None => Marked(d, b, s).rows[c] = None
         /\ d.rows[b] # None =>
              LET r == d.rows[b]
                  q == Marked(d, b, s).rows[b] IN
              /\ q \in Row /\ q.status = s
              /\ q.stamp = r.stamp /\ q.enc = r.enc /\ q.ext = r.ext /\ q.sum = r.sum
<1>1. d.rows[b] # None => d.rows[b] \in Row /\ [d.rows[b] EXCEPT !.status = s] \in Row
  BY DEF Database, Row, Statuses
<1>2. /\ Marked(d, b, s) \in Database /\ Marked(d, b, s).restore = d.restore
      /\ \A c \in Records : /\ c # b => Marked(d, b, s).rows[c] = d.rows[c]
                            /\ d.rows[c] = None => Marked(d, b, s).rows[c] = None
  BY <1>1 DEF Marked, Database
<1>3. d.rows[b] # None => Marked(d, b, s).rows[b] = [d.rows[b] EXCEPT !.status = s]
  BY <1>1 DEF Marked, Database
<1>4. ASSUME d.rows[b] # None
      PROVE  LET r == d.rows[b]
                 q == Marked(d, b, s).rows[b] IN
             /\ q \in Row /\ q.status = s
             /\ q.stamp = r.stamp /\ q.enc = r.enc /\ q.ext = r.ext /\ q.sum = r.sum
  BY <1>1, <1>3, <1>4 DEF Row
<1> QED BY <1>2, <1>4

LEMMA ReportedTypes ==
  ASSUME NEW j, NEW d \in Database, NEW s \in {"pending", "running", "success", "failed"}
  PROVE  /\ Reported(j, d, s) \in Database /\ Reported(j, d, s).rows = d.rows
<1>1. d.restore # None => [d.restore EXCEPT !.status = s] \in Request
  BY DEF Database, Request
<1> QED BY <1>1 DEF Reported, Database

LEMMA InsertTypes ==
  ASSUME BackupsTypeOK, NEW enc \in BOOLEAN
  PROVE  /\ NewRow(enc) \in Row /\ Insert(db, enc) \in Database
         /\ \A c \in Records : Insert(db, enc).rows[c] = IF c = NextRecord THEN NewRow(enc) ELSE db.rows[c]
<1>1. NewRow(enc) \in Row
  BY DEF BackupsTypeOK, NewRow, Row
<1> QED BY <1>1 DEF BackupsTypeOK, Insert, Database

\* The next number is free where the numbers have no gap, and within the bound.
LEMMA NextRecordIs ==
  ASSUME BackupsTypeOK, CopiesBegun, Len(begun) < MaxBackups, BackupAssumption
  PROVE  /\ NextRecord \in Records /\ NextRecord <= Len(begun) + 1
         /\ \A n \in Nat : Existing(db.rows) = 1 .. n => NextRecord = n + 1
<1>1. Len(begun) \in Nat /\ MaxBackups \in Nat
  BY DEF BackupsTypeOK, BackupAssumption
<1>2. Existing(db.rows) \subseteq 1 .. Len(begun)
  <2> SUFFICES ASSUME NEW b \in Existing(db.rows) PROVE b \in 1 .. Len(begun)
    OBVIOUS
  <2>1. [id |-> b, row |-> db.rows[b]] \in Copies
    BY DEF Copies, Stored
  <2> QED BY <1>1, <2>1 DEF CopiesBegun, Existing, Records
<1>3. IsFiniteSet(1 .. Len(begun)) /\ Cardinality(1 .. Len(begun)) = Len(begun)
  BY <1>1, UpTo
<1>4. Cardinality(Existing(db.rows)) \in Nat /\ Cardinality(Existing(db.rows)) <= Len(begun)
  BY <1>2, <1>3, FS_Subset, FS_CardinalityType
<1>5. ASSUME NEW n \in Nat, Existing(db.rows) = 1 .. n PROVE NextRecord = n + 1
  <2>1. Cardinality(1 .. n) = n
    BY <1>5, FS_Interval
  <2> QED BY <1>5, <2>1 DEF NextRecord
<1> QED BY <1>1, <1>4, <1>5 DEF NextRecord, Records

LEMMA JobTypes ==
  ASSUME BackupsTypeOK, NEW j \in Jobs, job[j] # None
  PROVE  /\ job[j] \in Job
         /\ job[j].new # None => job[j].new \in Instance /\ PathOf(job[j].new) \in Files
                                /\ job[j].new.row \in Row /\ job[j].new.id \in Records
         /\ job[j].old # None => job[j].old \in Instance /\ PathOf(job[j].old) \in Files
                                /\ TempOf(job[j].old) \in Files /\ Source(job[j].old) \in Files
                                /\ job[j].old.row \in Row /\ job[j].old.id \in Records
<1>1. job[j] \in Job
  BY DEF BackupsTypeOK
<1>2. \A i \in Instance : PathOf(i) \in Files /\ TempOf(i) \in Files /\ Source(i) \in Files
                          /\ i.row \in Row /\ i.id \in Records
  BY DEF Instance, Row, PathOf, TempOf, Source, Files
<1>3. (job[j].new # None => job[j].new \in Instance) /\ (job[j].old # None => job[j].old \in Instance)
  BY <1>1 DEF Job
<1> QED BY <1>1, <1>2, <1>3

\* What a step leaves of a job is a job.
LEMMA JobSteps ==
  ASSUME BackupsTypeOK, NEW j \in Jobs, job[j] # None
  PROVE  /\ \A s \in {"write", "close", "encrypt", "finish", "check", "decrypt", "decrypted", "read",
                       "safety", "copy", "record", "list", "delete"} :
              Step(j, s) => job' \in [Jobs -> Job \cup {None}]
         /\ End(j) => job' \in [Jobs -> Job \cup {None}]
<1>1. job[j] \in Job
  BY DEF BackupsTypeOK
<1>2. ASSUME NEW s \in {"write", "close", "encrypt", "finish", "check", "decrypt", "decrypted", "read",
                       "safety", "copy", "record", "list", "delete"}
      PROVE  [job[j] EXCEPT !.step = s] \in Job
  BY <1>1 DEF Job
<1> QED BY <1>2 DEF BackupsTypeOK, Step, End
-----------------------------------------------------------------------------

LEMMA NewJobTypes ==
  ASSUME NEW task \in {"backup", "verify", "restore", "rehearse"}, NEW s \in {"write", "check"}
  PROVE  /\ NewJob(task, s) \in Job
         /\ \A i \in Instance : [NewJob(task, s) EXCEPT !.new = i] \in Job
                               /\ [NewJob(task, s) EXCEPT !.old = i] \in Job
BY DEF NewJob, Job

LEMMA BeginTypes ==
  ASSUME BackupAssumption, BackupsTypeOK, CopiesBegun, NEW j \in Jobs, Begin(j)
  PROVE  BackupsTypeOK'
<1>0. CanBegin(j) => started' \in 0 .. MaxJobs
  BY DEF CanBegin, BackupsTypeOK, BackupAssumption
<1>1. ASSUME NEW enc \in Encrypted, BeginBackup(j, enc) PROVE BackupsTypeOK'
  <2>1. enc \in BOOLEAN
    BY DEF BackupAssumption
  <2>2. CountBackup /\ begun' \in Seq(1 .. Seconds) /\ NextRecord \in Records
    BY <1>1, AloneAfter, NextRecordIs DEF BeginBackup, CountBackup
  <2>3. NewRow(enc) \in Row /\ Insert(db, enc) \in Database
    BY <2>1, InsertTypes
  <2>4. [id |-> NextRecord, row |-> NewRow(enc)] \in Instance
    BY <2>2, <2>3 DEF Instance
  <2>5. job' \in [Jobs -> Job \cup {None}]
    BY <1>1, <2>4, NewJobTypes DEF BeginBackup, BackupsTypeOK
  <2> QED BY <1>0, <1>1, <2>2, <2>3, <2>5 DEF BeginBackup, BackupsTypeOK
<1>2. ASSUME NEW b \in Records, BeginVerify(j, b) PROVE BackupsTypeOK'
  <2>1. [id |-> b, row |-> db.rows[b]] \in Instance
    BY <1>2 DEF BeginVerify, Existing, BackupsTypeOK, Database, Instance
  <2>2. job' \in [Jobs -> Job \cup {None}]
    BY <1>2, <2>1, NewJobTypes DEF BeginVerify, BackupsTypeOK
  <2> QED BY <1>0, <1>2, <2>2 DEF BeginVerify, BackupsTypeOK, history
<1>3. ASSUME NEW task \in {"restore", "rehearse"}, BeginRestore(j, task) PROVE BackupsTypeOK'
  <2>1. [id |-> db.restore.of, row |-> db.rows[db.restore.of]] \in Instance
    BY <1>3 DEF BeginRestore, Existing, BackupsTypeOK, Database, Instance
  <2>2. job' \in [Jobs -> Job \cup {None}]
    BY <1>3, <2>1, NewJobTypes DEF BeginRestore, BackupsTypeOK
  <2> QED BY <1>0, <1>3, <2>2 DEF BeginRestore, BackupsTypeOK, history
<1> QED BY <1>1, <1>2, <1>3 DEF Begin

LEMMA FailTypes ==
  ASSUME BackupsTypeOK, NEW j \in Jobs, job[j] # None, job[j].new # None, FailBackup(j),
         faults' \in 0 .. MaxFaults, started' = started
  PROVE  BackupsTypeOK'
<1>1. job[j].new.id \in Records /\ db \in Database
  BY JobTypes DEF BackupsTypeOK
<1>2. Marked(db, job[j].new.id, FailedStatus) \in Database
  BY <1>1, MarkedTypes DEF FailedStatus, Statuses
<1>3. db' \in Database
  BY <1>2, ReportedTypes DEF FailBackup
<1>4. job' \in [Jobs -> Job \cup {None}]
  BY JobSteps DEF FailBackup
<1> QED BY <1>3, <1>4 DEF FailBackup, BackupsTypeOK, history

LEMMA WriteTypes ==
  ASSUME BackupAssumption, BackupsTypeOK, JobsSound, NEW j \in Jobs, started' = started,
         OpenArchive(j) \/ CloseArchive(j) \/ Encrypt(j) \/ FinishBackup(j) \/ MissingFails(j) \/ WriteFails(j)
  PROVE  BackupsTypeOK'
<1>0. /\ j \in Busy /\ job[j].step \in MakingSteps /\ job[j].new # None
      /\ job[j] \in Job /\ job[j].new \in Instance /\ PathOf(job[j].new) \in Files
      /\ job[j].new.row \in Row /\ job[j].new.id \in Records
  <2>1. j \in Busy /\ job[j].step \in MakingSteps
    BY DEF OpenArchive, CloseArchive, Encrypt, FinishBackup, MissingFails, WriteFails, On, Busy, MakingSteps
  <2> QED BY <2>1, JobTypes DEF JobsSound, SoundJob, Busy
<1>1. Begun \in Content
  BY DEF Begun, Content
<1>2. CASE OpenArchive(j)
  BY <1>0, <1>1, <1>2, JobSteps DEF OpenArchive, Put, BackupsTypeOK, history, Busy
<1>3. CASE CloseArchive(j)
  <2>1. image' \in Seq(Database) /\ Len(image') \in Nat
    BY <1>3 DEF CloseArchive, BackupsTypeOK
  <2>2. [id |-> Len(image'), is |-> "whole", plain |-> TRUE] \in Content
    BY <2>1 DEF Content
  <2>3. job' \in [Jobs -> Job \cup {None}]
    BY <1>0, <1>3, JobSteps DEF CloseArchive, Busy
  <2>4. disk' \in [Files -> Content \cup {None}]
    BY <1>0, <1>1, <1>3, <2>2 DEF CloseArchive, Put, BackupsTypeOK
  <2> QED BY <1>3, <2>1, <2>3, <2>4 DEF CloseArchive, BackupsTypeOK, history
<1>4. CASE Encrypt(j)
  <2> DEFINE f == PathOf(job[j].new)
  <2>1. disk[f] \in Content
    BY <1>0, <1>4 DEF Encrypt, Missing, BackupsTypeOK
  <2>2. [disk[f] EXCEPT !.plain = FALSE] \in Content
    BY <2>1 DEF Content
  <2>3. disk' \in [Files -> Content \cup {None}]
    BY <1>4, <2>2 DEF Encrypt, BackupsTypeOK
  <2>4. [job[j].new EXCEPT !.row.ext = "enc"] \in Instance
    BY <1>0 DEF Instance, Row
  <2>5. job' = [job EXCEPT ![j] = [job[j] EXCEPT !.new = [job[j].new EXCEPT !.row.ext = "enc"], !.step = "finish"]]
    BY <1>0, <1>4 DEF Encrypt, BackupsTypeOK, Job
  <2>6. job' \in [Jobs -> Job \cup {None}]
    BY <1>0, <2>4, <2>5 DEF BackupsTypeOK, Job
  <2> QED BY <1>4, <2>3, <2>6 DEF Encrypt, BackupsTypeOK, history
<1>5. CASE FinishBackup(j)
  <2> DEFINE i == job[j].new
             r == [i.row EXCEPT !.status = "success", !.sum = ReadBack(j)]
             done == [i EXCEPT !.row = r]
  <2>1. ReadBack(j) \in Nat
    BY <1>0, <1>5 DEF FinishBackup, ReadBack, Missing, BackupsTypeOK, Content
  <2>2. r \in Row
    BY <1>0, <2>1 DEF Row
  <2>3. done \in Instance
    BY <1>0, <2>2 DEF Instance
  <2>4. db' = [db EXCEPT !.rows[i.id] = r]
    BY <1>5 DEF FinishBackup
  <2>5. PICK s \in AfterBackup(j) : job' = [job EXCEPT ![j] =
           [job[j] EXCEPT !.step = s, !.new = done, !.old = IF s = "copy" THEN job[j].old ELSE done]]
    BY <1>5 DEF FinishBackup
  <2> HIDE DEF r, done
  <2>6. db' \in Database
    BY <1>0, <2>2, <2>4 DEF BackupsTypeOK, Database
  <2>7. job' \in [Jobs -> Job \cup {None}]
    BY <1>0, <2>3, <2>5 DEF BackupsTypeOK, Job, AfterBackup
  <2> QED BY <1>5, <2>6, <2>7 DEF FinishBackup, BackupsTypeOK, history
<1>6. CASE MissingFails(j)
  BY <1>0, <1>6, FailTypes DEF MissingFails, Busy, BackupsTypeOK
<1>7. CASE WriteFails(j)
  <2>1. faults' \in 0 .. MaxFaults
    BY <1>7 DEF WriteFails, BackupsTypeOK, BackupAssumption
  <2> QED BY <1>0, <1>7, <2>1, FailTypes DEF WriteFails, Busy
<1> QED BY <1>2, <1>3, <1>4, <1>5, <1>6, <1>7

LEMMA InvalidTypes ==
  ASSUME BackupsTypeOK, NEW j \in Jobs, job[j] # None, job[j].old # None, NEW m \in BOOLEAN, Invalid(j, m)
  PROVE  db' \in Database /\ job' \in [Jobs -> Job \cup {None}]
<1>1. job[j].old.id \in Records /\ db \in Database
  BY JobTypes DEF BackupsTypeOK
<1>2. Marked(db, job[j].old.id, "corrupt") \in Database
  BY <1>1, MarkedTypes DEF Statuses
<1>3. db' \in Database
  BY <1>1, <1>2, ReportedTypes DEF Invalid
<1> QED BY <1>3, JobSteps DEF Invalid

LEMMA ReadTypes ==
  ASSUME BackupAssumption, BackupsTypeOK, JobsSound, NEW j \in Jobs, started' = started, Reads(j)
  PROVE  BackupsTypeOK'
<1>0. /\ j \in Busy /\ job[j] # None /\ job[j].old # None
      /\ job[j] \in Job /\ job[j].old \in Instance /\ PathOf(job[j].old) \in Files
      /\ TempOf(job[j].old) \in Files /\ Source(job[j].old) \in Files
      /\ job[j].old.row \in Row /\ job[j].old.id \in Records
  <2>1. j \in Busy /\ job[j].step \in {"check", "decrypt", "decrypted", "read"}
    BY DEF Check, BeginDecrypt, EndDecrypt, ReadArchive, On, Busy, Reads
  <2> QED BY <2>1, JobTypes DEF JobsSound, SoundJob, Busy
<1>1. Begun \in Content
  BY DEF Begun, Content
<1>2. CASE Check(j)
  <2>1. db' \in Database /\ job' \in [Jobs -> Job \cup {None}]
    <3>1. ASSUME NEW m \in BOOLEAN, Invalid(j, m) PROVE db' \in Database /\ job' \in [Jobs -> Job \cup {None}]
      BY <1>0, <3>1, InvalidTypes
    <3>2. ASSUME NEW s \in {"decrypt", "read"}, Step(j, s), UNCHANGED db
          PROVE  db' \in Database /\ job' \in [Jobs -> Job \cup {None}]
      BY <1>0, <3>2, JobSteps DEF BackupsTypeOK
    <3> QED BY <1>2, <3>1, <3>2 DEF Check
  <2> QED BY <1>2, <2>1 DEF Check, BackupsTypeOK, history
<1>3. CASE BeginDecrypt(j)
  <2> DEFINE c == disk[PathOf(job[j].old)]
  <2>1. CASE c = None \/ c.is # "whole" \/ c.plain
    <3>1. db' \in Database /\ job' \in [Jobs -> Job \cup {None}] /\ Put(TempOf(job[j].old), None)
      BY <1>0, <1>3, <2>1, InvalidTypes DEF BeginDecrypt
    <3> QED BY <1>0, <1>3, <3>1 DEF BeginDecrypt, Put, BackupsTypeOK, history
  <2>2. CASE ~(c = None \/ c.is # "whole" \/ c.plain)
    <3>1. /\ Put(TempOf(job[j].old), Begun) /\ UNCHANGED db
          /\ job' = [job EXCEPT ![j] = [job[j] EXCEPT !.step = "decrypted", !.mem = c]]
      BY <1>0, <1>3, <2>2 DEF BeginDecrypt, BackupsTypeOK, Job
    <3>2. c \in Content
      BY <1>0, <2>2 DEF BackupsTypeOK
    <3> HIDE DEF c
    <3>3. job' \in [Jobs -> Job \cup {None}]
      BY <1>0, <3>1, <3>2 DEF BackupsTypeOK, Job
    <3> QED BY <1>0, <1>1, <1>3, <3>1, <3>3 DEF BeginDecrypt, Put, BackupsTypeOK, history
  <2> QED BY <2>1, <2>2
<1>4. CASE EndDecrypt(j)
  <2> DEFINE t == TempOf(job[j].old)
  <2>1. job[j].mem \in Content
    BY <1>0, <1>4 DEF EndDecrypt, On, JobsSound, SoundJob, Job
  <2>2. [job[j].mem EXCEPT !.plain = TRUE] \in Content
    BY <2>1 DEF Content
  <2>3. disk' \in [Files -> Content \cup {None}]
    BY <1>0, <1>4, <2>2 DEF EndDecrypt, Put, BackupsTypeOK
  <2>4. job' = [job EXCEPT ![j] = [job[j] EXCEPT !.step = "read", !.mem = None]]
    BY <1>0, <1>4 DEF EndDecrypt, BackupsTypeOK, Job
  <2>5. job' \in [Jobs -> Job \cup {None}]
    BY <1>0, <2>4 DEF BackupsTypeOK, Job
  <2> QED BY <1>4, <2>3, <2>5 DEF EndDecrypt, BackupsTypeOK, history
<1>5. CASE ReadArchive(j)
  <2> DEFINE i == job[j].old
  <2>1. db' \in Database /\ job' \in [Jobs -> Job \cup {None}]
    <3>1. CASE Invalid(j, TRUE)
      BY <1>0, <3>1, InvalidTypes
    <3>2. CASE End(j) /\ UNCHANGED db
      BY <1>0, <3>2, JobSteps DEF BackupsTypeOK
    <3>3. CASE /\ db' = Reported(j, Marked(db, i.id, "verified"), "running")
               /\ \E s \in AfterVerify(j) : IF s = "end" THEN End(j) ELSE Step(j, s)
      <4>1. Marked(db, i.id, "verified") \in Database
        BY <1>0, MarkedTypes DEF Statuses, BackupsTypeOK
      <4>2. db' \in Database
        BY <3>3, <4>1, ReportedTypes
      <4>3. AfterVerify(j) \subseteq {"safety", "copy", "list", "end"}
        BY <1>0 DEF AfterVerify, Job
      <4> QED BY <1>0, <3>3, <4>2, <4>3, JobSteps
    <3> QED BY <1>5, <3>1, <3>2, <3>3 DEF ReadArchive
  <2>2. disk' \in [Files -> Content \cup {None}]
    BY <1>0, <1>5 DEF ReadArchive, Put, BackupsTypeOK
  <2> QED BY <1>5, <2>1, <2>2 DEF ReadArchive, BackupsTypeOK, history
<1> QED BY <1>2, <1>3, <1>4, <1>5 DEF Reads

LEMMA RestoreTypes ==
  ASSUME BackupAssumption, BackupsTypeOK, JobsSound, FilesSound, CopiesBegun, NEW j \in Jobs, started' = started,
         CopyOver(j) \/ CopyFails(j) \/ RecordRestore(j) \/ \E enc \in Encrypted : SafetyBackup(j, enc)
  PROVE  BackupsTypeOK'
<1>0. /\ j \in Busy /\ job[j] # None /\ job[j].old # None
      /\ job[j] \in Job /\ PathOf(job[j].old) \in Files
  <2>1. j \in Busy /\ job[j].step \in {"safety", "copy", "record"}
    BY DEF CopyOver, CopyFails, RecordRestore, SafetyBackup, On, Busy
  <2> QED BY <2>1, JobTypes DEF JobsSound, SoundJob, Busy
<1>1. CASE CopyOver(j)
  <2>1. job' \in [Jobs -> Job \cup {None}]
    BY <1>0, <1>1, JobSteps DEF CopyOver
  <2>2. CASE job[j].task = "rehearse"
    BY <1>1, <2>1, <2>2 DEF CopyOver, BackupsTypeOK, history
  <2>3. CASE job[j].task # "rehearse"
    <3>1. PICK d \in {image[CopySource(j).id], db} : db' = d
      BY <1>1, <2>3 DEF CopyOver
    <3>2. db' \in Database
      <4>1. CopySource(j).id \in DOMAIN image
        BY <1>0, <1>1 DEF CopyOver, Copyable, CopySource, Missing, FilesSound, SoundFile
      <4> QED BY <3>1, <4>1 DEF BackupsTypeOK
    <3>3. Running(db'.rows) \subseteq Records
      BY DEF Running, Existing
    <3>4. interrupted' \in SUBSET ({"making", "reading"} \X Records) /\ mixed' \in BOOLEAN
      BY <1>1, <2>3, <3>3 DEF CopyOver, BackupsTypeOK
    <3> QED BY <1>1, <2>1, <3>2, <3>4 DEF CopyOver, BackupsTypeOK
  <2> QED BY <2>2, <2>3
<1>2. CASE CopyFails(j)
  <2>1. db' \in Database
    BY <1>2, ReportedTypes DEF CopyFails, BackupsTypeOK
  <2> QED BY <1>0, <1>2, <2>1, JobSteps DEF CopyFails, BackupsTypeOK, history
<1>3. CASE RecordRestore(j)
  <2>1. db' \in Database
    BY <1>3, ReportedTypes DEF RecordRestore, BackupsTypeOK
  <2> QED BY <1>0, <1>3, <2>1, JobSteps DEF RecordRestore, BackupsTypeOK, history
<1>4. ASSUME NEW enc \in Encrypted, SafetyBackup(j, enc) PROVE BackupsTypeOK'
  <2>1. enc \in BOOLEAN
    BY DEF BackupAssumption
  <2>2. CountBackup /\ begun' \in Seq(1 .. Seconds) /\ NextRecord \in Records
    BY <1>4, AloneAfter, NextRecordIs DEF SafetyBackup, CountBackup
  <2>3. NewRow(enc) \in Row /\ Insert(db, enc) \in Database
    BY <2>1, InsertTypes
  <2>4. [id |-> NextRecord, row |-> NewRow(enc)] \in Instance
    BY <2>2, <2>3 DEF Instance
  <2>5. job' = [job EXCEPT ![j] = [job[j] EXCEPT !.step = "write", !.new = [id |-> NextRecord, row |-> NewRow(enc)]]]
    BY <1>0, <1>4 DEF SafetyBackup, BackupsTypeOK, Job
  <2>6. job' \in [Jobs -> Job \cup {None}]
    BY <1>0, <2>4, <2>5 DEF BackupsTypeOK, Job
  <2> QED BY <1>4, <2>2, <2>3, <2>6 DEF SafetyBackup, BackupsTypeOK
<1> QED BY <1>1, <1>2, <1>3, <1>4

LEMMA ListTypes ==
  ASSUME BackupAssumption, BackupsTypeOK, NEW j \in Jobs, started' = started,
         ListOld(j) \/ EndRetention(j) \/ \E f \in Files : DeleteOne(j, f)
  PROVE  BackupsTypeOK'
<1>0. job[j] # None /\ job[j] \in Job
  BY DEF ListOld, EndRetention, DeleteOne, On, BackupsTypeOK
<1>1. CASE ListOld(j)
  <2>1. PICK t \in 0 .. clock - 1 : job' = [job EXCEPT ![j].step = "delete", ![j].list =
         {PathOf([id |-> b, row |-> db.rows[b]]) : b \in
            {c \in Usable(db.rows) : Cardinality(Newer(c)) >= Kept /\ db.rows[c].stamp <= t}}]
    BY <1>1 DEF ListOld
  <2> DEFINE L == {PathOf([id |-> b, row |-> db.rows[b]]) : b \in
            {c \in Usable(db.rows) : Cardinality(Newer(c)) >= Kept /\ db.rows[c].stamp <= t}}
  <2>2. \A b \in Usable(db.rows) : db.rows[b] \in Row
    BY DEF Usable, Existing, BackupsTypeOK, Database
  <2>3. L \in SUBSET Files
    BY <2>2 DEF PathOf, Files, Row
  <2>4. job' = [job EXCEPT ![j] = [job[j] EXCEPT !.step = "delete", !.list = L]]
    BY <1>0, <2>1 DEF BackupsTypeOK, Job
  <2> HIDE DEF L
  <2>5. job' \in [Jobs -> Job \cup {None}]
    BY <1>0, <2>3, <2>4 DEF BackupsTypeOK, Job
  <2> QED BY <1>1, <2>5 DEF ListOld, BackupsTypeOK, history
<1>2. CASE EndRetention(j)
  BY <1>0, <1>2, JobSteps DEF EndRetention, BackupsTypeOK, history
<1>3. ASSUME NEW f \in Files, DeleteOne(j, f) PROVE BackupsTypeOK'
  <2>1. job' = [job EXCEPT ![j] = [job[j] EXCEPT !.list = job[j].list \ {f}]]
    BY <1>0, <1>3 DEF DeleteOne, BackupsTypeOK, Job
  <2>2. job' \in [Jobs -> Job \cup {None}]
    BY <1>0, <2>1 DEF BackupsTypeOK, Job
  <2>3. disk' \in [Files -> Content \cup {None}] /\ retired' \in SUBSET Files
    BY <1>3 DEF DeleteOne, Put, BackupsTypeOK
  <2> QED BY <1>3, <2>2, <2>3 DEF DeleteOne, BackupsTypeOK
<1> QED BY <1>1, <1>2, <1>3

LEMMA AroundTypes ==
  ASSUME BackupAssumption, BackupsTypeOK, started' = started,
         (\E j \in Jobs : Kill(j)) \/ Aside
  PROVE  BackupsTypeOK'
<1>1. ASSUME NEW j \in Jobs, Kill(j) PROVE BackupsTypeOK'
  <2>1. /\ job[j].new # None => job[j].new.id \in Records
        /\ job[j].old # None => job[j].old.id \in Records
    BY <1>1, JobTypes DEF Kill
  <2>2. interrupted' \in SUBSET ({"making", "reading"} \X Records)
    BY <1>1, <2>1 DEF Kill, BackupsTypeOK
  <2>3. job' \in [Jobs -> Job \cup {None}]
    BY <1>1, JobSteps DEF Kill
  <2> QED BY <1>1, <2>2, <2>3 DEF Kill, BackupsTypeOK, BackupAssumption
<1>2. ASSUME NEW b \in Records, FileRestore(b) PROVE BackupsTypeOK'
  <2>1. db' \in Database
    BY <1>2 DEF FileRestore, BackupsTypeOK, Database, Request
  <2> QED BY <1>2, <2>1 DEF FileRestore, BackupsTypeOK, history
<1>3. ASSUME NEW f \in Files, Damage(f) PROVE BackupsTypeOK'
  <2>1. disk[f] \in Content
    BY <1>3 DEF Damage, Missing, BackupsTypeOK
  <2>2. [disk[f] EXCEPT !.id = 0, !.is = "damaged"] \in Content
    BY <2>1 DEF Content
  <2>3. disk' \in [Files -> Content \cup {None}]
    BY <1>3, <2>2 DEF Damage, Put, BackupsTypeOK
  <2>4. faults' \in 0 .. MaxFaults
    <3>1. faults < MaxFaults /\ faults' = faults + 1
      BY <1>3 DEF Damage
    <3> QED BY <3>1 DEF BackupsTypeOK, BackupAssumption
  <2>5. UNCHANGED <<db, image, job, clock, begun, retired, interrupted, mixed, started>>
    BY <1>3 DEF Damage, history
  <2> QED BY <2>3, <2>4, <2>5 DEF BackupsTypeOK
<1>4. CASE Tick
  BY <1>4 DEF Tick, BackupsTypeOK, history, BackupAssumption
<1> QED BY <1>1, <1>2, <1>3, <1>4 DEF Aside

IsMaker(j) == /\ j \in Busy /\ job[j] # None /\ job[j] \in Job /\ job[j].step \in MakingSteps
            /\ job[j].new # None /\ job[j].new \in Instance /\ PathOf(job[j].new) \in Files
            /\ job[j].new.row \in Row /\ job[j].new.id \in Records

LEMMA MakerHas ==
  ASSUME BackupsTypeOK, JobsSound, NEW j \in Jobs, job[j] # None, job[j].step \in MakingSteps
  PROVE  IsMaker(j)
BY JobTypes DEF JobsSound, SoundJob, Busy, IsMaker

LEMMA JobBecomes ==
  ASSUME BackupsTypeOK, NEW j \in Jobs, NEW m \in Job, job' = [job EXCEPT ![j] = m]
  PROVE  job'[j] = m /\ job'[j] # None /\ Others(j)
BY NoneIsNothing DEF BackupsTypeOK, Others

\* What the four steps that make an archive do to its job, its file and its row.
LEMMA OpenFacts ==
  ASSUME BackupsTypeOK, JobsSound, NEW j \in Jobs, OpenArchive(j)
  PROVE  /\ IsMaker(j) /\ job[j].step = "write"
         /\ job'[j] # None /\ job'[j].step = "close" /\ job'[j].task = job[j].task
         /\ job'[j].new = job[j].new /\ job'[j].old = job[j].old /\ Others(j)
         /\ disk' = [disk EXCEPT ![PathOf(job[j].new)] = Begun]
         /\ UNCHANGED <<db, image, begun, retired, interrupted, mixed>>
<1>1. IsMaker(j) /\ job[j].step = "write"
  BY MakerHas DEF OpenArchive, On, MakingSteps
<1> DEFINE m == [job[j] EXCEPT !.step = "close"]
<1>2. m \in Job /\ m.step = "close" /\ m.new = job[j].new /\ m.old = job[j].old /\ m.task = job[j].task
  BY <1>1 DEF IsMaker, Job
<1>3. job' = [job EXCEPT ![j] = m]
  BY DEF OpenArchive, Step
<1> HIDE DEF m
<1>4. job'[j] = m /\ job'[j] # None /\ Others(j)
  BY <1>2, <1>3, JobBecomes
<1> QED BY <1>1, <1>2, <1>4 DEF OpenArchive, Put, history

LEMMA CloseFacts ==
  ASSUME BackupsTypeOK, JobsSound, NEW j \in Jobs, CloseArchive(j)
  PROVE  /\ IsMaker(j) /\ job[j].step = "close"
         /\ job'[j] # None /\ job'[j].task = job[j].task
         /\ job'[j].step = IF job[j].new.row.enc THEN "encrypt" ELSE "finish"
         /\ job'[j].new = job[j].new /\ job'[j].old = job[j].old /\ Others(j)
         /\ image' = Append(image, db) /\ Len(image') = Len(image) + 1
         /\ \E c \in {[id |-> Len(image'), is |-> "whole", plain |-> TRUE], Begun} :
              /\ c = Begun => \E k \in Busy \ {j} : On(k, "close") /\ PathOf(job[k].new) = PathOf(job[j].new)
              /\ disk' = [disk EXCEPT ![PathOf(job[j].new)] = c]
         /\ UNCHANGED <<db, begun, retired, interrupted, mixed>>
<1>1. IsMaker(j) /\ job[j].step = "close"
  BY MakerHas DEF CloseArchive, On, MakingSteps
<1> DEFINE s == IF job[j].new.row.enc THEN "encrypt" ELSE "finish"
           m == [job[j] EXCEPT !.step = s]
<1>2. m \in Job /\ m.step = s /\ m.new = job[j].new /\ m.old = job[j].old /\ m.task = job[j].task
  BY <1>1 DEF IsMaker, Job
<1>3. job' = [job EXCEPT ![j] = m]
  BY DEF CloseArchive, Step
<1> HIDE DEF m
<1>4. job'[j] = m /\ job'[j] # None /\ Others(j)
  BY <1>2, <1>3, JobBecomes
<1>5. image' = Append(image, db) /\ Len(image') = Len(image) + 1
  BY DEF CloseArchive, BackupsTypeOK
<1> QED BY <1>1, <1>2, <1>4, <1>5 DEF CloseArchive, Put, history

LEMMA EncryptFacts ==
  ASSUME BackupsTypeOK, JobsSound, NEW j \in Jobs, Encrypt(j)
  PROVE  /\ IsMaker(j) /\ job[j].step = "encrypt" /\ job[j].new.row.enc /\ job[j].new.row.ext = "zip"
         /\ job'[j] # None /\ job'[j].step = "finish" /\ job'[j].task = job[j].task
         /\ job'[j].old = job[j].old /\ Others(j)
         /\ job'[j].new \in Instance /\ job'[j].new # None /\ job'[j].new.id = job[j].new.id
         /\ job'[j].new.row.stamp = job[j].new.row.stamp /\ job'[j].new.row.enc = job[j].new.row.enc
         /\ job'[j].new.row.ext = "enc" /\ job'[j].new.row.sum = job[j].new.row.sum
         /\ ~Missing(PathOf(job[j].new))
         /\ disk' = [disk EXCEPT ![<<job[j].new.row.stamp, "enc">>] = [disk[PathOf(job[j].new)] EXCEPT
                                                              !.plain = FALSE],
                                 ![PathOf(job[j].new)] = None]
         /\ UNCHANGED <<db, image, begun, retired, interrupted, mixed>>
<1>1. IsMaker(j) /\ job[j].step = "encrypt"
  BY MakerHas DEF Encrypt, On, MakingSteps
<1>2. job[j].new.row.enc /\ job[j].new.row.ext = "zip"
  BY <1>1 DEF IsMaker, JobsSound, SoundJob
<1> DEFINE i == [job[j].new EXCEPT !.row.ext = "enc"]
           m == [job[j] EXCEPT !.new = i, !.step = "finish"]
<1>3. /\ i \in Instance /\ i.id = job[j].new.id /\ i.row.stamp = job[j].new.row.stamp
      /\ i.row.enc = job[j].new.row.enc /\ i.row.ext = "enc" /\ i.row.sum = job[j].new.row.sum
  BY <1>1 DEF IsMaker, Instance, Row
<1>4. job' = [job EXCEPT ![j] = m]
  BY <1>1 DEF Encrypt, IsMaker, BackupsTypeOK, Job
<1> HIDE DEF i
<1>5. m \in Job /\ m.step = "finish" /\ m.new = i /\ m.old = job[j].old /\ m.task = job[j].task
  BY <1>1, <1>3 DEF IsMaker, Job
<1> HIDE DEF m
<1>6. job'[j] = m /\ job'[j] # None /\ Others(j)
  BY <1>4, <1>5, JobBecomes
<1>7. i # None
  BY <1>3, NoneIsNothing
<1> QED BY <1>1, <1>2, <1>3, <1>5, <1>6, <1>7 DEF Encrypt, history, PathOf

LEMMA FinishFacts ==
  ASSUME BackupsTypeOK, JobsSound, NEW j \in Jobs, FinishBackup(j)
  PROVE  /\ IsMaker(j) /\ job[j].step = "finish" /\ ~Missing(PathOf(job[j].new))
         /\ job'[j] # None /\ job'[j].task = job[j].task /\ Others(j)
         /\ job'[j].step \in IF job[j].task = "restore" THEN {"copy"} ELSE {"check", "list"}
         /\ \E n \in Instance :
              /\ n # None /\ n.row \in Row /\ n.id = job[j].new.id /\ n.row.status = "success"
              /\ n.row.stamp = job[j].new.row.stamp /\ n.row.enc = job[j].new.row.enc
              /\ n.row.ext = job[j].new.row.ext /\ n.row.sum = disk[PathOf(job[j].new)].id
              /\ job'[j].new = n
              /\ job'[j].old = IF job'[j].step = "copy" THEN job[j].old ELSE n
              /\ db' = [db EXCEPT !.rows[n.id] = n.row]
         /\ UNCHANGED <<disk, image, begun, retired, interrupted, mixed>>
<1>1. IsMaker(j) /\ job[j].step = "finish" /\ ~Missing(PathOf(job[j].new))
  BY MakerHas DEF FinishBackup, On, MakingSteps
<1> DEFINE i == job[j].new
           r == [i.row EXCEPT !.status = "success", !.sum = ReadBack(j)]
           n == [i EXCEPT !.row = r]
<1>2. ReadBack(j) \in Nat /\ ReadBack(j) = disk[PathOf(job[j].new)].id
  BY <1>1 DEF IsMaker, ReadBack, Missing, BackupsTypeOK, Content
<1>3. /\ r \in Row /\ r.status = "success" /\ r.sum = ReadBack(j)
      /\ r.stamp = i.row.stamp /\ r.enc = i.row.enc /\ r.ext = i.row.ext
  BY <1>1, <1>2 DEF IsMaker, Row
<1>4. db' = [db EXCEPT !.rows[i.id] = r]
  BY DEF FinishBackup
<1>5. PICK s \in AfterBackup(j) : job' = [job EXCEPT ![j] =
         [job[j] EXCEPT !.step = s, !.new = n, !.old = IF s = "copy" THEN job[j].old ELSE n]]
  BY DEF FinishBackup
<1> HIDE DEF r
<1>6. n \in Instance /\ n.id = i.id /\ n.row = r
  BY <1>1, <1>3 DEF IsMaker, Instance
<1> HIDE DEF n
<1> DEFINE m == [job[j] EXCEPT !.step = s, !.new = n, !.old = IF s = "copy" THEN job[j].old ELSE n]
<1>7. s \in IF job[j].task = "restore" THEN {"copy"} ELSE {"check", "list"}
  BY <1>5 DEF AfterBackup
<1>8. /\ m \in Job /\ m.step = s /\ m.new = n /\ m.task = job[j].task
      /\ m.old = IF s = "copy" THEN job[j].old ELSE n
  BY <1>1, <1>6, <1>7 DEF IsMaker, Job
<1>9. job' = [job EXCEPT ![j] = m]
  BY <1>5
<1> HIDE DEF m
<1>10. job'[j] = m /\ job'[j] # None /\ Others(j)
  BY <1>8, <1>9, JobBecomes
<1>11. n # None
  BY <1>6, NoneIsNothing
<1>12. /\ n # None /\ n.row \in Row /\ n.id = job[j].new.id /\ n.row.status = "success"
       /\ n.row.stamp = job[j].new.row.stamp /\ n.row.enc = job[j].new.row.enc
       /\ n.row.ext = job[j].new.row.ext /\ n.row.sum = disk[PathOf(job[j].new)].id
       /\ job'[j].new = n
       /\ job'[j].old = IF job'[j].step = "copy" THEN job[j].old ELSE n
       /\ db' = [db EXCEPT !.rows[n.id] = n.row]
  BY <1>2, <1>3, <1>4, <1>6, <1>8, <1>10, <1>11
<1>13. UNCHANGED <<disk, image, begun, retired, interrupted, mixed>>
  BY DEF FinishBackup, history
<1> QED BY <1>1, <1>6, <1>7, <1>8, <1>10, <1>12, <1>13

Fresh(enc) == [id |-> NextRecord, row |-> NewRow(enc)]

\* What a backup that begins adds: a row of its own, numbered next.
LEMMA InsertFacts ==
  ASSUME BackupAssumption, BackupsTypeOK, CopiesBegun, NEW j \in Jobs, NEW enc \in Encrypted, Inserts(j, enc)
  PROVE  /\ CountBackup /\ enc \in BOOLEAN
         /\ NextRecord \in Records /\ NextRecord <= Len(begun) + 1
         /\ Fresh(enc) \in Instance /\ Fresh(enc) # None /\ Fresh(enc).id = NextRecord
         /\ Fresh(enc).row = NewRow(enc) /\ NewRow(enc) \in Row /\ NewRow(enc) # None
         /\ \A c \in Records : db'.rows[c] = IF c = NextRecord THEN NewRow(enc) ELSE db.rows[c]
         /\ job'[j] # None /\ job'[j].new = Fresh(enc) /\ job'[j].step = "write" /\ Others(j)
         /\ (job[j] = None /\ job'[j].old = None /\ job'[j].task = "backup")
              \/ (/\ job[j] # None /\ job'[j].old = job[j].old /\ job'[j].task = "restore"
                  /\ job[j].step = "safety" /\ job[j].task = "restore")
         /\ UNCHANGED <<disk, image, retired, interrupted, mixed>>
<1>1. enc \in BOOLEAN
  BY DEF BackupAssumption
<1>2. CountBackup /\ NextRecord \in Records /\ NextRecord <= Len(begun) + 1
  BY NextRecordIs DEF BeginBackup, SafetyBackup, CountBackup, Inserts
<1>3. /\ NewRow(enc) \in Row
      /\ \A c \in Records : Insert(db, enc).rows[c] = IF c = NextRecord THEN NewRow(enc) ELSE db.rows[c]
  BY <1>1, InsertTypes
<1>4. Fresh(enc) \in Instance /\ Fresh(enc).id = NextRecord /\ Fresh(enc).row = NewRow(enc)
  BY <1>2, <1>3 DEF Instance, Fresh
<1>5. Fresh(enc) # None /\ NewRow(enc) # None
  BY <1>3, <1>4, NoneIsNothing
<1>6. db' = Insert(db, enc) /\ UNCHANGED <<disk, image, retired, interrupted, mixed>>
  BY DEF BeginBackup, SafetyBackup, Inserts
<1>7. /\ job'[j] # None /\ job'[j].new = Fresh(enc) /\ job'[j].step = "write" /\ Others(j)
      /\ (job[j] = None /\ job'[j].old = None /\ job'[j].task = "backup")
              \/ (/\ job[j] # None /\ job'[j].old = job[j].old /\ job'[j].task = "restore"
                  /\ job[j].step = "safety" /\ job[j].task = "restore")
  <2>1. CASE BeginBackup(j, enc)
    <3> DEFINE m == [NewJob("backup", "write") EXCEPT !.new = Fresh(enc)]
    <3>1. job' = [job EXCEPT ![j] = m]
      BY <2>1 DEF BeginBackup, Fresh
    <3>2. m \in Job
      BY <1>4, NewJobTypes
    <3>3. m.new = Fresh(enc) /\ m.old = None /\ m.step = "write" /\ m.task = "backup"
      BY DEF NewJob
    <3> HIDE DEF m
    <3>4. job'[j] = m /\ job'[j] # None /\ Others(j)
      BY <3>1, <3>2, JobBecomes
    <3>5. job[j] = None
      <4>1. Busy # Jobs => \E k \in Jobs : job[k] = None
        BY DEF Busy
      <4> QED BY <2>1, <4>1 DEF BeginBackup, CanBegin
    <3> QED BY <3>3, <3>4, <3>5
  <2>2. CASE SafetyBackup(j, enc)
    <3>0. job[j] # None /\ job[j] \in Job /\ job[j].step = "safety" /\ job[j].task = "restore"
      BY <2>2 DEF SafetyBackup, On, BackupsTypeOK
    <3> DEFINE m == [job[j] EXCEPT !.step = "write", !.new = Fresh(enc)]
    <3>1. job' = [job EXCEPT ![j] = m]
      BY <2>2, <3>0 DEF SafetyBackup, Fresh, BackupsTypeOK, Job
    <3>2. m \in Job /\ m.new = Fresh(enc) /\ m.old = job[j].old /\ m.step = "write" /\ m.task = "restore"
      BY <1>4, <3>0 DEF Job
    <3> HIDE DEF m
    <3>3. job'[j] = m /\ job'[j] # None /\ Others(j)
      BY <3>1, <3>2, JobBecomes
    <3> QED BY <3>0, <3>2, <3>3
  <2> QED BY <2>1, <2>2 DEF Inserts
<1> QED BY <1>1, <1>2, <1>3, <1>4, <1>5, <1>6, <1>7

\* A job that ends is no job; one that takes a step keeps all but its step.
LEMMA StepFacts ==
  ASSUME BackupsTypeOK, NEW j \in Jobs, job[j] # None
  PROVE  /\ End(j) => job'[j] = None /\ Others(j)
         /\ \A s \in {"check", "decrypt", "decrypted", "read", "safety", "copy", "record", "list", "delete"} :
              Step(j, s) =>
                /\ job'[j] # None /\ job'[j].step = s /\ job'[j].task = job[j].task /\ job'[j].mem = job[j].mem
                /\ job'[j].new = job[j].new /\ job'[j].old = job[j].old /\ Others(j)
<1>1. job[j] \in Job
  BY DEF BackupsTypeOK
<1>2. End(j) => job'[j] = None /\ Others(j)
  BY DEF End, Others, BackupsTypeOK
<1>3. ASSUME NEW s \in {"check", "decrypt", "decrypted", "read", "safety", "copy", "record", "list", "delete"},
             Step(j, s)
      PROVE  /\ job'[j] # None /\ job'[j].step = s /\ job'[j].task = job[j].task /\ job'[j].mem = job[j].mem
             /\ job'[j].new = job[j].new /\ job'[j].old = job[j].old /\ Others(j)
  <2> DEFINE m == [job[j] EXCEPT !.step = s]
  <2>1. /\ m \in Job /\ m.step = s /\ m.new = job[j].new /\ m.old = job[j].old
        /\ m.task = job[j].task /\ m.mem = job[j].mem
    BY <1>1 DEF Job
  <2>2. job' = [job EXCEPT ![j] = m]
    BY <1>3 DEF Step
  <2> HIDE DEF m
  <2> QED BY <2>1, <2>2, JobBecomes
<1> QED BY <1>2, <1>3

\* What the four steps that verify need, and what each of them does.
LEMMA Reader ==
  ASSUME BackupsTypeOK, JobsSound, NEW j \in Jobs, Reads(j)
  PROVE  /\ job[j] # None /\ j \in Busy /\ job[j] \in Job /\ SoundJob(job[j], DOMAIN image)
         /\ job[j].step \in {"check", "decrypt", "decrypted", "read"}
         /\ job[j].old # None /\ job[j].old \in Instance /\ job[j].old.row \in Row /\ job[j].old.id \in Records
         /\ PathOf(job[j].old) \in Files /\ TempOf(job[j].old) \in Files
         /\ PathOf(job[j].old)[2] # "verify" /\ TempOf(job[j].old)[2] = "verify"
         /\ UNCHANGED <<image, clock, begun, retired, interrupted, mixed>>
<1>1. j \in Busy /\ job[j].step \in {"check", "decrypt", "decrypted", "read"}
  BY DEF Check, BeginDecrypt, EndDecrypt, ReadArchive, On, Busy, Reads
<1>2. job[j] # None /\ job[j].old # None /\ SoundJob(job[j], DOMAIN image)
  BY <1>1 DEF JobsSound, SoundJob, Busy
<1>3. /\ job[j] \in Job /\ job[j].old \in Instance /\ job[j].old.row \in Row /\ job[j].old.id \in Records
      /\ PathOf(job[j].old) \in Files /\ TempOf(job[j].old) \in Files
  BY <1>2, JobTypes
<1>4. PathOf(job[j].old)[2] # "verify" /\ TempOf(job[j].old)[2] = "verify"
  BY <1>3 DEF PathOf, TempOf, Row
<1>5. UNCHANGED <<image, clock, begun, retired, interrupted, mixed>>
  BY DEF Check, BeginDecrypt, EndDecrypt, ReadArchive, history, Reads
<1> QED BY <1>1, <1>2, <1>3, <1>4, <1>5

LEMMA CheckFacts ==
  ASSUME BackupsTypeOK, JobsSound, NEW j \in Jobs, Check(j)
  PROVE  /\ On(j, "check") /\ Others(j) /\ disk' = disk
         /\ \/ Missing(PathOf(job[j].old)) /\ job'[j] = None /\ Invalid(j, FALSE)
            \/ ~Missing(PathOf(job[j].old)) /\ WrongSum(job[j].old) /\ job'[j] = None /\ Invalid(j, TRUE)
            \/ /\ ~Missing(PathOf(job[j].old)) /\ ~WrongSum(job[j].old) /\ db' = db
               /\ job'[j] # None /\ job'[j].old = job[j].old /\ job'[j].new = job[j].new
               /\ job'[j].task = job[j].task /\ job'[j].step = IF job[j].old.row.enc THEN "decrypt" ELSE "read"
<1>1. job[j] # None
  BY Reader DEF Reads
<1> QED BY <1>1, StepFacts DEF Check, Invalid

LEMMA BeginDecryptFacts ==
  ASSUME BackupsTypeOK, JobsSound, NEW j \in Jobs, BeginDecrypt(j)
  PROVE  LET f == PathOf(job[j].old) IN
         /\ On(j, "decrypt") /\ Others(j)
         /\ \/ /\ disk[f] = None \/ disk[f].is # "whole" \/ disk[f].plain
               /\ Invalid(j, TRUE) /\ job'[j] = None /\ Put(TempOf(job[j].old), None)
            \/ /\ disk[f] # None /\ disk[f].is = "whole" /\ ~disk[f].plain /\ db' = db
               /\ job'[j] # None /\ job'[j].step = "decrypted" /\ job'[j].old = job[j].old
               /\ job'[j].new = job[j].new /\ job'[j].task = job[j].task
               /\ job'[j].mem = disk[f] /\ Put(TempOf(job[j].old), Begun)
<1>0. job[j] # None /\ job[j] \in Job /\ PathOf(job[j].old) \in Files
  BY Reader DEF Reads
<1> DEFINE c == disk[PathOf(job[j].old)]
<1>1. CASE c = None \/ c.is # "whole" \/ c.plain
  BY <1>0, <1>1, StepFacts DEF BeginDecrypt, Invalid
<1>2. CASE ~(c = None \/ c.is # "whole" \/ c.plain)
  <2>1. /\ Put(TempOf(job[j].old), Begun) /\ db' = db /\ On(j, "decrypt")
        /\ job' = [job EXCEPT ![j] = [job[j] EXCEPT !.step = "decrypted", !.mem = c]]
    BY <1>0, <1>2 DEF BeginDecrypt, BackupsTypeOK, Job
  <2>2. c \in Content /\ c # None /\ c.is = "whole" /\ ~c.plain /\ c = disk[PathOf(job[j].old)]
    BY <1>0, <1>2 DEF BackupsTypeOK
  <2> HIDE DEF c
  <2> DEFINE m == [job[j] EXCEPT !.step = "decrypted", !.mem = c]
  <2>3. /\ m \in Job /\ m.step = "decrypted" /\ m.old = job[j].old /\ m.mem = c
        /\ m.new = job[j].new /\ m.task = job[j].task
    BY <1>0, <2>2 DEF Job
  <2>4. job' = [job EXCEPT ![j] = m]
    BY <2>1
  <2> HIDE DEF m
  <2>5. job'[j] = m /\ job'[j] # None /\ Others(j)
    BY <2>3, <2>4, JobBecomes
  <2> QED BY <2>1, <2>2, <2>3, <2>5
<1> QED BY <1>1, <1>2

LEMMA EndDecryptFacts ==
  ASSUME BackupsTypeOK, JobsSound, NEW j \in Jobs, EndDecrypt(j)
  PROVE  /\ On(j, "decrypted") /\ Others(j) /\ db' = db
         /\ job'[j] # None /\ job'[j].step = "read" /\ job'[j].old = job[j].old
         /\ job'[j].new = job[j].new /\ job'[j].task = job[j].task
         /\ Put(TempOf(job[j].old),
                IF Missing(TempOf(job[j].old)) THEN None ELSE [job[j].mem EXCEPT !.plain = TRUE])
<1>0. job[j] # None /\ job[j] \in Job
  BY Reader DEF Reads
<1> DEFINE m == [job[j] EXCEPT !.step = "read", !.mem = None]
<1>1. m \in Job /\ m.step = "read" /\ m.old = job[j].old /\ m.new = job[j].new /\ m.task = job[j].task
  BY <1>0 DEF Job
<1>2. job' = [job EXCEPT ![j] = m]
  BY <1>0 DEF EndDecrypt, BackupsTypeOK, Job
<1> HIDE DEF m
<1>3. job'[j] = m /\ job'[j] # None /\ Others(j)
  BY <1>1, <1>2, JobBecomes
<1> QED BY <1>1, <1>3 DEF EndDecrypt

LEMMA ReadArchiveFacts ==
  ASSUME BackupsTypeOK, JobsSound, NEW j \in Jobs, ReadArchive(j)
  PROVE  LET f == Source(job[j].old) IN
         /\ On(j, "read") /\ Others(j)
         /\ job'[j] # None =>
              /\ job'[j].step \in {"safety", "copy", "list"} /\ (job'[j].step = "copy" => job'[j].task # "restore")
              /\ job'[j].old = job[j].old /\ job'[j].new = job[j].new /\ job'[j].task = job[j].task
         /\ Put(TempOf(job[j].old), IF job[j].old.row.enc THEN None ELSE disk[TempOf(job[j].old)])
         /\ \/ Missing(f) /\ db' = db
            \/ ~Missing(f) /\ disk[f].is # "whole" /\ Invalid(j, TRUE)
            \/ /\ ~Missing(f) /\ disk[f].is = "whole"
               /\ db' = Reported(j, Marked(db, job[j].old.id, "verified"), "running")
<1>0. job[j] # None /\ job[j] \in Job
  BY Reader DEF Reads
<1>1. ASSUME NEW s \in AfterVerify(j), IF s = "end" THEN End(j) ELSE Step(j, s)
      PROVE  /\ Others(j)
             /\ job'[j] # None =>
                  /\ job'[j].step \in {"safety", "copy", "list"}
                   /\ (job'[j].step = "copy" => job'[j].task # "restore")
                  /\ job'[j].old = job[j].old /\ job'[j].new = job[j].new /\ job'[j].task = job[j].task
  <2>1. s \in {"safety", "copy", "list", "end"} /\ (s = "copy" => job[j].task # "restore")
    BY <1>0, <1>1 DEF AfterVerify, Job
  <2>2. CASE s = "end"
    BY <1>0, <1>1, <2>2, StepFacts
  <2>3. CASE s # "end"
    BY <1>0, <1>1, <2>1, <2>3, StepFacts
  <2> QED BY <2>2, <2>3
<1>2. ASSUME End(j) PROVE Others(j) /\ job'[j] = None
  BY <1>0, <1>2, StepFacts
<1> QED BY <1>1, <1>2 DEF ReadArchive, Invalid

\* What the other steps do to the job that takes them.
LEMMA JobEnds ==
  ASSUME BackupsTypeOK, NEW j \in Jobs, Ends(j)
  PROVE  /\ job[j] # None /\ job'[j] = None /\ Others(j)
         /\ UNCHANGED <<disk, image, clock, begun, retired, mixed>>
<1>1. /\ End(j) /\ job[j] # None /\ UNCHANGED <<disk, image, clock, begun, retired, mixed>>
  BY DEF MissingFails, WriteFails, FailBackup, CopyFails, RecordRestore, EndRetention, Kill, On, history, Ends
<1> QED BY <1>1, StepFacts

LEMMA JobBegins ==
  ASSUME BackupsTypeOK, NEW j \in Jobs, BeginsToRead(j)
  PROVE  /\ job[j] = None /\ job'[j] # None /\ job'[j].step = "check" /\ Others(j)
         /\ job'[j].new = None /\ job'[j].old \in Stored(db) /\ job'[j].old # None
         /\ UNCHANGED <<db, disk, image, clock, history>>
<1>1. /\ UNCHANGED <<db, disk, image, clock, history>> /\ job[j] = None
      /\ \E b \in Existing(db.rows), task \in {"verify", "restore", "rehearse"} :
           job' = [job EXCEPT ![j] = [NewJob(task, "check") EXCEPT !.old = [id |-> b, row |-> db.rows[b]]]]
  <2>1. CanBegin(j) => job[j] = None
    <3>1. Busy # Jobs => \E k \in Jobs : job[k] = None
      BY DEF Busy
    <3> QED BY <3>1 DEF CanBegin
  <2> QED BY <2>1 DEF BeginVerify, BeginRestore, BeginsToRead
<1>2. PICK b \in Existing(db.rows), task \in {"verify", "restore", "rehearse"} :
        job' = [job EXCEPT ![j] = [NewJob(task, "check") EXCEPT !.old = [id |-> b, row |-> db.rows[b]]]]
  BY <1>1
<1> DEFINE i == [id |-> b, row |-> db.rows[b]]
           m == [NewJob(task, "check") EXCEPT !.old = i]
<1>3. i \in Instance /\ i \in Stored(db)
  BY DEF Existing, BackupsTypeOK, Database, Instance, Stored
<1>4. job' = [job EXCEPT ![j] = m]
  BY <1>2
<1> HIDE DEF i
<1>5. m \in Job /\ m.step = "check" /\ m.new = None /\ m.old = i /\ i # None
  BY <1>3, NewJobTypes, NoneIsNothing DEF NewJob
<1> HIDE DEF m
<1> QED BY <1>1, <1>3, <1>4, <1>5, JobBecomes

LEMMA JobLists ==
  ASSUME BackupsTypeOK, NEW j \in Jobs, Lists(j)
  PROVE  /\ job[j] # None /\ job[j].step \in {"list", "delete"} /\ Others(j)
         /\ job'[j] # None /\ job'[j].step = "delete" /\ job'[j].task = job[j].task
         /\ job'[j].new = job[j].new /\ job'[j].old = job[j].old
         /\ UNCHANGED <<db, image, clock, begun, interrupted, mixed>>
<1>0. job[j] # None /\ job[j] \in Job /\ job[j].step \in {"list", "delete"}
  BY DEF ListOld, DeleteOne, On, BackupsTypeOK, Lists
<1>1. CASE ListOld(j)
  <2>1. PICK t \in 0 .. clock - 1 : job' = [job EXCEPT ![j].step = "delete", ![j].list =
         {PathOf([id |-> b, row |-> db.rows[b]]) : b \in
            {c \in Usable(db.rows) : Cardinality(Newer(c)) >= Kept /\ db.rows[c].stamp <= t}}]
    BY <1>1 DEF ListOld
  <2> DEFINE L == {PathOf([id |-> b, row |-> db.rows[b]]) : b \in
            {c \in Usable(db.rows) : Cardinality(Newer(c)) >= Kept /\ db.rows[c].stamp <= t}}
             m == [job[j] EXCEPT !.step = "delete", !.list = L]
  <2>2. \A b \in Usable(db.rows) : db.rows[b] \in Row
    BY DEF Usable, Existing, BackupsTypeOK, Database
  <2>3. L \in SUBSET Files
    BY <2>2 DEF PathOf, Files, Row
  <2>4. job' = [job EXCEPT ![j] = m]
    BY <1>0, <2>1 DEF BackupsTypeOK, Job
  <2> HIDE DEF L
  <2>5. m \in Job /\ m.step = "delete" /\ m.new = job[j].new /\ m.old = job[j].old /\ m.task = job[j].task
    BY <1>0, <2>3 DEF Job
  <2> HIDE DEF m
  <2>6. job'[j] = m /\ job'[j] # None /\ Others(j)
    BY <2>4, <2>5, JobBecomes
  <2> QED BY <1>0, <1>1, <2>5, <2>6 DEF ListOld, history
<1>2. ASSUME NEW f \in Files, DeleteOne(j, f)
      PROVE  /\ job'[j] # None /\ job'[j].step = "delete" /\ job'[j].task = job[j].task /\ Others(j)
             /\ job'[j].new = job[j].new /\ job'[j].old = job[j].old
             /\ UNCHANGED <<db, image, clock, begun, interrupted, mixed>>
  <2> DEFINE m == [job[j] EXCEPT !.list = job[j].list \ {f}]
  <2>1. job' = [job EXCEPT ![j] = m]
    BY <1>0, <1>2 DEF DeleteOne, BackupsTypeOK, Job
  <2>2. m \in Job /\ m.step = "delete" /\ m.new = job[j].new /\ m.old = job[j].old /\ m.task = job[j].task
    BY <1>0, <1>2 DEF Job, DeleteOne, On
  <2> HIDE DEF m
  <2>3. job'[j] = m /\ job'[j] # None /\ Others(j)
    BY <2>1, <2>2, JobBecomes
  <2> QED BY <1>2, <2>2, <2>3 DEF DeleteOne
<1> QED BY <1>0, <1>1, <1>2 DEF Lists

\* Each step but the beginning and the making of a backup is Going.
LEMMA RowsStay ==
  ASSUME NEW d \in Database, NEW j
  PROVE  /\ RowsKept(d, d, {})
         /\ \A t \in {"pending", "running", "success", "failed"} :
              /\ RowsKept(d, Reported(j, d, t), {})
              /\ \A b \in Records : \A s \in {"failed", "corrupt"} :
                   RowsKept(d, Reported(j, Marked(d, b, s), t), {})
              /\ \A b \in Records : RowsKept(d, Reported(j, Marked(d, b, "verified"), t), {b})
<1>1. ASSUME NEW e \in Database, e.rows = d.rows PROVE RowsKept(d, e, {})
  BY <1>1 DEF RowsKept
<1>2. ASSUME NEW b \in Records, NEW s \in {"failed", "corrupt", "verified"}, NEW V,
             s \in {"failed", "corrupt"} \/ V = {b}, NEW e \in Database, e.rows = Marked(d, b, s).rows
      PROVE  RowsKept(d, e, V)
  <2>1. /\ \A c \in Records : /\ c # b => Marked(d, b, s).rows[c] = d.rows[c]
                              /\ d.rows[c] = None => Marked(d, b, s).rows[c] = None
        /\ d.rows[b] # None =>
             LET r == d.rows[b]
                 q == Marked(d, b, s).rows[b] IN
             /\ q \in Row /\ q.status = s
             /\ q.stamp = r.stamp /\ q.enc = r.enc /\ q.ext = r.ext /\ q.sum = r.sum
    <3>1. s \in Statuses
      BY <1>2 DEF Statuses
    <3> QED BY <3>1, MarkedTypes
  <2> SUFFICES ASSUME NEW c \in Records
               PROVE  /\ e.rows[c] = None <=> d.rows[c] = None
                      /\ d.rows[c] # None =>
                           LET r == d.rows[c]
                               q == e.rows[c] IN
                           /\ q.stamp = r.stamp /\ q.enc = r.enc /\ q.ext = r.ext /\ q.sum = r.sum
                           /\ q.status \in {r.status, "failed", "corrupt"} \/ (c \in V /\ q.status = "verified")
    BY DEF RowsKept
  <2>4. CASE c # b
    BY <1>2, <2>1, <2>4
  <2>5. CASE c = b /\ d.rows[b] = None
    BY <1>2, <2>1, <2>5
  <2>6. CASE c = b /\ d.rows[b] # None
    BY <1>2, <2>1, <2>6, NoneIsNothing
  <2> QED BY <2>4, <2>5, <2>6
<1>3. ASSUME NEW t \in {"pending", "running", "success", "failed"} PROVE RowsKept(d, Reported(j, d, t), {})
  BY <1>1, <1>3, ReportedTypes
<1>4. ASSUME NEW t \in {"pending", "running", "success", "failed"}, NEW b \in Records,
             NEW s \in {"failed", "corrupt", "verified"}, NEW V, s \in {"failed", "corrupt"} \/ V = {b}
      PROVE  RowsKept(d, Reported(j, Marked(d, b, s), t), V)
  <2>1. Marked(d, b, s) \in Database
    BY <1>4, MarkedTypes DEF Statuses
  <2>2. Reported(j, Marked(d, b, s), t) \in Database /\ Reported(j, Marked(d, b, s), t).rows = Marked(d, b, s).rows
    BY <1>4, <2>1, ReportedTypes
  <2> QED BY <1>2, <1>4, <2>2
<1>5. RowsKept(d, d, {})
  BY <1>1
<1> QED BY <1>3, <1>4, <1>5

\* Jobs go on when one of them does: it ends, or goes to a step that makes
\* nothing and is not the copying of a restore.
LEMMA JobsMove ==
  ASSUME NEW j \in Jobs, Others(j),
         \/ job'[j] = None
         \/ /\ job'[j] # None /\ job'[j].step \notin MakingSteps
            /\ job'[j].step = "copy" => job'[j].task # "restore"
            /\ \/ /\ job[j] # None /\ job[j].step \notin MakingSteps \cup {"record"}
                  /\ job'[j].new = job[j].new /\ job'[j].old = job[j].old
               \/ job[j] = None /\ job'[j].new = None /\ job'[j].old \in Stored(db)
  PROVE  JobsGoOn
BY DEF JobsGoOn, Others

LEMMA FilesStay ==
  ASSUME BackupsTypeOK
  PROVE  /\ UNCHANGED <<disk, retired>> => FilesKept
         /\ \A f \in Files : \A c : Put(f, c) /\ f[2] = "verify" /\ retired' = retired => FilesKept
<1>1. UNCHANGED <<disk, retired>> => FilesKept
  BY DEF FilesKept
<1>2. ASSUME NEW f \in Files, NEW c, Put(f, c), f[2] = "verify", retired' = retired PROVE FilesKept
  BY <1>2 DEF Put, FilesKept, BackupsTypeOK
<1> QED BY <1>1, <1>2

LEMMA ReadGoes ==
  ASSUME BackupAssumption, BackupsTypeOK, JobsSound, NEW j \in Jobs, Reads(j)
  PROVE  Going
<1>0. /\ job[j] # None /\ job[j].step \notin MakingSteps \cup {"record"} /\ job[j].old.id \in Records
      /\ db \in Database /\ UNCHANGED <<image, begun, retired, mixed>>
  BY Reader DEF MakingSteps, BackupsTypeOK
<1>1. \A c : Put(TempOf(job[j].old), c) => FilesKept
  BY <1>0, Reader, FilesStay
<1>2. ASSUME NEW m \in BOOLEAN, Invalid(j, m) PROVE RowsKept(db, db', {})
  BY <1>0, <1>2, RowsStay DEF Invalid
<1>3. CASE Check(j)
  <2>1. FilesKept
    BY <1>0, <1>3, FilesStay, CheckFacts
  <2>2. RowsKept(db, db', {})
    BY <1>0, <1>2, <1>3, RowsStay, CheckFacts
  <2>3. JobsGoOn
    BY <1>0, <1>3, JobsMove, CheckFacts DEF MakingSteps
  <2> QED BY <1>0, <2>1, <2>2, <2>3 DEF Going
<1>4. CASE BeginDecrypt(j)
  <2>1. FilesKept
    BY <1>1, <1>4, BeginDecryptFacts
  <2>2. RowsKept(db, db', {})
    BY <1>0, <1>2, <1>4, RowsStay, BeginDecryptFacts
  <2>3. JobsGoOn
    BY <1>0, <1>4, JobsMove, BeginDecryptFacts DEF MakingSteps
  <2> QED BY <1>0, <2>1, <2>2, <2>3 DEF Going
<1>5. CASE EndDecrypt(j)
  <2>1. FilesKept
    BY <1>1, <1>5, EndDecryptFacts
  <2>2. RowsKept(db, db', {})
    BY <1>0, <1>5, RowsStay, EndDecryptFacts
  <2>3. JobsGoOn
    BY <1>0, <1>5, JobsMove, EndDecryptFacts DEF MakingSteps
  <2> QED BY <1>0, <2>1, <2>2, <2>3 DEF Going
<1>6. CASE ReadArchive(j)
  <2> DEFINE i == job[j].old
             f == Source(i)
  <2>1. FilesKept
    BY <1>1, <1>6, ReadArchiveFacts
  <2>2. JobsGoOn
    BY <1>0, <1>6, JobsMove, ReadArchiveFacts DEF MakingSteps
  <2>3. CASE db' = db
    BY <1>0, <2>1, <2>2, <2>3, RowsStay DEF Going
  <2>4. CASE Invalid(j, TRUE)
    BY <1>0, <1>2, <2>1, <2>2, <2>4 DEF Going
  <2>5. CASE /\ ~Missing(f) /\ disk[f].is = "whole"
             /\ db' = Reported(j, Marked(db, i.id, "verified"), "running")
    <3>1. RowsKept(db, db', {i.id})
      BY <1>0, <2>5, RowsStay
    <3>2. Verifies(j)
      BY <1>6, <2>5, <3>1, ReadArchiveFacts DEF Verifies
    <3> QED BY <1>0, <2>1, <2>2, <3>2 DEF Going
  <2> QED BY <1>6, <2>3, <2>4, <2>5, ReadArchiveFacts
<1> QED BY <1>3, <1>4, <1>5, <1>6 DEF Reads

LEMMA BeginGoes ==
  ASSUME BackupAssumption, BackupsTypeOK, NEW j \in Jobs, BeginsToRead(j)
  PROVE  Going
<1>1. JobsGoOn
  BY JobBegins, JobsMove DEF MakingSteps
<1>2. UNCHANGED <<db, disk, image, begun, retired, mixed>>
  BY JobBegins DEF history
<1> QED BY <1>1, <1>2, FilesStay, RowsStay DEF Going, BackupsTypeOK

LEMMA EndGoes ==
  ASSUME BackupAssumption, BackupsTypeOK, JobsSound, NEW j \in Jobs, Ends(j)
  PROVE  Going
<1>1. /\ UNCHANGED <<disk, image, begun, retired, mixed>> /\ JobsGoOn
  BY JobEnds, JobsMove DEF history
<1>2. RowsKept(db, db', {})
  <2>0. db \in Database
    BY DEF BackupsTypeOK
  <2>1. CASE MissingFails(j) \/ WriteFails(j)
    <3>1. job[j].new.id \in Records
      <4>1. j \in Busy /\ job[j].step \in MakingSteps
        BY <2>1 DEF MissingFails, WriteFails, On, Busy, MakingSteps
      <4> QED BY <4>1, JobTypes DEF JobsSound, SoundJob, Busy
    <3>2. FailedStatus \in {"failed", "corrupt"}
      BY DEF FailedStatus
    <3>3. db' = Reported(j, Marked(db, job[j].new.id, FailedStatus), "failed")
      BY <2>1 DEF MissingFails, WriteFails, FailBackup
    <3> QED BY <2>0, <3>1, <3>2, <3>3, RowsStay
  <2>2. CASE CopyFails(j)
    BY <2>0, <2>2, RowsStay DEF CopyFails
  <2>3. CASE RecordRestore(j)
    BY <2>0, <2>3, RowsStay DEF RecordRestore
  <2>4. CASE EndRetention(j) \/ Kill(j)
    BY <2>0, <2>4, RowsStay DEF EndRetention, Kill
  <2> QED BY <2>1, <2>2, <2>3, <2>4 DEF Ends
<1> QED BY <1>1, <1>2, FilesStay DEF Going

LEMMA CopyGoes ==
  ASSUME BackupAssumption, BackupsTypeOK, JobsSound, FilesSound, NEW j \in Jobs, CopyOver(j)
  PROVE  Going
<1>0. /\ job[j] # None /\ job[j].step = "copy" /\ Step(j, "record") /\ CopySource(j).id \in DOMAIN image
      /\ UNCHANGED <<disk, image, begun, retired>> /\ (mixed => mixed')
  <2>1. j \in Busy /\ job[j].step = "copy" /\ job[j].old # None
    BY DEF CopyOver, On, Busy, JobsSound, SoundJob
  <2>2. PathOf(job[j].old) \in Files
    BY <2>1, JobTypes DEF Busy
  <2>3. CopySource(j).id \in DOMAIN image
    BY <2>2 DEF CopyOver, Copyable, CopySource, Missing, FilesSound, SoundFile
  <2> QED BY <2>1, <2>3 DEF Busy, CopyOver
<1>1. FilesKept
  BY <1>0, FilesStay
<1>2. /\ job'[j] # None /\ job'[j].step = "record" /\ Others(j)
      /\ job'[j].new = job[j].new /\ job'[j].old = job[j].old
  BY <1>0, StepFacts
<1>3. JobsGoOn
  BY <1>0, <1>2, JobsMove DEF MakingSteps
<1>4. RowsKept(db, db', {}) \/ TakesBack(j)
  <2>1. CASE job[j].task = "rehearse"
    BY <2>1, RowsStay DEF CopyOver, BackupsTypeOK
  <2>2. CASE job[j].task # "rehearse"
    <3>1. (db' = db \/ db' = image[CopySource(j).id]) /\ (~mixed' => Busy = {j})
      BY <2>2 DEF CopyOver
    <3> QED BY <1>0, <1>2, <3>1 DEF TakesBack, CopyOver, Others
  <2> QED BY <2>1, <2>2
<1> QED BY <1>0, <1>1, <1>3, <1>4 DEF Going

LEMMA ListGoes ==
  ASSUME BackupAssumption, BackupsTypeOK, NEW j \in Jobs, Lists(j)
  PROVE  Going
<1>1. JobsGoOn
  BY JobLists, JobsMove DEF MakingSteps
<1>2. RowsKept(db, db', {}) /\ UNCHANGED <<image, begun, mixed>>
  BY JobLists, RowsStay DEF BackupsTypeOK
<1>3. FilesKept
  BY FilesStay DEF ListOld, DeleteOne, Put, FilesKept, BackupsTypeOK, history, Lists
<1> QED BY <1>1, <1>2, <1>3 DEF Going

LEMMA AroundGoes ==
  ASSUME BackupAssumption, BackupsTypeOK, Aside
  PROVE  Going
<1>1. JobsGoOn /\ UNCHANGED <<image, begun, retired, mixed>>
  BY DEF FileRestore, Damage, Tick, history, JobsGoOn, Aside
<1>2. ASSUME NEW b \in Records, FileRestore(b) PROVE FilesKept /\ RowsKept(db, db', {})
  <2>1. db'.rows = db.rows
    BY <1>2 DEF FileRestore, BackupsTypeOK, Database
  <2> QED BY <1>1, <1>2, <2>1, FilesStay DEF FileRestore, RowsKept
<1>3. ASSUME NEW f \in Files, Damage(f) PROVE FilesKept /\ RowsKept(db, db', {})
  <2>1. disk[f] \in Content
    BY <1>3 DEF Damage, Missing, BackupsTypeOK
  <2> DEFINE c == [disk[f] EXCEPT !.id = 0, !.is = "damaged"]
  <2>2. c \in Content /\ c.is = "damaged" /\ c # None
    <3>1. c \in Content /\ c.is = "damaged"
      BY <2>1 DEF Content
    <3> HIDE DEF c
    <3> QED BY <3>1, NoneIsNothing
  <2>3. disk' = [disk EXCEPT ![f] = c]
    BY <1>3 DEF Damage, Put
  <2>4. \A j \in Busy : \A i \in Held(j) : i.row.stamp # f[1]
    BY <1>3 DEF Damage, Held
  <2> HIDE DEF c
  <2>5. FilesKept
    BY <1>1, <2>2, <2>3, <2>4 DEF FilesKept, BackupsTypeOK
  <2> QED BY <1>3, <2>5, RowsStay DEF Damage, BackupsTypeOK
<1>4. CASE Tick
  <2>1. UNCHANGED <<db, disk>>
    BY <1>4 DEF Tick
  <2>2. FilesKept
    BY <1>1, <2>1, FilesStay
  <2>3. RowsKept(db, db', {})
    BY <2>1, RowsStay DEF BackupsTypeOK
  <2> QED BY <1>1, <2>2, <2>3 DEF Going
<1> QED BY <1>1, <1>2, <1>3, <1>4 DEF Going, Aside

\* JobsSound is kept.
LEMMA SoundFrame ==
  ASSUME BackupsTypeOK, JobsSound, NEW j \in Jobs, Others(j), DOMAIN image \subseteq DOMAIN image',
         job'[j] # None => SoundJob(job'[j], DOMAIN image')
  PROVE  JobsSound'
<1> SUFFICES ASSUME NEW k \in Jobs, job'[k] # None PROVE SoundJob(job'[k], DOMAIN image')
  BY DEF JobsSound, Busy
<1>1. CASE k = j
  BY <1>1
<1>2. CASE k # j
  <2>1. job'[k] = job[k] /\ SoundJob(job[k], DOMAIN image)
    BY <1>2 DEF Others, JobsSound, Busy
  <2> QED BY <2>1 DEF SoundJob
<1> QED BY <1>1, <1>2

LEMMA MakeSound ==
  ASSUME BackupAssumption, BackupsTypeOK, JobsSound, CopiesBegun, NEW j \in Jobs,
         \/ \E enc \in Encrypted : Inserts(j, enc)
         \/ Makes(j)
  PROVE  JobsSound'
<1>0. job[j] # None => SoundJob(job[j], DOMAIN image)
  BY DEF JobsSound, Busy
<1>1. ASSUME NEW enc \in Encrypted, Inserts(j, enc) PROVE JobsSound'
  <2>1. /\ job'[j].new = Fresh(enc) /\ Fresh(enc) # None /\ Fresh(enc).row = NewRow(enc)
        /\ job'[j].step = "write" /\ Others(j) /\ image' = image
        /\ (job'[j].old = None /\ job'[j].task = "backup")
             \/ (job[j] # None /\ job'[j].old = job[j].old /\ job[j].task = "restore")
    BY <1>1, InsertFacts
  <2>2. SoundJob(job'[j], DOMAIN image')
    BY <1>0, <2>1 DEF SoundJob, NewRow, MakingSteps
  <2> QED BY <2>1, <2>2, SoundFrame
<1>2. CASE OpenArchive(j)
  <2>1. /\ job[j].step = "write" /\ job'[j].step = "close" /\ job'[j].task = job[j].task /\ IsMaker(j)
        /\ job'[j].new = job[j].new /\ job'[j].old = job[j].old /\ Others(j) /\ image' = image
    BY <1>2, OpenFacts
  <2>2. SoundJob(job'[j], DOMAIN image')
    BY <1>0, <2>1 DEF SoundJob, MakingSteps, IsMaker
  <2> QED BY <2>1, <2>2, SoundFrame
<1>3. CASE CloseArchive(j)
  <2>1. /\ job[j].step = "close" /\ job'[j].task = job[j].task /\ IsMaker(j)
        /\ job'[j].step = IF job[j].new.row.enc THEN "encrypt" ELSE "finish"
        /\ job'[j].new = job[j].new /\ job'[j].old = job[j].old /\ Others(j)
    BY <1>3, CloseFacts
  <2>2. DOMAIN image \subseteq DOMAIN image'
    BY <1>3, CloseFacts DEF BackupsTypeOK
  <2>3. SoundJob(job'[j], DOMAIN image')
    BY <1>0, <2>1 DEF SoundJob, MakingSteps, IsMaker
  <2> QED BY <2>1, <2>2, <2>3, SoundFrame
<1>4. CASE Encrypt(j)
  <2>1. /\ job[j].step = "encrypt" /\ job'[j].step = "finish" /\ job'[j].task = job[j].task /\ IsMaker(j)
        /\ job'[j].old = job[j].old /\ Others(j) /\ image' = image
        /\ job[j].new.row.enc /\ job'[j].new # None /\ job'[j].new.row.ext = "enc"
        /\ job'[j].new.row.enc = job[j].new.row.enc /\ job'[j].new.row.sum = job[j].new.row.sum
    BY <1>4, EncryptFacts
  <2>2. SoundJob(job'[j], DOMAIN image')
    BY <1>0, <2>1 DEF SoundJob, MakingSteps, IsMaker
  <2> QED BY <2>1, <2>2, SoundFrame
<1>5. CASE FinishBackup(j)
  <2>1. /\ job'[j].task = job[j].task /\ IsMaker(j) /\ Others(j) /\ image' = image
        /\ job'[j].step \in IF job[j].task = "restore" THEN {"copy"} ELSE {"check", "list"}
        /\ job'[j].new # None
        /\ job'[j].old = IF job'[j].step = "copy" THEN job[j].old ELSE job'[j].new
    BY <1>5, FinishFacts
  <2>2. SoundJob(job'[j], DOMAIN image')
    BY <1>0, <2>1 DEF SoundJob, MakingSteps, IsMaker
  <2> QED BY <2>1, <2>2, SoundFrame
<1> QED BY <1>1, <1>2, <1>3, <1>4, <1>5 DEF Makes, Inserts

LEMMA ReadSound ==
  ASSUME BackupAssumption, BackupsTypeOK, JobsSound, FilesSound, NEW j \in Jobs, Reads(j)
  PROVE  JobsSound'
<1>0. /\ SoundJob(job[j], DOMAIN image) /\ job[j].old # None /\ PathOf(job[j].old) \in Files /\ image' = image
  BY Reader
<1>1. CASE Check(j)
  <2>1. Others(j) /\ (job'[j] # None => SoundJob(job'[j], DOMAIN image))
    BY <1>0, <1>1, CheckFacts DEF SoundJob, MakingSteps
  <2> QED BY <1>0, <2>1, SoundFrame
<1>2. CASE BeginDecrypt(j)
  <2> DEFINE c == disk[PathOf(job[j].old)]
  <2>1. c # None /\ c.is = "whole" => c.id \in DOMAIN image
    BY <1>0 DEF FilesSound, SoundFile
  <2>2. job[j].old.row.enc
    BY <1>0, <1>2, BeginDecryptFacts DEF On, SoundJob
  <2>3. Others(j) /\ (job'[j] # None => SoundJob(job'[j], DOMAIN image))
    BY <1>0, <1>2, <2>1, <2>2, BeginDecryptFacts DEF SoundJob, MakingSteps
  <2> QED BY <1>0, <2>3, SoundFrame
<1>3. CASE EndDecrypt(j)
  <2>1. Others(j) /\ SoundJob(job'[j], DOMAIN image)
    BY <1>0, <1>3, EndDecryptFacts DEF SoundJob, MakingSteps
  <2> QED BY <1>0, <2>1, SoundFrame
<1>4. CASE ReadArchive(j)
  <2>1. Others(j) /\ (job'[j] # None => SoundJob(job'[j], DOMAIN image))
    BY <1>0, <1>4, ReadArchiveFacts DEF SoundJob, MakingSteps
  <2> QED BY <1>0, <2>1, SoundFrame
<1> QED BY <1>1, <1>2, <1>3, <1>4 DEF Reads

LEMMA RestSound ==
  ASSUME BackupAssumption, BackupsTypeOK, JobsSound, NEW j \in Jobs,
         \/ BeginsToRead(j) \/ Ends(j)
         \/ CopyOver(j) \/ Lists(j)
  PROVE  JobsSound'
<1>0. job[j] # None => SoundJob(job[j], DOMAIN image)
  BY DEF JobsSound, Busy
<1>1. CASE BeginsToRead(j)
  <2>1. Others(j) /\ image' = image /\ SoundJob(job'[j], DOMAIN image)
    BY <1>1, JobBegins DEF SoundJob, MakingSteps
  <2> QED BY <2>1, SoundFrame
<1>2. CASE Ends(j)
  BY <1>2, JobEnds, SoundFrame
<1>3. CASE CopyOver(j)
  <2>1. job[j] # None /\ job[j].step = "copy" /\ Step(j, "record") /\ image' = image
    BY <1>3 DEF CopyOver, On
  <2>2. Others(j) /\ SoundJob(job'[j], DOMAIN image)
    BY <1>0, <2>1, StepFacts DEF SoundJob, MakingSteps
  <2> QED BY <2>1, <2>2, SoundFrame
<1>4. CASE Lists(j)
  <2>1. Others(j) /\ image' = image /\ SoundJob(job'[j], DOMAIN image)
    BY <1>0, <1>4, JobLists DEF SoundJob, MakingSteps
  <2> QED BY <2>1, SoundFrame
<1> QED BY <1>1, <1>2, <1>3, <1>4

\* FilesSound is kept.
LEMMA FilesFrame ==
  ASSUME BackupsTypeOK, FilesSound, Seen \subseteq Seen', DOMAIN image \subseteq DOMAIN image',
         \A f \in Files : \/ disk'[f] \in {disk[f], None}
                          \/ f[1] \in Seen' /\ SoundFile(f, disk'[f], DOMAIN image')
  PROVE  FilesSound'
<1> SUFFICES ASSUME NEW f \in Files, disk'[f] # None PROVE f[1] \in Seen' /\ SoundFile(f, disk'[f], DOMAIN image')
  BY DEF FilesSound
<1>1. CASE disk'[f] = disk[f]
  BY <1>1 DEF FilesSound, SoundFile
<1> QED BY <1>1

LEMMA HeldAreCopies ==
  ASSUME NEW j \in Jobs, job[j] # None
  PROVE  \A i \in Held(j) : i \in Copies
BY DEF Copies, Busy

LEMMA MakerSeen ==
  ASSUME CopiesBegun, NEW j \in Jobs, IsMaker(j)
  PROVE  job[j].new.row.stamp \in Seen /\ job[j].new \in Copies
BY DEF Copies, Busy, Held, CopiesBegun, IsMaker

LEMMA MakeFiles ==
  ASSUME BackupAssumption, BackupsTypeOK, JobsSound, FilesSound, CopiesBegun, NEW j \in Jobs,
         \/ \E enc \in Encrypted : Inserts(j, enc)
         \/ Makes(j)
  PROVE  FilesSound'
<1>1. ASSUME NEW enc \in Encrypted, Inserts(j, enc) PROVE FilesSound'
  <2>1. CountBackup /\ disk' = disk /\ image' = image
    BY <1>1, InsertFacts
  <2>2. Seen \subseteq Seen'
    BY <2>1, AloneAfter
  <2> QED BY <2>1, <2>2, FilesFrame
<1>2. CASE OpenArchive(j)
  <2>1. /\ IsMaker(j) /\ job[j].step = "write" /\ disk' = [disk EXCEPT ![PathOf(job[j].new)] = Begun]
        /\ begun' = begun /\ image' = image
    BY <1>2, OpenFacts
  <2>2. Seen' = Seen /\ job[j].new.row.stamp \in Seen
    BY <2>1, MakerSeen DEF Seen
  <2>3. PathOf(job[j].new)[2] = "zip" /\ PathOf(job[j].new)[1] = job[j].new.row.stamp
    BY <2>1 DEF JobsSound, SoundJob, IsMaker, PathOf
  <2>4. SoundFile(PathOf(job[j].new), Begun, DOMAIN image')
    BY <2>3 DEF SoundFile, Begun
  <2> QED BY <2>1, <2>2, <2>3, <2>4, FilesFrame DEF IsMaker, BackupsTypeOK
<1>3. CASE CloseArchive(j)
  <2>1. /\ IsMaker(j) /\ job[j].step = "close" /\ begun' = begun
        /\ image' = Append(image, db) /\ Len(image') = Len(image) + 1
    BY <1>3, CloseFacts
  <2>2. PICK c \in {[id |-> Len(image'), is |-> "whole", plain |-> TRUE], Begun} :
             disk' = [disk EXCEPT ![PathOf(job[j].new)] = c]
    BY <1>3, CloseFacts
  <2>3. DOMAIN image \subseteq DOMAIN image' /\ Len(image') \in DOMAIN image'
    BY <2>1 DEF BackupsTypeOK
  <2>4. Seen' = Seen /\ job[j].new.row.stamp \in Seen
    BY <2>1, MakerSeen DEF Seen
  <2>5. PathOf(job[j].new)[2] = "zip" /\ PathOf(job[j].new)[1] = job[j].new.row.stamp
    BY <2>1 DEF JobsSound, SoundJob, IsMaker, PathOf
  <2>6. SoundFile(PathOf(job[j].new), c, DOMAIN image')
    BY <2>3, <2>5 DEF SoundFile, Begun
  <2> QED BY <2>1, <2>2, <2>3, <2>4, <2>5, <2>6, FilesFrame DEF IsMaker, BackupsTypeOK
<1>4. CASE Encrypt(j)
  <2> DEFINE p == PathOf(job[j].new)
             q == <<job[j].new.row.stamp, "enc">>
             c == [disk[p] EXCEPT !.plain = FALSE]
  <2>1. /\ IsMaker(j) /\ begun' = begun /\ image' = image /\ ~Missing(p)
        /\ disk' = [disk EXCEPT ![q] = c, ![p] = None]
    BY <1>4, EncryptFacts
  <2>2. Seen' = Seen /\ job[j].new.row.stamp \in Seen
    BY <2>1, MakerSeen DEF Seen
  <2>3. disk[p] \in Content /\ SoundFile(p, disk[p], DOMAIN image)
    BY <2>1 DEF Missing, IsMaker, BackupsTypeOK, FilesSound
  <2>4. c.plain = FALSE /\ c.is = disk[p].is /\ c.id = disk[p].id
    BY <2>3 DEF Content
  <2> HIDE DEF c
  <2>5. SoundFile(q, c, DOMAIN image')
    BY <2>1, <2>3, <2>4 DEF SoundFile
  <2>6. q \in Files /\ p \in Files
    BY <2>1 DEF IsMaker, Row, Files
  <2> HIDE DEF p
  <2>7. \A f \in Files : disk'[f] = IF f = p THEN None ELSE IF f = q THEN c ELSE disk[f]
    BY <2>1, <2>6 DEF BackupsTypeOK
  <2>8. \A f \in Files : \/ disk'[f] \in {disk[f], None}
                         \/ f[1] \in Seen' /\ SoundFile(f, disk'[f], DOMAIN image')
    BY <2>2, <2>5, <2>7
  <2> QED BY <2>1, <2>2, <2>8, FilesFrame
<1>5. CASE FinishBackup(j)
  <2>1. disk' = disk /\ image' = image /\ begun' = begun
    BY <1>5, FinishFacts
  <2> QED BY <2>1, FilesFrame DEF Seen
<1> QED BY <1>1, <1>2, <1>3, <1>4, <1>5 DEF Makes, Inserts

LEMMA ReadFiles ==
  ASSUME BackupAssumption, BackupsTypeOK, JobsSound, FilesSound, CopiesBegun, NEW j \in Jobs, Reads(j)
  PROVE  FilesSound'
<1>0. /\ job[j] # None /\ job[j] \in Job /\ SoundJob(job[j], DOMAIN image)
      /\ TempOf(job[j].old) \in Files /\ job[j].old.row.stamp \in Seen
      /\ image' = image /\ Seen' = Seen
  <2>1. /\ j \in Busy /\ job[j].step \in {"check", "decrypt", "decrypted", "read"}
        /\ image' = image /\ begun' = begun
    BY DEF Check, BeginDecrypt, EndDecrypt, ReadArchive, On, Busy, history, Reads
  <2>2. job[j].old # None /\ SoundJob(job[j], DOMAIN image)
    BY <2>1 DEF JobsSound, SoundJob
  <2>3. job[j].old.row.stamp \in Seen
    BY <2>1, <2>2 DEF CopiesBegun, Copies, Held
  <2> QED BY <2>1, <2>2, <2>3, JobTypes DEF Busy, Seen
<1>1. ASSUME NEW c, Put(TempOf(job[j].old), c), c # None =>
               (c.is = "damaged" => c.id = 0) /\ (c.is = "whole" => c.id \in DOMAIN image)
      PROVE  FilesSound'
  <2>1. \A f \in Files : disk'[f] = IF f = TempOf(job[j].old) THEN c ELSE disk[f]
    BY <1>0, <1>1 DEF Put, BackupsTypeOK
  <2>2. TempOf(job[j].old)[2] = "verify" /\ TempOf(job[j].old)[1] = job[j].old.row.stamp
    BY DEF TempOf
  <2>3. c # None => SoundFile(TempOf(job[j].old), c, DOMAIN image')
    BY <1>0, <1>1, <2>2 DEF SoundFile
  <2> QED BY <1>0, <2>1, <2>2, <2>3, FilesFrame
<1>2. CASE Check(j)
  <2>1. disk' = disk
    BY <1>2 DEF Check
  <2> QED BY <1>0, <2>1, FilesFrame
<1>3. CASE BeginDecrypt(j)
  <2>1. Put(TempOf(job[j].old), None) \/ Put(TempOf(job[j].old), Begun)
    BY <1>3 DEF BeginDecrypt
  <2>2. Begun.is = "partial"
    BY DEF Begun
  <2> QED BY <1>1, <2>1, <2>2
<1>4. CASE EndDecrypt(j)
  <2>1. job[j].mem \in Content /\ job[j].mem.is = "whole" /\ job[j].mem.id \in DOMAIN image
    BY <1>0, <1>4 DEF EndDecrypt, On, SoundJob, Job
  <2> DEFINE c == [job[j].mem EXCEPT !.plain = TRUE]
  <2>2. c.is = "whole" /\ c.id \in DOMAIN image
    BY <2>1 DEF Content
  <2>3. Put(TempOf(job[j].old), None) \/ Put(TempOf(job[j].old), c)
    BY <1>4 DEF EndDecrypt
  <2> HIDE DEF c
  <2> QED BY <1>1, <2>2, <2>3
<1>5. CASE ReadArchive(j)
  <2>1. Put(TempOf(job[j].old), None) \/ Put(TempOf(job[j].old), disk[TempOf(job[j].old)])
    BY <1>5 DEF ReadArchive
  <2>2. disk[TempOf(job[j].old)] # None => SoundFile(TempOf(job[j].old), disk[TempOf(job[j].old)], DOMAIN image)
    BY <1>0 DEF FilesSound
  <2> QED BY <1>1, <2>1, <2>2 DEF SoundFile
<1> QED BY <1>2, <1>3, <1>4, <1>5 DEF Reads

LEMMA RestFiles ==
  ASSUME BackupsTypeOK, FilesSound,
         \/ \E j \in Jobs :
              \/ BeginsToRead(j) \/ Ends(j) \/ CopyOver(j) \/ Lists(j)
         \/ Aside
  PROVE  FilesSound'
<1>1. UNCHANGED <<image, begun>>
  BY DEF BeginVerify, BeginRestore, MissingFails, WriteFails, FailBackup, CopyFails, RecordRestore,
         EndRetention, Kill, CopyOver, ListOld, DeleteOne, FileRestore, Damage, Tick,
          history, BeginsToRead, Ends, Lists, Aside
<1>2. Seen' = Seen
  BY <1>1 DEF Seen
<1>3. ASSUME NEW j \in Jobs, NEW f \in Files, DeleteOne(j, f) PROVE FilesSound'
  <2>1. \A g \in Files : disk'[g] = IF g = f THEN None ELSE disk[g]
    BY <1>3 DEF DeleteOne, Put, BackupsTypeOK
  <2> QED BY <1>1, <1>2, <2>1, FilesFrame
<1>4. ASSUME NEW f \in Files, Damage(f) PROVE FilesSound'
  <2> DEFINE c == [disk[f] EXCEPT !.id = 0, !.is = "damaged"]
  <2>1. disk[f] \in Content /\ disk[f] # None
    BY <1>4 DEF Damage, Missing, BackupsTypeOK
  <2>2. c.is = "damaged" /\ c.id = 0 /\ c.plain = disk[f].plain
    BY <2>1 DEF Content
  <2>3. \A g \in Files : disk'[g] = IF g = f THEN c ELSE disk[g]
    BY <1>4 DEF Damage, Put, BackupsTypeOK
  <2> HIDE DEF c
  <2>4. f[1] \in Seen' /\ SoundFile(f, c, DOMAIN image')
    BY <1>1, <1>2, <2>1, <2>2 DEF FilesSound, SoundFile
  <2> QED BY <1>1, <1>2, <2>3, <2>4, FilesFrame
<1>5. ASSUME disk' = disk PROVE FilesSound'
  BY <1>1, <1>2, <1>5, FilesFrame
<1> QED BY <1>3, <1>4, <1>5 DEF BeginVerify, BeginRestore, MissingFails, WriteFails, FailBackup, CopyFails,
         RecordRestore, EndRetention, Kill, CopyOver, ListOld, FileRestore, Tick, BeginsToRead, Ends, Lists, Aside

SameOrigin(x, y) == x.id = y.id /\ x.row.stamp = y.row.stamp /\ x.row.enc = y.row.enc
Known(x) == \E y \in Copies : SameOrigin(x, y)

\* CopiesBegun and OneOrigin are kept: a step that is Going or makes an archive
\* copies records around and changes neither their number nor their second.
LEMMA CopyTypes ==
  ASSUME BackupsTypeOK
  PROVE  \A x \in Copies : x \in Instance /\ x # None
<1>1. \A d \in Database : Stored(d) \subseteq Instance
  BY DEF Stored, Existing, Database, Instance
<1>2. Stored(db) \subseteq Instance /\ Archives \subseteq Instance
  BY <1>1 DEF BackupsTypeOK, Archives
<1>3. \A j \in Busy : Held(j) \subseteq Instance
  BY JobTypes DEF Busy, Held
<1>4. Copies \subseteq Instance
  BY <1>2, <1>3 DEF Copies
<1> QED BY <1>4, NoneIsNothing

LEMMA CopyIsKnown ==
  /\ \A x \in Copies : Known(x)
  /\ \A b \in Existing(db.rows) : [id |-> b, row |-> db.rows[b]] \in Copies
  /\ \A k \in DOMAIN image : Stored(image[k]) \subseteq Copies
  /\ \A j \in Busy : Held(j) \subseteq Copies
BY DEF Known, SameOrigin, Copies, Archives, Stored

\* It is enough to look at the rows and at what the jobs hold.
LEMMA KnownAll ==
  ASSUME BackupsTypeOK, image' = image \/ image' = Append(image, db), NEW N,
         \A b \in Existing(db'.rows) : LET x == [id |-> b, row |-> db'.rows[b]] IN Known(x) \/ x \in N,
         \A k \in Jobs : job'[k] # None => \A x \in {job'[k].new, job'[k].old} \ {None} : Known(x) \/ x \in N
  PROVE  \A x \in Copies' : Known(x) \/ x \in N
<1> SUFFICES ASSUME NEW x \in Copies' PROVE Known(x) \/ x \in N
  OBVIOUS
<1>1. CASE x \in Stored(db')
  BY <1>1 DEF Stored
<1>2. CASE x \in Archives'
  <2>1. PICK k \in DOMAIN image' : x \in Stored(image'[k])
    BY <1>2 DEF Archives
  <2>2. image'[k] = db \/ (k \in DOMAIN image /\ image'[k] = image[k])
    <3>1. image \in Seq(Database)
      BY DEF BackupsTypeOK
    <3>2. CASE image' = image
      BY <2>1, <3>2
    <3>3. CASE image' = Append(image, db)
      BY <2>1, <3>1, <3>3
    <3> QED BY <3>2, <3>3
  <2>3. x \in Copies
    BY <2>1, <2>2 DEF Copies, Archives
  <2> QED BY <2>3, CopyIsKnown
<1>3. CASE \E k \in Busy' : x \in Held(k)'
  BY <1>3 DEF Busy, Held
<1> QED BY <1>1, <1>2, <1>3 DEF Copies

LEMMA GoingKnown ==
  ASSUME BackupsTypeOK, Going
  PROVE  \A x \in Copies' : Known(x)
<1>1. \A b \in Existing(db'.rows) : Known([id |-> b, row |-> db'.rows[b]])
  <2> SUFFICES ASSUME NEW b \in Existing(db'.rows) PROVE Known([id |-> b, row |-> db'.rows[b]])
    OBVIOUS
  <2>1. ASSUME NEW V, RowsKept(db, db', V) PROVE Known([id |-> b, row |-> db'.rows[b]])
    <3>1. /\ b \in Existing(db.rows)
          /\ db'.rows[b].stamp = db.rows[b].stamp /\ db'.rows[b].enc = db.rows[b].enc
      BY <2>1 DEF RowsKept, Existing
    <3>2. [id |-> b, row |-> db.rows[b]] \in Copies
      BY <3>1, CopyIsKnown
    <3> QED BY <3>1, <3>2 DEF Known, SameOrigin
  <2>2. ASSUME NEW j \in Jobs, TakesBack(j) PROVE Known([id |-> b, row |-> db'.rows[b]])
    <3>1. [id |-> b, row |-> db'.rows[b]] \in Copies
      BY <2>2, CopyIsKnown DEF TakesBack, Stored
    <3> QED BY <3>1, CopyIsKnown
  <2> QED BY <2>1, <2>2 DEF Going, Verifies
<1>2. ASSUME NEW k \in Jobs, job'[k] # None, NEW x \in {job'[k].new, job'[k].old} \ {None} PROVE Known(x)
  <2>1. x \in Copies
    <3>1. CASE job[k] # None /\ x \in {job[k].new, job[k].old} \ {None}
      BY <3>1, HeldAreCopies DEF Held
    <3>2. CASE x \in Stored(db)
      BY <3>2 DEF Copies
    <3> QED BY <1>2, <3>1, <3>2 DEF Going, JobsGoOn
  <2> QED BY <2>1, CopyIsKnown
<1> DEFINE N == {}
<1>3. \A x \in N : FALSE
  OBVIOUS
<1> HIDE DEF N
<1>4. \A y \in Copies' : Known(y) \/ y \in N
  <2>1. image' = image
    BY DEF Going
  <2> QED BY <1>1, <1>2, <2>1, KnownAll
<1> QED BY <1>3, <1>4

LEMMA WriteKnown ==
  ASSUME BackupsTypeOK, JobsSound, NEW j \in Jobs, Makes(j)
  PROVE  \A x \in Copies' : Known(x)
<1>1. IsMaker(j) /\ Others(j) /\ (image' = image \/ image' = Append(image, db))
  BY OpenFacts, CloseFacts, EncryptFacts, FinishFacts DEF Makes
<1>2. job[j].new \in Copies /\ \A i \in {job[j].new, job[j].old} \ {None} : Known(i)
  BY <1>1, HeldAreCopies, CopyIsKnown DEF IsMaker, Held
<1>3. /\ job'[j].new # None /\ SameOrigin(job'[j].new, job[j].new)
      /\ job'[j].old \in {job[j].old, job'[j].new}
  <2>1. CASE OpenArchive(j)
    BY <1>1, <2>1, OpenFacts DEF IsMaker, SameOrigin
  <2>2. CASE CloseArchive(j)
    BY <1>1, <2>2, CloseFacts DEF IsMaker, SameOrigin
  <2>3. CASE Encrypt(j)
    BY <1>1, <2>3, EncryptFacts DEF IsMaker, SameOrigin
  <2>4. CASE FinishBackup(j)
    <3>1. PICK n \in Instance :
             /\ n # None /\ n.id = job[j].new.id /\ n.row.stamp = job[j].new.row.stamp
             /\ n.row.enc = job[j].new.row.enc /\ job'[j].new = n
             /\ job'[j].old = IF job'[j].step = "copy" THEN job[j].old ELSE n
      BY <2>4, FinishFacts
    <3> QED BY <3>1 DEF SameOrigin
  <2> QED BY <2>1, <2>2, <2>3, <2>4 DEF Makes
<1>4. ASSUME NEW k \in Jobs, job'[k] # None, NEW x \in {job'[k].new, job'[k].old} \ {None} PROVE Known(x)
  <2>1. CASE k = j
    BY <1>2, <1>3, <1>4, <2>1 DEF Known
  <2>2. CASE k # j
    <3>1. job'[k] = job[k]
      BY <1>1, <2>2 DEF Others
    <3>2. x \in Copies
      BY <1>4, <3>1, HeldAreCopies DEF Held
    <3> QED BY <3>2, CopyIsKnown
  <2> QED BY <2>1, <2>2
<1>5. ASSUME NEW b \in Existing(db'.rows) PROVE Known([id |-> b, row |-> db'.rows[b]])
  <2>1. CASE db' = db
    BY <1>5, <2>1, CopyIsKnown
  <2>2. CASE FinishBackup(j)
    <3>1. PICK n \in Instance :
             /\ n.id = job[j].new.id /\ n.row.stamp = job[j].new.row.stamp
             /\ n.row.enc = job[j].new.row.enc /\ db' = [db EXCEPT !.rows[n.id] = n.row]
      BY <2>2, FinishFacts
    <3>2. db'.rows[b] = IF b = n.id THEN n.row ELSE db.rows[b]
      BY <1>5, <3>1 DEF BackupsTypeOK, Database, Existing
    <3>3. CASE b = n.id
      BY <1>2, <3>1, <3>2, <3>3 DEF Known, SameOrigin
    <3>4. CASE b # n.id
      BY <1>5, <3>2, <3>4, CopyIsKnown DEF Existing
    <3> QED BY <3>3, <3>4
  <2> QED BY <2>1, <2>2, OpenFacts, CloseFacts, EncryptFacts DEF Makes
<1> DEFINE N == {}
<1>6. \A x \in N : FALSE
  OBVIOUS
<1> HIDE DEF N
<1>7. \A y \in Copies' : Known(y) \/ y \in N
  BY <1>1, <1>4, <1>5, KnownAll
<1> QED BY <1>6, <1>7

LEMMA InsertKnown ==
  ASSUME BackupAssumption, BackupsTypeOK, CopiesBegun, NEW j \in Jobs, NEW enc \in Encrypted, Inserts(j, enc)
  PROVE  \A x \in Copies' : Known(x) \/ x = Fresh(enc)
<1>1. ASSUME NEW b \in Existing(db'.rows)
      PROVE  Known([id |-> b, row |-> db'.rows[b]]) \/ [id |-> b, row |-> db'.rows[b]] = Fresh(enc)
  <2>1. db'.rows[b] = IF b = NextRecord THEN NewRow(enc) ELSE db.rows[b]
    BY <1>1, InsertFacts DEF Existing
  <2>2. CASE b = NextRecord
    BY <2>1, <2>2 DEF Fresh
  <2>3. CASE b # NextRecord
    BY <1>1, <2>1, <2>3, CopyIsKnown DEF Existing
  <2> QED BY <2>2, <2>3
<1>2. ASSUME NEW k \in Jobs, job'[k] # None, NEW x \in {job'[k].new, job'[k].old} \ {None}
      PROVE  Known(x) \/ x = Fresh(enc)
  <2>1. x = Fresh(enc) \/ (job[k] # None /\ x \in {job[k].new, job[k].old} \ {None})
    <3>1. /\ job'[j].new = Fresh(enc) /\ Others(j)
          /\ job'[j].old = None \/ (job[j] # None /\ job'[j].old = job[j].old)
      BY InsertFacts
    <3> QED BY <1>2, <3>1 DEF Others
  <2> QED BY <2>1, HeldAreCopies, CopyIsKnown DEF Held
<1>3. image' = image
  BY InsertFacts
<1>4. \A x \in Copies' : Known(x) \/ x \in {Fresh(enc)}
  BY <1>1, <1>2, <1>3, KnownAll
<1> QED BY <1>4

LEMMA OriginsKept ==
  ASSUME BackupAssumption, BackupsTypeOK, CopiesBegun, OneOrigin, begun' = begun, \A x \in Copies' : Known(x)
  PROVE  CopiesBegun' /\ OneOrigin'
<1>1. Seen' = Seen /\ Len(begun') = Len(begun) /\ \A s : Alone(s)' <=> Alone(s)
  BY DEF Seen, Alone
<1>2. CopiesBegun'
  BY <1>1 DEF CopiesBegun, Known, SameOrigin
<1>3. OneOrigin'
  BY <1>1 DEF OneOrigin, Known, SameOrigin
<1> QED BY <1>2, <1>3

LEMMA OriginsInserted ==
  ASSUME BackupAssumption, BackupsTypeOK, CopiesBegun, OneOrigin,
         NEW j \in Jobs, NEW enc \in Encrypted, Inserts(j, enc)
  PROVE  CopiesBegun' /\ OneOrigin'
<1>1. /\ CountBackup /\ NextRecord \in Records /\ NextRecord <= Len(begun) + 1
      /\ Fresh(enc).id = NextRecord /\ Fresh(enc).row = NewRow(enc)
  BY InsertFacts
<1>2. Len(begun') = Len(begun) + 1 /\ Seen' = Seen \cup {clock} /\ Len(begun) \in Nat
  <2>1. Len(begun) \in Nat
    BY DEF BackupsTypeOK
  <2> QED BY <1>1, <2>1, AloneAfter
<1>3. NewRow(enc).stamp = clock /\ NewRow(enc).enc = enc
  BY DEF NewRow
<1>4. \A x \in Copies' : Known(x) \/ x = Fresh(enc)
  BY InsertKnown
<1>5. \A x \in Copies : x.row.stamp \in Seen /\ x.id <= Len(begun)
  BY DEF CopiesBegun
<1>6. CopiesBegun'
  <2> SUFFICES ASSUME NEW x \in Copies' PROVE x.row.stamp \in Seen' /\ x.id <= Len(begun')
    BY DEF CopiesBegun
  <2>1. CASE x = Fresh(enc)
    BY <1>1, <1>2, <1>3, <2>1
  <2>2. ASSUME NEW y \in Copies, SameOrigin(x, y) PROVE x.row.stamp \in Seen' /\ x.id <= Len(begun')
    <3>1. y.id \in Records
      <4>1. y \in Instance
        BY CopyTypes
      <4> QED BY <4>1 DEF Instance
    <3> QED BY <1>2, <1>5, <2>2, <3>1 DEF SameOrigin, Records
  <2> QED BY <1>4, <2>1, <2>2 DEF Known
<1>7. OneOrigin'
  <2> SUFFICES ASSUME NEW x \in Copies', NEW y \in Copies', x.row.stamp = y.row.stamp, Alone(x.row.stamp)'
               PROVE  x.id = y.id /\ x.row.enc = y.row.enc
    BY DEF OneOrigin
  <2>1. Alone(x.row.stamp) /\ (x.row.stamp = clock => clock \notin Seen)
    BY <1>1, AloneAfter
  <2>2. CASE Known(x) /\ Known(y)
    BY <2>1, <2>2 DEF Known, SameOrigin, OneOrigin
  <2>3. CASE x = Fresh(enc) /\ y = Fresh(enc)
    BY <2>3
  <2>4. ASSUME NEW z, Known(z), z.row.stamp = clock PROVE clock \in Seen
    BY <1>5, <2>4 DEF Known, SameOrigin
  <2>5. ~(x = Fresh(enc) /\ Known(y)) /\ ~(Known(x) /\ y = Fresh(enc))
    BY <1>1, <1>3, <2>1, <2>4
  <2> QED BY <1>4, <2>2, <2>3, <2>5
<1> QED BY <1>6, <1>7

\* OneMaker is kept: only a backup that begins gets a maker.
LEMMA OneMakerFrame ==
  ASSUME OneMaker, begun' = begun,
         \A k \in Jobs : job'[k] # None /\ job'[k].new # None =>
            job[k] # None /\ job[k].new # None /\ job'[k].new.row.stamp = job[k].new.row.stamp
  PROVE  OneMaker'
<1>1. \A s : Alone(s)' <=> Alone(s)
  BY DEF Alone
<1> QED BY <1>1 DEF OneMaker, Busy

LEMMA OneMakerStep ==
  ASSUME BackupAssumption, BackupsTypeOK, JobsSound, CopiesBegun, OneMaker,
         \/ Going
         \/ \E j \in Jobs : Makes(j)
         \/ \E j \in Jobs, enc \in Encrypted : Inserts(j, enc)
  PROVE  OneMaker'
<1>1. CASE Going
  <2>1. \A k \in Jobs : job'[k] # None /\ job'[k].new # None => job[k] # None /\ job'[k].new = job[k].new
    BY <1>1 DEF Going, JobsGoOn
  <2> QED BY <1>1, <2>1, OneMakerFrame DEF Going
<1>2. ASSUME NEW j \in Jobs, Makes(j) PROVE OneMaker'
  <2>1. begun' = begun /\ IsMaker(j) /\ Others(j)
    BY <1>2, OpenFacts, CloseFacts, EncryptFacts, FinishFacts DEF Makes
  <2>2. job'[j] # None /\ job'[j].new # None /\ job'[j].new.row.stamp = job[j].new.row.stamp
    <3>1. CASE FinishBackup(j)
      BY <3>1, FinishFacts
    <3> QED BY <1>2, <2>1, <3>1, OpenFacts, CloseFacts, EncryptFacts DEF Makes, IsMaker
  <2> QED BY <2>1, <2>2, OneMakerFrame DEF Others, IsMaker
<1>3. ASSUME NEW j \in Jobs, NEW enc \in Encrypted, Inserts(j, enc) PROVE OneMaker'
  <2>1. CountBackup /\ job'[j].new = Fresh(enc) /\ Fresh(enc).row = NewRow(enc) /\ Others(j)
    BY <1>3, InsertFacts DEF Inserts
  <2>2. Fresh(enc).row.stamp = clock
    BY <2>1 DEF NewRow
  <2>3. \A s : Alone(s)' => Alone(s) /\ (s = clock => clock \notin Seen)
    BY <2>1, AloneAfter
  <2>4. \A k \in Jobs : job[k] # None /\ job[k].new # None => job[k].new.row.stamp \in Seen
    BY DEF CopiesBegun, Copies, Held, Busy
  <2> SUFFICES ASSUME NEW k \in Jobs, NEW l \in Jobs, job'[k] # None, job'[l] # None,
                      job'[k].new # None, job'[l].new # None,
                      NEW s, job'[k].new.row.stamp = s, job'[l].new.row.stamp = s, Alone(s)'
               PROVE  k = l
    BY DEF OneMaker, Busy
  <2>5. CASE k # j /\ l # j
    BY <2>1, <2>3, <2>5 DEF Others, OneMaker, Busy
  <2>6. CASE k = j /\ l # j
    BY <2>1, <2>2, <2>3, <2>4, <2>6 DEF Others
  <2>7. CASE k # j /\ l = j
    BY <2>1, <2>2, <2>3, <2>4, <2>7 DEF Others
  <2> QED BY <2>5, <2>6, <2>7
<1> QED BY <1>1, <1>2, <1>3
-----------------------------------------------------------------------------

\* Segments and SameRow are kept.
LEMMA SegmentsStep ==
  ASSUME BackupAssumption, BackupsTypeOK, JobsSound, CopiesBegun, Segments, SameRow, ~mixed,
         \/ Going
         \/ \E j \in Jobs : Makes(j)
         \/ \E j \in Jobs, enc \in Encrypted : Inserts(j, enc)
  PROVE  Segments'
<1>0. Len(begun) \in Nat
  BY DEF BackupsTypeOK
<1>1. CASE Going
  <2>1. image' = image /\ Len(begun') = Len(begun)
    BY <1>1 DEF Going
  <2>2. Existing(db'.rows) = Existing(db.rows) \/ \E k \in DOMAIN image : db' = image[k]
    BY <1>1 DEF Going, Verifies, TakesBack, RowsKept, Existing
  <2> QED BY <2>1, <2>2 DEF Segments, UpToOne
<1>2. ASSUME NEW j \in Jobs, Makes(j) PROVE Segments'
  <2>1. Len(begun') = Len(begun) /\ (image' = image \/ image' = Append(image, db))
    BY <1>2, OpenFacts, CloseFacts, EncryptFacts, FinishFacts DEF Makes
  <2>2. Existing(db'.rows) = Existing(db.rows)
    <3>1. CASE db' = db
      BY <3>1
    <3>2. CASE FinishBackup(j)
      <4>1. PICK n \in Instance : /\ n.id = job[j].new.id /\ n.row \in Row
                                  /\ db' = [db EXCEPT !.rows[n.id] = n.row]
        BY <3>2, FinishFacts
      <4>2. job[j].step # "record" /\ n.id \in Records /\ job[j].new \in Held(j) /\ j \in Busy
        BY <3>2, <4>1, FinishFacts DEF IsMaker, Held
      <4>3. db.rows[n.id] # None
        BY <4>1, <4>2 DEF SameRow, SameRowAs
      <4>4. \A b \in Records : db'.rows[b] = IF b = n.id THEN n.row ELSE db.rows[b]
        BY <4>1, <4>2 DEF BackupsTypeOK, Database
      <4>5. n.row # None
        BY <4>1, NoneIsNothing
      <4> QED BY <4>2, <4>3, <4>4, <4>5 DEF Existing
    <3> QED BY <1>2, <3>1, <3>2, OpenFacts, CloseFacts, EncryptFacts DEF Makes
  <2>3. \A k \in DOMAIN image' : image'[k] = db \/ (k \in DOMAIN image /\ image'[k] = image[k])
    <3>1. image \in Seq(Database)
      BY DEF BackupsTypeOK
    <3>2. CASE image' = image
      BY <3>2
    <3>3. CASE image' = Append(image, db)
      BY <3>1, <3>3
    <3> QED BY <2>1, <3>2, <3>3
  <2> QED BY <2>1, <2>2, <2>3 DEF Segments, UpToOne
<1>3. ASSUME NEW j \in Jobs, NEW enc \in Encrypted, Inserts(j, enc) PROVE Segments'
  <2>1. /\ CountBackup /\ image' = image /\ NewRow(enc) # None /\ NextRecord \in Records
        /\ \A c \in Records : db'.rows[c] = IF c = NextRecord THEN NewRow(enc) ELSE db.rows[c]
    BY <1>3, InsertFacts DEF Inserts
  <2>2. Len(begun') = Len(begun) + 1
    BY <1>0, <2>1, AloneAfter
  <2>3. PICK n \in 0 .. Len(begun) : Existing(db.rows) = 1 .. n
    BY DEF Segments, UpToOne
  <2>4. NextRecord = n + 1
    BY <1>0, <2>1, <2>3, NextRecordIs DEF CountBackup
  <2>5. Existing(db'.rows) = 1 .. n + 1
    <3>1. Existing(db'.rows) = Existing(db.rows) \cup {NextRecord}
      BY <2>1 DEF Existing
    <3> QED BY <1>0, <2>3, <2>4, <3>1
  <2>6. UpToOne(db', Len(begun'))
    BY <1>0, <2>2, <2>5 DEF UpToOne
  <2>7. \A k \in DOMAIN image : UpToOne(image[k], Len(begun'))
    BY <1>0, <2>2 DEF Segments, UpToOne
  <2> QED BY <2>1, <2>6, <2>7 DEF Segments
<1> QED BY <1>1, <1>2, <1>3
-----------------------------------------------------------------------------

LEMMA SameRowStep ==
  ASSUME BackupAssumption, BackupsTypeOK, JobsSound, CopiesBegun, Segments, SameRow, MakersFile, ~mixed, ~mixed',
         \/ Going
         \/ \E j \in Jobs : Makes(j)
         \/ \E j \in Jobs, enc \in Encrypted : Inserts(j, enc)
  PROVE  SameRow'
<1>1. CASE Going
  <2> SUFFICES ASSUME NEW k \in Jobs, job'[k] # None, job'[k].step # "record",
                      NEW x \in {job'[k].new, job'[k].old} \ {None}
               PROVE  SameRowAs(x)'
    BY DEF SameRow, Held, Busy
  <2>1. x.id \in Records /\ SameRowAs(x)
    <3>1. CASE job[k] # None /\ job[k].step # "record" /\ x \in {job[k].new, job[k].old} \ {None}
      <4>1. x \in Copies /\ x \in Held(k) /\ k \in Busy
        BY <3>1, HeldAreCopies DEF Held, Busy
      <4> QED BY <3>1, <4>1, CopyTypes DEF SameRow, Instance
    <3>2. CASE x \in Stored(db)
      BY <3>2 DEF Stored, Existing, SameRowAs
    <3> QED BY <1>1, <3>1, <3>2 DEF Going, JobsGoOn
  <2>2. \A s : Alone(s)' <=> Alone(s)
    BY <1>1 DEF Going, Alone
  <2>3. ASSUME NEW V, RowsKept(db, db', V) PROVE SameRowAs(x)'
    <3>1. /\ db'.rows[x.id] # None /\ db'.rows[x.id].stamp = db.rows[x.id].stamp
          /\ db'.rows[x.id].enc = db.rows[x.id].enc /\ db'.rows[x.id].sum = db.rows[x.id].sum
      BY <2>1, <2>3 DEF RowsKept, SameRowAs
    <3> QED BY <2>1, <2>2, <3>1 DEF SameRowAs
  <2>4. ASSUME NEW j \in Jobs, TakesBack(j) PROVE FALSE
    BY <2>4 DEF TakesBack, Busy
  <2> QED BY <1>1, <2>3, <2>4 DEF Going, Verifies
<1>2. ASSUME NEW j \in Jobs, Makes(j) PROVE SameRow'
  <2>1. begun' = begun /\ IsMaker(j) /\ Others(j) /\ job'[j] # None
    <3>1. CASE OpenArchive(j)
      BY <3>1, OpenFacts
    <3>2. CASE CloseArchive(j)
      BY <3>2, CloseFacts
    <3>3. CASE Encrypt(j)
      BY <3>3, EncryptFacts
    <3>4. CASE FinishBackup(j)
      BY <3>4, FinishFacts
    <3> QED BY <1>2, <3>1, <3>2, <3>3, <3>4 DEF Makes
  <2>2. \A s : Alone(s)' <=> Alone(s)
    BY <2>1 DEF Alone
  <2>3. \A k \in Jobs : job[k] # None /\ job[k].step # "record" =>
            \A x \in {job[k].new, job[k].old} \ {None} : SameRowAs(x) /\ x.id \in Records
    <3>1. ASSUME NEW k \in Jobs, job[k] # None, job[k].step # "record", NEW x \in {job[k].new, job[k].old} \ {None}
          PROVE  SameRowAs(x) /\ x.id \in Records
      BY <3>1, HeldAreCopies, CopyTypes DEF SameRow, Held, Busy, Instance
    <3> QED BY <3>1
  <2>4. job[j].step # "record" /\ SameRowAs(job[j].new)
    BY <2>1, <2>3 DEF IsMaker, MakingSteps
  <2>5. CASE db' = db /\ ~FinishBackup(j)
    <3>1. /\ job'[j].new.id = job[j].new.id /\ job'[j].new.row.stamp = job[j].new.row.stamp
          /\ job'[j].new.row.enc = job[j].new.row.enc /\ job'[j].new.row.sum = job[j].new.row.sum
          /\ job'[j].old = job[j].old
      BY <1>2, <2>5, OpenFacts, CloseFacts, EncryptFacts DEF Makes
    <3> SUFFICES ASSUME NEW k \in Jobs, job'[k] # None, job'[k].step # "record",
                        NEW x \in {job'[k].new, job'[k].old} \ {None}
                 PROVE  SameRowAs(x)'
      BY DEF SameRow, Held, Busy
    <3>2. CASE k = j /\ x = job'[j].new
      BY <2>2, <2>4, <2>5, <3>1, <3>2 DEF SameRowAs
    <3>3. CASE job[k] # None /\ job[k].step # "record" /\ x \in {job[k].new, job[k].old} \ {None}
      BY <2>2, <2>3, <2>5, <3>3 DEF SameRowAs
    <3>4. k # j => job'[k] = job[k]
      BY <2>1 DEF Others
    <3> QED BY <2>1, <2>4, <3>1, <3>2, <3>3, <3>4 DEF IsMaker
  <2>6. CASE FinishBackup(j)
    <3>1. PICK n \in Instance :
             /\ n # None /\ n.id = job[j].new.id /\ n.row \in Row
             /\ n.row.stamp = job[j].new.row.stamp /\ n.row.enc = job[j].new.row.enc
             /\ n.row.sum = disk[PathOf(job[j].new)].id
             /\ job'[j].new = n /\ job'[j].old \in {job[j].old, n}
             /\ db' = [db EXCEPT !.rows[n.id] = n.row]
      BY <2>6, FinishFacts
    <3>2. n.id \in Records /\ \A b \in Records : db'.rows[b] = IF b = n.id THEN n.row ELSE db.rows[b]
      BY <3>1 DEF BackupsTypeOK, Database, Instance
    <3>3. n.row # None /\ SameRowAs(n)'
      <4>1. n.row # None
        BY <3>1, NoneIsNothing
      <4> QED BY <3>2, <4>1 DEF SameRowAs
    <3>4. Alone(n.row.stamp) => n.row.sum # 0
      <4>1. job[j].step = "finish" /\ ~Missing(PathOf(job[j].new)) /\ j \in Making
        BY <2>6, FinishFacts DEF IsMaker, Making
      <4>2. ASSUME Alone(n.row.stamp) PROVE HasCopyOf(PathOf(job[j].new), job[j].new.id)
        BY <3>1, <4>1, <4>2 DEF MakersFile, MakersFileIs
      <4>3. \A k \in DOMAIN image : k # 0
        BY DEF BackupsTypeOK
      <4> QED BY <3>1, <4>2, <4>3 DEF HasCopyOf
    <3> SUFFICES ASSUME NEW k \in Jobs, job'[k] # None, job'[k].step # "record",
                        NEW x \in {job'[k].new, job'[k].old} \ {None}
                 PROVE  SameRowAs(x)'
      BY DEF SameRow, Held, Busy
    <3>5. CASE x = n
      BY <3>3, <3>5
    <3>6. CASE job[k] # None /\ job[k].step # "record" /\ x \in {job[k].new, job[k].old} \ {None}
      <4>1. SameRowAs(x) /\ x.id \in Records
        BY <2>3, <3>6
      <4>2. CASE x.id # n.id
        BY <2>2, <3>2, <4>1, <4>2 DEF SameRowAs
      <4>3. CASE x.id = n.id
        BY <2>2, <2>4, <3>1, <3>2, <3>3, <3>4, <4>1, <4>3 DEF SameRowAs
      <4> QED BY <4>2, <4>3
    <3>7. k # j => job'[k] = job[k]
      BY <2>1 DEF Others
    <3> QED BY <2>1, <2>4, <3>1, <3>5, <3>6, <3>7 DEF IsMaker
  <2>7. FinishBackup(j) \/ (db' = db /\ ~FinishBackup(j))
    BY <1>2, OpenFacts, CloseFacts, EncryptFacts DEF Makes
  <2> QED BY <2>5, <2>6, <2>7
<1>3. ASSUME NEW j \in Jobs, NEW enc \in Encrypted, Inserts(j, enc) PROVE SameRow'
  <2>1. /\ CountBackup /\ NewRow(enc) # None /\ NextRecord \in Records
        /\ \A c \in Records : db'.rows[c] = IF c = NextRecord THEN NewRow(enc) ELSE db.rows[c]
        /\ job'[j].new = Fresh(enc) /\ Fresh(enc).id = NextRecord /\ Fresh(enc).row = NewRow(enc) /\ Others(j)
        /\ job'[j].old = None \/ (job[j] # None /\ job[j].step = "safety" /\ job'[j].old = job[j].old)
    BY <1>3, InsertFacts DEF Inserts
  <2>2. \A s : Alone(s)' => Alone(s)
    BY <2>1, AloneAfter
  <2>3. db.rows[NextRecord] = None
    <3>0. Len(begun) \in Nat
      BY DEF BackupsTypeOK
    <3>1. PICK n \in 0 .. Len(begun) : Existing(db.rows) = 1 .. n
      BY DEF Segments, UpToOne
    <3>2. NextRecord = n + 1
      BY <2>1, <3>0, <3>1, NextRecordIs DEF CountBackup
    <3> QED BY <2>1, <3>0, <3>1, <3>2 DEF Existing
  <2> SUFFICES ASSUME NEW k \in Jobs, job'[k] # None, job'[k].step # "record",
                      NEW x \in {job'[k].new, job'[k].old} \ {None}
               PROVE  SameRowAs(x)'
    BY DEF SameRow, Held, Busy
  <2>4. CASE x = Fresh(enc)
    BY <2>1, <2>4 DEF SameRowAs
  <2>5. CASE job[k] # None /\ job[k].step # "record" /\ x \in {job[k].new, job[k].old} \ {None}
    <3>1. SameRowAs(x) /\ x.id \in Records
      BY <2>5, HeldAreCopies, CopyTypes DEF SameRow, Held, Busy, Instance
    <3> QED BY <2>1, <2>2, <2>3, <3>1 DEF SameRowAs
  <2> QED BY <2>1, <2>4, <2>5 DEF Others
<1> QED BY <1>1, <1>2, <1>3

\* A copy of record b in archive f is not lost by archives made later.
LEMMA CopyStays ==
  ASSUME BackupsTypeOK, image' = image \/ image' = Append(image, db), NEW f, NEW b,
         disk'[f] # None, HasCopyOf(f, b), disk'[f].is = disk[f].is, disk'[f].id = disk[f].id
  PROVE  HasCopyOf(f, b)'
<1>1. image \in Seq(Database)
  BY DEF BackupsTypeOK
<1>2. \A k \in DOMAIN image : k \in DOMAIN image' /\ image'[k] = image[k]
  <2>1. CASE image' = image
    BY <2>1
  <2>2. CASE image' = Append(image, db)
    BY <1>1, <2>2
  <2> QED BY <2>1, <2>2
<1> QED BY <1>2 DEF HasCopyOf, Missing

\* A maker that stands still keeps its file, if the file is kept or removed.
LEMMA MakerStands ==
  ASSUME BackupsTypeOK, MakersFile, image' = image \/ image' = Append(image, db),
         NEW k \in Jobs, job[k] # None, job[k].step \in MakingSteps, Alone(job[k].new.row.stamp),
         NEW s, s = job[k].step, NEW i, i = job[k].new, disk'[PathOf(i)] \in {None, disk[PathOf(i)]}
  PROVE  MakersFileIs(s, i)'
<1>1. MakersFileIs(s, i)
  BY DEF MakersFile, Making, Busy
<1>2. CASE disk'[PathOf(i)] = None
  BY <1>2 DEF MakersFileIs, Missing
<1>3. CASE disk'[PathOf(i)] = disk[PathOf(i)] /\ disk[PathOf(i)] # None
  <2>1. HasCopyOf(PathOf(i), i.id) => HasCopyOf(PathOf(i), i.id)'
    BY <1>3, CopyStays
  <2> QED BY <1>1, <1>3, <2>1 DEF MakersFileIs, Missing
<1> QED BY <1>2, <1>3

\* MakersFile is kept: nobody else writes the file of a backup alone in its second.
LEMMA MakersFileStep ==
  ASSUME BackupAssumption, BackupsTypeOK, JobsSound, FilesSound, CopiesBegun, OneMaker, SameRow, MakersFile,
         ~mixed,
         \/ Going
         \/ \E j \in Jobs : Makes(j)
         \/ \E j \in Jobs, enc \in Encrypted : Inserts(j, enc)
  PROVE  MakersFile'
<1> SUFFICES ASSUME NEW k \in Jobs, job'[k] # None, job'[k].step \in MakingSteps,
                    NEW s, s = job'[k].step, NEW i, i = job'[k].new, Alone(i.row.stamp)'
             PROVE  MakersFileIs(s, i)'
  BY DEF MakersFile, Making, Busy
<1>1. CASE Going
  <2>1. job'[k] = job[k] /\ image' = image
    BY <1>1 DEF Going, JobsGoOn
  <2>2. IsMaker(k) /\ Alone(i.row.stamp)
    BY <1>1, <2>1, MakerHas DEF Going, Alone
  <2>3. disk'[PathOf(i)] \in {None, disk[PathOf(i)]}
    <3>1. PathOf(i) \in Files /\ PathOf(i)[2] # "verify" /\ PathOf(i)[1] = i.row.stamp
      BY <2>1, <2>2 DEF IsMaker, PathOf, Row
    <3>2. i \in Held(k)
      BY <2>1, <2>2 DEF Held, IsMaker
    <3> QED BY <1>1, <2>2, <3>1, <3>2 DEF Going, FilesKept, IsMaker
  <2> QED BY <2>1, <2>2, <2>3, MakerStands DEF IsMaker
<1>2. ASSUME NEW j \in Jobs, Makes(j) PROVE MakersFileIs(s, i)'
  <2>1. /\ IsMaker(j) /\ Others(j) /\ begun' = begun
        /\ image' = image \/ image' = Append(image, db)
    BY <1>2, OpenFacts, CloseFacts, EncryptFacts, FinishFacts DEF Makes
  <2>2. Alone(i.row.stamp)
    BY <2>1 DEF Alone
  <2>3. CASE k # j
    <3>1. job'[k] = job[k]
      BY <2>1, <2>3 DEF Others
    <3>2. IsMaker(k)
      BY <3>1, MakerHas
    <3>3. job[j].new.row.stamp # i.row.stamp
      BY <2>1, <2>2, <2>3, <3>1, <3>2 DEF OneMaker, IsMaker
    <3>4. disk'[PathOf(i)] = disk[PathOf(i)]
      <4>1. /\ PathOf(i) \in Files /\ PathOf(i) # PathOf(job[j].new)
            /\ PathOf(i) # <<job[j].new.row.stamp, "enc">>
        BY <3>1, <3>2, <3>3 DEF IsMaker, PathOf
      <4>2. CASE OpenArchive(j)
        BY <4>1, <4>2, OpenFacts DEF BackupsTypeOK
      <4>3. CASE CloseArchive(j)
        BY <4>1, <4>3, CloseFacts DEF BackupsTypeOK
      <4>4. CASE Encrypt(j)
        BY <4>1, <4>4, EncryptFacts DEF BackupsTypeOK
      <4>5. CASE FinishBackup(j)
        BY <4>1, <4>5, FinishFacts
      <4> QED BY <1>2, <4>2, <4>3, <4>4, <4>5 DEF Makes
    <3> QED BY <2>1, <2>2, <3>1, <3>2, <3>4, MakerStands DEF IsMaker
  <2>4. CASE k = j /\ OpenArchive(j)
    <3>1. /\ s = "close" /\ i = job[j].new /\ disk' = [disk EXCEPT ![PathOf(job[j].new)] = Begun]
      BY <2>4, OpenFacts
    <3>2. disk'[PathOf(i)] = Begun
      BY <2>1, <3>1 DEF IsMaker, BackupsTypeOK
    <3> QED BY <3>1, <3>2 DEF MakersFileIs, Begun
  <2>5. CASE k = j /\ CloseArchive(j)
    <3>1. /\ job[j].step = "close" /\ s \in {"encrypt", "finish"} /\ i = job[j].new
          /\ image' = Append(image, db) /\ Len(image') = Len(image) + 1
      BY <2>5, CloseFacts
    <3>2. PICK c \in {[id |-> Len(image'), is |-> "whole", plain |-> TRUE], Begun} :
              /\ c = Begun => \E l \in Busy \ {j} : On(l, "close") /\ PathOf(job[l].new) = PathOf(job[j].new)
              /\ disk' = [disk EXCEPT ![PathOf(job[j].new)] = c]
      BY <2>5, CloseFacts
    <3>3. c # Begun
      <4> SUFFICES ASSUME NEW l \in Busy \ {j}, On(l, "close"), PathOf(job[l].new) = PathOf(job[j].new)
                   PROVE FALSE
        BY <3>2
      <4>1. IsMaker(l)
        BY MakerHas DEF On, Busy, MakingSteps
      <4>2. job[l].new.row.stamp = job[j].new.row.stamp
        BY DEF PathOf
      <4> QED BY <2>1, <2>2, <3>1, <4>1, <4>2 DEF OneMaker, IsMaker
    <3>4. disk'[PathOf(i)] = [id |-> Len(image'), is |-> "whole", plain |-> TRUE]
      BY <2>1, <3>1, <3>2, <3>3 DEF IsMaker, BackupsTypeOK
    <3>5. disk'[PathOf(i)] # None /\ disk'[PathOf(i)].is = "whole" /\ disk'[PathOf(i)].id = Len(image')
      <4>1. Len(image') \in Nat
        BY <3>1 DEF BackupsTypeOK
      <4> DEFINE r == [id |-> Len(image'), is |-> "whole", plain |-> TRUE]
      <4>2. r \in Content /\ r.is = "whole" /\ r.id = Len(image') /\ disk'[PathOf(i)] = r
        BY <3>4, <4>1 DEF Content
      <4> HIDE DEF r
      <4> QED BY <4>2, NoneIsNothing
    <3>6. Len(image') \in DOMAIN image' /\ image'[Len(image')] = db
      BY <3>1 DEF BackupsTypeOK
    <3>7. db.rows[i.id] # None
      BY <2>1, <3>1 DEF SameRow, SameRowAs, IsMaker, Held, MakingSteps
    <3>8. HasCopyOf(PathOf(i), i.id)'
      BY <3>5, <3>6, <3>7 DEF HasCopyOf, Missing
    <3> QED BY <3>1, <3>8 DEF MakersFileIs
  <2>6. CASE k = j /\ Encrypt(j)
    <3> DEFINE p == PathOf(job[j].new)
               q == <<job[j].new.row.stamp, "enc">>
               c == [disk[p] EXCEPT !.plain = FALSE]
    <3>1. /\ job[j].step = "encrypt" /\ s = "finish" /\ i.id = job[j].new.id /\ PathOf(i) = q
          /\ i.row.stamp = job[j].new.row.stamp /\ ~Missing(p) /\ p # q
          /\ disk' = [disk EXCEPT ![q] = c, ![p] = None] /\ image' = image
      BY <2>6, EncryptFacts DEF PathOf
    <3>2. HasCopyOf(p, i.id)
      <4>1. MakersFileIs("encrypt", job[j].new)
        BY <2>1, <2>2, <3>1 DEF MakersFile, Making, IsMaker
      <4> QED BY <3>1, <4>1 DEF MakersFileIs
    <3>3. c \in Content /\ c.is = disk[p].is /\ c.id = disk[p].id
      <4>1. disk[p] \in Content
        BY <2>1, <3>1 DEF IsMaker, Missing, BackupsTypeOK
      <4> QED BY <4>1 DEF Content
    <3> HIDE DEF c
    <3>4. disk'[q] = c /\ c # None
      <4>1. q \in Files
        BY <2>1 DEF IsMaker, Row, Files
      <4> QED BY <3>1, <3>3, <4>1, NoneIsNothing DEF BackupsTypeOK
    <3>5. /\ disk'[PathOf(i)] # None /\ disk'[PathOf(i)].is = disk[p].is
          /\ disk'[PathOf(i)].id = disk[p].id
      BY <3>1, <3>3, <3>4
    <3>6. HasCopyOf(PathOf(i), i.id)'
      BY <3>1, <3>2, <3>5 DEF HasCopyOf, Missing
    <3> QED BY <3>1, <3>6 DEF MakersFileIs
  <2>7. CASE k = j /\ FinishBackup(j)
    <3>1. job'[j].step \in {"copy", "check", "list"}
      BY <2>7, FinishFacts
    <3> QED BY <2>7, <3>1 DEF MakingSteps
  <2> QED BY <1>2, <2>3, <2>4, <2>5, <2>6, <2>7 DEF Makes
<1>3. ASSUME NEW j \in Jobs, NEW enc \in Encrypted, Inserts(j, enc) PROVE MakersFileIs(s, i)'
  <2>1. /\ CountBackup /\ disk' = disk /\ image' = image
        /\ job'[j].new = Fresh(enc) /\ Fresh(enc).row = NewRow(enc) /\ Fresh(enc) \in Instance /\ Others(j)
    BY <1>3, InsertFacts DEF Inserts
  <2>2. Alone(i.row.stamp) /\ (i.row.stamp = clock => clock \notin Seen)
    BY <2>1, AloneAfter
  <2>3. CASE k = j
    <3>1. PathOf(i) = <<clock, "zip">> /\ i.row.stamp = clock /\ PathOf(i) \in Files
      BY <2>1, <2>3 DEF NewRow, PathOf, Instance, Row, Files
    <3>2. Missing(PathOf(i))
      BY <2>2, <3>1 DEF FilesSound, Missing
    <3> QED BY <2>1, <3>2 DEF MakersFileIs, Missing
  <2>4. CASE k # j
    <3>1. job'[k] = job[k]
      BY <2>1, <2>4 DEF Others
    <3> QED BY <2>1, <2>2, <3>1, MakerStands
  <2> QED BY <2>3, <2>4
<1> QED BY <1>1, <1>2, <1>3

\* A sound row stays sound if its archive stays, is retired or damaged, and none
\* of its second starts to make one.
LEMMA RowStays ==
  ASSUME BackupsTypeOK, NEW row \in Row, SoundRow(row), retired \subseteq retired',
         LET f == <<row.stamp, row.ext>> IN
           \/ disk'[f] = disk[f]
           \/ disk'[f] = None /\ f \in retired'
           \/ disk'[f] # None /\ disk'[f].is = "damaged",
         \A k \in Jobs : job'[k] # None /\ job'[k].step \in MakingSteps /\ job'[k].new.row.stamp = row.stamp =>
            /\ job[k] # None /\ job[k].step \in MakingSteps /\ job[k].new.row.stamp = row.stamp
            /\ job'[k].step = job[k].step
  PROVE  SoundRow(row)'
<1>1. Archived(row) => Archived(row)'
  BY DEF Archived, Missing
<1>2. \A k \in MakersOf(row.stamp)' : k \in MakersOf(row.stamp) /\ job'[k].step = job[k].step
  BY DEF MakersOf, Making, Busy
<1> QED BY <1>1, <1>2 DEF SoundRow

LEMMA SettledAre ==
  ASSUME BackupsTypeOK
  PROVE  /\ Settled \ {None} \subseteq Copies
         /\ \A x \in Settled \ {None} : x \in Instance /\ x.row \in Row
         /\ \A b \in Existing(db.rows) : [id |-> b, row |-> db.rows[b]] \in Settled \ {None}
         /\ \A k \in Jobs : job[k] # None => job[k].old \in Settled
<1>1. Settled \ {None} \subseteq Copies
  BY DEF Settled, Copies, Held, Making
<1>2. \A x \in Settled \ {None} : x \in Instance /\ x.row \in Row
  BY <1>1, CopyTypes DEF Instance
<1>3. ASSUME NEW b \in Existing(db.rows) PROVE [id |-> b, row |-> db.rows[b]] \in Settled \ {None}
  <2>1. [id |-> b, row |-> db.rows[b]] \in Copies /\ [id |-> b, row |-> db.rows[b]] \in Settled
    BY CopyIsKnown DEF Settled, Stored
  <2> QED BY <2>1, CopyTypes
<1> QED BY <1>1, <1>2, <1>3 DEF Settled, Busy

\* Status apart, a row that differs in nothing else is as sound.
LEMMA SoundAkin ==
  ASSUME NEW r, NEW q, SoundRow(r), q.stamp = r.stamp, q.enc = r.enc, q.ext = r.ext, q.sum = r.sum,
         q.status \in {r.status, "failed", "corrupt"} \/ r.sum # 0
  PROVE  SoundRow(q)
BY DEF SoundRow, Archived

\* What a verification finds whole is sound, also where no sum is recorded yet.
LEMMA VerifiedIsSound ==
  ASSUME BackupAssumption, BackupsTypeOK, JobsSound, OneOrigin, SameRow, MakersFile, SettledSound, Passed,
         NEW j \in Jobs, Verifies(j), NEW q, LET r == db.rows[job[j].old.id] IN
            q.stamp = r.stamp /\ q.enc = r.enc /\ q.ext = r.ext /\ q.sum = r.sum,
         Alone(q.stamp)
  PROVE  SoundRow(q)
<1> DEFINE i == job[j].old
           r == db.rows[i.id]
<1>1. /\ job[j] # None /\ job[j].step = "read" /\ i # None /\ i \in Held(j) /\ i \in Settled
      /\ i \in Instance /\ i.id \in Records /\ j \in Busy /\ i \in Copies /\ i.row \in Row
  <2>1. job[j] # None /\ job[j].step = "read" /\ j \in Busy
    BY DEF Verifies, On, Busy
  <2>2. i # None
    BY <2>1 DEF JobsSound, SoundJob
  <2> QED BY <2>1, <2>2, JobTypes, HeldAreCopies, SettledAre DEF Held
<1>2. r # None /\ r.stamp = i.row.stamp /\ r.enc = i.row.enc /\ (Alone(i.row.stamp) /\ i.row.sum # 0 => r.sum # 0)
  BY <1>1 DEF SameRow, SameRowAs
<1>3. SoundRow(r) /\ SoundRow(i.row)
  <2>1. [id |-> i.id, row |-> r] \in Settled \ {None}
    BY <1>1, <1>2, SettledAre DEF Existing
  <2> QED BY <1>1, <1>2, <2>1 DEF SettledSound
<1>4. CASE r.sum # 0
  BY <1>3, <1>4, SoundAkin
<1>5. CASE r.sum = 0
  <2>1. i.row.sum = 0 /\ ~i.row.enc /\ i.row.ext = "zip" /\ r.ext = "zip"
    <3>1. PassedJob(job[j])
      BY <1>1 DEF Passed
    <3> QED BY <1>1, <1>2, <1>3, <1>5, <3>1 DEF PassedJob, SoundRow, ReadingSteps
  <2> DEFINE f == <<i.row.stamp, "zip">>
  <2>2. ~Missing(f) /\ disk[f].is = "whole"
    BY <2>1 DEF Verifies, Source, PathOf
  <2>3. Archived(q)
    BY <1>2, <1>5, <2>1, <2>2 DEF Archived
  <2>4. ASSUME NEW k \in MakersOf(q.stamp) PROVE job[k].step = "finish"
    <3>1. IsMaker(k) /\ job[k].new.row.stamp = i.row.stamp /\ k \in Making
      BY <1>2, <2>4, MakerHas DEF MakersOf, Making, Busy
    <3>2. ~job[k].new.row.enc
      <4>1. job[k].new \in Copies
        BY <3>1, HeldAreCopies DEF IsMaker, Held, Busy
      <4> QED BY <1>1, <1>2, <2>1, <3>1, <4>1 DEF OneOrigin
    <3>3. PathOf(job[k].new) = f /\ job[k].step # "encrypt"
      BY <3>1, <3>2 DEF JobsSound, SoundJob, IsMaker, PathOf
    <3>4. MakersFileIs(job[k].step, job[k].new)
      BY <1>2, <3>1 DEF MakersFile
    <3> QED BY <2>2, <3>3, <3>4 DEF MakersFileIs
  <2> QED BY <1>2, <1>5, <2>1, <2>3, <2>4 DEF SoundRow
<1> QED BY <1>4, <1>5

LEMMA GoingSettled ==
  ASSUME BackupAssumption, BackupsTypeOK, JobsSound, OneOrigin, SameRow, MakersFile, SettledSound, Passed,
         Going, NEW x \in Settled', x # None, Alone(x.row.stamp)
  PROVE  SoundRow(x.row)
<1>1. ASSUME NEW y \in Settled, y # None, y.row.stamp = x.row.stamp PROVE SoundRow(y.row)
  BY <1>1 DEF SettledSound
<1>2. CASE x \in Stored(db')
  <2>1. PICK b \in Existing(db'.rows) : x = [id |-> b, row |-> db'.rows[b]]
    BY <1>2 DEF Stored
  <2>2. ASSUME NEW V, RowsKept(db, db', V), b \notin V PROVE SoundRow(x.row)
    <3>1. /\ b \in Existing(db.rows)
          /\ LET r == db.rows[b]
                 q == db'.rows[b] IN
             /\ q.stamp = r.stamp /\ q.enc = r.enc /\ q.ext = r.ext /\ q.sum = r.sum
             /\ q.status \in {r.status, "failed", "corrupt"}
      BY <2>2 DEF RowsKept, Existing
    <3>2. SoundRow(db.rows[b])
      <4>1. [id |-> b, row |-> db.rows[b]] \in Settled \ {None}
        BY <3>1, SettledAre
      <4> QED BY <1>1, <2>1, <3>1, <4>1
    <3> QED BY <2>1, <3>1, <3>2, SoundAkin
  <2>3. ASSUME NEW j \in Jobs, Verifies(j), b = job[j].old.id PROVE SoundRow(x.row)
    <3>1. LET r == db.rows[b]
              q == db'.rows[b] IN
          q.stamp = r.stamp /\ q.enc = r.enc /\ q.ext = r.ext /\ q.sum = r.sum
      BY <2>3 DEF Verifies, RowsKept, Existing
    <3> QED BY <2>1, <2>3, <3>1, VerifiedIsSound
  <2>4. ASSUME NEW j \in Jobs, TakesBack(j) PROVE SoundRow(x.row)
    <3>1. x \in Settled
      BY <1>2, <2>4 DEF TakesBack, Settled, Archives
    <3> QED BY <1>1, <3>1
  <2>5. RowsKept(db, db', {}) => SoundRow(x.row)
    BY <2>2
  <2>6. \A j \in Jobs : Verifies(j) => RowsKept(db, db', {job[j].old.id})
    BY DEF Verifies
  <2> QED BY <2>2, <2>3, <2>4, <2>5, <2>6 DEF Going
<1>3. CASE x \in Archives'
  <2>1. x \in Settled
    BY <1>3 DEF Going, Archives, Settled
  <2> QED BY <1>1, <2>1
<1>4. CASE \E k \in Busy' : x = job'[k].old \/ (x = job'[k].new /\ k \notin Making')
  <2>1. x \in Settled
    <3>1. PICK k \in Jobs : /\ job'[k] # None
                            /\ x = job'[k].old \/ (x = job'[k].new /\ job'[k].step \notin MakingSteps)
      BY <1>4 DEF Busy, Making
    <3>2. \/ job[k] # None /\ (x = job[k].old \/ (x = job[k].new /\ job[k].step \notin MakingSteps))
          \/ x \in Stored(db)
      BY <3>1 DEF Going, JobsGoOn
    <3> QED BY <3>2 DEF Settled, Busy, Making
  <2> QED BY <1>1, <2>1
<1> QED BY <1>2, <1>3, <1>4 DEF Settled

LEMMA GoingRow ==
  ASSUME BackupsTypeOK, JobsSound, NEW row \in Row, SoundRow(row), Going
  PROVE  SoundRow(row)'
<1>1. /\ retired \subseteq retired'
      /\ LET f == <<row.stamp, row.ext>> IN
           \/ disk'[f] = disk[f]
           \/ disk'[f] = None /\ f \in retired'
           \/ disk'[f] # None /\ disk'[f].is = "damaged"
  <2>1. <<row.stamp, row.ext>> \in Files /\ row.ext # "verify"
    BY DEF Row, Files
  <2> QED BY <2>1 DEF Going, FilesKept
<1>2. \A k \in Jobs : job'[k] # None /\ job'[k].step \in MakingSteps => job'[k] = job[k]
  BY DEF Going, JobsGoOn
<1> QED BY <1>1, <1>2, RowStays

LEMMA MakesRow ==
  ASSUME BackupsTypeOK, JobsSound, NEW row \in Row, SoundRow(row), NEW j \in Jobs, Makes(j)
  PROVE  SoundRow(row)'
<1>1. IsMaker(j) /\ Others(j) /\ retired' = retired
  BY OpenFacts, CloseFacts, EncryptFacts, FinishFacts DEF Makes
<1>2. CASE job[j].new.row.stamp # row.stamp \/ FinishBackup(j)
  <2>1. disk'[<<row.stamp, row.ext>>] = disk[<<row.stamp, row.ext>>]
    <3>1. CASE FinishBackup(j)
      BY <3>1, FinishFacts
    <3>2. CASE job[j].new.row.stamp # row.stamp
      <4>1. /\ <<row.stamp, row.ext>> # PathOf(job[j].new) /\ <<row.stamp, row.ext>> \in Files
            /\ <<row.stamp, row.ext>> # <<job[j].new.row.stamp, "enc">>
        BY <3>2 DEF PathOf, Row, Files
      <4>2. CASE OpenArchive(j)
        BY <4>1, <4>2, OpenFacts DEF BackupsTypeOK
      <4>3. CASE CloseArchive(j)
        BY <4>1, <4>3, CloseFacts DEF BackupsTypeOK
      <4>4. CASE Encrypt(j)
        BY <4>1, <4>4, EncryptFacts DEF BackupsTypeOK
      <4> QED BY <3>1, <4>2, <4>3, <4>4 DEF Makes
    <3> QED BY <1>2, <3>1, <3>2
  <2>2. ASSUME NEW k \in Jobs, job'[k] # None, job'[k].step \in MakingSteps, job'[k].new.row.stamp = row.stamp
        PROVE  job'[k] = job[k]
    <3>1. CASE k # j
      BY <1>1, <3>1 DEF Others
    <3>2. CASE k = j /\ FinishBackup(j)
      <4>1. job'[j].step \in {"copy", "check", "list"}
        BY <3>2, FinishFacts
      <4> QED BY <2>2, <3>2, <4>1 DEF MakingSteps
    <3>3. CASE k = j /\ ~FinishBackup(j)
      <4>1. job'[j].new.row.stamp = job[j].new.row.stamp
        BY <3>3, OpenFacts, CloseFacts, EncryptFacts DEF Makes
      <4> QED BY <1>2, <2>2, <3>3, <4>1
    <3> QED BY <3>1, <3>2, <3>3
  <2> QED BY <1>1, <2>1, <2>2, RowStays
<1>3. CASE job[j].new.row.stamp = row.stamp /\ ~FinishBackup(j)
  <2>1. j \in MakersOf(row.stamp) /\ job[j].step # "finish"
    BY <1>1, <1>3, OpenFacts, CloseFacts, EncryptFacts DEF Makes, MakersOf, Making, IsMaker
  <2>2. row.sum = 0 /\ row.ext = "zip" /\ row.status \notin {"success", "verified"}
    BY <2>1 DEF SoundRow
  <2> QED BY <2>2 DEF SoundRow
<1> QED BY <1>2, <1>3

LEMMA InsertsRow ==
  ASSUME BackupAssumption, BackupsTypeOK, CopiesBegun, NEW row \in Row, SoundRow(row), row.stamp # clock,
         NEW j \in Jobs, NEW enc \in Encrypted, Inserts(j, enc)
  PROVE  SoundRow(row)'
<1>1. /\ Others(j) /\ disk' = disk /\ retired' = retired
      /\ job'[j].new = Fresh(enc) /\ Fresh(enc).row = NewRow(enc)
  BY InsertFacts DEF Inserts
<1>2. job'[j].new.row.stamp = clock
  BY <1>1 DEF NewRow
<1> QED BY <1>1, <1>2, RowStays DEF Others

LEMMA SettledTypes ==
  ASSUME BackupsTypeOK', NEW x \in Settled', x # None
  PROVE  x.row \in Row
<1>1. \A d \in Database : Stored(d) \subseteq Instance
  BY DEF Stored, Existing, Database, Instance
<1>2. Stored(db') \subseteq Instance /\ Archives' \subseteq Instance
  BY <1>1 DEF BackupsTypeOK, Archives
<1>3. \A j \in Jobs : job'[j] # None => job'[j].new \in Instance \cup {None} /\ job'[j].old \in Instance \cup {None}
  <2>1. \A j \in Jobs : job'[j] \in Job \cup {None}
    BY DEF BackupsTypeOK
  <2> QED BY <2>1 DEF Job
<1> QED BY <1>2, <1>3 DEF Settled, Busy, Making, Instance

\* SettledSound is kept: an instance leaves the making with its archive whole.
LEMMA SettledStep ==
  ASSUME BackupAssumption, BackupsTypeOK, BackupsTypeOK', JobsSound, CopiesBegun, OneOrigin, OneMaker,
         SameRow, MakersFile, SettledSound, Passed,
         \/ Going
         \/ \E j \in Jobs : Makes(j)
         \/ \E j \in Jobs, enc \in Encrypted : Inserts(j, enc)
  PROVE  SettledSound'
<1> SUFFICES ASSUME NEW x \in Settled', x # None, NEW row, row = x.row, Alone(row.stamp)'
             PROVE  SoundRow(row)'
  BY DEF SettledSound
<1>0. row \in Row
  BY SettledTypes
<1>1. ASSUME x \in Settled, Alone(row.stamp) PROVE SoundRow(row) /\ row.stamp \in Seen
  BY <1>1, SettledAre DEF SettledSound, CopiesBegun
<1>2. CASE Going
  <2>1. Alone(row.stamp)
    BY <1>2 DEF Going, Alone
  <2>2. SoundRow(row)
    BY <1>2, <2>1, GoingSettled
  <2> QED BY <1>0, <1>2, <2>2, GoingRow
<1>3. ASSUME NEW j \in Jobs, Makes(j) PROVE SoundRow(row)'
  <2>1. /\ IsMaker(j) /\ Others(j) /\ begun' = begun /\ retired' = retired
        /\ image' = image \/ image' = Append(image, db)
    BY <1>3, OpenFacts, CloseFacts, EncryptFacts, FinishFacts DEF Makes
  <2>2. Alone(row.stamp)
    BY <2>1 DEF Alone
  <2>3. CASE x \in Settled
    BY <1>0, <1>1, <1>3, <2>2, <2>3, MakesRow
  <2>4. x \in Archives' => x \in Settled
    <3>1. image \in Seq(Database)
      BY DEF BackupsTypeOK
    <3>2. \A k \in DOMAIN image' : image'[k] = db \/ (k \in DOMAIN image /\ image'[k] = image[k])
      <4>1. CASE image' = image
        BY <4>1
      <4>2. CASE image' = Append(image, db)
        BY <3>1, <4>2
      <4> QED BY <2>1, <4>1, <4>2
    <3> QED BY <3>2 DEF Archives, Settled
  <2>5. \A k \in Jobs : k # j /\ job'[k] # None
                   /\ (x = job'[k].old \/ (x = job'[k].new /\ job'[k].step \notin MakingSteps))
            => x \in Settled
    BY <2>1 DEF Others, Settled, Busy, Making
  <2>6. CASE ~FinishBackup(j)
    <3>1. db' = db /\ job'[j].old = job[j].old /\ job'[j].step \in MakingSteps
      BY <1>3, <2>6, OpenFacts, CloseFacts, EncryptFacts DEF Makes, MakingSteps
    <3>2. x = job'[j].old => x \in Settled
      BY <2>1, <3>1, SettledAre DEF IsMaker
    <3>3. x \in Stored(db') => x \in Settled
      BY <3>1 DEF Settled
    <3>4. x \in Settled
      BY <2>4, <2>5, <3>1, <3>2, <3>3 DEF Settled, Busy, Making
    <3> QED BY <2>3, <3>4
  <2>7. CASE FinishBackup(j)
    <3>1. PICK n \in Instance :
             /\ n # None /\ n.row \in Row /\ n.id = job[j].new.id
             /\ n.row.stamp = job[j].new.row.stamp /\ n.row.enc = job[j].new.row.enc
             /\ n.row.ext = job[j].new.row.ext /\ n.row.sum = disk[PathOf(job[j].new)].id
             /\ job'[j].new = n /\ job'[j].old \in {job[j].old, n}
             /\ db' = [db EXCEPT !.rows[n.id] = n.row]
      BY <2>7, FinishFacts
    <3>2. x \in Settled \/ row = n.row
      <4>1. x \in Stored(db') => x \in Settled \/ row = n.row
        <5>1. ASSUME NEW b \in Existing(db'.rows), x = [id |-> b, row |-> db'.rows[b]]
              PROVE  x \in Settled \/ row = n.row
          <6>1. db'.rows[b] = IF b = n.id THEN n.row ELSE db.rows[b]
            BY <3>1, <5>1 DEF BackupsTypeOK, Database, Existing
          <6>2. CASE b = n.id
            BY <5>1, <6>1, <6>2
          <6>3. CASE b # n.id
            BY <5>1, <6>1, <6>3, SettledAre DEF Existing
          <6> QED BY <6>2, <6>3
        <5> QED BY <5>1 DEF Stored
      <4>2. x \in {job'[j].new, job'[j].old} => x \in Settled \/ row = n.row
        BY <2>1, <3>1, SettledAre DEF IsMaker
      <4> QED BY <2>4, <2>5, <4>1, <4>2 DEF Settled, Busy, Making
    <3>3. CASE row = n.row
      <4> DEFINE f == PathOf(job[j].new)
      <4>1. job[j].step = "finish" /\ ~Missing(f) /\ disk' = disk /\ j \in Making
        BY <2>7, FinishFacts DEF IsMaker, Making
      <4>2. disk[f].is = "whole" /\ disk[f].id \in DOMAIN image
        <5>1. MakersFileIs("finish", job[j].new)
          BY <2>2, <3>1, <3>3, <4>1 DEF MakersFile
        <5> QED BY <4>1, <5>1 DEF MakersFileIs, HasCopyOf
      <4>3. row.sum # 0 /\ row.ext = IF row.enc THEN "enc" ELSE "zip"
        <5>1. \A k \in DOMAIN image : k # 0
          BY DEF BackupsTypeOK
        <5> QED BY <2>1, <3>1, <3>3, <4>1, <4>2, <5>1 DEF JobsSound, SoundJob, IsMaker, MakingSteps
      <4>4. Archived(row)'
        BY <3>1, <3>3, <4>1, <4>2 DEF Archived, Missing, PathOf
      <4>5. ASSUME NEW k \in Jobs, job'[k] # None, job'[k].step \in MakingSteps, job'[k].new.row.stamp = row.stamp
            PROVE  FALSE
        <5>1. job'[j].step \in {"copy", "check", "list"}
          BY <2>7, FinishFacts
        <5>2. k # j /\ job'[k] = job[k]
          BY <2>1, <4>5, <5>1 DEF Others, MakingSteps
        <5>3. IsMaker(k)
          BY <4>5, <5>2, MakerHas
        <5> QED BY <2>1, <2>2, <3>1, <3>3, <4>5, <5>2, <5>3 DEF OneMaker, IsMaker
      <4>6. MakersOf(row.stamp)' = {}
        BY <4>5 DEF MakersOf, Making, Busy
      <4> QED BY <4>3, <4>4, <4>6 DEF SoundRow
    <3> QED BY <2>3, <3>2, <3>3
  <2> QED BY <2>6, <2>7
<1>4. ASSUME NEW j \in Jobs, NEW enc \in Encrypted, Inserts(j, enc) PROVE SoundRow(row)'
  <2>1. /\ CountBackup /\ Others(j) /\ image' = image /\ NewRow(enc) \in Row
        /\ \A c \in Records : db'.rows[c] = IF c = NextRecord THEN NewRow(enc) ELSE db.rows[c]
        /\ job'[j].step = "write"
        /\ job'[j].old = None \/ (job[j] # None /\ job'[j].old = job[j].old)
    BY <1>4, InsertFacts DEF Inserts
  <2>2. Alone(row.stamp) /\ (row.stamp = clock => clock \notin Seen)
    BY <2>1, AloneAfter
  <2>3. x \in Settled \/ row = NewRow(enc)
    <3>1. x \in Stored(db') => x \in Settled \/ row = NewRow(enc)
      <4>1. ASSUME NEW b \in Existing(db'.rows), x = [id |-> b, row |-> db'.rows[b]]
            PROVE  x \in Settled \/ row = NewRow(enc)
        <5>1. db'.rows[b] = IF b = NextRecord THEN NewRow(enc) ELSE db.rows[b]
          BY <2>1, <4>1 DEF Existing
        <5> QED BY <4>1, <5>1, SettledAre DEF Existing
      <4> QED BY <4>1 DEF Stored
    <3>2. x \in Archives' => x \in Settled
      BY <2>1 DEF Archives, Settled
    <3>3. \A k \in Jobs : job'[k] # None /\ (x = job'[k].old \/ (x = job'[k].new /\ job'[k].step \notin MakingSteps))
            => x \in Settled
      <4>1. ASSUME NEW k \in Jobs, k # j, job'[k] # None,
                   x = job'[k].old \/ (x = job'[k].new /\ job'[k].step \notin MakingSteps)
            PROVE  x \in Settled
        BY <2>1, <4>1 DEF Others, Settled, Busy, Making
      <4>2. x = job'[j].old => x \in Settled
        BY <2>1, SettledAre
      <4>3. job'[j].step \in MakingSteps
        BY <2>1 DEF MakingSteps
      <4> QED BY <4>1, <4>2, <4>3
    <3> QED BY <3>1, <3>2, <3>3 DEF Settled, Busy, Making
  <2>4. CASE x \in Settled
    <3>1. SoundRow(row) /\ row.stamp # clock
      BY <1>1, <2>2, <2>4
    <3> QED BY <1>0, <1>4, <3>1, InsertsRow
  <2>5. CASE row = NewRow(enc)
    BY <2>5 DEF SoundRow, NewRow
  <2> QED BY <2>3, <2>4, <2>5
<1> QED BY <1>2, <1>3, <1>4

\* The only way to read on in an archive leads past the checks before.
ReadsOn(k) ==
  \/ job'[k] = job[k]
  \/ job'[k] # None => job'[k].step \notin ReadingSteps
  \/ LET f == PathOf(job[k].old) IN
     /\ job[k] # None /\ job'[k].old = job[k].old /\ disk'[f] = disk[f] /\ retired' = retired
     /\ \/ job[k].step = "check" /\ ~Missing(f) /\ ~WrongSum(job[k].old)
             /\ job'[k].step = IF job[k].old.row.enc THEN "decrypt" ELSE "read"
        \/ job[k].step = "decrypt" /\ ~Missing(f) /\ ~disk[f].plain /\ job'[k].step = "decrypted"
        \/ job[k].step = "decrypted" /\ job'[k].step = "read"

LEMMA ReadersReadOn ==
  ASSUME BackupsTypeOK, JobsSound, NEW j \in Jobs, Reads(j)
  PROVE  \A k \in Jobs : ReadsOn(k)
<1>0. PathOf(job[j].old) # TempOf(job[j].old) /\ retired' = retired /\ job[j] # None /\ PathOf(job[j].old) \in Files
  BY Reader
<1>1. \A c : Put(TempOf(job[j].old), c) => disk'[PathOf(job[j].old)] = disk[PathOf(job[j].old)]
  BY <1>0 DEF Put, BackupsTypeOK
<1>2. CASE Check(j)
  BY <1>0, <1>2, CheckFacts DEF ReadsOn, On, Others, ReadingSteps
<1>3. CASE BeginDecrypt(j)
  BY <1>0, <1>1, <1>3, BeginDecryptFacts DEF ReadsOn, On, Others, ReadingSteps, Missing
<1>4. CASE EndDecrypt(j)
  BY <1>0, <1>1, <1>4, EndDecryptFacts DEF ReadsOn, On, Others, ReadingSteps
<1>5. CASE ReadArchive(j)
  BY <1>5, ReadArchiveFacts DEF ReadsOn, Others, ReadingSteps
<1> QED BY <1>2, <1>3, <1>4, <1>5 DEF Reads

\* No other action leads into the reading of an archive.
LEMMA OthersReadOn ==
  ASSUME BackupAssumption, BackupsTypeOK, JobsSound, CopiesBegun, Otherwise
  PROVE  \A k \in Jobs : ReadsOn(k)
<1>1. ASSUME NEW j \in Jobs, Others(j), job'[j] # None => job'[j].step \notin ReadingSteps
      PROVE  \A k \in Jobs : ReadsOn(k)
  BY <1>1 DEF ReadsOn, Others
<1>2. ASSUME job' = job PROVE \A k \in Jobs : ReadsOn(k)
  BY <1>2 DEF ReadsOn
<1>3. ASSUME NEW j \in Jobs, BeginsToRead(j) PROVE \A k \in Jobs : ReadsOn(k)
  <2>1. job'[j].step = "check" /\ Others(j)
    BY <1>3, JobBegins
  <2> QED BY <1>1, <2>1 DEF ReadingSteps
<1>4. ASSUME NEW j \in Jobs, Makes(j) PROVE \A k \in Jobs : ReadsOn(k)
  <2>1. Others(j) /\ job'[j].step \in {"close", "encrypt", "finish", "copy", "check", "list"}
    <3>1. CASE OpenArchive(j)
      BY <3>1, OpenFacts
    <3>2. CASE CloseArchive(j)
      BY <3>2, CloseFacts
    <3>3. CASE Encrypt(j)
      BY <3>3, EncryptFacts
    <3>4. CASE FinishBackup(j)
      BY <3>4, FinishFacts
    <3> QED BY <1>4, <3>1, <3>2, <3>3, <3>4 DEF Makes
  <2> QED BY <1>1, <2>1 DEF ReadingSteps
<1>5. ASSUME NEW j \in Jobs, NEW enc \in Encrypted, Inserts(j, enc) PROVE \A k \in Jobs : ReadsOn(k)
  <2>1. Others(j) /\ job'[j].step = "write"
    BY <1>5, InsertFacts DEF Inserts
  <2> QED BY <1>1, <2>1 DEF ReadingSteps
<1>6. ASSUME NEW j \in Jobs, Ends(j) PROVE \A k \in Jobs : ReadsOn(k)
  BY <1>1, <1>6, JobEnds
<1>7. ASSUME NEW j \in Jobs, CopyOver(j) PROVE \A k \in Jobs : ReadsOn(k)
  <2>1. job'[j].step = "record" /\ Others(j)
    BY <1>7, StepFacts DEF CopyOver, On
  <2> QED BY <1>1, <2>1 DEF ReadingSteps
<1>8. ASSUME NEW j \in Jobs, Lists(j) PROVE \A k \in Jobs : ReadsOn(k)
  <2>1. job'[j].step = "delete" /\ Others(j)
    BY <1>8, JobLists
  <2> QED BY <1>1, <2>1 DEF ReadingSteps
<1>9. ASSUME Aside
      PROVE  \A k \in Jobs : ReadsOn(k)
  BY <1>2, <1>9 DEF FileRestore, Damage, Tick, Aside
<1> QED BY <1>3, <1>4, <1>5, <1>6, <1>7, <1>8, <1>9 DEF Otherwise

\* Passed is kept: the file that was checked does not change before it is read.
LEMMA PassedStep ==
  ASSUME BackupAssumption, BackupsTypeOK, JobsSound, FilesSound, CopiesBegun, OneMaker, SettledSound, Passed,
         \A k \in Jobs : ReadsOn(k),
         \/ Going
         \/ \E j \in Jobs : Makes(j)
         \/ \E j \in Jobs, enc \in Encrypted : Inserts(j, enc)
  PROVE  Passed'
<1> SUFFICES ASSUME NEW k \in Jobs, NEW m, m = job'[k], m # None, m.step \in ReadingSteps, Alone(m.old.row.stamp)'
             PROVE  PassedJob(m)'
  BY DEF Passed, PassedJob, ReadingSteps, Busy
<1>1. Alone(m.old.row.stamp)
  <2>1. ASSUME NEW j \in Jobs, NEW enc \in Encrypted, Inserts(j, enc) PROVE Alone(m.old.row.stamp)
    <3>1. CountBackup
      BY <2>1 DEF Inserts, BeginBackup, SafetyBackup
    <3> QED BY <3>1, AloneAfter
  <2>2. (\E j \in Jobs : Makes(j)) => begun' = begun
    BY OpenFacts, CloseFacts, EncryptFacts, FinishFacts DEF Makes
  <2> QED BY <2>1, <2>2 DEF Going, Alone
<1>2. ASSUME job[k] # None, m.old = job[k].old, job[k].step \in {"check"} \cup ReadingSteps
      PROVE  LET i == job[k].old
                 f == PathOf(i) IN
             /\ k \in Busy /\ i # None /\ i \in Settled /\ i \in Held(k) /\ f \in Files /\ f[2] \in {"zip", "enc"}
             /\ i.row \in Row /\ SoundRow(i.row) /\ SoundJob(job[k], DOMAIN image)
  <2>1. k \in Busy /\ SoundJob(job[k], DOMAIN image) /\ job[k].old # None
    BY <1>2 DEF Busy, JobsSound, SoundJob, ReadingSteps
  <2>2. job[k].old \in Settled /\ PathOf(job[k].old) \in Files /\ job[k].old.row \in Row
    BY <2>1, JobTypes, SettledAre DEF Busy
  <2>3. SoundRow(job[k].old.row)
    BY <1>1, <1>2, <2>1, <2>2 DEF SettledSound
  <2> QED BY <2>1, <2>2, <2>3 DEF Held, PathOf, Row
<1>3. CASE job'[k] = job[k]
  <2> DEFINE i == job[k].old
  <2>0. PICK f : f = PathOf(i)
    OBVIOUS
  <2>1. /\ k \in Busy /\ i # None /\ i \in Settled /\ i \in Held(k) /\ f \in Files /\ f[2] \in {"zip", "enc"}
        /\ i.row \in Row /\ SoundRow(i.row) /\ PassedJob(job[k])
    BY <1>2, <1>3, <2>0 DEF Passed
  <2>2. ASSUME i.row.sum # 0, WholeOrRetired(f) PROVE WholeOrRetired(f)'
    <3>1. CASE Going
      <4>1. retired \subseteq retired' /\ (disk'[f] = disk[f] \/ (disk'[f] = None /\ f \in retired'))
        BY <2>0, <2>1, <3>1 DEF Going, FilesKept, PathOf
      <4> QED BY <2>2, <4>1 DEF WholeOrRetired, Missing
    <3>2. ASSUME NEW j \in Jobs, Makes(j) PROVE WholeOrRetired(f)'
      <4>1. IsMaker(j) /\ retired' = retired
        BY <3>2, OpenFacts, CloseFacts, EncryptFacts, FinishFacts DEF Makes
      <4>2. job[j].new.row.stamp # i.row.stamp
        BY <2>1, <2>2, <4>1 DEF SoundRow, MakersOf, Making, IsMaker
      <4>3. f # PathOf(job[j].new) /\ f # <<job[j].new.row.stamp, "enc">>
        BY <2>0, <4>2 DEF PathOf
      <4>4. disk'[f] = disk[f]
        <5>1. CASE OpenArchive(j)
          BY <2>1, <4>3, <5>1, OpenFacts DEF BackupsTypeOK
        <5>2. CASE CloseArchive(j)
          BY <2>1, <4>3, <5>2, CloseFacts DEF BackupsTypeOK
        <5>3. CASE Encrypt(j)
          BY <2>1, <4>3, <5>3, EncryptFacts DEF BackupsTypeOK
        <5>4. CASE FinishBackup(j)
          BY <5>4, FinishFacts
        <5> QED BY <3>2, <5>1, <5>2, <5>3, <5>4 DEF Makes
      <4> QED BY <2>2, <4>1, <4>4 DEF WholeOrRetired, Missing
    <3>3. ASSUME NEW j \in Jobs, NEW enc \in Encrypted, Inserts(j, enc) PROVE WholeOrRetired(f)'
      <4>1. disk' = disk /\ retired' = retired
        BY <3>3 DEF Inserts, BeginBackup, SafetyBackup
      <4> QED BY <2>2, <4>1 DEF WholeOrRetired, Missing
    <3> QED BY <3>1, <3>2, <3>3
  <2> QED BY <1>1, <1>3, <2>0, <2>1, <2>2 DEF PassedJob
<1>4. CASE job'[k] # job[k]
  <2> DEFINE i == job[k].old
  <2>0. PICK f : f = PathOf(i)
    OBVIOUS
  <2>1. /\ job[k] # None /\ m.old = i /\ disk'[f] = disk[f] /\ retired' = retired
        /\ \/ job[k].step = "check" /\ ~Missing(f) /\ ~WrongSum(i)
                /\ m.step = IF i.row.enc THEN "decrypt" ELSE "read"
           \/ job[k].step = "decrypt" /\ ~Missing(f) /\ ~disk[f].plain /\ m.step = "decrypted"
           \/ job[k].step = "decrypted" /\ m.step = "read"
    BY <1>4, <2>0 DEF ReadsOn
  <2>2. /\ k \in Busy /\ i # None /\ i \in Settled /\ f \in Files /\ f[2] \in {"zip", "enc"} /\ PassedJob(job[k])
        /\ i.row \in Row /\ SoundRow(i.row) /\ SoundJob(job[k], DOMAIN image)
    BY <1>2, <2>0, <2>1 DEF Passed, ReadingSteps
  <2>3. WholeOrRetired(f) => WholeOrRetired(f)'
    BY <2>1 DEF WholeOrRetired, Missing
  <2>4. CASE job[k].step = "check"
    <3>1. i.row.sum # 0 => WholeOrRetired(f)
      <4> SUFFICES ASSUME i.row.sum # 0 PROVE WholeOrRetired(f)
        OBVIOUS
      <4>1. ~Missing(f) /\ disk[f].id # 0
        BY <2>0, <2>1, <2>4 DEF WrongSum
      <4>2. disk[f].is # "damaged"
        BY <2>2, <4>1 DEF FilesSound, SoundFile, Missing
      <4>3. Archived(i.row) /\ f = <<i.row.stamp, i.row.ext>>
        BY <2>0, <2>2 DEF SoundRow, PathOf
      <4> QED BY <4>2, <4>3 DEF Archived, WholeOrRetired
    <3>2. m.step = IF i.row.enc THEN "decrypt" ELSE "read"
      BY <2>1, <2>4
    <3> QED BY <2>0, <2>1, <2>3, <3>1, <3>2 DEF PassedJob
  <2>5. CASE job[k].step = "decrypt"
    <3>1. ~Missing(f) /\ ~disk[f].plain
      BY <2>1, <2>5
    <3>2. i.row.sum # 0
      <4>1. f[2] # "zip"
        BY <2>2, <3>1 DEF FilesSound, SoundFile, Missing
      <4> QED BY <2>0, <2>2, <4>1 DEF SoundRow, PathOf
    <3>3. WholeOrRetired(f)
      BY <1>1, <2>0, <2>1, <2>2, <2>5, <3>2 DEF PassedJob, ReadingSteps
    <3> QED BY <2>0, <2>1, <2>3, <3>2, <3>3 DEF PassedJob
  <2>6. CASE job[k].step = "decrypted"
    BY <1>1, <2>0, <2>1, <2>2, <2>3, <2>6 DEF PassedJob, ReadingSteps
  <2> QED BY <2>1, <2>4, <2>5, <2>6
<1> QED BY <1>3, <1>4

\* WayBack is kept: the safety backup is finished before the copy begins.
LEMMA WayBackStep ==
  ASSUME BackupAssumption, BackupsTypeOK, JobsSound, CopiesBegun, OneMaker, MakersFile, WayBack,
         \/ Going
         \/ \E j \in Jobs : Makes(j)
         \/ \E j \in Jobs, enc \in Encrypted : Inserts(j, enc)
  PROVE  WayBack'
<1> SUFFICES ASSUME NEW k \in Jobs, NEW m, m = job'[k], m # None, m.step = "copy", m.task = "restore",
                    NEW i, i = m.new, NEW f, f = PathOf(i), Alone(i.row.stamp)'
             PROVE  (f \in retired \/ HasCopyOf(f, i.id))'
  BY DEF WayBack, Busy, PathOf
<1>1. Alone(i.row.stamp)
  <2>1. ASSUME NEW j \in Jobs, NEW enc \in Encrypted, Inserts(j, enc) PROVE Alone(i.row.stamp)
    <3>1. CountBackup
      BY <2>1 DEF Inserts, BeginBackup, SafetyBackup
    <3> QED BY <3>1, AloneAfter
  <2>2. (\E j \in Jobs : Makes(j)) => begun' = begun
    BY OpenFacts, CloseFacts, EncryptFacts, FinishFacts DEF Makes
  <2> QED BY <2>1, <2>2 DEF Going, Alone
<1>2. ASSUME f \in retired \/ HasCopyOf(f, i.id), retired \subseteq retired',
             image' = image \/ image' = Append(image, db), f \in retired' \/ disk'[f] = disk[f]
      PROVE  (f \in retired \/ HasCopyOf(f, i.id))'
  <2>1. CASE f \in retired'
    BY <2>1
  <2>2. CASE disk'[f] = disk[f] /\ f \notin retired'
    <3>1. HasCopyOf(f, i.id)
      BY <1>2, <2>2
    <3>2. disk'[f] # None
      BY <2>2, <3>1 DEF HasCopyOf, Missing
    <3> QED BY <1>2, <2>2, <3>1, <3>2, CopyStays
  <2> QED BY <1>2, <2>1, <2>2
<1>3. CASE job'[k] = job[k]
  <2>1. k \in Busy /\ job[k].step = "copy" /\ job[k].task = "restore" /\ i = job[k].new /\ job[k] # None
    BY <1>3 DEF Busy
  <2>2. i # None /\ i \in Held(k) /\ f \in Files /\ i.row \in Row
    <3>1. i # None
      BY <2>1 DEF JobsSound, SoundJob
    <3> QED BY <2>1, <3>1, JobTypes DEF Held
  <2>3. f \in retired \/ HasCopyOf(f, i.id)
    BY <1>1, <2>1 DEF WayBack
  <2>4. CASE Going
    <3>1. retired \subseteq retired' /\ (disk'[f] = disk[f] \/ (disk'[f] = None /\ f \in retired'))
      <4>1. f[2] # "verify" /\ f[1] = i.row.stamp
        BY <2>2 DEF PathOf, Row
      <4> QED BY <2>1, <2>2, <2>4, <4>1 DEF Going, FilesKept
    <3> QED BY <1>2, <2>3, <2>4, <3>1 DEF Going
  <2>5. ASSUME NEW j \in Jobs, Makes(j) PROVE (f \in retired \/ HasCopyOf(f, i.id))'
    <3>1. IsMaker(j) /\ retired' = retired /\ (image' = image \/ image' = Append(image, db))
      BY <2>5, OpenFacts, CloseFacts, EncryptFacts, FinishFacts DEF Makes
    <3>2. job[j].new.row.stamp # i.row.stamp
      BY <1>1, <2>1, <2>2, <3>1 DEF OneMaker, IsMaker, MakingSteps
    <3>3. f # PathOf(job[j].new) /\ f # <<job[j].new.row.stamp, "enc">>
      BY <3>2 DEF PathOf
    <3>4. disk'[f] = disk[f]
      <4>1. CASE OpenArchive(j)
        BY <2>2, <3>3, <4>1, OpenFacts DEF BackupsTypeOK
      <4>2. CASE CloseArchive(j)
        BY <2>2, <3>3, <4>2, CloseFacts DEF BackupsTypeOK
      <4>3. CASE Encrypt(j)
        BY <2>2, <3>3, <4>3, EncryptFacts DEF BackupsTypeOK
      <4>4. CASE FinishBackup(j)
        BY <4>4, FinishFacts
      <4> QED BY <2>5, <4>1, <4>2, <4>3, <4>4 DEF Makes
    <3> QED BY <1>2, <2>3, <3>1, <3>4
  <2>6. ASSUME NEW j \in Jobs, NEW enc \in Encrypted, Inserts(j, enc) PROVE (f \in retired \/ HasCopyOf(f, i.id))'
    <3>1. UNCHANGED <<disk, image, retired>>
      BY <2>6 DEF Inserts, BeginBackup, SafetyBackup
    <3> QED BY <1>2, <2>3, <3>1
  <2> QED BY <2>4, <2>5, <2>6
<1>4. CASE job'[k] # job[k]
  <2>1. ~Going
    BY <1>4 DEF Going, JobsGoOn
  <2>2. ASSUME NEW j \in Jobs, NEW enc \in Encrypted, Inserts(j, enc) PROVE FALSE
    <3>1. Others(j) /\ job'[j].step = "write"
      BY <2>2, InsertFacts DEF Inserts
    <3> QED BY <1>4, <3>1 DEF Others
  <2>3. PICK j \in Jobs : Makes(j)
    BY <2>1, <2>2
  <2>4. j = k
    <3>1. Others(j)
      BY <2>3, OpenFacts, CloseFacts, EncryptFacts, FinishFacts DEF Makes
    <3> QED BY <1>4, <3>1 DEF Others
  <2>5. FinishBackup(k)
    <3>1. OpenArchive(j) \/ CloseArchive(j) \/ Encrypt(j) => job'[j].step \in MakingSteps
      BY OpenFacts, CloseFacts, EncryptFacts DEF MakingSteps
    <3> QED BY <2>3, <2>4, <3>1 DEF Makes, MakingSteps
  <2>6. /\ IsMaker(k) /\ job[k].step = "finish" /\ ~Missing(PathOf(job[k].new))
        /\ i.id = job[k].new.id /\ f = PathOf(job[k].new) /\ i.row.stamp = job[k].new.row.stamp
        /\ UNCHANGED <<disk, image, retired>>
    BY <2>5, FinishFacts DEF PathOf
  <2>7. HasCopyOf(f, i.id)
    <3>1. MakersFileIs("finish", job[k].new)
      BY <1>1, <2>6 DEF MakersFile, Making, IsMaker
    <3> QED BY <2>6, <3>1 DEF MakersFileIs
  <2> QED BY <1>2, <2>6, <2>7
<1> QED BY <1>3, <1>4

VerifyFilesAt(s) ==
  LET t == <<s, "verify">> IN
    \/ disk'[t] = None \/ disk'[t].is = "whole"
    \/ \E k \in Jobs : On(k, "decrypted")' /\ job'[k].old.row.stamp = s
    \/ /\ disk'[t] = disk[t]
       /\ \A k \in Jobs : On(k, "decrypted") /\ job[k].old.row.stamp = s =>
             <<"reading", job[k].old.id>> \in interrupted'

\* A decrypted file that is no whole one has its reader, or had one.
LEMMA VerifyAt ==
  ASSUME NEW s \in 1 .. Seconds, NEW j \in Jobs, Others(j), disk'[<<s, "verify">>] = disk[<<s, "verify">>],
         On(j, "decrypted") /\ job[j].old.row.stamp = s => <<"reading", job[j].old.id>> \in interrupted'
  PROVE  VerifyFilesAt(s)
<1>1. CASE \E k \in Jobs : k # j /\ On(k, "decrypted") /\ job[k].old.row.stamp = s
  <2>1. PICK k \in Jobs : k # j /\ On(k, "decrypted") /\ job[k].old.row.stamp = s
    BY <1>1
  <2>2. job'[k] = job[k]
    BY <2>1 DEF Others
  <2> QED BY <2>1, <2>2 DEF VerifyFilesAt, On
<1>2. CASE ~\E k \in Jobs : k # j /\ On(k, "decrypted") /\ job[k].old.row.stamp = s
  BY <1>2 DEF VerifyFilesAt
<1> QED BY <1>1, <1>2

LEMMA ReadersVerify ==
  ASSUME BackupsTypeOK, JobsSound, NEW j \in Jobs, Reads(j)
  PROVE  \A s \in 1 .. Seconds : VerifyFilesAt(s)
<1> SUFFICES ASSUME NEW s \in 1 .. Seconds PROVE VerifyFilesAt(s)
  OBVIOUS
<1> DEFINE t == <<s, "verify">>
<1>0. /\ TempOf(job[j].old) \in Files /\ (t = TempOf(job[j].old) <=> job[j].old.row.stamp = s)
      /\ SoundJob(job[j], DOMAIN image) /\ t \in Files
  BY Reader DEF TempOf, Files
<1>1. \A c : Put(TempOf(job[j].old), c) =>
        disk'[t] = IF job[j].old.row.stamp = s THEN c ELSE disk[t]
  BY <1>0 DEF Put, BackupsTypeOK
<1>2. CASE Check(j)
  BY <1>2, CheckFacts, VerifyAt DEF On
<1>3. CASE BeginDecrypt(j)
  <2>1. Others(j) /\ job[j].step # "decrypted"
    BY <1>3, BeginDecryptFacts DEF On
  <2>2. CASE job[j].old.row.stamp # s
    <3>1. disk'[t] = disk[t]
      BY <1>1, <1>3, <2>2, BeginDecryptFacts
    <3> QED BY <2>1, <3>1, VerifyAt DEF On
  <2>3. CASE job[j].old.row.stamp = s
    <3>1. \/ Put(TempOf(job[j].old), None)
          \/ job'[j] # None /\ job'[j].step = "decrypted" /\ job'[j].old = job[j].old
      BY <1>3, BeginDecryptFacts
    <3>2. CASE Put(TempOf(job[j].old), None)
      BY <1>1, <2>3, <3>2 DEF VerifyFilesAt
    <3>3. CASE job'[j] # None /\ job'[j].step = "decrypted" /\ job'[j].old = job[j].old
      BY <2>3, <3>3 DEF VerifyFilesAt, On
    <3> QED BY <3>1, <3>2, <3>3
  <2> QED BY <2>2, <2>3
<1>4. CASE EndDecrypt(j)
  <2>1. Others(j)
    BY <1>4, EndDecryptFacts
  <2>2. CASE job[j].old.row.stamp # s
    <3>1. disk'[t] = disk[t]
      BY <1>1, <1>4, <2>2, EndDecryptFacts
    <3> QED BY <2>1, <2>2, <3>1, VerifyAt
  <2>3. CASE job[j].old.row.stamp = s
    <3>1. job[j] \in Job /\ job[j].mem # None /\ job[j].mem.is = "whole"
      BY <1>0, <1>4, Reader DEF EndDecrypt, On, SoundJob
    <3>2. [job[j].mem EXCEPT !.plain = TRUE].is = "whole"
      BY <3>1 DEF Job, Content
    <3>3. disk'[t] = IF Missing(TempOf(job[j].old)) THEN None ELSE [job[j].mem EXCEPT !.plain = TRUE]
      BY <1>1, <1>4, <2>3, EndDecryptFacts
    <3> QED BY <3>2, <3>3 DEF VerifyFilesAt
  <2> QED BY <2>2, <2>3
<1>5. CASE ReadArchive(j)
  <2>1. Others(j) /\ job[j].step # "decrypted"
    BY <1>5, ReadArchiveFacts DEF On
  <2>2. disk'[t] = disk[t] \/ disk'[t] = None
    BY <1>0, <1>1, <1>5, ReadArchiveFacts
  <2> QED BY <2>1, <2>2, VerifyAt DEF VerifyFilesAt, On
<1> QED BY <1>2, <1>3, <1>4, <1>5 DEF Reads

LEMMA OthersVerify ==
  ASSUME BackupAssumption, BackupsTypeOK, JobsSound, CopiesBegun, Otherwise
  PROVE  \A s \in 1 .. Seconds : VerifyFilesAt(s)
<1> SUFFICES ASSUME NEW s \in 1 .. Seconds PROVE VerifyFilesAt(s)
  OBVIOUS
<1> DEFINE t == <<s, "verify">>
<1>0. t \in Files
  BY DEF Files
<1>1. ASSUME NEW j \in Jobs, BeginsToRead(j) PROVE VerifyFilesAt(s)
  BY <1>1, JobBegins, VerifyAt DEF On
<1>2. ASSUME NEW j \in Jobs, Makes(j) PROVE VerifyFilesAt(s)
  <2>1. IsMaker(j) /\ Others(j)
    BY <1>2, OpenFacts, CloseFacts, EncryptFacts, FinishFacts DEF Makes
  <2>2. t # PathOf(job[j].new) /\ t # <<job[j].new.row.stamp, "enc">>
    BY <2>1 DEF IsMaker, PathOf, Row
  <2>3. disk'[t] = disk[t]
    <3>1. CASE OpenArchive(j)
      BY <1>0, <2>2, <3>1, OpenFacts DEF BackupsTypeOK
    <3>2. CASE CloseArchive(j)
      BY <1>0, <2>2, <3>2, CloseFacts DEF BackupsTypeOK
    <3>3. CASE Encrypt(j)
      BY <1>0, <2>2, <3>3, EncryptFacts DEF BackupsTypeOK
    <3>4. CASE FinishBackup(j)
      BY <3>4, FinishFacts
    <3> QED BY <1>2, <3>1, <3>2, <3>3, <3>4 DEF Makes
  <2>4. ~On(j, "decrypted")
    BY <2>1 DEF IsMaker, MakingSteps, On
  <2> QED BY <2>1, <2>3, <2>4, VerifyAt
<1>3. ASSUME NEW j \in Jobs, NEW enc \in Encrypted, Inserts(j, enc) PROVE VerifyFilesAt(s)
  <2>1. Others(j) /\ disk' = disk /\ ~On(j, "decrypted")
    BY <1>3, InsertFacts DEF Inserts, On
  <2> QED BY <2>1, VerifyAt
<1>4. ASSUME NEW j \in Jobs, Ends(j) PROVE VerifyFilesAt(s)
  <2>1. Others(j) /\ disk' = disk
    BY <1>4, JobEnds
  <2>2. On(j, "decrypted") => <<"reading", job[j].old.id>> \in interrupted'
    <3>1. CASE Kill(j)
      <4>1. On(j, "decrypted") => job[j].old # None
        BY DEF JobsSound, SoundJob, Busy, On
      <4> QED BY <3>1, <4>1 DEF Kill
    <3>2. CASE ~Kill(j)
      BY <1>4, <3>2 DEF MissingFails, WriteFails, CopyFails, RecordRestore, EndRetention, On, Ends
    <3> QED BY <3>1, <3>2
  <2> QED BY <2>1, <2>2, VerifyAt
<1>5. ASSUME NEW j \in Jobs, CopyOver(j) PROVE VerifyFilesAt(s)
  <2>1. Others(j) /\ disk' = disk /\ ~On(j, "decrypted")
    BY <1>5, StepFacts DEF CopyOver, On
  <2> QED BY <2>1, VerifyAt
<1>6. ASSUME NEW j \in Jobs, Lists(j) PROVE VerifyFilesAt(s)
  <2>1. Others(j) /\ ~On(j, "decrypted")
    BY <1>6, JobLists DEF ListOld, DeleteOne, On
  <2>2. disk'[t] = disk[t] \/ disk'[t] = None
    BY <1>0, <1>6 DEF ListOld, DeleteOne, Put, BackupsTypeOK, Lists
  <2> QED BY <2>1, <2>2, VerifyAt DEF VerifyFilesAt
<1>7. ASSUME Aside
      PROVE  VerifyFilesAt(s)
  <2>1. job' = job
    BY <1>7 DEF FileRestore, Damage, Tick, Aside
  <2>2. disk'[t] = disk[t]
    <3>1. CASE (\E b \in Records : FileRestore(b)) \/ Tick
      BY <3>1 DEF FileRestore, Tick
    <3>2. ASSUME NEW f \in Files, Damage(f) PROVE disk'[t] = disk[t]
      <4>1. f[2] # "verify" /\ disk' = [disk EXCEPT ![f] = [disk[f] EXCEPT !.id = 0, !.is = "damaged"]]
        BY <3>2 DEF Damage, Put
      <4> QED BY <1>0, <4>1 DEF BackupsTypeOK
    <3> QED BY <1>7, <3>1, <3>2 DEF Aside
  <2> QED BY <2>1, <2>2 DEF VerifyFilesAt, On
<1> QED BY <1>1, <1>2, <1>3, <1>4, <1>5, <1>6, <1>7 DEF Otherwise

LEMMA InterruptedGrows ==
  ASSUME Otherwise \/ \E j \in Jobs : Reads(j)
  PROVE  interrupted \subseteq interrupted'
BY DEF Otherwise, Reads, Makes, Inserts, BeginsToRead, Ends, Lists, Aside, BeginVerify, BeginRestore,
       BeginBackup, SafetyBackup, OpenArchive, CloseArchive, Encrypt, FinishBackup, MissingFails, WriteFails,
       FailBackup, CopyFails, RecordRestore, EndRetention, Kill, CopyOver, ListOld, DeleteOne, FileRestore,
       Damage, Tick, Check, BeginDecrypt, EndDecrypt, ReadArchive, history

\* Partial is kept.
LEMMA PartialStep ==
  ASSUME BackupAssumption, BackupsTypeOK, JobsSound, FilesSound, CopiesBegun, OneOrigin, Partial,
         interrupted \subseteq interrupted', \A s \in 1 .. Seconds : VerifyFilesAt(s),
         \/ Going
         \/ \E j \in Jobs : Makes(j)
         \/ \E j \in Jobs, enc \in Encrypted : Inserts(j, enc)
  PROVE  Partial'
<1> SUFFICES ASSUME NEW s \in 1 .. Seconds, disk'[<<s, "verify">>] # None, disk'[<<s, "verify">>].is # "whole",
                    Alone(s)'
             PROVE  \/ \E k \in Busy' : On(k, "decrypted")' /\ job'[k].old.row.stamp = s
                    \/ \E b \in Records : <<"reading", b>> \in interrupted'
                                       /\ \A x \in Copies' : x.row.stamp = s => x.id = b
  BY DEF Partial
<1> DEFINE t == <<s, "verify">>
<1>1. CASE \E k \in Jobs : On(k, "decrypted")' /\ job'[k].old.row.stamp = s
  BY <1>1 DEF On, Busy
<1>2. CASE /\ disk'[t] = disk[t]
           /\ \A k \in Jobs : On(k, "decrypted") /\ job[k].old.row.stamp = s =>
                 <<"reading", job[k].old.id>> \in interrupted'
  <2>1. s \in Seen
    <3>1. t \in Files
      BY DEF Files
    <3> QED BY <1>2, <3>1 DEF FilesSound
  <2>2. /\ Alone(s)
        /\ \A x \in Copies' : x.row.stamp = s => Known(x)
    <3>1. ASSUME NEW j \in Jobs, NEW enc \in Encrypted, Inserts(j, enc)
          PROVE  Alone(s) /\ \A x \in Copies' : x.row.stamp = s => Known(x)
      <4>1. CountBackup
        BY <3>1 DEF Inserts, BeginBackup, SafetyBackup
      <4>2. Alone(s) /\ s # clock
        BY <2>1, <4>1, AloneAfter
      <4>3. Fresh(enc).row.stamp = clock
        BY DEF Fresh, NewRow
      <4> QED BY <3>1, <4>2, <4>3, InsertKnown DEF Inserts
    <3>2. ASSUME NEW j \in Jobs, Makes(j)
          PROVE  Alone(s) /\ \A x \in Copies' : x.row.stamp = s => Known(x)
      <4>1. begun' = begun
        BY <3>2, OpenFacts, CloseFacts, EncryptFacts, FinishFacts DEF Makes
      <4> QED BY <3>2, <4>1, WriteKnown DEF Makes, Alone
    <3>3. CASE Going
      BY <3>3, GoingKnown DEF Going, Alone
    <3> QED BY <3>1, <3>2, <3>3
  <2>3. PICK b \in Records : <<"reading", b>> \in interrupted' /\ \A x \in Copies : x.row.stamp = s => x.id = b
    <3>1. CASE \E k \in Busy : On(k, "decrypted") /\ job[k].old.row.stamp = s
      <4>1. PICK k \in Busy : On(k, "decrypted") /\ job[k].old.row.stamp = s
        BY <3>1
      <4>2. k \in Jobs /\ job[k] # None /\ job[k].old # None
        BY <4>1 DEF Busy, On, JobsSound, SoundJob
      <4>3. job[k].old \in Copies /\ job[k].old.id \in Records
        BY <4>2, JobTypes, HeldAreCopies DEF Held
      <4>4. \A x \in Copies : x.row.stamp = s => x.id = job[k].old.id
        BY <2>2, <4>1, <4>3 DEF OneOrigin
      <4> QED BY <1>2, <4>1, <4>2, <4>3, <4>4
    <3>2. CASE \E b \in Records : <<"reading", b>> \in interrupted /\ \A x \in Copies : x.row.stamp = s => x.id = b
      BY <3>2
    <3> QED BY <1>2, <2>2, <3>1, <3>2 DEF Partial
  <2>4. \A x \in Copies' : x.row.stamp = s => x.id = b
    BY <2>2, <2>3 DEF Known, SameOrigin
  <2> QED BY <2>3, <2>4
<1> QED BY <1>1, <1>2 DEF VerifyFilesAt

\* The parts put together.
LEMMA StepIs ==
  ASSUME BackupsNext
  PROVE  /\ Otherwise \/ \E j \in Jobs : Reads(j)
         /\ (\E j \in Jobs : Begin(j)) \/ started' = started
BY DEF BackupsNext, Begin, GoOn, Continue, Around, Otherwise, Reads, Makes, Inserts, BeginsToRead, Ends, Lists, Aside

LEMMA TypesStep ==
  ASSUME BackupAssumption, BackupsTypeOK, JobsSound, FilesSound, CopiesBegun, BackupsNext
  PROVE  BackupsTypeOK'
<1>1. ASSUME NEW j \in Jobs, Begin(j) PROVE BackupsTypeOK'
  BY <1>1, BeginTypes
<1>2. ASSUME NEW j \in Jobs, Continue(j), started' = started PROVE BackupsTypeOK'
  BY <1>2, WriteTypes, ReadTypes, RestoreTypes, ListTypes DEF Continue, Makes, Reads, Lists, Inserts
<1>3. ASSUME Around, started' = started PROVE BackupsTypeOK'
  BY <1>3, WriteTypes, AroundTypes DEF Around, Aside
<1> QED BY <1>1, <1>2, <1>3 DEF BackupsNext, GoOn

LEMMA NextGoes ==
  ASSUME BackupAssumption, BackupsTypeOK, JobsSound, FilesSound, BackupsNext
  PROVE  \/ Going
         \/ \E j \in Jobs : Makes(j)
         \/ \E j \in Jobs, enc \in Encrypted : Inserts(j, enc)
<1>1. ASSUME NEW j \in Jobs, Reads(j) PROVE Going
  BY <1>1, ReadGoes DEF Reads
<1>2. CASE Otherwise
  BY <1>2, BeginGoes, EndGoes, CopyGoes, ListGoes, AroundGoes DEF Otherwise
<1> QED BY <1>1, <1>2, StepIs

LEMMA GroundsStep ==
  ASSUME BackupAssumption, BackupsTypeOK, Grounds, BackupsNext
  PROVE  Grounds'
<1> USE DEF Grounds
<1>0. \/ Going
      \/ \E j \in Jobs : Makes(j)
      \/ \E j \in Jobs, enc \in Encrypted : Inserts(j, enc)
  BY NextGoes
<1>1. JobsSound'
  <2>1. ASSUME NEW j \in Jobs, Reads(j) PROVE JobsSound'
    BY <2>1, ReadSound DEF Reads
  <2>2. ASSUME job' = job, image' = image PROVE JobsSound'
    BY <2>2 DEF JobsSound, Busy
  <2>3. CASE Aside
    BY <2>2, <2>3 DEF FileRestore, Damage, Tick, Aside
  <2>4. CASE Otherwise
    BY <2>3, <2>4, MakeSound, RestSound DEF Otherwise, Makes, Inserts
  <2> QED BY <2>1, <2>4, StepIs
<1>2. FilesSound'
  <2>1. ASSUME NEW j \in Jobs, Reads(j) PROVE FilesSound'
    BY <2>1, ReadFiles DEF Reads
  <2>2. CASE Otherwise
    BY <2>2, MakeFiles, RestFiles DEF Otherwise, Makes, Inserts
  <2> QED BY <2>1, <2>2, StepIs
<1>3. CopiesBegun' /\ OneOrigin'
  <2>1. CASE Going
    BY <2>1, GoingKnown, OriginsKept DEF Going
  <2>2. ASSUME NEW j \in Jobs, Makes(j) PROVE CopiesBegun' /\ OneOrigin'
    <3>1. begun' = begun
      BY <2>2, OpenFacts, CloseFacts, EncryptFacts, FinishFacts DEF Makes
    <3>2. \A x \in Copies' : Known(x)
      BY <2>2, WriteKnown DEF Makes
    <3> QED BY <3>1, <3>2, OriginsKept
  <2>3. ASSUME NEW j \in Jobs, NEW enc \in Encrypted, Inserts(j, enc) PROVE CopiesBegun' /\ OneOrigin'
    BY <2>3, OriginsInserted DEF Inserts
  <2> QED BY <1>0, <2>1, <2>2, <2>3
<1>4. OneMaker'
  BY <1>0, OneMakerStep
<1>5. Partial'
  <2>1. interrupted \subseteq interrupted'
    BY StepIs, InterruptedGrows
  <2>2. \A s \in 1 .. Seconds : VerifyFilesAt(s)
    BY StepIs, ReadersVerify, OthersVerify DEF Reads
  <2> QED BY <1>0, <2>1, <2>2, PartialStep
<1> QED BY <1>1, <1>2, <1>3, <1>4, <1>5

LEMMA UnmixedStep ==
  ASSUME BackupAssumption, BackupsTypeOK, Grounds, Unmixed, ~mixed, ~mixed', BackupsNext
  PROVE  Unmixed'
<1> USE DEF Grounds, Unmixed
<1>0. /\ BackupsTypeOK'
      /\ \/ Going
         \/ \E j \in Jobs : Makes(j)
         \/ \E j \in Jobs, enc \in Encrypted : Inserts(j, enc)
  BY TypesStep, NextGoes
<1>1. \A k \in Jobs : ReadsOn(k)
  BY StepIs, ReadersReadOn, OthersReadOn DEF Reads
<1>2. Segments'
  BY <1>0, SegmentsStep
<1>3. SameRow'
  BY <1>0, SameRowStep
<1>4. MakersFile'
  BY <1>0, MakersFileStep
<1>5. SettledSound'
  BY <1>0, SettledStep
<1>6. Passed'
  BY <1>0, <1>1, PassedStep
<1>7. WayBack'
  BY <1>0, WayBackStep
<1> QED BY <1>2, <1>3, <1>4, <1>5, <1>6, <1>7

LEMMA MixedStays ==
  ASSUME BackupAssumption, BackupsTypeOK, JobsSound, FilesSound, CopiesBegun, BackupsNext, mixed
  PROVE  mixed'
<1>1. ASSUME NEW j \in Jobs, NEW enc \in Encrypted, Inserts(j, enc) PROVE mixed' = mixed
  BY <1>1 DEF Inserts, BeginBackup, SafetyBackup
<1>2. ASSUME NEW j \in Jobs, Makes(j) PROVE mixed' = mixed
  BY <1>2, OpenFacts, CloseFacts, EncryptFacts, FinishFacts DEF Makes
<1> QED BY <1>1, <1>2, NextGoes DEF Going

LEMMA BackupsStart ==
  ASSUME BackupAssumption, BackupsInit
  PROVE  BackupsIInv
<1> USE DEF BackupsInit
<1>1. BackupsTypeOK
  <2>1. db \in Database
    BY DEF Database
  <2>2. 0 \in 0 .. MaxFaults /\ 0 \in 0 .. MaxJobs /\ 1 \in 1 .. Seconds
    BY DEF BackupAssumption
  <2>3. image \in Seq(Database) /\ begun \in Seq(1 .. Seconds)
    OBVIOUS
  <2>4. disk \in [Files -> Content \cup {None}] /\ job \in [Jobs -> Job \cup {None}]
    OBVIOUS
  <2> QED BY <2>1, <2>2, <2>3, <2>4 DEF BackupsTypeOK
<1>2. Busy = {} /\ Existing(db.rows) = {} /\ DOMAIN image = {} /\ Len(begun) = 0
  BY DEF Busy, Existing
<1>3. Copies = {} /\ Settled \ {None} = {}
  BY <1>2 DEF Copies, Settled, Stored, Archives, Held, Making
<1>4. Grounds
  BY <1>2, <1>3 DEF Grounds, JobsSound, FilesSound, CopiesBegun, OneOrigin, OneMaker, Partial, Files
<1>5. Unmixed
  <2>1. Segments
    <3>1. 0 \in 0 .. Len(begun) /\ Existing(db.rows) = 1 .. 0
      BY <1>2
    <3> QED BY <1>2, <3>1 DEF Segments, UpToOne
  <2> QED BY <1>2, <1>3, <2>1 DEF Unmixed, SameRow, MakersFile, Making, SettledSound, Passed, WayBack
<1> QED BY <1>1, <1>4, <1>5 DEF BackupsIInv

LEMMA BackupsStay ==
  ASSUME BackupsIInv, UNCHANGED backupVars
  PROVE  BackupsIInv'
<1>1. UNCHANGED <<db, disk, image, job, clock, begun, retired, interrupted, mixed, faults, started>>
  BY DEF backupVars, history
<1>2. BackupsTypeOK'
  BY <1>1 DEF BackupsIInv, BackupsTypeOK
<1>3. /\ UNCHANGED <<Busy, Copies, Settled, Making, Seen>>
      /\ \A s : (Alone(s)' <=> Alone(s)) /\ \A f : Missing(f)' <=> Missing(f)
  BY <1>1 DEF Busy, Copies, Settled, Making, Seen, Stored, Archives, Held, Alone, Missing
<1>4. JobsSound' /\ FilesSound' /\ CopiesBegun' /\ OneOrigin' /\ OneMaker'
  BY <1>1, <1>3 DEF BackupsIInv, Grounds, JobsSound, FilesSound, CopiesBegun, OneOrigin, OneMaker
<1>5. Partial'
  BY <1>1, <1>3 DEF BackupsIInv, Grounds, Partial, On
<1>6. ~mixed => Segments' /\ SameRow' /\ Passed'
  BY <1>1, <1>3 DEF BackupsIInv, Unmixed, Segments, SameRow, Passed,
         UpToOne, SameRowAs, Held, PassedJob, WholeOrRetired
<1>7. ~mixed => MakersFile' /\ WayBack'
  BY <1>1, <1>3 DEF BackupsIInv, Unmixed, MakersFile, WayBack, MakersFileIs, HasCopyOf
<1>8. ~mixed => SettledSound'
  BY <1>1, <1>3 DEF BackupsIInv, Unmixed, SettledSound, SoundRow, Archived, MakersOf
<1> QED BY <1>1, <1>2, <1>4, <1>5, <1>6, <1>7, <1>8 DEF BackupsIInv, Grounds, Unmixed

\* The invariant: types, what holds in any case (Grounds), and the rest for as
\* long as no restore has taken the database back under another job (~mixed), for
\* every interleaving of backups, verifications, restores and retention in
\* apps/backups/services.py, with kills, faults and damage.
THEOREM BackupsInductive == BackupsSpec => []BackupsIInv
<1>1. BackupsInit => BackupsIInv
  BY BackupAssumption, BackupsStart
<1>2. BackupsIInv /\ [BackupsNext]_backupVars => BackupsIInv'
  <2>1. ASSUME BackupsIInv, BackupsNext PROVE BackupsIInv'
    <3>1. BackupsTypeOK /\ JobsSound /\ FilesSound /\ CopiesBegun /\ Grounds
      BY <2>1 DEF BackupsIInv, Grounds
    <3>2. BackupsTypeOK' /\ Grounds' /\ (mixed => mixed')
      BY <2>1, <3>1, BackupAssumption, TypesStep, GroundsStep, MixedStays
    <3>3. ~mixed' => Unmixed'
      BY <2>1, <3>1, <3>2, BackupAssumption, UnmixedStep DEF BackupsIInv
    <3> QED BY <3>2, <3>3 DEF BackupsIInv
  <2>2. ASSUME BackupsIInv, UNCHANGED backupVars PROVE BackupsIInv'
    BY <2>2, BackupsStay
  <2> QED BY <2>1, <2>2
<1> QED BY <1>1, <1>2, PTL DEF BackupsSpec

\* Every state of backups is of its type: rows, files, archives and jobs stay
\* within what the handlers may write.
THEOREM BackupsTypeCorrect == BackupsSpec => []BackupsTypeOK
<1>1. BackupsIInv => BackupsTypeOK
  BY DEF BackupsIInv
<1> QED BY <1>1, BackupsInductive, PTL

\* A row that says success or verified, whose backup was alone in its second, has
\* its archive whole and with its sum on disk, unless retention deleted it or the
\* disk damaged it: create_backup says so last, whatever is killed in between.
THEOREM UsableAreArchived == BackupsSpec => []UsableHasArchive
<1>1. BackupsIInv => UsableHasArchive
  <2> SUFFICES ASSUME BackupsIInv, ~mixed, NEW b \in Usable(db.rows), Alone(db.rows[b].stamp)
               PROVE  Archived(db.rows[b])
    BY DEF UsableHasArchive
  <2>1. BackupsTypeOK /\ SettledSound
    BY DEF BackupsIInv, Unmixed
  <2>2. [id |-> b, row |-> db.rows[b]] \in Settled \ {None}
    BY <2>1, SettledAre DEF Usable
  <2>3. SoundRow(db.rows[b])
    BY <2>1, <2>2 DEF SettledSound
  <2> QED BY <2>3 DEF SoundRow, Usable
<1> QED BY <1>1, BackupsInductive, PTL

\* A restore that is about to copy over the database has its safety backup whole
\* on disk, with an image that holds the row of that backup: restore_backup makes
\* it first, and its failure ends the restore.
THEOREM NoRestoreWithoutWayBack == BackupsSpec => RestoreHasWayBack
<1>1. BackupsIInv /\ [BackupsNext]_backupVars =>
        [\A j \in Jobs :
           On(j, "copy") /\ job[j].task = "restore" /\ job'[j] # None /\ ~mixed =>
             LET i == job[j].new IN
             /\ i # None
             /\ Alone(i.row.stamp) /\ PathOf(i) \notin retired =>
                  /\ ~Missing(PathOf(i)) /\ disk[PathOf(i)].is = "whole"
                  /\ image[disk[PathOf(i)].id].rows[i.id] # None]_backupVars
  <2> SUFFICES ASSUME BackupsIInv, NEW j \in Jobs, On(j, "copy"), job[j].task = "restore", ~mixed
               PROVE  LET i == job[j].new IN
                      /\ i # None
                      /\ Alone(i.row.stamp) /\ PathOf(i) \notin retired => HasCopyOf(PathOf(i), i.id)
    BY DEF HasCopyOf
  <2> QED BY DEF BackupsIInv, Grounds, Unmixed, JobsSound, SoundJob, WayBack, Busy, On
<1> QED BY <1>1, BackupsInductive, PTL DEF BackupsSpec, RestoreHasWayBack

\* What a verification writes about its row.
LEMMA VerdictWritten ==
  ASSUME BackupsTypeOK, JobsSound, NEW j \in Jobs, Reads(j), NEW b, b = job[j].old.id, b \in Existing(db.rows)
  PROVE  /\ \A m : Reported(j, db, m).rows = db.rows \/ m \notin {"pending", "running", "success", "failed"}
         /\ Invalid(j, FALSE) => db'.rows[b] = db.rows[b]
         /\ Invalid(j, TRUE) => db'.rows[b].status = "corrupt"
         /\ db' = Reported(j, Marked(db, b, "verified"), "running") => db'.rows[b].status = "verified"
<1>1. db \in Database /\ b \in Records /\ db.rows[b] # None
  BY DEF BackupsTypeOK, Existing
<1>2. \A s \in Statuses : Marked(db, b, s) \in Database /\ Marked(db, b, s).rows[b].status = s
  BY <1>1, MarkedTypes
<1>3. \A d \in Database : \A s \in {"pending", "running", "success", "failed"} : Reported(j, d, s).rows = d.rows
  BY ReportedTypes
<1>4. "corrupt" \in Statuses /\ "verified" \in Statuses
  BY DEF Statuses
<1> QED BY <1>1, <1>2, <1>3, <1>4 DEF Invalid

\* A job that verifies is moved by its own step, or killed.
LEMMA ActsOnItself ==
  ASSUME BackupAssumption, BackupsTypeOK, JobsSound, CopiesBegun, BackupsNext, NEW j \in Jobs,
         On(j, "check") \/ On(j, "decrypt") \/ On(j, "read"), job'[j] # job[j]
  PROVE  Reads(j) \/ Kill(j)
<1>0. job[j] # None /\ job[j].step \in {"check", "decrypt", "read"}
  BY DEF On
<1>1. ASSUME NEW k \in Jobs, Others(k) PROVE k = j
  BY <1>1 DEF Others
<1>2. ASSUME NEW k \in Jobs, Reads(k) PROVE Reads(j)
  <2>1. Others(k)
    BY <1>2, CheckFacts, BeginDecryptFacts, EndDecryptFacts, ReadArchiveFacts DEF Reads
  <2> QED BY <1>1, <1>2, <2>1
<1>3. ASSUME NEW k \in Jobs, BeginsToRead(k) PROVE FALSE
  BY <1>0, <1>1, <1>3, JobBegins
<1>4. ASSUME NEW k \in Jobs, Makes(k) PROVE FALSE
  <2>1. Others(k) /\ IsMaker(k)
    BY <1>4, OpenFacts, CloseFacts, EncryptFacts, FinishFacts DEF Makes
  <2> QED BY <1>0, <1>1, <2>1 DEF IsMaker, MakingSteps
<1>5. ASSUME NEW k \in Jobs, NEW enc \in Encrypted, Inserts(k, enc) PROVE FALSE
  <2>1. Others(k) /\ (job[k] = None \/ job[k].step = "safety")
    BY <1>5, InsertFacts DEF Inserts
  <2> QED BY <1>0, <1>1, <2>1
<1>6. ASSUME NEW k \in Jobs, Ends(k) PROVE Kill(j)
  <2>1. k = j
    BY <1>1, <1>6, JobEnds
  <2> QED BY <1>0, <1>6, <2>1 DEF MissingFails, WriteFails, CopyFails, RecordRestore, EndRetention, On, Ends
<1>7. ASSUME NEW k \in Jobs, CopyOver(k) PROVE FALSE
  <2>1. k = j
    BY <1>1, <1>7, StepFacts DEF CopyOver, On
  <2> QED BY <1>0, <1>7, <2>1 DEF CopyOver, On
<1>8. ASSUME NEW k \in Jobs, Lists(k) PROVE FALSE
  <2>1. k = j
    BY <1>1, <1>8, JobLists
  <2> QED BY <1>0, <1>8, <2>1 DEF ListOld, DeleteOne, On, Lists
<1>9. ASSUME Aside PROVE FALSE
  BY <1>9 DEF FileRestore, Damage, Tick, Reads, Aside
<1> QED BY <1>2, <1>3, <1>4, <1>5, <1>6, <1>7, <1>8, <1>9, StepIs DEF Otherwise

\* What a verification reads as whole is whole, of its form and of its sum.
LEMMA VerifiedIsGood ==
  ASSUME BackupsTypeOK, Grounds, SettledSound, Passed, NEW j \in Jobs, On(j, "read"), job[j].old # None,
         NEW i, i = job[j].old, NEW f, f = PathOf(i), Alone(f[1]), f \notin retired,
         ~Missing(Source(i)), disk[Source(i)].is = "whole"
  PROVE  ~Missing(f) /\ disk[f].is = "whole" /\ disk[f].plain # i.row.enc /\ i.row.sum \in {0, disk[f].id}
<1>1. /\ i \in Settled /\ i.row \in Row /\ f \in Files /\ f = <<i.row.stamp, i.row.ext>> /\ Alone(i.row.stamp)
      /\ j \in Busy
  BY JobTypes, SettledAre DEF On, PathOf, Busy
<1>2. SoundRow(i.row) /\ PassedJob(job[j])
  BY <1>1 DEF SettledSound, Passed
<1>3. ~Missing(f) /\ disk[f].is = "whole"
  <2>1. CASE i.row.enc
    <3>1. WholeOrRetired(f)
      BY <1>1, <1>2, <2>1 DEF PassedJob, On, ReadingSteps
    <3> QED BY <3>1 DEF WholeOrRetired
  <2>2. CASE ~i.row.enc
    BY <2>2 DEF Source
  <2> QED BY <2>1, <2>2
<1>4. i.row.sum \in {0, disk[f].id}
  BY <1>1, <1>2, <1>3 DEF SoundRow, Archived
<1>5. i.row.ext = IF i.row.enc THEN "enc" ELSE "zip"
  BY <1>1, <1>2 DEF SoundRow, PassedJob, On, ReadingSteps
<1>6. disk[f].plain # i.row.enc
  <2>1. SoundFile(f, disk[f], DOMAIN image) /\ disk[f].plain \in BOOLEAN /\ i.row.enc \in BOOLEAN
    BY <1>1, <1>3 DEF Grounds, FilesSound, Missing, BackupsTypeOK, Content, Row
  <2> QED BY <1>1, <1>5, <2>1 DEF SoundFile
<1> QED BY <1>3, <1>4, <1>6

\* What a verification reads to be broken is broken on disk too: a decrypted
\* file that is not whole is there only while another one writes it, or after
\* one was killed that had the same record.
LEMMA CorruptIsNotGood ==
  ASSUME BackupsTypeOK, Grounds, NEW j \in Jobs, On(j, "read"), job[j].old # None,
         NEW i, i = job[j].old, Alone(i.row.stamp), Undisturbed(j, i.id),
         ~Missing(Source(i)), disk[Source(i)].is # "whole"
  PROVE  ~i.row.enc /\ Source(i) = PathOf(i)
<1>1. i \in Copies /\ i.row \in Row
  BY JobTypes, HeldAreCopies DEF On, Held
<1>2. ASSUME i.row.enc PROVE FALSE
  <2> DEFINE s == i.row.stamp
  <2>1. s \in 1 .. Seconds /\ disk[<<s, "verify">>] # None /\ disk[<<s, "verify">>].is # "whole"
    BY <1>1, <1>2 DEF Source, TempOf, Missing, Row
  <2>2. \/ \E k \in Busy : On(k, "decrypted") /\ job[k].old.row.stamp = s
        \/ \E b \in Records : <<"reading", b>> \in interrupted /\ \A x \in Copies : x.row.stamp = s => x.id = b
    BY <2>1 DEF Grounds, Partial
  <2>3. ASSUME NEW k \in Busy, On(k, "decrypted"), job[k].old.row.stamp = s PROVE FALSE
    <3>1. k \in Jobs /\ job[k] # None /\ job[k].old # None /\ k # j
      BY <2>3 DEF Busy, On, Grounds, JobsSound, SoundJob
    <3>2. job[k].old \in Copies
      BY <3>1, HeldAreCopies DEF Held
    <3>3. job[k].old.id = i.id
      BY <1>1, <2>3, <3>2 DEF Grounds, OneOrigin
    <3> QED BY <2>3, <3>1, <3>3 DEF Undisturbed
  <2>4. ASSUME NEW b \in Records, <<"reading", b>> \in interrupted, \A x \in Copies : x.row.stamp = s => x.id = b
        PROVE  FALSE
    BY <1>1, <2>4 DEF Undisturbed
  <2> QED BY <2>2, <2>3, <2>4
<1> QED BY <1>2 DEF Source

\* A verification with its backup to itself says verified only of an archive that
\* is whole, of the form its row names and of the recorded sum, and corrupt only
\* of another: verify_backup says what is on disk.
THEOREM VerdictsAreRight == BackupsSpec => VerdictIsRight
<1>1. BackupsIInv /\ [BackupsNext]_backupVars =>
        [\A j \in Jobs, b \in Records :
           LET i == job[j].old
               f == PathOf(i)
               good == /\ ~Missing(f) /\ disk[f].is = "whole" /\ disk[f].plain # i.row.enc
                       /\ i.row.sum \in {0, disk[f].id}
           IN
           (On(j, "check") \/ On(j, "decrypt") \/ On(j, "read")) /\ job'[j] # job[j] /\ ~mixed
             /\ i.id = b /\ Undisturbed(j, b) /\ Alone(f[1]) /\ f \notin retired =>
                (Becomes(b, "verified") => good) /\ (Becomes(b, "corrupt") => ~good)]_backupVars
  <2> SUFFICES ASSUME BackupsIInv, BackupsNext, NEW j \in Jobs, NEW b \in Records,
                      NEW i, i = job[j].old, NEW f, f = PathOf(i),
                      On(j, "check") \/ On(j, "decrypt") \/ On(j, "read"), job'[j] # job[j], ~mixed,
                      i.id = b, Undisturbed(j, b), Alone(f[1]), f \notin retired,
                      Becomes(b, "verified") \/ Becomes(b, "corrupt")
               PROVE  LET good == /\ ~Missing(f) /\ disk[f].is = "whole" /\ disk[f].plain # i.row.enc
                                  /\ i.row.sum \in {0, disk[f].id}
                      IN (Becomes(b, "verified") => good) /\ (Becomes(b, "corrupt") => ~good)
    BY DEF Becomes
  <2>1. BackupsTypeOK /\ Grounds /\ JobsSound /\ CopiesBegun /\ SettledSound /\ Passed
    BY DEF BackupsIInv, Grounds, Unmixed
  <2>2. b \in Existing(db.rows) /\ db'.rows[b] # db.rows[b]
    BY DEF Becomes
  <2>3. Reads(j)
    <3>1. ~Kill(j)
      BY <2>2 DEF Kill
    <3> QED BY <2>1, <3>1, BackupAssumption, ActsOnItself
  <2>4. job[j].old # None /\ SoundJob(job[j], DOMAIN image) /\ f[1] = i.row.stamp
    BY <2>1, <2>3, Reader DEF Reads, PathOf
  <2>5. /\ ~Invalid(j, FALSE) /\ db' # db
        /\ Invalid(j, TRUE) => db'.rows[b].status = "corrupt"
        /\ db' = Reported(j, Marked(db, b, "verified"), "running") => db'.rows[b].status = "verified"
    BY <2>1, <2>2, <2>3, VerdictWritten
  <2>6. CASE Check(j)
    <3>1. Invalid(j, TRUE) /\ WrongSum(i)
      BY <2>1, <2>5, <2>6, CheckFacts
    <3> QED BY <2>5, <3>1 DEF Becomes, WrongSum
  <2>7. CASE BeginDecrypt(j)
    <3>1. Invalid(j, TRUE) /\ (disk[f] = None \/ disk[f].is # "whole" \/ disk[f].plain) /\ On(j, "decrypt")
      BY <2>1, <2>5, <2>7, BeginDecryptFacts
    <3>2. i.row.enc
      BY <2>4, <3>1 DEF SoundJob, On
    <3> QED BY <2>5, <3>1, <3>2 DEF Becomes, Missing
  <2>8. CASE EndDecrypt(j)
    BY <2>1, <2>5, <2>8, EndDecryptFacts
  <2>9. CASE ReadArchive(j)
    <3>1. On(j, "read")
      BY <2>1, <2>9, ReadArchiveFacts
    <3>2. CASE ~Missing(Source(i)) /\ disk[Source(i)].is # "whole" /\ Invalid(j, TRUE)
      BY <2>1, <2>4, <2>5, <3>1, <3>2, CorruptIsNotGood DEF Becomes
    <3>3. CASE /\ ~Missing(Source(i)) /\ disk[Source(i)].is = "whole"
               /\ db' = Reported(j, Marked(db, b, "verified"), "running")
      BY <2>1, <2>4, <2>5, <3>1, <3>3, VerifiedIsGood DEF Becomes
    <3> QED BY <2>1, <2>5, <2>9, <3>2, <3>3, ReadArchiveFacts
  <2> QED BY <2>3, <2>6, <2>7, <2>8, <2>9 DEF Reads
<1> QED BY <1>1, BackupsInductive, PTL DEF BackupsSpec, VerdictIsRight
====
