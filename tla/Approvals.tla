------------------------------ MODULE Approvals ------------------------------
(***************************************************************************)
(* Second approvals: requests filed for critical actions, decided by       *)
(* another user, and the discounts, voids and restores that rest on them.  *)
(*                                                                         *)
(* A decision acts on the request row the view loaded before, and a        *)
(* service on the ApprovalRequest instance it is given: both may be stale. *)
(* A service that needs an approval and gets none creates the request      *)
(* inside its own transaction and raises, so the row is rolled back while  *)
(* its id is returned to the caller: nothing remains but the refusal.      *)
(***************************************************************************)
EXTENDS Accounts

CONSTANTS
  MayApprove,    \* RoleSpec.can_approve: actions a role may approve
  FreeDiscounts, \* discounts within a user's discount_limit_percent
  Lines, Bills,  \* order lines (discounts) and orders (voids)
  MaxRequests,   \* bound: request rows
  Desks,         \* threads holding a request row
  NoUser, NoRequest

Discounts == {"small", "large", "comp"}
Deeds     == Discounts \cup {"void"}
Actions   == {"void_order", "discount_over_limit", "comp_item", "restore_backup"}
ActionOf  == [small |-> "discount_over_limit", large |-> "discount_over_limit",
              comp |-> "comp_item", void |-> "void_order"]
Requests  == 1 .. MaxRequests
Subjects  == Lines \cup Bills

ASSUME ApprovalAssumption ==
  /\ MayApprove \in [Roles -> SUBSET Actions]
  /\ FreeDiscounts \in [Users -> SUBSET {"small", "large"}]
  /\ MaxRequests \in Nat /\ NoUser \notin Users /\ NoRequest \notin Requests
  /\ Lines \cap Bills = {}

VARIABLES
  action, by, reviewer, rstatus,  \* ApprovalRequest.action, requested_by, reviewed_by, status
  late,          \* requests past their expires_at
  crossed,       \* history: requests decided or used from a copy that was no longer the row
  desk,          \* the request row a thread has loaded
  given,         \* what a line or bill was last given: a discount, "void" or "none"
  under,         \* discount_approval / void_approval: the request it rests on
  ownRight       \* history: the user who gave it needed no approval

requestVars == <<action, by, reviewer, rstatus, late, crossed>>
deedVars    == <<given, under, ownRight>>
vars == <<accountVars, requestVars, desk, deedVars>>

Filed  == {r \in Requests : rstatus[r] # "none"}
NextId == Cardinality(Filed) + 1
Copy   == [request : Requests, status : {"pending", "approved", "rejected", "expired", "applied"}]

CanApprove(u, a) == u \in Superusers \/ \E c \in RoleCodes(u) : a \in MayApprove[c]

TypeOK ==
  /\ AccountTypeOK
  /\ action \in [Requests -> Actions \cup {"none"}]
  /\ by \in [Requests -> Users \cup {NoUser}]
  /\ reviewer \in [Requests -> Users \cup {NoUser}]
  /\ rstatus \in [Requests -> {"none", "pending", "approved", "rejected", "expired", "applied"}]
  /\ late \in SUBSET Requests /\ crossed \in SUBSET Requests
  /\ desk \in [Desks -> Copy \cup {Idle}]
  /\ given \in [Subjects -> Deeds \cup {"none"}]
  /\ under \in [Subjects -> Requests \cup {NoRequest}]
  /\ ownRight \in [Subjects -> BOOLEAN]

Init ==
  /\ AccountInit
  /\ action = [r \in Requests |-> "none"]
  /\ by = [r \in Requests |-> NoUser]
  /\ reviewer = [r \in Requests |-> NoUser]
  /\ rstatus = [r \in Requests |-> "none"]
  /\ late = {} /\ crossed = {}
  /\ desk = [d \in Desks |-> Idle]
  /\ given = [s \in Subjects |-> "none"]
  /\ under = [s \in Subjects |-> NoRequest]
  /\ ownRight = [s \in Subjects |-> FALSE]
-----------------------------------------------------------------------------
\* RestoreView.post, or the administration pages for the other actions.
File(u, a) ==
  LET r == NextId IN
  /\ r \in Requests
  /\ action' = [action EXCEPT ![r] = a]
  /\ by' = [by EXCEPT ![r] = u]
  /\ rstatus' = [rstatus EXCEPT ![r] = "pending"]
  /\ UNCHANGED <<accountVars, reviewer, late, crossed, desk, deedVars>>

\* The clock passes expires_at (8 or 24 hours after the request).
PassExpiry(r) ==
  /\ r \in Filed \ late
  /\ late' = late \cup {r}
  /\ UNCHANGED <<accountVars, action, by, reviewer, rstatus, crossed, desk, deedVars>>

Load(d, r) ==
  /\ desk[d] = Idle /\ r \in Filed
  /\ desk' = [desk EXCEPT ![d] = [request |-> r, status |-> rstatus[r]]]
  /\ UNCHANGED <<accountVars, requestVars, deedVars>>

Holds(d) == desk[d] # Idle
Drop(d)  == desk' = [desk EXCEPT ![d] = Idle]

\* The row a thread saves may have been decided or used since it was loaded.
Cross(d) ==
  LET r == desk[d].request IN
  crossed' = crossed \cup (IF rstatus[r] = desk[d].status THEN {} ELSE {r})

\* _guard_review, in the order it asks.
AnyoneElse(u, r) == CanApprove(u, action[r])                        \* mutant of MayReview
MayReview(u, r) == u # by[r] /\ CanApprove(u, action[r])
Decide(d, u, verdict) ==
  LET r == desk[d].request IN
  /\ Holds(d) /\ desk[d].status = "pending" /\ r \notin late /\ MayReview(u, r)
  /\ rstatus' = [rstatus EXCEPT ![r] = verdict]
  /\ reviewer' = [reviewer EXCEPT ![r] = u]
  /\ Cross(d) /\ Drop(d)
  /\ UNCHANGED <<accountVars, action, by, late, deedVars>>

FindExpired(d) ==
  LET r == desk[d].request IN
  /\ Holds(d) /\ desk[d].status = "pending" /\ r \in late
  /\ rstatus' = [rstatus EXCEPT ![r] = "expired"]
  /\ Cross(d) /\ Drop(d)
  /\ UNCHANGED <<accountVars, action, by, reviewer, late, deedVars>>

\* A request that changes nothing: not pending, not allowed, not approved yet.
Refused(d) ==
  /\ Holds(d) /\ Drop(d)
  /\ UNCHANGED <<accountVars, requestVars, deedVars>>
-----------------------------------------------------------------------------
DeedsOn(s) == IF s \in Bills THEN {"void"} ELSE Discounts
Open(s)    == given[s] # "void"

\* Whether user u may do the deed without a second person.
OwnRight(u, deed) ==
  \/ deed \in FreeDiscounts[u]
  \/ CanApprove(u, ActionOf[deed])

\* apply_discount and void_order with no approval.
DoByRight(u, s, deed) ==
  /\ deed \in DeedsOn(s) /\ Open(s) /\ OwnRight(u, deed)
  /\ given' = [given EXCEPT ![s] = deed]
  /\ ownRight' = [ownRight EXCEPT ![s] = TRUE]
  /\ UNCHANGED <<accountVars, requestVars, desk, under>>

\* The request the service creates is rolled back by the exception it raises.
AskForApproval(u, s, deed) ==
  /\ deed \in DeedsOn(s) /\ Open(s) /\ ~OwnRight(u, deed)
  /\ UNCHANGED vars

\* With an approval: the loaded row must say approved, and is marked applied.
ShowsApproved(d) == desk[d].status = "approved"
StillApproved(r) == rstatus                                         \* mutant of MarkApplied
MarkApplied(r)   == [rstatus EXCEPT ![r] = "applied"]
DoUnderApproval(d, s, deed) ==
  LET r == desk[d].request IN
  /\ Holds(d) /\ deed \in DeedsOn(s) /\ Open(s) /\ ShowsApproved(d)
  /\ rstatus' = MarkApplied(r)
  /\ given' = [given EXCEPT ![s] = deed]
  /\ under' = [under EXCEPT ![s] = r]
  /\ ownRight' = [ownRight EXCEPT ![s] = FALSE]
  /\ Cross(d) /\ Drop(d)
  /\ UNCHANGED <<accountVars, action, by, reviewer, late>>

RequestNext ==
  \/ \E u \in Users, a \in Actions : File(u, a)
  \/ \E r \in Requests : PassExpiry(r)
  \/ \E d \in Desks, r \in Requests : Load(d, r)
  \/ \E d \in Desks, u \in Users, v \in {"approved", "rejected"} : Decide(d, u, v)
  \/ \E d \in Desks : FindExpired(d) \/ Refused(d)

DeedNext ==
  \E s \in Subjects, deed \in Deeds :
    \/ \E u \in Users : DoByRight(u, s, deed) \/ AskForApproval(u, s, deed)
    \/ \E d \in Desks : DoUnderApproval(d, s, deed)

Next ==
  \/ AccountNext /\ UNCHANGED <<requestVars, desk, deedVars>>
  \/ RequestNext
  \/ DeedNext

Spec == Init /\ [][Next]_vars
-----------------------------------------------------------------------------
\* Whatever is given beyond the giver's own right rests on a request that
\* somebody other than its author decided, whichever stale rows the deciding
\* and the giving thread held and whatever became of the roles since.
OverLimitWasApproved ==
  \A s \in Subjects :
    given[s] # "none" /\ ~ownRight[s] =>
      /\ under[s] \in Filed
      /\ reviewer[under[s]] \notin {NoUser, by[under[s]]}

\* An approval serves one discount, void or other deed, and a request that was
\* rejected, expired or is still open serves none, unless a thread decided or
\* used it from a row that another had decided or used since it was loaded.
EachApprovalServesOnce ==
  \A r \in Filed \ crossed, s, t \in Subjects :
    under[s] = r =>
      /\ rstatus[r] = "applied"
      /\ under[t] = r => s = t
=============================================================================
