---------------------------- MODULE MCApprovals ----------------------------
(* A waiter and a manager, who both give small discounts on their own; the *)
(* manager may approve everything except what the manager asked for.       *)
EXTENDS Approvals, MCRoleCatalogue

CONSTANTS waiter, manager, line, bill, d1, d2, t1, t2

MCRoleOf     == (waiter :> "waiter") @@ (manager :> "general_manager")
MCMayApprove == [r \in Roles |-> Approves(r) \cap Actions]
MCAttempts   == (waiter :> 3) @@ (manager :> 0)
Threads      == Permutations({d1, d2}) \cup Permutations({t1, t2})

\* Logins touch no role and no request, and requests touch no counter: a
\* behaviour with both adds no state of either to one with only the other.
Apart ==
  \/ wrong = [u \in Users |-> 0] /\ \A t \in Doors : login[t] = Idle
  \/ Filed = {} /\ \A s \in Subjects : given[s] = "none"

MCFree       == (waiter :> {"small"}) @@ (manager :> {"small"})
=============================================================================
