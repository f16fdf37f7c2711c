----------------------------- MODULE BillLedger -----------------------------
(***************************************************************************)
(* What the order services promise about money, with no requests, copies,  *)
(* tickets or tables: every line is charged to at most one bill, a bill's  *)
(* amount is always that of its lines, lines leave a bill only for empty   *)
(* new bills and only while nothing was received on it, and what was       *)
(* received is never taken back.  Module Orders implements it, however its *)
(* requests overlap.                                                       *)
(***************************************************************************)
EXTENDS Integers

CONSTANTS Bills, Lines, NoBill, Total

VARIABLES billOf,    \* bill a line is charged to
          owed,      \* amount shown on a bill
          received   \* money recorded on a bill

vars == <<billOf, owed, received>>

Charged(b) == {l \in Lines : billOf[l] = b}

\* A bill nothing was ever entered on.
Blank(b) == Charged(b) = {} /\ received[b] = 0

Init ==
  /\ billOf = [l \in Lines |-> NoBill]
  /\ owed = [b \in Bills |-> Total[{}]]
  /\ received = [b \in Bills |-> 0]

Enter(l, b) ==
  /\ billOf[l] = NoBill
  /\ billOf' = [billOf EXCEPT ![l] = b]
  /\ owed' = [owed EXCEPT ![b] = Total[Charged(b) \cup {l}]]
  /\ UNCHANGED received

\* The lines of b either stay or move to bills that were blank.
Divide(b) ==
  /\ received[b] = 0
  /\ billOf' \in [Lines -> Bills \cup {NoBill}]
  /\ \A l \in Lines \ Charged(b) : billOf'[l] = billOf[l]
  /\ \A l \in Charged(b) : billOf'[l] = b \/ (billOf'[l] \in Bills /\ Blank(billOf'[l]))
  /\ owed' = [c \in Bills |-> Total[{l \in Lines : billOf'[l] = c}]]
  /\ UNCHANGED received

Receive(b) ==
  /\ received'[b] > received[b]
  /\ received' = [received EXCEPT ![b] = received'[b]]
  /\ UNCHANGED <<billOf, owed>>

Next == \E b \in Bills : (\E l \in Lines : Enter(l, b)) \/ Divide(b) \/ Receive(b)

Spec == Init /\ [][Next]_vars
=============================================================================
