----------------------------- MODULE StockBook -----------------------------
(***************************************************************************)
(* What the stock services promise, without lots, codes or expiry dates:   *)
(* every shelf (a stock item in a warehouse) has a quantity on hand that   *)
(* no issue overdraws, a goods receipt is entered once and whole, and a    *)
(* count corrects every shelf it counted in one step.                      *)
(***************************************************************************)
EXTENDS Integers

CONSTANTS Shelves, Receipts, Counts,
          Delivered,   \* quantity a receipt brings to a shelf
          Variance     \* counted minus expected quantity of a shelf in a count

VARIABLES onHand, entered,
          writes       \* quantities written directly, past receipts and issues

vars == <<onHand, entered, writes>>

Init == onHand = [s \in Shelves |-> 0] /\ entered = {} /\ writes = {}

Enter(g) ==
  /\ g \notin entered
  /\ entered' = entered \cup {g}
  /\ onHand' = [s \in Shelves |-> onHand[s] + Delivered[g][s]]
  /\ UNCHANGED writes

Correct(c) ==
  /\ \A s \in Shelves : onHand[s] + Variance[c][s] >= 0
  /\ onHand' = [s \in Shelves |-> onHand[s] + Variance[c][s]]
  /\ UNCHANGED <<entered, writes>>

Issue(s) ==
  /\ onHand'[s] \in 0 .. onHand[s]
  /\ onHand' = [onHand EXCEPT ![s] = onHand'[s]]
  /\ UNCHANGED <<entered, writes>>

\* One shelf is given another quantity, and it shows.
Write(s) ==
  /\ onHand'[s] \in Nat
  /\ onHand' = [onHand EXCEPT ![s] = onHand'[s]]
  /\ writes' # writes
  /\ UNCHANGED entered

Next == \/ \E g \in Receipts : Enter(g)
        \/ \E c \in Counts : Correct(c)
        \/ \E s \in Shelves : Issue(s) \/ Write(s)

Spec == Init /\ [][Next]_vars
=============================================================================
