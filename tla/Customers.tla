----------------------------- MODULE Customers -----------------------------
(***************************************************************************)
(* Customers, what hangs on them, their erasure, and their loyalty points. *)
(*                                                                         *)
(* Every generic endpoint reads a row, and later writes all of it back:    *)
(* between the two anything may have happened to the row, to its customer, *)
(* or to the balance it carries.  A note deleted meanwhile is inserted     *)
(* again.  The services run in one transaction each, but on the instances  *)
(* their caller read before.  A customer with an erasure request cannot be *)
(* deleted, only erased: the deletion of others is left out.  So is what    *)
(* the erasure does not touch, but for the loyalty account.                *)
(***************************************************************************)
EXTENDS Integers, FiniteSets

CONSTANTS
  Clerks, People,
  Papers,          \* orders and reservations: what names a customer
  Bookings,        \* which of them are reservations
  Requests,        \* bound: erasure requests
  MinimumRedeem,   \* LoyaltyProgram.minimum_redeem_points
  MaxPoints,       \* bound: points of one entry, and of a balance
  Nobody

ASSUME CustomersAssumption ==
  /\ MinimumRedeem \in Nat /\ MaxPoints \in Nat
  /\ Nobody \notin People /\ Bookings \subseteq Papers

VARIABLES
  row,       \* Customer: is it live or archived, and does it say who it is
  paper,     \* whom an order or a reservation names
  consent,   \* the latest ConsentRecord of a purpose
  noted,     \* customers with a visit note
  request,   \* DataErasureRequest
  account,   \* LoyaltyAccount.points_balance, and the sum of its transactions
  desk,      \* the instance a request handler holds
  renewed,   \* history: what was written about an erased customer afterwards
  skewed     \* history: accounts written from an old copy, entries by hand

fileVars   == <<row, paper, consent, noted, request, renewed>>
pointsVars == <<account, skewed>>
vars == <<fileVars, pointsVars, desk>>

Facets   == {"row", "paper", "consent", "note"}
RowState == {"live", "archived"}
Desk     == [holds : {"nothing"}]
            \cup [holds : {"row", "consent", "note"}, of : People]
            \cup [holds : {"paper"}, of : Papers, names : People \cup {Nobody}]
            \cup [holds : {"account"}, of : People, balance : Int]
            \cup [holds : {"request"}, of : Requests]
Nothing  == [holds |-> "nothing"]

TypeOK ==
  /\ row \in [People -> [state : RowState, person : BOOLEAN]]
  /\ \A c \in People : row[c].state = "live" => row[c].person
  /\ paper \in [Papers -> People \cup {Nobody}]
  /\ consent \in [People -> {"none", "given", "withdrawn"}]
  /\ noted \in SUBSET People
  /\ request \in [Requests -> [of : People \cup {Nobody}, approved : BOOLEAN,
                               status : {"received", "completed"}]]
  /\ account \in [People -> [balance : Int, entries : Int]]
  /\ desk \in [Clerks -> Desk]
  /\ renewed \in SUBSET (People \X Facets)
  /\ skewed \in SUBSET People

Init ==
  /\ row = [c \in People |-> [state |-> "live", person |-> TRUE]]
  /\ paper = [d \in Papers |-> Nobody]
  /\ consent = [c \in People |-> "none"] /\ noted = {}
  /\ request = [r \in Requests |-> [of |-> Nobody, approved |-> FALSE, status |-> "received"]]
  /\ account = [c \in People |-> [balance |-> 0, entries |-> 0]]
  /\ desk = [k \in Clerks |-> Nothing]
  /\ renewed = {} /\ skewed = {}

Erased(c)    == \E r \in Requests : request[r].of = c /\ request[r].status = "completed"
Renew(c, f)  == renewed' = renewed \cup (IF c # Nobody /\ Erased(c) THEN {<<c, f>>} ELSE {})
Holds(k, s)  == desk[k].holds = s
Leave(k)     == desk' = [desk EXCEPT ![k] = Nothing]
-----------------------------------------------------------------------------
(* Reading a row for an edit or for a service.                             *)

\* CustomerViewSet does not show archived customers; the other sets do.
Read(k) ==
  /\ Holds(k, "nothing")
  /\ \E copy \in
       {[holds |-> "row", of |-> c] : c \in {x \in People : row[x].state = "live"}}
       \cup {[holds |-> "consent", of |-> c] : c \in {x \in People : consent[x] = "given"}}
       \cup {[holds |-> "note", of |-> c] : c \in noted}
       \cup {[holds |-> "paper", of |-> d, names |-> paper[d]] : d \in Papers}
       \cup {[holds |-> "account", of |-> c, balance |-> account[c].balance]
              : c \in People}
       \cup {[holds |-> "request", of |-> r]
              : r \in {x \in Requests : request[x].approved /\ request[x].status # "completed"}} :
       desk' = [desk EXCEPT ![k] = copy]
  /\ UNCHANGED <<fileVars, pointsVars>>

\* Only a live row is ever read, and the name is required: what is written back
\* is live and says who it is, whatever became of the row.
SaveRow(k) ==
  /\ Holds(k, "row")
  /\ row' = [row EXCEPT ![desk[k].of] = [state |-> "live", person |-> TRUE]]
  /\ Renew(desk[k].of, "row") /\ Leave(k)
  /\ UNCHANGED <<paper, consent, noted, request, pointsVars>>

\* A new order or reservation, or an edit that names the customer: any customer
\* that exists can be named.
Name(k, c) ==
  /\ Holds(k, "paper")
  /\ paper' = [paper EXCEPT ![desk[k].of] = c]
  /\ Renew(c, "paper") /\ Leave(k)
  /\ UNCHANGED <<row, consent, noted, request, pointsVars>>

\* An edit of anything else, and a bill split off: the copy's customer is written.
SavePaper(k, d) ==
  LET c == desk[k].names IN
  /\ Holds(k, "paper")
  /\ \/ d = desk[k].of
     \/ paper[d] = Nobody /\ {d, desk[k].of} \cap Bookings = {}
  /\ paper' = [paper EXCEPT ![d] = c]
  /\ IF c = paper[d] THEN renewed' = renewed ELSE Renew(c, "paper")
  /\ Leave(k)
  /\ UNCHANGED <<row, consent, noted, request, pointsVars>>

\* Only one record of a purpose may stand.
GiveConsent(c) ==
  /\ consent[c] # "given"
  /\ consent' = [consent EXCEPT ![c] = "given"]
  /\ Renew(c, "consent")
  /\ UNCHANGED <<row, paper, noted, request, desk, pointsVars>>

SaveConsent(k, to) ==
  LET c == desk[k].of IN
  /\ Holds(k, "consent")
  /\ consent' = [consent EXCEPT ![c] = to]
  /\ IF to = "given" /\ consent[c] # "given" THEN Renew(c, "consent") ELSE renewed' = renewed
  /\ Leave(k)
  /\ UNCHANGED <<row, paper, noted, request, pointsVars>>

AddNote(c) ==
  /\ noted' = noted \cup {c} /\ Renew(c, "note")
  /\ UNCHANGED <<row, paper, consent, request, desk, pointsVars>>

SaveNote(k) ==
  LET c == desk[k].of IN
  /\ Holds(k, "note")
  /\ noted' = noted \cup {c}
  /\ IF c \in noted THEN renewed' = renewed ELSE Renew(c, "note")
  /\ Leave(k)
  /\ UNCHANGED <<row, paper, consent, request, pointsVars>>
-----------------------------------------------------------------------------
(* Erasure.                                                                *)

RequestErasure(k, r) ==
  /\ Holds(k, "row") /\ request[r].of = Nobody
  /\ request' = [request EXCEPT ![r].of = desk[k].of]
  /\ Leave(k)
  /\ UNCHANGED <<row, paper, consent, noted, renewed, pointsVars>>

\* The approval is given elsewhere.
Approve(r) ==
  /\ request[r].of # Nobody /\ ~request[r].approved
  /\ request' = [request EXCEPT ![r].approved = TRUE]
  /\ UNCHANGED <<row, paper, consent, noted, renewed, desk, pointsVars>>

\* Mutant of Anonymize: papers of the customer keep their link.
AnonymizeKeepsPapers(k) ==
  LET c == request[desk[k].of].of IN
  /\ Holds(k, "request")
  /\ row' = [row EXCEPT ![c] = [state |-> "archived", person |-> FALSE]]
  /\ consent' = [consent EXCEPT ![c] = IF @ = "none" THEN @ ELSE "withdrawn"]
  /\ noted' = noted \ {c}
  /\ request' = [request EXCEPT ![desk[k].of].status = "completed"]
  /\ Leave(k)
  /\ UNCHANGED <<paper, renewed, pointsVars>>

\* anonymize_customer.  The request is tested as it was read: it may run twice.
Anonymize(k) ==
  LET c == request[desk[k].of].of IN
  /\ Holds(k, "request")
  /\ row' = [row EXCEPT ![c] = [state |-> "archived", person |-> FALSE]]
  /\ paper' = [d \in Papers |-> IF paper[d] = c THEN Nobody ELSE paper[d]]
  /\ consent' = [consent EXCEPT ![c] = IF @ = "none" THEN @ ELSE "withdrawn"]
  /\ noted' = noted \ {c}
  /\ request' = [request EXCEPT ![desk[k].of].status = "completed"]
  /\ Leave(k)
  /\ UNCHANGED <<renewed, pointsVars>>
-----------------------------------------------------------------------------
(* Loyalty points.                                                         *)

Move(c, to, points) ==
  account' = [account EXCEPT ![c] = [balance |-> to, entries |-> @.entries + points]]

\* award_points reads the account inside its transaction.
Award(k, points) ==
  LET c == desk[k].names IN
  /\ Holds(k, "paper") /\ desk[k].of \notin Bookings /\ c # Nobody /\ points > 0
  /\ account[c].balance + points <= MaxPoints /\ account[c].entries < MaxPoints
  /\ Move(c, account[c].balance + points, points)
  /\ Leave(k)
  /\ UNCHANGED <<fileVars, skewed>>

Skew(k) == skewed' = skewed \cup (IF account[desk[k].of].balance = desk[k].balance
                                   THEN {} ELSE {desk[k].of})

\* Mutant of Redeem: the points are taken off the balance of now, not of the copy.
RedeemNow(k, points) ==
  LET c == desk[k].of IN
  /\ Holds(k, "account")
  /\ points > 0 /\ points <= desk[k].balance /\ points >= MinimumRedeem
  /\ account[c].entries > -MaxPoints
  /\ Move(c, account[c].balance - points, -points)
  /\ Leave(k)
  /\ UNCHANGED <<fileVars, skewed>>

\* Mutant of Redeem: the entry has the sign of an award.
RedeemEarns(k, points) ==
  LET c == desk[k].of IN
  /\ Holds(k, "account")
  /\ points > 0 /\ points <= desk[k].balance /\ points >= MinimumRedeem
  /\ account[c].entries < MaxPoints
  /\ Move(c, desk[k].balance - points, points)
  /\ Skew(k) /\ Leave(k)
  /\ UNCHANGED fileVars

\* redeem_points tests and writes the balance of the instance it is given.
Redeem(k, points) ==
  LET c == desk[k].of IN
  /\ Holds(k, "account")
  /\ points > 0 /\ points <= desk[k].balance /\ points >= MinimumRedeem
  /\ account[c].entries > -MaxPoints
  /\ Move(c, desk[k].balance - points, -points)
  /\ Skew(k) /\ Leave(k)
  /\ UNCHANGED fileVars

\* LoyaltyAccountViewSet: the balance is not editable, but it is written back.
SaveAccount(k) ==
  LET c == desk[k].of IN
  /\ Holds(k, "account")
  /\ Move(c, desk[k].balance, 0)
  /\ Skew(k) /\ Leave(k)
  /\ UNCHANGED fileVars

\* LoyaltyTransactionViewSet adds and removes entries and leaves the balance.
WriteEntry(c, points) ==
  /\ account[c].entries + points \in -MaxPoints .. MaxPoints
  /\ Move(c, account[c].balance, points)
  /\ skewed' = skewed \cup {c}
  /\ UNCHANGED <<fileVars, desk>>

Next ==
  \/ \E k \in Clerks :
       \/ Read(k) \/ SaveRow(k) \/ SaveNote(k) \/ Anonymize(k) \/ SaveAccount(k)
       \/ \E c \in People : Name(k, c)
       \/ \E d \in Papers : SavePaper(k, d)
       \/ \E to \in {"given", "withdrawn"} : SaveConsent(k, to)
       \/ \E r \in Requests : RequestErasure(k, r)
       \/ \E p \in 1 .. MaxPoints : Award(k, p) \/ Redeem(k, p)
  \/ \E c \in People : GiveConsent(c) \/ AddNote(c) \/ \E p \in {-1, 1} : WriteEntry(c, p)
  \/ \E r \in Requests : Approve(r)

Spec == Init /\ [][Next]_vars
-----------------------------------------------------------------------------
\* Of what anonymize_customer takes away nothing comes back: the row does not
\* say who it was, no order or reservation is linked to it, none of its consents
\* stands and it has no visit note; but for what a handler wrote back from a copy
\* it had read before, or wrote about the customer anew (renewed).  The erasure
\* leaves more that names the person, of which nothing is said here: the guest
\* name on a reservation, the loyalty account and the waiting list.
ErasedStaysErased ==
  \A c \in People : Erased(c) =>
    /\ row[c].person => <<c, "row">> \in renewed
    /\ (\E d \in Papers : paper[d] = c) => <<c, "paper">> \in renewed
    /\ consent[c] = "given" => <<c, "consent">> \in renewed
    /\ c \in noted => <<c, "note">> \in renewed

\* However awards, redemptions and edits of the same account overlap, its
\* balance is never below zero.
NeverOwed == \A c \in People : account[c].balance >= 0

\* The balance is the sum of the entries, unless a redemption or an edit wrote
\* an old balance back or entries were written by hand.
BalanceIsEntries ==
  \A c \in People \ skewed : account[c].balance = account[c].entries
=============================================================================
