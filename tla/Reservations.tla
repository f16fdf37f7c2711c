---------------------------- MODULE Reservations ----------------------------
(***************************************************************************)
(* Reservations, the tables assigned to them, and the guests who sit down. *)
(*                                                                         *)
(* assign_tables is the only place that looks for conflicts.  It compares  *)
(* the window of the reservation instance its view loaded with the rows of *)
(* the others, and marks tables reserved from copies read before the       *)
(* transaction.  The generic endpoint writes whole rows (and the tables)   *)
(* without looking, and opening a bill makes any reservation active.       *)
(***************************************************************************)
EXTENDS Integers, FiniteSets, FiniteSetsExt

CONSTANTS
  Bookings, Tables, Clerks,
  Seats,                \* DiningTable.seats
  Times, Lengths, Parties,   \* reserved_for, duration_minutes, guest_count
  Statuses,             \* reservation statuses a request may write
  StaffWrites,          \* table statuses the table endpoint writes
  MaxParts,             \* bound: open bills on a table after a split
  MaxWrites,            \* bound: generic writes and deletions
  MaxBills,             \* bound: bills opened
  MaxRequests,          \* bound: requests the clerks start
  NoBooking, NoRow, Deleted

ASSUME BookingAssumption ==
  /\ Seats \in [Tables -> Nat] /\ Times \subseteq Int /\ Lengths \subseteq Nat
  /\ Parties \subseteq Nat /\ MaxParts \in Nat /\ MaxWrites \in Nat /\ MaxBills \in Nat /\ MaxRequests \in Nat
  /\ NoBooking \notin Bookings /\ IsFiniteSet(Tables)

TableStatus   == {"free", "reserved", "seated", "ordered", "served",
                  "bill_requested", "cleaning", "out_of_service"}
BookingStatus == {"pending", "confirmed", "seated", "completed", "cancelled", "no_show"}
Blocking      == {"pending", "confirmed", "seated"}
Row == [at : Times, long : Lengths, party : Parties, status : BookingStatus]

ASSUME StatusAssumption ==
  /\ NoRow \notin Row /\ Deleted \notin Row
  /\ Statuses \subseteq BookingStatus /\ StaffWrites \subseteq TableStatus

VARIABLES
  row,          \* Reservation rows
  tables,       \* Reservation.tables
  tableStatus,  \* DiningTable.status
  parts,        \* open bills on a table
  guest,        \* Order.reservation of the bills on a table
  paidOn,       \* tables with a paid bill that can still be voided
  desk,         \* a clerk's request: the row it loaded, then its table copies
  writes,       \* generic writes so far
  bills,        \* bills opened so far
  requests,     \* requests started so far
  unchecked,    \* history: bookings made to block after, or beside, their test
  overwritten   \* history: tables whose status was written blindly

bookVars  == <<row, tables, unchecked>>
floorVars == <<tableStatus, parts, guest, paidOn, overwritten>>
vars == <<bookVars, floorVars, desk, writes, bills, requests>>

Exists(b)  == row[b] \in Row
Ends(r)    == r.at + r.long
Overlap(r, s) == r.at < Ends(s) /\ s.at < Ends(r)
Blocks(b)  == Exists(b) /\ row[b].status \in Blocking
Step  == {"loaded", "picked", "tables"}
Desk  == [step : Step, booking : Bookings, copy : Row \cup {NoRow},
          picked : SUBSET Tables, free : SUBSET Tables]
Idle  == [step |-> "idle"]

TypeOK ==
  /\ row \in [Bookings -> Row \cup {NoRow, Deleted}]
  /\ tables \in [Bookings -> SUBSET Tables]
  /\ tableStatus \in [Tables -> TableStatus]
  /\ parts \in [Tables -> Nat]
  /\ guest \in [Tables -> Bookings \cup {NoBooking}]
  /\ paidOn \in SUBSET Tables
  /\ desk \in [Clerks -> Desk \cup {Idle}]
  /\ writes \in Nat /\ bills \in Nat /\ requests \in Nat
  /\ unchecked \in SUBSET Bookings
  /\ overwritten \in SUBSET Tables

\* Bookings taken earlier have no tables yet.
Init ==
  /\ row \in [Bookings -> {r \in Row : r.status = "confirmed"} \cup {NoRow}]
  /\ tables = [b \in Bookings |-> {}]
  /\ tableStatus = [t \in Tables |-> "free"]
  /\ parts = [t \in Tables |-> 0]
  /\ guest = [t \in Tables |-> NoBooking]
  /\ paidOn = {}
  /\ desk = [c \in Clerks |-> Idle]
  /\ writes = 0 /\ bills = 0 /\ requests = 0
  /\ unchecked = {}
  /\ overwritten = {}
-----------------------------------------------------------------------------
(* The generic endpoint: create, load, save the whole row, then the tables *)

\* A write makes b block a window, or tables, that no test has seen.
Untested(b, r, ts) ==
  /\ r.status \in Blocking
  /\ \/ ~Blocks(b)
     \/ <<r.at, r.long>> # <<row[b].at, row[b].long>>
     \/ ~(ts \subseteq tables[b])

\* POST: the row first; its tables, when given, are a later statement.
Create(c, b, r) ==
  /\ row[b] = NoRow /\ desk[c] = Idle /\ requests < MaxRequests
  /\ row' = [row EXCEPT ![b] = r]
  /\ desk' = [desk EXCEPT ![c] = [step |-> "tables", booking |-> b, copy |-> NoRow,
                                  picked |-> {}, free |-> {}]]
  /\ requests' = requests + 1
  /\ UNCHANGED <<tables, unchecked, floorVars, writes, bills>>

Load(c, b) ==
  /\ desk[c] = Idle /\ Exists(b) /\ requests < MaxRequests
  /\ desk' = [desk EXCEPT ![c] = [step |-> "loaded", booking |-> b, copy |-> row[b],
                                  picked |-> {}, free |-> {}]]
  /\ requests' = requests + 1
  /\ UNCHANGED <<bookVars, floorVars, writes, bills>>

\* One field of the loaded copy changed; saved with all its other fields.
Edits(r) == {[r EXCEPT !.at = x] : x \in Times} \cup {[r EXCEPT !.long = x] : x \in Lengths}
       \cup {[r EXCEPT !.party = x] : x \in Parties} \cup {[r EXCEPT !.status = x] : x \in Statuses}

At(c, s) == desk[c].step = s

\* save() writes the whole copy: a row deleted meanwhile is inserted again.
SaveRow(c, r) ==
  LET b == desk[c].booking IN
  /\ At(c, "loaded") /\ writes < MaxWrites /\ r \in Edits(desk[c].copy)
  /\ row' = [row EXCEPT ![b] = r]
  /\ unchecked' = unchecked \cup (IF Untested(b, r, tables[b]) THEN {b} ELSE {})
  /\ desk' = [desk EXCEPT ![c].step = "tables", ![c].copy = NoRow]
  /\ writes' = writes + 1
  /\ UNCHANGED <<tables, floorVars, bills, requests>>

\* The many-to-many write of the same request; rows and tables are not joined
\* by a transaction.
SaveTables(c, ts) ==
  LET b == desk[c].booking IN
  /\ At(c, "tables") /\ Exists(b) /\ writes < MaxWrites
  /\ tables' = [tables EXCEPT ![b] = ts]
  /\ unchecked' = unchecked \cup
       (IF Untested(b, row[b], ts) THEN {b} ELSE {})
  /\ desk' = [desk EXCEPT ![c] = Idle]
  /\ writes' = writes + 1
  /\ UNCHANGED <<row, floorVars, bills, requests>>

\* A request without tables, and a refused one, end here.
Leave(c) ==
  /\ desk[c] # Idle
  /\ desk' = [desk EXCEPT ![c] = Idle]
  /\ UNCHANGED <<bookVars, floorVars, writes, bills, requests>>

\* DELETE removes the row; the bills' reservation is set to null.
Delete(b) ==
  /\ Exists(b) /\ writes < MaxWrites
  /\ row' = [row EXCEPT ![b] = Deleted]
  /\ tables' = [tables EXCEPT ![b] = {}]
  /\ guest' = [t \in Tables |-> IF guest[t] = b THEN NoBooking ELSE guest[t]]
  /\ writes' = writes + 1
  /\ unchecked' = unchecked \ {b}
  /\ UNCHANGED <<tableStatus, parts, paidOn, overwritten, desk, bills, requests>>
-----------------------------------------------------------------------------
(* Assigning tables: the view reads the tables, the service decides.       *)

\* With no tables the capacity test refuses: that request is Leave.
Pick(c, ts) ==
  /\ At(c, "loaded") /\ ts # {}
  /\ desk' = [desk EXCEPT ![c].step = "picked", ![c].picked = ts,
                             ![c].free = {t \in ts : tableStatus[t] = "free"}]
  /\ UNCHANGED <<bookVars, floorVars, writes, bills, requests>>

StartsWithin(r, s) == r.at <= s.at /\ s.at < Ends(r)   \* mutant of Overlap
Overlaps(r, s) == Overlap(r, s)

\* find_reservation_conflicts: other blocking rows on one of the tables whose
\* window meets that of the copy.
Conflicts(b, r, ts) ==
  {o \in Bookings \ {b} : Blocks(o) /\ tables[o] \cap ts # {} /\ Overlaps(r, row[o])}

Capacity(ts) == MapThenSumSet(LAMBDA t : Seats[t], ts)

Assign(c) ==
  LET b  == desk[c].booking
      d  == desk[c]
      \* the test held for the copy: does it hold for the row?
      stale  == <<d.copy.at, d.copy.long>> # <<row[b].at, row[b].long>>
  IN
  /\ At(c, "picked") /\ Exists(b)
  /\ Conflicts(b, d.copy, d.picked) = {}
  /\ Capacity(d.picked) >= d.copy.party
  /\ tables' = [tables EXCEPT ![b] = d.picked]
  /\ tableStatus' = [t \in Tables |-> IF t \in d.free THEN "reserved" ELSE tableStatus[t]]
  /\ overwritten' = overwritten \cup {t \in d.free : tableStatus[t] # "free"}
  /\ unchecked' = IF stale THEN unchecked \cup {b} ELSE unchecked \ {b}
  /\ desk' = [desk EXCEPT ![c] = Idle]
  /\ UNCHANGED <<row, parts, guest, paidOn, writes, bills, requests>>
-----------------------------------------------------------------------------
(* Bills: opened, split, paid and voided by the order services.            *)

\* open_order with any reservation the caller holds: it becomes seated.
OpenOrder(t, b) ==
  /\ tableStatus[t] # "out_of_service" /\ parts[t] = 0 /\ bills < MaxBills
  /\ b # NoBooking => Exists(b)
  /\ tableStatus' = [tableStatus EXCEPT ![t] = "seated"]
  /\ parts' = [parts EXCEPT ![t] = 1]
  /\ guest' = [guest EXCEPT ![t] = b]
  /\ row' = [o \in Bookings |-> IF o = b THEN [row[o] EXCEPT !.status = "seated"] ELSE row[o]]
  /\ unchecked' = unchecked \cup {o \in Bookings : o = b /\ ~Blocks(o)}
  /\ overwritten' = overwritten \ {t}
  /\ bills' = bills + 1
  /\ UNCHANGED <<tables, paidOn, desk, writes, requests>>

\* One child per seat beside the source, all on the table and reservation.
Split(t, n) ==
  /\ parts[t] = 1 /\ n \in 2 .. MaxParts
  /\ parts' = [parts EXCEPT ![t] = n]
  /\ UNCHANGED <<bookVars, tableStatus, guest, paidOn, overwritten, desk, writes, bills, requests>>

\* The last payment of a part: the table is cleaned when no part is open, the
\* reservation is completed whatever else is open.
PayPart(t) ==
  /\ parts[t] > 0
  /\ parts' = [parts EXCEPT ![t] = @ - 1]
  /\ tableStatus' = IF parts[t] = 1 THEN [tableStatus EXCEPT ![t] = "cleaning"] ELSE tableStatus
  /\ row' = [o \in Bookings |->
       IF o = guest[t] THEN [row[o] EXCEPT !.status = "completed"] ELSE row[o]]
  /\ paidOn' = paidOn \cup {t}
  /\ UNCHANGED <<tables, unchecked, guest, overwritten, desk, writes, bills, requests>>

\* Mutant of VoidPart: the table is freed without looking for other bills.
VoidFrees(t) ==
  /\ parts[t] > 0
  /\ parts' = [parts EXCEPT ![t] = @ - 1]
  /\ tableStatus' = [tableStatus EXCEPT ![t] = "free"]
  /\ UNCHANGED <<bookVars, guest, paidOn, overwritten, desk, writes, bills, requests>>

\* An open part or a paid bill is voided; the reservation keeps its status.
VoidPart(t) ==
  /\ \/ parts[t] > 0 /\ parts' = [parts EXCEPT ![t] = @ - 1]
     \/ t \in paidOn /\ parts' = parts
  /\ tableStatus' = IF parts'[t] = 0 THEN [tableStatus EXCEPT ![t] = "free"] ELSE tableStatus
  /\ UNCHANGED <<bookVars, guest, paidOn, overwritten, desk, writes, bills, requests>>

\* The table endpoint writes any status, also from a stale copy.
WriteTable(t, s) ==
  /\ tableStatus[t] # s /\ writes < MaxWrites
  /\ tableStatus' = [tableStatus EXCEPT ![t] = s]
  /\ overwritten' = overwritten \cup {t}
  /\ writes' = writes + 1
  /\ UNCHANGED <<bookVars, parts, guest, paidOn, desk, bills, requests>>

Next ==
  \/ \E c \in Clerks, b \in Bookings :
       \/ \E x \in Times, l \in Lengths, p \in Parties, s \in Statuses :
            Create(c, b, [at |-> x, long |-> l, party |-> p, status |-> s])
       \/ Load(c, b)
  \/ \E c \in Clerks :
       \/ \E r \in Row : SaveRow(c, r)
       \/ \E ts \in SUBSET Tables : SaveTables(c, ts) \/ Pick(c, ts)
       \/ Assign(c) \/ Leave(c)
  \/ \E b \in Bookings : Delete(b)
  \/ \E t \in Tables :
       \/ \E b \in Bookings \cup {NoBooking} : OpenOrder(t, b)
       \/ \E n \in 2 .. MaxParts : Split(t, n)
       \/ PayPart(t) \/ VoidPart(t)
       \/ \E s \in StaffWrites : WriteTable(t, s)

Spec == Init /\ [][Next]_vars
-----------------------------------------------------------------------------
\* Two blocking reservations never hold one table for overlapping times,
\* unless one of them came to block its time or its tables without the test of
\* assign_tables: by a generic write, by seating a closed reservation, or by
\* an assignment decided on a copy whose time had been changed meanwhile.
NoDoubleBooking ==
  \A b, o \in Bookings \ unchecked :
    b # o /\ Blocks(b) /\ Blocks(o) /\ tables[b] \cap tables[o] # {}
      => ~Overlap(row[b], row[o])

\* A table with an open bill is not shown free or reserved by any order of
\* payments, voids, splits and assignments, unless the table endpoint or an
\* assignment from a copy read before the guests sat down overwrote it.
GuestsKeepTheirTable ==
  \A t \in Tables : parts[t] > 0 /\ t \notin overwritten
                      => tableStatus[t] \notin {"free", "reserved", "cleaning"}
=============================================================================
