------------------------ MODULE Reservations_proofs ------------------------
(***************************************************************************)
(* Type correctness of Reservations, and that tested bookings never share  *)
(* a table for overlapping times, for any bookings, tables, clerks, hours  *)
(* and bounds.  The second needs one fact more: a booking that was deleted *)
(* holds no tables, so creating it again cannot collide.                   *)
(***************************************************************************)
EXTENDS Reservations, TLAPS

DeletedHoldNothing == \A b \in Bookings : ~Exists(b) => tables[b] = {}
GuestsExist == \A t \in Tables : guest[t] \in Bookings => Exists(guest[t])
Inv == TypeOK /\ DeletedHoldNothing /\ GuestsExist /\ NoDoubleBooking

\* The state predicates in terms of the booking variables only.
LEMMA BookingsOnly ==
  ASSUME UNCHANGED <<bookVars, guest>>
  PROVE  /\ DeletedHoldNothing => DeletedHoldNothing'
         /\ GuestsExist => GuestsExist'
         /\ NoDoubleBooking => NoDoubleBooking'
BY DEF bookVars, DeletedHoldNothing, GuestsExist, NoDoubleBooking, Exists, Blocks

LEMMA InitType == Init => Inv
<1> SUFFICES ASSUME Init PROVE Inv
  OBVIOUS
<1>1. TypeOK
  BY DEF Init, TypeOK, Row, BookingStatus, TableStatus, Desk, Idle
<1>2. DeletedHoldNothing /\ GuestsExist /\ NoDoubleBooking
  BY BookingAssumption DEF Init, DeletedHoldNothing, GuestsExist, NoDoubleBooking, BookingAssumption
<1> QED BY <1>1, <1>2 DEF Inv

\* A clerk's desk keeps its type when its step, or its picked tables, change.
LEMMA DeskMove ==
  ASSUME TypeOK, NEW c \in Clerks, NEW d \in Desk \cup {Idle},
         desk' = [desk EXCEPT ![c] = d]
  PROVE  desk' \in [Clerks -> Desk \cup {Idle}]
BY DEF TypeOK

LEMMA DeskIs ==
  ASSUME TypeOK, NEW c \in Clerks, desk[c].step # "idle"
  PROVE  desk[c] \in Desk
BY DEF TypeOK, Idle

\* The type of each variable a clerk's request changes.
LEMMA ClerkType ==
  ASSUME BookingAssumption, StatusAssumption, TypeOK, NEW c \in Clerks, NEW b \in Bookings
  PROVE  /\ \A x \in Times, l \in Lengths, p \in Parties, s \in Statuses :
              Create(c, b, [at |-> x, long |-> l, party |-> p, status |-> s]) => TypeOK'
         /\ Load(c, b) => TypeOK'
<1>1. ASSUME NEW x \in Times, NEW l \in Lengths, NEW p \in Parties, NEW s \in Statuses,
             Create(c, b, [at |-> x, long |-> l, party |-> p, status |-> s])
      PROVE  TypeOK'
  <2> DEFINE r == [at |-> x, long |-> l, party |-> p, status |-> s]
  <2>1. r \in Row BY StatusAssumption DEF Row, StatusAssumption
  <2>2. Create(c, b, r) BY <1>1
  <2> HIDE DEF r
  <2>3. row' \in [Bookings -> Row \cup {NoRow, Deleted}] BY <2>1, <2>2 DEF Create, TypeOK
  <2>4. desk' \in [Clerks -> Desk \cup {Idle}]
    <3>1. [step |-> "tables", booking |-> b, copy |-> NoRow, picked |-> {}, free |-> {}] \in Desk
      BY DEF Desk, Step
    <3> QED BY <3>1, <2>2, DeskMove DEF Create
  <2>5. requests' \in Nat BY <2>2 DEF Create, TypeOK
  <2> QED BY <2>2, <2>3, <2>4, <2>5 DEF Create, TypeOK, floorVars
<1>2. ASSUME Load(c, b) PROVE TypeOK'
  <2>1. [step |-> "loaded", booking |-> b, copy |-> row[b], picked |-> {}, free |-> {}] \in Desk
    BY <1>2 DEF Desk, Step, Load, Exists
  <2>2. desk' \in [Clerks -> Desk \cup {Idle}] BY <2>1, <1>2, DeskMove DEF Load
  <2>3. requests' \in Nat BY <1>2 DEF Load, TypeOK
  <2> QED BY <1>2, <2>2, <2>3 DEF Load, TypeOK, floorVars, bookVars
<1> QED BY <1>1, <1>2

LEMMA DeleteType ==
  ASSUME BookingAssumption, TypeOK, NEW b \in Bookings, Delete(b)
  PROVE  TypeOK'
<1>1. /\ row' \in [Bookings -> Row \cup {NoRow, Deleted}]
      /\ tables' \in [Bookings -> SUBSET Tables]
      /\ guest' \in [Tables -> Bookings \cup {NoBooking}]
      /\ unchecked' \in SUBSET Bookings
  BY DEF Delete, TypeOK
<1>2. writes' \in Nat BY DEF Delete, TypeOK
<1> QED BY <1>1, <1>2 DEF Delete, TypeOK

LEMMA ServiceType ==
  ASSUME BookingAssumption, StatusAssumption, TypeOK, NEW c \in Clerks
  PROVE  /\ \A r \in Row : SaveRow(c, r) => TypeOK'
         /\ \A ts \in SUBSET Tables : SaveTables(c, ts) => TypeOK'
         /\ \A ts \in SUBSET Tables : Pick(c, ts) => TypeOK'
         /\ Assign(c) => TypeOK'
<1>1. ASSUME NEW r \in Row, SaveRow(c, r) PROVE TypeOK'
  <2>1. desk[c] \in Desk BY <1>1, DeskIs DEF SaveRow, At
  <2>2. desk' = [desk EXCEPT ![c] = [desk[c] EXCEPT !.step = "tables", !.copy = NoRow]]
    BY <1>1 DEF SaveRow
  <2>3. [desk[c] EXCEPT !.step = "tables", !.copy = NoRow] \in Desk BY <2>1 DEF Desk, Step
  <2>4. desk' \in [Clerks -> Desk \cup {Idle}] BY <2>2, <2>3, DeskMove
  <2>5. /\ row' \in [Bookings -> Row \cup {NoRow, Deleted}]
        /\ unchecked' \in SUBSET Bookings
    BY <1>1, <2>1 DEF SaveRow, TypeOK, Desk
  <2>6. writes' \in Nat BY <1>1 DEF SaveRow, TypeOK
  <2> QED BY <1>1, <2>4, <2>5, <2>6 DEF SaveRow, TypeOK, floorVars
<1>2. ASSUME NEW ts \in SUBSET Tables, SaveTables(c, ts) PROVE TypeOK'
  <2>1. desk[c] \in Desk BY <1>2, DeskIs DEF SaveTables, At
  <2>2. desk' \in [Clerks -> Desk \cup {Idle}] BY <1>2, DeskMove DEF SaveTables
  <2>3. /\ tables' \in [Bookings -> SUBSET Tables]
        /\ unchecked' \in SUBSET Bookings
    BY <1>2, <2>1 DEF SaveTables, TypeOK, Desk
  <2>4. writes' \in Nat BY <1>2 DEF SaveTables, TypeOK
  <2> QED BY <1>2, <2>2, <2>3, <2>4 DEF SaveTables, TypeOK, floorVars
<1>3. ASSUME NEW ts \in SUBSET Tables, Pick(c, ts) PROVE TypeOK'
  <2>1. desk[c] \in Desk BY <1>3, DeskIs DEF Pick, At
  <2> DEFINE d == [desk[c] EXCEPT !.step = "picked", !.picked = ts,
                                  !.free = {t \in ts : tableStatus[t] = "free"}]
  <2>2. desk' = [desk EXCEPT ![c] = d] BY <1>3 DEF Pick
  <2>3. d \in Desk BY <2>1 DEF Desk, Step
  <2> HIDE DEF d
  <2>4. desk' \in [Clerks -> Desk \cup {Idle}] BY <2>2, <2>3, DeskMove
  <2> QED BY <1>3, <2>4 DEF Pick, TypeOK, floorVars, bookVars
<1>4. ASSUME Assign(c) PROVE TypeOK'
  <2>1. desk[c] \in Desk BY <1>4, DeskIs DEF Assign, At
  <2>2. desk' \in [Clerks -> Desk \cup {Idle}] BY <1>4, DeskMove DEF Assign
  <2>3. tables' \in [Bookings -> SUBSET Tables]
    BY <1>4, <2>1 DEF Assign, TypeOK, Desk
  <2>4. unchecked' \in SUBSET Bookings
    BY <1>4, <2>1 DEF Assign, TypeOK, Desk
  <2>5. tableStatus' \in [Tables -> TableStatus]
    BY <1>4 DEF Assign, TypeOK, TableStatus
  <2>6. overwritten' \in SUBSET Tables
    BY <1>4, <2>1 DEF Assign, TypeOK, Desk
  <2> QED BY <1>4, <2>2, <2>3, <2>4, <2>5, <2>6 DEF Assign, TypeOK
<1> QED BY <1>1, <1>2, <1>3, <1>4

LEMMA FloorType ==
  ASSUME BookingAssumption, StatusAssumption, TypeOK, GuestsExist, NEW t \in Tables
  PROVE  /\ \A b \in Bookings \cup {NoBooking} : OpenOrder(t, b) => TypeOK'
         /\ \A n \in 2 .. MaxParts : Split(t, n) => TypeOK'
         /\ PayPart(t) => TypeOK'
         /\ VoidPart(t) => TypeOK'
         /\ \A s \in StaffWrites : WriteTable(t, s) => TypeOK'
<1>1. ASSUME NEW b \in Bookings \cup {NoBooking}, OpenOrder(t, b) PROVE TypeOK'
  <2>1. /\ tableStatus' \in [Tables -> TableStatus]
        /\ guest' \in [Tables -> Bookings \cup {NoBooking}]
    BY <1>1 DEF OpenOrder, TypeOK, TableStatus
  <2>2. parts' \in [Tables -> Nat] BY <1>1 DEF OpenOrder, TypeOK
  <2>3. row' \in [Bookings -> Row \cup {NoRow, Deleted}]
    <3> SUFFICES ASSUME NEW o \in Bookings
                 PROVE (IF o = b THEN [row[o] EXCEPT !.status = "seated"] ELSE row[o])
                         \in Row \cup {NoRow, Deleted}
      BY <1>1 DEF OpenOrder
    <3>1. CASE o = b
      <4>1. row[o] \in Row BY <1>1, <3>1, BookingAssumption
        DEF OpenOrder, Exists, BookingAssumption
      <4> QED BY <3>1, <4>1 DEF Row, BookingStatus
    <3>2. CASE o # b BY <3>2 DEF TypeOK
    <3> QED BY <3>1, <3>2
  <2>4. unchecked' \in SUBSET Bookings /\ overwritten' \in SUBSET Tables
    BY <1>1 DEF OpenOrder, TypeOK
  <2>5. bills' \in Nat BY <1>1 DEF OpenOrder, TypeOK
  <2> QED BY <1>1, <2>1, <2>2, <2>3, <2>4, <2>5 DEF OpenOrder, TypeOK
<1>2. ASSUME NEW n \in 2 .. MaxParts, Split(t, n) PROVE TypeOK'
  <2>1. parts' \in [Tables -> Nat] BY <1>2, BookingAssumption DEF Split, TypeOK, BookingAssumption
  <2> QED BY <1>2, <2>1 DEF Split, TypeOK, bookVars
<1>3. ASSUME PayPart(t) PROVE TypeOK'
  <2>1. row' \in [Bookings -> Row \cup {NoRow, Deleted}]
    <3> SUFFICES ASSUME NEW o \in Bookings
                 PROVE (IF o = guest[t] THEN [row[o] EXCEPT !.status = "completed"] ELSE row[o])
                         \in Row \cup {NoRow, Deleted}
      BY <1>3 DEF PayPart
    <3>1. CASE o = guest[t]
      <4>1. row[o] \in Row BY <3>1 DEF GuestsExist, Exists
      <4> QED BY <3>1, <4>1 DEF Row, BookingStatus
    <3>2. CASE o # guest[t] BY <3>2 DEF TypeOK
    <3> QED BY <3>1, <3>2
  <2>2. parts' \in [Tables -> Nat]
    <3>1. parts[t] \in Nat /\ parts[t] > 0 BY <1>3 DEF PayPart, TypeOK
    <3>2. parts[t] - 1 \in Nat BY <3>1
    <3> QED BY <1>3, <3>2 DEF PayPart, TypeOK
  <2>3. tableStatus' \in [Tables -> TableStatus]
    BY <1>3 DEF PayPart, TypeOK, TableStatus
  <2>4. paidOn' \in SUBSET Tables BY <1>3 DEF PayPart, TypeOK
  <2> QED BY <1>3, <2>1, <2>2, <2>3, <2>4 DEF PayPart, TypeOK
<1>4. ASSUME VoidPart(t) PROVE TypeOK'
  <2>1. parts' \in [Tables -> Nat]
    <3>1. CASE parts[t] > 0 /\ parts' = [parts EXCEPT ![t] = @ - 1]
      <4>1. parts[t] \in Nat BY DEF TypeOK
      <4>2. parts[t] - 1 \in Nat BY <3>1, <4>1
      <4> QED BY <3>1, <4>2 DEF TypeOK
    <3>2. CASE parts' = parts BY <3>2 DEF TypeOK
    <3> QED BY <1>4, <3>1, <3>2 DEF VoidPart
  <2>2. tableStatus' \in [Tables -> TableStatus]
    BY <1>4 DEF VoidPart, TypeOK, TableStatus
  <2> QED BY <1>4, <2>1, <2>2 DEF VoidPart, TypeOK, bookVars
<1>5. ASSUME NEW s \in StaffWrites, WriteTable(t, s) PROVE TypeOK'
  <2>1. tableStatus' \in [Tables -> TableStatus]
    BY <1>5, StatusAssumption DEF WriteTable, TypeOK, StatusAssumption
  <2>2. overwritten' \in SUBSET Tables BY <1>5 DEF WriteTable, TypeOK
  <2>3. writes' \in Nat BY <1>5 DEF WriteTable, TypeOK
  <2> QED BY <1>5, <2>1, <2>2, <2>3 DEF WriteTable, TypeOK, bookVars
<1> QED BY <1>1, <1>2, <1>3, <1>4, <1>5

\* The generic endpoint keeps the facts about bookings: what it makes block
\* without a test it also records as unchecked.
LEMMA WriteKeeps ==
  ASSUME BookingAssumption, StatusAssumption, Inv, NEW c \in Clerks, NEW b \in Bookings, NEW r \in Row,
         \/ Create(c, b, r) \/ SaveRow(c, r)
         \/ \E ts \in SUBSET Tables : SaveTables(c, ts)
  PROVE  DeletedHoldNothing' /\ GuestsExist' /\ NoDoubleBooking'
<1>1. CASE Create(c, b, r)
  <2>2. tables[b] = {} BY <1>1, StatusAssumption DEF Create, Inv, DeletedHoldNothing, Exists, StatusAssumption
  <2>3. row' = [row EXCEPT ![b] = r] /\ UNCHANGED <<tables, guest, unchecked>>
    BY <1>1 DEF Create, floorVars
  <2>4. row \in [Bookings -> Row \cup {NoRow, Deleted}] BY DEF Inv, TypeOK
  <2>5. DeletedHoldNothing' /\ GuestsExist'
    BY <2>3, <2>4 DEF Inv, DeletedHoldNothing, GuestsExist, Exists
  <2>6. NoDoubleBooking'
    BY <2>2, <2>3, <2>4 DEF Inv, NoDoubleBooking, Blocks, Exists
  <2> QED BY <2>5, <2>6
<1>2. CASE SaveRow(c, r)
  <2> DEFINE k == desk[c].booking
  <2>1. k \in Bookings BY <1>2, DeskIs DEF SaveRow, At, Desk, Inv
  <2>2. row' = [row EXCEPT ![k] = r] /\ UNCHANGED <<tables, guest>>
        /\ unchecked' = unchecked \cup (IF Untested(k, r, tables[k]) THEN {k} ELSE {})
    BY <1>2 DEF SaveRow, floorVars
  <2>3. row \in [Bookings -> Row \cup {NoRow, Deleted}] BY DEF Inv, TypeOK
  <2> HIDE DEF k
  <2>6. DeletedHoldNothing' /\ GuestsExist'
    BY <2>1, <2>2, <2>3 DEF Inv, DeletedHoldNothing, GuestsExist, Exists
  <2>7. NoDoubleBooking'
    <3> SUFFICES ASSUME NEW x \in Bookings, NEW y \in Bookings,
                        x \notin unchecked', y \notin unchecked', x # y,
                        Blocks(x)', Blocks(y)', tables[x] \cap tables[y] # {}
                 PROVE  ~Overlap(row'[x], row'[y])
      BY <2>2 DEF NoDoubleBooking
    <3>1. \A z \in {x, y} : Blocks(z) /\ row'[z].at = row[z].at /\ row'[z].long = row[z].long
      BY <2>1, <2>2, <2>3 DEF Untested, Blocks, Exists
    <3> QED BY <3>1, <2>2 DEF Inv, NoDoubleBooking, Overlap, Ends
  <2> QED BY <2>6, <2>7
<1>3. CASE \E ts \in SUBSET Tables : SaveTables(c, ts)
  <2> PICK ts \in SUBSET Tables : SaveTables(c, ts) BY <1>3
  <2> DEFINE k == desk[c].booking
  <2>1. k \in Bookings BY DeskIs DEF SaveTables, At, Desk, Inv
  <2>2. tables' = [tables EXCEPT ![k] = ts] /\ UNCHANGED <<row, guest>> /\ Exists(k)
        /\ unchecked' = unchecked \cup (IF Untested(k, row[k], ts) THEN {k} ELSE {})
    BY DEF SaveTables, floorVars
  <2>3. tables \in [Bookings -> SUBSET Tables] BY DEF Inv, TypeOK
  <2> HIDE DEF k
  <2>4. DeletedHoldNothing' /\ GuestsExist'
    BY <2>1, <2>2, <2>3 DEF Inv, DeletedHoldNothing, GuestsExist, Exists
  <2>5. NoDoubleBooking'
    <3> SUFFICES ASSUME NEW x \in Bookings, NEW y \in Bookings,
                        x \notin unchecked', y \notin unchecked', x # y,
                        Blocks(x), Blocks(y), tables'[x] \cap tables'[y] # {}
                 PROVE  ~Overlap(row[x], row[y])
      BY <2>2 DEF NoDoubleBooking, Blocks, Exists
    <3>1. \A z \in {x, y} : tables'[z] \subseteq tables[z]
      BY <2>1, <2>2, <2>3 DEF Untested, Blocks
    <3>2. tables[x] \cap tables[y] # {} BY <3>1
    <3>3. x \notin unchecked /\ y \notin unchecked BY <2>2
    <3> QED BY <3>2, <3>3 DEF Inv, NoDoubleBooking
  <2> QED BY <2>4, <2>5
<1> QED BY <1>1, <1>2, <1>3

\* A deleted booking lets go of its tables and of the bills that named it.
LEMMA DeleteKeeps ==
  ASSUME BookingAssumption, StatusAssumption, Inv, NEW b \in Bookings, Delete(b)
  PROVE  DeletedHoldNothing' /\ GuestsExist' /\ NoDoubleBooking'
<1>1. /\ row' = [row EXCEPT ![b] = Deleted] /\ tables' = [tables EXCEPT ![b] = {}]
        /\ guest' = [t \in Tables |-> IF guest[t] = b THEN NoBooking ELSE guest[t]]
        /\ unchecked' = unchecked \ {b}
  BY DEF Delete
<1>2. row \in [Bookings -> Row \cup {NoRow, Deleted}] /\ tables \in [Bookings -> SUBSET Tables]
        /\ guest \in [Tables -> Bookings \cup {NoBooking}]
  BY DEF Inv, TypeOK
<1>3. DeletedHoldNothing' BY <1>1, <1>2 DEF Inv, DeletedHoldNothing, Exists
<1>4. GuestsExist'
  BY <1>1, <1>2, BookingAssumption DEF Inv, GuestsExist, Exists, BookingAssumption
<1>5. NoDoubleBooking' BY <1>1, <1>2 DEF Inv, NoDoubleBooking, Blocks, Exists
<1> QED BY <1>3, <1>4, <1>5

\* An assignment that passes the test cannot collide: the others that block on
\* its tables do not overlap the copy's window, and the copy's is the row's.
LEMMA AssignKeeps ==
  ASSUME BookingAssumption, Inv, NEW c \in Clerks, Assign(c)
  PROVE  DeletedHoldNothing' /\ GuestsExist' /\ NoDoubleBooking'
<1> DEFINE k == desk[c].booking
           r == desk[c].copy
           ts == desk[c].picked
<1>1. k \in Bookings /\ ts \subseteq Tables BY DeskIs DEF Assign, At, Desk, Inv
<1>2. /\ Exists(k) /\ Conflicts(k, r, ts) = {}
      /\ tables' = [tables EXCEPT ![k] = ts] /\ UNCHANGED <<row, guest>>
      /\ unchecked' = IF <<r.at, r.long>> # <<row[k].at, row[k].long>>
                        THEN unchecked \cup {k} ELSE unchecked \ {k}
  BY DEF Assign
<1>3. tables \in [Bookings -> SUBSET Tables] BY DEF Inv, TypeOK
<1> HIDE DEF k, r, ts
<1>4. DeletedHoldNothing' /\ GuestsExist'
  BY <1>1, <1>2, <1>3 DEF Inv, DeletedHoldNothing, GuestsExist, Exists
<1>5. ASSUME NEW y \in Bookings, y # k, Blocks(y), ts \cap tables[y] # {}, k \notin unchecked'
      PROVE  ~Overlap(row[k], row[y])
  <2>1. ~Overlap(r, row[y]) BY <1>2, <1>5 DEF Conflicts, Overlaps
  <2>2. r.at = row[k].at /\ r.long = row[k].long BY <1>2, <1>5
  <2> QED BY <2>1, <2>2 DEF Overlap, Ends
<1>6. NoDoubleBooking'
  <2> SUFFICES ASSUME NEW x \in Bookings, NEW y \in Bookings,
                      x \notin unchecked', y \notin unchecked', x # y,
                      Blocks(x), Blocks(y), tables'[x] \cap tables'[y] # {}
               PROVE  ~Overlap(row[x], row[y])
    BY <1>2 DEF NoDoubleBooking, Blocks, Exists
  <2>1. CASE x = k
    <3>1. tables'[x] = ts /\ tables'[y] = tables[y] BY <2>1, <1>1, <1>2, <1>3
    <3> QED BY <3>1, <2>1, <1>5
  <2>2. CASE y = k
    <3>1. tables'[y] = ts /\ tables'[x] = tables[x] BY <2>2, <1>1, <1>2, <1>3
    <3>2. ~Overlap(row[y], row[x]) BY <3>1, <2>2, <1>5
    <3> QED BY <3>2 DEF Overlap
  <2>3. CASE x # k /\ y # k
    <3>1. tables'[x] = tables[x] /\ tables'[y] = tables[y] BY <2>3, <1>1, <1>2, <1>3
    <3>2. x \notin unchecked /\ y \notin unchecked BY <2>3, <1>2
    <3> QED BY <3>1, <3>2 DEF Inv, NoDoubleBooking
  <2> QED BY <2>1, <2>2, <2>3
<1> QED BY <1>4, <1>6

\* Seating makes a booking block; one that did not before becomes unchecked.
\* Paying ends the blocking, windows and tables stay.
LEMMA BillKeeps ==
  ASSUME BookingAssumption, Inv, NEW t \in Tables, NEW b \in Bookings \cup {NoBooking},
         OpenOrder(t, b) \/ PayPart(t)
  PROVE  DeletedHoldNothing' /\ GuestsExist' /\ NoDoubleBooking'
<1>1. row \in [Bookings -> Row \cup {NoRow, Deleted}] /\ guest \in [Tables -> Bookings \cup {NoBooking}]
  BY DEF Inv, TypeOK
<1>2. CASE OpenOrder(t, b)
  <2>1. /\ row' = [o \in Bookings |-> IF o = b THEN [row[o] EXCEPT !.status = "seated"] ELSE row[o]]
        /\ guest' = [guest EXCEPT ![t] = b] /\ UNCHANGED tables
        /\ unchecked' = unchecked \cup {o \in Bookings : o = b /\ ~Blocks(o)}
        /\ (b # NoBooking => Exists(b))
    BY <1>2 DEF OpenOrder
  <2>2. \A o \in Bookings : /\ Exists(o) <=> Exists(o)'
                            /\ Exists(o) => row'[o].at = row[o].at /\ row'[o].long = row[o].long
    <3> SUFFICES ASSUME NEW o \in Bookings
                 PROVE  /\ Exists(o) <=> Exists(o)'
                        /\ Exists(o) => row'[o].at = row[o].at /\ row'[o].long = row[o].long
      OBVIOUS
    <3>1. CASE o = b
      <4>1. row[o] \in Row /\ row'[o] = [row[o] EXCEPT !.status = "seated"]
        BY <2>1, <3>1, BookingAssumption DEF Exists, BookingAssumption
      <4>2. row'[o] \in Row BY <4>1 DEF Row, BookingStatus
      <4>3. row'[o].at = row[o].at /\ row'[o].long = row[o].long BY <4>1 DEF Row
      <4> QED BY <4>1, <4>2, <4>3 DEF Exists
    <3>2. CASE o # b BY <2>1, <3>2 DEF Exists
    <3> QED BY <3>1, <3>2
  <2>3. DeletedHoldNothing' BY <2>1, <2>2 DEF Inv, DeletedHoldNothing
  <2>4. GuestsExist'
    <3> SUFFICES ASSUME NEW u \in Tables, guest'[u] \in Bookings PROVE row'[guest'[u]] \in Row
      BY DEF GuestsExist, Exists
    <3>1. CASE u = t
      BY <3>1, <1>1, <2>1, <2>2, BookingAssumption DEF BookingAssumption, Exists
    <3>2. CASE u # t
      BY <3>2, <1>1, <2>1, <2>2 DEF Inv, GuestsExist, Exists
    <3> QED BY <3>1, <3>2
  <2>5. NoDoubleBooking'
    <3> SUFFICES ASSUME NEW x \in Bookings, NEW y \in Bookings,
                        x \notin unchecked', y \notin unchecked', x # y,
                        Blocks(x)', Blocks(y)', tables[x] \cap tables[y] # {}
                 PROVE  ~Overlap(row'[x], row'[y])
      BY <2>1 DEF NoDoubleBooking
    <3>1. Blocks(x) /\ Blocks(y) BY <2>1, <2>2 DEF Blocks
    <3>2. ~Overlap(row[x], row[y]) BY <3>1, <2>1 DEF Inv, NoDoubleBooking
    <3> QED BY <3>1, <3>2, <2>2 DEF Overlap, Ends, Blocks
  <2> QED BY <2>3, <2>4, <2>5
<1>3. CASE PayPart(t)
  <2> DEFINE g == guest[t]
  <2>1. /\ row' = [o \in Bookings |-> IF o = g THEN [row[o] EXCEPT !.status = "completed"] ELSE row[o]]
        /\ UNCHANGED <<tables, unchecked, guest>>
    BY <1>3 DEF PayPart
  <2>2. g \in Bookings => row[g] \in Row BY DEF Inv, GuestsExist, Exists
  <2> HIDE DEF g
  <2>3. \A o \in Bookings : /\ Exists(o) <=> Exists(o)'
                            /\ o = g => row'[o].status = "completed"
                            /\ o # g => row'[o] = row[o]
    <3> SUFFICES ASSUME NEW o \in Bookings
                 PROVE  /\ Exists(o) <=> Exists(o)'
                        /\ o = g => row'[o].status = "completed"
                        /\ o # g => row'[o] = row[o]
      OBVIOUS
    <3>1. CASE o = g
      <4>1. row[o] \in Row /\ row'[o] = [row[o] EXCEPT !.status = "completed"]
        BY <2>1, <2>2, <3>1
      <4>2. row'[o] \in Row /\ row'[o].status = "completed" BY <4>1 DEF Row, BookingStatus
      <4> QED BY <4>1, <4>2, <3>1 DEF Exists
    <3>2. CASE o # g BY <2>1, <3>2 DEF Exists
    <3> QED BY <3>1, <3>2
  <2>4. DeletedHoldNothing' BY <2>1, <2>3 DEF Inv, DeletedHoldNothing
  <2>5. GuestsExist' BY <1>1, <2>1, <2>3 DEF Inv, GuestsExist, Exists
  <2>6. NoDoubleBooking'
    <3> SUFFICES ASSUME NEW x \in Bookings, NEW y \in Bookings,
                        x \notin unchecked, y \notin unchecked, x # y,
                        Blocks(x)', Blocks(y)', tables[x] \cap tables[y] # {}
                 PROVE  ~Overlap(row'[x], row'[y])
      BY <2>1 DEF NoDoubleBooking
    <3>1. x # g /\ y # g BY <2>3 DEF Blocks, Blocking
    <3>2. row'[x] = row[x] /\ row'[y] = row[y] BY <3>1, <2>3
    <3>3. Blocks(x) /\ Blocks(y) BY <3>2 DEF Blocks, Exists
    <3> QED BY <3>2, <3>3 DEF Inv, NoDoubleBooking
  <2> QED BY <2>4, <2>5, <2>6
<1> QED BY <1>2, <1>3

LEMMA NextKeeps ==
  ASSUME BookingAssumption, StatusAssumption, Inv, [Next]_vars
  PROVE  Inv'
<1>0. TypeOK /\ GuestsExist BY DEF Inv
<1>1. CASE \E c \in Clerks, b \in Bookings, x \in Times, l \in Lengths, p \in Parties, s \in Statuses :
             Create(c, b, [at |-> x, long |-> l, party |-> p, status |-> s])
  <2> PICK c \in Clerks, b \in Bookings, x \in Times, l \in Lengths, p \in Parties, s \in Statuses :
        Create(c, b, [at |-> x, long |-> l, party |-> p, status |-> s])
    BY <1>1
  <2>1. [at |-> x, long |-> l, party |-> p, status |-> s] \in Row
    BY StatusAssumption DEF Row, StatusAssumption
  <2>2. TypeOK' BY <1>0, ClerkType
  <2>3. DeletedHoldNothing' /\ GuestsExist' /\ NoDoubleBooking' BY <2>1, WriteKeeps
  <2> QED BY <2>2, <2>3 DEF Inv
<1>2. CASE \E c \in Clerks, b \in Bookings : Load(c, b)
  <2> PICK c \in Clerks, b \in Bookings : Load(c, b) BY <1>2
  <2>1. TypeOK' BY <1>0, ClerkType
  <2>2. UNCHANGED <<bookVars, guest>> BY DEF Load, floorVars
  <2> QED BY <2>1, <2>2, BookingsOnly DEF Inv
<1>3. CASE \E c \in Clerks : \E r \in Row : SaveRow(c, r)
  <2> PICK c \in Clerks, r \in Row : SaveRow(c, r) BY <1>3
  <2>1. TypeOK' BY <1>0, ServiceType
  <2>2. desk[c].booking \in Bookings BY <1>0, DeskIs DEF SaveRow, At, Desk
  <2>3. DeletedHoldNothing' /\ GuestsExist' /\ NoDoubleBooking' BY <2>2, WriteKeeps
  <2> QED BY <2>1, <2>3 DEF Inv
<1>4. CASE \E c \in Clerks : \E ts \in SUBSET Tables : SaveTables(c, ts)
  <2> PICK c \in Clerks, ts \in SUBSET Tables : SaveTables(c, ts) BY <1>4
  <2>1. TypeOK' BY <1>0, ServiceType
  <2>2. desk[c].booking \in Bookings BY <1>0, DeskIs DEF SaveTables, At, Desk
  <2>3. Exists(desk[c].booking) BY DEF SaveTables
  <2>4. DeletedHoldNothing' /\ GuestsExist' /\ NoDoubleBooking'
    BY <2>2, <2>3, WriteKeeps DEF Exists
  <2> QED BY <2>1, <2>4 DEF Inv
<1>5. CASE \E c \in Clerks : \E ts \in SUBSET Tables : Pick(c, ts)
  <2> PICK c \in Clerks, ts \in SUBSET Tables : Pick(c, ts) BY <1>5
  <2>1. TypeOK' BY <1>0, ServiceType
  <2>2. UNCHANGED <<bookVars, guest>> BY DEF Pick, floorVars
  <2> QED BY <2>1, <2>2, BookingsOnly DEF Inv
<1>6. CASE \E c \in Clerks : Assign(c)
  BY <1>0, <1>6, ServiceType, AssignKeeps DEF Inv
<1>7. CASE \E c \in Clerks : Leave(c)
  <2> PICK c \in Clerks : Leave(c) BY <1>7
  <2>1. UNCHANGED <<bookVars, guest>> BY DEF Leave, floorVars
  <2>2. desk' \in [Clerks -> Desk \cup {Idle}] BY <1>0, DeskMove DEF Leave
  <2>3. TypeOK' BY <1>0, <2>2 DEF Leave, TypeOK, floorVars, bookVars
  <2> QED BY <2>1, <2>3, BookingsOnly DEF Inv
<1>8. CASE \E b \in Bookings : Delete(b)
  <2> PICK b \in Bookings : Delete(b) BY <1>8
  <2>1. row[b] \in Row BY DEF Delete, Exists
  <2>2. TypeOK' BY <1>0, DeleteType
  <2>3. DeletedHoldNothing' /\ GuestsExist' /\ NoDoubleBooking' BY DeleteKeeps
  <2> QED BY <2>2, <2>3 DEF Inv
<1>9. CASE \E t \in Tables : \E b \in Bookings \cup {NoBooking} : OpenOrder(t, b)
  <2> PICK t \in Tables, b \in Bookings \cup {NoBooking} : OpenOrder(t, b) BY <1>9
  <2>1. TypeOK' BY <1>0, FloorType
  <2>2. DeletedHoldNothing' /\ GuestsExist' /\ NoDoubleBooking' BY BillKeeps
  <2> QED BY <2>1, <2>2 DEF Inv
<1>10. CASE \E t \in Tables : PayPart(t)
  <2> PICK t \in Tables : PayPart(t) BY <1>10
  <2>1. TypeOK' BY <1>0, FloorType
  <2>2. DeletedHoldNothing' /\ GuestsExist' /\ NoDoubleBooking' BY BillKeeps
  <2> QED BY <2>1, <2>2 DEF Inv
<1>11. CASE \E t \in Tables : \/ \E n \in 2 .. MaxParts : Split(t, n)
                              \/ VoidPart(t)
                              \/ \E s \in StaffWrites : WriteTable(t, s)
  <2> PICK t \in Tables : \/ \E n \in 2 .. MaxParts : Split(t, n)
                          \/ VoidPart(t)
                          \/ \E s \in StaffWrites : WriteTable(t, s)
    BY <1>11
  <2>1. TypeOK' BY <1>0, FloorType
  <2>2. UNCHANGED <<bookVars, guest>> BY DEF Split, VoidPart, WriteTable
  <2> QED BY <2>1, <2>2, BookingsOnly DEF Inv
<1>12. CASE UNCHANGED vars
  <2>1. TypeOK' BY <1>0, <1>12 DEF vars, TypeOK, bookVars, floorVars
  <2>2. UNCHANGED <<bookVars, guest>> BY <1>12 DEF vars, floorVars
  <2> QED BY <2>1, <2>2, BookingsOnly DEF Inv
<1> QED BY <1>1, <1>2, <1>3, <1>4, <1>5, <1>6, <1>7, <1>8, <1>9, <1>10, <1>11, <1>12 DEF Next

LEMMA Invariant == Spec => []Inv
<1>1. Init => Inv BY InitType
<1>2. Inv /\ [Next]_vars => Inv' BY NextKeeps, BookingAssumption, StatusAssumption
<1> QED BY <1>1, <1>2, PTL DEF Spec

\* Every variable keeps its type, whatever the requests and in any order.
THEOREM TypeCorrect == Spec => []TypeOK
<1>1. Inv => TypeOK BY DEF Inv
<1> QED BY <1>1, Invariant, PTL

\* Bookings whose tables were tested never share a table for overlapping times
\* (Reservations!NoDoubleBooking): the conflict test of assign_tables suffices.
THEOREM TestedNeverCollide == Spec => []NoDoubleBooking
<1>1. Inv => NoDoubleBooking BY DEF Inv
<1> QED BY <1>1, Invariant, PTL

\* The statuses a table takes while a bill is open on it: payments and voids
\* of parts change them only with the last part, and a marking that hits a
\* seated table is counted as an overwriting.
LEMMA FloorKeeps ==
  ASSUME Inv, GuestsKeepTheirTable, [Next]_vars
  PROVE  GuestsKeepTheirTable'
<1> USE DEF GuestsKeepTheirTable
<1>0. /\ tableStatus \in [Tables -> TableStatus] /\ parts \in [Tables -> Nat]
  BY DEF Inv, TypeOK
<1>1. ASSUME NEW c \in Clerks, Assign(c) PROVE GuestsKeepTheirTable'
  BY <1>0, <1>1 DEF Assign
<1>2. ASSUME NEW t \in Tables, NEW b \in Bookings \cup {NoBooking}, OpenOrder(t, b)
      PROVE  GuestsKeepTheirTable'
  BY <1>0, <1>2 DEF OpenOrder
<1>3. ASSUME NEW t \in Tables, NEW n \in 2 .. MaxParts, Split(t, n) PROVE GuestsKeepTheirTable'
  BY <1>0, <1>3 DEF Split
<1>4. ASSUME NEW t \in Tables, PayPart(t) PROVE GuestsKeepTheirTable'
  BY <1>0, <1>4 DEF PayPart
<1>5. ASSUME NEW t \in Tables, VoidPart(t) PROVE GuestsKeepTheirTable'
  BY <1>0, <1>5 DEF VoidPart
<1>6. ASSUME NEW t \in Tables, NEW s \in StaffWrites, WriteTable(t, s) PROVE GuestsKeepTheirTable'
  BY <1>0, <1>6 DEF WriteTable
<1>7. ASSUME UNCHANGED floorVars PROVE GuestsKeepTheirTable'
  BY <1>7 DEF floorVars
<1>8. ASSUME NEW b \in Bookings, Delete(b) PROVE GuestsKeepTheirTable'
  BY <1>8 DEF Delete
<1>9. \A c \in Clerks, b \in Bookings : \A r, ts :
        Create(c, b, r) \/ Load(c, b) \/ SaveRow(c, r) \/ SaveTables(c, ts) \/ Pick(c, ts) \/ Leave(c)
          => UNCHANGED floorVars
  BY DEF Create, Load, SaveRow, SaveTables, Pick, Leave
<1>10. UNCHANGED vars => UNCHANGED floorVars BY DEF vars
<1>11. CASE Next
  <2>1. CASE \E c \in Clerks, b \in Bookings : \E r : Create(c, b, r) \/ Load(c, b)
    BY <2>1, <1>7, <1>9
  <2>2. CASE \E c \in Clerks : \E r, ts : SaveRow(c, r) \/ SaveTables(c, ts) \/ Pick(c, ts) \/ Leave(c)
    <3>1. UNCHANGED floorVars BY <2>2 DEF SaveRow, SaveTables, Pick, Leave
    <3> QED BY <3>1, <1>7
  <2>3. CASE \E c \in Clerks : Assign(c) BY <2>3, <1>1
  <2>4. CASE \E b \in Bookings : Delete(b) BY <2>4, <1>8
  <2>5. CASE \E t \in Tables : \/ \E b \in Bookings \cup {NoBooking} : OpenOrder(t, b)
                               \/ \E n \in 2 .. MaxParts : Split(t, n)
                               \/ PayPart(t) \/ VoidPart(t)
                               \/ \E s \in StaffWrites : WriteTable(t, s)
    BY <2>5, <1>2, <1>3, <1>4, <1>5, <1>6
  <2> QED BY <1>11, <2>1, <2>2, <2>3, <2>4, <2>5 DEF Next
<1> QED BY <1>7, <1>10, <1>11

\* No order of payments, voids, splits and assignments shows a table with an
\* open bill as free, reserved or being cleaned, short of a blind overwrite.
THEOREM GuestsKeep == Spec => []GuestsKeepTheirTable
<1>1. Init => GuestsKeepTheirTable
  <2> SUFFICES ASSUME Init PROVE GuestsKeepTheirTable
    OBVIOUS
  <2>1. \A t \in Tables : parts[t] = 0 BY DEF Init
  <2> QED BY <2>1 DEF GuestsKeepTheirTable
<1>2. Inv /\ GuestsKeepTheirTable /\ [Next]_vars => GuestsKeepTheirTable' BY FloorKeeps
<1> QED BY <1>1, <1>2, Invariant, PTL DEF Spec
=============================================================================
