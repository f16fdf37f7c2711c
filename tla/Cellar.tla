------------------------------- MODULE Cellar -------------------------------
(***************************************************************************)
(* Bottles and glasses of apps/cellar.  A closed bottle belongs to a lot;  *)
(* opening one takes it from its lot and starts an opening, from which     *)
(* glasses are poured until it is finished or discarded.                   *)
(*                                                                         *)
(* Each service is one transaction that first selects a row and then locks *)
(* it.  On SQLite a transaction excludes every other one; on PostgreSQL    *)
(* another may commit between the selection and the lock, which then reads *)
(* the row again.  Volumes are in units of 25 ml.                          *)
(***************************************************************************)
EXTENDS Integers, FiniteSets

CONSTANTS
  Wines, BottleSize, GlassPour,
  Lots,             \* in order of received_on and id
  WineOf, Received, \* wine and bottles_received of a lot
  BestBefore, NoDate,
  MaxOpenings,      \* bound: bottles that can be opened
  Volumes,          \* volume_ml of requests; 0 where it is left out
  FaultSizes,       \* bottles_affected of fault reports
  AsWaste,          \* as_waste of requests to close a bottle
  Terminals,
  Databases         \* which may be meant: TRUE for SQLite, FALSE for PostgreSQL

Openings == 1 .. MaxOpenings
NoLot == 0
Idle == [op |-> "idle"]
Kinds == {"sale", "waste"}    \* pour types: served to someone, spilt or thrown away

ASSUME WinesAssumption == /\ BottleSize \in [Wines -> Nat \ {0}]
                          /\ GlassPour \in [Wines -> Nat \ {0}]
ASSUME LotsAssumption ==  /\ Lots \subseteq Nat \ {0}
                          /\ WineOf \in [Lots -> Wines]
                          /\ Received \in [Lots -> Nat]
ASSUME RequestsAssumption == /\ MaxOpenings \in Nat
                             /\ Volumes \subseteq Nat /\ FaultSizes \subseteq Nat
                             /\ AsWaste \subseteq BOOLEAN /\ Databases \subseteq BOOLEAN

VARIABLES
  bottles,          \* BottleLot.bottles_remaining
  faulted,          \* bottles of a lot written off by fault reports
  lotOf, left, status,     \* of an opening: lot, remaining_ml, status
  served, wasted, lost,    \* of an opening: pours by kind, volume lost to faults
  terminal,         \* the transaction a terminal has begun: what it selected
  sqlite            \* the database this cellar runs on, for good

lotVars == <<bottles, faulted>>
openingVars == <<lotOf, left, status, served, wasted, lost>>
vars == <<lotVars, openingVars, terminal, sqlite>>

Exists  == {o \in Openings : status[o] # "none"}
Wine(o) == WineOf[lotOf[o]]
Size(o) == BottleSize[Wine(o)]

\* ORDER BY best_before, received_on, id: NULL comes first on SQLite and last
\* on PostgreSQL.
Before(l, m) ==
  LET a == BestBefore[l]  b == BestBefore[m] IN
  IF a = b THEN l < m
  ELSE IF a = NoDate \/ b = NoDate THEN sqlite <=> a = NoDate
  ELSE a < b

HasBottle(l) == bottles[l] > 0
AnyLot(w)    == {l \in Lots : WineOf[l] = w /\ HasBottle(l)}
FefoLot(w)   == {l \in AnyLot(w) : \A m \in AnyLot(w) : m # l => Before(l, m)}

Pours(w, volume) == IF volume = 0 THEN GlassPour[w] ELSE volume

\* The bottle opened first among those with enough left.
FullOnly(o, w, v)   == status[o] = "open" /\ Wine(o) = w /\ left[o] = Size(o)  \* mutant of Pourable
Pourable(o, w, v)   == status[o] = "open" /\ Wine(o) = w /\ left[o] >= v
FindOpenBottle(w, v) ==
  {o \in Openings : Pourable(o, w, v) /\ \A p \in Openings : Pourable(p, w, v) => o <= p}

\* What is left after a pour is a sip: the bottle counts as finished.
Sip(w, ml) == ml < GlassPour[w] \div 3

Requests ==
  [op : {"open"}, wine : Wines, lot : Lots]
    \cup [op : {"pour"}, wine : Wines, volume : Nat, kind : Kinds, opening : Openings]
    \cup [op : {"pourNew"}, wine : Wines, volume : Nat, kind : Kinds, lot : Lots]
    \cup [op : {"fault"}, wine : Wines, lot : Lots, affected : Nat]
    \cup {Idle}

RowsOK ==
  /\ bottles \in [Lots -> Nat]
  /\ faulted \in [Lots -> Nat]
  /\ lotOf \in [Openings -> Lots \cup {NoLot}]
  /\ left \in [Openings -> Nat]
  /\ status \in [Openings -> {"none", "open", "finished", "discarded"}]
  /\ served \in [Openings -> Nat]
  /\ wasted \in [Openings -> Nat]
  /\ lost \in [Openings -> Nat]
  /\ terminal \in [Terminals -> Requests]

TypeOK == RowsOK /\ sqlite \in Databases

Init ==
  /\ sqlite \in Databases
  /\ bottles = Received
  /\ faulted = [l \in Lots |-> 0]
  /\ lotOf = [o \in Openings |-> NoLot]
  /\ left = [o \in Openings |-> 0]
  /\ status = [o \in Openings |-> "none"]
  /\ served = [o \in Openings |-> 0]
  /\ wasted = [o \in Openings |-> 0]
  /\ lost = [o \in Openings |-> 0]
  /\ terminal = [t \in Terminals |-> Idle]
-----------------------------------------------------------------------------
\* A transaction begins: on SQLite only when no other one is open.
Free(t) == terminal[t] = Idle /\ (sqlite => \A u \in Terminals : terminal[u] = Idle)
Begin(t, r) ==
  /\ Free(t)
  /\ terminal' = [terminal EXCEPT ![t] = r]
  /\ UNCHANGED <<lotVars, openingVars>>

SelectForOpen(t, w) == \E l \in FefoLot(w) : Begin(t, [op |-> "open", wine |-> w, lot |-> l])

SelectForPour(t, w, request, k) ==
  LET v == Pours(w, request) IN
  /\ v > 0 /\ v <= BottleSize[w]
  /\ \/ \E o \in FindOpenBottle(w, v) :
          Begin(t, [op |-> "pour", wine |-> w, volume |-> v, kind |-> k, opening |-> o])
     \/ /\ FindOpenBottle(w, v) = {}
        /\ \E l \in FefoLot(w) :
             Begin(t, [op |-> "pourNew", wine |-> w, volume |-> v, kind |-> k, lot |-> l])

SelectForFault(t, w, n) ==
  /\ n > 0
  /\ \E l \in FefoLot(w) : Begin(t, [op |-> "fault", wine |-> w, lot |-> l, affected |-> n])

\* The lock and the rest of the transaction.
Enough(l, n) == bottles[l] >= n
KeepBottles(l, n) == bottles                                        \* mutant of TakeFrom
TakeFrom(l, n) == [bottles EXCEPT ![l] = @ - n]
NewOpening == Cardinality(Exists) + 1

OpenBottle(t) ==
  LET r == terminal[t]  o == NewOpening IN
  /\ r.op = "open" /\ Enough(r.lot, 1) /\ o \in Openings
  /\ bottles' = TakeFrom(r.lot, 1)
  /\ lotOf' = [lotOf EXCEPT ![o] = r.lot]
  /\ left' = [left EXCEPT ![o] = BottleSize[r.wine]]
  /\ status' = [status EXCEPT ![o] = "open"]
  /\ terminal' = [terminal EXCEPT ![t] = Idle]
  /\ UNCHANGED <<faulted, served, wasted, lost>>

ReopeningPour(o, r, ml, st) ==                                      \* mutant of Pour
  /\ left' = [left EXCEPT ![o] = ml - r.volume]
  /\ status' = [status EXCEPT ![o] = IF Sip(r.wine, ml - r.volume) THEN "finished" ELSE "open"]
  /\ served' = [served EXCEPT ![o] = IF r.kind = "sale" THEN @ + r.volume ELSE @]
  /\ wasted' = [wasted EXCEPT ![o] = IF r.kind = "waste" THEN @ + r.volume ELSE @]
\* Pouring from an opening that holds ml and has status st.
Pour(o, r, ml, st) ==
  /\ left' = [left EXCEPT ![o] = ml - r.volume]
  /\ status' = [status EXCEPT ![o] = IF Sip(r.wine, ml - r.volume) THEN "finished" ELSE st]
  /\ served' = [served EXCEPT ![o] = IF r.kind = "sale" THEN @ + r.volume ELSE @]
  /\ wasted' = [wasted EXCEPT ![o] = IF r.kind = "waste" THEN @ + r.volume ELSE @]

\* The lock checks what is left again, not the status.
PourGlass(t) ==
  LET r == terminal[t]  o == r.opening IN
  /\ r.op = "pour" /\ left[o] >= r.volume
  /\ Pour(o, r, left[o], status[o])
  /\ terminal' = [terminal EXCEPT ![t] = Idle]
  /\ UNCHANGED <<lotVars, lotOf, lost>>

PourFromNewBottle(t) ==
  LET r == terminal[t]  o == NewOpening IN
  /\ r.op = "pourNew" /\ Enough(r.lot, 1) /\ o \in Openings
  /\ bottles' = TakeFrom(r.lot, 1)
  /\ lotOf' = [lotOf EXCEPT ![o] = r.lot]
  /\ Pour(o, r, BottleSize[r.wine], "open")
  /\ terminal' = [terminal EXCEPT ![t] = Idle]
  /\ UNCHANGED <<faulted, lost>>

RecordFault(t) ==
  LET r == terminal[t] IN
  /\ r.op = "fault" /\ Enough(r.lot, r.affected)
  /\ bottles' = TakeFrom(r.lot, r.affected)
  /\ faulted' = [faulted EXCEPT ![r.lot] = @ + r.affected]
  /\ terminal' = [terminal EXCEPT ![t] = Idle]
  /\ UNCHANGED openingVars

\* InsufficientStockError: the locked row no longer holds what was selected.
Refused(t) ==
  LET r == terminal[t] IN
  /\ \/ r.op \in {"open", "pourNew"} /\ ~Enough(r.lot, 1)
     \/ r.op = "fault" /\ ~Enough(r.lot, r.affected)
     \/ r.op = "pour" /\ left[r.opening] < r.volume
  /\ terminal' = [terminal EXCEPT ![t] = Idle]
  /\ UNCHANGED <<lotVars, openingVars>>

\* Closing a bottle: one locked read, so one step.
Unlocked == sqlite => \A t \in Terminals : terminal[t] = Idle
NotClosed(o) == status[o] = "open"
NothingThrown(o) == 0                                               \* mutant of Thrown
Thrown(o) == left[o]
FinishBottle(o, asWaste) ==
  /\ Unlocked /\ NotClosed(o)
  /\ wasted' = [wasted EXCEPT ![o] = IF asWaste THEN @ + Thrown(o) ELSE @]
  /\ left' = [left EXCEPT ![o] = 0]
  /\ status' = [status EXCEPT ![o] = IF asWaste /\ left[o] > 0 THEN "discarded" ELSE "finished"]
  /\ UNCHANGED <<lotVars, lotOf, served, lost, terminal>>

\* A fault found in an opened bottle; volume 0 means all that is left.
FaultInOpening(o, volume) ==
  LET gone == IF volume = 0 \/ volume > left[o] THEN left[o] ELSE volume IN
  /\ Unlocked /\ o \in Exists
  /\ left' = [left EXCEPT ![o] = @ - gone]
  /\ lost' = [lost EXCEPT ![o] = @ + gone]
  /\ status' = [status EXCEPT ![o] = "discarded"]
  /\ UNCHANGED <<lotVars, lotOf, served, wasted, terminal>>
-----------------------------------------------------------------------------
Next ==
  /\ \/ \E t \in Terminals, w \in Wines :
          \/ SelectForOpen(t, w)
          \/ \E v \in Volumes, k \in Kinds : SelectForPour(t, w, v, k)
          \/ \E n \in FaultSizes : SelectForFault(t, w, n)
     \/ \E t \in Terminals :
          OpenBottle(t) \/ PourGlass(t) \/ PourFromNewBottle(t) \/ RecordFault(t) \/ Refused(t)
     \/ \E o \in Openings :
          \/ \E asWaste \in AsWaste : FinishBottle(o, asWaste)
          \/ \E v \in Volumes : FaultInOpening(o, v)
  /\ UNCHANGED sqlite

Spec == Init /\ [][Next]_vars
-----------------------------------------------------------------------------
\* Every bottle that left a lot was opened or written off as faulty.
BottlesAccounted ==
  \A l \in Lots :
    Received[l] = bottles[l] + faulted[l] + Cardinality({o \in Exists : lotOf[o] = l})

\* What is no longer in an opened bottle was poured, thrown away or lost to a
\* fault, and recorded as such (bottles closed with as_waste).
VolumeAccounted ==
  \A o \in Exists : Size(o) = left[o] + served[o] + wasted[o] + lost[o]

\* A bottle that is closed stays closed: nothing reopens it.
ClosedForGood ==
  [][\A o \in Openings :
       status[o] \in {"finished", "discarded"} => status'[o] \in {"finished", "discarded"}]_vars

\* A pour never takes a bottle from its lot while an open bottle has enough,
\* and takes the bottle opened first (SQLite).
OldestBottleFirst ==
  [][sqlite => \A o \in Openings, p \in Openings :
       LET drawn == served'[p] + wasted'[p] - served[p] - wasted[p] IN
       status'[p] # "discarded" /\ drawn > 0 /\ o < p /\ status[o] = "open" /\ Wine(o) = WineOf[lotOf'[p]]
         => left[o] < drawn]_vars
=============================================================================
