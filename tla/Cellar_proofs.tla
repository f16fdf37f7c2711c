---------------------------- MODULE Cellar_proofs ----------------------------
(* For every cellar, either database and any number of terminals, no       *)
(* bottle and no volume gets lost between lots, openings and records; on   *)
(* SQLite a glass comes from the bottle opened first.                      *)
EXTENDS Cellar, FiniteSetTheorems, WellFoundedInduction, TLAPS

\* Openings are numbered as they are created.
OpenedInOrder == \E n \in 0 .. MaxOpenings : Exists = 1 .. n
\* A bottle not opened yet has no volumes.
UnopenedBlank == \A o \in Openings \ Exists : served[o] = 0 /\ wasted[o] = 0 /\ lost[o] = 0
\* What a transaction selected fits the wine it was asked for.
RequestsFit ==
  \A t \in Terminals :
    LET r == terminal[t] IN
    /\ r.op \in {"open", "pourNew"} => WineOf[r.lot] = r.wine
    /\ r.op = "pourNew" => r.volume <= BottleSize[r.wine]
    /\ r.op = "pour" => r.opening \in Exists
OpenedFromLots == \A o \in Exists : lotOf[o] \in Lots

Shape == OpenedInOrder /\ UnopenedBlank /\ RequestsFit /\ OpenedFromLots
IInv == RowsOK /\ Shape

\* The number after the last opening is not used yet.
LEMMA NextNumber ==
  ASSUME OpenedInOrder
  PROVE  /\ IsFiniteSet(Exists) /\ Cardinality(Exists) \in Nat
         /\ NewOpening \notin Exists
         /\ Exists \cup {NewOpening} = 1 .. NewOpening
<1>1. PICK n \in 0 .. MaxOpenings : Exists = 1 .. n
  BY DEF OpenedInOrder
<1>2. IsFiniteSet(1 .. n) /\ Cardinality(1 .. n) = n
  BY FS_Interval, RequestsAssumption
<1>3. NewOpening = n + 1
  BY <1>1, <1>2 DEF NewOpening
<1> QED
  BY <1>1, <1>2, <1>3

\* Beginning a transaction.
LEMMA BeginStep ==
  ASSUME IInv, NEW t \in Terminals, NEW r \in Requests, Begin(t, r),
         r.op \in {"open", "pourNew"} => WineOf[r.lot] = r.wine,
         r.op = "pourNew" => r.volume <= BottleSize[r.wine],
         r.op = "pour" => r.opening \in Exists
  PROVE  IInv'
<1>1. RowsOK'
  BY DEF IInv, RowsOK, Begin, lotVars, openingVars
<1>2. RequestsFit' /\ OpenedInOrder' /\ UnopenedBlank' /\ OpenedFromLots'
  BY DEF IInv, Shape, RowsOK, Begin, lotVars, openingVars, RequestsFit, OpenedInOrder,
         UnopenedBlank, OpenedFromLots, Exists
<1> QED
  BY <1>1, <1>2 DEF IInv, Shape

\* Every selection begins a transaction that fits.
LEMMA SelectStep ==
  ASSUME IInv, NEW t \in Terminals, NEW w \in Wines,
         \/ SelectForOpen(t, w)
         \/ \E v \in Volumes, k \in Kinds : SelectForPour(t, w, v, k)
         \/ \E n \in FaultSizes : SelectForFault(t, w, n)
  PROVE  IInv' /\ UNCHANGED <<lotVars, openingVars>>
<1>0. UNCHANGED <<lotVars, openingVars>>
  BY DEF SelectForOpen, SelectForPour, SelectForFault, Begin
<1>1. \A l \in FefoLot(w) : l \in Lots /\ WineOf[l] = w
  BY DEF FefoLot, AnyLot
<1>2. CASE SelectForOpen(t, w)
  <2>1. PICK l \in FefoLot(w) : Begin(t, [op |-> "open", wine |-> w, lot |-> l])
    BY <1>2 DEF SelectForOpen
  <2>2. [op |-> "open", wine |-> w, lot |-> l] \in Requests
    BY <1>1 DEF Requests
  <2> QED
    BY <1>0, <1>1, <2>1, <2>2, BeginStep
<1>3. CASE \E v \in Volumes, k \in Kinds : SelectForPour(t, w, v, k)
  <2>1. PICK q \in Volumes, k \in Kinds : SelectForPour(t, w, q, k)
    BY <1>3
  <2> DEFINE v == Pours(w, q)
  <2>2. v \in Nat /\ v <= BottleSize[w]
    BY <2>1, RequestsAssumption, WinesAssumption DEF SelectForPour, Pours
  <2>3. CASE \E o \in FindOpenBottle(w, v) :
                Begin(t, [op |-> "pour", wine |-> w, volume |-> v, kind |-> k, opening |-> o])
    <3>1. PICK o \in FindOpenBottle(w, v) :
                Begin(t, [op |-> "pour", wine |-> w, volume |-> v, kind |-> k, opening |-> o])
      BY <2>3
    <3>2. o \in Openings /\ o \in Exists
      BY DEF FindOpenBottle, Pourable, Exists
    <3> HIDE DEF v
    <3>3. [op |-> "pour", wine |-> w, volume |-> v, kind |-> k, opening |-> o] \in Requests
      BY <2>2, <3>2 DEF Requests
    <3> QED
      BY <1>0, <3>1, <3>2, <3>3, BeginStep
  <2>4. CASE \E l \in FefoLot(w) :
                Begin(t, [op |-> "pourNew", wine |-> w, volume |-> v, kind |-> k, lot |-> l])
    <3>1. PICK l \in FefoLot(w) :
                Begin(t, [op |-> "pourNew", wine |-> w, volume |-> v, kind |-> k, lot |-> l])
      BY <2>4
    <3> HIDE DEF v
    <3>2. [op |-> "pourNew", wine |-> w, volume |-> v, kind |-> k, lot |-> l] \in Requests
      BY <1>1, <2>2 DEF Requests
    <3> QED
      BY <1>0, <1>1, <2>2, <3>1, <3>2, BeginStep
  <2> QED
    BY <2>1, <2>3, <2>4 DEF SelectForPour
<1>4. CASE \E n \in FaultSizes : SelectForFault(t, w, n)
  <2>1. PICK n \in FaultSizes, l \in FefoLot(w) :
              Begin(t, [op |-> "fault", wine |-> w, lot |-> l, affected |-> n])
    BY <1>4 DEF SelectForFault
  <2>2. [op |-> "fault", wine |-> w, lot |-> l, affected |-> n] \in Requests
    BY <1>1, RequestsAssumption DEF Requests
  <2> QED
    BY <1>0, <1>1, <2>1, <2>2, BeginStep
<1> QED
  BY <1>2, <1>3, <1>4

\* Taking a bottle from a lot and starting an opening with it.
LEMMA NewBottle ==
  ASSUME IInv, NEW o, o = NewOpening, o \in Openings, NEW l \in Lots,
         lotOf' = [lotOf EXCEPT ![o] = l],
         NEW st \in {"open", "finished"}, status' = [status EXCEPT ![o] = st]
  PROVE  /\ o \notin Exists /\ Exists' = Exists \cup {o}
         /\ OpenedInOrder' /\ OpenedFromLots'
<1>1. OpenedInOrder
  BY DEF IInv, Shape
<1>2. o \notin Exists /\ Exists \cup {o} = 1 .. o
  BY <1>1, NextNumber
<1>3. Exists' = Exists \cup {o}
  BY DEF Exists, IInv, RowsOK
<1>4. OpenedInOrder'
  BY <1>2, <1>3, RequestsAssumption DEF OpenedInOrder, Openings
<1>5. OpenedFromLots'
  BY <1>3 DEF OpenedFromLots, IInv, Shape, RowsOK
<1> QED
  BY <1>2, <1>3, <1>4, <1>5

\* Ending a transaction leaves the others as they were.
LEMMA EndTransaction ==
  ASSUME IInv, NEW t \in Terminals, terminal' = [terminal EXCEPT ![t] = Idle],
         Exists \subseteq Exists'
  PROVE  RequestsFit' /\ terminal' \in [Terminals -> Requests]
<1>1. Idle \in Requests /\ Idle.op = "idle"
  BY DEF Requests, Idle
<1> QED
  BY <1>1 DEF IInv, Shape, RowsOK, RequestsFit

-----------------------------------------------------------------------------
LEMMA OpenStep ==
  ASSUME IInv, NEW t \in Terminals, OpenBottle(t)
  PROVE  IInv'
<1> DEFINE r == terminal[t]
           o == NewOpening
<1>1. r \in Requests /\ r.op = "open" /\ o \in Openings /\ bottles[r.lot] >= 1
  BY DEF OpenBottle, Enough, IInv, RowsOK
<1>2. r.lot \in Lots /\ r.wine \in Wines /\ WineOf[r.lot] = r.wine
  BY <1>1 DEF Requests, Idle, IInv, Shape, RequestsFit
<1>3. o \notin Exists /\ Exists' = Exists \cup {o} /\ OpenedInOrder' /\ OpenedFromLots'
  <2> HIDE DEF r, o
  <2>1. /\ lotOf' = [lotOf EXCEPT ![o] = r.lot]
        /\ status' = [status EXCEPT ![o] = "open"]
        /\ o = NewOpening
    BY DEF OpenBottle, r, o
  <2> QED
    BY <1>1, <1>2, <2>1, NewBottle
<1>4. RequestsFit' /\ terminal' \in [Terminals -> Requests]
  BY <1>3, EndTransaction DEF OpenBottle
<1> HIDE DEF o, r
<1>5. UnopenedBlank'
  BY <1>3 DEF OpenBottle, UnopenedBlank, IInv, Shape, o
<1>6. bottles' \in [Lots -> Nat]
  BY <1>1, <1>2 DEF OpenBottle, TakeFrom, IInv, RowsOK, r
<1>7. RowsOK'
  BY <1>1, <1>2, <1>4, <1>6, WinesAssumption DEF OpenBottle, IInv, RowsOK, r, o
<1> QED
  BY <1>3, <1>4, <1>5, <1>7 DEF IInv, Shape

\* What pouring does to the volumes of one opening.
LEMMA PourTypes ==
  ASSUME IInv, NEW o \in Openings, NEW r, r.volume \in Nat, NEW ml \in Nat, r.volume <= ml,
         NEW st \in {"open", "finished", "discarded"}, Pour(o, r, ml, st)
  PROVE  /\ left' \in [Openings -> Nat] /\ served' \in [Openings -> Nat]
         /\ wasted' \in [Openings -> Nat]
         /\ status' \in [Openings -> {"none", "open", "finished", "discarded"}]
         /\ status'[o] \in {"open", "finished", "discarded"}
         /\ \A p \in Openings \ {o} : /\ served'[p] = served[p] /\ wasted'[p] = wasted[p]
                                     /\ left'[p] = left[p] /\ status'[p] = status[p]
BY DEF Pour, IInv, RowsOK

LEMMA PourStep ==
  ASSUME IInv, NEW t \in Terminals, PourGlass(t)
  PROVE  IInv' /\ Exists' = Exists
<1> DEFINE r == terminal[t]
           o == r.opening
<1>1. r \in Requests /\ r.op = "pour" /\ left[o] >= r.volume
  BY DEF PourGlass, IInv, RowsOK
<1>2. o \in Exists /\ o \in Openings /\ r.volume \in Nat
  BY <1>1 DEF Requests, Idle, IInv, Shape, RequestsFit
<1>3. status[o] \in {"open", "finished", "discarded"} /\ left[o] \in Nat
  BY <1>2 DEF Exists, IInv, RowsOK
<1>4. Pour(o, r, left[o], status[o])
  BY DEF PourGlass
<1> HIDE DEF r, o
<1>5. /\ left' \in [Openings -> Nat] /\ served' \in [Openings -> Nat]
      /\ wasted' \in [Openings -> Nat]
      /\ status' \in [Openings -> {"none", "open", "finished", "discarded"}]
      /\ status'[o] \in {"open", "finished", "discarded"}
      /\ \A p \in Openings \ {o} : /\ served'[p] = served[p] /\ wasted'[p] = wasted[p]
                                  /\ left'[p] = left[p] /\ status'[p] = status[p]
  BY <1>1, <1>2, <1>3, <1>4, PourTypes
<1>6. Exists' = Exists
  BY <1>2, <1>5 DEF Exists
<1>7. RequestsFit' /\ terminal' \in [Terminals -> Requests]
  BY <1>6, EndTransaction DEF PourGlass
<1>8. RowsOK'
  BY <1>5, <1>7 DEF PourGlass, IInv, RowsOK, lotVars
<1>9. OpenedInOrder' /\ OpenedFromLots'
  BY <1>6 DEF PourGlass, OpenedInOrder, OpenedFromLots, IInv, Shape
<1>10. UnopenedBlank'
  BY <1>2, <1>5, <1>6 DEF PourGlass, UnopenedBlank, IInv, Shape
<1> QED
  BY <1>6, <1>7, <1>8, <1>9, <1>10 DEF IInv, Shape

LEMMA PourNewStep ==
  ASSUME IInv, NEW t \in Terminals, PourFromNewBottle(t)
  PROVE  IInv'
<1> DEFINE r == terminal[t]
           o == NewOpening
<1>1. r \in Requests /\ r.op = "pourNew" /\ o \in Openings /\ bottles[r.lot] >= 1
  BY DEF PourFromNewBottle, Enough, IInv, RowsOK
<1>2. /\ r.lot \in Lots /\ r.wine \in Wines /\ WineOf[r.lot] = r.wine
      /\ r.volume \in Nat /\ r.volume <= BottleSize[r.wine]
  BY <1>1 DEF Requests, Idle, IInv, Shape, RequestsFit
<1>3. Pour(o, r, BottleSize[r.wine], "open")
  BY DEF PourFromNewBottle
<1> HIDE DEF r, o
<1>4. PICK st \in {"open", "finished"} : status' = [status EXCEPT ![o] = st]
  BY <1>3 DEF Pour
<1>5. o \notin Exists /\ Exists' = Exists \cup {o} /\ OpenedInOrder' /\ OpenedFromLots'
  <2>1. lotOf' = [lotOf EXCEPT ![o] = r.lot] /\ o = NewOpening
    BY DEF PourFromNewBottle, r, o
  <2> QED
    BY <1>1, <1>2, <1>4, <2>1, NewBottle
<1>6. /\ left' \in [Openings -> Nat] /\ served' \in [Openings -> Nat]
      /\ wasted' \in [Openings -> Nat]
      /\ status' \in [Openings -> {"none", "open", "finished", "discarded"}]
      /\ \A p \in Openings \ {o} : served'[p] = served[p] /\ wasted'[p] = wasted[p]
  BY <1>1, <1>2, <1>3, PourTypes, WinesAssumption
<1>7. RequestsFit' /\ terminal' \in [Terminals -> Requests]
  BY <1>5, EndTransaction DEF PourFromNewBottle
<1>8. UnopenedBlank'
  BY <1>5, <1>6 DEF PourFromNewBottle, UnopenedBlank, IInv, Shape
<1>9. bottles' \in [Lots -> Nat]
  BY <1>1, <1>2 DEF PourFromNewBottle, TakeFrom, IInv, RowsOK, r
<1>10. lotOf' \in [Openings -> Lots \cup {NoLot}]
  BY <1>1, <1>2 DEF PourFromNewBottle, IInv, RowsOK, r, o
<1>11. RowsOK'
  BY <1>6, <1>7, <1>9, <1>10 DEF PourFromNewBottle, IInv, RowsOK
<1> QED
  BY <1>5, <1>7, <1>8, <1>11 DEF IInv, Shape

LEMMA FaultStep ==
  ASSUME IInv, NEW t \in Terminals, RecordFault(t)
  PROVE  IInv'
<1> DEFINE r == terminal[t]
<1>1. r \in Requests /\ r.op = "fault" /\ bottles[r.lot] >= r.affected
  BY DEF RecordFault, Enough, IInv, RowsOK
<1>2. r.lot \in Lots /\ r.affected \in Nat
  BY <1>1 DEF Requests, Idle
<1>3. Exists' = Exists
  BY DEF RecordFault, openingVars, Exists
<1>4. RequestsFit' /\ terminal' \in [Terminals -> Requests]
  BY <1>3, EndTransaction DEF RecordFault
<1>5. bottles' \in [Lots -> Nat] /\ faulted' \in [Lots -> Nat]
  BY <1>1, <1>2 DEF RecordFault, TakeFrom, IInv, RowsOK
<1>6. RowsOK'
  BY <1>4, <1>5 DEF RecordFault, IInv, RowsOK, openingVars
<1>7. OpenedInOrder' /\ OpenedFromLots' /\ UnopenedBlank'
  BY <1>3 DEF RecordFault, openingVars, OpenedInOrder, OpenedFromLots, UnopenedBlank, IInv, Shape
<1> QED
  BY <1>4, <1>6, <1>7 DEF IInv, Shape

LEMMA RefusedStep ==
  ASSUME IInv, NEW t \in Terminals, Refused(t)
  PROVE  IInv'
<1>1. Exists' = Exists
  BY DEF Refused, openingVars, Exists
<1>2. RequestsFit' /\ terminal' \in [Terminals -> Requests]
  BY <1>1, EndTransaction DEF Refused
<1>3. RowsOK'
  BY <1>2 DEF Refused, IInv, RowsOK, openingVars, lotVars
<1>4. OpenedInOrder' /\ OpenedFromLots' /\ UnopenedBlank'
  BY <1>1 DEF Refused, openingVars, OpenedInOrder, OpenedFromLots, UnopenedBlank, IInv, Shape
<1> QED
  BY <1>2, <1>3, <1>4 DEF IInv, Shape

\* Closing a bottle or finding a fault in it.
LEMMA CloseStep ==
  ASSUME IInv, NEW o \in Openings,
         \/ \E asWaste \in AsWaste : FinishBottle(o, asWaste)
         \/ \E v \in Volumes : FaultInOpening(o, v)
  PROVE  IInv' /\ Exists' = Exists
<1>1. o \in Exists /\ UNCHANGED <<lotVars, lotOf, served, terminal>>
  BY DEF FinishBottle, FaultInOpening, NotClosed, Exists
<1>2. /\ left' \in [Openings -> Nat] /\ wasted' \in [Openings -> Nat] /\ lost' \in [Openings -> Nat]
      /\ status' \in [Openings -> {"none", "open", "finished", "discarded"}]
      /\ status'[o] # "none"
      /\ \A p \in Openings \ {o} : /\ wasted'[p] = wasted[p] /\ lost'[p] = lost[p]
                                  /\ status'[p] = status[p]
  <2>1. CASE \E asWaste \in AsWaste : FinishBottle(o, asWaste)
    BY <2>1 DEF FinishBottle, Thrown, IInv, RowsOK
  <2>2. CASE \E v \in Volumes : FaultInOpening(o, v)
    BY <2>2, RequestsAssumption DEF FaultInOpening, IInv, RowsOK
  <2> QED
    BY <2>1, <2>2
<1>3. Exists' = Exists
  BY <1>1, <1>2 DEF Exists
<1>4. RowsOK'
  BY <1>1, <1>2 DEF IInv, RowsOK, lotVars
<1>5. OpenedInOrder' /\ OpenedFromLots' /\ UnopenedBlank' /\ RequestsFit'
  BY <1>1, <1>2, <1>3 DEF OpenedInOrder, OpenedFromLots, UnopenedBlank, RequestsFit, IInv, Shape
<1> QED
  BY <1>3, <1>4, <1>5 DEF IInv, Shape

-----------------------------------------------------------------------------
LEMMA InitInv == Init => IInv
<1> SUFFICES ASSUME Init PROVE IInv
  OBVIOUS
<1>1. RowsOK
  BY LotsAssumption DEF Init, RowsOK, Requests, Idle
<1>2. Exists = {}
  BY DEF Init, Exists
<1>3. OpenedInOrder
  <2>1. 0 \in 0 .. MaxOpenings /\ Exists = 1 .. 0
    BY <1>2, RequestsAssumption
  <2> QED
    BY <2>1 DEF OpenedInOrder
<1>4. UnopenedBlank /\ RequestsFit /\ OpenedFromLots
  BY <1>2 DEF Init, UnopenedBlank, RequestsFit, OpenedFromLots, Idle
<1> QED
  BY <1>1, <1>3, <1>4 DEF IInv, Shape

LEMMA NextInv == IInv /\ [Next]_vars => IInv'
<1> SUFFICES ASSUME IInv, [Next]_vars PROVE IInv'
  OBVIOUS
<1>1. CASE UNCHANGED vars
  BY <1>1 DEF vars, lotVars, openingVars, IInv, Shape, RowsOK, OpenedInOrder, UnopenedBlank,
              RequestsFit, OpenedFromLots, Exists
<1>2. ASSUME NEW t \in Terminals, NEW w \in Wines,
             \/ SelectForOpen(t, w)
             \/ \E v \in Volumes, k \in Kinds : SelectForPour(t, w, v, k)
             \/ \E n \in FaultSizes : SelectForFault(t, w, n)
      PROVE  IInv'
  BY <1>2, SelectStep
<1>3. ASSUME NEW t \in Terminals,
             OpenBottle(t) \/ PourGlass(t) \/ PourFromNewBottle(t) \/ RecordFault(t) \/ Refused(t)
      PROVE  IInv'
  BY <1>3, OpenStep, PourStep, PourNewStep, FaultStep, RefusedStep
<1>4. ASSUME NEW o \in Openings,
             \/ \E asWaste \in AsWaste : FinishBottle(o, asWaste)
             \/ \E v \in Volumes : FaultInOpening(o, v)
      PROVE  IInv'
  BY <1>4, CloseStep
<1> QED
  BY <1>1, <1>2, <1>3, <1>4 DEF Next

LEMMA AlwaysIInv == Spec => []IInv
BY InitInv, NextInv, PTL DEF Spec

\* Every service keeps the types; in particular no lot and no bottle goes
\* below zero, whatever another terminal did between selection and lock.
THEOREM TypeCorrect == Spec => []TypeOK
<1>1. Init => sqlite \in Databases
  BY DEF Init
<1>2. sqlite \in Databases /\ [Next]_vars => (sqlite \in Databases)'
  BY DEF Next, vars
<1>3. IInv /\ sqlite \in Databases => TypeOK
  BY DEF IInv, TypeOK
<1> QED
  BY <1>1, <1>2, <1>3, AlwaysIInv, PTL DEF Spec

-----------------------------------------------------------------------------
\* A pour moves volume from what is left to what was served or wasted.
LEMMA PourMoves ==
  ASSUME IInv, NEW o \in Openings, NEW r, r.volume \in Nat, r.kind \in Kinds, NEW ml \in Nat,
         r.volume <= ml, NEW st, Pour(o, r, ml, st)
  PROVE  left'[o] + served'[o] + wasted'[o] = ml + served[o] + wasted[o]
BY DEF Pour, Kinds, IInv, RowsOK

LEMMA VolumeStep ==
  ASSUME AsWaste \subseteq {TRUE}, IInv, VolumeAccounted, [Next]_vars
  PROVE  VolumeAccounted'
<1>1. CASE UNCHANGED <<lotOf, left, status, served, wasted, lost>>
  BY <1>1 DEF VolumeAccounted, Exists, Size, Wine
<1>2. ASSUME NEW t \in Terminals, OpenBottle(t) PROVE VolumeAccounted'
  <2> DEFINE r == terminal[t]
             o == NewOpening
  <2>1. r.op = "open" /\ r \in Requests /\ o \in Openings
    BY <1>2 DEF OpenBottle, IInv, RowsOK
  <2>2. r.lot \in Lots /\ WineOf[r.lot] = r.wine /\ BottleSize[r.wine] \in Nat
    BY <2>1, WinesAssumption DEF Requests, Idle, IInv, Shape, RequestsFit
  <2>3. o \notin Exists
    BY NextNumber DEF IInv, Shape
  <2>4. served[o] = 0 /\ wasted[o] = 0 /\ lost[o] = 0
    BY <2>1, <2>3 DEF IInv, Shape, UnopenedBlank
  <2> HIDE DEF r, o
  <2>5. /\ lotOf' = [lotOf EXCEPT ![o] = r.lot] /\ left' = [left EXCEPT ![o] = BottleSize[r.wine]]
        /\ status' = [status EXCEPT ![o] = "open"] /\ UNCHANGED <<served, wasted, lost>>
    BY <1>2 DEF OpenBottle, r, o
  <2>6. ASSUME NEW p \in Exists' PROVE Size(p)' = left'[p] + served'[p] + wasted'[p] + lost'[p]
    <3>1. CASE p = o
      BY <2>1, <2>2, <2>4, <2>5, <3>1 DEF Size, Wine, IInv, RowsOK
    <3>2. CASE p # o
      <4>1. p \in Exists /\ p \in Openings
        BY <2>1, <2>5, <3>2 DEF Exists, IInv, RowsOK
      <4>2. lotOf'[p] = lotOf[p] /\ left'[p] = left[p]
        BY <2>1, <2>5, <3>2, <4>1 DEF IInv, RowsOK
      <4> QED
        BY <2>5, <4>1, <4>2 DEF VolumeAccounted, Size, Wine
    <3> QED
      BY <3>1, <3>2
  <2> QED
    BY <2>6 DEF VolumeAccounted
<1>3. ASSUME NEW t \in Terminals, PourGlass(t) PROVE VolumeAccounted'
  <2> DEFINE r == terminal[t]
             o == r.opening
  <2>1. r.op = "pour" /\ r \in Requests /\ left[o] >= r.volume
    BY <1>3 DEF PourGlass, IInv, RowsOK
  <2>2. o \in Openings /\ r.volume \in Nat /\ r.kind \in Kinds /\ left[o] \in Nat
    BY <2>1 DEF Requests, Idle, IInv, RowsOK
  <2>3. Pour(o, r, left[o], status[o]) /\ UNCHANGED <<lotOf, lost>>
    BY <1>3 DEF PourGlass
  <2> HIDE DEF r, o
  <2>4. left'[o] + served'[o] + wasted'[o] = left[o] + served[o] + wasted[o]
    BY <2>1, <2>2, <2>3, PourMoves
  <2>5. \A p \in Openings \ {o} : left'[p] = left[p] /\ served'[p] = served[p] /\ wasted'[p] = wasted[p]
    BY <2>2, <2>3 DEF Pour, IInv, RowsOK
  <2>6. \A p \in Openings : /\ left'[p] \in Int /\ served'[p] \in Int /\ wasted'[p] \in Int
                            /\ lost'[p] \in Int /\ left[p] \in Int /\ served[p] \in Int
                            /\ wasted[p] \in Int /\ lost[p] \in Int
    BY <2>1, <2>2, <2>3 DEF Pour, IInv, RowsOK
  <2>7. Exists' = Exists /\ Exists \subseteq Openings
    BY <1>3, PourStep DEF Exists
  <2>8. ASSUME NEW p \in Exists PROVE Size(p)' = left'[p] + served'[p] + wasted'[p] + lost'[p]
    BY <2>2, <2>3, <2>4, <2>5, <2>6, <2>7 DEF VolumeAccounted, Size, Wine
  <2> QED
    BY <2>7, <2>8 DEF VolumeAccounted
<1>4. ASSUME NEW t \in Terminals, PourFromNewBottle(t) PROVE VolumeAccounted'
  <2> DEFINE r == terminal[t]
             o == NewOpening
  <2>1. r.op = "pourNew" /\ r \in Requests /\ o \in Openings
    BY <1>4 DEF PourFromNewBottle, IInv, RowsOK
  <2>2. /\ r.lot \in Lots /\ WineOf[r.lot] = r.wine /\ BottleSize[r.wine] \in Nat
        /\ r.volume \in Nat /\ r.volume <= BottleSize[r.wine] /\ r.kind \in Kinds
    BY <2>1, WinesAssumption DEF Requests, Idle, IInv, Shape, RequestsFit
  <2>3. o \notin Exists
    BY NextNumber DEF IInv, Shape
  <2>4. served[o] = 0 /\ wasted[o] = 0 /\ lost[o] = 0
    BY <2>1, <2>3 DEF IInv, Shape, UnopenedBlank
  <2>5. /\ lotOf' = [lotOf EXCEPT ![o] = r.lot] /\ UNCHANGED lost
        /\ Pour(o, r, BottleSize[r.wine], "open")
    BY <1>4 DEF PourFromNewBottle
  <2> HIDE DEF r, o
  <2>6. left'[o] + served'[o] + wasted'[o] = BottleSize[r.wine] + served[o] + wasted[o]
    BY <2>1, <2>2, <2>5, PourMoves
  <2>7. \A p \in Openings \ {o} : /\ left'[p] = left[p] /\ served'[p] = served[p]
                                 /\ wasted'[p] = wasted[p] /\ status'[p] = status[p]
    BY <2>1, <2>5 DEF Pour, IInv, RowsOK
  <2>8. left'[o] \in Int /\ served'[o] \in Int /\ wasted'[o] \in Int
    BY <2>1, <2>2, <2>5 DEF Pour, IInv, RowsOK
  <2>9. ASSUME NEW p \in Exists' PROVE Size(p)' = left'[p] + served'[p] + wasted'[p] + lost'[p]
    <3>1. CASE p = o
      <4>1. lotOf'[p] = r.lot
        BY <2>1, <2>5, <3>1 DEF IInv, RowsOK
      <4>2. Size(p)' = BottleSize[r.wine]
        BY <2>2, <4>1 DEF Size, Wine
      <4>3. BottleSize[r.wine] = left'[p] + served'[p] + wasted'[p]
        BY <2>2, <2>4, <2>6, <2>8, <3>1
      <4> QED
        BY <2>1, <2>2, <2>4, <2>5, <2>8, <3>1, <4>2, <4>3
    <3>2. CASE p # o
      <4>1. p \in Exists /\ p \in Openings
        BY <2>7, <3>2 DEF Exists
      <4>2. lotOf'[p] = lotOf[p]
        BY <2>1, <2>5, <3>2, <4>1 DEF IInv, RowsOK
      <4> QED
        BY <2>5, <2>7, <3>2, <4>1, <4>2 DEF VolumeAccounted, Size, Wine
    <3> QED
      BY <3>1, <3>2
  <2> QED
    BY <2>9 DEF VolumeAccounted
<1>5. ASSUME NEW o \in Openings, NEW asWaste \in AsWaste, FinishBottle(o, asWaste)
      PROVE  VolumeAccounted'
  <2>1. asWaste = TRUE /\ Exists' = Exists /\ Exists \subseteq Openings
    BY <1>5, CloseStep DEF Exists
  <2>2. left'[o] = 0 /\ wasted'[o] = wasted[o] + left[o] /\ UNCHANGED <<lotOf, served, lost>>
    BY <1>5, <2>1 DEF FinishBottle, Thrown, IInv, RowsOK
  <2>3. \A p \in Openings \ {o} : left'[p] = left[p] /\ wasted'[p] = wasted[p]
    BY <1>5 DEF FinishBottle, IInv, RowsOK
  <2>4. ASSUME NEW p \in Exists PROVE Size(p)' = left'[p] + served'[p] + wasted'[p] + lost'[p]
    BY <2>1, <2>2, <2>3 DEF VolumeAccounted, Size, Wine, IInv, RowsOK
  <2> QED
    BY <2>1, <2>4 DEF VolumeAccounted
<1>6. ASSUME NEW o \in Openings, NEW v \in Volumes, FaultInOpening(o, v)
      PROVE  VolumeAccounted'
  <2> DEFINE gone == IF v = 0 \/ v > left[o] THEN left[o] ELSE v
  <2>1. Exists' = Exists /\ Exists \subseteq Openings /\ gone \in Nat
    BY <1>6, CloseStep, RequestsAssumption DEF Exists, IInv, RowsOK
  <2>2. /\ left' = [left EXCEPT ![o] = left[o] - gone] /\ lost' = [lost EXCEPT ![o] = lost[o] + gone]
        /\ UNCHANGED <<lotOf, served, wasted>>
    BY <1>6 DEF FaultInOpening
  <2> HIDE DEF gone
  <2>3. left'[o] = left[o] - gone /\ lost'[o] = lost[o] + gone
    BY <2>2 DEF IInv, RowsOK
  <2>4. \A p \in Openings \ {o} : left'[p] = left[p] /\ lost'[p] = lost[p]
    BY <2>2 DEF IInv, RowsOK
  <2>5. ASSUME NEW p \in Exists PROVE Size(p)' = left'[p] + served'[p] + wasted'[p] + lost'[p]
    BY <2>1, <2>2, <2>3, <2>4 DEF VolumeAccounted, Size, Wine, IInv, RowsOK
  <2> QED
    BY <2>1, <2>5 DEF VolumeAccounted
<1>7. ASSUME NEW t \in Terminals, NEW w \in Wines,
             \/ SelectForOpen(t, w)
             \/ \E v \in Volumes, k \in Kinds : SelectForPour(t, w, v, k)
             \/ \E n \in FaultSizes : SelectForFault(t, w, n)
      PROVE  UNCHANGED <<lotOf, left, status, served, wasted, lost>>
  BY <1>7, SelectStep DEF openingVars
<1>8. ASSUME NEW t \in Terminals, RecordFault(t) \/ Refused(t)
      PROVE  UNCHANGED <<lotOf, left, status, served, wasted, lost>>
  BY <1>8 DEF RecordFault, Refused, openingVars
<1>9. UNCHANGED vars => UNCHANGED <<lotOf, left, status, served, wasted, lost>>
  BY DEF vars, openingVars
<1> QED
  BY <1>1, <1>2, <1>3, <1>4, <1>5, <1>6, <1>7, <1>8, <1>9 DEF Next

\* What left an opened bottle was served, wasted or lost to a fault, for any
\* overlap of pours, closings and faults, if bottles are closed as waste.
THEOREM VolumeConserved ==
  ASSUME AsWaste \subseteq {TRUE}
  PROVE  Spec => []VolumeAccounted
<1>1. Init => VolumeAccounted
  BY DEF Init, VolumeAccounted, Exists
<1>2. IInv /\ VolumeAccounted /\ [Next]_vars => VolumeAccounted'
  BY VolumeStep
<1> QED
  BY <1>1, <1>2, AlwaysIInv, PTL DEF Spec

-----------------------------------------------------------------------------
\* A bottle taken from its lot is one more opening of that lot.
LEMMA TakenIsOpened ==
  ASSUME IInv, BottlesAccounted, NEW o, o = NewOpening, o \in Openings, NEW l \in Lots,
         NEW st \in {"open", "finished"}, status' = [status EXCEPT ![o] = st],
         lotOf' = [lotOf EXCEPT ![o] = l], bottles' = [bottles EXCEPT ![l] = @ - 1],
         UNCHANGED faulted
  PROVE  BottlesAccounted'
<1>1. o \notin Exists /\ Exists' = Exists \cup {o}
  BY NewBottle
<1>2. IsFiniteSet(Exists)
  BY NextNumber DEF IInv, Shape
<1>3. ASSUME NEW m \in Lots
      PROVE  Received[m] = bottles'[m] + faulted'[m] + Cardinality({p \in Exists' : lotOf'[p] = m})
  <2> DEFINE Of == {p \in Exists : lotOf[p] = m}
  <2>1. IsFiniteSet(Of) /\ Cardinality(Of) \in Nat
    BY <1>2, FS_Subset, FS_CardinalityType
  <2>2. Received[m] = bottles[m] + faulted[m] + Cardinality(Of)
    BY DEF BottlesAccounted
  <2>3. bottles[m] \in Nat /\ faulted[m] \in Nat /\ faulted'[m] = faulted[m]
    BY DEF IInv, RowsOK
  <2>4. \A p \in Exists : p # o /\ lotOf'[p] = lotOf[p]
    BY <1>1 DEF Exists, IInv, RowsOK
  <2>5. lotOf'[o] = l
    BY DEF IInv, RowsOK
  <2>6. CASE m = l
    <3>1. {p \in Exists' : lotOf'[p] = m} = Of \cup {o}
      BY <1>1, <2>4, <2>5, <2>6
    <3>2. Cardinality(Of \cup {o}) = Cardinality(Of) + 1
      BY <1>1, <2>1, FS_AddElement
    <3>3. bottles'[m] = bottles[m] - 1
      BY <2>6 DEF IInv, RowsOK
    <3>4. Cardinality({p \in Exists' : lotOf'[p] = m}) = Cardinality(Of) + 1
      BY <3>1, <3>2
    <3> HIDE DEF Of
    <3> QED
      BY <2>1, <2>2, <2>3, <3>3, <3>4
  <2>7. CASE m # l
    <3>1. {p \in Exists' : lotOf'[p] = m} = Of
      BY <1>1, <2>4, <2>5, <2>7
    <3>2. bottles'[m] = bottles[m]
      BY <2>7 DEF IInv, RowsOK
    <3> HIDE DEF Of
    <3> QED
      BY <2>2, <2>3, <3>1, <3>2
  <2> QED
    BY <2>6, <2>7
<1> QED
  BY <1>3 DEF BottlesAccounted

LEMMA BottlesStep ==
  ASSUME IInv, BottlesAccounted, [Next]_vars
  PROVE  BottlesAccounted'
<1>1. CASE UNCHANGED <<lotVars, lotOf>> /\ Exists' = Exists
  BY <1>1 DEF BottlesAccounted, lotVars
<1>2. ASSUME NEW t \in Terminals, OpenBottle(t) \/ PourFromNewBottle(t)
      PROVE  BottlesAccounted'
  <2> DEFINE r == terminal[t]
             o == NewOpening
  <2>1. r.op \in {"open", "pourNew"} /\ r \in Requests /\ o \in Openings
    BY <1>2 DEF OpenBottle, PourFromNewBottle, IInv, RowsOK
  <2>2. r.lot \in Lots
    BY <2>1 DEF Requests, Idle
  <2>3. /\ lotOf' = [lotOf EXCEPT ![o] = r.lot] /\ UNCHANGED faulted
        /\ bottles' = [bottles EXCEPT ![r.lot] = bottles[r.lot] - 1]
    BY <1>2 DEF OpenBottle, PourFromNewBottle, TakeFrom
  <2>4. PICK st \in {"open", "finished"} : status' = [status EXCEPT ![o] = st]
    BY <1>2 DEF OpenBottle, PourFromNewBottle, Pour
  <2>5. o = NewOpening
    OBVIOUS
  <2> HIDE DEF r, o
  <2> QED
    BY <2>1, <2>2, <2>3, <2>4, <2>5, TakenIsOpened
<1>3. ASSUME NEW t \in Terminals, RecordFault(t) PROVE BottlesAccounted'
  <2> DEFINE r == terminal[t]
  <2>1. r \in Requests /\ r.op = "fault"
    BY <1>3 DEF RecordFault, IInv, RowsOK
  <2>2. r.lot \in Lots /\ r.affected \in Nat
    BY <2>1 DEF Requests, Idle
  <2>3. /\ bottles' = [bottles EXCEPT ![r.lot] = bottles[r.lot] - r.affected]
        /\ faulted' = [faulted EXCEPT ![r.lot] = faulted[r.lot] + r.affected]
        /\ lotOf' = lotOf /\ Exists' = Exists
    BY <1>3 DEF RecordFault, TakeFrom, openingVars, Exists
  <2> HIDE DEF r
  <2>4. ASSUME NEW m \in Lots
        PROVE  Received[m] = bottles'[m] + faulted'[m] + Cardinality({p \in Exists' : lotOf'[p] = m})
    <3> DEFINE n == Cardinality({p \in Exists : lotOf[p] = m})
    <3>1. IsFiniteSet({p \in Exists : lotOf[p] = m})
      BY NextNumber, FS_Subset DEF IInv, Shape
    <3>2. n \in Nat /\ Received[m] = bottles[m] + faulted[m] + n
      BY <3>1, FS_CardinalityType DEF BottlesAccounted
    <3>3. /\ bottles'[m] + faulted'[m] = bottles[m] + faulted[m]
          /\ bottles'[m] \in Int /\ faulted'[m] \in Int /\ bottles[m] \in Int /\ faulted[m] \in Int
      BY <2>2, <2>3 DEF IInv, RowsOK
    <3>4. Cardinality({p \in Exists' : lotOf'[p] = m}) = n
      BY <2>3
    <3> HIDE DEF n
    <3> QED
      BY <3>2, <3>3, <3>4
  <2> QED
    BY <2>4 DEF BottlesAccounted
<1>4. ASSUME NEW t \in Terminals, PourGlass(t) PROVE BottlesAccounted'
  BY <1>1, <1>4, PourStep DEF PourGlass
<1>5. ASSUME NEW o \in Openings,
             \/ \E asWaste \in AsWaste : FinishBottle(o, asWaste)
             \/ \E v \in Volumes : FaultInOpening(o, v)
      PROVE  BottlesAccounted'
  BY <1>1, <1>5, CloseStep DEF FinishBottle, FaultInOpening
<1>6. ASSUME NEW t \in Terminals, NEW w \in Wines,
             \/ SelectForOpen(t, w)
             \/ \E v \in Volumes, k \in Kinds : SelectForPour(t, w, v, k)
             \/ \E n \in FaultSizes : SelectForFault(t, w, n)
      PROVE  BottlesAccounted'
  BY <1>1, <1>6, SelectStep DEF openingVars, Exists
<1>7. ASSUME NEW t \in Terminals, Refused(t) PROVE BottlesAccounted'
  BY <1>1, <1>7 DEF Refused, openingVars, Exists
<1>8. CASE UNCHANGED vars
  BY <1>1, <1>8 DEF vars, openingVars, Exists
<1> QED
  BY <1>2, <1>3, <1>4, <1>5, <1>6, <1>7, <1>8 DEF Next

\* Every bottle that left a lot was opened or written off as faulty, for any
\* overlap of waiters who chose the same last bottle.
THEOREM BottlesConserved == Spec => []BottlesAccounted
<1>1. Init => BottlesAccounted
  <2> SUFFICES ASSUME Init, NEW l \in Lots
               PROVE  Received[l] = bottles[l] + faulted[l] + Cardinality({o \in Exists : lotOf[o] = l})
    BY DEF BottlesAccounted
  <2>1. {o \in Exists : lotOf[o] = l} = {}
    BY DEF Init, Exists
  <2>2. bottles[l] = Received[l] /\ faulted[l] = 0 /\ Received[l] \in Nat
    BY LotsAssumption DEF Init
  <2> QED
    BY <2>1, <2>2, FS_EmptySet
<1>2. IInv /\ BottlesAccounted /\ [Next]_vars => BottlesAccounted'
  BY BottlesStep
<1> QED
  BY <1>1, <1>2, AlwaysIInv, PTL DEF Spec

-----------------------------------------------------------------------------
\* A bottle that was finished or discarded is never open again, even when a
\* glass is poured from it after another terminal closed it.
THEOREM ClosedStaysClosed == Spec => ClosedForGood
<1> DEFINE Closed == {"finished", "discarded"}
           Stays == \A o \in Openings : status[o] \in Closed => status'[o] \in Closed
<1>1. ASSUME IInv, [Next]_vars PROVE Stays
  <2>1. ASSUME NEW t \in Terminals, OpenBottle(t) \/ PourFromNewBottle(t) PROVE Stays
    <3>1. NewOpening \notin Exists
      BY <1>1, NextNumber DEF IInv, Shape
    <3>2. \E st : status' = [status EXCEPT ![NewOpening] = st]
      BY <2>1 DEF OpenBottle, PourFromNewBottle, Pour
    <3> QED
      BY <1>1, <3>1, <3>2 DEF Exists, IInv, RowsOK
  <2>2. ASSUME NEW t \in Terminals, PourGlass(t) PROVE Stays
    <3> DEFINE o == terminal[t].opening
    <3>1. \E st \in {"finished", status[o]} : status' = [status EXCEPT ![o] = st]
      BY <2>2 DEF PourGlass, Pour
    <3> QED
      BY <1>1, <3>1 DEF IInv, RowsOK
  <2>3. ASSUME NEW o \in Openings,
               \/ \E asWaste \in AsWaste : FinishBottle(o, asWaste)
               \/ \E v \in Volumes : FaultInOpening(o, v)
        PROVE  Stays
    <3>1. \E st \in Closed : status' = [status EXCEPT ![o] = st]
      BY <2>3 DEF FinishBottle, FaultInOpening
    <3> QED
      BY <1>1, <3>1 DEF IInv, RowsOK
  <2>4. ASSUME NEW t \in Terminals, NEW w \in Wines,
               \/ SelectForOpen(t, w)
               \/ \E v \in Volumes, k \in Kinds : SelectForPour(t, w, v, k)
               \/ \E n \in FaultSizes : SelectForFault(t, w, n)
        PROVE  Stays
    BY <1>1, <2>4, SelectStep DEF openingVars
  <2>5. ASSUME NEW t \in Terminals, RecordFault(t) \/ Refused(t) PROVE Stays
    BY <2>5 DEF RecordFault, Refused, openingVars
  <2>6. CASE UNCHANGED vars
    BY <2>6 DEF vars, openingVars
  <2> QED
    BY <1>1, <2>1, <2>2, <2>3, <2>4, <2>5, <2>6 DEF Next
<1>2. Stays => [Stays]_vars
  OBVIOUS
<1> QED
  BY <1>1, AlwaysIInv, PTL DEF Spec, ClosedForGood
-----------------------------------------------------------------------------
\* On SQLite at most one transaction is under way, and while it is nothing
\* else changes a bottle: what it selected is still the oldest that holds enough.
OneTransaction == sqlite => \A t, u \in Terminals : terminal[t] # Idle /\ terminal[u] # Idle => t = u
StillOldest ==
  sqlite => \A t \in Terminals, o \in Openings :
    LET r == terminal[t] IN
    /\ r.op = "pour" => Wine(r.opening) = r.wine
    /\ r.op = "pour" /\ o < r.opening /\ status[o] = "open" /\ Wine(o) = r.wine => left[o] < r.volume
    /\ r.op = "pourNew" /\ status[o] = "open" /\ Wine(o) = r.wine => left[o] < r.volume

\* A selection is made when no other transaction is under way (SQLite).
LEMMA BeginAlone ==
  ASSUME IInv, sqlite, OneTransaction, NEW t \in Terminals, NEW r, Begin(t, r), UNCHANGED sqlite,
         \A o \in Openings :
           /\ r.op = "pour" => Wine(r.opening) = r.wine
           /\ r.op = "pour" /\ o < r.opening /\ status[o] = "open" /\ Wine(o) = r.wine => left[o] < r.volume
           /\ r.op = "pourNew" /\ status[o] = "open" /\ Wine(o) = r.wine => left[o] < r.volume
  PROVE  OneTransaction' /\ StillOldest'
<1>1. \A u \in Terminals : terminal[u] = Idle
  BY DEF Begin, Free
<1>2. \A u \in Terminals : terminal'[u] = IF u = t THEN r ELSE Idle
  BY <1>1 DEF Begin, IInv, RowsOK
<1>3. UNCHANGED <<status, left, lotOf>>
  BY DEF Begin, openingVars
<1>4. OneTransaction'
  BY <1>2 DEF OneTransaction
<1>5. ASSUME NEW u \in Terminals, NEW o \in Openings
      PROVE  LET q == terminal'[u] IN
             /\ q.op = "pour" => WineOf[lotOf'[q.opening]] = q.wine
             /\ q.op = "pour" /\ o < q.opening /\ status'[o] = "open" /\ WineOf[lotOf'[o]] = q.wine
                  => left'[o] < q.volume
             /\ q.op = "pourNew" /\ status'[o] = "open" /\ WineOf[lotOf'[o]] = q.wine => left'[o] < q.volume
  <2>1. CASE u = t
    <3>1. terminal'[u] = r
      BY <1>2, <2>1
    <3> QED
      BY <1>3, <3>1 DEF Wine
  <2>2. CASE u # t
    BY <1>2, <2>2 DEF Idle
  <2> QED
    BY <2>1, <2>2
<1> QED
  BY <1>4, <1>5 DEF StillOldest, Wine

\* Of any openings one was opened first.
LEMMA FirstOf ==
  ASSUME NEW T \in SUBSET (1 .. MaxOpenings), T # {}
  PROVE  \E o \in T : \A x \in T : o <= x
<1> DEFINE R == {s \in Nat \X Nat : s[1] < s[2]}
<1>1. IsWellFoundedOn(R, Nat)
  BY NatLessThanWellFounded DEF OpToRel
<1>2. T \in SUBSET Nat
  BY RequestsAssumption
<1>3. PICK x \in T : \A y \in T : <<y, x>> \notin R
  BY <1>1, <1>2, WFMin
<1>4. \A y \in T : <<y, x>> \in Nat \X Nat /\ <<y, x>>[1] = y /\ <<y, x>>[2] = x
  BY <1>2
<1>5. \A y \in T : ~(y < x)
  BY <1>3, <1>4
<1> QED
  BY <1>2, <1>5

\* What a selection chooses is the oldest there is (SQLite).
LEMMA OldestSelected ==
  ASSUME IInv, sqlite, OneTransaction, UNCHANGED sqlite, NEW t \in Terminals, NEW w \in Wines,
         \/ SelectForOpen(t, w)
         \/ \E v \in Volumes, k \in Kinds : SelectForPour(t, w, v, k)
         \/ \E n \in FaultSizes : SelectForFault(t, w, n)
  PROVE  OneTransaction' /\ StillOldest'
<1>1. CASE SelectForOpen(t, w)
  <2>1. PICK l \in FefoLot(w) : Begin(t, [op |-> "open", wine |-> w, lot |-> l])
    BY <1>1 DEF SelectForOpen
  <2> DEFINE r == [op |-> "open", wine |-> w, lot |-> l]
  <2>2. r.op = "open"
    OBVIOUS
  <2> HIDE DEF r
  <2> QED
    BY <2>1, <2>2, BeginAlone DEF r
<1>2. CASE \E v \in Volumes, k \in Kinds : SelectForPour(t, w, v, k)
  <2>1. PICK q \in Volumes, k \in Kinds : SelectForPour(t, w, q, k)
    BY <1>2
  <2> DEFINE v == Pours(w, q)
  <2>2. v \in Nat /\ v <= BottleSize[w]
    BY <2>1, RequestsAssumption, WinesAssumption DEF SelectForPour, Pours
  <2>3. CASE \E o \in FindOpenBottle(w, v) :
                Begin(t, [op |-> "pour", wine |-> w, volume |-> v, kind |-> k, opening |-> o])
    <3>1. PICK o \in FindOpenBottle(w, v) :
                Begin(t, [op |-> "pour", wine |-> w, volume |-> v, kind |-> k, opening |-> o])
      BY <2>3
    <3> HIDE DEF v
    <3>2. Wine(o) = w /\ o \in Openings
      BY DEF FindOpenBottle, Pourable
    <3>3. ASSUME NEW p \in Openings, p < o, status[p] = "open", Wine(p) = w PROVE left[p] < v
      <4>1. ~Pourable(p, w, v)
        BY <3>2, <3>3, RequestsAssumption DEF FindOpenBottle, Openings
      <4>2. left[p] \in Nat
        BY DEF IInv, RowsOK
      <4> QED
        BY <2>2, <3>3, <4>1, <4>2 DEF Pourable
    <3> DEFINE r == [op |-> "pour", wine |-> w, volume |-> v, kind |-> k, opening |-> o]
    <3>4. r.op = "pour" /\ r.wine = w /\ r.volume = v /\ r.opening = o /\ Begin(t, r)
      BY <3>1
    <3> HIDE DEF r
    <3> QED
      BY <3>2, <3>3, <3>4, BeginAlone
  <2>4. CASE /\ FindOpenBottle(w, v) = {}
             /\ \E l \in FefoLot(w) :
                  Begin(t, [op |-> "pourNew", wine |-> w, volume |-> v, kind |-> k, lot |-> l])
    <3>1. PICK l \in FefoLot(w) :
                Begin(t, [op |-> "pourNew", wine |-> w, volume |-> v, kind |-> k, lot |-> l])
      BY <2>4
    <3> HIDE DEF v
    <3>2. ASSUME NEW p \in Openings, status[p] = "open", Wine(p) = w PROVE left[p] < v
      <4> SUFFICES ASSUME ~(left[p] < v) PROVE FALSE
        OBVIOUS
      <4> DEFINE T == {o \in Openings : Pourable(o, w, v)}
      <4>1. left[p] \in Nat
        BY DEF IInv, RowsOK
      <4>2. p \in T /\ T \subseteq 1 .. MaxOpenings
        BY <2>2, <3>2, <4>1 DEF Pourable, Openings
      <4>3. \E o \in T : \A x \in T : o <= x
        <5> HIDE DEF T
        <5> QED
          BY <4>2, FirstOf
      <4> QED
        BY <2>4, <4>3 DEF FindOpenBottle
    <3> DEFINE r == [op |-> "pourNew", wine |-> w, volume |-> v, kind |-> k, lot |-> l]
    <3>3. r.op = "pourNew" /\ r.wine = w /\ r.volume = v /\ Begin(t, r)
      BY <3>1
    <3> HIDE DEF r
    <3> QED
      BY <3>2, <3>3, BeginAlone
  <2> QED
    BY <2>1, <2>3, <2>4 DEF SelectForPour
<1>3. CASE \E n \in FaultSizes : SelectForFault(t, w, n)
  <2>1. PICK n \in FaultSizes, l \in FefoLot(w) :
              Begin(t, [op |-> "fault", wine |-> w, lot |-> l, affected |-> n])
    BY <1>3 DEF SelectForFault
  <2> DEFINE r == [op |-> "fault", wine |-> w, lot |-> l, affected |-> n]
  <2>2. r.op = "fault"
    OBVIOUS
  <2> HIDE DEF r
  <2> QED
    BY <2>1, <2>2, BeginAlone DEF r
<1> QED
  BY <1>1, <1>2, <1>3

\* Both hold after every step.
LEMMA OldestStep ==
  ASSUME IInv, OneTransaction, StillOldest, [Next]_vars
  PROVE  OneTransaction' /\ StillOldest'
<1>1. UNCHANGED sqlite
  BY DEF Next, vars
<1> SUFFICES ASSUME sqlite PROVE OneTransaction' /\ StillOldest'
  BY <1>1 DEF OneTransaction, StillOldest
<1>2. ASSUME NEW t \in Terminals, NEW w \in Wines,
             \/ SelectForOpen(t, w)
             \/ \E v \in Volumes, k \in Kinds : SelectForPour(t, w, v, k)
             \/ \E n \in FaultSizes : SelectForFault(t, w, n)
      PROVE  OneTransaction' /\ StillOldest'
  BY <1>1, <1>2, OldestSelected
<1>3. ASSUME NEW t \in Terminals, terminal' = [terminal EXCEPT ![t] = Idle], terminal[t] # Idle
      PROVE  OneTransaction' /\ StillOldest'
  <2>1. \A u \in Terminals : terminal'[u] = Idle
    BY <1>3 DEF OneTransaction, IInv, RowsOK
  <2>2. Idle.op = "idle"
    BY DEF Idle
  <2> QED
    BY <2>1, <2>2 DEF OneTransaction, StillOldest
<1>4. ASSUME NEW t \in Terminals, OpenBottle(t) \/ PourGlass(t) \/ PourFromNewBottle(t) \/ RecordFault(t) \/ Refused(t)
      PROVE  OneTransaction' /\ StillOldest'
  <2>1. terminal[t].op \in {"open", "pour", "pourNew", "fault"} /\ terminal' = [terminal EXCEPT ![t] = Idle]
    BY <1>4 DEF OpenBottle, PourGlass, PourFromNewBottle, RecordFault, Refused
  <2>2. terminal[t] # Idle
    BY <2>1 DEF Idle
  <2> QED
    BY <1>3, <2>1, <2>2
<1>5. ASSUME Unlocked, UNCHANGED terminal PROVE OneTransaction' /\ StillOldest'
  <2>1. \A u \in Terminals : terminal'[u] = Idle
    BY <1>5 DEF Unlocked
  <2>2. Idle.op = "idle"
    BY DEF Idle
  <2> QED
    BY <2>1, <2>2 DEF OneTransaction, StillOldest
<1>6. CASE UNCHANGED vars
  BY <1>6 DEF vars, openingVars, OneTransaction, StillOldest, Wine
<1> QED
  BY <1>2, <1>4, <1>5, <1>6 DEF Next, FinishBottle, FaultInOpening

\* On SQLite a glass comes from the bottle opened first that holds enough, and
\* from a new one only when none does.
THEOREM OldestBottlesFirst == Spec => OldestBottleFirst
<1> DEFINE drawn(p) == served'[p] + wasted'[p] - served[p] - wasted[p]
           First == sqlite => \A o \in Openings, p \in Openings :
             status'[p] # "discarded" /\ drawn(p) > 0 /\ o < p /\ status[o] = "open" /\ Wine(o) = WineOf[lotOf'[p]]
               => left[o] < drawn(p)
<1>1. ASSUME IInv, OneTransaction, StillOldest, Next PROVE First
  <2> SUFFICES ASSUME sqlite, NEW o \in Openings, NEW p \in Openings, status'[p] # "discarded", drawn(p) > 0,
                      o < p, status[o] = "open", Wine(o) = WineOf[lotOf'[p]]
               PROVE  left[o] < drawn(p)
    OBVIOUS
  <2>1. served[p] \in Nat /\ wasted[p] \in Nat /\ \A x \in Openings : served[x] \in Nat /\ wasted[x] \in Nat
    BY <1>1 DEF IInv, RowsOK
  <2>2. ASSUME UNCHANGED <<served, wasted>> PROVE FALSE
    BY <2>1, <2>2
  <2>3. ASSUME NEW t \in Terminals, terminal[t].op \in {"pour", "pourNew"}, NEW x \in Openings, NEW ml, NEW st,
               Pour(x, terminal[t], ml, st)
        PROVE  p = x /\ drawn(p) = terminal[t].volume
    <3> DEFINE r == terminal[t]
    <3>1. r.volume \in Nat /\ r.kind \in Kinds
      BY <1>1, <2>3 DEF IInv, RowsOK, Requests, Idle
    <3>2. /\ served' = [served EXCEPT ![x] = IF r.kind = "sale" THEN @ + r.volume ELSE @]
          /\ wasted' = [wasted EXCEPT ![x] = IF r.kind = "waste" THEN @ + r.volume ELSE @]
      BY <2>3 DEF Pour
    <3> HIDE DEF r
    <3>3. p = x
      BY <1>1, <2>1, <3>2 DEF IInv, RowsOK
    <3>4. CASE r.kind = "sale"
      <4>1. served'[p] = served[p] + r.volume /\ wasted'[p] = wasted[p]
        BY <1>1, <3>2, <3>3, <3>4 DEF IInv, RowsOK
      <4> QED
        BY <2>1, <3>1, <3>3, <4>1 DEF r
    <3>5. CASE r.kind = "waste"
      <4>1. served'[p] = served[p] /\ wasted'[p] = wasted[p] + r.volume
        BY <1>1, <3>2, <3>3, <3>5 DEF IInv, RowsOK
      <4> QED
        BY <2>1, <3>1, <3>3, <4>1 DEF r
    <3> QED
      BY <3>1, <3>4, <3>5 DEF Kinds
  <2>4. ASSUME NEW t \in Terminals, PourGlass(t) PROVE left[o] < drawn(p)
    <3>1. terminal[t].op = "pour" /\ UNCHANGED lotOf
      BY <2>4 DEF PourGlass
    <3>2. terminal[t].opening \in Openings
      BY <1>1, <3>1 DEF IInv, Shape, RequestsFit, Exists
    <3>3. p = terminal[t].opening /\ drawn(p) = terminal[t].volume
      BY <2>3, <2>4, <3>1, <3>2 DEF PourGlass
    <3>4. Wine(p) = terminal[t].wine
      BY <1>1, <3>1, <3>3 DEF StillOldest
    <3>5. left[o] < terminal[t].volume
      BY <1>1, <3>1, <3>3, <3>4 DEF StillOldest, Wine
    <3> QED
      BY <3>3, <3>5
  <2>5. ASSUME NEW t \in Terminals, PourFromNewBottle(t) PROVE left[o] < drawn(p)
    <3> DEFINE x == NewOpening
    <3>1. /\ terminal[t].op = "pourNew" /\ x \in Openings
          /\ lotOf' = [lotOf EXCEPT ![x] = terminal[t].lot]
          /\ Pour(x, terminal[t], BottleSize[terminal[t].wine], "open")
      BY <2>5 DEF PourFromNewBottle
    <3> HIDE DEF x
    <3>2. p = x /\ drawn(p) = terminal[t].volume
      BY <2>3, <3>1
    <3>3. Wine(o) = terminal[t].wine
      BY <1>1, <3>1, <3>2 DEF IInv, Shape, RequestsFit, RowsOK
    <3> QED
      BY <1>1, <3>1, <3>2, <3>3 DEF StillOldest
  <2>6. ASSUME NEW x \in Openings, NEW asWaste \in AsWaste, FinishBottle(x, asWaste) PROVE FALSE
    <3>1. served' = served /\ p = x /\ asWaste = TRUE
      BY <1>1, <2>1, <2>6, RequestsAssumption DEF FinishBottle, IInv, RowsOK
    <3>2. wasted'[p] = wasted[p] + left[p] /\ left[p] \in Nat
      BY <1>1, <2>6, <3>1 DEF FinishBottle, IInv, RowsOK, Thrown
    <3>3. left[p] > 0
      BY <2>1, <3>1, <3>2
    <3>4. status'[p] = "discarded"
      BY <1>1, <2>6, <3>1, <3>3 DEF FinishBottle, IInv, RowsOK
    <3> QED
      BY <3>4
  <2>7. ASSUME \/ \E t \in Terminals, w \in Wines :
                    \/ SelectForOpen(t, w)
                    \/ \E v \in Volumes, k \in Kinds : SelectForPour(t, w, v, k)
                    \/ \E n \in FaultSizes : SelectForFault(t, w, n)
               \/ \E t \in Terminals : OpenBottle(t) \/ RecordFault(t) \/ Refused(t)
               \/ \E x \in Openings, v \in Volumes : FaultInOpening(x, v)
        PROVE  UNCHANGED <<served, wasted>>
    <3>1. ASSUME NEW t \in Terminals, NEW w \in Wines,
                 \/ SelectForOpen(t, w)
                 \/ \E v \in Volumes, k \in Kinds : SelectForPour(t, w, v, k)
                 \/ \E n \in FaultSizes : SelectForFault(t, w, n)
          PROVE  UNCHANGED <<served, wasted>>
      BY <1>1, <3>1, SelectStep DEF openingVars
    <3> QED
      BY <2>7, <3>1 DEF OpenBottle, RecordFault, Refused, FaultInOpening, openingVars
  <2> QED
    BY <1>1, <2>2, <2>4, <2>5, <2>6, <2>7 DEF Next
<1>2. Init => OneTransaction /\ StillOldest
  BY DEF Init, OneTransaction, StillOldest, Idle
<1>3. IInv /\ OneTransaction /\ StillOldest /\ [Next]_vars => OneTransaction' /\ StillOldest'
  BY OldestStep
<1>4. IInv /\ OneTransaction /\ StillOldest /\ [Next]_vars => [First]_vars
  BY <1>1
<1>5. [First]_vars => [sqlite => \A o \in Openings, p \in Openings :
       LET d == served'[p] + wasted'[p] - served[p] - wasted[p] IN
       status'[p] # "discarded" /\ d > 0 /\ o < p /\ status[o] = "open" /\ Wine(o) = WineOf[lotOf'[p]]
         => left[o] < d]_vars
  OBVIOUS
<1> HIDE DEF First
<1> QED
  BY <1>2, <1>3, <1>4, <1>5, AlwaysIInv, PTL DEF Spec, OldestBottleFirst
=============================================================================
