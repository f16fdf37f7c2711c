------------------------- MODULE AuditTrail_proofs -------------------------
(***************************************************************************)
(* Proofs for any writers, archive commands, retention and bounds.  The    *)
(* receipts form one chain from the genesis: a receipt holds the write     *)
(* lock from before it reads the last one until it is inserted, so the     *)
(* last one it read is still the last.  The chain of audit rows breaks     *)
(* only by a race or by an archived row, and no row is removed that no     *)
(* archive holds.                                                          *)
(***************************************************************************)
EXTENDS AuditTrail, WellFoundedInduction, TLAPS

Busy(w)      == writer[w].step # "idle"
Receipting(w) == Busy(w) /\ writer[w].kind = "receipt"

\* What a thread holds is a record with these fields.
Fields == {"step", "kind", "inTx", "at", "prev"}
WritersAreThreads ==
  /\ writer = [w \in Writers |-> writer[w]]
  /\ \A w \in Writers : Busy(w) =>
       DOMAIN writer[w] = Fields /\ writer[w].kind \in {"audit", "receipt"}
  /\ lock \in Writers \cup {Nobody}

\* Whoever writes a receipt holds the lock, and what it has read is the last.
ReceiptsLock ==
  \A w \in Writers : Receipting(w) =>
    /\ lock = w
    /\ writer[w].step \in {"begun", "made", "read"}
    /\ writer[w].step = "read" => writer[w].prev = LastHash(receipts)

\* Receipts are numbered as they are written.
ReceiptsNumbered ==
  /\ receipts \in Seq(Receipt)
  /\ \A i \in 1 .. Len(receipts) : receipts[i].hash = i

Inv == WritersAreThreads /\ ReceiptsLock /\ ReceiptsNumbered /\ ReceiptsFollow

LEMMA InitInv == Init => Inv
<1> SUFFICES ASSUME Init PROVE Inv
  OBVIOUS
<1>1. WritersAreThreads /\ ReceiptsLock
  BY DEF Init, WritersAreThreads, ReceiptsLock, Receipting, Busy, Idle
<1>2. ReceiptsNumbered /\ ReceiptsFollow
  BY DEF Init, ReceiptsNumbered, ReceiptsFollow
<1> QED BY <1>1, <1>2 DEF Inv

\* Steps that leave threads and receipts alone.
LEMMA Elsewhere ==
  ASSUME Inv, UNCHANGED <<receipts, lock, writer>>
  PROVE  Inv'
BY DEF Inv, WritersAreThreads, ReceiptsLock, Receipting, Busy, ReceiptsNumbered, ReceiptsFollow

\* One thread moves on; the others keep their step, and the lock is theirs
\* afterwards if it was.
LEMMA ThreadStep ==
  ASSUME Inv, NEW w \in Writers, NEW work, Go(w, work), UNCHANGED receipts,
         lock' \in Writers \cup {Nobody},
         work.step # "idle" => DOMAIN work = Fields /\ work.kind \in {"audit", "receipt"},
         \A x \in Writers \ {w} : Receipting(x) => lock' = x,
         work.step # "idle" /\ work.kind = "receipt" =>
           /\ lock' = w /\ work.step \in {"begun", "made", "read"}
           /\ work.step = "read" => work.prev = LastHash(receipts)
  PROVE  Inv'
<1>1. writer' = [writer EXCEPT ![w] = work]
  BY DEF Go
<1>2. writer'[w] = work /\ \A x \in Writers \ {w} : writer'[x] = writer[x]
  BY <1>1 DEF Inv, WritersAreThreads
<1>3. WritersAreThreads'
  BY <1>1, <1>2 DEF Inv, WritersAreThreads, Busy
<1>4. LastHash(receipts)' = LastHash(receipts)
  BY DEF LastHash, Last
<1>5. ReceiptsLock'
  BY <1>2, <1>4 DEF Inv, ReceiptsLock, Receipting, Busy
<1>6. ReceiptsNumbered' /\ ReceiptsFollow'
  BY DEF Inv, ReceiptsNumbered, ReceiptsFollow
<1> QED BY <1>3, <1>5, <1>6 DEF Inv

\* A receipt is appended by the thread that holds the lock.
LEMMA ReceiptInserted ==
  ASSUME Inv, TrailAssumption, NEW w \in Writers, Insert(w), Receipting(w)
  PROVE  Inv'
<1> DEFINE r == [hash |-> Len(receipts) + 1, prev |-> writer[w].prev]
<1>1. /\ Len(receipts) \in Nat /\ Len(receipts) < MaxRows /\ MaxRows \in Nat
      /\ receipts' = Append(receipts, r)
      /\ lock = w /\ lock' = Nobody
      /\ writer' = [writer EXCEPT ![w] = Idle]
      /\ writer[w].prev = LastHash(receipts)
  BY DEF Inv, Insert, At, Receipting, ReceiptsLock, ReceiptsNumbered, Go, TrailAssumption
<1>2. LastHash(receipts) \in Hashes \cup {GENESIS}
  <2>1. CASE receipts = <<>>
    BY <2>1 DEF LastHash, GENESIS
  <2>2. CASE receipts # <<>>
    <3>1. Len(receipts) \in 1 .. Len(receipts) /\ receipts[Len(receipts)] \in Receipt
      BY <2>2 DEF Inv, ReceiptsNumbered
    <3> QED BY <2>2, <3>1 DEF LastHash, Last, Receipt
  <2> QED BY <2>1, <2>2
<1>3. r \in Receipt
  BY <1>1, <1>2 DEF Receipt, Hashes
<1>4. /\ receipts' \in Seq(Receipt) /\ Len(receipts') = Len(receipts) + 1
      /\ \A i \in 1 .. Len(receipts) : receipts'[i] = receipts[i]
      /\ receipts'[Len(receipts) + 1] = r
  BY <1>1, <1>3 DEF Inv, ReceiptsNumbered
<1>5. ReceiptsNumbered'
  <2>1. ASSUME NEW i \in 1 .. Len(receipts') PROVE receipts'[i].hash = i
    <3>1. i \in 1 .. Len(receipts) \/ i = Len(receipts) + 1
      BY <1>1, <1>4
    <3> QED BY <1>4, <3>1 DEF Inv, ReceiptsNumbered
  <2> QED BY <1>4, <2>1 DEF ReceiptsNumbered
<1>6. ReceiptsFollow'
  <2> SUFFICES ASSUME NEW i \in 1 .. Len(receipts')
               PROVE  receipts'[i].prev = (IF i = 1 THEN GENESIS ELSE receipts'[i - 1].hash)
    BY DEF ReceiptsFollow
  <2>1. CASE i \in 1 .. Len(receipts)
    <3>1. i = 1 \/ i - 1 \in 1 .. Len(receipts)
      BY <1>1, <2>1
    <3> QED BY <1>4, <2>1, <3>1 DEF Inv, ReceiptsFollow
  <2>2. CASE i = Len(receipts) + 1
    <3>1. receipts'[i].prev = LastHash(receipts)
      BY <1>1, <1>4, <2>2
    <3>2. CASE Len(receipts) = 0
      <4>1. receipts = <<>>
        BY <3>2 DEF Inv, ReceiptsNumbered
      <4> QED BY <2>2, <3>1, <3>2, <4>1 DEF LastHash
    <3>3. CASE Len(receipts) # 0
      <4>1. receipts # <<>> /\ Len(receipts) \in 1 .. Len(receipts)
        BY <1>1, <3>3
      <4>2. i # 1 /\ i - 1 = Len(receipts)
        BY <1>1, <2>2, <3>3
      <4>3. receipts'[i - 1] = receipts[Len(receipts)]
        BY <1>4, <4>1, <4>2
      <4> QED BY <3>1, <4>1, <4>2, <4>3 DEF LastHash, Last
    <3> QED BY <3>2, <3>3
  <2> QED BY <1>1, <1>4, <2>1, <2>2
<1>7. WritersAreThreads'
  <2>1. \A x \in Writers : writer'[x] = IF x = w THEN Idle ELSE writer[x]
    BY <1>1 DEF Inv, WritersAreThreads
  <2> QED BY <1>1, <2>1 DEF Inv, WritersAreThreads, Busy, Idle
<1>8. ReceiptsLock'
  <2>1. \A x \in Writers : writer'[x] = IF x = w THEN Idle ELSE writer[x]
    BY <1>1 DEF Inv, WritersAreThreads
  <2>2. \A x \in Writers : ~Receipting(x)'
    BY <1>1, <2>1 DEF Inv, ReceiptsLock, Receipting, Busy, Idle
  <2> QED BY <2>2 DEF ReceiptsLock
<1> QED BY <1>5, <1>6, <1>7, <1>8 DEF Inv

LEMMA WriterStep ==
  ASSUME Inv, TrailAssumption, NEW w \in Writers,
         \/ \E k \in {"audit", "receipt"} : Begin(w, k)
         \/ Make(w) \/ ReadLast(w) \/ ReadFails(w) \/ Insert(w) \/ Lose(w)
  PROVE  Inv'
<1>0. lock \in Writers \cup {Nobody} /\ Nobody \notin Writers
  BY DEF Inv, WritersAreThreads, TrailAssumption
<1>1. ASSUME NEW k \in {"audit", "receipt"}, Begin(w, k) PROVE Inv'
  <2> DEFINE work == [step |-> "begun", kind |-> k, inTx |-> TRUE, at |-> now, prev |-> NoHash]
  <2>1. Go(w, work) /\ UNCHANGED receipts /\ lock' = w /\ lock = Nobody
    BY <1>1 DEF Begin, MayWrite
  <2>2. \A x \in Writers : ~Receipting(x)
    BY <1>0, <2>1 DEF Inv, ReceiptsLock
  <2>3. work.step = "begun" /\ work.kind = k /\ DOMAIN work = Fields
    BY DEF Fields
  <2> HIDE DEF work
  <2> QED BY <2>1, <2>2, <2>3, ThreadStep
<1>2. CASE Make(w)
  <2>1. UNCHANGED <<receipts, lock>>
    BY <1>2 DEF Make, chainVars
  <2>2. \A x \in Writers \ {w} : Receipting(x) => lock' = x
    BY <2>1 DEF Inv, ReceiptsLock
  <2>3. CASE At(w, "idle") /\ Go(w, [step |-> "made", kind |-> "audit", inTx |-> FALSE,
                                    at |-> now, prev |-> NoHash])
    <3> DEFINE work == [step |-> "made", kind |-> "audit", inTx |-> FALSE,
                        at |-> now, prev |-> NoHash]
    <3>1. work.kind = "audit" /\ DOMAIN work = Fields /\ Go(w, work)
      BY <2>3 DEF Fields
    <3> HIDE DEF work
    <3> QED BY <1>0, <2>1, <2>2, <3>1, ThreadStep
  <2>4. CASE At(w, "begun") /\ Go(w, [writer[w] EXCEPT !.step = "made", !.at = now])
    <3> DEFINE work == [writer[w] EXCEPT !.step = "made", !.at = now]
    <3>1. DOMAIN writer[w] = Fields /\ writer[w].kind \in {"audit", "receipt"}
      BY <2>4 DEF At, Inv, WritersAreThreads, Busy
    <3>2. Go(w, work) /\ DOMAIN work = Fields /\ work.step = "made" /\ work.kind = writer[w].kind
      BY <2>4, <3>1 DEF Fields
    <3>3. work.kind = "receipt" => lock = w
      BY <2>4, <3>2 DEF At, Inv, ReceiptsLock, Receipting, Busy
    <3> HIDE DEF work
    <3> QED BY <1>0, <2>1, <2>2, <3>1, <3>2, <3>3, ThreadStep
  <2> QED BY <1>2, <2>3, <2>4 DEF Make
<1>3. CASE ReadLast(w)
  <2> DEFINE last == IF writer[w].kind = "receipt" THEN LastHash(receipts) ELSE LastLink
             work == [writer[w] EXCEPT !.step = "read", !.prev = last]
  <2>1. At(w, "made") /\ Go(w, work) /\ UNCHANGED <<receipts, lock>>
    BY <1>3 DEF ReadLast, chainVars
  <2>2. DOMAIN writer[w] = Fields /\ writer[w].kind \in {"audit", "receipt"}
    BY <2>1 DEF At, Inv, WritersAreThreads, Busy
  <2>3. work.kind = "receipt" => work.prev = LastHash(receipts)
    BY <2>2 DEF Fields
  <2>4. DOMAIN work = Fields /\ work.step = "read" /\ work.kind = writer[w].kind
    BY <2>2 DEF Fields
  <2> HIDE DEF work
  <2>5. work.kind = "receipt" => lock = w
    BY <2>1, <2>4 DEF At, Inv, ReceiptsLock, Receipting, Busy
  <2>6. \A x \in Writers \ {w} : Receipting(x) => lock' = x
    BY <2>1 DEF Inv, ReceiptsLock
  <2> QED BY <1>0, <2>1, <2>2, <2>3, <2>4, <2>5, <2>6, ThreadStep
<1>4. CASE ReadFails(w)
  <2> DEFINE work == [writer[w] EXCEPT !.step = "read"]
  <2>1. /\ At(w, "made") /\ writer[w].kind = "audit" /\ Go(w, work)
        /\ UNCHANGED <<receipts, lock>>
    BY <1>4 DEF ReadFails, chainVars
  <2>2. DOMAIN writer[w] = Fields /\ writer[w].kind \in {"audit", "receipt"}
    BY <2>1 DEF At, Inv, WritersAreThreads, Busy
  <2>3. DOMAIN work = Fields /\ work.kind = "audit"
    BY <2>1, <2>2 DEF Fields
  <2> HIDE DEF work
  <2>4. \A x \in Writers \ {w} : Receipting(x) => lock' = x
    BY <2>1 DEF Inv, ReceiptsLock
  <2> QED BY <1>0, <2>1, <2>3, <2>4, ThreadStep
<1>5. ASSUME Go(w, Idle), UNCHANGED receipts, lock' = IF lock = w THEN Nobody ELSE lock
      PROVE  Inv'
  <2>1. Idle.step = "idle"
    BY DEF Idle
  <2>2. \A x \in Writers \ {w} : Receipting(x) => lock' = x
    BY <1>5 DEF Inv, ReceiptsLock
  <2> QED BY <1>0, <1>5, <2>1, <2>2, ThreadStep
<1>6. CASE Insert(w)
  <2>1. CASE Receipting(w)
    BY <1>6, <2>1, ReceiptInserted
  <2>2. CASE ~Receipting(w)
    <3>1. writer[w].kind = "audit"
      BY <1>6, <2>2 DEF Insert, At, Receipting, Busy, Inv, WritersAreThreads
    <3>2. Go(w, Idle) /\ UNCHANGED receipts /\ lock' = IF lock = w THEN Nobody ELSE lock
      BY <1>6, <3>1 DEF Insert
    <3> QED BY <1>5, <3>2
  <2> QED BY <2>1, <2>2
<1>7. CASE Lose(w)
  BY <1>5, <1>7 DEF Lose
<1> QED BY <1>1, <1>2, <1>3, <1>4, <1>6, <1>7
-----------------------------------------------------------------------------
LEMMA InvKept ==
  ASSUME TrailAssumption
  PROVE  Inv /\ [Next]_vars => Inv'
<1> SUFFICES ASSUME Inv, [Next]_vars PROVE Inv'
  OBVIOUS
<1>1. CASE Tick
  BY <1>1, Elsewhere DEF Tick, chainVars
<1>2. ASSUME NEW p \in Purgers, Count(p) \/ Archive(p) \/ Delete(p) \/ Crash(p) PROVE Inv'
  BY <1>2, Elsewhere DEF Count, Archive, Delete, Crash, chainVars
<1>3. CASE UNCHANGED vars
  BY <1>3, Elsewhere DEF vars, chainVars
<1> QED BY <1>1, <1>2, <1>3, WriterStep DEF Next

-----------------------------------------------------------------------------
(* Types.                                                                  *)

LEMMA LeastExists ==
  ASSUME NEW T \in SUBSET Nat, T # {}
  PROVE  \E x \in T : \A y \in T : x <= y
<1> DEFINE R == {s \in Nat \X Nat : s[1] < s[2]}
<1>1. IsWellFoundedOn(R, Nat)
  BY NatLessThanWellFounded DEF OpToRel
<1>2. PICK x \in T : \A y \in T : <<y, x>> \notin R
  BY <1>1, WFMin
<1>3. \A y \in T : <<y, x>> \in Nat \X Nat /\ <<y, x>>[1] = y /\ <<y, x>>[2] = x
  OBVIOUS
<1>4. \A y \in T : ~(y < x)
  BY <1>2, <1>3
<1> QED BY <1>4

\* Of any rows one is the last.
LEMMA NewestExists ==
  ASSUME TrailAssumption, NEW S \in SUBSET Entry, S # {}
  PROVE  Newest(S) \in S /\ \A f \in S : f.id <= Newest(S).id
<1> DEFINE T == {MaxRows - e.id : e \in S}
<1>1. \A e \in S : e.id \in 1 .. MaxRows
  BY DEF Entry, Hashes
<1>2. T \in SUBSET Nat /\ T # {}
  BY <1>1 DEF TrailAssumption
<1>3. PICK x \in T : \A y \in T : x <= y
  BY <1>2, LeastExists
<1>4. PICK e \in S : x = MaxRows - e.id
  BY <1>3
<1>5. \A f \in S : MaxRows - f.id \in T
  OBVIOUS
<1>6. \A f \in S : MaxRows - e.id <= MaxRows - f.id
  BY <1>3, <1>4, <1>5
<1>7. \A f \in S : f.id <= e.id
  BY <1>1, <1>6 DEF TrailAssumption
<1> QED BY <1>7 DEF Newest

LEMMA LinksAreHashes ==
  ASSUME TrailAssumption, TypeOK
  PROVE  LastLink \in Hashes \cup {GENESIS} /\ LastHash(receipts) \in Hashes \cup {GENESIS}
<1>1. Chained \in SUBSET Entry /\ \A e \in Chained : e.hash \in Hashes
  BY DEF Chained, TypeOK, Entry
<1>2. LastLink \in Hashes \cup {GENESIS}
  BY <1>1, NewestExists DEF LastLink
<1>3. CASE receipts = <<>>
  BY <1>2, <1>3 DEF LastHash
<1>4. CASE receipts # <<>>
  <2>1. Len(receipts) \in 1 .. Len(receipts) /\ receipts[Len(receipts)] \in Receipt
    BY <1>4 DEF TypeOK
  <2> QED BY <1>2, <1>4, <2>1 DEF LastHash, Last, Receipt
<1> QED BY <1>3, <1>4

\* A thread that works is in one of the states of its work.
LEMMA AtWork ==
  ASSUME TypeOK, NEW w \in Writers, Busy(w)
  PROVE  writer[w] \in Work
BY DEF TypeOK, Busy, Idle

LEMMA WorkTypes ==
  ASSUME TypeOK, NEW w \in Writers, NEW work \in Work \cup {Idle}, Go(w, work),
         lock' \in Writers \cup {Nobody},
         lock' = w => work \in Work /\ work.inTx,
         \A x \in Writers \ {w} : lock' = x => lock = x
  PROVE  /\ writer' \in [Writers -> Work \cup {Idle}]
         /\ \A x \in Writers : lock' = x => writer'[x] # Idle /\ writer'[x].inTx
<1>1. writer' \in [Writers -> Work \cup {Idle}]
      /\ writer'[w] = work /\ \A x \in Writers \ {w} : writer'[x] = writer[x]
  BY DEF Go, TypeOK
<1>2. Idle \notin Work
  BY DEF Idle, Work
<1> QED BY <1>1, <1>2 DEF TypeOK

LEMMA TypeKept ==
  ASSUME TrailAssumption
  PROVE  TypeOK /\ Inv' /\ [Next]_vars => TypeOK'
<1> SUFFICES ASSUME TypeOK, Inv', [Next]_vars PROVE TypeOK'
  OBVIOUS
<1>0. /\ now \in 0 .. MaxTime /\ MaxTime \in Nat /\ MaxRows \in Nat /\ MaxFaults \in Nat
      /\ lock \in Writers \cup {Nobody} /\ Nobody \notin Writers
  BY DEF TrailAssumption, TypeOK
<1>1. CASE Tick
  BY <1>0, <1>1 DEF Tick, TypeOK, chainVars, purgeVars
<1>2. ASSUME NEW w \in Writers, NEW k \in {"audit", "receipt"}, Begin(w, k) PROVE TypeOK'
  <2> DEFINE work == [step |-> "begun", kind |-> k, inTx |-> TRUE, at |-> now, prev |-> NoHash]
  <2>1. work \in Work /\ work.inTx /\ Go(w, work) /\ lock' = w
    BY <1>0, <1>2 DEF Work, Begin
  <2> HIDE DEF work
  <2>2. /\ writer' \in [Writers -> Work \cup {Idle}]
        /\ \A x \in Writers : lock' = x => writer'[x] # Idle /\ writer'[x].inTx
    BY <2>1, WorkTypes
  <2> QED BY <1>2, <2>2, <2>1 DEF Begin, TypeOK, purgeVars
<1>3. ASSUME NEW w \in Writers, NEW work \in Work, Go(w, work), lock = w => work.inTx,
             UNCHANGED <<now, chainVars, purgeVars>>, faults' \in 0 .. MaxFaults
      PROVE  TypeOK'
  <2>1. /\ writer' \in [Writers -> Work \cup {Idle}]
        /\ \A x \in Writers : lock' = x => writer'[x] # Idle /\ writer'[x].inTx
    BY <1>0, <1>3, WorkTypes DEF chainVars
  <2> QED BY <1>3, <2>1 DEF TypeOK, chainVars, purgeVars
<1>4. ASSUME NEW w \in Writers, Make(w) PROVE TypeOK'
  <2>1. faults' \in 0 .. MaxFaults /\ UNCHANGED <<now, chainVars, purgeVars>>
    BY <1>4 DEF Make, TypeOK
  <2>2. CASE At(w, "idle") /\ Go(w, [step |-> "made", kind |-> "audit", inTx |-> FALSE,
                                    at |-> now, prev |-> NoHash])
    <3> DEFINE work == [step |-> "made", kind |-> "audit", inTx |-> FALSE, at |-> now, prev |-> NoHash]
    <3>1. work \in Work /\ Go(w, work)
      BY <1>0, <2>2 DEF Work
    <3>2. lock # w
      <4>1. writer[w] = Idle
        BY <2>2 DEF At, TypeOK, Work
      <4> QED BY <4>1 DEF TypeOK
    <3> QED BY <1>3, <2>1, <3>1, <3>2
  <2>3. CASE At(w, "begun") /\ Go(w, [writer[w] EXCEPT !.step = "made", !.at = now])
    <3> DEFINE work == [writer[w] EXCEPT !.step = "made", !.at = now]
    <3>1. writer[w] \in Work
      BY <2>3, AtWork DEF At, Busy
    <3>2. work \in Work /\ work.inTx = writer[w].inTx /\ Go(w, work)
      BY <1>0, <2>3, <3>1 DEF Work
    <3> HIDE DEF work
    <3> QED BY <1>3, <2>1, <3>2 DEF TypeOK
  <2> QED BY <1>4, <2>2, <2>3 DEF Make
<1>5. ASSUME NEW w \in Writers, ReadLast(w) PROVE TypeOK'
  <2> DEFINE last == IF writer[w].kind = "receipt" THEN LastHash(receipts) ELSE LastLink
             work == [writer[w] EXCEPT !.step = "read", !.prev = last]
  <2>1. writer[w] \in Work
    BY <1>5, AtWork DEF ReadLast, At, Busy
  <2>2. last \in Hashes \cup {GENESIS}
    BY LinksAreHashes
  <2> HIDE DEF last
  <2>3. work \in Work /\ work.inTx = writer[w].inTx
    BY <2>1, <2>2 DEF Work
  <2>4. Go(w, work) /\ faults' \in 0 .. MaxFaults /\ UNCHANGED <<now, chainVars, purgeVars>>
    BY <1>5 DEF ReadLast, TypeOK, last
  <2> HIDE DEF work
  <2> QED BY <1>3, <2>3, <2>4 DEF TypeOK
<1>6. ASSUME NEW w \in Writers, ReadFails(w) PROVE TypeOK'
  <2> DEFINE work == [writer[w] EXCEPT !.step = "read"]
  <2>1. writer[w] \in Work
    BY <1>6, AtWork DEF ReadFails, At, Busy
  <2>2. work \in Work /\ work.inTx = writer[w].inTx
    BY <2>1 DEF Work
  <2>3. Go(w, work) /\ faults' \in 0 .. MaxFaults /\ UNCHANGED <<now, chainVars, purgeVars>>
    BY <1>0, <1>6 DEF ReadFails, TypeOK
  <2> HIDE DEF work
  <2> QED BY <1>3, <2>2, <2>3 DEF TypeOK
<1>7. ASSUME NEW w \in Writers, Go(w, Idle), lock' = IF lock = w THEN Nobody ELSE lock
      PROVE  /\ writer' \in [Writers -> Work \cup {Idle}] /\ lock' \in Writers \cup {Nobody}
             /\ \A x \in Writers : lock' = x => writer'[x] # Idle /\ writer'[x].inTx
  BY <1>0, <1>7, WorkTypes
<1>8. ASSUME NEW w \in Writers, Insert(w), writer[w].kind = "audit" PROVE TypeOK'
  <2>1. /\ rows < MaxRows /\ rows' = rows + 1 /\ log' = log \cup {NewEntry(w)}
        /\ UNCHANGED <<receipts, now, purgeVars, faults>>
        /\ Go(w, Idle) /\ lock' = IF lock = w THEN Nobody ELSE lock
    BY <1>8 DEF Insert
  <2>2. writer[w] \in Work /\ rows \in Nat
    BY <1>0, <1>8, AtWork DEF Insert, At, Busy, TypeOK
  <2>3. NewEntry(w) \in Entry
    BY <1>0, <2>1, <2>2 DEF NewEntry, Entry, Work, Hashes
  <2>4. rows' \in 0 .. MaxRows /\ log' \in SUBSET Entry
    BY <1>0, <2>1, <2>2, <2>3 DEF TypeOK
  <2> QED BY <1>7, <2>1, <2>4 DEF TypeOK, purgeVars
<1>9. ASSUME NEW w \in Writers, Insert(w), writer[w].kind # "audit" PROVE TypeOK'
  <2>1. /\ UNCHANGED <<log, rows, now, purgeVars, faults>>
        /\ Go(w, Idle) /\ lock' = IF lock = w THEN Nobody ELSE lock
    BY <1>9 DEF Insert
  <2>2. receipts' \in Seq(Receipt)
    BY DEF Inv, ReceiptsNumbered
  <2> QED BY <1>7, <2>1, <2>2 DEF TypeOK, purgeVars
<1>10. ASSUME NEW w \in Writers, Lose(w) PROVE TypeOK'
  BY <1>0, <1>7, <1>10 DEF Lose, TypeOK, purgeVars
<1>11. ASSUME NEW p \in Purgers, Count(p) PROVE TypeOK'
  <2>1. purger' \in [Purgers -> Purge \cup {Idle}]
    <3> DEFINE v == [step |-> "counted", cutoff |-> now - Retention]
    <3>1. v \in Purge
      BY <1>0 DEF Purge, TrailAssumption
    <3> HIDE DEF v
    <3>2. purger' = [purger EXCEPT ![p] = v]
      BY <1>11 DEF Count, v
    <3> QED BY <3>1, <3>2 DEF TypeOK
  <2> QED BY <1>11, <2>1 DEF Count, TypeOK, chainVars
<1>12. ASSUME NEW p \in Purgers, Archive(p) PROVE TypeOK'
  <2> DEFINE old == Expired(purger[p].cutoff)
  <2>1. purger' \in [Purgers -> Purge \cup {Idle}]
    <3> DEFINE v == [purger[p] EXCEPT !.step = "archived"]
    <3>1. purger[p] \in Purge
      BY <1>12 DEF Archive, PurgeAt, TypeOK, Idle
    <3>2. v \in Purge
      BY <3>1 DEF Purge
    <3> HIDE DEF v
    <3>3. purger' = [purger EXCEPT ![p] = v]
      BY <1>12 DEF Archive, v
    <3> QED BY <3>2, <3>3 DEF TypeOK
  <2>2. old \in SUBSET Entry
    BY DEF Expired, TypeOK
  <2> HIDE DEF old
  <2>3. archive' = [archive EXCEPT ![now] = old] /\ truncated' = truncated \cup (archive[now] \ old)
    BY <1>12 DEF Archive, old
  <2>4. archive' \in [0 .. MaxTime -> SUBSET Entry] /\ truncated' \in SUBSET Entry
    BY <1>0, <2>2, <2>3 DEF TypeOK
  <2> QED BY <1>12, <2>1, <2>4 DEF Archive, TypeOK, chainVars
<1>13. ASSUME NEW p \in Purgers, Delete(p) \/ Crash(p) PROVE TypeOK'
  <2>1. purger' \in [Purgers -> Purge \cup {Idle}]
    BY <1>13 DEF Delete, Crash, TypeOK
  <2>2. faults' \in 0 .. MaxFaults
    BY <1>0, <1>13 DEF Delete, Crash, TypeOK
  <2>3. log' \in SUBSET log /\ gone' \in SUBSET (gone \cup log)
    BY <1>13 DEF Delete, Crash, Expired, chainVars
  <2> QED BY <1>13, <2>1, <2>2, <2>3 DEF Delete, Crash, TypeOK, chainVars
<1>14. CASE UNCHANGED vars
  BY <1>14 DEF vars, chainVars, purgeVars, TypeOK
<1> QED
  BY <1>1, <1>2, <1>4, <1>5, <1>6, <1>8, <1>9, <1>10, <1>11, <1>12, <1>13, <1>14 DEF Next
-----------------------------------------------------------------------------
(* The audit rows: where their chain can break, and what the archive keeps. *)

\* Rows are numbered as they are inserted.
RowsNumbered ==
  /\ \A e \in log : e.id <= rows
  /\ \A e, f \in log : e.id = f.id => e = f

\* A transaction holds the lock, so the row it links to is still the last.
AuditLock ==
  \A w \in Writers : Busy(w) /\ writer[w].inTx =>
    /\ lock = w
    /\ ~At(w, "read") => writer[w].prev = NoHash
    /\ At(w, "read") /\ writer[w].kind = "audit" /\ writer[w].prev # NoHash
         => writer[w].prev = LastLink

\* No write under way is old enough to be archived, and no command archives
\* what is not.
Dated ==
  /\ \A w \in Writers : Busy(w) => now <= writer[w].at + Retention
  /\ \A p \in Purgers : ~PurgeAt(p, "idle") => purger[p].cutoff + Retention <= now

\* What a command is about to delete is in an archive.
Kept == (UNION {archive[t] : t \in DOMAIN archive}) \cup truncated
ArchivedFirst ==
  \A p \in Purgers : PurgeAt(p, "archived") => Expired(purger[p].cutoff) \subseteq Kept

Trail == RowsNumbered /\ AuditLock /\ Dated /\ ArchivedFirst /\ BreaksAreRaces /\ GoneAreArchived

LEMMA TrailTypes ==
  ASSUME TrailAssumption, TypeOK
  PROVE  /\ now \in Nat /\ rows \in Nat /\ Retention \in Nat
         /\ \A w \in Writers : Busy(w) => writer[w].at \in Nat /\ writer[w].inTx \in BOOLEAN
         /\ \A p \in Purgers : ~PurgeAt(p, "idle") => purger[p].cutoff \in Int
         /\ \A e \in log \cup gone : e.at \in Nat /\ e.id \in Nat
<1>1. \A w \in Writers : Busy(w) => writer[w].at \in Nat /\ writer[w].inTx \in BOOLEAN
  BY AtWork DEF Work
<1>2. \A p \in Purgers : ~PurgeAt(p, "idle") => purger[p] \in Purge
  BY DEF TypeOK, PurgeAt, Idle
<1>3. \A e \in log \cup gone : e.at \in Nat /\ e.id \in Nat
  BY DEF TypeOK, Entry, Hashes, TrailAssumption
<1> QED BY <1>1, <1>2, <1>3 DEF Purge, TypeOK, TrailAssumption

\* One thread moves on and leaves the rows as they are.
LEMMA TrailThread ==
  ASSUME TypeOK, Trail, NEW w \in Writers, NEW work, Go(w, work),
         UNCHANGED <<now, log, rows, purgeVars>>,
         \A x \in Writers \ {w} : lock = x => lock' = x,
         work.step # "idle" =>
           /\ now <= work.at + Retention
           /\ work.inTx => lock' = w /\ (work.step # "read" => work.prev = NoHash)
           /\ work.step = "read" /\ work.inTx /\ work.kind = "audit" /\ work.prev # NoHash
                => work.prev = LastLink
  PROVE  Trail'
<1>1. writer'[w] = work /\ \A x \in Writers \ {w} : writer'[x] = writer[x]
  BY DEF Go, TypeOK
<1>2. Chained' = Chained /\ LastLink' = LastLink /\ Kept' = Kept
  BY DEF Chained, LastLink, Kept, purgeVars
<1>3. AuditLock'
  BY <1>1, <1>2 DEF Trail, AuditLock, Busy, At
<1>4. Dated'
  BY <1>1 DEF Trail, Dated, Busy, PurgeAt, purgeVars
<1>5. RowsNumbered' /\ ArchivedFirst' /\ BreaksAreRaces' /\ GoneAreArchived'
  BY <1>2 DEF Trail, RowsNumbered, ArchivedFirst, BreaksAreRaces, Before, GoneAreArchived, Expired, PurgeAt, purgeVars
<1> QED BY <1>3, <1>4, <1>5 DEF Trail

\* A row is inserted behind the last one: inside a transaction behind the row
\* it was linked to, outside of one it is marked where it is not.
LEMMA TrailInsert ==
  ASSUME TrailAssumption, TypeOK, Trail, NEW w \in Writers, Insert(w), writer[w].kind = "audit"
  PROVE  Trail'
<1> DEFINE n == NewEntry(w)
<1>1. /\ rows' = rows + 1 /\ log' = log \cup {n} /\ UNCHANGED <<now, purgeVars>>
      /\ writer' = [writer EXCEPT ![w] = Idle] /\ lock' = IF lock = w THEN Nobody ELSE lock
      /\ (lock = w \/ lock = Nobody) /\ At(w, "read") /\ Busy(w)
  BY DEF Insert, MayWrite, Go, At, Busy
<1>2. writer'[w] = Idle /\ ~Busy(w)' /\ \A x \in Writers \ {w} : writer'[x] = writer[x]
  BY <1>1 DEF TypeOK, Busy, Idle
<1>3. /\ n.id = rows + 1 /\ n.at = writer[w].at /\ n.prev = writer[w].prev
      /\ n.hash # NoHash => n.prev # NoHash
      /\ n.prev # NoHash /\ ~n.raced => n.prev = LastLink \/ writer[w].inTx
  BY DEF NewEntry
<1> HIDE DEF n
<1>4. RowsNumbered'
  BY <1>1, <1>3, TrailTypes DEF Trail, RowsNumbered
<1>5. AuditLock'
  <2>1. \A x \in Writers \ {w} : ~(Busy(x) /\ writer[x].inTx)
    BY <1>1 DEF Trail, AuditLock, TrailAssumption
  <2> QED BY <1>2, <2>1 DEF AuditLock, Busy
<1>6. Dated'
  BY <1>1, <1>2 DEF Trail, Dated, Busy, PurgeAt, purgeVars
<1>7. ArchivedFirst'
  <2> SUFFICES ASSUME NEW p \in Purgers, PurgeAt(p, "archived"), NEW e \in log', e.at < purger[p].cutoff
               PROVE  e \in Kept
    BY <1>1 DEF ArchivedFirst, Expired, PurgeAt, Kept, purgeVars
  <2>1. CASE e \in log
    BY <2>1 DEF Trail, ArchivedFirst, Expired
  <2>2. CASE e = n
    <3>1. Busy(w) /\ ~PurgeAt(p, "idle")
      BY DEF Insert, At, Busy, PurgeAt
    <3>2. now <= writer[w].at + Retention /\ purger[p].cutoff + Retention <= now
      BY <3>1 DEF Trail, Dated
    <3> QED BY <1>3, <2>2, <3>1, <3>2, TrailTypes
  <2> QED BY <1>1, <2>1, <2>2
<1>8. BreaksAreRaces'
  <2> SUFFICES ASSUME NEW e \in Chained', NEW f \in Chained', Before(f, e)', ~e.raced
               PROVE  e.prev = f.hash \/ \E g \in gone : g.hash = e.prev /\ g.at <= f.at
    BY <1>1 DEF BreaksAreRaces, purgeVars
  <2>1. /\ e.hash # NoHash /\ f.hash # NoHash /\ e \in log \cup {n} /\ f \in log \cup {n}
        /\ f.id < e.id /\ \A g \in Chained : g.id < e.id => g.id <= f.id
    BY <1>1 DEF Chained, Before
  <2>2. \A g \in log : g.id < n.id /\ g.id \in Nat
    BY <1>3, TrailTypes DEF Trail, RowsNumbered
  <2>3. f \in Chained
    BY <1>3, <2>1, <2>2, TrailTypes DEF Chained
  <2>4. CASE e \in log
    BY <2>1, <2>3, <2>4 DEF Trail, BreaksAreRaces, Before, Chained
  <2>5. CASE e = n
    <3>1. \A g \in Chained : g.id <= f.id
      BY <2>1, <2>2, <2>5 DEF Chained
    <3>2. Newest(Chained) \in Chained /\ \A g \in Chained : g.id <= Newest(Chained).id
      BY <2>3, <3>1 DEF Newest
    <3>3. Newest(Chained) = f
      BY <2>2, <2>3, <3>1, <3>2 DEF Trail, RowsNumbered, Chained
    <3>4. LastLink = f.hash
      BY <2>3, <3>3 DEF LastLink
    <3>5. writer[w].inTx => n.prev = LastLink
      BY <1>3, <2>1, <2>5 DEF Trail, AuditLock, Insert, At, Busy
    <3> QED BY <1>3, <2>1, <2>5, <3>4, <3>5
  <2> QED BY <2>1, <2>4, <2>5
<1>9. GoneAreArchived'
  BY <1>1 DEF Trail, GoneAreArchived, purgeVars
<1> QED BY <1>4, <1>5, <1>6, <1>7, <1>8, <1>9 DEF Trail

\* Rows are removed with all that are older than a date.  If the row before
\* one goes and an earlier one stays, it is the later dated of the two; and
\* rows that go were archived.
LEMMA TrailDelete ==
  ASSUME TrailAssumption, TypeOK, Trail, NEW p \in Purgers, Delete(p)
  PROVE  Trail'
<1> DEFINE cutoff == purger[p].cutoff
           old == Expired(cutoff)
<1>1. /\ lock = Nobody /\ log' = log \ old /\ gone' = gone \cup old /\ PurgeAt(p, "archived")
      /\ purger' = [purger EXCEPT ![p] = Idle]
      /\ UNCHANGED <<now, rows, lock, writer, archive, truncated>>
  BY DEF Delete, MayWrite
<1>2. cutoff \in Int
  BY <1>1, TrailTypes DEF PurgeAt
<1>3. \A e \in log : e \in old <=> e.at < cutoff
  BY DEF Expired
<1> HIDE DEF cutoff, old
<1>4. ~PurgeAt(p, "archived")' /\ PurgeAt(p, "idle")' /\ \A q \in Purgers \ {p} : purger'[q] = purger[q]
  BY <1>1 DEF TypeOK, PurgeAt, Idle
<1>5. RowsNumbered'
  BY <1>1 DEF Trail, RowsNumbered
<1>6. AuditLock'
  BY <1>1 DEF Trail, AuditLock, Busy, TrailAssumption
<1>7. Dated'
  BY <1>1, <1>4 DEF Trail, Dated, Busy, PurgeAt
<1>8. Kept' = Kept /\ old \subseteq Kept
  BY <1>1 DEF Kept, Trail, ArchivedFirst, old, cutoff
<1>9. ArchivedFirst'
  BY <1>1, <1>4, <1>8 DEF Trail, ArchivedFirst, Expired, PurgeAt
<1>10. GoneAreArchived'
  BY <1>1, <1>8 DEF Trail, GoneAreArchived, Kept
<1>11. BreaksAreRaces'
  <2> SUFFICES ASSUME NEW e \in Chained', NEW f \in Chained', Before(f, e)', ~e.raced, e.prev # f.hash
               PROVE  \E g \in gone' : g.hash = e.prev /\ g.at <= f.at
    BY DEF BreaksAreRaces
  <2>1. /\ e \in Chained /\ f \in Chained /\ f \in log /\ f \notin old /\ f.id < e.id
        /\ \A g \in Chained : g \notin old /\ g.id < e.id => g.id <= f.id
    BY <1>1 DEF Chained, Before
  <2>2. CASE Before(f, e)
    BY <1>1, <2>1, <2>2 DEF Trail, BreaksAreRaces
  <2>3. CASE ~Before(f, e)
    <3> DEFINE S == {g \in Chained : g.id < e.id}
    <3>1. f \in S /\ S \in SUBSET Entry
      BY <2>1 DEF Chained, TypeOK
    <3>2. PICK h \in S : \A g \in S : g.id <= h.id
      BY <3>1, NewestExists
    <3>3. h \in Chained /\ h \in log /\ Before(h, e)
      BY <3>2 DEF Before, Chained
    <3>4. h \in old
      <4>1. h.id \in Nat /\ f.id \in Nat
        BY <2>1, <3>3, TrailTypes
      <4>2. h # f
        BY <2>3, <3>3
      <4>3. h.id # f.id
        BY <2>1, <3>3, <4>2 DEF Trail, RowsNumbered
      <4>4. f.id <= h.id
        BY <3>1, <3>2
      <4> QED BY <2>1, <3>2, <3>3, <4>1, <4>3, <4>4
    <3>5. h.at < f.at /\ h.at \in Nat /\ f.at \in Nat
      BY <1>2, <1>3, <2>1, <3>3, <3>4, TrailTypes
    <3>6. e.prev = h.hash \/ \E g \in gone : g.hash = e.prev /\ g.at <= h.at
      BY <2>1, <3>3 DEF Trail, BreaksAreRaces
    <3>7. CASE e.prev = h.hash
      BY <1>1, <3>4, <3>5, <3>7
    <3>8. ASSUME NEW g \in gone, g.hash = e.prev, g.at <= h.at PROVE g \in gone' /\ g.at <= f.at
      BY <1>1, <3>5, <3>8, TrailTypes
    <3> QED BY <3>6, <3>7, <3>8
  <2> QED BY <2>2, <2>3
<1> QED BY <1>5, <1>6, <1>7, <1>9, <1>10, <1>11 DEF Trail

\* What a file that is opened again held is counted as lost.
LEMMA TrailArchive ==
  ASSUME TrailAssumption, TypeOK, Trail, NEW p \in Purgers, Archive(p)
  PROVE  Trail'
<1> DEFINE old == Expired(purger[p].cutoff)
<1>1. /\ PurgeAt(p, "counted") /\ archive' = [archive EXCEPT ![now] = old]
      /\ truncated' = truncated \cup (archive[now] \ old)
      /\ purger' = [purger EXCEPT ![p].step = "archived"]
      /\ UNCHANGED <<now, log, rows, lock, writer, gone>>
  BY DEF Archive, chainVars
<1>2. purger'[p].cutoff = purger[p].cutoff /\ \A q \in Purgers \ {p} : purger'[q] = purger[q]
  <2>1. purger[p] \in Purge
    BY <1>1 DEF PurgeAt, TypeOK, Idle
  <2> QED BY <1>1, <2>1 DEF TypeOK, Purge
<1> HIDE DEF old
<1>4. \A e \in truncated' : e \in Kept'
  BY DEF Kept
<1>3. Kept \subseteq Kept' /\ old \subseteq Kept'
  <2>1. now \in DOMAIN archive /\ DOMAIN archive' = DOMAIN archive
        /\ archive'[now] = old /\ \A t \in DOMAIN archive \ {now} : archive'[t] = archive[t]
    BY <1>1 DEF TypeOK
  <2>2. old \subseteq Kept'
    BY <2>1 DEF Kept
  <2>3. ASSUME NEW t \in DOMAIN archive, NEW e \in archive[t] PROVE e \in Kept'
    <3>1. CASE t # now
      BY <2>1, <2>3, <3>1 DEF Kept
    <3>2. CASE t = now
      <4>1. e \in archive[now] /\ (e \in old \/ e \in truncated')
        BY <1>1, <2>3, <3>2
      <4>2. CASE e \in old
        BY <2>2, <4>2
      <4>3. CASE e \in truncated'
        BY <4>3, <1>4
      <4> QED BY <4>1, <4>2, <4>3
    <3> QED BY <3>1, <3>2
  <2> QED BY <1>1, <2>2, <2>3 DEF Kept
<1>8. RowsNumbered' /\ AuditLock' /\ BreaksAreRaces'
  BY <1>1 DEF Trail, RowsNumbered, AuditLock, BreaksAreRaces, Before, Chained, Busy, At, LastLink
<1>5. Dated'
  BY <1>1, <1>2 DEF Trail, Dated, Busy, PurgeAt
<1>6. ArchivedFirst'
  BY <1>1, <1>2, <1>3 DEF Trail, ArchivedFirst, Expired, PurgeAt, old
<1>7. GoneAreArchived'
  BY <1>1, <1>3 DEF Trail, GoneAreArchived, Kept
<1> QED BY <1>5, <1>6, <1>7, <1>8 DEF Trail

LEMMA TrailKept ==
  ASSUME TrailAssumption
  PROVE  Trail /\ TypeOK /\ [Next]_vars => Trail'
<1> SUFFICES ASSUME Trail, TypeOK, [Next]_vars PROVE Trail'
  OBVIOUS
<1>0. Nobody \notin Writers
  BY DEF TrailAssumption
<1>1. CASE Tick
  <2>1. now' = now + 1 /\ UNCHANGED <<chainVars, writer, purgeVars>>
        /\ \A w \in Writers : writer[w] # Idle => now' <= writer[w].at + Retention
    BY <1>1 DEF Tick
  <2>2. Dated'
    <3>1. \A w \in Writers : Busy(w) => writer[w] # Idle
      BY DEF Busy, Idle
    <3>2. \A w \in Writers : Busy(w)' => now' <= writer'[w].at + Retention
      BY <2>1, <3>1 DEF Busy
    <3>3. ASSUME NEW p \in Purgers, ~PurgeAt(p, "idle")' PROVE purger'[p].cutoff + Retention <= now'
      <4>1. ~PurgeAt(p, "idle") /\ purger' = purger
        BY <2>1, <3>3 DEF PurgeAt, purgeVars
      <4>2. purger[p].cutoff + Retention <= now
        BY <4>1 DEF Trail, Dated
      <4> QED BY <2>1, <4>1, <4>2, TrailTypes
    <3> QED BY <3>2, <3>3 DEF Dated
  <2>3. Chained' = Chained /\ LastLink' = LastLink /\ Kept' = Kept /\ UNCHANGED <<log, rows, lock, purger, gone>>
    BY <2>1 DEF Chained, LastLink, Kept, chainVars, purgeVars
  <2>4. AuditLock'
    BY <2>1, <2>3 DEF Trail, AuditLock, Busy, At
  <2>5. RowsNumbered' /\ ArchivedFirst' /\ BreaksAreRaces' /\ GoneAreArchived'
    BY <2>1, <2>3 DEF Trail, RowsNumbered, ArchivedFirst, BreaksAreRaces, Before, GoneAreArchived, Expired,
       PurgeAt, purgeVars
  <2> QED BY <2>2, <2>4, <2>5 DEF Trail
<1>2. ASSUME NEW w \in Writers, NEW k \in {"audit", "receipt"}, Begin(w, k) PROVE Trail'
  <2> DEFINE work == [step |-> "begun", kind |-> k, inTx |-> TRUE, at |-> now, prev |-> NoHash]
  <2>1. /\ Go(w, work) /\ UNCHANGED <<now, log, rows, purgeVars>> /\ lock = Nobody /\ lock' = w
        /\ work.step = "begun" /\ work.prev = NoHash /\ now <= work.at + Retention
    BY <1>2, TrailTypes DEF Begin, MayWrite
  <2> HIDE DEF work
  <2> QED BY <1>0, <2>1, TrailThread
<1>3. ASSUME NEW w \in Writers, Make(w) PROVE Trail'
  <2>1. UNCHANGED <<now, log, rows, lock, purgeVars>>
    BY <1>3 DEF Make, chainVars
  <2>2. CASE At(w, "idle") /\ Go(w, [step |-> "made", kind |-> "audit", inTx |-> FALSE,
                                    at |-> now, prev |-> NoHash])
    <3> DEFINE work == [step |-> "made", kind |-> "audit", inTx |-> FALSE, at |-> now, prev |-> NoHash]
    <3>1. Go(w, work) /\ work.step = "made" /\ ~work.inTx /\ now <= work.at + Retention
      BY <2>2, TrailTypes
    <3> HIDE DEF work
    <3> QED BY <2>1, <3>1, TrailThread
  <2>3. CASE At(w, "begun") /\ Go(w, [writer[w] EXCEPT !.step = "made", !.at = now])
    <3> DEFINE work == [writer[w] EXCEPT !.step = "made", !.at = now]
    <3>1. Busy(w) /\ writer[w] \in Work
      BY <2>3, AtWork DEF At, Busy
    <3>2. Go(w, work) /\ work.step = "made" /\ work.inTx = writer[w].inTx /\ now <= work.at + Retention
          /\ work.prev = writer[w].prev
      BY <2>3, <3>1, TrailTypes DEF Work
    <3> HIDE DEF work
    <3> QED BY <2>1, <2>3, <3>1, <3>2, TrailThread DEF Trail, AuditLock, At
  <2> QED BY <1>3, <2>2, <2>3 DEF Make
<1>4. ASSUME NEW w \in Writers, ReadLast(w) PROVE Trail'
  <2> DEFINE last == IF writer[w].kind = "receipt" THEN LastHash(receipts) ELSE LastLink
             work == [writer[w] EXCEPT !.step = "read", !.prev = last]
  <2>1. Busy(w) /\ writer[w] \in Work
    BY <1>4, AtWork DEF ReadLast, At, Busy
  <2>2. writer[w].kind = "audit" => last = LastLink
    OBVIOUS
  <2> HIDE DEF last
  <2>3. /\ work.step = "read" /\ work.inTx = writer[w].inTx /\ work.at = writer[w].at
        /\ work.kind = writer[w].kind /\ work.prev = last
    BY <2>1 DEF Work
  <2>4. Go(w, work) /\ UNCHANGED <<now, log, rows, lock, purgeVars>>
    BY <1>4 DEF ReadLast, chainVars, last
  <2> HIDE DEF work
  <2> QED BY <2>1, <2>2, <2>3, <2>4, TrailThread DEF Trail, AuditLock, Dated
<1>5. ASSUME NEW w \in Writers, ReadFails(w) PROVE Trail'
  <2> DEFINE work == [writer[w] EXCEPT !.step = "read"]
  <2>1. Busy(w) /\ writer[w] \in Work /\ At(w, "made")
    BY <1>5, AtWork DEF ReadFails, At, Busy
  <2>2. /\ work.step = "read" /\ work.inTx = writer[w].inTx /\ work.at = writer[w].at
        /\ work.prev = writer[w].prev
    BY <2>1 DEF Work
  <2>3. Go(w, work) /\ UNCHANGED <<now, log, rows, lock, purgeVars>>
    BY <1>5 DEF ReadFails, chainVars
  <2>4. writer[w].inTx => writer[w].prev = NoHash
    BY <2>1 DEF Trail, AuditLock, At
  <2> HIDE DEF work
  <2> QED BY <2>1, <2>2, <2>3, <2>4, TrailThread DEF Trail, AuditLock, Dated
<1>6. ASSUME NEW w \in Writers, Go(w, Idle), UNCHANGED <<now, log, rows, purgeVars>>,
             lock' = IF lock = w THEN Nobody ELSE lock
      PROVE  Trail'
  <2>1. Idle.step = "idle"
    BY DEF Idle
  <2> QED BY <1>6, <2>1, TrailThread
<1>7. ASSUME NEW w \in Writers, Insert(w) PROVE Trail'
  <2>1. CASE writer[w].kind = "audit"
    BY <1>7, <2>1, TrailInsert
  <2>2. CASE writer[w].kind # "audit"
    BY <1>6, <1>7, <2>2 DEF Insert
  <2> QED BY <2>1, <2>2
<1>8. ASSUME NEW w \in Writers, Lose(w) PROVE Trail'
  BY <1>6, <1>8 DEF Lose
<1>9. ASSUME NEW p \in Purgers, Count(p) \/ Crash(p) PROVE Trail'
  <2>1. UNCHANGED <<now, log, rows, lock, writer, archive, gone, truncated>>
    BY <1>9 DEF Count, Crash, chainVars
  <2>2. /\ \A q \in Purgers \ {p} : purger'[q] = purger[q]
        /\ ~PurgeAt(p, "archived")'
        /\ ~PurgeAt(p, "idle")' => purger'[p].cutoff = now - Retention
    BY <1>9 DEF Count, Crash, PurgeAt, TypeOK, Idle
  <2>3. Chained' = Chained /\ LastLink' = LastLink /\ Kept' = Kept
    BY <2>1 DEF Chained, LastLink, Kept
  <2>4. AuditLock'
    BY <2>1, <2>3 DEF Trail, AuditLock, Busy, At
  <2>5. Dated'
    BY <2>1, <2>2, TrailTypes DEF Trail, Dated, Busy, PurgeAt
  <2>6. RowsNumbered' /\ ArchivedFirst' /\ BreaksAreRaces' /\ GoneAreArchived'
    BY <2>1, <2>2, <2>3 DEF Trail, RowsNumbered, ArchivedFirst, BreaksAreRaces, Before, GoneAreArchived, Expired,
       PurgeAt
  <2> QED BY <2>4, <2>5, <2>6 DEF Trail
<1>10. ASSUME NEW p \in Purgers, Archive(p) \/ Delete(p) PROVE Trail'
  BY <1>10, TrailArchive, TrailDelete
<1>11. CASE UNCHANGED vars
  BY <1>11 DEF vars, Trail, RowsNumbered, AuditLock, Dated, ArchivedFirst, BreaksAreRaces, Before, Chained,
          GoneAreArchived, Kept, Expired, Busy, At, PurgeAt, LastLink, chainVars, purgeVars
<1> QED
  BY <1>1, <1>2, <1>3, <1>4, <1>5, <1>7, <1>8, <1>9, <1>10, <1>11 DEF Next

LEMMA InitTrail == ASSUME TrailAssumption PROVE Init => TypeOK /\ Trail
<1> SUFFICES ASSUME Init PROVE TypeOK /\ Trail
  OBVIOUS
<1>1. TypeOK
  <2>1. /\ now \in 0 .. MaxTime /\ rows \in 0 .. MaxRows /\ faults \in 0 .. MaxFaults
        /\ log = {} /\ receipts \in Seq(Receipt) /\ lock = Nobody /\ Nobody \notin Writers
    BY DEF Init, TrailAssumption
  <2>2. /\ writer \in [Writers -> Work \cup {Idle}] /\ purger \in [Purgers -> Purge \cup {Idle}]
        /\ archive \in [0 .. MaxTime -> SUBSET Entry] /\ gone = {} /\ truncated = {}
    BY DEF Init
  <2> QED BY <2>1, <2>2 DEF TypeOK
<1>2. Trail
  BY DEF Init, Trail, RowsNumbered, AuditLock, Dated, ArchivedFirst, BreaksAreRaces, GoneAreArchived, Chained,
     Busy, PurgeAt, Idle
<1> QED BY <1>1, <1>2
-----------------------------------------------------------------------------
\* Every receipt follows the one before it, from the genesis, whatever
\* threads, failures and archive commands do.
THEOREM ReceiptChain == Spec => []ReceiptsFollow
<1>1. TrailAssumption
  BY TrailAssumption
<1>2. Inv => ReceiptsFollow
  BY DEF Inv
<1> QED BY <1>1, <1>2, InitInv, InvKept, PTL DEF Spec

\* Every variable of the two chains and the archive keeps its type.
THEOREM TypeCorrect == Spec => []TypeOK
<1>1. TrailAssumption
  BY TrailAssumption
<1> QED BY <1>1, InitInv, InvKept, InitTrail, TypeKept, PTL DEF Spec

LEMMA TrailHolds == Spec => []Trail
<1>1. TrailAssumption
  BY TrailAssumption
<1> QED BY <1>1, TypeCorrect, InitTrail, TrailKept, PTL DEF Spec

\* The verification of the audit chain finds a break only where a row was
\* chained outside a transaction while another was being written, or where a
\* row was archived that was dated before the one it followed.
THEOREM BreaksExplained == Spec => []BreaksAreRaces
BY TrailHolds, PTL DEF Trail

\* What the command removed is in an archive file, however many commands
\* overlap and whatever crashes, unless one of the same second opened the file
\* again.
THEOREM ArchiveComplete == Spec => []GoneAreArchived
BY TrailHolds, PTL DEF Trail
=============================================================================
