----------------------------- MODULE AuditTrail -----------------------------
(***************************************************************************)
(* The two hash chains, audit rows and rights receipts, and the command    *)
(* that archives old audit rows.                                           *)
(*                                                                         *)
(* A row of a chain names the hash of the row before it.  A receipt reads  *)
(* that row and is written in one transaction, which on SQLite holds the   *)
(* write lock from its start.  An audit row does so only when the caller   *)
(* is in a transaction: a login, a refusal, a view read the last row,      *)
(* compute, and insert after.  A row is dated before it is chained.        *)
(***************************************************************************)
EXTENDS Integers, Sequences, SequencesExt

CONSTANTS
  Writers, Purgers,
  Retention,        \* DATA_RETENTION_DAYS["audit_log"]
  MaxTime,          \* bound: the clock
  MaxRows,          \* bound: rows of each chain ever written
  MaxFaults,        \* bound: failed reads, failed inserts, crashes
  Nobody

ASSUME TrailAssumption ==
  /\ Retention \in Nat /\ MaxTime \in Nat /\ MaxRows \in Nat /\ MaxFaults \in Nat
  /\ Nobody \notin Writers

GENESIS == 0
NoHash  == -1      \* an unchained row's empty integrity_hash
Hashes  == 1 .. MaxRows
Entry   == [id : Hashes, hash : Hashes \cup {NoHash}, prev : Hashes \cup {GENESIS, NoHash},
            at : 0 .. MaxTime, raced : BOOLEAN]
Receipt == [hash : Hashes, prev : Hashes \cup {GENESIS}]

VARIABLES
  now,       \* the clock: the date of rows, and the name of an archive file
  log,       \* rows of AuditLog
  receipts,  \* RightsReceipt in id order
  rows,      \* audit rows ever made
  lock,      \* the writer whose transaction holds the write lock
  writer,    \* what a thread is writing
  purger,    \* where a purge_audit_log command stands
  archive,   \* the rows in the archive file of each name
  gone,      \* history: rows the command removed
  truncated, \* history: archived rows lost when a file was opened again
  faults

chainVars == <<log, receipts, rows, lock>>
purgeVars == <<purger, archive, gone, truncated>>
vars == <<now, chainVars, writer, purgeVars, faults>>

Idle   == [step |-> "idle"]
Work   == [step : {"begun", "made", "read"}, kind : {"audit", "receipt"}, inTx : BOOLEAN,
           at : 0 .. MaxTime, prev : Hashes \cup {GENESIS, NoHash}]
Purge  == [step : {"counted", "archived"}, cutoff : Int]

TypeOK ==
  /\ now \in 0 .. MaxTime
  /\ log \in SUBSET Entry /\ \A e, f \in log : e.id = f.id => e = f
  /\ receipts \in Seq(Receipt)
  /\ rows \in 0 .. MaxRows
  /\ lock \in Writers \cup {Nobody}
  /\ writer \in [Writers -> Work \cup {Idle}]
  /\ \A w \in Writers : lock = w => writer[w] # Idle /\ writer[w].inTx
  /\ purger \in [Purgers -> Purge \cup {Idle}]
  /\ archive \in [0 .. MaxTime -> SUBSET Entry]
  /\ gone \in SUBSET Entry /\ truncated \in SUBSET Entry
  /\ faults \in 0 .. MaxFaults

Init ==
  /\ now = 0 /\ log = {} /\ receipts = <<>> /\ rows = 0 /\ lock = Nobody
  /\ writer = [w \in Writers |-> Idle]
  /\ purger = [p \in Purgers |-> Idle]
  /\ archive = [t \in 0 .. MaxTime |-> {}]
  /\ gone = {} /\ truncated = {} /\ faults = 0

\* No write is under way for as long as rows are kept: the database gives up
\* after 20 seconds, the command takes whole days.
Tick ==
  /\ now < MaxTime /\ now' = now + 1
  /\ \A w \in Writers : writer[w] # Idle => now' <= writer[w].at + Retention
  /\ UNCHANGED <<chainVars, writer, purgeVars, faults>>
-----------------------------------------------------------------------------
(* Writing a row: begin, make, read the last hash, insert.  A transaction  *)
(* commits with its insert: nobody sees, or writes, anything in between.   *)

At(w, s)    == writer[w].step = s
Go(w, work) == writer' = [writer EXCEPT ![w] = work]
AllRows     == log     \* mutant of Chained: unchained rows are taken for links
Chained     == {e \in log : e.hash # NoHash}
Newest(S)   == CHOOSE e \in S : \A f \in S : f.id <= e.id
LastLink    == IF Chained = {} THEN GENESIS ELSE Newest(Chained).hash
LastHash(s) == IF s = <<>> THEN GENESIS ELSE Last(s).hash

\* A write waits for the transaction that holds the lock.
Unlocked  == TRUE     \* mutant: a deferred transaction takes no lock to begin
MayWrite == lock = Nobody

\* transaction.atomic: of a service that records, or of issue_receipt.
Begin(w, kind) ==
  /\ At(w, "idle") /\ MayWrite
  /\ lock' = w
  /\ Go(w, [step |-> "begun", kind |-> kind, inTx |-> TRUE, at |-> now, prev |-> NoHash])
  /\ UNCHANGED <<now, log, receipts, rows, purgeVars, faults>>

\* record() builds the entry, dated now.
Make(w) ==
  /\ \/ At(w, "idle") /\ Go(w, [step |-> "made", kind |-> "audit", inTx |-> FALSE,
                                at |-> now, prev |-> NoHash])
     \/ At(w, "begun") /\ Go(w, [writer[w] EXCEPT !.step = "made", !.at = now])
  /\ UNCHANGED <<now, chainVars, purgeVars, faults>>

\* AuditLog.save reads the last chained row.
ReadLast(w) ==
  /\ At(w, "made")
  /\ Go(w, [writer[w] EXCEPT !.step = "read",
              !.prev = IF writer[w].kind = "receipt"
                       THEN LastHash(receipts) ELSE LastLink])
  /\ UNCHANGED <<now, chainVars, purgeVars, faults>>

\* Its except branch: the row is written unchained.
ReadFails(w) ==
  /\ At(w, "made") /\ writer[w].kind = "audit" /\ faults < MaxFaults
  /\ Go(w, [writer[w] EXCEPT !.step = "read"])
  /\ faults' = faults + 1
  /\ UNCHANGED <<now, chainVars, purgeVars>>

NewEntry(w) ==
  LET d == writer[w] IN
  [id |-> rows + 1, hash |-> IF d.prev = NoHash THEN NoHash ELSE rows + 1, prev |-> d.prev,
   at |-> d.at, raced |-> d.prev # NoHash /\ ~d.inTx /\ d.prev # LastLink]

Insert(w) ==
  /\ At(w, "read") /\ (lock = w \/ MayWrite)
  /\ IF writer[w].kind = "audit"
     THEN /\ rows < MaxRows /\ rows' = rows + 1
          /\ log' = log \cup {NewEntry(w)}
          /\ receipts' = receipts
     ELSE /\ Len(receipts) < MaxRows
          /\ receipts' = Append(receipts, [hash |-> Len(receipts) + 1, prev |-> writer[w].prev])
          /\ UNCHANGED <<log, rows>>
  /\ Go(w, Idle)
  /\ lock' = IF lock = w THEN Nobody ELSE lock
  /\ UNCHANGED <<now, purgeVars, faults>>

\* A row that cannot be written is only logged, a transaction may still fail
\* after it recorded: either way no row is left.
Lose(w) ==
  /\ writer[w] # Idle /\ faults < MaxFaults
  /\ Go(w, Idle)
  /\ lock' = IF lock = w THEN Nobody ELSE lock
  /\ faults' = faults + 1
  /\ UNCHANGED <<now, log, receipts, rows, purgeVars>>
-----------------------------------------------------------------------------
(* purge_audit_log: count, archive, delete.  Each is a query of its own.   *)

Expired(cutoff) == {e \in log : e.at < cutoff}
PurgeAt(p, s)   == purger[p].step = s

Count(p) ==
  /\ PurgeAt(p, "idle") /\ Expired(now - Retention) # {}
  /\ purger' = [purger EXCEPT ![p] = [step |-> "counted", cutoff |-> now - Retention]]
  /\ UNCHANGED <<now, chainVars, writer, archive, gone, truncated, faults>>

\* The file is named by the second and opened for writing from its start.
Archive(p) ==
  LET old == Expired(purger[p].cutoff) IN
  /\ PurgeAt(p, "counted")
  /\ archive' = [archive EXCEPT ![now] = old]
  /\ truncated' = truncated \cup (archive[now] \ old)
  /\ purger' = [purger EXCEPT ![p].step = "archived"]
  /\ UNCHANGED <<now, chainVars, writer, gone, faults>>

\* Mutant of Delete: the rows go before the archive is written.
DeleteFirst(p) ==
  LET old == Expired(purger[p].cutoff) IN
  /\ PurgeAt(p, "counted") /\ MayWrite
  /\ log' = log \ old
  /\ gone' = gone \cup old
  /\ purger' = [purger EXCEPT ![p] = Idle]
  /\ UNCHANGED <<now, receipts, rows, lock, writer, archive, truncated, faults>>

\* The query runs again: it deletes what is old enough by now.
Delete(p) ==
  LET old == Expired(purger[p].cutoff) IN
  /\ PurgeAt(p, "archived") /\ MayWrite
  /\ log' = log \ old
  /\ gone' = gone \cup old
  /\ purger' = [purger EXCEPT ![p] = Idle]
  /\ UNCHANGED <<now, receipts, rows, lock, writer, archive, truncated, faults>>

Crash(p) ==
  /\ purger[p] # Idle /\ faults < MaxFaults
  /\ purger' = [purger EXCEPT ![p] = Idle]
  /\ faults' = faults + 1
  /\ UNCHANGED <<now, chainVars, writer, archive, gone, truncated>>

Next ==
  \/ Tick
  \/ \E w \in Writers :
       \/ \E k \in {"audit", "receipt"} : Begin(w, k)
       \/ Make(w) \/ ReadLast(w) \/ ReadFails(w) \/ Insert(w) \/ Lose(w)
  \/ \E p \in Purgers : Count(p) \/ Archive(p) \/ Delete(p) \/ Crash(p)

Spec == Init /\ [][Next]_vars
-----------------------------------------------------------------------------
\* verify_audit_chain finds a break only where a row was chained outside a
\* transaction while another was being written, or where the command removed,
\* by its date, a row that was dated before the row it follows.  No
\* transaction, failure or unchained row ever breaks the chain.
Before(f, e) == f.id < e.id /\ \A g \in Chained : g.id < e.id => g.id <= f.id
BreaksAreRaces ==
  \A e, f \in Chained : Before(f, e) =>
    \/ e.prev = f.hash
    \/ e.raced
    \/ \E g \in gone : g.hash = e.prev /\ g.at <= f.at

\* verify_chain: every receipt follows the one before it, from the genesis.
ReceiptsFollow ==
  \A i \in 1 .. Len(receipts) :
    receipts[i].prev = (IF i = 1 THEN GENESIS ELSE receipts[i - 1].hash)

\* No row leaves the table without being in an archive file, whatever crashes
\* and whichever commands overlap, unless a second command of the same second
\* opened the file again.
GoneAreArchived == gone \subseteq (UNION {archive[t] : t \in DOMAIN archive}) \cup truncated
=============================================================================
