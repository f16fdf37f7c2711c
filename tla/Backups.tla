------------------------------ MODULE Backups ------------------------------
(***************************************************************************)
(* Backups: making an archive, verifying it, restoring it over the         *)
(* database, and deleting old archives (apps/backups).                     *)
(*                                                                         *)
(* Jobs are requests of the server and runs of the scheduled command.      *)
(* Nothing serialises them: they meet in the rows of BackupRecord, in the  *)
(* files, which are named by the second a backup began, and in the file a  *)
(* verification decrypts to. A job may be killed at any step and a write   *)
(* may fail. The rows are part of what an archive holds, so a restore      *)
(* takes them back too.                                                    *)
(***************************************************************************)
EXTENDS Integers, FiniteSets, Sequences

CONSTANTS
  Jobs,
  Kept,        \* newest usable backups the retention spares (3 in the code)
  Encrypted,   \* BACKUP_ENCRYPTION, and what users ask for
  MaxBackups, Seconds, MaxFaults, MaxInFlight, MaxJobs,
               \* bounds: backups begun, clock, faults, jobs at once and in all
  None

ASSUME BackupAssumption ==
  /\ \A n \in {Kept, MaxBackups, Seconds, MaxFaults, MaxInFlight, MaxJobs} : n \in Nat
  /\ Encrypted \subseteq BOOLEAN /\ Seconds > 0

VARIABLES
  db,          \* the database: the rows of BackupRecord and the restore request
  disk,        \* the backup directory
  image,       \* the database that archive number n holds
  job,         \* what each job is doing, with the instances it holds
  clock,
  begun,       \* history: the seconds at which backups began
  retired,     \* history: files the retention deleted
  interrupted, \* history: rows whose making or reading was killed, or taken back
  mixed,       \* history: a restore overwrote the database under another job
  faults,      \* counts kills, failed writes and damaged files, for MaxFaults
  started      \* counts jobs, for MaxJobs

history == <<begun, retired, interrupted, mixed>>
backupVars == <<db, disk, image, job, clock, history, faults, started>>

Records  == 1 .. MaxBackups
Row      == [stamp : 1 .. Seconds, enc : BOOLEAN, ext : {"zip", "enc"}, sum : Nat,
             status : {"running", "success", "failed", "verified", "corrupt"}]
Request  == [of : Records, status : {"pending", "running", "success", "failed"}]
Database == [rows : [Records -> Row \cup {None}], restore : Request \cup {None}]
Files    == (1 .. Seconds) \X {"zip", "enc", "verify"}
Content  == [id : Nat, is : {"whole", "partial", "damaged"}, plain : BOOLEAN]
Instance == [id : Records, row : Row]
Job      == [task : {"backup", "verify", "restore", "rehearse"},
             step : {"write", "close", "encrypt", "finish", "check", "decrypt",
                     "decrypted", "read", "safety", "copy", "record", "list", "delete"},
             new : Instance \cup {None}, old : Instance \cup {None},
             mem : Content \cup {None}, list : SUBSET Files]

ASSUME NoneAssumption == None \notin Row \cup Request \cup Content \cup Instance \cup Job

Begun    == [id |-> 0, is |-> "partial", plain |-> TRUE]
PathOf(i) == <<i.row.stamp, i.row.ext>>
TempOf(i) == <<i.row.stamp, "verify">>
Source(i) == IF i.row.enc THEN TempOf(i) ELSE PathOf(i)
Missing(f) == disk[f] = None
Existing(rows) == {b \in Records : rows[b] # None}
Usable(rows) == {b \in Existing(rows) : rows[b].status \in {"success", "verified"}}
Running(rows) == {b \in Existing(rows) : rows[b].status = "running"}
Busy == {j \in Jobs : job[j] # None}
On(j, s) == job[j] # None /\ job[j].step = s
NextRecord == Cardinality(Existing(db.rows)) + 1

BackupsInit ==
  /\ db = [rows |-> [b \in Records |-> None], restore |-> None]
  /\ disk = [f \in Files |-> None]
  /\ image = << >>
  /\ job = [j \in Jobs |-> None]
  /\ clock = 1 /\ begun = << >>
  /\ retired = {} /\ interrupted = {} /\ mixed = FALSE /\ faults = 0 /\ started = 0
-----------------------------------------------------------------------------
Step(j, s) == job' = [job EXCEPT ![j].step = s]
End(j)     == job' = [job EXCEPT ![j] = None]
Put(f, c)  == disk' = [disk EXCEPT ![f] = c]

\* save(update_fields=["status"]): writes nothing when the row is gone.
Marked(d, b, s) == IF d.rows[b] = None THEN d ELSE [d EXCEPT !.rows[b].status = s]
Restoring(j) == job[j].task \in {"restore", "rehearse"}
Reported(j, d, s) ==
  IF Restoring(j) /\ d.restore # None THEN [d EXCEPT !.restore.status = s] ELSE d

\* BackupRecord.objects.create at the head of create_backup.
NewRow(enc) == [stamp |-> clock, enc |-> enc, ext |-> "zip", sum |-> 0, status |-> "running"]
Insert(d, enc) == [d EXCEPT !.rows[NextRecord] = NewRow(enc)]
CountBackup == Len(begun) < MaxBackups /\ begun' = Append(begun, clock)

CanBegin(j) ==
  /\ Busy # Jobs /\ j = CHOOSE k \in Jobs : job[k] = None     \* threads are alike
  /\ Cardinality(Busy) < MaxInFlight /\ started < MaxJobs /\ started' = started + 1
NewJob(task, step) ==
  [task |-> task, step |-> step, new |-> None, old |-> None, mem |-> None, list |-> {}]

\* create_backup_view and the command backup_now.
BeginBackup(j, enc) ==
  /\ CanBegin(j)
  /\ CountBackup /\ db' = Insert(db, enc)
  /\ job' = [job EXCEPT ![j] =
       [NewJob("backup", "write") EXCEPT !.new = [id |-> NextRecord, row |-> NewRow(enc)]]]
  /\ UNCHANGED <<disk, image, clock, retired, interrupted, mixed, faults>>

\* verify_backup_view: any row, whatever its status.
BeginVerify(j, b) ==
  /\ CanBegin(j) /\ b \in Existing(db.rows)
  /\ job' = [job EXCEPT ![j] =
       [NewJob("verify", "check") EXCEPT !.old = [id |-> b, row |-> db.rows[b]]]]
  /\ UNCHANGED <<db, disk, image, clock, history, faults>>

\* RestoreView.post: its page lists the usable backups.
FileRestore(b) ==
  /\ db.restore = None /\ b \in Usable(db.rows)
  /\ db' = [db EXCEPT !.restore = [of |-> b, status |-> "pending"]]
  /\ UNCHANGED <<disk, image, job, clock, history, faults>>

\* restore_backup, once the request has been approved.
BeginRestore(j, task) ==
  /\ CanBegin(j) /\ db.restore # None /\ db.restore.of \in Existing(db.rows)
  /\ job' = [job EXCEPT ![j] = [NewJob(task, "check") EXCEPT
       !.old = [id |-> db.restore.of, row |-> db.rows[db.restore.of]]]]
  /\ UNCHANGED <<db, disk, image, clock, history, faults>>
-----------------------------------------------------------------------------
(* create_backup *)
OpenArchive(j) ==
  /\ On(j, "write") /\ Step(j, "close") /\ Put(PathOf(job[j].new), Begun)
  /\ UNCHANGED <<db, image, clock, history, faults>>

\* The archive holds the database as it is now: the checkpoint before the copy
\* is assumed to have written all that is committed to the file.  The code does
\* not look at its result, which tells when another connection kept it from
\* that.  Two writers of one name leave a file that is one of theirs or neither.
CloseArchive(j) ==
  LET f == PathOf(job[j].new) IN
  /\ On(j, "close")
  /\ image' = Append(image, db)
  /\ \E c \in {[id |-> Len(image'), is |-> "whole", plain |-> TRUE], Begun} :
       /\ c = Begun => \E k \in Busy \ {j} : On(k, "close") /\ PathOf(job[k].new) = f
       /\ Put(f, c)
  /\ Step(j, IF job[j].new.row.enc THEN "encrypt" ELSE "finish")
  /\ UNCHANGED <<db, clock, history, faults>>

\* The plain archive is removed once its encrypted form is written.
Encrypt(j) ==
  LET f == PathOf(job[j].new) IN
  /\ On(j, "encrypt") /\ ~Missing(f)
  /\ disk' = [disk EXCEPT ![<<f[1], "enc">>] = [disk[f] EXCEPT !.plain = FALSE], ![f] = None]
  /\ job' = [job EXCEPT ![j].new.row.ext = "enc", ![j].step = "finish"]
  /\ UNCHANGED <<db, image, clock, history, faults>>

\* The full save writes the row even if a restore has taken it away. The view
\* and the command then verify the same instance; the command may skip it.
LastSum(j)  == Len(image)                 \* mutant of ReadBack
ReadBack(j) == disk[PathOf(job[j].new)].id
AfterBackup(j) ==
  IF job[j].task = "restore" THEN {"copy"} ELSE {"check", "list"}
FinishBackup(j) ==
  LET i == job[j].new
      r == [i.row EXCEPT !.status = "success", !.sum = ReadBack(j)]
      done == [i EXCEPT !.row = r]
  IN
  /\ On(j, "finish") /\ ~Missing(PathOf(i))
  /\ db' = [db EXCEPT !.rows[i.id] = r]
  /\ \E s \in AfterBackup(j) : job' = [job EXCEPT ![j] =
       [@ EXCEPT !.step = s, !.new = done, !.old = IF s = "copy" THEN job[j].old ELSE done]]
  /\ UNCHANGED <<disk, image, clock, history, faults>>

\* Any exception on the way: the row and the restore waiting for it fail.
StillRunning == "running"                                \* mutant of FailedStatus
FailedStatus == "failed"
FailBackup(j) ==
  /\ db' = Reported(j, Marked(db, job[j].new.id, FailedStatus), "failed")
  /\ End(j)
  /\ UNCHANGED <<disk, image, clock, history>>

MissingFails(j) ==
  /\ On(j, "encrypt") \/ On(j, "finish")
  /\ Missing(PathOf(job[j].new))
  /\ FailBackup(j) /\ UNCHANGED faults

WriteFails(j) ==
  /\ On(j, "write") \/ On(j, "close") \/ On(j, "encrypt")
  /\ faults < MaxFaults /\ faults' = faults + 1
  /\ FailBackup(j)
-----------------------------------------------------------------------------
(* verify_backup *)
\* Not valid: the row is marked corrupt, or left as it was.
Invalid(j, mark) ==
  /\ db' = Reported(j, IF mark THEN Marked(db, job[j].old.id, "corrupt") ELSE db, "failed")
  /\ End(j)

SameSum(i)  == i.row.sum # 0 /\ disk[PathOf(i)].id = i.row.sum   \* mutant of WrongSum
WrongSum(i) == i.row.sum # 0 /\ disk[PathOf(i)].id # i.row.sum
Check(j) ==
  LET i == job[j].old IN
  /\ On(j, "check")
  /\ IF Missing(PathOf(i)) THEN Invalid(j, FALSE)
     ELSE IF WrongSum(i) THEN Invalid(j, TRUE)
     ELSE Step(j, IF i.row.enc THEN "decrypt" ELSE "read") /\ UNCHANGED db
  /\ UNCHANGED <<disk, image, clock, history, faults>>

\* Whatever ends a verification removes the decrypted file, if it is there.
BeginDecrypt(j) ==
  LET i == job[j].old
      c == disk[PathOf(i)]
  IN
  /\ On(j, "decrypt")
  /\ IF c = None \/ c.is # "whole" \/ c.plain
     THEN Invalid(j, TRUE) /\ Put(TempOf(i), None)
     ELSE /\ Put(TempOf(i), Begun)
          /\ job' = [job EXCEPT ![j].step = "decrypted", ![j].mem = c]
          /\ UNCHANGED db
  /\ UNCHANGED <<image, clock, history, faults>>

EndDecrypt(j) ==
  LET t == TempOf(job[j].old) IN
  /\ On(j, "decrypted")
  /\ Put(t, IF Missing(t) THEN None ELSE [job[j].mem EXCEPT !.plain = TRUE])
  /\ job' = [job EXCEPT ![j].step = "read", ![j].mem = None]
  /\ UNCHANGED <<db, image, clock, history, faults>>

\* A missing file here is an error nobody catches: the job just ends.
SkipSafety(j) == IF Restoring(j) THEN {"copy"} ELSE {"end"}       \* mutant of AfterVerify
AfterVerify(j) ==
  CASE job[j].task = "restore"  -> {"safety"}
    [] job[j].task = "rehearse" -> {"copy"}
    [] job[j].task = "backup"   -> {"list", "end"}
    [] OTHER                    -> {"end"}
ReadArchive(j) ==
  LET i == job[j].old
      f == Source(i)
  IN
  /\ On(j, "read")
  /\ \/ Missing(f) /\ End(j) /\ UNCHANGED db
     \/ ~Missing(f) /\ disk[f].is # "whole" /\ Invalid(j, TRUE)
     \/ ~Missing(f) /\ disk[f].is = "whole"
            /\ db' = Reported(j, Marked(db, i.id, "verified"), "running")
            /\ \E s \in AfterVerify(j) : IF s = "end" THEN End(j) ELSE Step(j, s)
  /\ Put(TempOf(i), IF i.row.enc THEN None ELSE disk[TempOf(i)])
  /\ UNCHANGED <<image, clock, history, faults>>
-----------------------------------------------------------------------------
(* restore_backup after the verification *)
SafetyBackup(j, enc) ==
  /\ On(j, "safety") /\ job[j].task = "restore"
  /\ CountBackup /\ db' = Insert(db, enc)
  /\ job' = [job EXCEPT ![j].step = "write", ![j].new = [id |-> NextRecord, row |-> NewRow(enc)]]
  /\ UNCHANGED <<disk, image, clock, retired, interrupted, mixed, faults>>

\* The file is copied over the open database. Pages written since the last
\* checkpoint are still read from the write-ahead log: those hold the rows the
\* restore itself wrote, so either version of them may be seen.
CopySource(j) == disk[PathOf(job[j].old)]
Copyable(j) == ~Missing(PathOf(job[j].old)) /\ CopySource(j).is = "whole"
CopyOver(j) ==
  /\ On(j, "copy") /\ Copyable(j) /\ Step(j, "record")
  /\ IF job[j].task = "rehearse" THEN UNCHANGED <<db, interrupted, mixed>>
     ELSE LET d == image[CopySource(j).id] IN
       /\ db' \in {d, db}
       /\ interrupted' = interrupted \cup ({"making"} \X Running(db'.rows))
       /\ mixed' = (mixed \/ Busy # {j})
  /\ UNCHANGED <<disk, image, clock, begun, retired, faults>>

CopyFails(j) ==
  /\ On(j, "copy") /\ ~Copyable(j)
  /\ db' = Reported(j, db, "failed") /\ End(j)
  /\ UNCHANGED <<disk, image, clock, history, faults>>

\* The last save needs the rows the request refers to: foreign keys are on.
Referred(j) ==
  /\ db.restore # None /\ job[j].old.id \in Existing(db.rows)
  /\ job[j].task = "restore" => job[j].new.id \in Existing(db.rows)
RecordRestore(j) ==
  /\ On(j, "record") /\ End(j)
  /\ db' = Reported(j, db, IF Referred(j) THEN "success" ELSE "failed")
  /\ UNCHANGED <<disk, image, clock, history, faults>>
-----------------------------------------------------------------------------
(* apply_retention_policy *)
Newer(b) == {c \in Usable(db.rows) : \/ db.rows[c].stamp > db.rows[b].stamp
                                     \/ db.rows[c].stamp = db.rows[b].stamp /\ c > b}
ListOld(j) ==
  /\ On(j, "list")
  /\ \E t \in 0 .. clock - 1 :
       job' = [job EXCEPT ![j].step = "delete", ![j].list =
         {PathOf([id |-> b, row |-> db.rows[b]]) : b \in
            {c \in Usable(db.rows) : Cardinality(Newer(c)) >= Kept /\ db.rows[c].stamp <= t}}]
  /\ UNCHANGED <<db, disk, image, clock, history, faults>>

DeleteOne(j, f) ==
  /\ On(j, "delete") /\ f \in job[j].list /\ Put(f, None)
  /\ job' = [job EXCEPT ![j].list = @ \ {f}]
  /\ retired' = retired \cup {f}
  /\ UNCHANGED <<db, image, clock, begun, interrupted, mixed, faults>>

EndRetention(j) ==
  /\ On(j, "delete") /\ job[j].list = {} /\ End(j)
  /\ UNCHANGED <<db, disk, image, clock, history, faults>>
-----------------------------------------------------------------------------
(* what happens around the jobs *)
Kill(j) ==
  /\ job[j] # None /\ faults < MaxFaults /\ faults' = faults + 1 /\ End(j)
  /\ interrupted' = interrupted
       \cup (IF job[j].new = None THEN {} ELSE {<<"making", job[j].new.id>>})
       \cup (IF job[j].old = None THEN {} ELSE {<<"reading", job[j].old.id>>})
  /\ UNCHANGED <<db, disk, image, clock, begun, retired, mixed>>

\* A stored archive goes bad while nobody works on it.
Damage(f) ==
  /\ faults < MaxFaults /\ faults' = faults + 1
  /\ ~Missing(f) /\ f[2] # "verify"
  /\ \A j \in Busy : \A i \in {job[j].new, job[j].old} \ {None} : i.row.stamp # f[1]
  /\ Put(f, [disk[f] EXCEPT !.id = 0, !.is = "damaged"])
  /\ UNCHANGED <<db, image, job, clock, history>>

\* A second in which no backup began is like the next one.
Tick ==
  /\ clock < Seconds /\ clock \in {begun[k] : k \in DOMAIN begun} /\ clock' = clock + 1
  /\ UNCHANGED <<db, disk, image, job, history, faults>>

Begin(j) ==
  \/ \E enc \in Encrypted : BeginBackup(j, enc)
  \/ \E b \in Records : BeginVerify(j, b)
  \/ \E task \in {"restore", "rehearse"} : BeginRestore(j, task)

Continue(j) ==
  \/ OpenArchive(j) \/ CloseArchive(j) \/ Encrypt(j) \/ FinishBackup(j)
  \/ MissingFails(j)
  \/ Check(j) \/ BeginDecrypt(j) \/ EndDecrypt(j) \/ ReadArchive(j)
  \/ CopyOver(j) \/ CopyFails(j) \/ RecordRestore(j)
  \/ \E enc \in Encrypted : SafetyBackup(j, enc)
  \/ ListOld(j) \/ EndRetention(j) \/ \E f \in Files : DeleteOne(j, f)

Around ==
  \/ \E j \in Jobs : WriteFails(j) \/ Kill(j)
  \/ \E b \in Records : FileRestore(b)
  \/ \E f \in Files : Damage(f)
  \/ Tick

GoOn(j) == Continue(j) /\ UNCHANGED started
BackupsNext == (\E j \in Jobs : Begin(j) \/ GoOn(j)) \/ (Around /\ UNCHANGED started)

\* A job that is not killed goes on: the thread or process is scheduled.
BackupsSpec == BackupsInit /\ [][BackupsNext]_backupVars /\ \A j \in Jobs : WF_backupVars(GoOn(j))
-----------------------------------------------------------------------------
BackupsTypeOK ==
  /\ db \in Database
  /\ disk \in [Files -> Content \cup {None}]
  /\ image \in Seq(Database)
  /\ job \in [Jobs -> Job \cup {None}]
  /\ clock \in 1 .. Seconds /\ begun \in Seq(1 .. Seconds)
  /\ retired \in SUBSET Files /\ interrupted \in SUBSET ({"making", "reading"} \X Records)
  /\ mixed \in BOOLEAN /\ faults \in 0 .. MaxFaults /\ started \in 0 .. MaxJobs

\* A backup listed as usable has its archive, whole and with the recorded sum,
\* whatever jobs ran, failed or were killed, and in the list a restore brought
\* back too; unless the retention deleted it, the disk damaged it or another
\* backup of the same second overwrote it.  Nothing is said once a restore has
\* overwritten the database under another job (mixed), which then writes what
\* it knows of a row that may be another backup's by now.
Alone(stamp) == Cardinality({k \in DOMAIN begun : begun[k] = stamp}) <= 1
Archived(row) ==
  LET f == <<row.stamp, row.ext>> IN
  \/ f \in retired
  \/ ~Missing(f) /\ disk[f].is = "damaged"
  \/ ~Missing(f) /\ disk[f].is = "whole" /\ row.sum \in {0, disk[f].id}
UsableHasArchive ==
  ~mixed => \A b \in Usable(db.rows) : Alone(db.rows[b].stamp) => Archived(db.rows[b])

\* Before live data is overwritten there is a whole archive on disk that was
\* made after the restore began, for it holds the row of the safety backup; as
\* long as the checkpoint of CloseArchive wrote what was committed.  Three ways
\* to lose it are left: another backup of the same second writes over its file,
\* the retention deletes it, or an earlier restore overwrote the database under
\* this job (mixed).
RestoreHasWayBack ==
  [][\A j \in Jobs :
       On(j, "copy") /\ job[j].task = "restore" /\ job'[j] # None /\ ~mixed =>
         LET i == job[j].new IN
         /\ i # None
         /\ Alone(i.row.stamp) /\ PathOf(i) \notin retired =>
              /\ ~Missing(PathOf(i)) /\ disk[PathOf(i)].is = "whole"
              /\ image[disk[PathOf(i)].id].rows[i.id] # None]_backupVars

\* A verification that has its backup to itself tells the truth: "verified" is
\* said of a whole archive with the recorded sum, "corrupt" of another.
Becomes(b, s) ==
  /\ b \in Existing(db.rows) /\ b \in Existing(db'.rows)
  /\ db.rows[b].status # s /\ db'.rows[b].status = s
Undisturbed(j, b) ==
  /\ \A k \in Busy \ {j} : \A i \in {job[k].new, job[k].old} \ {None} : i.id # b
  /\ <<"reading", b>> \notin interrupted
VerdictIsRight ==
  [][\A j \in Jobs, b \in Records :
       LET i == job[j].old
           f == PathOf(i)
           good == /\ ~Missing(f) /\ disk[f].is = "whole" /\ disk[f].plain # i.row.enc
                   /\ i.row.sum \in {0, disk[f].id}
       IN
       (On(j, "check") \/ On(j, "decrypt") \/ On(j, "read")) /\ job'[j] # job[j] /\ ~mixed
         /\ i.id = b /\ Undisturbed(j, b) /\ Alone(f[1]) /\ f \notin retired =>
            (Becomes(b, "verified") => good) /\ (Becomes(b, "corrupt") => ~good)]_backupVars

\* A record does not stay "running": its job finishes it one way or the other,
\* unless the job was killed or a restore brought the row back.
RunningEnds ==
  \A b \in Records :
    (b \in Running(db.rows)) ~> (b \notin Running(db.rows) \/ <<"making", b>> \in interrupted)
=============================================================================
