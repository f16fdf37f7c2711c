----------------------------- MODULE MCBackups -----------------------------
(* Two jobs at once, three in all, a fault, and three backups: the third is *)
(* the safety backup of a restore of the second, which brings back the row  *)
(* of the first.                                                            *)
EXTENDS Backups

\* The last second, and the last backup, are a restore's that runs alone.
RestoreIsLast ==
  clock = Seconds \/ Len(begun) = MaxBackups =>
    clock = Seconds /\ \A j \in Busy : job[j].task = "restore" /\ Busy = {j}

\* Before, a fault meets two jobs that overlap, or three that do not.
FaultsMeetFew ==
  clock < Seconds => started + faults <= MaxJobs \/ Cardinality(Busy) <= 1

Explored == RestoreIsLast /\ FaultsMeetFew
=============================================================================
