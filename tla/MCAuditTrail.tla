---------------------------- MODULE MCAuditTrail ----------------------------
(* Two writers, two archiving commands, a clock of three ticks. *)
EXTENDS AuditTrail, TLC
Sym == Permutations(Writers) \cup Permutations(Purgers)
=============================================================================
