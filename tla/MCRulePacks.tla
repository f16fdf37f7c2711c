---------------------------- MODULE MCRulePacks ----------------------------
(* Version 1 of a regulation comes from the seed command, version 2 from    *)
(* the admin.  Deadlines are counted from Friday 10:00, the 31st of a month *)
(* followed by one of 28 days.                                              *)
EXTENDS RulePacks, TLC

CONSTANTS v1, v2, c1, c2, law

Rule(v, u)         == [value |-> v, unit |-> u]
MCRegulationOf     == [p \in Packs |-> law]
MCVersionOf        == (v1 :> 1) @@ (v2 :> 2)
MCSeededRules      == v1 :> ((c1 :> Rule(72, "hours")) @@ (c2 :> Rule(0, "")))
MCHandRules        == (c1 :> Rule(3, "business_days")) @@ (c2 :> NoRule)
MCEditTo           == {Rule(1, "months"), NoRule}
MCStarts           == {4 * 24 + 10}
MCMonthsLater(t, n) == t + 28 * 24 * n
Sym                == Permutations(Admins)
=============================================================================
