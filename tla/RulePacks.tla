----------------------------- MODULE RulePacks -----------------------------
(***************************************************************************)
(* The rule packs of apps/compliance: legal deadlines come from versioned  *)
(* packs a human approved, and a pack whose rules changed since is not     *)
(* used.                                                                   *)
(*                                                                         *)
(* Nothing here runs in one transaction but the admin's change forms: the  *)
(* admin action that approves packs and the function that answers a        *)
(* deadline are sequences of single statements, so each statement is a     *)
(* step.  The pack form posts back status, checksum and signature as they  *)
(* were when it was opened.  The checksum of a pack and its signature are  *)
(* always written together; they are kept as one seal, the rules they      *)
(* stand for.  Deleting a pack is left out.                                *)
(***************************************************************************)
EXTENDS Integers, FiniteSets, Sequences, SequencesExt

CONSTANTS
  Packs, Codes,       \* rule packs and rule codes
  Admins,             \* requests of the admin action "activate"
  Forms,              \* change forms of a pack, each opened once
  Clients,            \* callers of deadline_for
  RegulationOf,       \* jurisdiction and regulation code of a pack
  VersionOf,
  SeededRules,        \* rules of the packs seed_rulepacks creates
  HandRules,          \* rules of the packs entered in the admin
  EditTo,             \* rules an edit may leave behind, NoRule for a deletion
  Starts,             \* moments deadlines are counted from, in hours
  MonthsLater(_, _),  \* external: dateutil's relativedelta(months=n)
  NoRule, NoSeal, NoDeadline, Idle, Saved,
  MaxEdits            \* bound: edits of rules

VARIABLES
  status,      \* LegalRulePack.status; "none" before the row exists
  rules,       \* the LegalRule rows of a pack, by code
  seal,        \* checksum and signature: the rules they were computed from
  batch,       \* packs an admin action still has to approve, and how far it is
  form,        \* pack and seal as a form was opened with
  question,    \* deadline_for, between its queries
  edits,       \* number of edits of rules
  approved,    \* history: rules that were approved, with their pack
  overlapped,  \* history: regulations two approvals worked on at once
  byHand       \* history: regulations a form set a pack of to "active"

packVars == <<status, rules, seal>>
history  == <<approved, overlapped, byHand>>
ruleVars == <<packVars, batch, form, question, edits, history>>

PackStatus  == {"draft", "active", "retired"}
Regulations == {RegulationOf[p] : p \in Packs}
RuleValues  == {SeededRules[p][c] : p \in DOMAIN SeededRules, c \in Codes}
                 \cup {HandRules[c] : c \in Codes} \cup EditTo \cup {NoRule}
Content     == [Codes -> RuleValues]
NoContent   == [c \in Codes |-> NoRule]
Copy        == [pack : Packs, seal : Content \cup {NoSeal}]
Approval    == [packs : Seq(Packs), at : {"check", "read", "save"},
                seal : Content \cup {NoSeal}]
Inquiry     == [packs : Seq(Copy), code : Codes, start : Starts, torn : BOOLEAN,
                at : {"verify", "fetch", "ok"}, due : Nat \cup {NoDeadline}]
Units       == {"", "hours", "days", "business_days", "months"}

ASSUME RulesAssumption ==
  /\ IsFiniteSet(Packs) /\ MaxEdits \in Nat
  /\ SeededRules \in [DOMAIN SeededRules -> Content] /\ HandRules \in Content
  /\ \A rule \in RuleValues \ {NoRule} : rule \in [value : Nat, unit : Units]
  /\ Starts \subseteq Nat
  /\ \A t \in Starts, rule \in RuleValues \ {NoRule} : MonthsLater(t, rule.value) \in Nat
ASSUME NothingAssumption ==
  /\ NoSeal \notin Content /\ NoDeadline \notin Nat
  /\ Idle \notin Approval \cup Inquiry \cup Copy /\ Saved \notin Copy

PacksTypeOK ==
  /\ status \in [Packs -> PackStatus \cup {"none"}]
  /\ rules \in [Packs -> Content]
  /\ seal \in [Packs -> Content \cup {NoSeal}]
  /\ batch \in [Admins -> Approval \cup {Idle}]
  /\ form \in [Forms -> Copy \cup {Idle, Saved}]
  /\ question \in [Clients -> Inquiry \cup {Idle}]
  /\ edits \in 0 .. MaxEdits
  /\ approved \subseteq Packs \X Content
  /\ overlapped \subseteq Regulations /\ byHand \subseteq Regulations

PacksInit ==
  /\ status = [p \in Packs |-> "none"]
  /\ rules = [p \in Packs |-> NoContent]
  /\ seal = [p \in Packs |-> NoSeal]
  /\ batch = [a \in Admins |-> Idle]
  /\ form = [f \in Forms |-> Idle]
  /\ question = [q \in Clients |-> Idle]
  /\ edits = 0 /\ approved = {} /\ overlapped = {} /\ byHand = {}
-----------------------------------------------------------------------------
(* Deadlines, in hours from a Monday at midnight.                          *)

WeekdayOf(t) == (t \div 24) % 7
Business(t)  == WeekdayOf(t) < 5

\* One day at a time; a day on a weekend does not count.
AddBusinessDays(start, days) ==
  LET from[c \in Nat \X Nat] ==    \* the moment, the days left to count
        IF c[2] = 0 THEN c[1]
        ELSE from[<<c[1] + 24, IF Business(c[1] + 24) THEN c[2] - 1 ELSE c[2]>>]
  IN from[<<start, days>>]

ComputeDeadline(rule, start) ==
  IF rule.value = 0 \/ rule.unit = "" THEN NoDeadline
  ELSE CASE rule.unit = "hours"         -> start + rule.value
         [] rule.unit = "days"          -> start + 24 * rule.value
         [] rule.unit = "business_days" -> AddBusinessDays(start, rule.value)
         [] rule.unit = "months"        -> MonthsLater(start, rule.value)
-----------------------------------------------------------------------------
(* Editing: the seed command, the admin and its forms.                     *)

Edited(p, c, rule) ==
  /\ rules' = [rules EXCEPT ![p][c] = rule]
  /\ question' = [q \in Clients |->
       IF question[q] # Idle /\ question[q].at = "fetch" /\ Head(question[q].packs).pack = p
       THEN [question[q] EXCEPT !.torn = TRUE] ELSE question[q]]

SeedPack(p) ==
  /\ p \in DOMAIN SeededRules /\ status[p] = "none"
  /\ status' = [status EXCEPT ![p] = "draft"]
  /\ UNCHANGED <<rules, seal, batch, form, question, edits, history>>

\* A rule the pack misses is added again, to an approved pack as well.
SeedRule(p, c) ==
  /\ p \in DOMAIN SeededRules /\ status[p] # "none" /\ rules[p][c] = NoRule
  /\ Edited(p, c, SeededRules[p][c])
  /\ UNCHANGED <<status, seal, batch, form, edits, history>>

AddPack(p) ==
  /\ p \notin DOMAIN SeededRules /\ status[p] = "none"
  /\ status' = [status EXCEPT ![p] = "draft"]
  /\ rules' = [rules EXCEPT ![p] = HandRules]
  /\ UNCHANGED <<seal, batch, form, question, edits, history>>

EditRule(p, c, rule) ==
  /\ status[p] # "none" /\ rules[p][c] # rule
  /\ edits < MaxEdits /\ edits' = edits + 1
  /\ Edited(p, c, rule)
  /\ UNCHANGED <<status, seal, batch, form, history>>

OpenForm(f, p) ==
  /\ form[f] = Idle /\ status[p] # "none"
  /\ form' = [form EXCEPT ![f] = [pack |-> p, seal |-> seal[p]]]
  /\ UNCHANGED <<packVars, batch, question, edits, history>>

\* Any status can be posted, the copied checksum and signature are.
SaveForm(f, s) ==
  LET p == form[f].pack IN
  /\ form[f] \notin {Idle, Saved}
  /\ status' = [status EXCEPT ![p] = s]
  /\ seal' = [seal EXCEPT ![p] = form[f].seal]
  /\ byHand' = IF s = "active" THEN byHand \cup {RegulationOf[p]} ELSE byHand
  /\ form' = [form EXCEPT ![f] = Saved]
  /\ UNCHANGED <<rules, batch, question, edits, approved, overlapped>>
-----------------------------------------------------------------------------
(* The admin action "activate" and approve_pack.                           *)

\* The selected drafts are read once; the list may be sorted by any column.
SelectPacks(a, S) ==
  /\ batch[a] = Idle /\ S # {} /\ \A p \in S : status[p] = "draft"
  /\ \E order \in SetToSeqs(S) :
       batch' = [batch EXCEPT ![a] = [packs |-> order, at |-> "check", seal |-> NoSeal]]
  /\ UNCHANGED <<packVars, form, question, edits, history>>

Turn(a, at) == batch[a] # Idle /\ batch[a].at = at
NextPack(b) == IF Len(b.packs) = 1 THEN Idle
               ELSE [packs |-> Tail(b.packs), at |-> "check", seal |-> NoSeal]

SkipEmpty(a) ==
  /\ Turn(a, "check") /\ rules[Head(batch[a].packs)] = NoContent
  /\ batch' = [batch EXCEPT ![a] = NextPack(@)]
  /\ UNCHANGED <<packVars, form, question, edits, history>>

SameRegulation(p) == {o \in Packs \ {p} : RegulationOf[o] = RegulationOf[p]}
OlderActive(p)    == {o \in SameRegulation(p) :                    \* mutant of Rivals
                        status[o] = "active" /\ VersionOf[o] < VersionOf[p]}
Rivals(p)         == {o \in SameRegulation(p) : status[o] = "active"}

\* Approvals that retired the others of a regulation and have not activated yet.
InBetween(g) == {a \in Admins : batch[a] # Idle /\ batch[a].at # "check"
                                /\ RegulationOf[Head(batch[a].packs)] = g}

RetireRivals(a) ==
  LET p == Head(batch[a].packs) IN
  /\ Turn(a, "check") /\ rules[p] # NoContent
  /\ status' = [o \in Packs |-> IF o \in Rivals(p) THEN "retired" ELSE status[o]]
  /\ batch' = [batch EXCEPT ![a].at = "read"]
  /\ overlapped' = IF InBetween(RegulationOf[p]) = {} THEN overlapped
                   ELSE overlapped \cup {RegulationOf[p]}
  /\ UNCHANGED <<rules, seal, form, question, edits, approved, byHand>>

ReadRules(a) ==
  /\ Turn(a, "read")
  /\ batch' = [batch EXCEPT ![a].at = "save", ![a].seal = rules[Head(batch[a].packs)]]
  /\ UNCHANGED <<packVars, form, question, edits, history>>

ActivatePack(a) ==
  LET p == Head(batch[a].packs) IN
  /\ Turn(a, "save")
  /\ status' = [status EXCEPT ![p] = "active"]
  /\ seal' = [seal EXCEPT ![p] = batch[a].seal]
  /\ approved' = approved \cup {<<p, batch[a].seal>>}
  /\ batch' = [batch EXCEPT ![a] = NextPack(@)]
  /\ UNCHANGED <<rules, form, question, edits, overlapped, byHand>>

\* The server stops, or a statement fails: what was written stays.
Abort(a) ==
  /\ batch[a] # Idle
  /\ batch' = [batch EXCEPT ![a] = Idle]
  /\ UNCHANGED <<packVars, form, question, edits, history>>
-----------------------------------------------------------------------------
(* deadline_for and active_rule.                                           *)

\* The active packs of a regulation, newest first, with their seals.
Ask(q, g, c, t) ==
  /\ question[q] = Idle
  /\ \E order \in SetToSeqs({p \in Packs : RegulationOf[p] = g /\ status[p] = "active"}) :
       /\ \A i, j \in DOMAIN order : i < j => VersionOf[order[i]] >= VersionOf[order[j]]
       /\ question' = [question EXCEPT ![q] =
            [packs |-> [i \in DOMAIN order |-> [pack |-> order[i], seal |-> seal[order[i]]]],
             code |-> c, start |-> t, at |-> "verify", torn |-> FALSE, due |-> NoDeadline]]
  /\ UNCHANGED <<packVars, batch, form, edits, history>>

SealedOnce(copy) == copy.seal # NoSeal                             \* mutant of VerifyPack
VerifyPack(copy) == copy.seal # NoSeal /\ copy.seal = rules[copy.pack]

VerifyNext(q) ==
  /\ question[q] # Idle /\ question[q].at = "verify" /\ question[q].packs # <<>>
  /\ question' = [question EXCEPT ![q] =
       IF VerifyPack(Head(question[q].packs)) THEN [@ EXCEPT !.at = "fetch"]
       ELSE [@ EXCEPT !.packs = Tail(question[q].packs)]]
  /\ UNCHANGED <<packVars, batch, form, edits, history>>

\* The rule is read in a query of its own; without it the next pack is tried.
\* A rule that sets no deadline ends the question with REVIEW_REQUIRED.
FetchRule(q) ==
  LET rule == rules[Head(question[q].packs).pack][question[q].code]
      due  == ComputeDeadline(rule, question[q].start)
  IN
  /\ question[q] # Idle /\ question[q].at = "fetch"
  /\ question' = [question EXCEPT ![q] =
       IF rule = NoRule
       THEN [@ EXCEPT !.packs = Tail(question[q].packs), !.at = "verify", !.torn = FALSE]
       ELSE IF due = NoDeadline THEN Idle
       ELSE [@ EXCEPT !.at = "ok", !.due = due]]
  /\ UNCHANGED <<packVars, batch, form, edits, history>>

\* No active pack with a valid seal has the rule: REVIEW_REQUIRED, no deadline.
ReviewRequired(q) ==
  /\ question[q] # Idle /\ question[q].at = "verify" /\ question[q].packs = <<>>
  /\ question' = [question EXCEPT ![q] = Idle]
  /\ UNCHANGED <<packVars, batch, form, edits, history>>

Answered(q) ==
  /\ question[q] # Idle /\ question[q].at = "ok"
  /\ question' = [question EXCEPT ![q] = Idle]
  /\ UNCHANGED <<packVars, batch, form, edits, history>>
-----------------------------------------------------------------------------
PacksNext ==
  \/ \E p \in Packs : SeedPack(p) \/ AddPack(p)
  \/ \E p \in Packs, c \in Codes : SeedRule(p, c)
  \/ \E p \in Packs, c \in Codes, rule \in EditTo : EditRule(p, c, rule)
  \/ \E f \in Forms, p \in Packs : OpenForm(f, p)
  \/ \E f \in Forms, s \in PackStatus : SaveForm(f, s)
  \/ \E a \in Admins, S \in SUBSET Packs : SelectPacks(a, S)
  \/ \E a \in Admins : \/ SkipEmpty(a) \/ RetireRivals(a) \/ ReadRules(a)
                       \/ ActivatePack(a) \/ Abort(a)
  \/ \E q \in Clients, g \in Regulations, c \in Codes, t \in Starts : Ask(q, g, c, t)
  \/ \E q \in Clients : \/ VerifyNext(q) \/ FetchRule(q)
                        \/ ReviewRequired(q) \/ Answered(q)

PacksSpec == PacksInit /\ [][PacksNext]_ruleVars
-----------------------------------------------------------------------------
\* What a deadline is: that many hours or calendar days later; or the hour of
\* the start on the day by which that many working days have come.
DueOn(rule, start, t) ==
  IF rule.unit # "business_days" THEN t = ComputeDeadline(rule, start)
  ELSE LET later == {start + 24 * k : k \in 1 .. 7 * rule.value}
       IN /\ t \in later /\ Business(t)
          /\ Cardinality({d \in later : Business(d) /\ d <= t}) = rule.value

\* A deadline is never made up: it follows from a rule of the pack as a human
\* approved it, through stale packs, restored seals, later edits and the seed
\* command; unless the rule was edited after the pack's seal was compared and
\* before the rule was read, in the middle of the same question.
DeadlinesWereApproved ==
  \A q \in Clients :
    (question[q] # Idle /\ question[q].at = "ok" /\ ~question[q].torn) =>
      \E a \in approved :
        /\ a[1] = Head(question[q].packs).pack
        /\ a[2][question[q].code] # NoRule
        /\ DueOn(a[2][question[q].code], question[q].start, question[q].due)

\* One version of a regulation governs: approving one retires the others, in
\* whatever order versions are approved, one by one or in one selection, and
\* wherever an approval breaks off; unless two approvals of the regulation
\* overlapped or a form set the status itself.
OneGoverningPack ==
  \A g \in Regulations \ (overlapped \cup byHand) :
    Cardinality({p \in Packs : RegulationOf[p] = g /\ status[p] = "active"}) <= 1
=============================================================================
