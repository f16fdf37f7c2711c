----------------------------- MODULE AiGateway -----------------------------
(***************************************************************************)
(* A question to the language models (aiservices.services.ask) and the     *)
(* sensitivity policy asked before it (apps/hsp).                          *)
(*                                                                         *)
(* Every call is a request thread.  It is evaluated against the rules in   *)
(* force, then goes down a chain of providers until one answers.  Calls    *)
(* meet in the month's budget, which each reads once and writes back, and  *)
(* in the queue of review requests; administrators change the rules and    *)
(* decide the requests meanwhile.  Texts, their masking and the messages   *)
(* of a conversation are left out.                                         *)
(***************************************************************************)
EXTENDS Integers, Sequences, FiniteSets

CONSTANTS
  Calls,
  Features, DefaultOf,   \* DEFAULT_DECISIONS of a feature's data class
  Rules,                 \* rules administrators may put in force
  Every,                 \* the feature "*" of a rule
  Order,                 \* FALLBACK_ORDER
  Local, Mock,           \* providers with is_local, and the one that needs no model
  LocalOnly, PreferLocal,
  CostOf,                \* cost of an answer by the prices in ProviderPricing
  Limit,                 \* AIBudget.limit_usd; 0 is no limit
  MaxRetries,            \* max_retries of a provider (2 in the code)
  Choices,               \* providers users ask for; None where they ask for none
  CloudWanted,           \* values of allow_cloud in requests
  None,
  MaxInFlight, MaxChanges, MaxFaults,  \* bounds: calls at once, rules changed, calls cancelled or killed
  MaxLost                \* bound: log rows and receipts whose write fails

Decisions  == {"allow", "limits", "local", "review", "deny"}
Strictness == [allow |-> 0, limits |-> 1, local |-> 2, review |-> 3, deny |-> 4]
Providers  == {Order[i] : i \in DOMAIN Order} \cup (Choices \ {None}) \cup {Mock}

ASSUME PolicyAssumption ==
  /\ DefaultOf \in [Features -> Decisions]
  /\ Rules \subseteq [feature : Features \cup {Every}, decision : Decisions]
ASSUME ProvidersAssumption ==
  /\ Order \in Seq(Providers) /\ None \notin Providers
  /\ Mock \in Local /\ Local \subseteq Providers
  /\ LocalOnly \in BOOLEAN /\ PreferLocal \in BOOLEAN /\ CloudWanted \subseteq BOOLEAN
  /\ CostOf \in [Providers -> Nat] /\ \A p \in Local : CostOf[p] = 0
ASSUME BoundsAssumption ==
  \A n \in {Limit, MaxRetries, MaxInFlight, MaxChanges, MaxFaults, MaxLost} : n \in Nat

VARIABLES
  inForce,     \* active and approved rules
  pending,     \* PENDING review requests of a feature
  granted,     \* the latest approved request of a feature has not expired
  spent,       \* AIBudget.spent_usd
  log,         \* AICallLog: <<call, provider, outcome>>
  receipts,    \* RightsReceipt: <<call, outcome>>
  call,        \* what each thread is doing
  cancelled,   \* calls whose token was raised
  sent,        \* history: providers a call was sent to
  seen,        \* history: decisions a call was evaluated on, and whether one was granted
  total,       \* history: cost of all answers
  overlapped,  \* history: a budget was read while another call held a copy
  unlogged,    \* history: log rows whose create failed: <<call, provider>>
  unreceipted, \* history: calls whose receipt failed
  changes, faults

policyVars  == <<inForce, pending, granted>>
logVars     == <<log, unlogged>>
receiptVars == <<receipts, unreceipted>>
historyVars == <<sent, seen, total, overlapped>>
boundVars   == <<changes, faults>>
vars == <<policyVars, spent, logVars, receiptVars, call, cancelled, historyVars, boundVars>>

Ended   == {"answered", "denied", "cancelled", "unavailable", "duplicate", "killed"}
Running == {"review", "file", "budget", "send", "wait", "charge", "receipt"}
Outcomes == {"success", "failed", "fallback", "cancelled", "blocked"}

At(c, s)  == call[c].step = s
InFlight  == {c \in Calls : call[c].step \in Running}
Holding   == {c \in Calls : call[c].step \in {"send", "wait", "charge"}}
Provider(c) == call[c].chain[call[c].at]

\* A chain of providers maps positions to providers; those a filter takes out
\* leave a gap.
Last   == Len(Order) + 1
Chains == UNION {[D -> Providers] : D \in SUBSET (0 .. 2 * Last)}

TypeOK ==
  /\ inForce \in SUBSET Rules
  /\ pending \in [Features -> Nat] /\ granted \in [Features -> BOOLEAN]
  /\ spent \in Nat /\ total \in Nat
  /\ log \in SUBSET (Calls \X Providers \X Outcomes)
  /\ receipts \in SUBSET (Calls \X {"blocked", "success"})
  /\ unlogged \in SUBSET (Calls \X Providers) /\ unreceipted \in SUBSET Calls
  /\ call \in [Calls -> [step : {"idle"} \cup Running \cup Ended, feature : Features \cup {None},
                         chain : Chains, at : -1 .. 2 * Last, tries : 0 .. MaxRetries, copy : Nat]]
  /\ \A c \in Calls : At(c, "send") \/ At(c, "wait") \/ At(c, "charge")
                        => call[c].at \in DOMAIN call[c].chain
  /\ cancelled \in SUBSET Calls /\ sent \in [Calls -> SUBSET Providers]
  /\ seen \in [Calls -> [from : SUBSET Decisions, granted : BOOLEAN]]
  /\ overlapped \in BOOLEAN
  /\ changes \in 0 .. MaxChanges /\ faults \in 0 .. MaxFaults

Idle == [step |-> "idle", feature |-> None, chain |-> << >>, at |-> -1, tries |-> 0, copy |-> 0]
Init ==
  /\ inForce = {} /\ pending = [f \in Features |-> 0] /\ granted = [f \in Features |-> FALSE]
  /\ spent = 0 /\ total = 0 /\ log = {} /\ receipts = {}
  /\ unlogged = {} /\ unreceipted = {}
  /\ call = [c \in Calls |-> Idle] /\ cancelled = {}
  /\ sent = [c \in Calls |-> {}] /\ seen = [c \in Calls |-> [from |-> {}, granted |-> FALSE]]
  /\ overlapped = FALSE /\ changes = 0 /\ faults = 0
-----------------------------------------------------------------------------
(* hsp.policy.evaluate *)
Applied(f) == {DefaultOf[f]} \cup {r.decision : r \in {r \in inForce : r.feature \in {f, Every}}}
Strictest(D) == CHOOSE d \in D : \A e \in D : Strictness[e] <= Strictness[d]
Evaluate(f) ==
  LET d == Strictest(Applied(f)) IN IF d = "review" /\ granted[f] THEN "limits" ELSE d
CloudAllowed(d) == d \in {"allow", "limits"}

(* registry.build_fallback_chain *)
IsCloud(p)     == p \notin Local
Kept(chain, S) == [i \in {i \in DOMAIN chain : chain[i] \in S} |-> chain[i]]
Preferred(choice) ==
  [i \in {i \in DOMAIN Order : Order[i] # choice} \cup (IF choice = None THEN {} ELSE {0})
     |-> IF i = 0 THEN choice ELSE Order[i]]
CloudBehind(chain) ==
  LET clouds == {i \in DOMAIN chain : IsCloud(chain[i])} IN
  [i \in (DOMAIN chain \ clouds) \cup {Last + i : i \in clouds} |-> chain[IF i < Last THEN i ELSE i - Last]]
Sorted(chain) ==
  IF LocalOnly THEN Kept(chain, Local) ELSE IF PreferLocal THEN CloudBehind(chain) ELSE chain
WithMock(chain)    == [i \in DOMAIN chain \cup {2 * Last} |-> IF i = 2 * Last THEN Mock ELSE chain[i]]
WithoutMock(chain) == Kept(chain, Providers \ {Mock})         \* mutant of MockLast
MockLast(chain)    == WithMock(Kept(chain, Providers \ {Mock}))
FallbackChain(choice) == MockLast(Sorted(Preferred(choice)))

WholeChain(choice, cloud) == FallbackChain(choice)            \* mutant of ChainFor
ChainFor(choice, cloud) ==
  LET chain == FallbackChain(choice)
      local == Kept(chain, Local)
  IN IF cloud THEN chain ELSE IF \E i \in DOMAIN local : local[i] = Mock THEN local ELSE WithMock(local)
-----------------------------------------------------------------------------
\* The create of a log row and the save of a receipt are tried, and an
\* exception of either is swallowed: the call goes on without the record.
MayLose == Cardinality(unlogged) + Cardinality(unreceipted) < MaxLost
SuccessOnly(c, outcome) ==                                     \* mutant of Logged
  /\ log' = IF outcome = "success" THEN log \cup {<<c, Provider(c), outcome>>} ELSE log
  /\ UNCHANGED unlogged
Logged(c, outcome) ==
  \/ log' = log \cup {<<c, Provider(c), outcome>>} /\ UNCHANGED unlogged
  \/ MayLose /\ unlogged' = unlogged \cup {<<c, Provider(c)>>} /\ UNCHANGED log
Receipted(c, outcome) ==
  \/ receipts' = receipts \cup {<<c, outcome>>} /\ UNCHANGED unreceipted
  \/ MayLose /\ unreceipted' = unreceipted \cup {c} /\ UNCHANGED receipts

Go(c, s)  == call' = [call EXCEPT ![c].step = s]
End(c, s) == call' = [call EXCEPT ![c] = [Idle EXCEPT !.step = s]]

\* ask up to the budget: evaluate_ai_request and the chain.  A request not
\* allowed to leave the house may still wait for its review to be filed.
Ask(c, f, choice, wanted) ==
  LET d == Evaluate(f)
      chain == ChainFor(choice, wanted /\ CloudAllowed(d))
  IN
  /\ At(c, "idle") /\ c = CHOOSE b \in Calls : At(b, "idle")     \* threads are alike
  /\ Cardinality(InFlight) < MaxInFlight
  /\ IF d = "deny" THEN End(c, "denied")
     ELSE call' = [call EXCEPT ![c] = [Idle EXCEPT !.feature = f, !.chain = chain,
                                         !.step = IF d = "review" THEN "review" ELSE "budget"]]
  /\ IF d = "deny" THEN Receipted(c, "blocked") ELSE UNCHANGED receiptVars
  /\ seen' = [seen EXCEPT ![c] = [from |-> Applied(f), granted |-> granted[f]]]
  /\ UNCHANGED <<policyVars, spent, logVars, cancelled, sent, total, overlapped, boundVars>>

\* get_or_create of the PENDING request: the read, then the insert.  Nothing
\* keeps two calls from inserting; get() raises when it finds two.
FindReview(c) ==
  LET n == pending[call[c].feature] IN
  /\ At(c, "review")
  /\ IF n > 1 THEN End(c, "duplicate") ELSE Go(c, IF n = 0 THEN "file" ELSE "budget")
  /\ UNCHANGED <<policyVars, spent, logVars, receiptVars, cancelled, historyVars, boundVars>>

FileReview(c) ==
  /\ At(c, "file") /\ Go(c, "budget")
  /\ pending' = [pending EXCEPT ![call[c].feature] = @ + 1]
  /\ UNCHANGED <<inForce, granted, spent, logVars, receiptVars, cancelled, historyVars, boundVars>>

\* The next provider of the chain, or AIUnavailableError.
Ahead(c) == {i \in DOMAIN call[c].chain : call[c].at < i}
Advance(c, copy) ==
  IF Ahead(c) = {} THEN End(c, "unavailable")
  ELSE \E i \in Ahead(c) :
         /\ \A j \in Ahead(c) : i <= j
         /\ call' = [call EXCEPT ![c].step = "send", ![c].at = i, ![c].tries = 0, ![c].copy = copy]

\* current_budget: the row is read once for the whole chain.
LoadBudget(c) ==
  /\ At(c, "budget")
  /\ Advance(c, spent)
  /\ overlapped' = (overlapped \/ Holding # {})
  /\ UNCHANGED <<policyVars, spent, logVars, receiptVars, cancelled, sent, seen, total, boundVars>>

Above(c)    == Limit > 0 /\ call[c].copy > Limit              \* mutant of Exceeded
Exceeded(c) == Limit > 0 /\ call[c].copy >= Limit
Blocked(c) ==
  /\ At(c, "send") /\ IsCloud(Provider(c)) /\ Exceeded(c)
  /\ Logged(c, "blocked") /\ Advance(c, call[c].copy)
  /\ UNCHANGED <<policyVars, spent, receiptVars, cancelled, historyVars, boundVars>>

\* The token is looked at before each attempt.
Cancelled(c) ==
  /\ At(c, "send") /\ c \in cancelled /\ ~(IsCloud(Provider(c)) /\ Exceeded(c))
  /\ Logged(c, "cancelled") /\ End(c, "cancelled")
  /\ UNCHANGED <<policyVars, spent, receiptVars, cancelled, historyVars, boundVars>>

Send(c) ==
  /\ At(c, "send") /\ c \notin cancelled /\ ~(IsCloud(Provider(c)) /\ Exceeded(c))
  /\ Go(c, "wait")
  /\ sent' = [sent EXCEPT ![c] = @ \cup {Provider(c)}]
  /\ UNCHANGED <<policyVars, spent, logVars, receiptVars, cancelled, seen, total, overlapped, boundVars>>

\* No connection, a timeout, a rate limit or a server error is tried again.
Tried(c) == call[c].tries + 1
TryAgain(c) ==
  /\ At(c, "wait") /\ Provider(c) # Mock /\ Tried(c) <= MaxRetries
  /\ call' = [call EXCEPT ![c].step = "send", ![c].tries = Tried(c)]
  /\ UNCHANGED <<policyVars, spent, logVars, receiptVars, cancelled, historyVars, boundVars>>

\* The last attempt failed, or the provider refused for good: a bad key, no
\* such model, an answer that cannot be read.
Fails(c) ==
  /\ At(c, "wait") /\ Provider(c) # Mock
  /\ \/ Logged(c, IF Ahead(c) = {} THEN "failed" ELSE "fallback")
     \/ Logged(c, "failed")                                    \* an unforeseen exception
  /\ Advance(c, call[c].copy)
  /\ UNCHANGED <<policyVars, spent, receiptVars, cancelled, historyVars, boundVars>>

Answers(c) ==
  /\ At(c, "wait")
  /\ Logged(c, "success") /\ total' = total + CostOf[Provider(c)]
  /\ Go(c, IF CostOf[Provider(c)] > 0 THEN "charge" ELSE "receipt")
  /\ UNCHANGED <<policyVars, spent, receiptVars, cancelled, sent, seen, overlapped, boundVars>>

\* The copy read before the chain is written back with the cost added.
Charged(c) == call[c].copy + CostOf[Provider(c)]
Charge(c) ==
  /\ At(c, "charge") /\ Go(c, "receipt")
  /\ spent' = Charged(c)
  /\ UNCHANGED <<policyVars, logVars, receiptVars, cancelled, historyVars, boundVars>>

RecordOutcome(c) ==
  /\ At(c, "receipt") /\ End(c, "answered")
  /\ Receipted(c, "success")
  /\ UNCHANGED <<policyVars, spent, logVars, cancelled, historyVars, boundVars>>
-----------------------------------------------------------------------------
Cancel(c) ==
  /\ c \in InFlight \ cancelled /\ cancelled' = cancelled \cup {c}
  /\ faults < MaxFaults /\ faults' = faults + 1
  /\ UNCHANGED <<policyVars, spent, logVars, receiptVars, call, historyVars, changes>>

\* The server stops: its threads are daemons.
Kill(c) ==
  /\ c \in InFlight /\ faults < MaxFaults /\ faults' = faults + 1 /\ End(c, "killed")
  /\ UNCHANGED <<policyVars, spent, logVars, receiptVars, cancelled, historyVars, changes>>

\* hsp.admin: rules and reviews.
ChangeRule(r) ==
  /\ changes < MaxChanges /\ changes' = changes + 1
  /\ inForce' = IF r \in inForce THEN inForce \ {r} ELSE inForce \cup {r}
  /\ UNCHANGED <<pending, granted, spent, logVars, receiptVars, call, cancelled, historyVars, faults>>

Decide(f, approve) ==
  /\ pending[f] > 0 /\ pending' = [pending EXCEPT ![f] = @ - 1]
  /\ granted' = [granted EXCEPT ![f] = @ \/ approve]
  /\ UNCHANGED <<inForce, spent, logVars, receiptVars, call, cancelled, historyVars, boundVars>>

Expire(f) ==
  /\ granted[f] /\ granted' = [granted EXCEPT ![f] = FALSE]
  /\ UNCHANGED <<inForce, pending, spent, logVars, receiptVars, call, cancelled, historyVars, boundVars>>

GoOn(c) ==
  \/ FindReview(c) \/ FileReview(c) \/ LoadBudget(c)
  \/ Blocked(c) \/ Cancelled(c) \/ Send(c)
  \/ TryAgain(c) \/ Fails(c) \/ Answers(c)
  \/ Charge(c) \/ RecordOutcome(c)

Next ==
  \/ \E c \in Calls :
       \/ \E f \in Features, choice \in Choices, wanted \in CloudWanted : Ask(c, f, choice, wanted)
       \/ GoOn(c) \/ Cancel(c) \/ Kill(c)
  \/ \E r \in Rules : ChangeRule(r)
  \/ \E f \in Features : Expire(f) \/ \E approve \in BOOLEAN : Decide(f, approve)

\* A thread that is not killed is scheduled, and every HTTP request has a
\* timeout, so the wait for a provider ends.
Spec == Init /\ [][Next]_vars /\ \A c \in Calls : WF_vars(GoOn(c))
-----------------------------------------------------------------------------
\* Data leaves the house only on a decision that lets it: when the call was
\* evaluated no rule denied it, and either nothing asked for local work or a
\* review or the review that was asked for had been granted, however the rules
\* and reviews changed while it was on its way.
MayLeave(s) ==
  /\ "deny" \notin s.from
  /\ IF "review" \in s.from THEN s.granted ELSE "local" \notin s.from
CloudOnlyIfAllowed == \A c \in Calls : sent[c] \subseteq Local \/ MayLeave(seen[c])

\* The budget never shows more than the answers cost, whether or not they were
\* logged; if no two calls held it at once it shows all of it, and the limit is
\* passed by less than one answer.
Settled == overlapped = FALSE /\ faults = 0 /\ \A c \in Calls : ~At(c, "charge")
BudgetIsSpending ==
  /\ spent <= total
  /\ Settled => spent = total
  /\ ~overlapped /\ faults = 0 /\ Limit > 0 =>
       total = 0 \/ \E p \in Providers : total < Limit + CostOf[p]

\* What remains of a call that has ended, unless the server stopped it.  Every
\* provider it was sent to is in the log, but for the rows whose create failed:
\* such a failure is swallowed, and the call goes on, to the next provider or
\* with the answer.  A refusal and an answer leave their receipt, which may
\* fail and be swallowed too; and the log shows a success only if the question
\* was answered, whatever else of its records was lost.
SentIsLogged ==
  \A c \in Calls : call[c].step \in Ended \ {"killed"} =>
    /\ \A p \in sent[c] : (\E o \in Outcomes : <<c, p, o>> \in log) \/ <<c, p>> \in unlogged
    /\ c \notin unreceipted =>
         /\ At(c, "answered") => <<c, "success">> \in receipts
         /\ At(c, "denied") => <<c, "blocked">> \in receipts
    /\ \A p \in Providers : <<c, p, "success">> \in log => At(c, "answered")

\* Every question ends: answered, denied or cancelled.  The chain never runs
\* out, because the mock provider is its last.  (A call that finds two pending
\* reviews of its feature fails; the server may stop.)
CallsEnd ==
  \A c \in Calls :
    c \in InFlight ~> call[c].step \in {"answered", "denied", "cancelled", "duplicate", "killed"}
=============================================================================
