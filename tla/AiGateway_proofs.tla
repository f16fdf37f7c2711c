-------------------------- MODULE AiGateway_proofs --------------------------
(***************************************************************************)
(* Proofs about AiGateway for any number of calls and providers, any order *)
(* and prices of them, and any rules: data leaves the house only on a      *)
(* decision that lets it, what was sent is in the log, and the budget      *)
(* follows the log as far as overlapping calls let it.                     *)
(***************************************************************************)
EXTENDS AiGateway, TLAPS

USE DEF Decisions, Ended, Running, Outcomes, logVars, receiptVars

CallState == [step : {"idle"} \cup Running \cup Ended, feature : Features \cup {None},
              chain : Chains, at : -1 .. 2 * Last, tries : 0 .. MaxRetries, copy : Nat]
-----------------------------------------------------------------------------
(* Chains of providers.                                                    *)

LEMMA LastIsPositive == Last \in Nat /\ Last > 0 /\ DOMAIN Order = 1 .. Last - 1
  BY ProvidersAssumption DEF Last

LEMMA ChainIntro ==
  ASSUME NEW D \in SUBSET (0 .. 2 * Last), NEW f \in [D -> Providers]
  PROVE  f \in Chains
  BY DEF Chains

LEMMA ChainElim ==
  ASSUME NEW f \in Chains
  PROVE  /\ DOMAIN f \in SUBSET (0 .. 2 * Last) /\ f \in [DOMAIN f -> Providers]
         /\ \A i \in DOMAIN f : f[i] \in Providers /\ i \in 0 .. 2 * Last
  BY DEF Chains

\* A filter keeps what it is to keep, and nothing else.
LEMMA KeptIsChain ==
  ASSUME NEW f \in Chains, NEW S
  PROVE  Kept(f, S) \in Chains /\ \A i \in DOMAIN Kept(f, S) : Kept(f, S)[i] \in S
  <1> DEFINE D == {i \in DOMAIN f : f[i] \in S}
  <1>1. D \in SUBSET (0 .. 2 * Last) /\ \A i \in D : f[i] \in Providers
    BY ChainElim
  <1>2. Kept(f, S) \in [D -> Providers]
    BY <1>1 DEF Kept
  <1>3. QED
    BY <1>1, <1>2, ChainIntro DEF Kept

LEMMA WithMockIsChain ==
  ASSUME NEW f \in Chains
  PROVE  /\ WithMock(f) \in Chains
         /\ \A S : Mock \in S /\ (\A i \in DOMAIN f : f[i] \in S)
                     => \A i \in DOMAIN WithMock(f) : WithMock(f)[i] \in S
  <1> DEFINE D == DOMAIN f \cup {2 * Last}
  <1>1. D \in SUBSET (0 .. 2 * Last) /\ \A i \in DOMAIN f : f[i] \in Providers
    BY ChainElim, LastIsPositive
  <1>2. WithMock(f) \in [D -> Providers]
    BY <1>1 DEF WithMock, Providers
  <1>3. WithMock(f) \in Chains
    BY <1>1, <1>2, ChainIntro
  <1>4. QED
    BY <1>3 DEF WithMock

LEMMA PreferredIsChain ==
  ASSUME NEW choice \in Choices
  PROVE  Preferred(choice) \in Chains /\ \A i \in DOMAIN Preferred(choice) : i < Last
  <1> DEFINE D == {i \in DOMAIN Order : Order[i] # choice} \cup (IF choice = None THEN {} ELSE {0})
  <1>1. D \in SUBSET (0 .. 2 * Last) /\ \A i \in D : i < Last
    BY LastIsPositive
  <1>2. \A i \in D : (IF i = 0 THEN choice ELSE Order[i]) \in Providers
    BY LastIsPositive DEF Providers
  <1>3. Preferred(choice) \in [D -> Providers]
    BY <1>2 DEF Preferred
  <1>4. QED
    BY <1>1, <1>3, ChainIntro DEF Preferred

LEMMA SortedIsChain ==
  ASSUME NEW f \in Chains, \A i \in DOMAIN f : i < Last
  PROVE  Sorted(f) \in Chains
  <1>1. Kept(f, Local) \in Chains
    BY KeptIsChain
  <1>2. CloudBehind(f) \in Chains
    <2> DEFINE clouds == {i \in DOMAIN f : IsCloud(f[i])}
               D == (DOMAIN f \ clouds) \cup {Last + i : i \in clouds}
    <2>1. \A i \in DOMAIN f : i \in 0 .. Last - 1 /\ f[i] \in Providers
      BY ChainElim, LastIsPositive
    <2>2. D \in SUBSET (0 .. 2 * Last)
      BY <2>1, LastIsPositive
    <2>3. \A i \in D : f[IF i < Last THEN i ELSE i - Last] \in Providers
      <3> SUFFICES ASSUME NEW i \in D PROVE f[IF i < Last THEN i ELSE i - Last] \in Providers
        OBVIOUS
      <3>1. CASE i \in DOMAIN f
        BY <3>1, <2>1
      <3>2. ASSUME NEW k \in clouds, i = Last + k PROVE f[IF i < Last THEN i ELSE i - Last] \in Providers
        <4>1. k \in DOMAIN f /\ k \in Nat /\ ~(i < Last) /\ i - Last = k
          BY <3>2, <2>1, LastIsPositive
        <4>2. QED
          BY <4>1, <2>1
      <3>3. QED
        BY <3>1, <3>2
    <2>4. CloudBehind(f) \in [D -> Providers]
      BY <2>3 DEF CloudBehind
    <2>5. QED
      BY <2>2, <2>4, ChainIntro
  <1>3. QED
    BY <1>1, <1>2 DEF Sorted

\* A chain for a call that may not leave the house is of local providers.
LEMMA ChainForIsChain ==
  ASSUME NEW choice \in Choices, NEW cloud \in BOOLEAN
  PROVE  /\ ChainFor(choice, cloud) \in Chains
         /\ ~cloud => \A i \in DOMAIN ChainFor(choice, cloud) : ChainFor(choice, cloud)[i] \in Local
  <1> DEFINE chain == FallbackChain(choice)
             local == Kept(chain, Local)
  <1>1. Sorted(Preferred(choice)) \in Chains
    BY PreferredIsChain, SortedIsChain
  <1>2. chain \in Chains
    BY <1>1, KeptIsChain, WithMockIsChain DEF FallbackChain, MockLast
  <1>3. local \in Chains /\ \A i \in DOMAIN local : local[i] \in Local
    BY <1>2, KeptIsChain
  <1>4. /\ WithMock(local) \in Chains
        /\ \A i \in DOMAIN WithMock(local) : WithMock(local)[i] \in Local
    BY <1>3, WithMockIsChain, ProvidersAssumption
  <1> HIDE DEF chain, local
  <1>5. ChainFor(choice, cloud) = IF cloud THEN chain
          ELSE IF \E i \in DOMAIN local : local[i] = Mock THEN local ELSE WithMock(local)
    BY DEF ChainFor, chain, local
  <1>6. QED
    BY <1>2, <1>3, <1>4, <1>5
-----------------------------------------------------------------------------
(* The policy.                                                             *)

LEMMA AppliedAreDecisions ==
  ASSUME inForce \in SUBSET Rules, NEW f \in Features
  PROVE  Applied(f) \in SUBSET Decisions /\ Applied(f) # {}
  BY PolicyAssumption DEF Applied

\* Of any decisions one is the strictest.
LEMMA StrictestExists ==
  ASSUME NEW D \in SUBSET Decisions, D # {}
  PROVE  Strictest(D) \in D /\ \A e \in D : Strictness[e] <= Strictness[Strictest(D)]
  <1>1. \E d \in D : \A e \in D : Strictness[e] <= Strictness[d]
    <2>1. CASE "deny" \in D
      BY <2>1 DEF Strictness
    <2>2. CASE "deny" \notin D /\ "review" \in D
      BY <2>2 DEF Strictness
    <2>3. CASE "deny" \notin D /\ "review" \notin D /\ "local" \in D
      BY <2>3 DEF Strictness
    <2>4. CASE "deny" \notin D /\ "review" \notin D /\ "local" \notin D /\ "limits" \in D
      BY <2>4 DEF Strictness
    <2>5. CASE D = {"allow"}
      BY <2>5 DEF Strictness
    <2>6. QED
      BY <2>1, <2>2, <2>3, <2>4, <2>5
  <1>2. QED
    BY <1>1 DEF Strictest

\* The gateway lets data out only where every rule, or the review, does.
LEMMA EvaluateIsStrict ==
  ASSUME inForce \in SUBSET Rules, NEW f \in Features
  PROVE  /\ Evaluate(f) \in Decisions
         /\ CloudAllowed(Evaluate(f)) => MayLeave([from |-> Applied(f), granted |-> granted[f]])
  <1> DEFINE d == Strictest(Applied(f))
  <1>1. d \in Applied(f) /\ Applied(f) \in SUBSET Decisions
        /\ \A e \in Applied(f) : Strictness[e] <= Strictness[d]
    BY AppliedAreDecisions, StrictestExists
  <1> HIDE DEF d
  <1>2. Evaluate(f) = IF d = "review" /\ granted[f] THEN "limits" ELSE d
    BY DEF Evaluate, d
  <1>3. CloudAllowed(Evaluate(f)) => d \in {"allow", "limits"} \/ (d = "review" /\ granted[f])
    BY <1>2 DEF CloudAllowed
  <1>4. d \in {"allow", "limits"} => {"deny", "review", "local"} \cap Applied(f) = {}
    BY <1>1 DEF Strictness
  <1>5. d = "review" => "deny" \notin Applied(f)
    BY <1>1 DEF Strictness
  <1>6. QED
    BY <1>1, <1>2, <1>3, <1>4, <1>5 DEF MayLeave
-----------------------------------------------------------------------------
(* What a step makes of a call.                                            *)

LEMMA IdleIsState ==
  \A s \in {"idle"} \cup Running \cup Ended : [Idle EXCEPT !.step = s] \in CallState
  <1>1. << >> \in Chains
    <2>1. << >> \in [{} -> Providers] /\ {} \in SUBSET (0 .. 2 * Last)
      OBVIOUS
    <2>2. QED
      BY <2>1 DEF Chains
  <1>2. QED
    BY <1>1, BoundsAssumption, LastIsPositive DEF Idle, CallState

LEMMA EndGives ==
  ASSUME TypeOK, NEW c \in Calls, NEW s \in Ended, End(c, s)
  PROVE  /\ call' \in [Calls -> CallState]
         /\ call'[c].step = s
         /\ \A b \in Calls \ {c} : call'[b] = call[b]
  <1> DEFINE v == [Idle EXCEPT !.step = s]
  <1>1. v \in CallState
    BY IdleIsState
  <1>2. v.step = s
    BY DEF Idle
  <1>3. call' = [call EXCEPT ![c] = v] /\ call \in [Calls -> CallState]
    BY DEF End, TypeOK, CallState
  <1> HIDE DEF v
  <1>4. QED
    BY <1>1, <1>2, <1>3

LEMMA GoGives ==
  ASSUME TypeOK, NEW c \in Calls, NEW s \in Running, Go(c, s)
  PROVE  /\ call' \in [Calls -> CallState]
         /\ call'[c].step = s /\ call'[c].feature = call[c].feature
         /\ call'[c].chain = call[c].chain /\ call'[c].at = call[c].at
         /\ call'[c].copy = call[c].copy
         /\ \A b \in Calls \ {c} : call'[b] = call[b]
  <1> DEFINE v == [call[c] EXCEPT !.step = s]
  <1>1. call \in [Calls -> CallState] /\ call' = [call EXCEPT ![c] = v]
    BY DEF Go, TypeOK, CallState
  <1>2. call[c] \in CallState
    BY <1>1
  <1>3. /\ v \in CallState /\ v.step = s
        /\ v.feature = call[c].feature /\ v.chain = call[c].chain /\ v.at = call[c].at /\ v.copy = call[c].copy
    BY <1>2 DEF CallState
  <1> HIDE DEF v
  <1>4. QED
    BY <1>1, <1>3

LEMMA AdvanceGives ==
  ASSUME TypeOK, NEW c \in Calls, NEW copy \in Nat, Advance(c, copy)
  PROVE  /\ call' \in [Calls -> CallState]
         /\ \/ call'[c].step = "unavailable"
            \/ /\ call'[c].step = "send" /\ call'[c].copy = copy
               /\ call'[c].chain = call[c].chain /\ call'[c].at \in DOMAIN call[c].chain
         /\ \A b \in Calls \ {c} : call'[b] = call[b]
  <1>1. CASE Ahead(c) = {}
    BY <1>1, EndGives DEF Advance
  <1>2. ASSUME NEW i \in Ahead(c),
               call' = [call EXCEPT ![c].step = "send", ![c].at = i, ![c].tries = 0, ![c].copy = copy]
        PROVE  /\ call' \in [Calls -> CallState]
               /\ call'[c].step = "send" /\ call'[c].copy = copy
               /\ call'[c].chain = call[c].chain /\ call'[c].at \in DOMAIN call[c].chain
               /\ \A b \in Calls \ {c} : call'[b] = call[b]
    <2>1. i \in DOMAIN call[c].chain /\ i \in -1 .. 2 * Last
      BY ChainElim, LastIsPositive DEF Ahead, TypeOK, CallState
    <2>2. call \in [Calls -> CallState]
      BY DEF TypeOK, CallState
    <2> DEFINE v == [call[c] EXCEPT !.step = "send", !.at = i, !.tries = 0, !.copy = copy]
    <2>3. call' = [call EXCEPT ![c] = v]
      BY <1>2, <2>2
    <2>4. /\ v \in CallState /\ v.step = "send" /\ v.copy = copy
          /\ v.chain = call[c].chain /\ v.at = i
      <3>1. 0 \in 0 .. MaxRetries /\ call[c] \in CallState
        BY <2>2, BoundsAssumption
      <3>2. QED
        BY <2>1, <3>1 DEF CallState
    <2> HIDE DEF v
    <2>5. QED
      BY <2>1, <2>2, <2>3, <2>4
  <1>3. QED
    BY <1>1, <1>2 DEF Advance

LEMMA TryAgainGives ==
  ASSUME TypeOK, NEW c \in Calls, TryAgain(c)
  PROVE  /\ call' \in [Calls -> CallState]
         /\ call'[c].step = "send" /\ call'[c].chain = call[c].chain
         /\ call'[c].at = call[c].at /\ call'[c].copy = call[c].copy
         /\ call[c].at \in DOMAIN call[c].chain
         /\ \A b \in Calls \ {c} : call'[b] = call[b]
  <1> DEFINE v == [call[c] EXCEPT !.step = "send", !.tries = Tried(c)]
  <1>1. call \in [Calls -> CallState] /\ call[c].at \in DOMAIN call[c].chain
    BY DEF TryAgain, TypeOK, CallState
  <1>2. Tried(c) \in 0 .. MaxRetries
    BY BoundsAssumption DEF TryAgain, Tried, TypeOK
  <1>3. call' = [call EXCEPT ![c] = v]
    BY <1>1 DEF TryAgain
  <1>4. /\ v \in CallState /\ v.step = "send" /\ v.chain = call[c].chain
        /\ v.at = call[c].at /\ v.copy = call[c].copy
    BY <1>1, <1>2 DEF CallState
  <1> HIDE DEF v
  <1>5. QED
    BY <1>1, <1>3, <1>4

\* A provider is reached only by its place in the chain.
LEMMA ProviderIsProvider ==
  ASSUME TypeOK, NEW c \in Calls, At(c, "send") \/ At(c, "wait") \/ At(c, "charge")
  PROVE  Provider(c) \in Providers /\ CostOf[Provider(c)] \in Nat
  <1>1. call[c].at \in DOMAIN call[c].chain /\ call[c].chain \in Chains
    BY DEF TypeOK, CallState
  <1>2. QED
    BY <1>1, ChainElim, ProvidersAssumption DEF Provider

\* A question that is asked.
LEMMA AskGives ==
  ASSUME TypeOK, NEW c \in Calls, NEW f \in Features, NEW choice \in Choices,
         NEW wanted \in CloudWanted, Ask(c, f, choice, wanted)
  PROVE  /\ call' \in [Calls -> CallState]
         /\ call[c].step = "idle" /\ call'[c].step \in {"denied", "review", "budget"}
         /\ \A b \in Calls \ {c} : call'[b] = call[b]
         /\ seen' = [seen EXCEPT ![c] = [from |-> Applied(f), granted |-> granted[f]]]
         /\ call'[c].step # "denied" =>
              \/ MayLeave([from |-> Applied(f), granted |-> granted[f]])
              \/ \A i \in DOMAIN call'[c].chain : call'[c].chain[i] \in Local
  <1> DEFINE d == Evaluate(f)
             cloud == wanted /\ CloudAllowed(d)
             chain == ChainFor(choice, cloud)
             v == [Idle EXCEPT !.feature = f, !.chain = chain,
                                !.step = IF d = "review" THEN "review" ELSE "budget"]
  <1>1. inForce \in SUBSET Rules /\ call \in [Calls -> CallState] /\ cloud \in BOOLEAN
    BY ProvidersAssumption DEF TypeOK, CallState, CloudAllowed
  <1>2. d \in Decisions /\ (CloudAllowed(d) => MayLeave([from |-> Applied(f), granted |-> granted[f]]))
    BY <1>1, EvaluateIsStrict
  <1>3. chain \in Chains /\ (~cloud => \A i \in DOMAIN chain : chain[i] \in Local)
    BY <1>1, ChainForIsChain
  <1>4. At(c, "idle") /\ seen' = [seen EXCEPT ![c] = [from |-> Applied(f), granted |-> granted[f]]]
    BY DEF Ask
  <1>5. CASE d = "deny"
    BY <1>4, <1>5, EndGives DEF Ask, At
  <1>6. CASE d # "deny"
    <2>1. call' = [call EXCEPT ![c] = v]
      BY <1>6 DEF Ask
    <2>2. v \in CallState /\ v.chain = chain /\ v.step \in {"review", "budget"}
      <3>1. [Idle EXCEPT !.step = "idle"] \in CallState
        BY IdleIsState
      <3> HIDE DEF chain
      <3>2. QED
        BY <1>3, <3>1 DEF CallState, Idle
    <2> HIDE DEF v, chain
    <2>3. \/ MayLeave([from |-> Applied(f), granted |-> granted[f]])
          \/ \A i \in DOMAIN chain : chain[i] \in Local
      BY <1>2, <1>3
    <2>4. QED
      BY <1>1, <1>4, <2>1, <2>2, <2>3 DEF At
  <1>7. QED
    BY <1>5, <1>6

\* A record is written or its failure is swallowed; no other record changes.
LEMMA LoggedGives ==
  ASSUME TypeOK, NEW c \in Calls, NEW o \in Outcomes, Provider(c) \in Providers, Logged(c, o)
  PROVE  /\ log' \in SUBSET (Calls \X Providers \X Outcomes)
         /\ unlogged' \in SUBSET (Calls \X Providers)
         /\ <<c, Provider(c), o>> \in log' \/ <<c, Provider(c)>> \in unlogged'
         /\ log \subseteq log' /\ unlogged \subseteq unlogged'
         /\ log' \subseteq log \cup {<<c, Provider(c), o>>}
  <1>1. CASE log' = log \cup {<<c, Provider(c), o>>} /\ UNCHANGED unlogged
    BY <1>1 DEF TypeOK
  <1>2. CASE unlogged' = unlogged \cup {<<c, Provider(c)>>} /\ UNCHANGED log
    BY <1>2 DEF TypeOK
  <1>3. QED
    BY <1>1, <1>2 DEF Logged

LEMMA ReceiptedGives ==
  ASSUME TypeOK, NEW c \in Calls, NEW o \in {"blocked", "success"}, Receipted(c, o)
  PROVE  /\ receipts' \in SUBSET (Calls \X {"blocked", "success"})
         /\ unreceipted' \in SUBSET Calls
         /\ <<c, o>> \in receipts' \/ c \in unreceipted'
         /\ receipts \subseteq receipts' /\ unreceipted \subseteq unreceipted'
  <1>1. CASE receipts' = receipts \cup {<<c, o>>} /\ UNCHANGED unreceipted
    BY <1>1 DEF TypeOK
  <1>2. CASE unreceipted' = unreceipted \cup {c} /\ UNCHANGED receipts
    BY <1>2 DEF TypeOK
  <1>3. QED
    BY <1>1, <1>2 DEF Receipted

LEMMA TypeStep == TypeOK /\ [Next]_vars => TypeOK'
  <1> SUFFICES ASSUME TypeOK, [Next]_vars PROVE TypeOK'
    OBVIOUS
  <1> DEFINE Placed == \A c \in Calls : At(c, "send") \/ At(c, "wait") \/ At(c, "charge")
                                          => call[c].at \in DOMAIN call[c].chain
  <1>1. ASSUME NEW c \in Calls, NEW f \in Features, NEW choice \in Choices,
               NEW wanted \in CloudWanted, Ask(c, f, choice, wanted)
        PROVE  TypeOK'
    <2>1. call' \in [Calls -> CallState] /\ Placed'
      BY <1>1, AskGives DEF TypeOK, At
    <2>2. seen' \in [Calls -> [from : SUBSET Decisions, granted : BOOLEAN]]
      <3>1. Applied(f) \in SUBSET Decisions /\ granted[f] \in BOOLEAN
        BY AppliedAreDecisions DEF TypeOK
      <3> DEFINE v == [from |-> Applied(f), granted |-> granted[f]]
      <3>2. v \in [from : SUBSET Decisions, granted : BOOLEAN]
        BY <3>1
      <3>3. seen' = [seen EXCEPT ![c] = v]
        BY <1>1, AskGives
      <3> HIDE DEF v
      <3>4. QED
        BY <3>2, <3>3 DEF TypeOK
    <2>3. /\ receipts' \in SUBSET (Calls \X {"blocked", "success"})
          /\ unreceipted' \in SUBSET Calls
      <3>1. Receipted(c, "blocked") \/ UNCHANGED receiptVars
        BY <1>1 DEF Ask
      <3>2. QED
        BY <3>1, ReceiptedGives DEF TypeOK
    <2>4. QED
      BY <1>1, <2>1, <2>2, <2>3 DEF Ask, TypeOK, CallState, policyVars, boundVars
  <1>2. ASSUME NEW c \in Calls, FindReview(c) PROVE TypeOK'
    <2>1. call' \in [Calls -> CallState] /\ Placed'
      BY <1>2, EndGives, GoGives DEF FindReview, TypeOK, At
    <2>2. QED
      BY <1>2, <2>1 DEF FindReview, TypeOK, CallState, policyVars, boundVars, historyVars
  <1>3. ASSUME NEW c \in Calls, FileReview(c) PROVE TypeOK'
    <2>1. call' \in [Calls -> CallState] /\ Placed'
      BY <1>3, GoGives DEF FileReview, TypeOK, At
    <2>2. pending' \in [Features -> Nat]
      <3> DEFINE x == call[c].feature
      <3>1. pending' = [pending EXCEPT ![x] = pending[x] + 1] /\ pending \in [Features -> Nat]
        BY <1>3 DEF FileReview, TypeOK
      <3> HIDE DEF x
      <3>2. \A f \in Features : pending'[f] = IF f = x THEN pending[x] + 1 ELSE pending[f]
        BY <3>1
      <3>3. \A f \in Features : pending'[f] \in Nat
        <4> SUFFICES ASSUME NEW f \in Features PROVE pending'[f] \in Nat
          OBVIOUS
        <4>1. CASE f = x
          BY <3>1, <3>2, <4>1
        <4>2. CASE f # x
          BY <3>1, <3>2, <4>2
        <4>3. QED
          BY <4>1, <4>2
      <3>4. QED
        BY <3>1, <3>3
    <2>3. QED
      BY <1>3, <2>1, <2>2 DEF FileReview, TypeOK, CallState, boundVars, historyVars
  <1>4. ASSUME NEW c \in Calls, LoadBudget(c) PROVE TypeOK'
    <2>1. call' \in [Calls -> CallState] /\ Placed'
      BY <1>4, AdvanceGives DEF LoadBudget, TypeOK, At
    <2>2. QED
      BY <1>4, <2>1 DEF LoadBudget, TypeOK, CallState, policyVars, boundVars
  <1>5. ASSUME NEW c \in Calls, Blocked(c) \/ Cancelled(c) \/ Fails(c) PROVE TypeOK'
    <2>1. call[c].copy \in Nat
      BY DEF TypeOK, CallState
    <2>2. call' \in [Calls -> CallState] /\ Placed'
      BY <1>5, <2>1, AdvanceGives, EndGives DEF Blocked, Cancelled, Fails, TypeOK, At
    <2>3. /\ log' \in SUBSET (Calls \X Providers \X Outcomes)
          /\ unlogged' \in SUBSET (Calls \X Providers)
      <3>1. Provider(c) \in Providers
        BY <1>5, ProviderIsProvider DEF Blocked, Cancelled, Fails
      <3>2. \E o \in Outcomes : Logged(c, o)
        BY <1>5 DEF Blocked, Cancelled, Fails
      <3>3. QED
        BY <3>1, <3>2, LoggedGives
    <2>4. QED
      BY <1>5, <2>2, <2>3 DEF Blocked, Cancelled, Fails, TypeOK, CallState, policyVars, boundVars, historyVars
  <1>6. ASSUME NEW c \in Calls, Send(c) PROVE TypeOK'
    <2>1. call' \in [Calls -> CallState] /\ Placed'
      BY <1>6, GoGives DEF Send, TypeOK, At
    <2>2. sent' \in [Calls -> SUBSET Providers]
      BY <1>6, ProviderIsProvider DEF Send, TypeOK
    <2>3. QED
      BY <1>6, <2>1, <2>2 DEF Send, TypeOK, CallState, policyVars, boundVars
  <1>7. ASSUME NEW c \in Calls, TryAgain(c) PROVE TypeOK'
    <2>1. call' \in [Calls -> CallState] /\ Placed'
      BY <1>7, TryAgainGives DEF TypeOK, At
    <2>2. QED
      BY <1>7, <2>1 DEF TryAgain, TypeOK, CallState, policyVars, boundVars, historyVars
  <1>8. ASSUME NEW c \in Calls, Answers(c) PROVE TypeOK'
    <2>1. call' \in [Calls -> CallState] /\ Placed'
      BY <1>8, GoGives DEF Answers, TypeOK, At
    <2>2. /\ log' \in SUBSET (Calls \X Providers \X Outcomes)
          /\ unlogged' \in SUBSET (Calls \X Providers) /\ total' \in Nat
      <3>1. /\ Provider(c) \in Providers /\ CostOf[Provider(c)] \in Nat
            /\ Logged(c, "success") /\ total' = total + CostOf[Provider(c)]
        BY <1>8, ProviderIsProvider DEF Answers
      <3>2. /\ log' \in SUBSET (Calls \X Providers \X Outcomes)
            /\ unlogged' \in SUBSET (Calls \X Providers)
        BY <3>1, LoggedGives
      <3>3. QED
        BY <3>1, <3>2 DEF TypeOK
    <2>3. QED
      BY <1>8, <2>1, <2>2 DEF Answers, TypeOK, CallState, policyVars, boundVars
  <1>9. ASSUME NEW c \in Calls, Charge(c) PROVE TypeOK'
    <2>1. call' \in [Calls -> CallState] /\ Placed'
      BY <1>9, GoGives DEF Charge, TypeOK, At
    <2>2. spent' \in Nat
      BY <1>9, ProviderIsProvider DEF Charge, Charged, TypeOK
    <2>3. QED
      BY <1>9, <2>1, <2>2 DEF Charge, TypeOK, CallState, policyVars, boundVars, historyVars
  <1>10. ASSUME NEW c \in Calls, RecordOutcome(c) PROVE TypeOK'
    <2>1. call' \in [Calls -> CallState] /\ Placed'
      BY <1>10, EndGives DEF RecordOutcome, TypeOK, At
    <2>2. /\ receipts' \in SUBSET (Calls \X {"blocked", "success"})
          /\ unreceipted' \in SUBSET Calls
      BY <1>10, ReceiptedGives DEF RecordOutcome
    <2>3. QED
      BY <1>10, <2>1, <2>2 DEF RecordOutcome, TypeOK, CallState, policyVars, boundVars, historyVars
  <1>11. ASSUME NEW c \in Calls, Cancel(c) PROVE TypeOK'
    BY <1>11, BoundsAssumption DEF Cancel, InFlight, TypeOK, At, policyVars, historyVars
  <1>12. ASSUME NEW c \in Calls, Kill(c) PROVE TypeOK'
    <2>1. call' \in [Calls -> CallState] /\ Placed'
      BY <1>12, EndGives DEF Kill, TypeOK, At
    <2>2. QED
      BY <1>12, <2>1, BoundsAssumption DEF Kill, TypeOK, CallState, policyVars, historyVars
  <1>13. ASSUME NEW r \in Rules, ChangeRule(r) PROVE TypeOK'
    BY <1>13, BoundsAssumption DEF ChangeRule, TypeOK, At, historyVars
  <1>14. ASSUME NEW f \in Features, Expire(f) \/ \E approve \in BOOLEAN : Decide(f, approve)
         PROVE  TypeOK'
    <2>1. CASE Expire(f)
      BY <2>1 DEF Expire, TypeOK, At, historyVars, boundVars
    <2>2. ASSUME NEW approve \in BOOLEAN, Decide(f, approve) PROVE TypeOK'
      <3>1. pending' \in [Features -> Nat]
        <4>1. pending[f] - 1 \in Nat
          BY <2>2 DEF Decide, TypeOK
        <4>2. QED
          BY <2>2, <4>1 DEF Decide, TypeOK
      <3>2. granted' \in [Features -> BOOLEAN]
        <4> DEFINE g == granted[f] \/ approve
        <4>1. granted' = [granted EXCEPT ![f] = g] /\ g \in BOOLEAN
          BY <2>2 DEF Decide, TypeOK
        <4> HIDE DEF g
        <4>2. QED
          BY <4>1 DEF TypeOK
      <3>3. QED
        BY <2>2, <3>1, <3>2 DEF Decide, TypeOK, At, historyVars, boundVars
    <2>3. QED
      BY <1>14, <2>1, <2>2
  <1>15. CASE UNCHANGED vars
    BY <1>15 DEF vars, policyVars, historyVars, boundVars, TypeOK, At
  <1>16. QED
    BY <1>1, <1>2, <1>3, <1>4, <1>5, <1>6, <1>7, <1>8, <1>9, <1>10, <1>11, <1>12, <1>13, <1>14, <1>15
       DEF Next, GoOn
-----------------------------------------------------------------------------
(* The invariant.                                                          *)

\* A call that is not asked yet was sent nowhere; one on its way may go down
\* its whole chain.
OnItsWay ==
  \A c \in Calls :
    /\ At(c, "idle") => sent[c] = {}
    /\ call[c].step \in Running =>
         MayLeave(seen[c]) \/ \A i \in DOMAIN call[c].chain : call[c].chain[i] \in Local

\* What was sent is in the log, or its row was lost, but for the provider that
\* is waited for.
InLog(c, p) == (\E o \in Outcomes : <<c, p, o>> \in log) \/ <<c, p>> \in unlogged
Asking(c)   == At(c, "send") \/ At(c, "wait")
LoggedOrAsking ==
  \A c \in Calls : ~At(c, "killed") =>
    \A p \in sent[c] : InLog(c, p) \/ (Asking(c) /\ p = Provider(c))

\* The log shows a success only of a call that has its answer, and how a call
\* ended is in its receipt or the receipt was lost.
Recorded ==
  \A c \in Calls :
    /\ \A p \in Providers :
         <<c, p, "success">> \in log => call[c].step \in {"charge", "receipt", "answered", "killed"}
    /\ c \notin unreceipted =>
         /\ At(c, "answered") => <<c, "success">> \in receipts
         /\ At(c, "denied") => <<c, "blocked">> \in receipts

\* No copy of the budget, with what is still to be charged to it, is above
\* the log, and one that was sent to the cloud was below the limit.
CopiesBehind ==
  /\ spent <= total
  /\ \A c \in Calls :
       /\ Asking(c) => call[c].copy <= total
       /\ At(c, "charge") => Charged(c) <= total
       /\ At(c, "wait") /\ IsCloud(Provider(c)) /\ Limit > 0 => call[c].copy < Limit

\* Without overlap one call holds the budget, and its copy is the row.
OneHolder ==
  ~overlapped => \A a, b \in Holding : a = b /\ call[a].copy = spent
\* Then the row lacks what is to be charged, and nothing else.
NothingLost ==
  ~overlapped /\ faults = 0 =>
    /\ (\A c \in Calls : ~At(c, "charge")) => spent = total
    /\ \A c \in Calls : At(c, "charge") => Charged(c) = total
Allowed == OnItsWay /\ CloudOnlyIfAllowed
LimitKept ==
  ~overlapped /\ faults = 0 /\ Limit > 0 => total = 0 \/ \E p \in Providers : total < Limit + CostOf[p]
Budget  == CopiesBehind /\ OneHolder /\ NothingLost /\ LimitKept

\* What the thread of a call does to it, whatever the step: it stays on its
\* chain, and the other calls are left alone.
LEMMA GoOnGives ==
  ASSUME TypeOK, NEW c \in Calls, GoOn(c) \/ Kill(c)
  PROVE  /\ call' \in [Calls -> CallState]
         /\ call[c].step \in Running /\ call'[c].step \in Running \cup Ended
         /\ call'[c].step \in Running => call'[c].chain = call[c].chain
         /\ \A b \in Calls \ {c} : call'[b] = call[b]
         /\ seen' = seen
  <1>1. call \in [Calls -> CallState] /\ spent \in Nat /\ call[c].copy \in Nat
    BY DEF TypeOK, CallState
  <1>2. CASE FindReview(c)
    BY <1>2, EndGives, GoGives DEF FindReview, At, historyVars
  <1>3. CASE FileReview(c)
    BY <1>3, GoGives DEF FileReview, At, historyVars
  <1>4. CASE LoadBudget(c)
    BY <1>4, <1>1, AdvanceGives DEF LoadBudget, At
  <1>5. CASE Blocked(c)
    BY <1>5, <1>1, AdvanceGives DEF Blocked, At, historyVars
  <1>6. CASE Cancelled(c)
    BY <1>6, EndGives DEF Cancelled, At, historyVars
  <1>7. CASE Send(c)
    BY <1>7, GoGives DEF Send, At
  <1>8. CASE TryAgain(c)
    <2>1. /\ call' \in [Calls -> CallState] /\ call'[c].step = "send"
          /\ call'[c].chain = call[c].chain
          /\ \A b \in Calls \ {c} : call'[b] = call[b]
      BY <1>8, TryAgainGives
    <2>2. QED
      BY <1>8, <2>1 DEF TryAgain, At, historyVars
  <1>9. CASE Fails(c)
    BY <1>9, <1>1, AdvanceGives DEF Fails, At, historyVars
  <1>10. CASE Answers(c)
    BY <1>10, GoGives DEF Answers, At
  <1>11. CASE Charge(c)
    BY <1>11, GoGives DEF Charge, At, historyVars
  <1>12. CASE RecordOutcome(c)
    BY <1>12, EndGives DEF RecordOutcome, At, historyVars
  <1>13. CASE Kill(c)
    BY <1>13, EndGives DEF Kill, InFlight, historyVars
  <1>14. QED
    BY <1>2, <1>3, <1>4, <1>5, <1>6, <1>7, <1>8, <1>9, <1>10, <1>11, <1>12, <1>13 DEF GoOn

\* Every step asks a question, is one of its thread, or leaves the calls alone.
Elsewhere ==
  UNCHANGED <<spent, logVars, receiptVars, call, historyVars>> /\ (faults' = 0 => faults = 0)

LEMMA ThreeKinds ==
  ASSUME TypeOK, [Next]_vars
  PROVE  \/ \E c \in Calls, f \in Features, choice \in Choices, wanted \in CloudWanted :
              Ask(c, f, choice, wanted)
         \/ \E c \in Calls : GoOn(c) \/ Kill(c)
         \/ Elsewhere
  <1>1. ASSUME NEW c \in Calls, Cancel(c) PROVE Elsewhere
    BY <1>1 DEF Cancel, Elsewhere, historyVars, TypeOK
  <1>2. ASSUME NEW r \in Rules, ChangeRule(r) PROVE Elsewhere
    BY <1>2 DEF ChangeRule, Elsewhere, historyVars
  <1>3. ASSUME NEW f \in Features, Expire(f) PROVE Elsewhere
    BY <1>3 DEF Expire, Elsewhere, historyVars, boundVars
  <1>4. ASSUME NEW f \in Features, NEW approve \in BOOLEAN, Decide(f, approve) PROVE Elsewhere
    BY <1>4 DEF Decide, Elsewhere, historyVars, boundVars
  <1>5. CASE UNCHANGED vars
    BY <1>5 DEF vars, Elsewhere, historyVars, boundVars
  <1>6. QED
    BY <1>1, <1>2, <1>3, <1>4, <1>5 DEF Next

\* A call goes down the chain it was given, and the chain was cut to local
\* providers unless the data may leave.
LEMMA AllowedStep == TypeOK /\ Allowed /\ [Next]_vars => Allowed'
  <1> SUFFICES ASSUME TypeOK, Allowed, [Next]_vars PROVE Allowed'
    OBVIOUS
  <1> USE DEF Allowed, OnItsWay, CloudOnlyIfAllowed, At
  <1>1. ASSUME NEW c \in Calls, NEW f \in Features, NEW choice \in Choices,
               NEW wanted \in CloudWanted, Ask(c, f, choice, wanted)
        PROVE  Allowed'
    <2> DEFINE v == [from |-> Applied(f), granted |-> granted[f]]
    <2>1. /\ seen' = [seen EXCEPT ![c] = v] /\ sent' = sent
          /\ call[c].step = "idle" /\ call'[c].step \in {"denied", "review", "budget"}
          /\ call'[c].step # "denied" =>
               MayLeave(v) \/ \A i \in DOMAIN call'[c].chain : call'[c].chain[i] \in Local
          /\ \A b \in Calls \ {c} : call'[b] = call[b]
      BY <1>1, AskGives DEF Ask
    <2> HIDE DEF v
    <2>2. seen'[c] = v /\ \A b \in Calls \ {c} : seen'[b] = seen[b]
      BY <2>1 DEF TypeOK
    <2>3. sent[c] = {}
      BY <2>1
    <2>4. QED
      BY <2>1, <2>2, <2>3 DEF MayLeave
  <1>2. ASSUME NEW c \in Calls, GoOn(c) \/ Kill(c) PROVE Allowed'
    <2>1. sent' = sent \/ (Send(c) /\ sent' = [sent EXCEPT ![c] = @ \cup {Provider(c)}])
      BY <1>2 DEF GoOn, FindReview, FileReview, LoadBudget, Blocked, Cancelled, Send, TryAgain, Fails,
                  Answers, Charge, RecordOutcome, Kill, historyVars
    <2>2. OnItsWay'
      BY <1>2, <2>1, GoOnGives DEF TypeOK, MayLeave
    <2>3. CloudOnlyIfAllowed'
      <3>1. CASE sent' = sent
        BY <1>2, <3>1, GoOnGives DEF MayLeave
      <3>2. CASE Send(c) /\ sent' = [sent EXCEPT ![c] = @ \cup {Provider(c)}]
        <4>1. call[c].step = "send" /\ call[c].at \in DOMAIN call[c].chain
          BY <3>2 DEF Send, TypeOK
        <4>2. MayLeave(seen[c]) \/ Provider(c) \in Local
          BY <4>1 DEF Provider
        <4>3. seen' = seen
          BY <1>2, GoOnGives
        <4>4. QED
          BY <3>2, <4>2, <4>3 DEF TypeOK, MayLeave
      <3>3. QED
        BY <2>1, <3>1, <3>2
    <2>4. QED
      BY <2>2, <2>3
  <1>3. CASE Elsewhere
    BY <1>3 DEF Elsewhere, historyVars, MayLeave
  <1>4. QED
    BY <1>1, <1>2, <1>3, ThreeKinds

\* The log only grows, and gets a line before the next provider is tried.
LEMMA LoggedStep == TypeOK /\ OnItsWay /\ LoggedOrAsking /\ [Next]_vars => LoggedOrAsking'
  <1> SUFFICES ASSUME TypeOK, OnItsWay, LoggedOrAsking, [Next]_vars PROVE LoggedOrAsking'
    OBVIOUS
  <1>1. ASSUME NEW c \in Calls, NEW f \in Features, NEW choice \in Choices,
               NEW wanted \in CloudWanted, Ask(c, f, choice, wanted)
        PROVE  LoggedOrAsking'
    <2>1. /\ log' = log /\ unlogged' = unlogged /\ sent' = sent /\ sent[c] = {}
          /\ \A b \in Calls \ {c} : call'[b] = call[b]
      BY <1>1, AskGives DEF Ask, OnItsWay, At
    <2>2. QED
      BY <2>1 DEF LoggedOrAsking, InLog, Asking, At, Provider
  <1>2. ASSUME NEW c \in Calls, GoOn(c) \/ Kill(c) PROVE LoggedOrAsking'
    <2>1. /\ call[c].step \in Running
          /\ \A b \in Calls \ {c} : call'[b] = call[b]
      BY <1>2, GoOnGives
    <2>2. \A b \in Calls, p \in Providers : InLog(b, p) => InLog(b, p)'
      BY <1>2 DEF InLog, GoOn, FindReview, FileReview, LoadBudget, Blocked, Cancelled, Send, TryAgain, Fails,
                  Answers, Charge, RecordOutcome, Kill, Logged, historyVars
    <2>3. \A b \in Calls \ {c} : sent'[b] = sent[b]
      BY <1>2 DEF GoOn, FindReview, FileReview, LoadBudget, Blocked, Cancelled, Send, TryAgain, Fails,
                  Answers, Charge, RecordOutcome, Kill, historyVars, TypeOK
    <2>4. ASSUME NEW p \in sent'[c], ~At(c, "killed")'
          PROVE  InLog(c, p)' \/ (Asking(c)' /\ p = Provider(c)')
      <3>1. CASE Send(c)
        <4>1. /\ sent'[c] = sent[c] \cup {Provider(c)} /\ At(c, "wait")' /\ Provider(c)' = Provider(c)
              /\ At(c, "send") /\ Provider(c) \in Providers
          BY <3>1, GoGives, ProviderIsProvider DEF Send, TypeOK, At, Provider
        <4>2. p \in sent[c] => InLog(c, p) \/ p = Provider(c)
          BY <4>1 DEF LoggedOrAsking, At
        <4>3. QED
          BY <2>2, <4>1, <4>2 DEF Asking, TypeOK
      <3>2. CASE TryAgain(c)
        <4>1. /\ sent' = sent /\ At(c, "send")' /\ Provider(c)' = Provider(c) /\ At(c, "wait")
          BY <3>2, TryAgainGives DEF TryAgain, At, Provider, historyVars
        <4>2. InLog(c, p) \/ p = Provider(c)
          BY <4>1 DEF LoggedOrAsking, At
        <4>3. QED
          BY <2>2, <4>1, <4>2 DEF Asking, TypeOK
      <3>3. CASE Blocked(c) \/ Cancelled(c) \/ Fails(c) \/ Answers(c)
        <4>1. sent' = sent /\ Asking(c) /\ ~At(c, "killed")
          BY <3>3 DEF Blocked, Cancelled, Fails, Answers, Asking, At, historyVars
        <4>2. p \in Providers /\ (InLog(c, p) \/ p = Provider(c))
          BY <4>1 DEF LoggedOrAsking, TypeOK
        <4>3. (\E o \in Outcomes : <<c, Provider(c), o>> \in log') \/ <<c, Provider(c)>> \in unlogged'
          BY <3>3 DEF Blocked, Cancelled, Fails, Answers, Logged
        <4>4. QED
          BY <2>2, <4>2, <4>3 DEF InLog
      <3>4. CASE FindReview(c) \/ FileReview(c) \/ LoadBudget(c) \/ Charge(c) \/ RecordOutcome(c)
        <4>1. sent' = sent /\ ~Asking(c) /\ ~At(c, "killed")
          BY <3>4 DEF FindReview, FileReview, LoadBudget, Charge, RecordOutcome, Asking, At, historyVars
        <4>2. p \in Providers /\ InLog(c, p)
          BY <4>1 DEF LoggedOrAsking, TypeOK
        <4>3. QED
          BY <2>2, <4>2
      <3>5. CASE Kill(c)
        BY <2>4, <3>5, EndGives DEF Kill, At
      <3>6. QED
        BY <1>2, <3>1, <3>2, <3>3, <3>4, <3>5 DEF GoOn
    <2>5. ASSUME NEW b \in Calls \ {c}, NEW p \in sent'[b], ~At(b, "killed")'
          PROVE  InLog(b, p)' \/ (Asking(b)' /\ p = Provider(b)')
      <3>1. p \in sent[b] /\ call'[b] = call[b] /\ p \in Providers
        BY <2>1, <2>3, <2>5 DEF TypeOK
      <3>2. InLog(b, p) \/ (Asking(b) /\ p = Provider(b))
        BY <2>5, <3>1 DEF LoggedOrAsking, At
      <3>3. QED
        BY <2>2, <3>1, <3>2 DEF Asking, At, Provider
    <2>6. QED
      BY <2>4, <2>5 DEF LoggedOrAsking
  <1>3. CASE Elsewhere
    BY <1>3 DEF Elsewhere, historyVars, LoggedOrAsking, InLog, Asking, At, Provider
  <1>4. QED
    BY <1>1, <1>2, <1>3, ThreeKinds

\* Only an answer is logged as a success, and what ends a call writes its
\* receipt in the same step.
LEMMA RecordedStep == TypeOK /\ Recorded /\ [Next]_vars => Recorded'
  <1> SUFFICES ASSUME TypeOK, Recorded, [Next]_vars PROVE Recorded'
    OBVIOUS
  <1>1. ASSUME NEW c \in Calls, NEW f \in Features, NEW choice \in Choices,
               NEW wanted \in CloudWanted, Ask(c, f, choice, wanted)
        PROVE  Recorded'
    <2>1. /\ log' = log /\ call[c].step = "idle" /\ call'[c].step \in {"denied", "review", "budget"}
          /\ \A b \in Calls \ {c} : call'[b] = call[b]
      BY <1>1, AskGives DEF Ask
    <2>2. /\ receipts \subseteq receipts' /\ unreceipted \subseteq unreceipted'
          /\ call'[c].step = "denied" => <<c, "blocked">> \in receipts' \/ c \in unreceipted'
      <3>1. CASE Evaluate(f) = "deny"
        BY <1>1, <3>1, ReceiptedGives DEF Ask
      <3>2. CASE Evaluate(f) # "deny"
        <4>1. call'[c].step # "denied"
          <5>1. call' = [call EXCEPT ![c] = [Idle EXCEPT !.feature = f,
                  !.chain = ChainFor(choice, wanted /\ CloudAllowed(Evaluate(f))),
                  !.step = IF Evaluate(f) = "review" THEN "review" ELSE "budget"]]
            BY <1>1, <3>2 DEF Ask
          <5>2. QED
            BY <5>1 DEF TypeOK, Idle
        <4>2. QED
          BY <1>1, <3>2, <4>1 DEF Ask
      <3>3. QED
        BY <3>1, <3>2
    <2>3. QED
      BY <2>1, <2>2 DEF Recorded, At
  <1>2. ASSUME NEW c \in Calls, GoOn(c) \/ Kill(c) PROVE Recorded'
    <2>1. /\ call[c].step \in Running
          /\ \A b \in Calls \ {c} : call'[b] = call[b]
      BY <1>2, GoOnGives
    <2>2. CASE Answers(c)
      <3>1. /\ receipts' = receipts /\ unreceipted' = unreceipted /\ Logged(c, "success")
            /\ Provider(c) \in Providers
        BY <2>2, ProviderIsProvider DEF Answers
      <3>2. log' \subseteq log \cup {<<c, Provider(c), "success">>}
        BY <3>1, LoggedGives
      <3>3. call'[c].step \in {"charge", "receipt"}
        BY <2>2, GoGives DEF Answers
      <3>4. QED
        BY <2>1, <3>1, <3>2, <3>3 DEF Recorded, At
    <2>3. CASE RecordOutcome(c)
      <3>1. /\ log' = log /\ Receipted(c, "success") /\ call'[c].step = "answered"
        BY <2>3, EndGives DEF RecordOutcome
      <3>2. QED
        BY <2>1, <3>1, ReceiptedGives DEF Recorded, At
    <2>4. CASE Charge(c) \/ Kill(c)
      <3>1. /\ log' = log /\ receipts' = receipts /\ unreceipted' = unreceipted
            /\ call'[c].step \in {"receipt", "killed"}
        BY <2>4, GoGives, EndGives DEF Charge, Kill
      <3>2. QED
        BY <2>1, <3>1 DEF Recorded, At
    <2>5. CASE Blocked(c) \/ Cancelled(c) \/ Fails(c)
      <3>1. /\ receipts' = receipts /\ unreceipted' = unreceipted
            /\ call[c].step \in {"send", "wait"} /\ Provider(c) \in Providers
        BY <2>5, ProviderIsProvider DEF Blocked, Cancelled, Fails, At
      <3>2. \E o \in Outcomes \ {"success"} : Logged(c, o)
        BY <2>5 DEF Blocked, Cancelled, Fails
      <3>3. \A b \in Calls, p \in Providers : <<b, p, "success">> \in log' => <<b, p, "success">> \in log
        BY <3>1, <3>2, LoggedGives
      <3>4. call'[c].step \notin {"answered", "denied"}
        <4>1. call[c].copy \in Nat
          BY DEF TypeOK
        <4>2. QED
          BY <2>5, <4>1, AdvanceGives, EndGives DEF Blocked, Cancelled, Fails
      <3>5. QED
        BY <2>1, <3>1, <3>3, <3>4 DEF Recorded, At
    <2>6. CASE FindReview(c) \/ FileReview(c) \/ LoadBudget(c) \/ Send(c) \/ TryAgain(c)
      <3>1. /\ log' = log /\ receipts' = receipts /\ unreceipted' = unreceipted
            /\ call[c].step \in {"review", "file", "budget", "send", "wait"}
        BY <2>6 DEF FindReview, FileReview, LoadBudget, Send, TryAgain, At
      <3>2. call'[c].step \notin {"answered", "denied"}
        <4>1. spent \in Nat
          BY DEF TypeOK
        <4>2. QED
          BY <2>6, <4>1, AdvanceGives, EndGives, GoGives, TryAgainGives
             DEF FindReview, FileReview, LoadBudget, Send
      <3>3. QED
        BY <2>1, <3>1, <3>2 DEF Recorded, At
    <2>7. QED
      BY <1>2, <2>2, <2>3, <2>4, <2>5, <2>6 DEF GoOn
  <1>3. CASE Elsewhere
    BY <1>3 DEF Elsewhere, Recorded, At
  <1>4. QED
    BY <1>1, <1>2, <1>3, ThreeKinds

LEMMA OthersAlike ==
  ASSUME NEW b \in Calls, call'[b] = call[b]
  PROVE  /\ Asking(b)' = Asking(b) /\ Provider(b)' = Provider(b) /\ Charged(b)' = Charged(b)
         /\ \A s : At(b, s)' = At(b, s)
  BY DEF Asking, At, Provider, Charged

\* A call that gives its copy of the budget up, or goes on asking with it.
LEMMA BudgetFrame ==
  ASSUME TypeOK, Budget, NEW c \in Calls,
         \A b \in Calls \ {c} : call'[b] = call[b],
         UNCHANGED <<spent, total>>, overlapped => overlapped', faults' = 0 => faults = 0,
         \/ /\ call'[c].step \notin {"send", "wait", "charge"}
            /\ At(c, "charge") => faults' # 0
         \/ /\ Asking(c) /\ Asking(c)' /\ call'[c].copy = call[c].copy
            /\ (At(c, "wait") /\ IsCloud(Provider(c)) /\ Limit > 0 => call[c].copy < Limit)'
  PROVE  Budget'
  <1> USE DEF Budget
  <1>1. \A b \in Calls \ {c} :
          /\ Asking(b)' = Asking(b) /\ Provider(b)' = Provider(b) /\ Charged(b)' = Charged(b)
          /\ \A s : At(b, s)' = At(b, s)
    BY OthersAlike
  <1>2. /\ At(c, "charge")' => FALSE
        /\ Asking(c)' => Asking(c) /\ call'[c].copy = call[c].copy
        /\ (At(c, "wait") /\ IsCloud(Provider(c)) /\ Limit > 0 => call[c].copy < Limit)'
    BY DEF Asking, At
  <1>3. CopiesBehind'
    <2>1. ASSUME NEW b \in Calls
          PROVE  /\ (Asking(b) => call[b].copy <= total)'
                 /\ (At(b, "charge") => Charged(b) <= total)'
                 /\ (At(b, "wait") /\ IsCloud(Provider(b)) /\ Limit > 0 => call[b].copy < Limit)'
      <3>1. CASE b = c
        BY <1>2, <3>1 DEF CopiesBehind
      <3>2. CASE b # c
        <4>1. /\ Asking(b) => call[b].copy <= total
              /\ At(b, "charge") => Charged(b) <= total
              /\ At(b, "wait") /\ IsCloud(Provider(b)) /\ Limit > 0 => call[b].copy < Limit
          BY DEF CopiesBehind
        <4>2. call'[b] = call[b] /\ Asking(b)' = Asking(b) /\ Provider(b)' = Provider(b)
              /\ Charged(b)' = Charged(b) /\ At(b, "wait")' = At(b, "wait") /\ At(b, "charge")' = At(b, "charge")
          BY <1>1, <3>2
        <4>3. QED
          BY <4>1, <4>2 DEF IsCloud
      <3>3. QED
        BY <3>1, <3>2
    <2>2. (spent <= total)'
      BY DEF CopiesBehind
    <2>3. QED
      BY <2>1, <2>2 DEF CopiesBehind
  <1>4. OneHolder'
    <2>1. Holding' \subseteq Holding /\ \A a \in Holding' : call'[a].copy = call[a].copy
      BY <1>2 DEF Holding, Asking, At
    <2>2. QED
      BY <2>1 DEF OneHolder
  <1>5. NothingLost'
    <2>1. ASSUME faults' = 0
          PROVE  \A b \in Calls : At(b, "charge")' = At(b, "charge")
                                  /\ (At(b, "charge")' => Charged(b)' = Charged(b))
      BY <1>1, <2>1 DEF Asking, At
    <2>2. QED
      BY <2>1 DEF NothingLost
  <1>6. LimitKept'
    BY DEF LimitKept
  <1>7. QED
    BY <1>3, <1>4, <1>5, <1>6

\* Without overlap a call that reads the budget is the only one to hold it,
\* until it has written it back; overlapping calls write back less than what
\* was logged, because a copy is never above the log.
LEMMA BudgetStep == TypeOK /\ Budget /\ [Next]_vars => Budget'
  <1> SUFFICES ASSUME TypeOK, Budget, [Next]_vars PROVE Budget'
    OBVIOUS
  <1>0. /\ spent \in Nat /\ total \in Nat /\ Limit \in Nat /\ faults \in Nat /\ overlapped \in BOOLEAN
        /\ \A b \in Calls : call[b].copy \in Nat
        /\ \A b \in Calls : Asking(b) \/ At(b, "charge") => CostOf[Provider(b)] \in Nat
    BY BoundsAssumption, ProviderIsProvider DEF TypeOK, CallState, Asking
  <1>1. ASSUME NEW c \in Calls, NEW f \in Features, NEW choice \in Choices,
               NEW wanted \in CloudWanted, Ask(c, f, choice, wanted)
        PROVE  Budget'
    BY <1>1, AskGives, BudgetFrame DEF Ask, boundVars, At
  <1>2. CASE Elsewhere
    BY <1>2, <1>0 DEF Elsewhere, historyVars, Budget, CopiesBehind, OneHolder, NothingLost, LimitKept, Asking, At,
       Provider, Charged, Holding
  <1>3. ASSUME NEW c \in Calls, FindReview(c) \/ FileReview(c) \/ RecordOutcome(c) PROVE Budget'
    <2>1. call'[c].step \notin {"send", "wait", "charge"} /\ ~At(c, "charge")
      BY <1>3, EndGives, GoGives DEF FindReview, FileReview, RecordOutcome, At
    <2>2. UNCHANGED <<spent, total, overlapped, faults>>
      BY <1>3 DEF FindReview, FileReview, RecordOutcome, historyVars, boundVars
    <2>3. QED
      BY <1>3, <2>1, <2>2, GoOnGives, BudgetFrame DEF GoOn
  <1>4. ASSUME NEW c \in Calls, Kill(c) PROVE Budget'
    <2>1. call'[c].step = "killed" /\ UNCHANGED <<spent, total, overlapped>> /\ faults' # 0
      BY <1>4, <1>0, EndGives DEF Kill, historyVars
    <2>2. QED
      BY <1>4, <2>1, GoOnGives, BudgetFrame
  <1>5. ASSUME NEW c \in Calls, Blocked(c) \/ Fails(c) \/ Cancelled(c) PROVE Budget'
    <2>1. UNCHANGED <<spent, total, overlapped, faults>> /\ Asking(c) /\ ~At(c, "charge")
      BY <1>5 DEF Blocked, Fails, Cancelled, historyVars, boundVars, Asking, At
    <2>2. \/ call'[c].step \in Ended
          \/ call'[c].step = "send" /\ call'[c].copy = call[c].copy
      BY <1>5, <1>0, AdvanceGives, EndGives DEF Blocked, Fails, Cancelled
    <2>3. QED
      BY <1>5, <2>1, <2>2, GoOnGives, BudgetFrame DEF GoOn, Asking, At
  <1>6. ASSUME NEW c \in Calls, Send(c) PROVE Budget'
    <2>1. /\ UNCHANGED <<spent, total, overlapped, faults>>
          /\ call'[c].step = "wait" /\ call'[c].copy = call[c].copy /\ At(c, "send")
          /\ Provider(c)' = Provider(c)
      BY <1>6, GoGives DEF Send, boundVars, Provider
    <2>2. IsCloud(Provider(c)) /\ Limit > 0 => call[c].copy < Limit
      BY <1>0, <1>6 DEF Send, Exceeded
    <2>3. (At(c, "wait") /\ IsCloud(Provider(c)) /\ Limit > 0 => call[c].copy < Limit)'
      BY <2>1, <2>2 DEF IsCloud
    <2>4. QED
      BY <1>6, <2>1, <2>3, GoOnGives, BudgetFrame DEF GoOn, Asking, At
  <1>7. ASSUME NEW c \in Calls, TryAgain(c) PROVE Budget'
    <2>1. /\ UNCHANGED <<spent, total, overlapped, faults>>
          /\ call'[c].step = "send" /\ call'[c].copy = call[c].copy /\ At(c, "wait")
      BY <1>7, TryAgainGives DEF TryAgain, historyVars, boundVars
    <2>2. QED
      BY <1>7, <2>1, GoOnGives, BudgetFrame DEF GoOn, Asking, At
  <1>8. ASSUME NEW c \in Calls, LoadBudget(c) PROVE Budget'
    <2>1. /\ UNCHANGED <<spent, total, faults>> /\ overlapped' = (overlapped \/ Holding # {})
          /\ At(c, "budget") /\ Advance(c, spent)
      BY <1>8 DEF LoadBudget, boundVars
    <2>2. \A b \in Calls \ {c} : call'[b] = call[b]
      BY <2>1, <1>0, AdvanceGives
    <2>3. CASE call'[c].step = "unavailable"
      BY <2>1, <2>2, <2>3, BudgetFrame DEF At
    <2>4. CASE call'[c].step = "send" /\ call'[c].copy = spent
      <3>1. \A b \in Calls \ {c} :
              /\ Asking(b)' = Asking(b) /\ Provider(b)' = Provider(b) /\ Charged(b)' = Charged(b)
              /\ \A s : At(b, s)' = At(b, s)
        BY <2>2, OthersAlike
      <3>2. /\ ~At(c, "charge") /\ ~At(c, "charge")' /\ ~At(c, "wait")'
        BY <2>1, <2>4 DEF At
      <3>3. CopiesBehind'
        BY <2>1, <2>2, <2>4, <3>1, <3>2 DEF Budget, CopiesBehind, IsCloud
      <3>4. OneHolder'
        <4>1. Holding' \subseteq Holding \cup {c}
          BY <2>2 DEF Holding
        <4>2. QED
          BY <2>1, <2>4, <4>1 DEF OneHolder
      <3>5. NothingLost'
        BY <2>1, <3>1, <3>2 DEF Budget, NothingLost
      <3>6. QED
        BY <2>1, <3>3, <3>4, <3>5 DEF Budget, LimitKept
    <2>5. QED
      BY <2>1, <2>3, <2>4, <1>0, AdvanceGives
  <1>9. ASSUME NEW c \in Calls, Answers(c) PROVE Budget'
    <2> DEFINE cost == CostOf[Provider(c)]
    <2>1. /\ UNCHANGED <<spent, overlapped, faults>> /\ total' = total + cost /\ At(c, "wait")
          /\ cost \in Nat /\ Provider(c) \in Providers /\ (cost > 0 => IsCloud(Provider(c)))
      BY <1>9, ProviderIsProvider, ProvidersAssumption DEF Answers, boundVars, IsCloud
    <2>2. /\ \A b \in Calls \ {c} : call'[b] = call[b]
          /\ call'[c].step = IF cost > 0 THEN "charge" ELSE "receipt"
          /\ Provider(c)' = Provider(c) /\ call'[c].copy = call[c].copy
      BY <1>9, GoGives DEF Answers, Provider
    <2>3. CASE cost = 0
      BY <2>1, <2>2, <2>3, <1>0, BudgetFrame DEF At
    <2>4. CASE cost > 0
      <3>1. \A b \in Calls \ {c} :
              /\ Asking(b)' = Asking(b) /\ Provider(b)' = Provider(b) /\ Charged(b)' = Charged(b)
              /\ \A s : At(b, s)' = At(b, s)
        BY <2>2, OthersAlike
      <3>2. At(c, "charge")' /\ ~Asking(c)' /\ Charged(c)' = call[c].copy + cost
        BY <2>2, <2>4 DEF At, Asking, Charged
      <3>3. call[c].copy <= total /\ (Limit > 0 => call[c].copy < Limit) /\ call[c].copy \in Nat
        BY <1>0, <2>1, <2>4 DEF Budget, CopiesBehind, Asking
      <3>4. CopiesBehind'
        <4>1. ASSUME NEW b \in Calls
              PROVE  /\ (Asking(b) => call[b].copy <= total)'
                     /\ (At(b, "charge") => Charged(b) <= total)'
                     /\ (At(b, "wait") /\ IsCloud(Provider(b)) /\ Limit > 0 => call[b].copy < Limit)'
          <5>1. CASE b = c
            BY <1>0, <2>1, <3>2, <3>3, <5>1 DEF Asking
          <5>2. CASE b # c
            <6>1. /\ Asking(b) => call[b].copy <= total
                  /\ At(b, "charge") => Charged(b) <= total /\ Charged(b) \in Nat
                  /\ At(b, "wait") /\ IsCloud(Provider(b)) /\ Limit > 0 => call[b].copy < Limit
              BY <1>0 DEF Budget, CopiesBehind, Charged
            <6>2. call'[b] = call[b] /\ Asking(b)' = Asking(b) /\ Provider(b)' = Provider(b)
                  /\ Charged(b)' = Charged(b) /\ At(b, "wait")' = At(b, "wait") /\ At(b, "charge")' = At(b, "charge")
              BY <2>2, <3>1, <5>2
            <6>3. QED
              BY <1>0, <2>1, <6>1, <6>2 DEF IsCloud
          <5>3. QED
            BY <5>1, <5>2
        <4>2. (spent <= total)'
          BY <1>0, <2>1 DEF Budget, CopiesBehind
        <4>3. QED
          BY <4>1, <4>2 DEF CopiesBehind
      <3>5. Holding' = Holding /\ c \in Holding
        BY <2>1, <2>2, <2>4 DEF Holding, At
      <3>6. OneHolder'
        <4>1. \A a \in Holding : call'[a].copy = call[a].copy
          BY <2>2 DEF Holding
        <4>2. QED
          BY <2>1, <3>5, <4>1 DEF Budget, OneHolder
      <3>7. ASSUME ~overlapped, faults = 0
            PROVE  total = call[c].copy /\ \A b \in Calls : At(b, "charge")' => b = c
        <4>1. \A b \in Holding : b = c /\ call[b].copy = spent
          BY <3>5, <3>7 DEF Budget, OneHolder
        <4>2. \A b \in Calls : ~At(b, "charge")
          BY <2>1, <4>1 DEF Holding, At
        <4>3. spent = total
          BY <3>7, <4>2 DEF Budget, NothingLost
        <4>4. QED
          BY <3>1, <3>5, <4>1, <4>2, <4>3
      <3>8. NothingLost'
        BY <2>1, <3>2, <3>7 DEF NothingLost
      <3>9. LimitKept'
        <4>1. ASSUME ~overlapped, faults = 0, Limit > 0
              PROVE  total' < Limit + CostOf[Provider(c)]
          BY <1>0, <2>1, <3>3, <3>7, <4>1
        <4>2. QED
          BY <2>1, <4>1 DEF LimitKept
      <3>10. QED
        BY <3>4, <3>6, <3>8, <3>9 DEF Budget
    <2>5. QED
      BY <2>1, <2>3, <2>4
  <1>10. ASSUME NEW c \in Calls, Charge(c) PROVE Budget'
    <2>1. /\ UNCHANGED <<total, overlapped, faults>> /\ spent' = Charged(c) /\ At(c, "charge")
          /\ call'[c].step = "receipt" /\ \A b \in Calls \ {c} : call'[b] = call[b]
      BY <1>10, GoGives DEF Charge, historyVars, boundVars
    <2>2. \A b \in Calls \ {c} :
            /\ Asking(b)' = Asking(b) /\ Provider(b)' = Provider(b) /\ Charged(b)' = Charged(b)
            /\ \A s : At(b, s)' = At(b, s)
      BY <2>1, OthersAlike
    <2>3. ~Asking(c)' /\ ~At(c, "charge")' /\ ~At(c, "wait")'
      BY <2>1 DEF Asking, At
    <2>4. CopiesBehind'
      BY <2>1, <2>2, <2>3 DEF Budget, CopiesBehind, IsCloud
    <2>5. ASSUME ~overlapped
          PROVE  Holding = {c} /\ Holding' = {}
      <3>1. c \in Holding /\ \A b \in Holding : b = c
        BY <2>1, <2>5 DEF Budget, OneHolder, Holding, At
      <3>2. QED
        BY <2>1, <3>1 DEF Holding
    <2>6. OneHolder'
      BY <2>1, <2>5 DEF OneHolder
    <2>7. NothingLost'
      <3>1. ASSUME ~overlapped, faults = 0
            PROVE  spent' = total /\ \A b \in Calls : ~At(b, "charge")'
        BY <2>1, <2>5, <3>1 DEF Budget, NothingLost, Holding, At
      <3>2. QED
        BY <2>1, <3>1 DEF NothingLost
    <2>8. QED
      BY <2>1, <2>4, <2>6, <2>7 DEF Budget, LimitKept
  <1>11. QED
    BY <1>1, <1>2, <1>3, <1>4, <1>5, <1>6, <1>7, <1>8, <1>9, <1>10, ThreeKinds DEF GoOn
-----------------------------------------------------------------------------
LEMMA Initially == Init => TypeOK /\ Allowed /\ LoggedOrAsking /\ Recorded /\ Budget
  <1> SUFFICES ASSUME Init PROVE TypeOK /\ Allowed /\ LoggedOrAsking /\ Recorded /\ Budget
    OBVIOUS
  <1>1. \A c \in Calls : call[c].step = "idle" /\ call[c] \in CallState
    <2>1. [Idle EXCEPT !.step = "idle"] = Idle
      BY DEF Idle
    <2>2. QED
      BY <2>1, IdleIsState DEF Init, Idle
  <1>2. TypeOK
    <2>1. call \in [Calls -> CallState]
      BY <1>1 DEF Init
    <2>2. \A c \in Calls : ~At(c, "send") /\ ~At(c, "wait") /\ ~At(c, "charge")
      BY <1>1 DEF At
    <2>3. seen \in [Calls -> [from : SUBSET Decisions, granted : BOOLEAN]]
      BY DEF Init
    <2>4. /\ spent \in Nat /\ total \in Nat /\ overlapped \in BOOLEAN
          /\ changes \in 0 .. MaxChanges /\ faults \in 0 .. MaxFaults
      <3>1. MaxChanges \in Nat /\ MaxFaults \in Nat
        BY BoundsAssumption
      <3>2. spent = 0 /\ total = 0 /\ overlapped = FALSE /\ changes = 0 /\ faults = 0
        BY DEF Init
      <3>3. 0 \in 0 .. MaxChanges /\ 0 \in 0 .. MaxFaults /\ 0 \in Nat
        BY <3>1
      <3>4. QED
        BY <3>2, <3>3, Zenon
    <2>5. /\ inForce \in SUBSET Rules /\ pending \in [Features -> Nat]
          /\ granted \in [Features -> BOOLEAN] /\ sent \in [Calls -> SUBSET Providers]
          /\ log = {} /\ receipts = {} /\ unlogged = {} /\ unreceipted = {} /\ cancelled = {}
      BY DEF Init
    <2>6. QED
      BY <2>1, <2>2, <2>3, <2>4, <2>5 DEF TypeOK, CallState
  <1>3. Allowed /\ LoggedOrAsking /\ Recorded
    BY <1>1 DEF Init, Allowed, OnItsWay, CloudOnlyIfAllowed, LoggedOrAsking, Recorded, At
  <1>4. Budget
    BY <1>1 DEF Init, Budget, CopiesBehind, OneHolder, NothingLost, LimitKept, Asking, At, Holding
  <1>5. QED
    BY <1>2, <1>3, <1>4

\* Every call is where its step says: its place is in its chain, its tries
\* within the retries, and the log and the receipts name calls and providers.
THEOREM TypeCorrect == Spec => []TypeOK
  BY Initially, TypeStep, PTL DEF Spec

\* Data leaves the house only on a decision that lets it, for any rules and
\* any order of providers, however the rules and the reviews change while the
\* call is on its way: the decision is taken once, and the chain with it.
THEOREM DataStaysHome == Spec => []CloudOnlyIfAllowed
  <1>1. Spec => []TypeOK
    BY TypeCorrect
  <1>2. Allowed => CloudOnlyIfAllowed
    BY DEF Allowed
  <1>3. QED
    BY <1>1, <1>2, Initially, AllowedStep, PTL DEF Spec

\* What a call leaves behind, whatever ended it but the server itself: every
\* provider it was sent to is in the log unless the create of that row failed,
\* how it ended is in its receipt unless that failed, and the log shows no
\* success of a question that was not answered.
THEOREM EverySentLogged == Spec => []SentIsLogged
  <1>1. TypeOK /\ LoggedOrAsking /\ Recorded => SentIsLogged
    <2> SUFFICES ASSUME TypeOK, LoggedOrAsking, Recorded,
                        NEW c \in Calls, call[c].step \in Ended \ {"killed"}
                 PROVE  /\ \A p \in sent[c] : InLog(c, p)
                        /\ c \notin unreceipted =>
                             /\ At(c, "answered") => <<c, "success">> \in receipts
                             /\ At(c, "denied") => <<c, "blocked">> \in receipts
                        /\ \A p \in Providers : <<c, p, "success">> \in log => At(c, "answered")
      BY Zenon DEF SentIsLogged, InLog
    <2>1. \A p \in sent[c] : InLog(c, p)
      BY DEF LoggedOrAsking, Asking, At
    <2>2. QED
      BY <2>1 DEF Recorded, At
  <1>2. Allowed => OnItsWay
    BY DEF Allowed
  <1>3. QED
    BY <1>1, <1>2, TypeCorrect, Initially, AllowedStep, LoggedStep, RecordedStep, PTL DEF Spec

\* The budget never shows more than the answers cost; while no two calls held it at
\* once it shows all of it, and passes its limit by less than one answer.
THEOREM BudgetFollows == Spec => []BudgetIsSpending
  <1>1. TypeOK /\ Budget => BudgetIsSpending
    BY DEF Budget, BudgetIsSpending, CopiesBehind, NothingLost, LimitKept, Settled, TypeOK
  <1>2. QED
    BY <1>1, TypeCorrect, Initially, BudgetStep, PTL DEF Spec
=============================================================================
