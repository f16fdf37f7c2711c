---------------------------- MODULE MCAiGateway ----------------------------
(* A cloud provider that costs and the mock; a feature that may leave the  *)
(* house within limits, and rules that ask for a review or deny.  The      *)
(* clients of the providers are checked on all short inputs.               *)
EXTENDS AiGateway, ProviderClients, TLC

CONSTANTS anthropic, mock, sommelier

MCDefault == sommelier :> "limits"
MCRules   == {[feature |-> sommelier, decision |-> "review"], [feature |-> Every, decision |-> "deny"]}
MCOrder   == <<anthropic, mock>>
MCCost    == (anthropic :> 1) @@ (mock :> 0)
-----------------------------------------------------------------------------
Codes   == {200, 301, 400, 401, 403, 404, 429, 500, 503}
Replies == {Answered(code) : code \in Codes}
             \cup {Reply(kind, 0) : kind \in {"refused", "late", "broken"}}

\* A request is tried again only after an error that may pass, at most
\* max_retries times, is never sent once the token is up, and an error ends it
\* early only if waiting is of no use.
ASSUME RequestsEnd ==
  \A replies \in [1 .. 3 -> Replies], token \in 1 .. 4 :
    LET r == RequestWithRetry(replies, token) IN
    /\ r.sent < token /\ r.sent <= 3 /\ Slept(r) <= 3
    /\ \A i \in 1 .. r.sent - 1 : ResultOf(replies[i]) \in TriedAgain
    /\ r.result = "cancelled" <=> token <= 3 /\ \A i \in 1 .. token - 1 : ResultOf(replies[i]) \in TriedAgain
    /\ r.result \in TriedAgain => r.sent = 3
    /\ r.result # "ok" => r.result \in Errors

\* A model is used only if the caller or the settings named it or the provider
\* listed it; no page after the tenth is read.
Names == {"", "m1", "m2"}
Lists == {Listed("ok", s) : s \in UNION {[1 .. n -> {"m1", "m3"}] : n \in 0 .. 2}} \cup {Listed("timeout", << >>)}
ASSUME ModelsAreReal ==
  /\ \A asked, configured \in Names, listed \in Lists :
       LET m == ResolveModel(asked, configured, listed) IN
       IF m.error = "ok" THEN m.models[1] \in {asked, configured} \cup {listed.models[i] : i \in DOMAIN listed.models}
       ELSE asked = "" /\ configured = "" /\ listed.models = << >>
  /\ LET page(i) == [json |-> TRUE, list |-> TRUE, more |-> TRUE, entries |-> <<"m1", "">>]
     IN \A n \in 1 .. 12 : Len(ReadPages([i \in 1 .. n |-> page(i)]).models) = IF n < MaxPages THEN n ELSE MaxPages

\* A model that is loaded, on domain and suited is never passed over for one
\* that is not.
LMModels == [id : {"a"}, loaded : BOOLEAN, offDomain : BOOLEAN, anti : BOOLEAN,
             vision : {TRUE}, hints : {0, 2}, context : {4}]
ASSUME BestModelIsSuggested ==
  \A m, n \in LMModels :
    LET pair == <<m, [n EXCEPT !.id = "b"]>>
        good(x) == x.loaded /\ ~x.offDomain /\ ~x.anti
    IN good(m) /\ ~good(n) =>
         SuggestModel(pair, "general", FALSE) = "a" /\ SuggestModel(<<pair[2], pair[1]>>, "general", FALSE) = "a"

\* health_report never raises, and calls a provider working only if it listed a
\* model or has one configured.
ASSUME HealthIsReported ==
  \A p \in [needsKey : BOOLEAN, hasKey : BOOLEAN, model : {"", "m1"}], listed \in Lists :
    LET h == HealthReport(p, listed) IN
    /\ h.status \in {"no_key", "unreachable", "working"}
    /\ h.status = "working" <=> /\ p.needsKey => p.hasKey
                                /\ listed.error = "ok"
                                /\ p.model # "" \/ listed.models # << >>
    /\ HealthCheck(p, listed).status = "raised" => listed.models = << >>

\* A cost is not negative, more tokens never cost less, and an unpriced model
\* costs nothing.
Prices == [provider : {"p"}, model : {"m"}, input : {0, 30000}, output : {0, 7}, active : BOOLEAN, from : {1}]
ASSUME CostsGrow ==
  \A price \in Prices, u, v \in 0 .. 20 :
    LET cost(n) == EstimateCost({price}, "p", "m", [prompt |-> n, completion |-> n * n])
    IN /\ u <= v => cost(u) <= cost(v)
       /\ cost(u) >= 0 /\ (~price.active => cost(u) = 0)
       /\ EstimateCost({price}, "p", "other", [prompt |-> u, completion |-> v]) = 0

\* A valid card number stops being one when a digit is changed.
Card == <<4, 5, 3, 9, 1, 4, 8, 8, 0, 3, 4, 3, 6, 4, 6, 7>>
ASSUME LuhnCatchesOneDigit ==
  /\ Luhn(Card)
  /\ \A i \in DOMAIN Card, d \in 0 .. 9 : Luhn([Card EXCEPT ![i] = d]) <=> d = Card[i]

\* What a cloud provider gets has nothing in it that a pattern still catches,
\* masking twice changes nothing, and the user is told exactly when text changed.
Pieces == {[text |-> "word", matches |-> M, digits |-> d] :
             M \in {{}, {"secret"}, {"term", "email"}, {"phone_tr", "phone_generic"}, {"credit_card"}},
             d \in {Card, <<1>>}}
ASSUME MaskingIsComplete ==
  \A a, b \in Pieces, private \in BOOLEAN :
    LET text == <<a, b>>  out == PreparePrompt(text, FALSE, private) IN
    /\ \A i \in 1 .. 2, k \in DOMAIN PiiPatterns : ~Caught(out[i], PiiPatterns[k])
    /\ MaskPii(out) = out
    /\ WasMasked(text) <=> out # text
    /\ PreparePrompt(text, TRUE, TRUE) = out /\ PreparePrompt(text, TRUE, FALSE) = text
=============================================================================
