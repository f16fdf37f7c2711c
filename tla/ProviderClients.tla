-------------------------- MODULE ProviderClients --------------------------
(***************************************************************************)
(* What one question to one provider comes to (aiservices/providers): its  *)
(* requests and their retries, the models it is asked with, the text taken *)
(* from its answer; and what is reckoned from the answer: the cost, the    *)
(* month's budget, the conversation and what was masked before sending     *)
(* (core/security).  Functions of their inputs; the threads that call them *)
(* are in AiGateway.                                                       *)
(*                                                                         *)
(* A reply is what one HTTP request came to; "" is an absent text.  Money  *)
(* is in micro-dollars, a price in 1/10000 dollar per million tokens.      *)
(***************************************************************************)
LOCAL INSTANCE Integers
LOCAL INSTANCE Sequences
LOCAL INSTANCE FiniteSets
LOCAL INSTANCE FiniteSetsExt
LOCAL INSTANCE SequencesExt
F == INSTANCE Figures

Reply(kind, code) == [kind |-> kind, code |-> code]
Answered(code)    == Reply("answer", code)

\* The errors a provider ends with.  A cancellation (and an exceeded budget,
\* which no provider raises) keeps the next one from being asked.
Errors == {"unavailable", "model_not_ready", "timeout", "rate_limit",
           "authentication", "cancelled", "unforeseen"}
ShouldFallback(error) == error \notin {"cancelled", "cost_limit"}

HandleStatus(code) ==
  CASE code < 400           -> "ok"
    [] code \in {401, 403}  -> "authentication"
    [] code = 404           -> "model_not_ready"
    [] code = 429           -> "rate_limit"
    [] OTHER                -> "unavailable"
ResultOf(reply) ==
  CASE reply.kind = "answer"  -> HandleStatus(reply.code)
    [] reply.kind = "refused" -> "unavailable"                 \* no connection
    [] reply.kind = "late"    -> "timeout"
    [] OTHER                  -> "unforeseen"                  \* any other exception

\* _request_with_retry: one reply for each of the max_retries + 1 attempts.
\* The token is looked at before each; it is up from attempt `token` on.
TriedAgain == {"unavailable", "timeout", "rate_limit"}
RequestWithRetry(replies, token) ==
  LET stops == {i \in DOMAIN replies : i >= token \/ ResultOf(replies[i]) \notin TriedAgain}
      last  == IF stops = {} THEN Len(replies) ELSE Min(stops)
  IN IF last >= token THEN [result |-> "cancelled", sent |-> last - 1]
     ELSE [result |-> ResultOf(replies[last]), sent |-> last]
\* Half seconds slept between the attempts.
Slept(request) ==
  2 ^ (IF request.result = "cancelled" THEN request.sent ELSE request.sent - 1) - 1
-----------------------------------------------------------------------------
(* The models of a provider: read from it, never written in the code. *)
Listed(error, models) == [error |-> error, models |-> models]
EntryIds(entries) == SelectSeq(entries, LAMBDA e : e # "")     \* "": no object, or no id
ReadModels(page) ==
  IF page.json /\ page.list THEN Listed("ok", EntryIds(page.entries)) ELSE Listed("unavailable", << >>)

\* The pages of Anthropic's list: at most ten are read.
MaxPages == 10
ReadPages(pages) ==
  LET last == Min({i \in DOMAIN pages : ~pages[i].json \/ ~pages[i].list \/ ~pages[i].more}
                    \cup {MaxPages, Len(pages)})
  IN IF ReadModels(pages[last]).error # "ok" THEN Listed("unavailable", << >>)
     ELSE Listed("ok", FlattenSeq([i \in 1 .. last |-> EntryIds(pages[i].entries)]))

\* The model of the call, else the configured one, else the first there is.
\* The list is read only in the third case.
ResolveModel(asked, configured, listed) ==
  CASE asked # ""            -> Listed("ok", <<asked>>)
    [] asked = "" /\ configured # "" -> Listed("ok", <<configured>>)
    [] OTHER -> IF listed.error # "ok" THEN listed
                ELSE IF listed.models = << >> THEN Listed("model_not_ready", << >>)
                ELSE Listed("ok", <<Head(listed.models)>>)

\* suggest_model of LM Studio: loaded models if any are, on-domain ones if any
\* are; then the most suitable, the best hinted at, the longest context, and
\* the first of those that are equal.
Narrowed(models, field, wanted) ==
  LET good == SelectSeq(models, LAMBDA m : m[field] = wanted) IN IF good = << >> THEN models ELSE good
Score(m, task) ==
  <<IF m.anti \/ (task = "vision" /\ ~m.vision) THEN 0 ELSE 1, m.hints, m.context>>
Above3(s, t) ==
  \E i \in 1 .. 3 : s[i] > t[i] /\ \A j \in 1 .. i - 1 : s[j] = t[j]
SuggestModel(models, task, anyDomain) ==
  LET loaded == Narrowed(models, "loaded", TRUE)
      left   == IF anyDomain THEN loaded ELSE Narrowed(loaded, "offDomain", FALSE)
      best   == {i \in DOMAIN left : \A j \in DOMAIN left : ~Above3(Score(left[j], task), Score(left[i], task))}
  IN IF models = << >> THEN "unavailable" ELSE left[Min(best)].id
-----------------------------------------------------------------------------
(* The answer of a chat. *)
Blank == {"", " "}
FirstText(texts) ==
  LET filled == {i \in DOMAIN texts : texts[i] # ""} IN IF filled = {} THEN "" ELSE texts[Min(filled)]
Chat(error, text) == [error |-> error, text |-> text]

\* OpenAI-compatible: the first choice; a model that only reasons has its
\* reasoning shown.
ChatOpenAI(body) ==
  IF ~body.json THEN Chat("unavailable", "")
  ELSE IF body.choices = << >> THEN Chat("model_not_ready", "")
  ELSE LET m == Head(body.choices)
       IN Chat("ok", IF m.content \notin Blank THEN m.content ELSE FirstText(<<m.reasoning_content, m.reasoning>>))

\* Anthropic: system messages go in a field of their own, and a conversation
\* is needed; the text is that of the text blocks.
SplitSystem(messages) ==
  [system |-> SelectSeq(messages, LAMBDA m : m.role = "system"),
   conversation |-> SelectSeq(messages, LAMBDA m : m.role # "system")]
ChatAnthropic(messages, body) ==
  IF SplitSystem(messages).conversation = << >> THEN [error |-> "model_not_ready", blocks |-> << >>]
  ELSE IF ~body.json THEN [error |-> "unavailable", blocks |-> << >>]
  ELSE [error |-> "ok", blocks |-> SelectSeq(body.content, LAMBDA b : b.type = "text")]

\* stream_chat: the pieces before the end of the stream; raised once the token is up.
Streamed(events, token) ==
  LET ends == {i \in DOMAIN events : i >= token \/ events[i].type \in {"stop", "error"}}
      last == IF ends = {} THEN Len(events) ELSE Min(ends) - 1
  IN [cancelled |-> ends # {} /\ Min(ends) >= token,
      pieces |-> SelectSeq(SubSeq(events, 1, last), LAMBDA e : e.type = "delta" /\ e.text # "")]
-----------------------------------------------------------------------------
(* health_check, of the base class and of LM Studio.  "raised" is an       *)
(* exception: resolve_model stands outside the try.                        *)
HealthCheck(p, listed) ==
  LET model == ResolveModel("", p.model, listed) IN
  CASE p.needsKey /\ ~p.hasKey -> [status |-> "no_key", models |-> 0]
    [] (p.needsKey => p.hasKey) /\ listed.error # "ok" -> [status |-> "unreachable", models |-> 0]
    [] OTHER -> [status |-> IF model.error = "ok" THEN "working" ELSE "raised",
                 models |-> Len(listed.models)]
\* health_report turns an exception into a row of its own.
HealthReport(p, listed) ==
  LET health == HealthCheck(p, listed) IN
  IF health.status = "raised" THEN [status |-> "unreachable", models |-> 0] ELSE health

\* resolve_api_key: the encrypted setting, then the environment.
ResolveApiKey(stored, env) == FirstText(<<stored, env>>)
-----------------------------------------------------------------------------
(* Cost and budget. *)
EstimatedCost(price, usage) ==
  F!HalfEven(usage.prompt * price.input + usage.completion * price.output, 10000)
\* The active price that applies from the latest date; one still to come counts.
PriceOf(prices, provider, model) ==
  LET mine == {p \in prices : p.provider = provider /\ p.model = model /\ p.active}
  IN {p \in mine : \A q \in mine : q.from <= p.from}
EstimateCost(prices, provider, model, usage) ==
  IF PriceOf(prices, provider, model) = {} THEN 0
  ELSE EstimatedCost(CHOOSE p \in PriceOf(prices, provider, model) : TRUE, usage)

UsagePercent(b) == F!Percent(b.spent, b.limit)
ShouldWarn(b)   == UsagePercent(b) >= b.warn * 100
OverBudget(b)   == b.limit # 0 /\ b.spent >= b.limit

\* The dashboard groups the log.
CostBy(log, key) ==
  [k \in {c[key] : c \in log} |->
     LET mine == {c \in log : c[key] = k}
     IN [calls |-> Cardinality(mine), tokens |-> MapThenSumSet(LAMBDA c : c.prompt + c.completion, mine),
         cost |-> MapThenSumSet(LAMBDA c : c.cost, mine)]]
FailureRate(log) ==
  F!Percent(Cardinality({c \in log : c.outcome = "failed"}), Cardinality(log))
-----------------------------------------------------------------------------
(* Conversations and suggestions. *)
PersistMessages(messages, prompt, sentPrompt, masked, text) ==
  LET n == Cardinality(messages) IN
  messages \cup {[role |-> "user", content |-> prompt, sequence |-> n,
                  masked |-> IF masked THEN sentPrompt ELSE ""],
                 [role |-> "assistant", content |-> text, sequence |-> n + 1, masked |-> ""]}

\* approve takes a PENDING suggestion; reject takes any.
ApproveSuggestion(status, mayApply) ==
  IF mayApply /\ status = "pending" THEN "approved" ELSE status
RejectSuggestion(status) == "rejected"

\* The console and AskView: a question, and for a cloud provider the right to use it.
MayAsk(prompt, provider, isLocal, mayUseCloud) ==
  prompt \notin Blank /\ (provider = "" \/ isLocal \/ mayUseCloud)
\* Wines the pairing may name: on the list, in stock, of the first 60 found.
PairingWines(wines, limit) ==
  SelectSeq(SubSeq(SelectSeq(wines, LAMBDA w : w.active /\ w.onList), 1,
                   Min({limit, Len(SelectSeq(wines, LAMBDA w : w.active /\ w.onList))})),
            LAMBDA w : w.bottles > 0 \/ w.glasses > 0)
-----------------------------------------------------------------------------
(* Masking.  A text is a sequence of pieces, each with the patterns that   *)
(* match it; the digits of a card number may fail the Luhn check.          *)
Luhn(digits) ==
  LET n == Len(digits)
      value(i) == IF (i - 1) % 2 = n % 2
                  THEN (IF 2 * digits[i] > 9 THEN 2 * digits[i] - 9 ELSE 2 * digits[i])
                  ELSE digits[i]
  IN n \in 13 .. 19 /\ MapThenSumSet(value, 1 .. n) % 10 = 0

PiiPatterns == <<"secret", "term", "email", "iban", "credit_card", "tckn", "phone_tr", "phone_generic">>
TokenOf(pattern) ==
  CASE pattern \in {"phone_tr", "phone_generic"} -> "TELEFON" [] OTHER -> pattern
Caught(piece, pattern) ==
  pattern \in piece.matches /\ (pattern = "credit_card" => Luhn(piece.digits))
MaskPiece(piece) ==
  LET hits == {i \in DOMAIN PiiPatterns : Caught(piece, PiiPatterns[i])}
  IN IF hits = {} THEN piece
     ELSE [text |-> TokenOf(PiiPatterns[Min(hits)]), matches |-> {}, digits |-> << >>]
MaskPii(text) == [i \in DOMAIN text |-> MaskPiece(text[i])]
\* How many of each were masked; secret keys count once.
Replacements(text) ==
  LET masked == {i \in DOMAIN text : MaskPiece(text[i]) # text[i]}
      of(token) == Cardinality({i \in masked : MaskPiece(text[i]).text = token})
  IN [token \in {MaskPiece(text[i]).text : i \in masked} |-> IF token = "secret" THEN 1 ELSE of(token)]
WasMasked(text) == DOMAIN Replacements(text) # {}

\* prepare_prompt_for_provider: as it is only to a local provider outside privacy mode.
PreparePrompt(text, isLocal, privacyMode) ==
  IF isLocal /\ ~privacyMode THEN text ELSE MaskPii(text)

\* redact_key and partial_mask show the end of a value only.
RedactKey(value, keep) ==
  IF Len(value) = 0 THEN << >>
  ELSE IF Len(value) <= keep THEN <<"masked">>
  ELSE <<"prefix">> \o SubSeq(value, Len(value) - keep + 1, Len(value))
PartialMask(value, alnum, keep) ==
  LET later(i) == Cardinality({j \in DOMAIN value : j > i /\ value[j] \in alnum})
  IN [i \in DOMAIN value |-> IF value[i] \in alnum /\ later(i) >= keep THEN "bullet" ELSE value[i]]
=============================================================================
