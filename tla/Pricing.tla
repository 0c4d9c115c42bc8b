------------------------------ MODULE Pricing ------------------------------
(***************************************************************************)
(* What a request costs (core/usage.rs) and how its records enter the      *)
(* month's total (windows/usage.rs): the price row found for a model name  *)
(* with a date or a tier behind it, the tier of a long prompt, prices that *)
(* change on a day, and revisions of a request, of which the larger counts.*)
(*                                                                         *)
(* A name is the sequence of its parts.  Rates are in tenths of a          *)
(* nanodollar per token: 10000 is one dollar for a million tokens.  Of the *)
(* 67 rows of the table those stand here that differ in how they are built *)
(* or found.                                                               *)
(***************************************************************************)
EXTENDS Integers, FiniteSetsExt, SequencesExt

CONSTANTS
    Prompt,        \* bound: tokens of one input class in a record
    ClaudeTier,    \* the prompt length above which a request is long
    CodexTier,
    SolDay,        \* the day the prices of one row change
    LastDay,       \* bound: days
    MaxRecords,    \* bound: records of the request
    None

VARIABLES
    request,   \* the model of the request, as its log names it
    kept,      \* the record that counts: what ClaudePendingUsage holds
    billed,    \* month_cost_nanos
    records    \* records read

vars == <<request, kept, billed, records>>

-----------------------------------------------------------------------------
(* The table.                                                              *)

Classes == {"input", "cached_input", "cache_read", "cache_write_5m", "cache_write_1h", "output"}
Input == Classes \ {"output"}

\* TokenUsage: the tokens measured, and which of them are of a long context.
NoTokens == [c \in Classes |-> 0]

processed_input_tokens(tokens) == MapThenSumSet(LAMBDA c : tokens[c], Input)
total_tokens(tokens) == processed_input_tokens(tokens) + tokens["output"]

CacheRates(input) ==
    [cached_input |-> input \div 10, cache_read |-> input \div 10,
     cache_write_5m |-> (input * 5) \div 4, cache_write_1h |-> input * 2]

\* long is the threshold of the long context, 0 for none; the multipliers are
\* in tenths.
entry(key, input, output) ==
    [key |-> key, rate |-> CacheRates(input) @@ [input |-> input, output |-> output],
     long |-> 0, inputTimes |-> 10, outputTimes |-> 10]

entry_cached(key, input, cached, output) ==
    [entry(key, input, output) EXCEPT !.rate["cached_input"] = cached]

entry_cache_read(key, input, cached, output) ==
    [entry_cached(key, input, cached, output) EXCEPT !.rate["cache_read"] = cached]

entry_long_context(key, input, cached, output) ==
    [entry_cached(key, input, cached, output)
        EXCEPT !.long = CodexTier, !.inputTimes = 20, !.outputTimes = 15]

entry_prompt_tier(key, input, output, times) ==
    [entry(key, input, output)
        EXCEPT !.long = ClaudeTier, !.inputTimes = times, !.outputTimes = times]

Opus5 == <<"claude-opus", "5">>
Opus55 == <<"claude-opus", "5", "5">>
Haiku55 == <<"claude-haiku", "5", "5">>
Haiku3 == <<"claude-3-haiku">>
Sol == <<"gpt-5.6", "sol">>

pricing_table ==
    { entry_cache_read(Opus55 \o <<"fast">>, 80000, 4000, 400000),
      entry_cache_read(Opus55, 40000, 2000, 200000),
      entry(Opus5, 50000, 250000),
      entry(Opus5 \o <<"fast">>, 100000, 500000),
      entry(Haiku55 \o <<"long-context">>, 5000, 25000),
      entry_prompt_tier(Haiku55, 1000, 5000, 50),
      entry(Haiku3, 2500, 12500),
      entry_long_context(Sol, 50000, 5000, 300000),
      entry_long_context(<<"gpt-5.6">>, 50000, 5000, 300000),
      entry_long_context(<<"gpt-5.4">>, 25000, 2500, 150000),
      entry_cached(<<"gpt-5.4", "mini">>, 7500, 750, 45000) }

Row(key) == CHOOSE row \in pricing_table : row.key = key

\* str::len of a name; parts are joined by a hyphen.
Letters == [x \in {"5", "sol", "fast", "mini", "date", "long-context",
                   "claude-opus", "claude-haiku", "claude-3-haiku",
                   "gpt-5.6", "gpt-5.4", "codex-auto-review"} |->
    CASE x = "5" -> 1 [] x = "sol" -> 3 [] x \in {"fast", "mini"} -> 4
      [] x \in {"gpt-5.6", "gpt-5.4"} -> 7 [] x = "date" -> 8
      [] x = "claude-opus" -> 11 [] x \in {"long-context", "claude-haiku"} -> 12
      [] x = "claude-3-haiku" -> 14 [] x = "codex-auto-review" -> 17]
Length(name) == FoldSeq(LAMBDA part, sum : Letters[part] + 1 + sum, -1, name)

-----------------------------------------------------------------------------
(* Finding a row.                                                          *)

\* Mutant: a date between a name and its tier hides the tier.
model_matches_start(model, key) == IsPrefix(key, model)

model_matches(model, key) ==
    \/ IsPrefix(key, model)
    \/ \E tier \in {"fast", "long-context"} :
          /\ Last(key) = tier /\ Last(model) = tier
          /\ IsPrefix(Front(key), Front(model))

\* On its day a row takes new prices, and its cache prices follow the input's.
apply_revisions(row, day) ==
    IF row.key = Sol /\ day # None /\ day >= SolDay
    THEN [row EXCEPT !.rate = CacheRates(40000) @@ [input |-> 40000, output |-> 200000]]
    ELSE row

\* An exact key, or else the longest one that matches.
resolve_pricing(model, day) ==
    LET found == {row \in pricing_table : model_matches(model, row.key)}
        exact == {row \in found : row.key = model}
        best  == {row \in found : \A r \in found : Length(r.key) <= Length(row.key)}
    IN  IF found = {} THEN None
        ELSE apply_revisions(CHOOSE row \in (IF exact # {} THEN exact ELSE best) : TRUE, day)

\* usd_per_mtok_to_nanos_per_token rounds a half up.
Nanos(rate) == (rate + 5) \div 10

\* Each class is rounded by itself; a class of the long context costs its
\* premium on top.  An unknown model costs nothing: the callers take
\* unwrap_or(0).
cost_nanos(model, tokens, long, day) ==
    LET row == resolve_pricing(model, day)
        premium(c) == (IF c = "output" THEN row.outputTimes ELSE row.inputTimes) - 10
    IN  IF row = None THEN 0
        ELSE MapThenSumSet(LAMBDA c : tokens[c] * Nanos(row.rate[c])
                     + long[c] * Nanos((row.rate[c] * premium(c)) \div 10), Classes)

is_long_context_request(model, tokens) ==
    LET row == resolve_pricing(model, None)
    IN  row # None /\ row.long > 0 /\ tokens > row.long

claude_pricing_model(model, prompt) ==
    IF is_long_context_request(model, prompt) THEN Append(model, "long-context") ELSE model

resolve_codex_model(model) == IF model = <<"codex-auto-review">> THEN <<"gpt-5.4">> ELSE model

-----------------------------------------------------------------------------
(* Records.                                                                *)

IsClaude == request.base[1] \notin {"gpt-5.6", "gpt-5.4", "codex-auto-review"}
Logged == request.base \o (IF request.dated THEN <<"date">> ELSE <<>>)

\* parse_claude_line: a fast answer has the tier behind its name, a long prompt
\* another behind that.
ClaudeEvent(tokens) ==
    LET model == Logged \o (IF request.fast THEN <<"fast">> ELSE <<>>)
    IN  [model |-> claude_pricing_model(model, processed_input_tokens(tokens)),
         tokens |-> tokens, long |-> NoTokens]

\* parse_codex_usage_line: the input of a record includes what was cached, and
\* in a long request all of its tokens are long.
CodexEvent(input, cached, output) ==
    LET model == resolve_codex_model(Logged)
        tokens == [NoTokens EXCEPT !["input"] = IF input > cached THEN input - cached ELSE 0,
                                   !["cached_input"] = cached, !["output"] = output]
    IN  [model |-> model, tokens |-> tokens,
         long |-> IF is_long_context_request(model, input) THEN tokens ELSE NoTokens]

Events ==
    IF IsClaude
    THEN {ClaudeEvent([cached_input |-> 0, cache_read |-> r, cache_write_5m |-> w,
                       cache_write_1h |-> w, input |-> i, output |-> o]) :
             i, r \in 0..Prompt, w, o \in 0..1}
    ELSE {CodexEvent(r[1], r[2], r[3]) : r \in {x \in (0..Prompt) \X (0..Prompt) \X (0..1) : x[2] <= x[1]}}

Init ==
    /\ request \in [base : {Opus5, Opus55, Haiku55, Haiku3, Sol, <<"gpt-5.6">>,
                            <<"gpt-5.4", "mini">>, <<"codex-auto-review">>},
                    dated : BOOLEAN, fast : BOOLEAN]
    /\ request.fast => IsClaude
    /\ request.dated => request.base # <<"codex-auto-review">>
    /\ kept = None
    /\ billed = 0
    /\ records = 0

Price(event, day) == cost_nanos(event.model, event.tokens, event.long, day)

\* The part of ingest_events that prices: of a request that has been counted,
\* Codex ignores another record, and Claude one that is not larger; a larger one
\* takes out what the one before added, at the price and the day of that one.
Read ==
    \E event \in Events, day \in 1..LastDay :
        LET first == kept = None
            larger == ~first /\ IsClaude
                      /\ total_tokens(event.tokens) > total_tokens(kept.event.tokens)
        IN  /\ records < MaxRecords
            /\ records' = records + 1
            /\ IF first \/ larger
               THEN /\ kept' = [event |-> event, day |-> day]
                    /\ billed' = billed - (IF first THEN 0 ELSE Price(kept.event, kept.day))
                                 + Price(event, day)
               ELSE UNCHANGED <<kept, billed>>
            /\ UNCHANGED request

Next == Read

Spec == Init /\ [][Next]_vars

-----------------------------------------------------------------------------
\* The row a reader of the price list would point to: that of the model, and of
\* its fast tier if it has one.
Listed ==
    LET base == resolve_codex_model(request.base)
        fast == base \o <<"fast">>
    IN  IF request.fast /\ \E row \in pricing_table : row.key = fast THEN Row(fast) ELSE Row(base)

\* What a request has added to the month is the price of its largest record on
\* the day of that record, by the row listed for its model: a date in the name
\* changes nothing, a prompt over the threshold costs the multiple in all its
\* classes, and an earlier record, of the other tier or before a change of
\* prices, leaves nothing behind.  An otak-usage snapshot, which has the model
\* without a tier and marks the long tokens, is priced the same
\* (resolve_pricing, claude_pricing_model, cost_nanos, ingest_events).
Billed ==
    kept # None =>
        LET row == apply_revisions(Listed, kept.day)
            tokens == kept.event.tokens
            isLong == row.long > 0 /\ processed_input_tokens(tokens) > row.long
            times(c) == IF ~isLong THEN 10
                        ELSE IF c = "output" THEN row.outputTimes ELSE row.inputTimes
        IN  /\ billed = MapThenSumSet(
                   LAMBDA c : tokens[c] * Nanos((row.rate[c] * times(c)) \div 10), Classes)
            /\ billed = cost_nanos(row.key, tokens, IF isLong THEN tokens ELSE NoTokens, kept.day)
=============================================================================
