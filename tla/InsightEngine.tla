----------------------------- MODULE InsightEngine -----------------------------
(***************************************************************************)
(* The LLM insight engine (s11_llm): one explanation per forecast group,    *)
(* from a provider if one can be reached and answers acceptably, else from  *)
(* the template.  Without a token ceiling a pool of workers explains the    *)
(* groups; with one they are explained one at a time.                       *)
(*                                                                         *)
(* Figures are in hundredths.  The trace store's list is kept by group:     *)
(* nothing reads its order between groups.                                  *)
(***************************************************************************)
EXTENDS Integers, Sequences, SequencesExt, FiniteSetsExt

CONSTANTS
  GroupIds,    \* the groups with an id, in the order of forecast_groups
  Facts,       \* what the run decided for each of them
  Configs,     \* the LLM configurations a run may have
  Responses,   \* what a deployment may answer
  Workers,     \* insight_max_workers
  MaxRetries,  \* max_validation_retries
  None,        \* no value
  Faults       \* "provider": a call to a deployment may fail

Groups == Range(GroupIds)
Sides == {"primary", "fallback"}
Tiers == {"simple", "complex"}
Figures == Int \cup {None}

\* group_decision_facts() and group_grounding_metrics().  others: the metrics beside
\* the error and the confidence.  told: the figures in what the run says of the
\* rejected candidates.
FactRecord ==
  [model: STRING, wmape: Figures, fallback: BOOLEAN, rejected: Nat, candidates: Nat,
   caveats: Nat, others: SUBSET Int, told: SUBSET Int]

\* prompts: the version's templates are on disk.  priced: tiers with both rates.
Config ==
  [enabled: BOOLEAN, sides: SUBSET Sides, budget: Figures, prompts: BOOLEAN,
   priced: SUBSET Tiers]

\* figures: those in the concise summary.  asides: those in the rejection reasons and
\* caveats, which the dashboard shows as well.
Payload ==
  [model: STRING, reasons: Nat, confidence: Figures, caveats: Nat, words: Nat,
   figures: SUBSET Int, asides: SUBSET Int]

NotJson == [parsed |-> FALSE]

ASSUME InsightAssumption ==
  /\ None \notin Int
  /\ GroupIds \in Seq(Groups) /\ IsInjective(GroupIds)
  /\ Facts \in [Groups -> FactRecord]
  /\ Configs \subseteq Config
  /\ \A r \in Responses : r.tokens \in Nat \cup {None} /\ (r.payload = NotJson \/ r.payload \in Payload)
  /\ Workers \in Int
  /\ MaxRetries \in Nat
  /\ Faults \subseteq {"provider"}

VARIABLES
  config,    \* the run's LLMConfig
  mode,      \* how far generate() is
  work,      \* each group's _generate_one()
  collected, \* how many results generate() has taken, in order
  trace,     \* LLMTraceStore, by group
  insights,  \* each group's GroupInsight
  report     \* BusinessInsightReport

vars == <<config, mode, work, collected, trace, insights, report>>
--------------------------------------------------------------------------------
\* The schema.  parse_and_validate(): what is wrong with a response.
Problems(payload, expected) ==
  IF payload = NotJson THEN {"json"}
  ELSE {field \in {"selected_model", "rejection_reasons", "confidence", "caveats", "summary"} :
          CASE field = "selected_model" -> payload.model # expected
            [] field = "rejection_reasons" -> payload.reasons > 6
            [] field = "confidence" -> payload.confidence \notin 0 .. 10000 \cup {None}
            [] field = "caveats" -> payload.caveats > 3
            [] field = "summary" -> payload.words \notin 1 .. 70}

\* What the error leaves of a hundred percent, to a tenth.
ConfidenceEstimate(facts) ==
  IF facts.wmape = None THEN None ELSE ((10000 - facts.wmape + 5) \div 10) * 10

Absolute(x) == IF x < 0 THEN -x ELSE x

\* group_grounding_metrics()
GroundingMetrics(facts) == ({facts.wmape, ConfidenceEstimate(facts)} \ {None}) \cup facts.others

\* extract_numeric_facts(): each metric on both scales.
NumericFacts(facts) ==
  LET metrics == GroundingMetrics(facts)
      rescaled(f) == IF Absolute(f) <= 100 THEN 100 * f ELSE f \div 100
  IN  metrics \cup {rescaled(f) : f \in {m \in metrics : Absolute(m) <= 100000}}

\* _matches_any(): within 0.6 or three percent; anything goes without facts.
Matches(figure, known) ==
  \/ known = {}
  \/ \E f \in known : 100 * Absolute(figure - f) <= Max({6000, 3 * Absolute(f)})

\* (mutant) a figure that matches is enough
SomeFigureGrounded(payload, facts) ==
  payload.figures = {} \/ \E f \in payload.figures : Matches(f, NumericFacts(facts))

\* A rank or a count; 12.0 is taken for 12.
SmallInteger(f) == f % 100 = 0 /\ Absolute(f) <= 1200

\* check_grounding(), of the concise summary alone.
Grounded(payload, facts) ==
  \A f \in payload.figures :
    \/ SmallInteger(f)
    \/ Matches(f, NumericFacts(facts))

Tier(facts) == IF facts.rejected > 1 THEN "complex" ELSE "simple"

\* build_template_insight(): the facts, substituted.
TemplatePayload(facts) ==
  [model |-> facts.model, reasons |-> Min({6, facts.rejected}),
   confidence |-> ConfidenceEstimate(facts), caveats |-> Min({3, facts.caveats}), words |-> 20,
   figures |-> IF facts.fallback THEN {100 * facts.candidates}
               ELSE IF facts.wmape = None THEN {}
               ELSE {facts.wmape, ((facts.wmape + 50) \div 100) * 100},
   asides |-> facts.told]
--------------------------------------------------------------------------------
Finals == {"pending", "success", "validation_failed", "blocked_ungrounded", "provider_error"}

Call == [side: Sides, tier: Tiers, attempt: 1 .. MaxRetries + 1, final: Finals,
         tokens: Nat \cup {None}, costed: BOOLEAN, graded: {"no", "grounded", "ungrounded"}]

NoInsight == [provider |-> "none"]

Insight == [provider: Sides \cup {"template"}, payload: Payload, grounded: BOOLEAN,
            retries: 0 .. MaxRetries]

Idle == [pc |-> "queued"]

Steps == {"call", "answer", "template", "done", "raised", "cancelled"}

\* sides: the providers still to try, the current one first.
Work == [pc: Steps, sides: Seq(Sides), attempt: 1 .. MaxRetries + 1]

\* The calls of a group with their places, those of the first n groups, and all of them.
CallsOf(i) == {<<i, k, trace[GroupIds[i]][k]>> : k \in 1 .. Len(trace[GroupIds[i]])}
CallsOfFirst(n) == UNION {CallsOf(i) : i \in 1 .. n}
AllCalls == CallsOfFirst(Len(GroupIds))

\* The calls that used tokens, and those whose cost is known.
Spending(calls) == {c \in calls : c[3].tokens \notin {None, 0}}
Priced(calls) == {c \in calls : c[3].costed}
Total(calls) == MapThenSumSet(LAMBDA c : c[3].tokens, calls)
Spent(calls) == Total(Spending(calls))

\* (mutant) whatever is known adds up
KnownCost(calls) == Total(Priced(calls))

\* summary(): the cost, in tokens, when as many calls have one as used tokens.
Cost(calls) ==
  IF Priced(calls) # {} /\ Cardinality(Priced(calls)) = Cardinality(Spending(calls))
  THEN Total(Priced(calls))
  ELSE None

Statuses == {"not_generated", "disabled", "unavailable", "generated", "partial", "failed"}

TypeOK ==
  /\ config \in Configs
  /\ mode \in {"new", "generating", "raising", "raised", "returned"}
  /\ work \in [Groups -> Work \cup {Idle}]
  /\ collected \in 0 .. Len(GroupIds)
  /\ trace \in [Groups -> Seq(Call)]
  /\ insights \in [Groups -> Insight \cup {NoInsight}]
  /\ report \in [status: Statuses, available: BOOLEAN, exhausted: BOOLEAN, groups: Seq(Groups)]

Init ==
  /\ config \in Configs
  /\ mode = "new"
  /\ work = [g \in Groups |-> Idle]
  /\ collected = 0
  /\ trace = [g \in Groups |-> <<>>]
  /\ insights = [g \in Groups |-> NoInsight]
  /\ report = [status |-> "not_generated", available |-> FALSE, exhausted |-> FALSE, groups |-> <<>>]

Available == config.sides # {}

\* generate(), up to the groups.
Generate ==
  /\ mode = "new"
  /\ IF config.enabled
     THEN /\ mode' = "generating"
          /\ report' = [report EXCEPT !.status = IF Available THEN @ ELSE "unavailable"]
     ELSE /\ mode' = "returned"
          /\ report' = [report EXCEPT !.status = "disabled"]
  /\ UNCHANGED <<config, work, collected, trace, insights>>

Running == {g \in Groups : work[g].pc \in {"call", "answer", "template"}}

\* (mutant) the ceiling is met as long as it has not been passed
ExhaustedOnceSpent == config.budget # None /\ config.budget < Spent(AllCalls)

\* _generate_within_budget(): less than the headroom of one call is left.
OutOfBudget(calls) == config.budget # None /\ config.budget - Spent(calls) < 200
Exhausted == OutOfBudget(AllCalls)

\* _call_llm(): the providers that are available, the primary one first.
Providers ==
  (IF "primary" \in config.sides THEN <<"primary">> ELSE <<>>) \o
  (IF "fallback" \in config.sides THEN <<"fallback">> ELSE <<>>)

PoolSize == IF config.budget # None THEN 1 ELSE Max({1, Min({Workers, Len(GroupIds)})})

\* render(): a version without the template on disk raises.
RenderPrompt == IF config.prompts THEN "call" ELSE "raised"

\* A worker takes the next group, and renders its prompt if it is to call a provider.
\* A single worker is generate() itself: it takes no group after one that raised.
BeginGroup(i) ==
  LET g == GroupIds[i]
  IN  /\ mode = "generating"
      /\ work[g] = Idle
      /\ \A j \in 1 .. i - 1 : work[GroupIds[j]] # Idle
      /\ Cardinality(Running) < PoolSize
      /\ PoolSize = 1 => collected = i - 1
      /\ report' = [report EXCEPT !.exhausted = @ \/ Exhausted]
      /\ work' = [work EXCEPT ![g] =
           [pc |-> IF ~Available \/ Exhausted THEN "template" ELSE RenderPrompt,
            sides |-> Providers, attempt |-> 1]]
      /\ UNCHANGED <<config, mode, collected, trace, insights>>

\* start_call(): the attempt is on record before it is made.
StartCall(g) ==
  /\ work[g].pc = "call"
  /\ trace' = [trace EXCEPT ![g] =
       Append(@, [side |-> work[g].sides[1], tier |-> Tier(Facts[g]), attempt |-> work[g].attempt,
                  final |-> "pending", tokens |-> None, costed |-> FALSE, graded |-> "no"])]
  /\ work' = [work EXCEPT ![g].pc = "answer"]
  /\ UNCHANGED <<config, mode, collected, insights, report>>

Record(g, call) == trace' = [trace EXCEPT ![g][Len(trace[g])] = call]

TheCall(g) == Last(trace[g])

\* (mutant) the attempts of the provider before count
NextProviderSameAttempt(g) ==
  work' = [work EXCEPT ![g] =
    [pc |-> IF Len(@.sides) > 1 THEN "call" ELSE "template",
     sides |-> Tail(@.sides), attempt |-> @.attempt]]

\* The next provider, or the template when there is none.
NextProvider(g) ==
  work' = [work EXCEPT ![g] =
    [pc |-> IF Len(@.sides) > 1 THEN "call" ELSE "template",
     sides |-> Tail(@.sides), attempt |-> 1]]

\* An LLMProviderError: the same call is not tried again.
ProviderFails(g) ==
  /\ "provider" \in Faults
  /\ work[g].pc = "answer"
  /\ Record(g, [TheCall(g) EXCEPT !.final = "provider_error"])
  /\ NextProvider(g)
  /\ UNCHANGED <<config, mode, collected, insights, report>>

\* Feedback goes into the prompt of the next attempt while there is one.
Retry(g) ==
  IF work[g].attempt <= MaxRetries
  THEN work' = [work EXCEPT ![g].pc = "call", ![g].attempt = @ + 1]
  ELSE NextProvider(g)

\* _estimate_cost(), of a response with its usage.
Costed(response, g) == response.tokens # None /\ Tier(Facts[g]) \in config.priced

Verdict(payload, facts) ==
  IF Problems(payload, facts.model) # {} THEN "validation_failed"
  ELSE IF Grounded(payload, facts) THEN "success" ELSE "blocked_ungrounded"

\* complete() answered: validated, then checked against the group's figures.
Answer(g, response) ==
  /\ work[g].pc = "answer"
  /\ LET verdict == Verdict(response.payload, Facts[g])
         call == [TheCall(g) EXCEPT
                    !.final = verdict, !.tokens = response.tokens, !.costed = Costed(response, g),
                    !.graded = CASE verdict = "success" -> "grounded"
                                 [] verdict = "blocked_ungrounded" -> "ungrounded"
                                 [] OTHER -> "no"]
     IN  /\ Record(g, call)
         /\ IF verdict = "success"
            THEN /\ insights' = [insights EXCEPT ![g] =
                      [provider |-> call.side, payload |-> response.payload, grounded |-> TRUE,
                       retries |-> call.attempt - 1]]
                 /\ work' = [work EXCEPT ![g].pc = "done"]
            ELSE Retry(g) /\ UNCHANGED insights
  /\ UNCHANGED <<config, mode, collected, report>>

\* (mutant) only a group no provider was there for
UseTemplateWithoutProvider(g) ==
  /\ work[g].pc = "template" /\ ~Available
  /\ insights' = [insights EXCEPT ![g] =
       [provider |-> "template", payload |-> TemplatePayload(Facts[g]),
        grounded |-> TRUE, retries |-> 0]]
  /\ work' = [work EXCEPT ![g].pc = "done"]
  /\ UNCHANGED <<config, mode, collected, trace, report>>

\* build_template_insight(): its figures are checked, and whatever comes out is used.
UseTemplate(g) ==
  /\ work[g].pc = "template"
  /\ LET payload == TemplatePayload(Facts[g])
     IN  insights' = [insights EXCEPT ![g] =
           [provider |-> "template", payload |-> payload,
            grounded |-> Grounded(payload, Facts[g]), retries |-> 0]]
  /\ work' = [work EXCEPT ![g].pc = "done"]
  /\ UNCHANGED <<config, mode, collected, trace, report>>

NextGroup == GroupIds[collected + 1]

\* (mutant) whichever group is finished
TakeAnyResult ==
  /\ mode = "generating"
  /\ \E g \in Groups \ Range(report.groups) :
       /\ work[g].pc = "done"
       /\ report' = [report EXCEPT !.groups = Append(@, g)]
  /\ collected' = collected + 1
  /\ UNCHANGED <<config, mode, work, trace, insights>>

\* pool.map(): the results, in the order of the groups.
TakeResult ==
  /\ mode = "generating"
  /\ collected < Len(GroupIds)
  /\ work[NextGroup].pc = "done"
  /\ report' = [report EXCEPT !.groups = Append(@, NextGroup)]
  /\ collected' = collected + 1
  /\ UNCHANGED <<config, mode, work, trace, insights>>

\* A result that is an exception: the groups nobody has taken are cancelled.
TakeException ==
  /\ mode = "generating"
  /\ collected < Len(GroupIds)
  /\ work[NextGroup].pc = "raised"
  /\ mode' = "raising"
  /\ work' = [g \in Groups |-> IF work[g] = Idle THEN [work[NextGroup] EXCEPT !.pc = "cancelled"]
                                                  ELSE work[g]]
  /\ UNCHANGED <<config, collected, trace, insights, report>>

\* The pool is left when its workers are done, and the exception goes on.
Raise ==
  /\ mode = "raising"
  /\ Running = {}
  /\ mode' = "raised"
  /\ UNCHANGED <<config, work, collected, trace, insights, report>>

Succeeded == {g \in Groups : insights[g] # NoInsight}

Assemble ==
  /\ mode = "generating"
  /\ collected = Len(GroupIds)
  /\ report' = [report EXCEPT
       !.available = Succeeded # {},
       !.status = IF Succeeded = {} THEN (IF Available THEN "failed" ELSE @)
                  ELSE IF Cardinality(Succeeded) = Len(GroupIds) THEN "generated" ELSE "partial"]
  /\ mode' = "returned"
  /\ UNCHANGED <<config, work, collected, trace, insights>>

Explain(g) ==
  StartCall(g) \/ ProviderFails(g) \/ UseTemplate(g) \/ \E r \in Responses : Answer(g, r)

Collecting == TakeResult \/ TakeException \/ Raise \/ Assemble

Next ==
  \/ Generate
  \/ \E i \in DOMAIN GroupIds : BeginGroup(i)
  \/ \E g \in Groups : Explain(g)
  \/ Collecting

\* A call comes back within its timeout, and threads that can go on do.
Spec ==
  /\ Init /\ [][Next]_vars
  /\ WF_vars(Generate) /\ WF_vars(Collecting)
  /\ \A i \in DOMAIN GroupIds : WF_vars(BeginGroup(i))
  /\ \A g \in Groups : WF_vars(Explain(g))
--------------------------------------------------------------------------------
Returned == mode = "returned" /\ config.enabled

\* Off by no more than 0.6 or three percent, on the scale of the metric or the other one.
Near(figure, metric) ==
  \E k \in {metric, 100 * metric, metric \div 100} :
    Absolute(figure - k) <= Max({60, (3 * Absolute(k)) \div 100 + 1})

\* Whoever finishes first, the report has the groups in their order, each with an
\* insight about its own model (insight_engine.py:129, "Ordered by group, not by
\* completion"); and in the concise summary a provider wrote, no figure but whole
\* numbers up to twelve is far from every metric of that same group, percent or
\* fraction.  Nothing is claimed of its rejection reasons and caveats, which the
\* dashboard shows unchecked (insight_engine.py:319, result_service.py:558-571).
EveryGroupIsExplainedInOrder ==
  Returned =>
    /\ report.groups = GroupIds
    /\ \A g \in Groups :
         /\ insights[g] # NoInsight /\ insights[g].payload.model = Facts[g].model
         /\ insights[g].provider # "template" /\ GroundingMetrics(Facts[g]) # {} =>
              \A f \in insights[g].payload.figures :
                SmallInteger(f) \/ \E m \in GroundingMetrics(Facts[g]) : Near(f, m)

\* The last call of a group tells how its insight came about, and the calls before
\* it are all there (llm_trace.py:26, "tells the whole story"): a provider's insight
\* follows its own accepted answer and as many failed attempts as it counts, the
\* template means that no provider was called or each gave up.
TraceTellsTheStory ==
  \A g \in Succeeded :
    LET calls == trace[g]
        provider == insights[g].provider
        mine == {i \in DOMAIN calls : calls[i].side = provider}
    IN  IF provider = "template"
        THEN \A i \in DOMAIN calls : calls[i].final \notin {"pending", "success"}
        ELSE /\ Last(calls).final = "success" /\ Last(calls).side = provider
             /\ Cardinality(mine) = insights[g].retries + 1
             /\ \A i \in DOMAIN calls : calls[i].final = "success" => i = Len(calls)

\* With a ceiling, no group is begun on a provider unless what the groups before it
\* spent left the headroom of a call (what one group then spends is not bounded by
\* it); and the cost reported is that of every call that used tokens, or there is
\* none (llm_config.py:147, "never $0 or a guessed figure").
SpendingIsAccountedFor ==
  /\ \A i \in DOMAIN GroupIds :
       trace[GroupIds[i]] # <<>> => ~OutOfBudget(CallsOfFirst(i - 1))
  /\ Cost(AllCalls) # None => Cost(AllCalls) = Spent(AllCalls)

\* generate() ends, whatever the deployments answer.
GenerateEnds == <>(mode \in {"returned", "raised"})
================================================================================
