-------------------------- MODULE ProductionSelection --------------------------
(***************************************************************************)
(* The decision for one key, after evaluation (key_workflow.py,            *)
(* explain_key and rank_select_key; shap_engine.py, model_ranker.py,       *)
(* stability_scorer.py, drift_validator.py, production_selector.py): the   *)
(* survivors are explained, ranked by a composite score and walked best    *)
(* first until one passes drift validation; a fallback model stands in     *)
(* when none does.                                                         *)
(*                                                                         *)
(* Scores are in ten-thousandths, rounded down.                            *)
(***************************************************************************)
EXTENDS ModelEvaluation

CONSTANTS
  Importances,  \* the shares of importance a model may give its features
  Agreements    \* what comparing perturbed importances may yield, None among them

ASSUME SelectionAssumption ==
  /\ Agreements \subseteq 0 .. 100 \cup {None}
  /\ Importances \subseteq Seq([feature: STRING, share: Nat])

VARIABLES
  explanations, \* ExplainabilityReport.results
  ranking,      \* the key's rankings, best first
  rejected,     \* rejected_candidates
  selection     \* the key's ProductionModelResult

decisionVars == <<explanations, ranking, rejected, selection>>
vars == <<preparationVars, evaluationVars, decisionVars>>

Explanations ==
  [model: Names, method: {"fallback", "importance", "permutation"},
   point: Importances \cup {<<>>}, plausibility: 0 .. 100, score: 0 .. 100]

FullScore == 10000

Ranked == [model: Names, backtest: 0 .. FullScore, stability: 0 .. FullScore, shap: 0 .. FullScore,
           composite: 0 .. FullScore, forecast: Seq(Int \cup {NaN})]

Algorithms == {"psi", "wasserstein", "kolmogorov_smirnov", "jensen_shannon"}

Rejections == [model: Names, algorithm: Algorithms \cup {"none"}]

NoSelection == [status |-> "pending"]

Selections ==
  [status: {"selected", "fallback", "no_model"}, model: Names \cup {"none"},
   algorithm: Algorithms \cup {"none"}, forecast: Seq(Int \cup {NaN})]

TypeOK ==
  /\ PreparationTypeOK
  /\ EvaluationTypeOK
  /\ Range(explanations) \subseteq Explanations
  /\ Range(ranking) \subseteq Ranked
  /\ Range(rejected) \subseteq Rejections
  /\ selection \in Selections \cup {NoSelection}

Init ==
  /\ PreparationInit
  /\ EvaluationInit
  /\ explanations = <<>>
  /\ ranking = <<>>
  /\ rejected = <<>>
  /\ selection = NoSelection
--------------------------------------------------------------------------------
\* Explainability.  _plausibility(): the share of importance on features that
\* correlate with the target, over a frame of that many rows; a frame not as long
\* as the target's is never compared.
Plausibility(point, rows) ==
  LET shares == Column(point, "share")
      plausible == {i \in DOMAIN point : rows = n /\ point[i].feature \in series.correlated}
  IN  IF Total(shares) = 0 THEN 100
                           ELSE (100 * Total(At(shares, plausible))) \div Total(shares)

\* (mutant) ... counts as an agreement of its own
ScoreWithoutNone(plausibility, window, horizon) ==
  (30 * plausibility + 40 * window + 30 * horizon) \div 100

\* _assemble(): a component that could not be measured gives up its weight.
ExplanationScore(plausibility, window, horizon) ==
  LET weight == 30 + (IF window = None THEN 0 ELSE 40) + (IF horizon = None THEN 0 ELSE 30)
      sum == 30 * plausibility + (IF window = None THEN 0 ELSE 40 * window)
                               + (IF horizon = None THEN 0 ELSE 30 * horizon)
  IN  sum \div weight

\* _fallback()
NoExplanation(model) ==
  [model |-> model, method |-> "fallback", point |-> <<>>, plausibility |-> 100, score |-> 100]

\* _score_permutation(): regressors to permute, and a holdout to permute them on.
Permutable(spec) ==
  LET holdout == Min({Max({3, n \div 5}), 12})
  IN  spec.regressors /\ series.regressors /\ n > holdout + spec.least

\* compute(): a tree's importances come with its design matrix, which has lost the
\* rows without a full lag; every other model's with the series' own frame.
Explain(spec) ==
  \E point \in Importances, window \in Agreements, horizon \in Agreements :
    LET tree == spec.family = "tree"
        rows == IF tree THEN n - DroppedRows(n) ELSE n
        record == [model |-> spec.name,
                   method |-> IF tree THEN "importance" ELSE "permutation",
                   point |-> point, plausibility |-> Plausibility(point, rows),
                   score |-> ExplanationScore(Plausibility(point, rows), window, horizon)]
    IN  \/ /\ tree \/ Permutable(spec)
           /\ explanations' = Append(explanations, record)
        \/ /\ "explain" \in Faults \/ ~(tree \/ Permutable(spec))
           /\ explanations' = Append(explanations, NoExplanation(spec.name))

\* generate_all()
ExplainNext ==
  /\ stage = "explain"
  /\ Len(explanations) < Len(Survivors)
  /\ Explain(SpecOf(Survivors[Len(explanations) + 1].model))
  /\ UNCHANGED <<preparationVars, evaluationVars, ranking, rejected, selection>>

EndExplanation ==
  /\ stage = "explain"
  /\ Len(explanations) = Len(Survivors)
  /\ stage' = "rank"
  /\ UNCHANGED <<intakeVars, series, evaluationVars, decisionVars>>
--------------------------------------------------------------------------------
\* Ranking.  (mutant) the higher raw value scores higher
Normalize(raw) ==
  LET values == Range(raw)
  IN  [m \in DOMAIN raw |->
         IF Min(values) = Max(values) THEN 100
         ELSE (100 * (raw[m] - Min(values))) \div (Max(values) - Min(values))]

\* _inverse_normalize(): the lowest raw value scores highest, in percent.
InverseNormalize(raw) ==
  LET values == Range(raw)
  IN  [m \in DOMAIN raw |->
         IF Min(values) = Max(values) THEN 100
         ELSE (100 * (Max(values) - raw[m])) \div (Max(values) - Min(values))]

MetricWeight(metric) ==
  CASE metric = "wmape" -> 35 [] metric = "rmse" -> 20 [] OTHER -> 15

OverMetrics(f) == f["mape"] + f["wmape"] + f["rmse"] + f["mae"] + f["smape"]

\* _score_backtest(), by position among the survivors: each metric is normalised
\* over those that have it and combined over those a model has.  A backtest that
\* measured nothing scores zero.
BacktestScore(i) ==
  LET measured(m) == {j \in DOMAIN Survivors : Survivors[j].errors[m] # None}
      normal(m) == InverseNormalize([j \in measured(m) |-> Survivors[j].errors[m]])
      weight == [m \in Metrics |-> IF i \in measured(m) THEN MetricWeight(m) ELSE 0]
      score == [m \in Metrics |-> IF i \in measured(m) THEN weight[m] * normal(m)[i] ELSE 0]
  IN  IF OverMetrics(weight) = 0 THEN 0 ELSE (100 * OverMetrics(score)) \div OverMetrics(weight)

\* _measure(): the dispersion and the jaggedness of a forecast's finite values,
\* relative to their level where there is one; the dispersion squared.
Dispersion(forecast) ==
  LET s == Finite(forecast)
  IN  IF s = <<>> THEN 0 ELSE IF Total(s) = 0 THEN Variance(s) ELSE RelativeVariance(s)

Jaggedness(forecast) ==
  LET s == Finite(forecast)
      bends == Total([i \in 1 .. Len(s) - 2 |-> Abs(s[i + 2] - 2 * s[i + 1] + s[i])])
  IN  IF Len(s) < 3 THEN 0 ELSE IF Total(s) = 0 THEN bends ELSE (1000 * bends) \div Abs(Total(s))

\* score_group(): a model without intervals scores a neutral half for them.
StabilityScore(i) ==
  LET forecast(j) == Survivors[j].forecast
      dispersion == InverseNormalize([j \in DOMAIN Survivors |-> Dispersion(forecast(j))])
      jaggedness == InverseNormalize([j \in DOMAIN Survivors |-> Jaggedness(forecast(j))])
      widths == {j \in DOMAIN Survivors : Survivors[j].width # None}
      interval == IF i \in widths THEN InverseNormalize([j \in widths |-> Survivors[j].width])[i]
                                  ELSE 50
  IN  40 * dispersion[i] + 35 * jaggedness[i] + 25 * interval

\* _rank_group()
RankOne(i) ==
  LET backtest == BacktestScore(i)
      stability == StabilityScore(i)
      shap == 100 * explanations[i].score
  IN  [model |-> Survivors[i].model, backtest |-> backtest, stability |-> stability,
       shap |-> shap, composite |-> (50 * backtest + 25 * stability + 25 * shap) \div 100,
       forecast |-> Survivors[i].forecast]

\* (mutant) the lowest score first
Behind(scores, i) ==
  {j \in DOMAIN scores : scores[j] < scores[i] \/ (scores[j] = scores[i] /\ j < i)}

\* A stable descending sort: how many come before the i-th.
Ahead(scores, i) ==
  {j \in DOMAIN scores : scores[j] > scores[i] \/ (scores[j] = scores[i] /\ j < i)}

Ranking ==
  LET all == [i \in DOMAIN Survivors |-> RankOne(i)]
      scores == [i \in DOMAIN all |-> all[i].composite]
  IN  [r \in DOMAIN all |-> all[CHOOSE i \in DOMAIN all : Cardinality(Ahead(scores, i)) = r - 1]]

Rank ==
  /\ stage = "rank"
  /\ ranking' = Ranking
  /\ stage' = "select"
  /\ UNCHANGED <<intakeVars, series, evaluationVars, explanations, rejected, selection>>
--------------------------------------------------------------------------------
\* Drift.  (mutant) the whole history
WholeHistory(forecast) == Finite(series.values)

\* _extract_distributions(): the recent window, by the forecast's length.
DriftWindow(forecast) ==
  RecentReference(Finite(series.values), series.frequency, Len(Finite(forecast)), MinHistory)

\* DriftAlgorithmSelector.select(); normality is the sample's own business.
PossibleAlgorithms(history) ==
  LET size == Len(history)
      distinct == Cardinality(Range(history))
  IN  IF size < 20 \/ distinct < 8 \/ 100 * distinct < 15 * size THEN {"psi"}
      ELSE {"wasserstein", IF size >= 30 THEN "kolmogorov_smirnov" ELSE "jensen_shannon"}

\* Whether a statistic may exceed its threshold: PSI cannot on a constant history,
\* which gives it no bins to compare.
MayDrift(algorithm, history) == algorithm = "psi" => Cardinality(Range(history)) > 1

Candidate == ranking[Len(rejected) + 1]

Reject(algorithm) ==
  /\ rejected' = Append(rejected, [model |-> Candidate.model, algorithm |-> algorithm])
  /\ UNCHANGED <<stage, selection>>

Conclude(status, model, algorithm, forecast) ==
  /\ selection' = [status |-> status, model |-> model, algorithm |-> algorithm,
                   forecast |-> forecast]
  /\ stage' = "done"
  /\ UNCHANGED rejected

\* _select_one(), one candidate: a validation that raises, as it does on a forecast
\* without a finite value, rejects the candidate and goes on to the next.
JudgeCandidate ==
  /\ stage = "select"
  /\ Len(rejected) < Len(ranking)
  /\ LET history == DriftWindow(Candidate.forecast)
     IN  \/ /\ "drift" \in Faults \/ Finite(Candidate.forecast) = <<>>
            /\ Reject("none")
         \/ /\ Finite(Candidate.forecast) # <<>>
            /\ \E algorithm \in PossibleAlgorithms(history) :
                 \/ MayDrift(algorithm, history) /\ Reject(algorithm)
                 \/ Conclude("selected", Candidate.model, algorithm, Candidate.forecast)
  /\ UNCHANGED <<intakeVars, series, evaluationVars, explanations, ranking>>

\* (mutant) one rejection is enough
FallBackAtOnce ==
  /\ stage = "select"
  /\ rejected # <<>> \/ ranking = <<>>
  /\ \/ /\ Fallback \in Names
        /\ \E forecast \in Answers(SpecOf(Fallback)) :
             Conclude("fallback", Fallback, "none", forecast)
     \/ Fallback \notin Names /\ Conclude("no_model", "none", "none", <<>>)
  /\ UNCHANGED <<intakeVars, series, evaluationVars, explanations, ranking>>

\* _use_fallback(): whichever registered model the run names, enabled or not, is
\* fitted on the spot to whatever history there is, and what it answers, of
\* whatever length, is shipped unvalidated.
UseFallback ==
  /\ stage = "select"
  /\ Len(rejected) = Len(ranking)
  /\ \/ /\ Fallback \in Names
        /\ \E forecast \in Answers(SpecOf(Fallback)) :
             Conclude("fallback", Fallback, "none", forecast)
     \/ /\ Fallback \notin Names \/ "fallback" \in Faults
        /\ Conclude("no_model", "none", "none", <<>>)
  /\ UNCHANGED <<intakeVars, series, evaluationVars, explanations, ranking>>

Done == stage \in {"done", "failed"} /\ UNCHANGED vars

Decided == selection # NoSelection

Next ==
  \/ PreparationNext /\ UNCHANGED <<evaluationVars, decisionVars>>
  \/ (TrainNext \/ EndTraining \/ EvaluateNext \/ EndEvaluation) /\ UNCHANGED decisionVars
  \/ ExplainNext \/ EndExplanation
  \/ Rank
  \/ JudgeCandidate \/ UseFallback
  \/ Done

Spec == Init /\ [][Next]_vars
--------------------------------------------------------------------------------
Answered == Decided /\ selection.status \in {"selected", "fallback"}

\* What the engine can answer for: a forecast that was evaluated, or the default
\* fallback's.  Any other model a run falls back on ships what it predicts, missing
\* values and all (run_pipeline.py:246-251, production_selector.py:180).
Vouched ==
  /\ Answered
  /\ selection.status = "selected" \/ SpecOf(selection.model).family = "naive"

\* The evaluation of the model a position of the ranking is about.
Evidence(r) == CHOOSE e \in Range(Survivors) : e.model = ranking[r].model

\* Every model that survived evaluation is in the ranking, once, and the fallback
\* stands in only when each of them has been tried and rejected
\* (production_selector.py:142, "every ranked candidate failed drift validation, or
\* there were none to begin with").
NoSurvivorIsLost ==
  /\ stage \in {"select", "done"} =>
       /\ Len(ranking) = Len(Survivors)
       /\ {r.model : r \in Range(ranking)} = {r.model : r \in Range(Survivors)}
  /\ Decided /\ selection.status # "selected" =>
       {r.model : r \in Range(rejected)} = {r.model : r \in Range(Survivors)}

\* A selected model passed everything before: it was trained, judged on the forecast
\* that is now shipped, broke no rule, and every model with a higher composite score
\* was rejected by its own drift validation; and its drift was measured against the
\* very window its forecast was judged in (drift_validator.py:83, "the identical
\* window").
WinnerIsTheBestThatHeld ==
  Decided /\ selection.status = "selected" =>
    /\ DriftWindow(selection.forecast) =
         RecentReference(Finite(series.values), series.frequency, series.horizon, MinHistory)
    /\ \E r \in DOMAIN ranking :
         /\ ranking[r].model = selection.model
         /\ Evidence(r).judged
         /\ Validate(series, selection.forecast).failed = {}
         /\ \E t \in Range(training) : t.model = selection.model /\ t.status = "trained"
         /\ \A q \in DOMAIN ranking :
              ranking[q].composite > ranking[r].composite =>
                ranking[q].model \in {x.model : x \in Range(rejected)}

\* What a selected model or the seasonal baseline ships covers the horizon with
\* numbers, although neither drift validation nor the fallback checks either, and a
\* short history is not judged at all.  Of another fallback nothing of the kind holds.
AnswerIsUsable ==
  Vouched => Len(selection.forecast) = series.horizon /\ IsFinite(selection.forecast)

\* A history that has been flat over its recent window gets no other level from a
\* selected model or the seasonal baseline: every rule but one abstains without a
\* spread to measure against, and PSI never drifts on it (validation_rules.py:120,
\* "the flat/smoothing rules cover that case instead").
FlatHistoryIsProtected ==
  Vouched =>
    LET window == Range(DriftWindow(selection.forecast))
    IN  Cardinality(window) = 1 => Range(selection.forecast) = window

\* Of two models with the same kinds of evidence, one no worse in any of it has no
\* lower a composite score.
BetterIsRankedNoLower ==
  stage \in {"select", "done"} =>
    \A q, r \in DOMAIN ranking :
      LET a == Evidence(q)
          b == Evidence(r)
      IN  /\ \A m \in Metrics : a.errors[m] <= b.errors[m] /\ (a.errors[m] = None <=> b.errors[m] = None)
          /\ a.width <= b.width /\ (a.width = None <=> b.width = None)
          /\ Dispersion(a.forecast) <= Dispersion(b.forecast)
          /\ Jaggedness(a.forecast) <= Jaggedness(b.forecast)
          /\ ranking[q].shap >= ranking[r].shap
          => ranking[q].composite >= ranking[r].composite
================================================================================
