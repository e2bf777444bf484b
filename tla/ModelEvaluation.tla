----------------------------- MODULE ModelEvaluation -----------------------------
(***************************************************************************)
(* One forecasting key through training and evaluation                     *)
(* (parallel/key_workflow.py: train_key, evaluate_key; model_trainer.py,   *)
(* hyperparameter_tuner.py, evaluation_pipeline.py, backtest_engine.py,    *)
(* forecast_generator.py): each candidate model is trained on the key's    *)
(* series, backtested on folds of it, asked for a forward forecast, and    *)
(* that forecast judged by the elimination rules.                          *)
(***************************************************************************)
EXTENDS ForecastModels, SeriesPreparation

CONSTANTS
  Requests,   \* what a run may ask for: the models to try and the one to fall back on
  Decoded(_), \* what a library may answer for a series: sequences of values
  Changes(_), \* what a tree may answer: sequences of predicted changes
  FoldErrors, \* what a backtest may measure
  Widths      \* how wide the intervals of a forecast may be, relative to its level

FaultKinds == IntakeFaults \cup
  {"library",  \* a model's library is not installed
   "fit",      \* a fit, or a forecast of the model it gave, raises
   "folds",    \* ... does in every fold of a backtest
   "search",   \* the parameter search raises
   "explain",  \* computing importances raises
   "drift",    \* a drift test raises
   "fallback"} \* the fallback cannot be fitted

\* errors: the five metrics of a backtest, None where it measured none.
Metrics == {"mape", "wmape", "rmse", "mae", "smape"}
None == -1
NothingMeasured == [m \in Metrics |-> None]

ASSUME EvaluationAssumption ==
  /\ Faults \subseteq FaultKinds
  /\ Requests \subseteq [models: SUBSET STRING, fallback: STRING]
  /\ FoldErrors \subseteq [Metrics -> Nat \cup {None}]
  /\ Widths \subseteq Nat

VARIABLES
  request,     \* KeyWorkflowConfig.selected_models and ModelConfig.fallback_model
  training,    \* TrainingReport.results
  evaluation   \* EvaluationReport.results

evaluationVars == <<request, training, evaluation>>

Stages == {"train", "evaluate", "explain", "rank", "select", "done"}

n == Len(series.values)

Candidates == EnabledModels(request.models)

\* _apply_fallback_model(): whatever name the user gives takes the configured
\* default's place; nobody looks whether it is registered, or what kind it is.
Fallback == request.fallback
--------------------------------------------------------------------------------
TrainedRecords ==
  [model: Names, status: {"trained", "failed", "skipped", "unavailable"}, tuned: BOOLEAN]

\* A forecast is <<>> where the pair has none.
Results ==
  [model: Names, status: {"survived", "eliminated", "failed"},
   folds: Nat, errors: FoldErrors \cup {NothingMeasured},
   forecast: Seq(Int \cup {NaN}), width: Widths \cup {None}, judged: BOOLEAN, failed: SUBSET Rules]

EvaluationTypeOK ==
  /\ request \in Requests
  /\ stage \in IntakeStages \cup Stages
  /\ Range(training) \subseteq TrainedRecords
  /\ Range(evaluation) \subseteq Results

EvaluationInit ==
  /\ request \in Requests
  /\ training = <<>>
  /\ evaluation = <<>>
--------------------------------------------------------------------------------
\* HyperparameterTuner.tune(): the trees alone, on 48 observations or more.
Tunes(spec) == spec.searches /\ spec.family = "tree" /\ n >= 48

\* (mutant) a model is trained on whatever history there is
TrainAnyLength(spec) ==
  \/ /\ "library" \in Faults /\ spec.family # "naive"
     /\ training' = Append(training, [model |-> spec.name, status |-> "unavailable", tuned |-> FALSE])
  \/ training' = Append(training, [model |-> spec.name, status |-> "trained", tuned |-> FALSE])

\* _train_one(): a search that raises leaves the defaults; a fit that raises
\* fails the pair.
TrainOne(spec) ==
  \E outcome \in {"trained", "failed", "skipped", "unavailable"}, tuned \in BOOLEAN :
    /\ outcome = "unavailable" => "library" \in Faults /\ spec.family # "naive"
    /\ outcome = "skipped" <=> outcome # "unavailable" /\ n < spec.least
    /\ outcome = "failed" => "fit" \in Faults
    /\ tuned => outcome = "trained" /\ Tunes(spec)
    /\ Tunes(spec) /\ outcome = "trained" /\ ~tuned => "search" \in Faults
    /\ training' = Append(training, [model |-> spec.name, status |-> outcome, tuned |-> tuned])

\* train_all() with one series.
TrainNext ==
  /\ stage = "train"
  /\ Len(training) < Len(Candidates)
  /\ TrainOne(Candidates[Len(training) + 1])
  /\ UNCHANGED <<preparationVars, request, evaluation>>

EndTraining ==
  /\ stage = "train"
  /\ Len(training) = Len(Candidates)
  /\ stage' = "evaluate"
  /\ UNCHANGED <<intakeVars, series, evaluationVars>>
--------------------------------------------------------------------------------
\* BacktestConfig: min_train_size, horizon (and step), max_windows.
MinTrain == 12
FoldHorizon == 3
MaxFolds == 5

\* _build_windows, rolling: the folds' training windows, as <<first, last>>.
Folds ==
  [i \in 1 .. Min({MaxFolds, Max({0, (n - MinTrain) \div FoldHorizon})}) |->
     <<(i - 1) * FoldHorizon + 1, (i - 1) * FoldHorizon + MinTrain>>]

\* run(): every fold is fitted afresh, one that raises is left out.  Folds fail
\* together here; predictions that are all NaN are scored and measure nothing.
Backtest(k, errors) ==
  \/ k = Len(Folds) /\ k > 0 /\ errors \in FoldErrors
  \/ k = 0 /\ (Folds = <<>> \/ "folds" \in Faults) /\ errors = NothingMeasured

\* What predict() may return over the horizon, by what the adapters do.
Answers(spec) ==
  CASE spec.family = "tree" -> {TreeForecast(series.values, c) : c \in Changes(series)}
    [] spec.family = "tft" -> {TftForecast(d, series.horizon) : d \in Decoded(series)}
    [] spec.family = "naive" -> {SeasonalNaive(series.values, series.horizon)}
    [] OTHER -> Decoded(series)

\* ArimaModel and ProphetModel give intervals.
IntervalWidths(spec) == IF spec.family \in {"arima", "prophet"} THEN Widths ELSE {None}

\* generate() trims a longer answer, and refuses one short of the horizon; what
\* it leaves is judged.
Judged(answer) ==
  LET forecast == SubSeq(answer, 1, series.horizon)
      ruling == Validate(series, forecast)
  IN  [status |-> IF ruling.failed = {} THEN "survived" ELSE "eliminated",
       forecast |-> forecast, judged |-> ruling.judged, failed |-> ruling.failed]

Outcomes(spec) ==
  {Judged(answer) : answer \in {a \in Answers(spec) : Len(a) >= series.horizon}}
    \cup {[status |-> "failed", forecast |-> <<>>, judged |-> FALSE, failed |-> {}] :
            a \in {b \in Answers(spec) : Len(b) < series.horizon \/ "fit" \in Faults}}

\* _evaluate_one()
EvaluateOne(spec) ==
  \E outcome \in Outcomes(spec), k \in {0, Len(Folds)},
     errors \in FoldErrors \cup {NothingMeasured}, width \in IntervalWidths(spec) \cup {None} :
    /\ width = None <=> outcome.status = "failed" \/ IntervalWidths(spec) = {None}
    /\ Backtest(k, errors)
    /\ evaluation' = Append(evaluation,
         [model |-> spec.name, status |-> outcome.status, folds |-> k, errors |-> errors,
          forecast |-> outcome.forecast, width |-> width, judged |-> outcome.judged,
          failed |-> outcome.failed])

\* trained_models(): what never trained has nothing to evaluate.
Evaluable == At(training, {i \in DOMAIN training : training[i].status = "trained"})

EvaluateNext ==
  /\ stage = "evaluate"
  /\ Len(evaluation) < Len(Evaluable)
  /\ EvaluateOne(SpecOf(Evaluable[Len(evaluation) + 1].model))
  /\ UNCHANGED <<preparationVars, request, training>>

EndEvaluation ==
  /\ stage = "evaluate"
  /\ Len(evaluation) = Len(Evaluable)
  /\ stage' = "explain"
  /\ UNCHANGED <<intakeVars, series, evaluationVars>>

\* surviving_models()
Survivors == At(evaluation, {i \in DOMAIN evaluation : evaluation[i].status = "survived"})
================================================================================
