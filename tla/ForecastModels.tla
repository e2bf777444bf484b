----------------------------- MODULE ForecastModels -----------------------------
(***************************************************************************)
(* The candidate models (config/model_config.py, s05_models): what a       *)
(* registry declares of each, and what the adapters' own code adds to the  *)
(* libraries they wrap -- the features a tree is given, the forecast it    *)
(* rebuilds from predicted changes, the fallback's repetition of a cycle.  *)
(***************************************************************************)
EXTENDS ForwardValidation

CONSTANT
  Registry  \* the declared models, in order

Families == {"tree", "arima", "prophet", "tft", "naive"}

\* least: min_observations.  regressors: supports_features.
Specs == [name: STRING, family: Families, enabled: BOOLEAN, least: Nat,
          regressors: BOOLEAN, searches: BOOLEAN]

ASSUME ModelsAssumption ==
  /\ Registry \in Seq(Specs)
  /\ IsInjective([i \in DOMAIN Registry |-> Registry[i].name])

\* What the declared registry keeps to: a model that may compete wants as long a
\* history as the elimination rules do.
HistoryIsJudged ==
  \A spec \in Range(Registry) : spec.enabled => spec.least >= MinHistory

Names == {Registry[i].name : i \in DOMAIN Registry}

\* find()
SpecOf(name) == CHOOSE spec \in Range(Registry) : spec.name = name

\* enabled_models(): the enabled models the run asks for, in registry order.
EnabledModels(models) ==
  At(Registry, {i \in DOMAIN Registry : Registry[i].enabled /\ Registry[i].name \in models})
--------------------------------------------------------------------------------
\* SupervisedTreeModel: DEFAULT_LAGS, DEFAULT_ROLLING_WINDOWS, MIN_TRAINING_ROWS.
Lags == {1, 2, 3, 12}
Windows == {3, 6}
MinTrainingRows == 8

\* _fit_to_history: the spans a series of n observations leaves rows enough for.
FitToHistory(spans, n) ==
  LET usable == {s \in spans : n - s >= MinTrainingRows}
  IN  IF spans = {} THEN {} ELSE IF usable = {} THEN {1} ELSE usable

\* build_design_matrix: a row without its longest span is dropped, and the first
\* row always is, having no change to predict; unless that leaves none.
DroppedRows(n) ==
  LET first == Max(FitToHistory(Lags, n) \cup FitToHistory(Windows, n) \cup {1})
  IN  IF first < n THEN first ELSE 0

\* predict(): the levels rebuilt from the changes predicted one step at a time.
TreeForecast(values, changes) ==
  LET level[i \in 0 .. Len(changes)] ==
        IF i = 0 THEN values[Len(values)] ELSE level[i - 1] + changes[i]
  IN  [i \in DOMAIN changes |-> level[i]]

\* TemporalFusionTransformerModel.predict: the decoder's steps, the last one held.
TftForecast(decoded, horizon) ==
  [i \in 1 .. horizon |-> IF decoded = <<>> THEN 0 ELSE decoded[Min({i, Len(decoded)})]]

\* SeasonalNaiveModel: the last cycle over again, or the last value.
SeasonalNaive(values, horizon) ==
  LET cycle == Latest(values, IF Len(values) >= SeasonalLag THEN SeasonalLag ELSE 1)
  IN  [i \in 1 .. horizon |-> cycle[((i - 1) % Len(cycle)) + 1]]
================================================================================
