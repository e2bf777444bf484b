--------------------------- MODULE ForwardValidation ---------------------------
(***************************************************************************)
(* The elimination rules a forward forecast must pass                      *)
(* (s06_evaluation/forward_validator.py, validation_rules.py,              *)
(* reference_window.py) over sequences of integers.  Ratios of standard    *)
(* deviations are compared as ratios of variances, every fraction is       *)
(* multiplied out, and NaN makes a comparison false, as numpy's does.      *)
(***************************************************************************)
EXTENDS Integers, SequencesExt

CONSTANT NaN  \* a value that is not a number

ASSUME NaNAssumption == NaN \notin Int

Frequencies == {"Daily", "Weekly", "Monthly", "Quarterly", "Yearly", "Irregular"}

MinHistory == 12
SeasonalLag == 12
--------------------------------------------------------------------------------
\* numpy on integers.
Abs(x) == IF x < 0 THEN -x ELSE x

\* The elements of a sequence at some of its positions, in order.
At(s, places) ==
  LET kept[i \in 0 .. Len(s)] ==
        IF i = 0 THEN <<>> ELSE IF i \in places THEN Append(kept[i - 1], s[i]) ELSE kept[i - 1]
  IN  kept[Len(s)]

Finite(s) == At(s, {i \in DOMAIN s : s[i] # NaN})
IsFinite(s) == NaN \notin Range(s)
Total(s) ==
  LET sum[i \in 0 .. Len(s)] == IF i = 0 THEN 0 ELSE sum[i - 1] + s[i] IN sum[Len(s)]
Low(s) == Min(Range(s))
High(s) == Max(Range(s))
Latest(s, n) == SubSeq(s, Len(s) - n + 1, Len(s))

\* n^2 times the variance of n values, and the variance in thousandths.
Spread(s) == Len(s) * Total([i \in DOMAIN s |-> s[i] * s[i]]) - Total(s) * Total(s)
Variance(s) == (1000 * Spread(s)) \div (Len(s) * Len(s))

\* The square of the coefficient of variation, times 10^5.
RelativeVariance(s) ==
  (100 * Variance(s) * Len(s)) \div Max({1, (Total(s) * Total(s)) \div Len(s)})

\* The k-th of the values in ascending order.
Smallest(s, k) ==
  CHOOSE x \in Range(s) :
    /\ Cardinality({i \in DOMAIN s : s[i] < x}) < k
    /\ k <= Cardinality({i \in DOMAIN s : s[i] <= x})

\* A hundred times the p-th percentile, interpolated.
Percentile(s, p) ==
  LET at == (Len(s) - 1) * p
      i == at \div 100
  IN  Smallest(s, i + 1) * (100 - (at % 100))
        + (IF at % 100 = 0 THEN 0 ELSE Smallest(s, i + 2) * (at % 100))

\* The least-squares slope relative to the level, its size in thousandths.
RelativeSlope(s) ==
  LET n == Len(s)
      weighted == n * Total([i \in DOMAIN s |-> i * s[i]]) - Total(s) * ((n * (n + 1)) \div 2)
      scale == (n * n * (n * n - 1)) \div 12
  IN  (1000 * n * Abs(weighted)) \div (scale * Abs(Total(s)))
--------------------------------------------------------------------------------
\* reference_window.py
SeasonalPeriod(frequency) ==
  CASE frequency = "Daily" -> 7
    [] frequency = "Weekly" -> 52
    [] frequency = "Quarterly" -> 4
    [] frequency = "Yearly" -> 1
    [] OTHER -> 12

ReferenceWindowLength(n, frequency, horizon, minPeriods) ==
  Min({n, Max({2 * SeasonalPeriod(frequency), 3 * Max({horizon, 0}), minPeriods})})

RecentReference(history, frequency, horizon, minPeriods) ==
  Latest(history, ReferenceWindowLength(Len(history), frequency, horizon, minPeriods))
--------------------------------------------------------------------------------
\* The rules: what each rejects, h the history it is handed, f the forecast.
NonFiniteForecast(h, f) == ~IsFinite(f)

ExcessiveVolatility(h, f) == IsFinite(f) /\ 4 * Variance(f) > 25 * Variance(h) /\ Spread(h) # 0

\* (mutant) a history without spread passes, as in the rules beside this one
SpikeUnlessFlat(h, f) ==
  LET low == Percentile(h, 1)
      high == Percentile(h, 99)
  IN  /\ high # low
      /\ \E x \in Range(Finite(f)) :
           400 * x < 4 * low - (high - low) \/ 400 * x > 4 * high + (high - low)

\* Values outside the 1st to 99th percentile, widened by a quarter of that band.
PercentileSpike(h, f) ==
  LET low == Percentile(h, 1)
      high == Percentile(h, 99)
  IN  \E x \in Range(Finite(f)) :
        400 * x < 4 * low - (high - low) \/ 400 * x > 4 * high + (high - low)

IqrBounds(h, f) ==
  LET q1 == Percentile(h, 25)
      q3 == Percentile(h, 75)
  IN  /\ q3 # q1
      /\ \E x \in Range(Finite(f)) :
           100 * x < q1 - 3 * (q3 - q1) \/ 100 * x > q3 + 3 * (q3 - q1)

\* The forecast's mean against the last twelve observations', beyond 1.5 times.
AbnormalGrowth(h, f) ==
  LET recent == Latest(h, Min({12, Len(h)}))
      level == Abs(Total(f)) * Len(recent)
      before == Abs(Total(recent)) * Len(f)
  IN  IsFinite(f) /\ Total(recent) # 0 /\ (2 * level > 3 * before \/ 3 * level < 2 * before)

\* Coefficients of variation, beyond 3 times.
ForecastVariance(h, f) ==
  /\ IsFinite(f)
  /\ Total(h) # 0 /\ Total(f) # 0 /\ Spread(h) # 0
  /\ RelativeVariance(f) > 9 * RelativeVariance(h)

FlatForecast(h, f) == IsFinite(f) /\ 400 * Variance(f) < Variance(h)

ExcessiveSmoothing(h, f) == IsFinite(f) /\ 400 * Variance(f) < 9 * Variance(h)

\* Autocorrelation at the seasonal lag of at least 0.3.
IsSeasonal(h) ==
  LET n == Len(h)
      centred == [i \in DOMAIN h |-> h[i] - Total(h) \div n]
      lagged == [i \in 1 .. n - SeasonalLag |-> centred[i] * centred[i + SeasonalLag]]
      squares == Total([i \in DOMAIN h |-> centred[i] * centred[i]])
  IN  squares # 0 /\ 10 * Total(lagged) >= 3 * squares

\* A seasonal history, and a forecast of less than a quarter of its swing.
MissingSeasonality(h, f) ==
  /\ IsFinite(f)
  /\ Len(h) >= 2 * SeasonalLag
  /\ IsSeasonal(h)
  /\ LET cycle == Latest(h, SeasonalLag)
         swing == High(cycle) - Low(cycle)
     IN  swing # 0 /\ 4 * (High(f) - Low(f)) < swing

\* A slope of 5% of the level a period, and a forecast that keeps less than a tenth.
MissingTrend(h, f) ==
  /\ IsFinite(f)
  /\ Len(h) >= 2 /\ Len(f) >= 2 /\ Total(h) # 0 /\ Total(f) # 0
  /\ RelativeSlope(h) >= 50
  /\ 10 * RelativeSlope(f) < RelativeSlope(h)
--------------------------------------------------------------------------------
\* Rules that judge the forecast against the recent window only.
WindowedRules ==
  {"volatility", "spikes", "iqr_bounds", "variance", "flat", "smoothing", "seasonality"}

Rules == WindowedRules \cup {"non_finite", "growth", "trend"}

Rejects(rule, h, f) ==
  CASE rule = "non_finite" -> NonFiniteForecast(h, f)
    [] rule = "volatility" -> ExcessiveVolatility(h, f)
    [] rule = "spikes" -> PercentileSpike(h, f)
    [] rule = "iqr_bounds" -> IqrBounds(h, f)
    [] rule = "growth" -> AbnormalGrowth(h, f)
    [] rule = "variance" -> ForecastVariance(h, f)
    [] rule = "flat" -> FlatForecast(h, f)
    [] rule = "smoothing" -> ExcessiveSmoothing(h, f)
    [] rule = "seasonality" -> MissingSeasonality(h, f)
    [] rule = "trend" -> MissingTrend(h, f)

\* ForwardForecastValidator.validate: a history too short leaves the forecast
\* unjudged; otherwise every rule runs, whatever the ones before it found.
Validate(series, forecast) ==
  LET history == Finite(series.values)
      recent == RecentReference(history, series.frequency, Len(forecast), MinHistory)
      failed == {r \in Rules : Rejects(r, IF r \in WindowedRules THEN recent ELSE history, forecast)}
  IN  IF Len(history) < MinHistory \/ forecast = <<>>
        THEN [judged |-> FALSE, failed |-> {}]
        ELSE [judged |-> TRUE, failed |-> failed]
================================================================================
