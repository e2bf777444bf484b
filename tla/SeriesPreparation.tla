--------------------------- MODULE SeriesPreparation ---------------------------
(***************************************************************************)
(* One upload from its metadata screen to a key's series: the verdict of   *)
(* the backend (metadata_interpreter.py, validation_engine.py), and the    *)
(* engine's first stages (run_pipeline.py, s01_preprocessing, s02_quality, *)
(* curated_validator.py), each of which may refuse the dataset.            *)
(*                                                                         *)
(* A row is a key, a date and a target.  A date is a day in a calendar of  *)
(* thirty-day months, a target a natural number; a cell may be empty or    *)
(* hold text that cannot be read.  Feature columns are only flags, so two  *)
(* rows are the same when these three cells are.                           *)
(***************************************************************************)
EXTENDS ForwardValidation

CONSTANTS
  Uploads,     \* the files users may upload, by name, with the columns they choose
  SampleSize,  \* SAMPLE_SIZE
  Faults       \* of IntakeFaults, and of what modules that extend this one name

\* "storage": writing or reading back the curated dataset fails
IntakeFaults == {"storage"}

Null == -1
Unreadable == -2
LastDay == 2000000
Cells == Nat \cup {Null, Unreadable}

\* readable: pandas can parse the file, and it has rows.  dates: the type pandas
\* gives the date column.  keyed: key columns are chosen (otherwise rows carry one
\* key).  columns: every declared column is there.  cloud: stages are tasks of
\* their own.  stored: CuratedStorageConfig.enabled.
ASSUME UploadsAssumption ==
  \A u \in Range(Uploads) :
    /\ {u.readable, u.keyed, u.columns, u.cloud, u.stored, u.features} \subseteq BOOLEAN
    /\ u.dates \in {"datetime", "text", "numeric"}
    /\ u.method \in {"sum", "mean", "last"}
    /\ u.horizon \in Nat \ {0}
    /\ u.rows \in Seq([key: Nat \cup {Null}, date: Unreadable .. LastDay - 1, target: Cells])
    /\ u.correlated \in SUBSET STRING
    /\ u.dates = "datetime" => \A r \in Range(u.rows) : r.date # Unreadable

ASSUME SampleSizeAssumption == SampleSize \in Nat \ {0, 1}

VARIABLES
  upload,     \* the name of the upload
  stage,      \* the stage under way
  verdict,    \* ForecastSuitability.status, of the backend
  frequency,  \* PipelineContext.frequency
  prepared,   \* PipelineContext.prepared_dataset, NoFrame where it is None
  groups,     \* the group ids of PipelineContext.groups
  failure,    \* why the run was refused
  series      \* the series of the key whose decision is followed

intakeVars == <<upload, verdict, frequency, prepared, groups, failure>>
preparationVars == <<intakeVars, stage, series>>

File == Uploads[upload]
Rows == File.rows

NoFrame == <<>>
NoSeries == [key |-> Null, values |-> <<>>, frequency |-> "Irregular", horizon |-> 1,
             regressors |-> FALSE, correlated |-> {}]

IntakeStages == {"validate", "load", "detect", "assess", "preprocess", "persist", "verify",
                 "generate", "build", "failed"}
Refusals == {"file", "columns", "unsuitable", "dates", "target", "empty", "short", "constant",
             "repeated", "storage", "no file", "no group"}

PreparationTypeOK ==
  /\ upload \in DOMAIN Uploads
  /\ verdict \in {"none", "READY", "WARNINGS", "NOT_SUITABLE"}
  /\ frequency \in Frequencies
  /\ Range(prepared) \subseteq [key: {r.key : r \in Range(Rows)}, date: Null .. LastDay - 1, target: Nat]
  /\ groups \subseteq {r.key : r \in Range(Rows)}
  /\ failure \in Refusals \cup {"none"}
  /\ stage = "failed" <=> failure # "none"
  /\ series.frequency \in Frequencies /\ Range(series.values) \subseteq Nat

PreparationInit ==
  /\ upload \in DOMAIN Uploads
  /\ stage = "validate"
  /\ verdict = "none"
  /\ frequency = "Irregular"
  /\ prepared = NoFrame
  /\ groups = {}
  /\ failure = "none"
  /\ series = NoSeries

Advance(next) == stage' = next /\ failure' = failure
Refuse(why) == stage' = "failed" /\ failure' = why
--------------------------------------------------------------------------------
\* Columns.
Column(rows, field) == [i \in DOMAIN rows |-> rows[i][field]]
Firsts(s) == {i \in DOMAIN s : \A j \in 1 .. i - 1 : s[j] # s[i]}
Present(cells) == At(cells, {i \in DOMAIN cells : cells[i] # Null})
Legible(cells) == At(cells, {i \in DOMAIN cells : cells[i] >= 0})
Numeric(cells) == Unreadable \notin Range(cells)

MinObservations == 12

\* Enough of the cells there can be read; the screen and the engine each declare
\* their own threshold, in percent.
Converts(cells, threshold) ==
  Present(cells) # <<>> /\ 100 * Len(Legible(cells)) >= threshold * Len(Present(cells))

CONVERSION_THRESHOLD == 95

\* (mutant) the engine asks for more than the screen does
EveryCell == 100

minimum_success_ratio == 95

\* FREQUENCY_BANDS, inclusive at both ends and with gaps between them.
Band(twiceMedian) ==
  CASE twiceMedian \in 0 .. 2 -> "Daily"
    [] twiceMedian \in 4 .. 18 -> "Weekly"
    [] twiceMedian \in 20 .. 90 -> "Monthly"
    [] twiceMedian \in 92 .. 270 -> "Quarterly"
    [] twiceMedian \in 272 .. 800 -> "Yearly"
    [] OTHER -> "Irregular"

\* detect(): the median gap of the distinct dates, all keys pooled; numbers are read
\* as nanoseconds, all on one day.
DetectedFrequency(file) ==
  LET dates == SortSeq(Legible(Column(file.rows, "date")), <)
      days == At(dates, Firsts(dates))
      gaps == SortSeq([i \in 1 .. Len(days) - 1 |->
                         IF file.dates = "numeric" THEN 0 ELSE days[i + 1] - days[i]], <)
      k == Len(gaps)
  IN  IF k = 0 THEN "Irregular"
      ELSE Band(gaps[(k + 1) \div 2] + gaps[(k \div 2) + 1])
--------------------------------------------------------------------------------
\* The metadata screen.  _sample(): a column longer than the sample is judged on
\* evenly spaced positions of it.
Sample(cells) ==
  LET there == Present(cells)
  IN  IF Len(there) <= SampleSize THEN there
      ELSE [i \in 1 .. SampleSize |-> there[((i - 1) * (Len(there) - 1)) \div (SampleSize - 1) + 1]]

\* _validate_date_column()
DateCheck(file) ==
  LET sample == Sample(Column(file.rows, "date"))
  IN  IF file.dates = "datetime" THEN "VALID"
      ELSE IF file.dates = "text" /\ Converts(sample, CONVERSION_THRESHOLD) THEN "CONVERTIBLE" ELSE "INVALID"

\* _validate_target_column(): only a numeric column can be found constant.
TargetCheck(file) ==
  LET cells == Column(file.rows, "target")
      sample == Sample(cells)
  IN  IF sample = <<>> THEN "INVALID"
      ELSE IF Numeric(cells) THEN IF Cardinality(Range(sample)) > 1 THEN "VALID" ELSE "INVALID"
      ELSE IF Converts(sample, CONVERSION_THRESHOLD) THEN "CONVERTIBLE" ELSE "INVALID"

\* The backend's own detector, a copy of the engine's.
ForecastFrequency(file) == DetectedFrequency(file)

\* _validate_frequency()
FrequencyCheck(file) ==
  LET grain == ForecastFrequency(file)
  IN  IF grain = "Monthly" THEN "VALID"
      ELSE IF grain \in {"Quarterly", "Yearly"} THEN "INVALID" ELSE "CONVERTIBLE"

\* _count_unique_keys(): a missing key counts as one of them.
UniqueKeys(file) == IF file.keyed THEN Cardinality(Range(Column(file.rows, "key"))) ELSE 1

\* _validate_business_keys(); a key column that is not there is a missing column.
BusinessKeysCheck(file) == IF UniqueKeys(file) = 0 THEN "INVALID" ELSE "VALID"

Suitability(file) ==
  LET checks == {DateCheck(file), TargetCheck(file), BusinessKeysCheck(file), FrequencyCheck(file)}
  IN  IF "INVALID" \in checks \/ Len(file.rows) < MinObservations THEN "NOT_SUITABLE"
      ELSE IF "CONVERTIBLE" \in checks THEN "WARNINGS" ELSE "READY"

\* POST /metadata/validate.  The verdict is the browser's to heed: deploy() does
\* not ask for it.
Validate_metadata ==
  /\ stage = "validate"
  /\ verdict' = IF ~File.readable THEN "none"
                ELSE IF ~File.columns THEN "NOT_SUITABLE" ELSE Suitability(File)
  /\ Advance("load")
  /\ UNCHANGED <<upload, frequency, prepared, groups, series>>
--------------------------------------------------------------------------------
\* The engine's stages.  DatasetLoader.load()
LoadDataset ==
  /\ stage = "load"
  /\ IF File.readable THEN Advance("detect") ELSE Refuse("file")
  /\ UNCHANGED <<upload, verdict, frequency, prepared, groups, series>>

\* _detect_frequency(): of the raw dataset.
DetectFrequency ==
  /\ stage = "detect"
  /\ IF File.columns THEN frequency' = DetectedFrequency(File) /\ Advance("assess")
                     ELSE UNCHANGED frequency /\ Refuse("columns")
  /\ UNCHANGED <<upload, verdict, prepared, groups, series>>

\* _count_duplicate_timestamps(), all but the first row of each key and date.
Repeats(rows) == DOMAIN rows \ Firsts([i \in DOMAIN rows |-> <<rows[i].key, rows[i].date>>])

\* _evaluate_suitability(): what blocks.
Forecastable(file) ==
  LET targets == Column(file.rows, "target")
      usable == Legible(targets)
  IN  /\ Len(usable) >= MinObservations
      /\ Cardinality(Range(usable)) > 1
      /\ file.dates # "numeric" /\ Legible(Column(file.rows, "date")) # <<>>
      /\ 10 * (Len(targets) - Len(usable)) <= Len(targets)

AssessQuality ==
  /\ stage = "assess"
  /\ IF Forecastable(File) THEN Advance("preprocess") ELSE Refuse("unsuitable")
  /\ UNCHANGED <<upload, verdict, frequency, prepared, groups, series>>
--------------------------------------------------------------------------------
\* DataPreprocessor.  _standardize_dates(): a real datetime column is left alone,
\* its empty cells with it.
Dated(file) ==
  IF file.dates = "datetime" THEN file.rows ELSE At(file.rows, {i \in DOMAIN file.rows : file.rows[i].date >= 0})

\* _remove_duplicates(): the first of each full row, by default.
Distinct(rows) == At(rows, Firsts(rows))

WithTarget(rows) == At(rows, {i \in DOMAIN rows : rows[i].target >= 0})

\* (mutant) repeated rows are kept
CleanOnce(file) == WithTarget(Dated(file))

\* ... and _handle_missing_values(), by default
Clean(file) == WithTarget(Distinct(Dated(file)))

Day(date) == IF date = Null THEN LastDay ELSE date  \* NaT sorts last
MonthStart(date) == 30 * (date \div 30)

\* (mutant) grouped before the dates are collapsed onto their month
MonthlyByDay(rows, method) ==
  LET dated == At(rows, {i \in DOMAIN rows : rows[i].key # Null /\ rows[i].date # Null})
  IN  [i \in DOMAIN dated |-> [dated[i] EXCEPT !.date = MonthStart(@)]]

\* MonthlyAggregator.aggregate(): groupby leaves out rows without a key or a date;
\* "last" is the last row of the file, which is not sorted yet.
Monthly(rows, method) ==
  LET dated == At(rows, {i \in DOMAIN rows : rows[i].key # Null /\ rows[i].date # Null})
      cells == [i \in DOMAIN dated |-> <<dated[i].key, MonthStart(dated[i].date)>>]
      of(c) == Column(At(dated, {i \in DOMAIN cells : cells[i] = c}), "target")
      value(s) == CASE method = "sum" -> Total(s)
                    [] method = "mean" -> Total(s) \div Len(s)
                    [] OTHER -> s[Len(s)]
      groupby == At(cells, Firsts(cells))
  IN  [i \in DOMAIN groupby |->
         [key |-> groupby[i][1], date |-> groupby[i][2], target |-> value(of(groupby[i]))]]

\* _sort(), by key and date, and stable; keys are numbered here.
Sorted(rows) ==
  LET before(i) ==
        {j \in DOMAIN rows :
           \/ rows[j].key < rows[i].key
           \/ rows[j].key = rows[i].key /\ Day(rows[j].date) < Day(rows[i].date)
           \/ rows[j].key = rows[i].key /\ Day(rows[j].date) = Day(rows[i].date) /\ j < i}
  IN  [r \in DOMAIN rows |-> rows[CHOOSE i \in DOMAIN rows : Cardinality(before(i)) = r - 1]]

\* prepare(): aggregated after cleaning, and only from a finer grain.
Curated(file, grain) ==
  Sorted(IF grain \in {"Daily", "Weekly"} THEN Monthly(Clean(file), file.method) ELSE Clean(file))

\* What prepare() refuses, in its order: the two conversions, then _assert_usable().
Objection(file, curated) ==
  LET dates == Column(file.rows, "date")
      targets == Column(Dated(file), "target")
  IN  IF file.dates # "datetime" /\ ~(file.dates = "text" /\ Converts(dates, minimum_success_ratio))
        THEN "dates"
      ELSE IF ~Numeric(Column(file.rows, "target")) /\ ~Converts(targets, minimum_success_ratio)
        THEN "target"
      ELSE IF curated = <<>> THEN "empty"
      ELSE IF Len(curated) < MinObservations THEN "short"
      ELSE IF Cardinality(Range(Column(curated, "target"))) = 1 THEN "constant" ELSE "none"

Preprocess ==
  /\ stage = "preprocess"
  /\ LET curated == Curated(File, frequency)
         objection == Objection(File, curated)
     IN  IF objection = "none" THEN prepared' = curated /\ Advance("persist")
                               ELSE UNCHANGED prepared /\ Refuse(objection)
  /\ UNCHANGED <<upload, verdict, frequency, groups, series>>

\* _persist_curated_dataset(); the file's contents are what prepare() returned.
PersistCurated ==
  /\ stage = "persist"
  /\ \/ Advance("verify")
     \/ File.stored /\ "storage" \in Faults /\ Refuse("storage")
  /\ UNCHANGED <<upload, verdict, frequency, prepared, groups, series>>

\* (mutant) no check before training
VerifyNothing ==
  /\ stage = "verify"
  /\ Advance("generate")
  /\ prepared' = IF File.cloud THEN NoFrame ELSE prepared
  /\ UNCHANGED <<upload, verdict, frequency, groups, series>>

\* CuratedDatasetValidator.validate().  A task's checkpoint leaves the frame out.
VerifyCurated ==
  /\ stage = "verify"
  /\ IF Repeats(prepared) = {} THEN Advance("generate") ELSE Refuse("repeated")
  /\ prepared' = IF File.cloud THEN NoFrame ELSE prepared
  /\ UNCHANGED <<upload, verdict, frequency, groups, series>>

\* GroupGenerator.generate(): a row without a key belongs to no group.
GroupKeys(frame) == {r.key : r \in Range(frame)} \ (IF File.keyed THEN {Null} ELSE {})

\* _generate_groups(): a task without the frame reads it back.
GenerateGroups ==
  /\ stage = "generate"
  /\ LET frame == IF prepared = NoFrame THEN Curated(File, frequency) ELSE prepared
     IN  \/ /\ prepared = NoFrame /\ (~File.stored \/ "storage" \in Faults)
            /\ Refuse("no file")
            /\ UNCHANGED <<prepared, groups>>
         \/ /\ prepared = NoFrame => File.stored
            /\ prepared' = frame
            /\ groups' = GroupKeys(frame)
            /\ IF GroupKeys(frame) = {} THEN Refuse("no group") ELSE Advance("build")
  /\ UNCHANGED <<upload, verdict, frequency, series>>

\* SeriesBuilder._build_one(): a short series is flagged, not refused, and carries
\* the raw dataset's frequency.
Built(key) ==
  [key |-> key, values |-> Column(At(prepared, {i \in DOMAIN prepared : prepared[i].key = key}), "target"),
   frequency |-> frequency, horizon |-> File.horizon, regressors |-> File.features,
   correlated |-> File.correlated]

\* _build_series(), for the key that is followed; nothing reads the frame again.
BuildSeries ==
  /\ stage = "build"
  /\ \E key \in groups : series' = Built(key)
  /\ Advance("train")
  /\ prepared' = NoFrame
  /\ UNCHANGED <<upload, verdict, frequency, groups>>

PreparationNext ==
  \/ Validate_metadata
  \/ LoadDataset \/ DetectFrequency \/ AssessQuality
  \/ Preprocess \/ PersistCurated \/ VerifyCurated
  \/ GenerateGroups \/ BuildSeries
--------------------------------------------------------------------------------
\* No refusal comes unannounced: a column the metadata screen judged whole, and took,
\* is not refused by the engine once the run is under way (validation_engine.py:35, "a
\* handful of stray entries", pipeline_config.py:113), where no row fell with its date;
\* and the check before training refuses nothing that the quality report had not warned
\* of (run_pipeline.py:499, "in a state preprocessing should have prevented").
RefusalsAreForeseen ==
  /\ failure \in {"dates", "target", "columns"} /\ Len(Rows) <= SampleSize
       => verdict = "NOT_SUITABLE" \/ (failure = "target" /\ Dated(File) # Rows)
  /\ failure = "repeated" => Repeats(Rows) # {}

\* Under a sum, and where nothing is aggregated, each distinct row of a key with a
\* date and a number counts in its series once: neither lost on the way nor folded in
\* twice (data_preprocessor.py:72, "duplicates and unusable rows can never be folded
\* into a monthly total").
EveryObservationCountsOnce ==
  stage = "train" /\ (File.method = "sum" \/ frequency \notin {"Daily", "Weekly"}) =>
    LET usable == {r \in Range(Rows) : r.key = series.key /\ r.target >= 0 /\ r.date >= 0}
        undated == {r \in Range(Rows) : r.key = series.key /\ r.target >= 0 /\ r.date = Null}
        kept == IF File.dates = "datetime" /\ frequency \notin {"Daily", "Weekly"}
                THEN usable \cup undated ELSE usable
    IN  Total(series.values) = FoldSet(LAMBDA r, sum : sum + r.target, 0, kept)

\* What reaches training has, for each key, one observation per date, in order, also
\* where it was read back from storage (curated_validator.py:55, "duplicates here would
\* silently corrupt every fit").
TrainingIsInOrder ==
  stage = "build" =>
    \A i, j \in DOMAIN prepared :
      i < j /\ prepared[i].key = prepared[j].key => Day(prepared[i].date) < Day(prepared[j].date)
================================================================================
