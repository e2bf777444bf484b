# Verification of the forecasting platform

TLA+ models of how the platform takes a dataset to a forecast: the backend that
submits, polls and cancels runs (on Databricks or as a local process), the engine's
phases with their checkpoints, retries and per-key parallelism, the decisions taken for
one forecasting key (from the metadata screen to the production model), the
language-model insights, and the publishing of the results to MLflow.  Each module is
translated from the Python source it names in its header; `PROJECT.json` maps every
definition to the lines it stands for.  TLC checks the modules on small instances;
TLAPS proves the invariants of eight of them, and the refinement, for every instance.

To check: `tlc -config <run>.cfg <module>` for a row of the table of runs, and
`tlapm <module>_proofs.tla` for the proofs.

## 1. The system

| Part | State it keeps | Operations | Modelled by |
|---|---|---|---|
| Runner contract, `orchestration/runner_base.py`, `schemas.py` | none: an interface and a vocabulary of five statuses | submit, get_status, get_result, get_run, list_runs, cancel | `RunStatus`, `RunLifecycle` |
| `DatabricksRunner`, `orchestration/databricks_runner.py` | in-memory records by run id; per run a Databricks run, files on a UC volume, a registry breadcrumb, an MLflow row | submit and its staging thread, `_refresh`, the reads, cancel | `DatabricksRunner` |
| The shared forecast job, same file | one Databricks job definition every run is started from | `_ensure_forecast_job` (find, reset, create), `run_now` | `SharedForecastJob` |
| `LocalRunner`, `orchestration/local_runner.py` | in-memory records, one thread and one subprocess per run, a work directory | submit, `_execute`, cancel, hand-over to history, the reads | `LocalRunner` |
| `MLflowHistoryStore`, `orchestration/mlflow_history.py` | a cached listing, a sweep in flight, summary caches | list_runs, get_listing, mark_cancelled | `MLflowHistory` (listing side) |
| Deployments page, `services/deployment_service.py`, `pipeline_stages.py` | none: a view of the live status file | phases, progress, current stage, compute label | `DeploymentView` |
| Metadata screen, `services/validation_engine.py`, `metadata_interpreter.py` | none: a verdict over an upload | validate | `SeriesPreparation` |
| The engine's pipeline, `forecast_engine/run_pipeline.py`, `core/checkpoint.py` | the run's context, a checkpoint per run, the stage trail | one task per phase, checkpoint, retry; or all phases in one process | `StagedPipeline` |
| Key execution, `parallel/ray_executor.py` | active keys, failures, each stage's payload per key | four per-key stages and the publishing fan-out, snapshot, resume | `KeyExecution` |
| Preparation, `s01_preprocessing`, `s02_quality`, `s03_storage`, `curated_validator.py` | the frame, its curated file, the series | load, detect, assess, convert, aggregate, verify, group, build | `SeriesPreparation` |
| Training and evaluation, `s04`, `s05`, `s06` | per key: trained models, forecasts, rule outcomes | train, tune, backtest, forecast, validate | `ForecastModels`, `ModelEvaluation`, `ForwardValidation` |
| Explanation, ranking, drift, selection, `s07`..`s10` | per key: explanations, composite scores, rejections, the selection | explain, rank, judge drift, fall back | `ProductionSelection` |
| Insights, `s11_llm` | per group: attempts, trace; the token ceiling | generate, complete, validate, ground, template | `InsightEngine` |
| Tracking, `s12_tracking/tracking_pipeline.py` | the open MLflow run | begin, resume, track, fail | `StagedPipeline`, `ModelRegistration` |
| Registration, `s12_tracking/model_registrar.py` | `published.<slug>` tags, model versions | register_winner_models | `ModelRegistration` |
| Executor, REST routes | none of their own | translate calls and errors | not modelled |
| Result mapping, estimates, compute options, LLM-ops views | none | reshape and compute | not modelled |
| Frontend hooks | last polled status, timers | polling | not modelled |

How the parts interact.  A REST request calls the one runner of the process.
`submit()` puts a record in memory and starts a daemon thread; that thread does
everything slow (uploads and `run_now`, or the subprocess), and request threads
read, refresh and cancel the same record meanwhile.  Locks cover single
assignments only, never a remote call.  The engine runs elsewhere: as eight
Databricks tasks handing a checkpoint to each other, or as one process.
It rewrites a live status file at every stage transition, which the deployments page
shows, opens an MLflow run when it starts and closes it when it ends, and that row is
what the backend falls back to when its memory holds no record.

What is hard, and makes each part correct:

- *Records against remote truth.* A status is assigned by three parties (staging
  thread, pollers, cancel) after remote calls that took their time.  Correct:
  whatever the interleaving, a terminal status has a cause, and is overwritten only by
  a caller that had found the run active; every run settles.
- *Cancellation.* It races the upload, the start of the process, the poll, the
  process's own end.  Correct: the run stops, nothing a finished run wrote is
  deleted, nothing is deleted under a live process.
- *Restarts.* Memory is lost, clouds and subprocesses are not.  Correct: what is
  answered afterwards comes from the breadcrumb or MLflow and is still true.
- *A shared job definition* that submissions overwrite before they start.
- *Task retries.* A task may die anywhere and be run again on whatever checkpoint
  is there.  Correct: a stage never works on less than all earlier stages left,
  the MLflow row still tells the outcome, and the page shows one run, in order.
- *Keys that fail or finish in any order*, whose report must come out in order and
  account for every key.
- *Workers that reopen and close the caller's own MLflow run* while it is in use.
- *A chain of judgements, each with its own thresholds and its own way to abstain*:
  screen, quality gate, conversion, elimination rules, min-max scores, drift.  Correct:
  what one accepted the next does not refuse for a reason the first looked at, each
  observation counts once, and the forecast shipped is the best ranked one that held.
- *Language models that answer badly, late or not at all*, under a token ceiling.

## 2. Modules

`RunStatus` holds the vocabulary: `map_run_state` and the two tables behind it,
and the history's mapping of MLflow states.  Every other backend module extends it.

`RunLifecycle` is the abstract specification, what a runner that reads its backend on
demand can promise of `runner_base.py`.  After PENDING a status is written by four events
only: a caller that found the run active reports what the job told it, possibly late; a
caller that found it active cancels it; the submission fails; the process dies.

`DatabricksRunner` has one action per remote call and per locked assignment.
`stager[r]` is the program counter of `_stage_and_trigger` (`UploadDataset`,
`UploadConfig`, `RunNow`, `RecordRunId`, `WriteRegistry`, and the two ways to
fail); `requests[t]` is what an API thread is doing: its operation, its place in
`_refresh`, `get_result` or `cancel`, and the values it carries from one call to
the next.  Those carried values are the point: `Apply` assigns a status that
`Poll` read some time ago.  `cloud`, `volume` and `mlflow` are what the code can
see of Databricks, the volume and MLflow, and the actions on them (`CloudAdvances`,
`CloudCancels`, ...) are the environment.  Of the engine in the job there is what it does to
its row (`EngineOpensRow`, `EngineSucceeds`, `EngineFails`), with the workers that reopen
and close it on the way (`WorkerTouchesRow`, `mlflow_client.py:310`).  `knows_end` is a
history variable: a cancel that came after the end of the run.  A run id is submitted at
most once, as ids are fresh UUIDs.

`SharedForecastJob` opens up the single `RunNow` above: lookup, reset, the creation
with and without an access list, `run_now`.  `overlap` and `misled` are history variables, there to
say which submissions were at work together and which were told something untrue.

`MLflowHistory` is the listing cache and its background sweep, over rows that
`LocalRunner` supplies; `LocalRunner` extends it.  `executor[r]` is the program counter of
`_execute`, `cancels[c]` that of a cancelling thread, `engine[r]` the subprocess.  The two
`except` branches of `_execute` have places of their own ("expired", "timedout",
"handler"): they take the lock a second time, and `cancel()` may come in between.

`KeyExecution` is `StagedKeyExecution`: `executor` is what a snapshot would hold,
`wave` the fan-out under way (a per-key stage, or the publishing inside tracking),
`cluster` the compute that decides whether Ray starts, where, and what happens when it does
not.  `StagedPipeline` extends it with the run: `entry` is how it was started (eight
tasks; one process; one process with keys in parallel), `task` the phase and the place
in `run_checkpointed_stage`, `context` the process's memory, `checkpoint` the file,
`rows` the MLflow runs opened so far and `open` the tracking pipeline's `_open`.  A stage
is reduced to success, two kinds of failure (recorded by the stage's handler, or not) and the
fact that its output exists.  `DeploymentView` extends that with `live`, the status
file, and the functions the backend computes the page from; its `ViewSpec` rewrites the
file with every stage transition.

`SeriesPreparation`, `ForwardValidation`, `ForecastModels`, `ModelEvaluation` and
`ProductionSelection` follow one upload and one of its keys.  `SeriesPreparation` has an
action per stage, from the backend's verdict to the key's series, each of which may
refuse.  `ForwardValidation` holds the elimination rules as operators over integer
sequences; `ForecastModels` what the adapters add to the libraries they wrap;
`ModelEvaluation` trains, backtests, forecasts and judges each candidate;
`ProductionSelection` composes them all, explains, ranks, and walks the ranking through drift validation to the
selection or the fallback.  `request` is what the user asked for: the models, and the fallback, which may be any.  A library is an environment: it answers any of a small set of
forecasts (the NaN ones and the too short one included) or raises.

`InsightEngine` has `work[g]`, the place in `_generate_one` and the providers still to
try, `trace[g]` the group's calls, `collected` the results taken by `pool.map` in order.
With a ceiling the pool has one worker, as in the code.

`ModelRegistration` opens up the tracking stage's `register_winner_models`: `work[g]` is
the place in `_register_one`, `call` the caller collecting the outcomes and closing
the run.  Two facts about MLflow are assumed, both of them what the code's own comments
rely on: `start_run(run_id)` sets that run RUNNING and is refused in a thread that has an active run;
the end of its `with` block closes the run.

`MC*` modules add symmetry sets and concrete values for TLC; `MCProductionSelection` also
has TLC evaluate, on its registry, what three theorems assume of any.
Operators marked *(mutant)* are variants of the definition after them with a
plausible bug; no specification uses them.  `PROJECT.json` pairs each with the
property it must break, which shows the property depends on the code being as it is.

## 3. Runs

| Run | What it shows | Bounds |
|---|---|---|
| databricks_faults | `ImplementsLifecycle` (refinement), `TerminalStatusHasCause`, `BreadcrumbHasRun`, `FinishedRunIsNotCleaned`, with every fault | 1 run, 2 threads |
| databricks_live | `EveryRunSettles`, with stale polls and failing uploads | 1 run, 2 threads |
| databricks_cancel_while_staging | violates `CancelStopsTheRun` | 1 run, 1 thread, no fault |
| databricks_history_of_live_run | violates `LiveRunsReadLive` | 1 run, 1 thread, a restart |
| shared_job_faults | `ComputeIsOwnOrOverlapping`, `OneJobWithoutOverlap` | 3 submissions, 6 job ids |
| shared_job_race | violates `SelectedComputeRuns` | 2 submissions, no fault |
| local_runner | `NoRunIsLost`, `CompletedIsTrue`, `CleanupAfterDeath`, `CancelWithProcessSticks`; under fairness `EveryRunEnds`, `ListingCatchesUp` | 1 run, 2 cancellers, every fault |
| staged_pipeline | `StagesBuildOnEarlierOnes`, `ActiveKeysHaveInputs`, `SelectionIsTheSurvivors`, `EveryKeyIsAccountedFor`, `RowTellsTheOutcome`; of the page `PhasesShowInOrder`, `ViewMatchesTheRun` | 2 keys, 3 entries, with and without Ray, `MaxRetries` = 1 |
| model_registration | `NoDuplicateVersions`, `ReportsAreTrue`, `RunIsLogged`, `EveryCallEnds` | 4 groups, 2 workers, `MaxAttempts` = 2 |
| registration_single_group | violates `RunIsLogged` | 1 group, no fault |
| key_decision | `RefusalsAreForeseen`, `EveryObservationCountsOnce`, `NoSurvivorIsLost`, `WinnerIsTheBestThatHeld`, `AnswerIsUsable`, `FlatHistoryIsProtected`, `BetterIsRankedNoLower`, `TrainingIsInOrder` | 20 uploads, 5 models, 4 requests (4 fallbacks), every fault |
| insights | `EveryGroupIsExplainedInOrder`, `TraceTellsTheStory`, `SpendingIsAccountedFor`, `GenerateEnds` | 3 groups, 2 workers, 7 configurations, 3 answers |

`TypeOK` of `StagedPipeline` and `ProductionSelection` is checked
by their runs; those of `DatabricksRunner`, `SharedForecastJob`, `LocalRunner`, `ModelRegistration` and
`InsightEngine` are proved (section 5), and so are the first two.

*Why the bounds are enough.*  Runs of a runner share nothing but the lock and, on
Databricks, the job definition, which has a module of its own: one run id shows
every interleaving of one record.  Two API threads are what a stale assignment takes (one reads, the
other overtakes it).  Three submissions let two overlap and a third not; six job
ids are more than three submissions can create, as each creates at most two.  Two
keys let one fail and one survive, in either order.  One retry lets a task run on
the checkpoint of a failed, crashed or unsaved attempt; a second one meets no
checkpoint a first does not, except for `tracking` being lost twice.  Four groups
on two workers, one group without a forecast, leave a group waiting in the queue when another raises; two
attempts are what a duplicate takes.  The uploads are one per branch of the
preparation: monthly, weekly, daily, quarterly and yearly data, several keys, a flat
and a short key, duplicates, restated rows, blanks and unreadable cells below and above each
threshold, stray dates beside stray targets, no key at all, no storage.  The models are one per family and two trees; the
fallbacks asked for are the seasonal baseline, a library's model, a slow one, and one the registry does not
know; the forecasts a library may give include a good one, a flat one, a spike, a drop-out and NaN.
Three groups give insights in an order other than that of completion; two workers and
`MaxRetries` = 1 (the default is 2) exhaust the attempts of either provider, and the
ceilings of 400 and 700 tokens are met by one and by two answers of 300.

*Deadlock* is checked for key_decision, where only a decided or failed run may rest.
Every other system comes to rest when the run is
over (or, with faults, when a task may not be retried any more).  That they come to
rest in the right place is what the liveness properties say.

## 4. Fairness

`DatabricksRunner!Fairness`: a thread that can take its next step eventually does
(CPython threads, with no lock held across a blocking call); Databricks keeps moving a
run it has accepted; and somebody keeps asking for the run, as the frontend's
three-second poll does.  Without the last one a record is never refreshed, since the
runner has no background poller.  `LocalRunner!FairSpec`: the execution thread, the
engine, cancelling threads and the history sweep, which the polling of the
deployments list starts.  `ModelRegistration!Spec`: the pool's threads and the caller.
`InsightEngine!Spec`: a call comes back, with an answer or an error, within the
client's timeout, and the pool's threads and the caller go on when they can.
No fault is fair and no retry is: nothing says that a failing call will one day succeed.
Where a thread may truly hang or die (`mkdtemp` raising, a restart), the liveness property
says so in its conclusion.

## 5. What is proved

Eight proof modules.  Each proves an inductive invariant `IInv` (or a pair of them) from
`Init` and one step per action; the theorems about runs are conjuncts or consequences of it.
The assumptions on the constants are the named `ASSUME`s of the modules.

`DatabricksRunner_proofs`, for any sets of runs and threads and any faults: `TypeInvariant`,
`TerminalStatusIsCaused`, `BreadcrumbLeadsToRun`, `FinishedRunIsKept`, `RunnerImplementsLifecycle`.
None has a hypothesis: requests overlap, polls fail and submissions fail as they like.
`TerminalStatusHasCause` is not inductive: when `Apply` assigns a
terminal status it is the status of an earlier `Poll`, so one must know that it is
still Databricks' answer.  `PollInv` says so.  It rests on terminal states of
a Databricks run never changing (`CloudGrows`, proved of every step) and on a record
that has a run id keeping it (`IdStays`).  A record FAILED by a failing submission must
not have a Databricks run recorded with it: `StagingInv` relates the staging thread's
place to the run and the id.

`FinishedRunIsKept`: a cancel that came after the end of the run does not clean up, unless its own poll
failed or another thread's stale answer undid the terminal status (`FinishedRunIsNotCleaned`, whose
`knows_end` is dropped in these two cases).  `RequestInv` says what such a cancel finds at each of its
places: an answer that is terminal, then a record that is; `StatusMoves` lists who may write a
status, so that nobody but a stale answer can take it back.
`RunnerImplementsLifecycle`: `DatabricksRunner` implements `RunLifecycle`, one lemma per
kind of step.  A request is a caller that asks while it polls, tells until it has applied
its answer and cancels until it has marked the record, and does nothing at its other places; the
facts the abstract guards need (active when asked or decided, a job when it answers) are
those of `RunnerInv`.

`SharedForecastJob_proofs`, for any submissions, job ids and faults: `ComputeIsSafe`,
`OneJob`.  `OverlapInv`: two submissions at work know of each other, and an idle one of
nobody; `RunInv`: the settings about to be run are the submission's own or those of one it overlaps with, which
`StartedInv` keeps for the runs started.  `OneJobInv`: while nobody overlaps and nobody
was misled there is at most one job, and none while one is being created.

`LocalRunner_proofs`, for any runs, cancelling threads and faults: `NothingIsLost`,
`CompletedMeansIt`, `DeathBeforeCleanup` and the action property `CancellationSticks`, which
leaves the two `except` branches their FAILED over CANCELLED and nothing else.
`RecordInv` says what a record may be at each place of its execution thread; `CallInv`
that what a cancelling thread captured before it waited (status, process) stays true of
the record it then cleans up after.

`ModelRegistration_proofs`, for any groups, bound on the workers (any integer: the code takes
`max(1, ...)`), faults and attempts: `VersionsAreNotDuplicated`, `SummaryIsTrue`, and `RunIsClosed` for a pool
(`~InCallersThread`: with a single group or worker the property is false, run
registration_single_group).  `CountOK`: a group that may yet be marked has no more
versions than lost marks, plus the one it is registering; `CallerInv`: how far every group is when the
caller is at its place; `PoolInv`: in a pool, nothing raises without a fault.
Of `EveryCallEnds` the safety half is proved.  `NobodyWaits`: the group the caller waits for
has ended, or a worker is at work, or one may take that very group; it needs that the queue
is taken from its head on (`QueueInv`), so that where the head is queued nothing has raised
yet.  `AttemptsAreFinite`: each step of an attempt takes something off what its caller or a
group has before it (`Left`, `CallerLeft`) and adds to neither.

`InsightEngine_proofs`, for any groups, facts, answers, configurations and number of workers:
`GroupsAreExplained`, `TraceIsTrue`, `SpendingIsTrue`.  `WorkInv`: an insight is about its own group's model and, unless
it is the template's, was grounded in that group's figures; `ReportInv`: the report is
the collected prefix of the groups, each of them done.  That `_matches_any`'s tolerance is as narrow as
the property says are the lemmas `NumericFactsAre` (a fact is a metric, on its scale or the
other one) and `WithinTolerance`.  The property is about the concise summary a provider wrote,
whole numbers up to twelve aside; of reasons and caveats there is nothing to prove.
`StoryInv` is what `trace[g]` holds at each place of `_generate_one`: as many calls on
the provider under way as attempts were made, none yet on the one after it, and before
an answer no call that succeeded or is pending.  `SpendInv`: with a ceiling, a group on a provider
has only finished groups before it, whose calls left the headroom; the groups after it have
none, so what the ceiling is compared with is what those spent.  `CostInv`: a call with a cost used
tokens.  It needs the theorem's hypothesis that a reported usage is not zero: `summary()` compares the
*number* of costs with the number of calls that used tokens, so a costed call of zero tokens
could stand in for a call whose price is unknown.
`NobodyWaits` and `ExplanationsAreFinite` are the safety half of `GenerateEnds`, as in
`ModelRegistration_proofs`: a group on a provider has the attempts left with it and all those
of the next one before it (`Tries`), that there are two at most comes from `StoryInv`.

`StagedPipeline_proofs`, for any series, compute, entries, faults and number of retries.
`NothingIsSkipped` (`StagesBuildOnEarlierOnes`) needs to know what the checkpoint holds before and
after each save, for each way a task can leave (`CheckpointInv`).  `InputsAreThere`
(`ActiveKeysHaveInputs`) is relative to it: `ExecutorInv` and `SnapshotInv` say that the active keys have the
payloads of every per-key phase before (`Fed`), in memory and in the snapshot, and
`WaveInv` that a fan-out under way holds every active key, so that closing it supplies
the next phase.  `TypeInvariant` (`TypeOK`) has a shape for each variable, and for the checkpoint
as a whole (`ShapeInv`), because what `Load` assigns was typed when it was saved.
`SurvivorsAreSelected` (`SelectionIsTheSurvivors`): the
active keys are a subsequence of the input (`OrderInv`), and the selection is those of them that
the last wave did not lose, wherever it is held: wave, executor, snapshot (`SelectInv`).
`KeysAreAccountedFor` (`EveryKeyIsAccountedFor`): a record's counts come from a wave in which each key
was done once (`WaveCounted`), and what a stage started with is what the counted
records before it left (`Chained`, `Tallied`); `CountInv` carries both through the
context and the checkpoint.

`StagedPipelineTracking_proofs`, on top of it: `RowIsTrue` (`RowTellsTheOutcome`).  While no call
to the tracking server failed, the context and, from the second task on, the checkpoint
carry the id of the last MLflow run (`RowInv`): that is what makes `resume()` reopen the
right run after any retry; a save that is skipped silently would break it.  A run tracked without a
failing call is FINISHED with its summary, or had a single winner that `track()` published in its own
thread (`Alone`, kept through the checkpoint of phase 8).  The run is open
until it is tracked or a stage fails, so neither happens with nothing open.  That
`_failed_stage()` names the stage under way needs the whole trail: no record before it
is Failed while no task was started again (`TrailInv`), in memory and in the checkpoint.
The same module proves the deployments page, `PageIsInOrder` (`PhasesShowInOrder`) and
`PageMatchesTheRun` (`ViewMatchesTheRun`) of `ViewSpec`: `PageInv` says which stages the live
trail may show as begun, given the task that wrote it last; `OnceInv` that without a second start each
stage is on it once, so that the completed records correspond one to one to the
outputs of the context, which makes the progress theirs (`ProgressIs`); `SettledInv` what the
file still says after a stage has raised.

`ProductionSelection_proofs`, for any uploads, registry, requests, answers of the libraries,
measures and faults: every property of run key_decision.
The decision is a chain of stages, and so is the invariant: `Intake` (what each stage of the preparation leaves), `Trained`,
`Evaluated`, `Explained`, `Walked`.  Most of what they say is that one list is another one
filtered: `AtTakes` proves of `At` that the places are taken in order, each once.  From it
candidates have distinct names, survivors are candidates that passed, a survivor's evidence
is its own, and `NoSurvivorIsLostHolds` and `WinnerIsTheBestThatHeldHolds` follow from
`Walked`: what was rejected is the ranking's prefix.
`BetterIsRankedNoLowerHolds` needs that ranking is a permutation (`RankingIsAPermutation`)
and that each part of the composite score keeps the order it is given, through a min-max
over the survivors and an integer division (`QuotientKeepsOrder`, `BacktestKeepsOrder`,
`StabilityKeepsOrder`).  `AnswerIsUsableHolds` carries a survivor's passed rules to the
selection, and the seasonal baseline's finite forecast from the series.  `FlatHistoryIsProtectedHolds`: the smallest
value and any percentile of a flat sequence are its value, and the cycle the baseline
repeats lies in the rules' window.  Both hold whatever fallback the request names, and claim nothing of
what another fallback than the baseline forecasts (`Vouched`).

`Foreseen` stands beside `Intake`, for `RefusalsAreForeseenHolds` and `TrainingIsInOrderHolds`.
`ScreenSees`: the screen and the engine take the same ratio of a column the sample shows
whole; `CuratedUnrepeated`: what was verified has no key and date twice, before and after the
sort, and aggregation leaves one row for each month.
`EveryObservationCountsOnceHolds` equates a sum over a *set* of rows of the upload with the sum of the
sums of a *sequence's* months, which were sorted, deduplicated and grouped in between.  Both are
reduced to `Weight(S)`, the property's own fold over a set of rows: it adds up over disjoint sets
whatever order the fold takes (`WeightAdd`, `WeightOfUnion`), a sequence without a repeated row
totals what the set of its rows weighs (`WeightOfRows`), and the months part the rows
(`MonthsWeigh`).  What the preparation kept of the upload is then a statement about sets
(`KeptRowsAre`, `CuratedWeighs`), and `CountedOnce` carries it from the preparation to the series.

Some of these theorems have a hypothesis, named in their statement.  `LibrariesAnswer`: a library
returns a sequence of numbers or NaN.  `HistoryIsJudged`: an enabled model wants as long a
history as the rules' `MinHistory` (12, where `model_config.py` asks for 20 to 60).

*Induction.*  What a recursive definition computes (a fold, a filter, a count of a
sequence) is shown by induction over the set of numbers for which it is right, which needs no
operator as a parameter: the lemmas `SetInduction` and `SeqInduction` of
`StagedPipeline_proofs` and `SetInduction` of `ProductionSelection_proofs`.

*Only model-checked.*  Liveness under fairness, which like ENABLED is beyond the proof system's
backends: `EveryRunSettles`, `EveryRunEnds`, `ListingCatchesUp`, `EveryCallEnds` and `GenerateEnds` (of the
last two the safety halves are proved, see above).  And the properties of the runs that expect
a violation, which are false.  Every safety invariant and action property of a passing run is
stated by a theorem.

## 6. Where code and documentation part

Four violation runs, each with its finding in `PROJECT.json`:

1. A run cancelled while its inputs are being uploaded is started on Databricks
   afterwards and never signalled: `cancel()` signals only if the run id is already
   there, and the staging thread does not look at the status again.
2. Two overlapping submissions: one resets the shared job between the other's reset
   and its `run_now`, and a run executes on the other's compute.
3. A run with a single group registers it in the thread whose MLflow run is active;
   attaching that run is refused and the run is closed FAILED, without summary.
4. The backend restarts under a run Databricks is executing.  Nothing is in memory of it, so
   `get_run()` answers from its open MLflow row, which `mlflow_history.py:57` maps to FAILED on
   the ground that "anything genuinely live is in memory".  A row that a worker's detach
   closed in between reads COMPLETED.

Met while modelling, not isolated by a run of their own.  Where a property would
forbid one, its exemption or the bounds of its run say so.

*Cloud runner.*  Two polls applied out of order take a finished record back to RUNNING (`Tell`
in `RunLifecycle`); if that happens to a `get_result()` between its check and its answer, it answers for a run
that is RUNNING.  When `cancel()`'s own refresh fails, or such a stale answer comes in between, a run that had
finished is cleaned up (the two exemptions of `FinishedRunIsNotCleaned`).  A refused `cancel_run` is
only logged (:664).  A `run_now` whose reply is lost leaves a FAILED record over a run that executes
(:891).  A staging failure is written over CANCELLED
(`databricks_runner.py:432`); storage is deleted while the cancelled job may still write (:680);
after a restart `get_status()` and `cancel()` look only at memory (:478), and `get_run()` by
breadcrumb maps a failed poll to FAILED (:606).  As a worker's detach closes the row FINISHED before the
task ends, a run killed or cancelled afterwards may be answered COMPLETED after a restart.  A
failing lookup of the shared job makes a second job of that name (`misled`).

*Local runner.*  A cancel accepted before `_execute`'s first assignment is overwritten
with RUNNING (`local_runner.py:378`); one that deletes the work directory under `_execute` ends as
FAILED; one that comes between `communicate()` and the lock of an `except` branch is overwritten with FAILED
(:508, :511: the time limit, or a summary that cannot be read); one that arrives after the engine closed its row is replaced by history's
COMPLETED.  `mkdtemp` outside the `try` leaves a record RUNNING for ever when it raises; the second
`process.wait` may raise out of `cancel()`; the engine may outlive the backend.  A run just handed
over may be listed from a stale listing.

*Pipeline and tracking.*  After a retry `_failed_stage` may name the stage an earlier attempt died in, hence
the `retries = 0` in `RowTellsTheOutcome`; its exception for a single winner is violation 3.  `fail()` with nothing open loses the run id for later
attempts (`run_pipeline.py:300`); a task whose checkpoint cannot be loaded dies before `fail()`
(:348); a retried first task opens a second MLflow run (:341).  A worker's detach closes the row
FINISHED long before the summary is logged (`mlflow_client.py:310`); a process killed then leaves it so.
In the one-process bundle job `run_publishing` attaches by the engine's own run id,
which no MLflow run has: every key's publishing task raises and nothing is registered,
although `model_registrar.py:99` says "Register the Final Production Model for every
forecasting group that has one".  In the workflow the executor is not resumed for phase 8 and registration
takes the other path.

*Deployments page.*  A task started again after completing stages pushes the progress
over 100 % while RUNNING; a run that FAILED before its first stage reads "Compute Unavailable" whatever the cause;
a stage ended by an unguarded failure stays Running; a phase with a disabled stage never becomes
Completed; a retried phase may show Completed from a sibling's stale record.

*Preparation.*  A blank date in a datetime column survives as NaT although
`pipeline_config.py:91` says such rows are dropped.  After monthly aggregation a series keeps its raw
frequency, so the reference window takes 7 or 52 for a season.  The engine takes the share of targets that convert after it dropped the rows whose date cannot be
read (`data_preprocessor.py:169`): of 40 targets 38 are numbers, the 95 % of "non-null values that must
convert" (`pipeline_config.py:112`), one of the 38 goes with its date, and the run is refused for 37 of 39 although
the screen let it through with a warning (`RefusalsAreForeseen` exempts it).  The quality gate allows 10 %
unusable targets where conversion refuses 5 % of text.  Semi-monthly data counts as monthly,
two observations per month.  The frequency is that of the pooled dates of all keys, and its bands have
gaps.  "last" is the last row of the file.  Duplicate timestamps are a warning to the screen and an
error to the engine; `deploy()` never asks for the verdict; a sample of 200 may pass a column the engine refuses.

With key columns selected, the screen counts a row without any key as a forecasting group
(`metadata_interpreter.py:70`) and says VALID, where the engine drops such rows and, when none is left, ends
with "no group".

*Decision.*  The fallback is the user's choice (`run_pipeline.py:246`, the forecast
configuration page): whatever model it is, `_use_fallback` ships its forecast without a validation
rule, a drift check or a look at the model's least history (`production_selector.py:180`), so that a
forecast of NaN, of the wrong length or far from a flat history may be shipped.  A skipped backtest scores zero although `model_ranker.py:156` calls it
neutral; a tree's plausibility is zero whatever it explains (`shap_engine.py:334`); windowing
weakens the seasonal guard (`validation_rules.py:414`).

*Insights.*  A prompt version without its template raises out of `generate()`
(`insight_engine.py:78`, "never raises"): `GenerateEnds` counts the exception as an
end.  The template's confidence, 100 minus the error, may be negative and yet
"passed"; the report reads "generated" when every insight is the template's; the ceiling is looked at only between
groups.  Grounding looks only at the concise summary (`insight_engine.py:319`), although a figure
"can never reach the UI" (:328): the rejection reasons and caveats of a provider are shown too
(`result_service.py:558`).  Whole numbers up to twelve pass ungrounded.

## 7. Abstractions

*Backend.*  Payloads, parameters, file contents, progress fractions and telemetry are left out; a file
is "there" or not, a record's id and summary "set" or not.  Time is left out: an expiry or a timeout may happen
whenever its guard allows.  The environment actions (Databricks' life cycle, the engine
seen from the backend, process ends) are external: they are modelled as liberal as this
code's reading of them.  The composed system, backend over engine, is not one module:
the backend modules see the engine as environment, and what they assume of its row (opened
once, reopened and closed by workers, closed last with its outcome unless logging failed) is what
`StagedPipeline` and `ModelRegistration` check of it, up to the deviations above; the page is composed with the engine.

*Engine.*  A per-key payload is the fact that it exists; telemetry is its counts; a
"single node" cluster behaves as "multi node" does when Ray falls back to the driver, and is not
run separately.  The size of what a checkpoint carries is left out.  Every write of the
live file succeeds (a failed one is made good by the next); legacy stage names are left out.

*Decision.*  A month has thirty days, targets are naturals, dates end where `datetime64[ns]` does (`LastDay`), a mean is an integer
division; feature columns are flags; the count of missing timestamps and the strategies
that fill missing values are left out, and a frame is dropped once its series are built.
Arithmetic is exact, scores are in ten-thousandths rounded down, a backtest's folds fail
together, a drift statistic's value is an input; `rank_all`'s catch-all is left out.

*Insights.*  Figures are in hundredths, the trace is kept by group; the retry without JSON mode inside
`complete()` and the client's construction are part of one call; a fallback provider occurs in the
sequential configurations only.

## 8. Not modelled

The executor and REST routes, result mapping, and the LLM-ops and MLflow views keep no
state and reshape data.  Estimates and compute options are arithmetic over
defaults and a listing.  `MLflowHistory`'s summary caches and client handling, the
`volume_sync` block (no caller fills it, `databricks_runner.py:827`), `run_key` and
`merge_key_reports` (only tests call them), prompt texts and the offline evaluation scripts, the
writers of exports and mirrors, and the numerical libraries.  Authentication is an
external library's.  The frontend's polling hooks have a race listed as a hazard.

## 9. Plan

Done in this order: the backend runners (most concurrent, most to lose), the engine's
tasks and keys, registration, the decision for a key and the insights, the page, and the proofs of the
safety invariants.  What would come next: `PollingHooks` (stale responses, id changes, the
history's warm-up); the summary caches of `MLflowHistory`; the safety halves of the runners'
liveness properties.
