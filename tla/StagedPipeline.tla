----------------------------- MODULE StagedPipeline -----------------------------
(***************************************************************************)
(* The engine's runs (forecast_engine/run_pipeline.py, core/checkpoint.py, *)
(* tracking_pipeline.py).  As a Databricks workflow (run_checkpointed_     *)
(* stage) there is one task per phase, each a process of its own: a task   *)
(* loads the checkpoint the task before it left (the first one starts      *)
(* afresh and opens the MLflow run), runs its phase's stages, and          *)
(* checkpoints what became of the run, success or failure; a failed task   *)
(* can be started again.  As one process (run) the phases follow each      *)
(* other and nothing is checkpointed.                                      *)
(*                                                                         *)
(* A stage's output is reduced to the fact that the context holds it, and  *)
(* for the per-key stages, which are KeyExecution's, to the keys in its    *)
(* report.                                                                 *)
(***************************************************************************)
EXTENDS KeyExecution

CONSTANTS
  Entries,    \* how the run may be started: of EntryKinds
  Faults,     \* of FaultKinds
  MaxRetries  \* bound: how often tasks are started again, over the whole run

FaultKinds ==
  {"stage",       \* a stage raises a ForecastEngineError
   "unexpected",  \* ... or anything else
   "key",         \* one key's task raises
   "tracking",    \* the tracking server cannot be reached
   "storage",     \* a checkpoint cannot be read or written
   "crash"}       \* the task's process is killed

EntryKinds ==
  {"workflow",  \* one task per phase, keys in parallel (databricks_runner.py)
   "run",       \* one process, stage after stage over all keys (local_runner.py)
   "bundle"}    \* one process, keys in parallel (databricks.yml, forecast_pipeline_compute)

ASSUME PipelineAssumption ==
  Entries \subseteq EntryKinds /\ Faults \subseteq FaultKinds /\ MaxRetries \in Nat

VARIABLES
  entry,       \* how the run was started
  task,        \* the task under way: its phase and where its process is
  context,     \* the PipelineContext in its memory
  checkpoint,  \* checkpoint.pkl
  rows,        \* the MLflow runs opened, in order
  open,        \* self._open of the tracking pipeline
  untracked    \* history: some call to the tracking server failed

plan == <<entry, cluster>>
vars == <<plan, task, context, checkpoint, rows, open, untracked, executor, wave>>
--------------------------------------------------------------------------------
\* PHASE_STAGE_METHODS, by the labels the stages record.
Phases ==
  <<<<"Load Dataset", "Detect Frequency", "Assess Quality", "Preprocess Dataset",
      "Persist Curated", "Verify Curated">>,
    <<"Generate Groups", "Build Series">>,
    <<"Train Models">>,
    <<"Evaluate Models">>,
    <<"Explain Models">>,
    <<"Rank & Select">>,
    <<"Business Insights", "Mirror Artifacts">>,
    <<"Export Forecasts", "MLflow Tracking">>>>

LastPhase == Len(Phases)

\* _PHASES_RESUMING_KEY_EXECUTION
ResumingKeys == {4, 5, 6}

Stages == UNION {Range(Phases[p]) : p \in DOMAIN Phases}

\* The stages without a handler of their own: what they raise goes unrecorded.
Unguarded == {"Mirror Artifacts", "Export Forecasts", "MLflow Tracking"}

\* pc: a task waits to be started, is between two stages or inside one, saves
\* its checkpoint, leaves; or has failed.  why: what it failed of.
Tasks == [phase: 1 .. LastPhase + 1,
          pc: {"waiting", "between", "inside", "saving", "leaving", "failed"},
          step: Nat, retries: 0 .. MaxRetries,
          why: {"none", "stage", "storage", "crash"}]

StageRecord ==
  [stage: Stages, status: {"Running", "Completed", "Failed"},
   tasks: [total: Nat, completed: Nat, failed: Nat]]

\* tracking: the number of the MLflow run in tracking_result.run_id, 0 for None.
NewContext(row) ==
  [trail |-> <<>>, outputs |-> {}, reports |-> [s \in {} |-> <<>>], tracking |-> row]

NoContext == [NewContext(0) EXCEPT !.outputs = {"none"}]

NoCheckpoint == [context |-> NoContext, snapshot |-> NoExecutor]

NewRow == [status |-> "RUNNING", failed_stage |-> "none", summary |-> FALSE]

ContextOK(c) ==
  c # NoContext =>
    /\ \A i \in DOMAIN c.trail : c.trail[i] \in StageRecord
    /\ c.outputs \subseteq Stages
    /\ \A s \in DOMAIN c.reports : s \in KeyStages /\ Range(c.reports[s]) \subseteq Keys
    /\ c.tracking \in 0 .. Len(rows)

TypeOK ==
  /\ task \in Tasks
  /\ ContextOK(context) /\ ContextOK(checkpoint.context)
  /\ \A i \in DOMAIN rows :
       rows[i] \in [status: {"RUNNING", "FINISHED", "FAILED"},
                    failed_stage: Stages \cup {"none"}, summary: BOOLEAN]
  /\ entry \in Entries
  /\ open \in BOOLEAN /\ untracked \in BOOLEAN
  /\ open => context.tracking \in DOMAIN rows
  /\ KeyTypeOK

Init ==
  /\ entry \in Entries
  /\ cluster \in Clusters
  /\ task = [phase |-> 1, pc |-> "waiting", step |-> 0, retries |-> 0, why |-> "none"]
  /\ context = NoContext
  /\ checkpoint = NoCheckpoint
  /\ rows = <<>>
  /\ open = FALSE
  /\ untracked = FALSE
  /\ executor = NoExecutor
  /\ wave = NoWave
--------------------------------------------------------------------------------
Goes(from, to) == task.pc = from /\ task' = [task EXCEPT !.pc = to]

Stage == Phases[task.phase][task.step]

Tracking(fails) == untracked' = (untracked \/ fails)

\* The first task: a new context, and begin() opens the run's MLflow run.
StartFirstTask ==
  /\ task.phase = 1
  /\ task.pc = "waiting"
  /\ task' = [task EXCEPT !.pc = "between", !.step = 0]
  /\ \/ /\ rows' = Append(rows, NewRow)
        /\ context' = NewContext(Len(rows) + 1)
        /\ open' = TRUE
        /\ Tracking(FALSE)
     \/ /\ "tracking" \in Faults
        /\ context' = NewContext(0)
        /\ open' = FALSE
        /\ Tracking(TRUE)
        /\ UNCHANGED rows
  /\ UNCHANGED <<checkpoint, keyVars>>

\* (mutant) the run counts as open whatever the server answered
ResumeTrackingAnyway(row) ==
  /\ open' = TRUE
  /\ Tracking(FALSE)
  /\ UNCHANGED rows

\* resume(): the MLflow run is reopened by the id the checkpoint carries; without
\* one, or when that fails, nothing is open.
ResumeTracking(row) ==
  \/ /\ row # 0
     /\ rows' = [rows EXCEPT ![row].status = "RUNNING"]
     /\ open' = TRUE
     /\ Tracking(FALSE)
  \/ /\ row = 0
     /\ open' = FALSE
     /\ UNCHANGED <<rows, untracked>>
  \/ /\ row # 0 /\ "tracking" \in Faults
     /\ open' = FALSE
     /\ Tracking(TRUE)
     /\ UNCHANGED rows

\* (mutant) the key-execution state is rebuilt in every later task
StartTaskAfresh ==
  /\ task.phase \in 2 .. LastPhase
  /\ task.pc = "waiting"
  /\ task' = [task EXCEPT !.pc = "between", !.step = 0]
  /\ context' = checkpoint.context
  /\ executor' = NoExecutor
  /\ ResumeTracking(checkpoint.context.tracking)
  /\ UNCHANGED <<checkpoint, wave>>

\* A later task: the context the last checkpoint holds, and, for the phases that
\* go on with it, the key-execution state.
StartTask ==
  /\ task.phase \in 2 .. LastPhase
  /\ task.pc = "waiting"
  /\ task' = [task EXCEPT !.pc = "between", !.step = 0]
  /\ context' = checkpoint.context
  /\ IF task.phase \in ResumingKeys /\ checkpoint.snapshot # NoExecutor
     THEN \E mode \in ExecutionModes(Keep(checkpoint.snapshot.order,
                                          checkpoint.snapshot.active)) :
            executor' = Resumed(checkpoint.snapshot, mode)
     ELSE executor' = NoExecutor
  /\ ResumeTracking(checkpoint.context.tracking)
  /\ UNCHANGED <<checkpoint, wave>>

\* load() raises: there is no context to record it on.
LoadFails ==
  /\ "storage" \in Faults
  /\ task.phase \in 2 .. LastPhase
  /\ task.pc = "waiting"
  /\ task' = [task EXCEPT !.pc = "failed", !.why = "storage"]
  /\ UNCHANGED <<context, checkpoint, rows, open, untracked, keyVars>>

\* The record of the stage under way, closed or updated.
Recorded(status) ==
  [context.trail EXCEPT ![Len(context.trail)].status = status]

\* context.training = report, and its likes.
Reporting(stage, keys) ==
  [s \in DOMAIN context.reports \cup {stage} |-> IF s = stage THEN keys ELSE context.reports[s]]

\* Whether a stage is fanned out by key.  Publishing is, where the process that
\* tracks the run still has the executor.
FansOut(stage) ==
  /\ entry # "run"
  /\ stage \in KeyStages \/ (stage = "MLflow Tracking" /\ executor # NoExecutor)

\* begin_stage(); a per-key stage then submits its keys.
BeginStage ==
  /\ task.pc = "between"
  /\ task.step < Len(Phases[task.phase])
  /\ task' = [task EXCEPT !.pc = "inside", !.step = @ + 1]
  /\ LET s == Phases[task.phase][task.step + 1]
     IN  /\ context' = [context EXCEPT !.trail = Append(@, [stage |-> s, status |-> "Running",
                                                            tasks |-> NoTelemetry])]
         /\ IF ~FansOut(s) THEN UNCHANGED keyVars
            ELSE SubmitKeys(IF s \in KeyStages THEN s ELSE Publishing)
  /\ UNCHANGED <<checkpoint, rows, open, untracked>>

\* _remote_publish() attaches an MLflow run by context.run_id, the engine's own id,
\* which no MLflow run has: attached_run() raises, for every key that has a
\* forecast to publish.
KeyTask ==
  /\ task.pc = "inside"
  /\ \E k \in Keys :
       \/ CollectKey(k)
       \/ (wave.stage = Publishing \/ "key" \in Faults) /\ DropKey(k)
  /\ context' = [context EXCEPT !.trail[Len(context.trail)].tasks = Telemetry(wave')]
  /\ UNCHANGED <<task, checkpoint, rows, open, untracked>>

\* A stage that is not fanned out by key, nor the tracking stage.  One process
\* without --parallel-keys gives every series to one call per stage, which keeps
\* what fails for a key in its report.
CompleteStage ==
  /\ Goes("inside", "between")
  /\ ~FansOut(Stage) /\ Stage # "MLflow Tracking"
  /\ context' = [context EXCEPT
       !.trail = Recorded("Completed"),
       !.outputs = @ \cup {Stage},
       !.reports = IF Stage \in KeyStages THEN Reporting(Stage, Series) ELSE @]
  /\ UNCHANGED <<checkpoint, rows, open, untracked, keyVars>>

\* The keys' tasks are all in: the stage's report is the merged one.
CompleteKeyStage ==
  /\ Goes("inside", "between")
  /\ Stage \in KeyStages /\ FansOut(Stage)
  /\ CloseStage
  /\ context' = [context EXCEPT
       !.trail = [Recorded("Completed") EXCEPT ![Len(context.trail)].tasks = Telemetry(wave)],
       !.outputs = @ \cup {Stage},
       !.reports = Reporting(Stage, Merged)]
  /\ UNCHANGED <<checkpoint, rows, open, untracked>>

\* Without an executor to publish them, track() publishes the winners itself, and a
\* single one in its own thread, where the MLflow run it attaches is refused while the
\* run's own is active (ModelRegistration): unless there is nothing to publish for it.
SingleWinner(c) == Len(c.reports["Rank & Select"]) = 1

PublishesAlone == executor = NoExecutor /\ SingleWinner(context)

\* track(): everything is logged, the summary last, and the run closed FINISHED;
\* when that fails the run is closed FAILED and the stage completes all the
\* same.  With no run open there is nothing to log into.
TrackRun ==
  /\ Goes("inside", "between")
  /\ Stage = "MLflow Tracking"
  /\ IF wave = NoWave THEN UNCHANGED keyVars ELSE CloseStage
  /\ LET row == context.tracking
     IN  /\ \/ /\ open
               /\ rows' = [rows EXCEPT ![row].status = "FINISHED", ![row].summary = TRUE]
               /\ Tracking(FALSE)
            \/ /\ open /\ PublishesAlone
               /\ rows' = [rows EXCEPT ![row].status = "FAILED"]
               /\ Tracking(FALSE)
            \/ /\ open /\ "tracking" \in Faults
               /\ rows' = [rows EXCEPT ![row].status = "FAILED"]
               /\ Tracking(TRUE)
            \/ ~open /\ UNCHANGED <<rows, untracked>>
         /\ context' = [context EXCEPT !.trail = Recorded("Completed"),
                                       !.outputs = @ \cup {Stage},
                                       !.tracking = IF open THEN row ELSE 0]
  /\ open' = FALSE
  /\ UNCHANGED checkpoint

FailedRecords(trail) == {i \in DOMAIN trail : trail[i].status = "Failed"}

\* _failed_stage(): the last record that failed, else the last stage touched.
FailedStage(trail) ==
  IF FailedRecords(trail) = {} THEN trail[Len(trail)].stage
  ELSE trail[CHOOSE i \in FailedRecords(trail) : \A j \in FailedRecords(trail) : j <= i].stage

\* (mutant) a failure leaves the MLflow run open
FailTrackingLeftOpen(trail) ==
  /\ context' = [context EXCEPT !.trail = trail]
  /\ UNCHANGED <<rows, open, untracked>>

\* fail(): the open run is closed FAILED and tagged with the stage; each of the
\* two, and reading back its id, is given up on silently.
FailTracking(trail) ==
  /\ open' = FALSE
  /\ \/ /\ open
        /\ rows' = [rows EXCEPT ![context.tracking].status = "FAILED",
                                ![context.tracking].failed_stage = FailedStage(trail)]
        /\ context' = [context EXCEPT !.trail = trail]
        /\ Tracking(FALSE)
     \/ /\ open /\ "tracking" \in Faults
        /\ \/ rows' = [rows EXCEPT ![context.tracking].status = "FAILED"]
           \/ UNCHANGED rows
        /\ \E id \in {0, context.tracking} :
             context' = [context EXCEPT !.trail = trail, !.tracking = id]
        /\ Tracking(TRUE)
     \/ /\ ~open
        /\ context' = [context EXCEPT !.trail = trail, !.tracking = 0]
        /\ UNCHANGED <<rows, untracked>>

\* The stage raises.  Its handler records a ForecastEngineError; anything else,
\* and anything an unguarded stage raises, leaves the record Running.
FailStage ==
  /\ task.pc = "inside"
  /\ task' = [task EXCEPT !.pc = IF entry = "workflow" THEN "saving" ELSE "leaving",
                          !.why = "stage"]
  /\ \/ "stage" \in Faults /\ Stage \notin Unguarded /\ FailTracking(Recorded("Failed"))
     \/ "unexpected" \in Faults /\ FailTracking(context.trail)
  /\ IF wave = NoWave THEN UNCHANGED keyVars ELSE AbandonStage
  /\ UNCHANGED checkpoint

\* run(): the next phase follows in the same process.
NextPhase ==
  /\ entry # "workflow"
  /\ task.pc = "between" /\ task.step = Len(Phases[task.phase])
  /\ task' = IF task.phase < LastPhase THEN [task EXCEPT !.phase = @ + 1, !.step = 0]
             ELSE [task EXCEPT !.pc = "leaving"]
  /\ UNCHANGED <<context, checkpoint, rows, open, untracked, keyVars>>

\* The task's phase is over.  (That fitted estimators are dropped here from the context
\* is a matter of its size, which is left out.)
EndPhase ==
  /\ entry = "workflow"
  /\ Goes("between", "saving")
  /\ task.step = Len(Phases[task.phase])
  /\ UNCHANGED <<context, checkpoint, rows, open, untracked, keyVars>>

\* (mutant) a checkpoint that cannot be written is given up on silently
SaveCheckpointBestEffort ==
  /\ task.pc = "saving"
  /\ task' = [task EXCEPT !.pc = "leaving"]
  /\ \/ checkpoint' = [context |-> context, snapshot |-> executor]
     \/ "storage" \in Faults /\ UNCHANGED checkpoint
  /\ UNCHANGED <<context, rows, open, untracked, keyVars>>

\* The finally clause: checkpoint.save(), whatever the phase came to.
SaveCheckpoint ==
  /\ task.pc = "saving"
  /\ \/ /\ checkpoint' = [context |-> context, snapshot |-> executor]
        /\ task' = [task EXCEPT !.pc = "leaving"]
     \/ /\ "storage" \in Faults
        /\ task' = [task EXCEPT !.pc = "leaving", !.why = IF @ = "none" THEN "storage" ELSE @]
        /\ UNCHANGED checkpoint
  /\ UNCHANGED <<context, rows, open, untracked, keyVars>>

ProcessEnds ==
  /\ context' = NoContext
  /\ executor' = NoExecutor
  /\ wave' = NoWave
  /\ open' = FALSE
  /\ UNCHANGED <<checkpoint, untracked>>

\* (mutant) main() answers 0 whatever the phase came to
LeaveContent ==
  /\ task.pc = "leaving"
  /\ task' = [task EXCEPT !.phase = @ + 1, !.pc = "waiting", !.step = 0, !.why = "none"]
  /\ UNCHANGED rows
  /\ context' = NoContext
  /\ executor' = NoExecutor
  /\ wave' = NoWave
  /\ open' = FALSE
  /\ UNCHANGED <<checkpoint, untracked>>

\* main()'s tail, and the end of the process.  An MLflow run still open may be
\* closed by the library on the way out, or stay as it is.
Leave ==
  /\ task.pc = "leaving"
  /\ \/ /\ task.why = "none"
        /\ task' = [task EXCEPT !.phase = @ + 1, !.pc = "waiting", !.step = 0]
     \/ task.why # "none" /\ task' = [task EXCEPT !.pc = "failed"]
  /\ \/ UNCHANGED rows
     \/ open /\ rows' = [rows EXCEPT ![context.tracking].status = "FINISHED"]
  /\ ProcessEnds

Crash ==
  /\ "crash" \in Faults
  /\ task.pc \in {"between", "inside", "saving", "leaving"}
  /\ task' = [task EXCEPT !.pc = "failed", !.why = "crash"]
  /\ UNCHANGED rows
  /\ ProcessEnds

\* The failed task is started again, in a process of its own.
Retry ==
  /\ entry = "workflow"
  /\ task.pc = "failed"
  /\ task.retries < MaxRetries
  /\ task' = [task EXCEPT !.pc = "waiting", !.step = 0, !.why = "none", !.retries = @ + 1]
  /\ UNCHANGED <<context, checkpoint, rows, open, untracked, keyVars>>

Step ==
  \/ StartFirstTask \/ StartTask \/ LoadFails
  \/ BeginStage \/ KeyTask \/ CompleteStage \/ CompleteKeyStage \/ TrackRun \/ FailStage
  \/ NextPhase \/ EndPhase \/ SaveCheckpoint \/ Leave \/ Crash \/ Retry

Next == Step /\ UNCHANGED plan

Spec == Init /\ [][Next]_vars
--------------------------------------------------------------------------------
Running == task.pc \in {"between", "inside"}

Over == task.phase > LastPhase

\* A task never starts "silently from nothing" (checkpoint.load): whatever failed
\* and was started again, a stage runs on a context that holds the output of
\* every stage before it.
StagesBuildOnEarlierOnes ==
  Running =>
    /\ UNION {Range(Phases[p]) : p \in 1 .. task.phase - 1} \subseteq context.outputs
    /\ {Phases[task.phase][i] : i \in 1 .. task.step - 1} \subseteq context.outputs

\* "every stage merges in this order, not completion order, so a run's output is
\* stable across executions" (ray_executor.py:358): on whatever compute, the
\* selection handed on is the surviving keys', in series order, and every other
\* key is on record as failed.
SelectionIsTheSurvivors ==
  /\ task.pc = "waiting" /\ task.phase = 7 /\ checkpoint.snapshot # NoExecutor =>
       checkpoint.context.reports["Rank & Select"]
         = Keep(Series, Keys \ checkpoint.snapshot.failures)
  /\ entry = "bundle" /\ task.phase = 7 /\ task.pc = "between" =>
       context.reports["Rank & Select"]
         = Keep(Series, Keys \ executor.failures)

\* "a key that failed an earlier stage is dropped and takes no further part"
\* (ray_executor.py:10): the reports the results are built from nest, whatever was
\* started again in between, and the trail accounts for every key across tasks and
\* retries: a stage takes up the keys the per-key stage before it on the trail did
\* not count as failed, except that Train Models starts from the series again.
EveryKeyIsAccountedFor ==
  /\ Running =>
       LET order == <<"Train Models", "Evaluate Models", "Explain Models", "Rank & Select">>
       IN  \A i \in 1 .. 3 :
             order[i + 1] \in DOMAIN context.reports =>
               Range(context.reports[order[i + 1]]) \subseteq Range(context.reports[order[i]])
  /\ Running /\ entry # "run" =>
       LET trail == context.trail
           counted == {i \in DOMAIN trail : trail[i].stage \in KeyStages /\ trail[i].tasks.total > 0}
       IN  \A i, j \in counted :
             i < j /\ (\A m \in counted : m <= i \/ j <= m) =>
               trail[j].tasks.total =
                 IF trail[j].stage = "Train Models" THEN Cardinality(Keys)
                 ELSE trail[i].tasks.total - trail[i].tasks.failed

\* Unless a call to the tracking server failed, the MLflow run tells how the
\* engine ended: never RUNNING after the last task, but FINISHED with its summary,
\* except that the forecasts of a single winner, which the tracking task publishes
\* in its own thread, may be complete under a FAILED run (RegistrationSingleGroup);
\* and FAILED after a stage that raised.  "a run that dies in preprocessing still
\* leaves a real run marked FAILED with the reason" (tracking_pipeline.py): while no
\* task was started again, the stage it is tagged with is the one the run died in.
RowTellsTheOutcome ==
  ~untracked =>
    LET row == rows[Len(rows)]
        tracked == row.status = "FINISHED" /\ row.summary
    IN  /\ task.phase = LastPhase /\ task.pc = "leaving" /\ task.why = "none" =>
             tracked \/ (row.status = "FAILED" /\ PublishesAlone)
        /\ Over => tracked \/ (row.status = "FAILED" /\ entry # "bundle")
        /\ Over /\ entry = "workflow" => tracked \/ SingleWinner(checkpoint.context)
        /\ task.pc = "failed" /\ task.why = "stage" => row.status = "FAILED"
        /\ task.pc = "saving" /\ task.why = "stage" /\ task.retries = 0 =>
             row.failed_stage = Stage
================================================================================
