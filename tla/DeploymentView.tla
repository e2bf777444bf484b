------------------------------ MODULE DeploymentView ------------------------------
(***************************************************************************)
(* What the deployments page shows of a run while the engine executes it:  *)
(* the live status file the engine rewrites at every stage transition      *)
(* (forecast_engine/core/live_status.py) and the view the backend makes of *)
(* it (backend/app/services/deployment_service.py, pipeline_stages.py):    *)
(* stages rolled up into display phases, a progress count, the stage a run *)
(* is on or stopped at, and the state of its compute.                      *)
(*                                                                         *)
(* Every write of the file is taken to succeed (a failed one is swallowed  *)
(* and made good by the next), timestamps, durations and details are left  *)
(* out, and the progress is the count of stages its percentage is made of. *)
(***************************************************************************)
EXTENDS StagedPipeline, FiniteSetsExt

VARIABLE live  \* live_status.json: the stage trail

viewVars == <<vars, live>>
--------------------------------------------------------------------------------
\* PIPELINE_PHASES: label, and the engine stages rolled up under it.
DisplayPhases ==
  <<[label |-> "Load & Prepare",
     stages |-> {"Load Dataset", "Detect Frequency", "Assess Quality",
                 "Preprocess Dataset", "Persist Curated", "Verify Curated"}],
    [label |-> "Build Series", stages |-> {"Generate Groups", "Build Series"}],
    [label |-> "Train Models", stages |-> {"Train Models"}],
    [label |-> "Evaluate Models", stages |-> {"Evaluate Models"}],
    [label |-> "Explain Models", stages |-> {"Explain Models"}],
    [label |-> "Rank & Select", stages |-> {"Rank & Select"}],
    [label |-> "Generate Insights", stages |-> {"Business Insights", "Mirror Artifacts"}],
    [label |-> "Publish Results", stages |-> {"Export Forecasts", "MLflow Tracking"}]>>

PipelineStages == UNION {DisplayPhases[i].stages : i \in DOMAIN DisplayPhases}

\* The status the runner reports of the run.  Databricks holds it PENDING until its
\* first task executes; a task started again leaves it RUNNING.
JobStatus ==
  IF task.phase > LastPhase THEN "COMPLETED"
  ELSE IF task.pc = "failed" THEN "FAILED"
  ELSE IF task.phase = 1 /\ task.pc = "waiting" THEN "PENDING"
  ELSE "RUNNING"

\* (mutant) the first record of a stage is kept
ReportedFirst(trail) ==
  [s \in {trail[i].stage : i \in DOMAIN trail} |->
     trail[Min({i \in DOMAIN trail : trail[i].stage = s})]]

\* The trail by stage name: a later record of a stage takes the place of the one
\* an earlier attempt left.
Reported(trail) ==
  [s \in {trail[i].stage : i \in DOMAIN trail} |->
     trail[Max({i \in DOMAIN trail : trail[i].stage = s})]]

\* (mutant) a phase is done when what was reported of it is
PhaseStatusAsReported(reported, phase) ==
  LET statuses == {reported[s].status : s \in phase.stages \cap DOMAIN reported}
  IN  CASE statuses = {}            -> "Pending"
        [] "Failed" \in statuses    -> "Failed"
        [] statuses = {"Completed"} -> "Completed"
        [] OTHER                    -> "Running"

\* "A phase is only Completed once every stage in it is, and is Failed the moment
\* any is."
PhaseStatus(reported, phase) ==
  LET members == phase.stages \cap DOMAIN reported
      statuses == {reported[s].status : s \in members}
  IN  CASE members = {}           -> "Pending"
        [] "Failed" \in statuses  -> "Failed"
        [] members = phase.stages /\ statuses = {"Completed"} -> "Completed"
        [] OTHER                  -> "Running"

\* _to_stage_statuses(): "a terminal run with no trail at all has nothing to show".
StageStatuses(trail, job) ==
  LET reported == Reported(trail)
  IN  IF trail = <<>> /\ job \in {"COMPLETED", "FAILED"} THEN <<>>
      ELSE [i \in DOMAIN DisplayPhases |-> PhaseStatus(reported, DisplayPhases[i])]

\* Every completed record counts; a completed run shows all of them.
Progress(trail, job) ==
  IF job = "COMPLETED" THEN Cardinality(PipelineStages)
  ELSE Cardinality({i \in DOMAIN trail : trail[i].stage \in PipelineStages
                                           /\ trail[i].status = "Completed"})

\* _phase_parallel_tasks(): the fan-outs the stages of a phase reported.
ParallelTasks(trail, phase) ==
  LET reported == Reported(trail)
  IN  {reported[s].tasks : s \in phase.stages \cap DOMAIN reported} \ {NoTelemetry}

\* The compute of a Databricks run, shown until a stage is reported.
ComputeLabel(statuses, job) ==
  IF entry = "run" \/ Range(statuses) \ {"Pending"} # {} THEN "none"
  ELSE CASE job = "PENDING" -> "Starting Compute"
         [] job = "RUNNING" -> "Compute Ready"
         [] job = "FAILED"  -> "Compute Unavailable"
         [] OTHER           -> "none"

\* _current_stage(): the first phase running, else the last one that ended.
CurrentStage(statuses, job) ==
  LET running == {i \in DOMAIN statuses : statuses[i] = "Running"}
      ended == {i \in DOMAIN statuses : statuses[i] \in {"Completed", "Failed"}}
  IN  CASE running # {} -> DisplayPhases[Min(running)].label
        [] running = {} /\ ended # {} -> DisplayPhases[Max(ended)].label
        [] ComputeLabel(statuses, job) # "none" -> ComputeLabel(statuses, job)
        [] OTHER -> CASE job = "PENDING" -> "Queued" [] job = "RUNNING" -> "In progress"
                      [] OTHER -> "none"

\* LiveStatusWriter: the whole trail, at every transition of this process; what an
\* earlier attempt wrote stays until then.
WriteLive ==
  live' = IF context # NoContext /\ context' # NoContext /\ context'.trail # context.trail
          THEN context'.trail ELSE live

ViewInit == Init /\ live = <<>>
ViewNext == Next /\ WriteLive
ViewSpec == ViewInit /\ [][ViewNext]_viewVars
--------------------------------------------------------------------------------
\* A phase is shown as begun only when every phase before it is shown as done:
\* the trail of several processes, and of tasks started again, still reads as one
\* run ("unreached phases stay visible as Pending", deployment_service.py:237).
PhasesShowInOrder ==
  LET statuses == StageStatuses(live, JobStatus)
  IN  \A i \in 1 .. Len(statuses) - 1 :
        statuses[i + 1] # "Pending" => statuses[i] = "Completed"

\* "a half-finished phase must never render as done" (deployment_service.py:272):
\* while no task was started again the phases shown as Completed, and the progress,
\* are those of the stages whose output the run has, and a fan-out shown in one has
\* no key left running.  Whatever earlier attempts left on the trail, the stage named
\* is the one "a run is currently on, or the one it stopped at" (_current_stage).
ViewMatchesTheRun ==
  LET statuses == StageStatuses(live, JobStatus)
  IN  /\ Running /\ task.retries = 0 =>
           /\ Progress(live, JobStatus) = Cardinality(context.outputs)
           /\ \A i \in DOMAIN statuses :
                /\ statuses[i] = "Completed" <=> DisplayPhases[i].stages \subseteq context.outputs
                /\ statuses[i] = "Completed" =>
                     \A t \in ParallelTasks(live, DisplayPhases[i]) : t.completed + t.failed = t.total
      /\ task.pc = "inside" \/ (task.pc = "failed" /\ task.why = "stage") =>
           CurrentStage(statuses, JobStatus) = DisplayPhases[task.phase].label
================================================================================
