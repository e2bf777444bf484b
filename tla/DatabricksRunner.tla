---------------------------- MODULE DatabricksRunner ----------------------------
(***************************************************************************)
(* The cloud execution backend: backend/app/orchestration/                 *)
(* databricks_runner.py.  A submission registers an in-memory record and   *)
(* hands it to a daemon thread (the stager) that uploads the inputs,       *)
(* starts the Databricks run, stores its id on the record and writes a     *)
(* registry breadcrumb.  API requests run on their own threads: every read *)
(* refreshes the record from Databricks first, cancel() refreshes, signals *)
(* Databricks, finalizes the record, empties the run's volume directories  *)
(* and closes the MLflow row.  Only single assignments are made under the  *)
(* lock, so every remote call below is a step of its own.                  *)
(*                                                                         *)
(* Databricks, the UC volume and MLflow are external and modelled by the   *)
(* states this code can read from them; of the engine running in the job   *)
(* only its outputs and what it does to its MLflow row are kept.           *)
(***************************************************************************)
EXTENDS RunStatus

CONSTANTS
  Runs,     \* platform run ids; each is submitted at most once
  Threads,  \* API worker threads, each serving one request at a time
  Faults    \* the environment's faults that may occur

FaultKinds ==
  {"upload",      \* a Files API upload is rejected, or the dataset is gone
   "run_now",     \* the job cannot be defined or started
   "reply_lost",  \* run_now is accepted but its reply never arrives
   "poll",        \* a read of the workspace fails (past the SDK's own retries)
   "cancel_run",  \* Databricks refuses the cancellation
   "cleanup",     \* part of the run's storage cannot be deleted
   "tracking",    \* the MLflow server does not answer
   "restart"}     \* the backend process dies and starts again

ASSUME FaultsAssumption == Faults \subseteq FaultKinds

VARIABLES
  jobs,      \* self._jobs: run id -> record, "ABSENT" when there is none
  stager,    \* the program counter of the run's submit thread
  requests,  \* what each API thread is doing
  cloud,     \* the Databricks run started for a run id
  volume,    \* which of the run's files that are read back are on the UC volume
  mlflow     \* the status of the run's MLflow row

vars == <<jobs, stager, requests, cloud, volume, mlflow>>
--------------------------------------------------------------------------------
Files == {"registry", "outputs"}

\* databricks_run_id and summary are kept as "is it set"; cancelled_by says
\* that cancel() stamped the record.
Record == [status: JobStatus \cup {"ABSENT"}, databricks_run_id: BOOLEAN,
           summary: BOOLEAN, cancelled_by: BOOLEAN]

NoRecord == [status |-> "ABSENT", databricks_run_id |-> FALSE,
             summary |-> FALSE, cancelled_by |-> FALSE]

StagerSteps == {"none", "dataset", "config", "trigger", "record", "registry",
                "done", "dead"}

\* A request: its kind (a read is get_status, get_run or one record of
\* list_runs), its run, where it stands and what its poll brought back.  One
\* history variable the code does not have: knows_end is kept of a cancel that
\* arrives after Databricks finished its run, until a poll of its own fails or
\* another request's stale answer undoes a terminal status.
Operations == {"read", "result", "cancel"}

Idle == [op |-> "none"]

RequestSteps == {"refresh", "poll", "apply", "ready", "fetch", "decide",
                 "signal", "mark", "cleanup", "mlflow"}

Request ==
  [op: Operations, run: Runs, pc: RequestSteps \ {"apply"}, seen: {"nothing"},
   knows_end: BOOLEAN]
  \cup
  [op: Operations, run: Runs, pc: {"apply"}, seen: JobStatus, knows_end: BOOLEAN]

CloudRun == [life: LifeCycles \cup {"NONE"}, result: Results, cancel: BOOLEAN]

NoCloudRun == [life |-> "NONE", result |-> "NONE", cancel |-> FALSE]

CloudStatus(r) == map_run_state(cloud[r].life, cloud[r].result)

\* Databricks accepted the run and has not stopped it yet.
Executing(r) == cloud[r].life \in {"QUEUED", "PENDING", "RUNNING", "TERMINATING"}

\* Databricks knows the run's outcome for good.
Finished(r) == cloud[r].life \in {"TERMINATED", "SKIPPED", "INTERNAL_ERROR"}
--------------------------------------------------------------------------------
Init ==
  /\ jobs = [r \in Runs |-> NoRecord]
  /\ stager = [r \in Runs |-> "none"]
  /\ requests = [t \in Threads |-> Idle]
  /\ cloud = [r \in Runs |-> NoCloudRun]
  /\ volume = [r \in Runs |-> {}]
  /\ mlflow = [r \in Runs |-> "NONE"]

SetStatus(r, s) == jobs' = [jobs EXCEPT ![r].status = s]

StagerGoes(r, from, to) ==
  /\ stager[r] = from
  /\ stager' = [stager EXCEPT ![r] = to]

\* submit(): the record is registered before the stager starts.
Submit(r) ==
  /\ StagerGoes(r, "none", "dataset")
  /\ jobs' = [jobs EXCEPT ![r] = [NoRecord EXCEPT !.status = "PENDING"]]
  /\ UNCHANGED <<requests, cloud, volume, mlflow>>

\* _upload_data_to_storage(): the dataset, then the run's configuration.
UploadDataset(r) ==
  /\ StagerGoes(r, "dataset", "config")
  /\ UNCHANGED <<jobs, requests, cloud, volume, mlflow>>

\* (mutant) the breadcrumb is written together with the configuration
UploadConfigAndRegistry(r) ==
  /\ StagerGoes(r, "config", "trigger")
  /\ volume' = [volume EXCEPT ![r] = @ \cup {"registry"}]
  /\ UNCHANGED <<jobs, requests, cloud, mlflow>>

UploadConfig(r) ==
  /\ StagerGoes(r, "config", "trigger")
  /\ UNCHANGED <<jobs, requests, cloud, volume, mlflow>>

\* (mutant) the submit thread dies silently
StagingFailsSilently(r) ==
  /\ \/ "upload" \in Faults /\ stager[r] \in {"dataset", "config"}
     \/ "run_now" \in Faults /\ stager[r] = "trigger"
  /\ stager' = [stager EXCEPT ![r] = "done"]
  /\ UNCHANGED <<jobs, requests, cloud, volume, mlflow>>

\* _stage_and_trigger(), both except branches: whatever went wrong, the record
\* becomes FAILED, whatever it was before.
StagingFails(r) ==
  /\ \/ "upload" \in Faults /\ stager[r] \in {"dataset", "config"}
     \/ "run_now" \in Faults /\ stager[r] = "trigger"
  /\ stager' = [stager EXCEPT ![r] = "done"]
  /\ SetStatus(r, "FAILED")
  /\ UNCHANGED <<requests, cloud, volume, mlflow>>

CloudAccepts(r) == cloud' = [cloud EXCEPT ![r].life = "QUEUED"]

\* _trigger_databricks_job(); the job's definition is SharedForecastJob's.
RunNow(r) ==
  /\ StagerGoes(r, "trigger", "record")
  /\ CloudAccepts(r)
  /\ UNCHANGED <<jobs, requests, volume, mlflow>>

\* run_now raised although Databricks started the run.
RunNowReplyLost(r) ==
  /\ "reply_lost" \in Faults
  /\ StagerGoes(r, "trigger", "done")
  /\ CloudAccepts(r)
  /\ SetStatus(r, "FAILED")
  /\ UNCHANGED <<requests, volume, mlflow>>

RecordRunId(r) ==
  /\ StagerGoes(r, "record", "registry")
  /\ jobs' = [jobs EXCEPT ![r].databricks_run_id = TRUE]
  /\ UNCHANGED <<requests, cloud, volume, mlflow>>

\* A breadcrumb that cannot be written is logged and forgotten.
WriteRegistry(r) ==
  /\ StagerGoes(r, "registry", "done")
  /\ \/ volume' = [volume EXCEPT ![r] = @ \cup {"registry"}]
     \/ "upload" \in Faults /\ UNCHANGED volume
  /\ UNCHANGED <<jobs, requests, cloud, mlflow>>

Stage(r) ==
  \/ UploadDataset(r) \/ UploadConfig(r) \/ StagingFails(r) \/ RunNow(r)
  \/ RunNowReplyLost(r) \/ RecordRunId(r) \/ WriteRegistry(r)
--------------------------------------------------------------------------------
(* API requests.  A request whose record is absent changes no state: it is
   answered from history (see GetRunAnswers) or refused. *)

At(t, pc) == requests[t] # Idle /\ requests[t].pc = pc

Goto(t, pc) == requests' = [requests EXCEPT ![t].pc = pc]

Return(t) == requests' = [requests EXCEPT ![t] = Idle]

Begin(t, op, r) ==
  /\ requests[t] = Idle
  /\ jobs[r].status # "ABSENT"
  /\ requests' = [requests EXCEPT ![t] =
       [op |-> op, run |-> r, pc |-> "refresh", seen |-> "nothing",
        knows_end |-> op = "cancel" /\ jobs[r].databricks_run_id /\ Finished(r)]]
  /\ UNCHANGED <<jobs, stager, cloud, volume, mlflow>>

\* What a request does once its _refresh() returned.
AfterRefresh(request) ==
  CASE request.op = "read" -> Idle
    [] request.op = "result" -> [request EXCEPT !.pc = "ready", !.seen = "nothing"]
    [] request.op = "cancel" -> [request EXCEPT !.pc = "decide", !.seen = "nothing"]

PollIf(t, needed) ==
  requests' = [requests EXCEPT ![t] =
                 IF needed THEN [@ EXCEPT !.pc = "poll"] ELSE AfterRefresh(@)]

\* (mutant) cancel() trusts the record it has
CheckRecordUnlessCancelling(t) ==
  /\ At(t, "refresh")
  /\ LET record == jobs[requests[t].run]
     IN  PollIf(t, /\ record.databricks_run_id /\ record.status \in Active
                   /\ requests[t].op # "cancel")
  /\ UNCHANGED <<jobs, stager, cloud, volume, mlflow>>

\* (mutant) a terminal record is polled again
CheckRecordOfAnyStatus(t) ==
  /\ At(t, "refresh")
  /\ PollIf(t, jobs[requests[t].run].databricks_run_id)
  /\ UNCHANGED <<jobs, stager, cloud, volume, mlflow>>

\* _refresh(): nothing to poll before the id is known or once terminal.
CheckRecord(t) ==
  /\ At(t, "refresh")
  /\ LET record == jobs[requests[t].run]
     IN  PollIf(t, record.databricks_run_id /\ record.status \in Active)
  /\ UNCHANGED <<jobs, stager, cloud, volume, mlflow>>

\* _monitor_job_status(): what Databricks says now, applied later.
Poll(t) ==
  /\ At(t, "poll")
  /\ requests' = [requests EXCEPT ![t].pc = "apply",
                                  ![t].seen = CloudStatus(requests[t].run)]
  /\ UNCHANGED <<jobs, stager, cloud, volume, mlflow>>

\* (mutant) an unreachable workspace fails the run
PollFailsTheRun(t) ==
  /\ "poll" \in Faults
  /\ At(t, "poll")
  /\ SetStatus(requests[t].run, "FAILED")
  /\ requests' = [requests EXCEPT ![t] = AfterRefresh([@ EXCEPT !.knows_end = FALSE])]
  /\ UNCHANGED <<stager, cloud, volume, mlflow>>

\* A poll that fails leaves the record alone.
PollFails(t) ==
  /\ "poll" \in Faults
  /\ At(t, "poll")
  /\ requests' = [requests EXCEPT ![t] = AfterRefresh([@ EXCEPT !.knows_end = FALSE])]
  /\ UNCHANGED <<jobs, stager, cloud, volume, mlflow>>

\* An answer that takes a terminal record back to an active status.
StaleAnswer(t) ==
  requests[t].seen \in Active /\ jobs[requests[t].run].status \in Terminal

\* The end of _refresh(): the status is stored without a second look at the
\* record.
Apply(t) ==
  /\ At(t, "apply")
  /\ SetStatus(requests[t].run, requests[t].seen)
  /\ requests' =
       [x \in Threads |->
          CASE x = t -> AfterRefresh(requests[t])
            [] x # t /\ requests[x] # Idle /\ requests[x].run = requests[t].run
                 -> [requests[x] EXCEPT !.knows_end = @ /\ ~StaleAnswer(t)]
            [] OTHER -> requests[x]]
  /\ UNCHANGED <<stager, cloud, volume, mlflow>>

\* get_result(): RunNotReadyError while active.
CheckReady(t) ==
  /\ At(t, "ready")
  /\ IF jobs[requests[t].run].status \in Active THEN Return(t) ELSE Goto(t, "fetch")
  /\ UNCHANGED <<jobs, stager, cloud, volume, mlflow>>

\* The summary comes from the volume or from MLflow's copy of it, if either can
\* be read.
FetchSummary(t) ==
  LET r == requests[t].run
  IN  /\ At(t, "fetch")
      /\ \E found \in BOOLEAN :
           /\ found => "outputs" \in volume[r] \/ mlflow[r] # "NONE"
           /\ jobs' = [jobs EXCEPT ![r].summary =
                         @ \/ (jobs[r].status = "COMPLETED" /\ found)]
      /\ Return(t)
      /\ UNCHANGED <<stager, cloud, volume, mlflow>>

\* cancel(), after its refresh: an already terminal run is left alone.
DecideCancel(t) ==
  /\ At(t, "decide")
  /\ IF jobs[requests[t].run].status \in Active THEN Goto(t, "signal") ELSE Return(t)
  /\ UNCHANGED <<jobs, stager, cloud, volume, mlflow>>

\* jobs.cancel_run(), only when the id is known; a refusal is only reported.
SignalCancel(t) ==
  LET r == requests[t].run
  IN  /\ At(t, "signal")
      /\ \/ /\ jobs[r].databricks_run_id
            /\ cloud' = [cloud EXCEPT ![r].cancel = TRUE]
         \/ /\ ~jobs[r].databricks_run_id \/ "cancel_run" \in Faults
            /\ UNCHANGED cloud
      /\ Goto(t, "mark")
      /\ UNCHANGED <<jobs, stager, volume, mlflow>>

MarkRecord(t) ==
  /\ At(t, "mark")
  /\ jobs' = [jobs EXCEPT ![requests[t].run].status = "CANCELLED",
                          ![requests[t].run].cancelled_by = TRUE]
  /\ Goto(t, "cleanup")
  /\ UNCHANGED <<stager, cloud, volume, mlflow>>

\* _cleanup_run_storage(): every directory of the run; what cannot be removed
\* stays and is reported.
CleanupStorage(t) ==
  /\ At(t, "cleanup")
  /\ \E kept \in SUBSET volume[requests[t].run] :
       /\ kept = {} \/ "cleanup" \in Faults
       /\ volume' = [volume EXCEPT ![requests[t].run] = kept]
  /\ Goto(t, "mlflow")
  /\ UNCHANGED <<jobs, stager, cloud, mlflow>>

\* history.mark_cancelled(): an open row is closed as KILLED, if MLflow answers.
MarkHistory(t) ==
  /\ At(t, "mlflow")
  /\ \/ mlflow' = [mlflow EXCEPT ![requests[t].run] = IF @ = "RUNNING" THEN "KILLED" ELSE @]
     \/ "tracking" \in Faults /\ UNCHANGED mlflow
  /\ Return(t)
  /\ UNCHANGED <<jobs, stager, cloud, volume>>

Refresh(t) == CheckRecord(t) \/ Poll(t) \/ PollFails(t) \/ Apply(t)

GetResult(t) == CheckReady(t) \/ FetchSummary(t)

Cancel(t) ==
  \/ DecideCancel(t) \/ SignalCancel(t) \/ MarkRecord(t) \/ CleanupStorage(t)
  \/ MarkHistory(t)

Serve(t) == Refresh(t) \/ GetResult(t) \/ Cancel(t)

\* A restart loses the records, the stagers and the requests.
Restart ==
  /\ "restart" \in Faults
  /\ jobs' = [r \in Runs |-> NoRecord]
  /\ stager' = [r \in Runs |-> IF stager[r] = "none" THEN "none" ELSE "dead"]
  /\ requests' = [t \in Threads |-> Idle]
  /\ UNCHANGED <<cloud, volume, mlflow>>
--------------------------------------------------------------------------------
(* Databricks (external) and the engine running in its job. *)

CloudGoes(r, from, life, result) ==
  /\ cloud[r].life \in from
  /\ cloud' = [cloud EXCEPT ![r].life = life, ![r].result = result]

CloudAdvances(r) ==
  /\ \/ CloudGoes(r, {"QUEUED"}, "PENDING", "NONE")
     \/ CloudGoes(r, {"PENDING"}, "RUNNING", "NONE")
     \/ CloudGoes(r, {"TERMINATING"}, "TERMINATED", cloud[r].result)
  /\ UNCHANGED <<jobs, stager, requests, volume, mlflow>>

CloudGivesUp(r) ==
  /\ \/ CloudGoes(r, {"QUEUED"}, "SKIPPED", "NONE")
     \/ CloudGoes(r, {"PENDING"}, "INTERNAL_ERROR", "NONE")
  /\ UNCHANGED <<jobs, stager, requests, volume, mlflow>>

CloudCancels(r) ==
  /\ cloud[r].cancel
  /\ CloudGoes(r, {"QUEUED", "PENDING", "RUNNING"}, "TERMINATING", "CANCELED")
  /\ UNCHANGED <<jobs, stager, requests, volume, mlflow>>

\* tracking_pipeline.begin(): the row is opened before the first stage.
EngineOpensRow(r) ==
  /\ cloud[r].life = "RUNNING" /\ mlflow[r] = "NONE"
  /\ mlflow' = [mlflow EXCEPT ![r] = "RUNNING"]
  /\ UNCHANGED <<jobs, stager, requests, cloud, volume>>

\* attached_run(): a worker's attach reopens the row, and its detach closes it
\* again long before the run's own end.
WorkerTouchesRow(r) ==
  /\ cloud[r].life = "RUNNING" /\ mlflow[r] # "NONE"
  /\ \E s \in {"RUNNING", "FINISHED", "FAILED"} : mlflow' = [mlflow EXCEPT ![r] = s]
  /\ UNCHANGED <<jobs, stager, requests, cloud, volume>>

\* The engine's last write to the row, if it opened one and MLflow answers.
EngineLeavesRow(r, endings) ==
  \/ UNCHANGED mlflow
  \/ mlflow[r] # "NONE" /\ \E s \in endings : mlflow' = [mlflow EXCEPT ![r] = s]

\* track() closes the row FINISHED, or FAILED when something of it failed; the
\* task succeeds either way.
EngineSucceeds(r) ==
  /\ CloudGoes(r, {"RUNNING"}, "TERMINATING", "SUCCESS")
  /\ volume' = [volume EXCEPT ![r] = @ \cup {"outputs"}]
  /\ EngineLeavesRow(r, {"FINISHED", "FAILED"})
  /\ UNCHANGED <<jobs, stager, requests>>

EngineFails(r) ==
  /\ CloudGoes(r, {"RUNNING"}, "TERMINATING", "FAILED")
  /\ EngineLeavesRow(r, {"FAILED"})
  /\ UNCHANGED <<jobs, stager, requests, volume>>

CloudSteps(r) ==
  CloudAdvances(r) \/ CloudGivesUp(r) \/ CloudCancels(r) \/ EngineSucceeds(r) \/ EngineFails(r)

RowSteps(r) == EngineOpensRow(r) \/ WorkerTouchesRow(r)
--------------------------------------------------------------------------------
Next ==
  \/ \E r \in Runs : Submit(r) \/ Stage(r) \/ CloudSteps(r) \/ RowSteps(r)
  \/ \E t \in Threads : Serve(t) \/ \E op \in Operations, r \in Runs : Begin(t, op, r)
  \/ Restart

Spec == Init /\ [][Next]_vars

\* Threads that run keep running, Databricks keeps working on the run, and
\* some screen keeps polling it (the frontend polls every three seconds).
Fairness ==
  /\ \A r \in Runs : /\ WF_vars(Stage(r))
                     /\ WF_vars(CloudSteps(r))
                     /\ WF_vars(\E t \in Threads, op \in Operations : Begin(t, op, r))
  /\ \A t \in Threads : WF_vars(Serve(t))

FairSpec == Spec /\ Fairness
--------------------------------------------------------------------------------
\* What get_run() may answer: from memory, else from MLflow, else (no row, or no
\* answer) from the breadcrumb and one live Databricks call, which reads FAILED
\* when it fails; "NONE" is the unknown run.
BreadcrumbAnswers(r) ==
  IF "registry" \in volume[r]
    THEN {CloudStatus(r)} \cup (IF "poll" \in Faults THEN {"FAILED", "NONE"} ELSE {})
    ELSE {"NONE"}

GetRunAnswers(r) ==
  IF jobs[r].status # "ABSENT" THEN {jobs[r].status}
  ELSE (IF mlflow[r] # "NONE" THEN {history_status(mlflow[r])} ELSE {})
       \cup (IF mlflow[r] = "NONE" \/ "tracking" \in Faults THEN BreadcrumbAnswers(r) ELSE {})

TypeOK ==
  /\ jobs \in [Runs -> Record]
  /\ stager \in [Runs -> StagerSteps]
  /\ requests \in [Threads -> Request \cup {Idle}]
  /\ cloud \in [Runs -> CloudRun]
  /\ volume \in [Runs -> SUBSET Files]
  /\ mlflow \in [Runs -> MLflowStatuses]

\* Every terminal status a record carries was caused by what it says: a
\* COMPLETED record by a Databricks run that succeeded, a FAILED one by a run
\* that failed or by a submission that did, a CANCELLED one by a cancel() or by
\* Databricks.  map_run_state's docstring: "claiming success for a state we do
\* not understand is the one wrong answer".  Whatever the interleaving of
\* staging, polls, cancels and restarts.
TerminalStatusHasCause ==
  \A r \in Runs :
    /\ jobs[r].status = "COMPLETED" => CloudStatus(r) = "COMPLETED"
    /\ jobs[r].status = "FAILED" =>
         CloudStatus(r) = "FAILED" \/ (stager[r] = "done" /\ ~jobs[r].databricks_run_id)
    /\ jobs[r].status = "CANCELLED" =>
         CloudStatus(r) = "CANCELLED" \/ jobs[r].cancelled_by

\* The registry breadcrumb always leads to a Databricks run: the recovery read
\* after a restart never polls a run that was not started.
BreadcrumbHasRun ==
  \A r \in Runs : "registry" \in volume[r] => cloud[r].life # "NONE"

\* The facts that make the two invariants above inductive.  A run that is
\* still being staged has no Databricks run and no id; an id is recorded only
\* once Databricks accepted the run.
StagingInv ==
  \A r \in Runs :
    /\ stager[r] \in {"none", "dataset", "config", "trigger"} =>
         cloud[r].life = "NONE" /\ ~jobs[r].databricks_run_id
    /\ stager[r] \in {"record", "registry"} \/ jobs[r].databricks_run_id =>
         cloud[r].life # "NONE"

\* A poll asks about a run Databricks has, and a terminal status it brought
\* back is still what Databricks says when it is applied, however late.
PollInv ==
  \A t \in Threads :
    LET r == requests[t].run
    IN  /\ At(t, "poll") => jobs[r].databricks_run_id
        /\ At(t, "apply") =>
             /\ cloud[r].life # "NONE"
             /\ requests[t].seen \in Terminal => CloudStatus(r) = requests[t].seen

IInv ==
  /\ TypeOK
  /\ StagingInv
  /\ PollInv
  /\ TerminalStatusHasCause
  /\ BreadcrumbHasRun

\* cancel()'s first comment: without its refresh "a run that finished on
\* Databricks since the last poll" would have its outputs deleted.  A cancel
\* that arrives after Databricks finished the run gets as far as the cleanup in
\* two ways only: its own poll failed, or somebody else's stale answer undid
\* the terminal status while it was under way.
FinishedRunIsNotCleaned ==
  \A t \in Threads : At(t, "cleanup") => ~requests[t].knows_end

\* The facts that make it inductive.  A request under way has a record, and a
\* record a submission; a finished run stays finished; a cancel that knows of the
\* end finds a terminal status and goes no further.
SubmissionInv ==
  \A r \in Runs :
    /\ stager[r] = "none" => jobs[r].status = "ABSENT"
    /\ stager[r] \in {"dataset", "config", "trigger", "record", "registry"} =>
         jobs[r].status # "ABSENT"

RequestInv(t) ==
  LET q == requests[t]
  IN  q # Idle =>
        /\ jobs[q.run].status # "ABSENT"
        /\ q.knows_end =>
             /\ jobs[q.run].databricks_run_id /\ Finished(q.run)
             /\ q.pc = "apply" => q.seen \in Terminal
             /\ q.pc = "decide" => jobs[q.run].status \in Terminal
             /\ q.pc \notin {"signal", "mark", "cleanup", "mlflow"}

RunnerInv == IInv /\ SubmissionInv /\ \A t \in Threads : RequestInv(t)

\* A cancelled run whose submission and cancellation have both come to rest is
\* not executing on Databricks, unless Databricks was told to stop it.
CancelStopsTheRun ==
  \A r \in Runs :
    /\ jobs[r].status = "CANCELLED"
    /\ stager[r] = "done"
    /\ \A t \in Threads : requests[t] # Idle => requests[t].run # r
    /\ Executing(r)
    => cloud[r].cancel

\* mlflow_history.py: a persisted row that still says RUNNING "is not live —
\* anything genuinely live is in memory and never reaches this reader".  A run
\* Databricks is executing would therefore never be answered as ended from the
\* history alone.
LiveRunsReadLive ==
  \A r \in Runs :
    jobs[r].status = "ABSENT" /\ Executing(r) => GetRunAnswers(r) \cap Terminal = {}

\* The runner seen as RunLifecycle: its records are the statuses, the Databricks
\* run is the job, and a request does something only between its decision to
\* poll or to cancel and the status it writes.
LifecycleJob(r) ==
  CASE cloud[r].life = "NONE" -> "none"
    [] Finished(r) -> CloudStatus(r)
    [] OTHER -> "going"

LifecycleCaller(q) ==
  IF q = Idle THEN [does |-> "nothing"]
  ELSE CASE q.pc = "poll" -> [does |-> "asks", run |-> q.run]
         [] q.pc = "apply" -> [does |-> "tells", run |-> q.run, status |-> q.seen]
         [] q.pc \in {"signal", "mark"} -> [does |-> "cancels", run |-> q.run]
         [] OTHER -> [does |-> "nothing"]

Lifecycle == INSTANCE RunLifecycle
               WITH Callers <- Threads,
                    status <- [r \in Runs |-> jobs[r].status],
                    job <- [r \in Runs |-> LifecycleJob(r)],
                    callers <- [t \in Threads |-> LifecycleCaller(requests[t])]

\* Whatever the faults and however requests overlap, a record changes only as
\* RunLifecycle allows: an end is reported only if the job ended so, FAILED
\* without it only by a submission that failed, a terminal status is overwritten
\* only by a caller that found it active, and by what that caller was told or
\* decided.
ImplementsLifecycle == Lifecycle!Spec

\* Every submitted run settles in one terminal status, even though a stale
\* poll may take it back to RUNNING for a while.
EveryRunSettles ==
  \A r \in Runs : stager[r] # "none" ~> [](jobs[r].status \in Terminal)
================================================================================
