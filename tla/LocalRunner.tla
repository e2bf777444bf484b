------------------------------- MODULE LocalRunner -------------------------------
(***************************************************************************)
(* The local execution backend: backend/app/orchestration/local_runner.py. *)
(* A submission registers a record and starts a daemon thread (_execute)   *)
(* that makes a work directory, launches the engine as a subprocess, waits *)
(* for it, finalizes the record and hands the run over to MLflow history.  *)
(* cancel() runs on request threads: it marks the record under the lock,   *)
(* then stops the process, deletes the run's storage and closes the row.   *)
(* Composed with MLflowHistory, which answers for runs no longer in memory.*)
(***************************************************************************)
EXTENDS MLflowHistory

CONSTANT Cancellers  \* request threads calling cancel()

FaultKinds ==
  {"mkdtemp",   \* no work directory can be made
   "launch",    \* the engine's interpreter cannot be started
   "engine",    \* the engine fails, or its summary cannot be read
   "crash",     \* it dies without closing its MLflow row
   "timeout",   \* it runs longer than job_timeout_seconds
   "tracking",  \* the tracking server cannot be reached
   "restart"}   \* the backend process dies and starts again

ASSUME FaultsAssumption == Faults \subseteq FaultKinds

VARIABLES
  jobs,      \* self._jobs: status, "is the process handle set", "is work_dir set"
  executor,  \* where the run's _execute thread is
  engine,    \* the engine subprocess
  workspace, \* the runs whose work directory exists
  cancels    \* what each canceller is doing

vars == <<rows, cache, sweep, jobs, executor, engine, workspace, cancels>>
--------------------------------------------------------------------------------
Record == [status: JobStatus \cup {"ABSENT"}, process: BOOLEAN, work_dir: BOOLEAN]

NoRecord == [status |-> "ABSENT", process |-> FALSE, work_dir |-> FALSE]

\* "expired", "timedout" and "handler" are inside the two except branches.
ExecutorSteps == {"none", "start", "mkdir", "publish", "config", "spawn", "register",
                  "reap", "wait", "expired", "timedout", "handler", "handover", "done",
                  "raised", "dead"}

EngineStates == {"none", "running", "ok", "failed", "killed"}

Idle == [pc |-> "none"]

\* process and work_dir are what cancel() captured under the lock.
CancelCall == [pc: {"decide", "stop", "cleanup", "mlflow"}, run: Runs,
               process: BOOLEAN, work_dir: BOOLEAN]

TypeOK ==
  /\ HistoryTypeOK
  /\ jobs \in [Runs -> Record]
  /\ executor \in [Runs -> ExecutorSteps]
  /\ engine \in [Runs -> EngineStates]
  /\ workspace \subseteq Runs
  /\ cancels \in [Cancellers -> CancelCall \cup {Idle}]

Init ==
  /\ HistoryInit
  /\ jobs = [r \in Runs |-> NoRecord]
  /\ executor = [r \in Runs |-> "none"]
  /\ engine = [r \in Runs |-> "none"]
  /\ workspace = {}
  /\ cancels = [c \in Cancellers |-> Idle]

SetStatus(r, s) == jobs' = [jobs EXCEPT ![r].status = s]

ExecutorGoes(r, from, to) ==
  /\ executor[r] = from
  /\ executor' = [executor EXCEPT ![r] = to]
--------------------------------------------------------------------------------
Submit(r) ==
  /\ ExecutorGoes(r, "none", "start")
  /\ jobs' = [jobs EXCEPT ![r] = [NoRecord EXCEPT !.status = "PENDING"]]
  /\ UNCHANGED <<historyVars, engine, workspace, cancels>>

\* _execute()'s first assignment, made whatever the status has become.
StartExecution(r) ==
  /\ ExecutorGoes(r, "start", "mkdir")
  /\ SetStatus(r, "RUNNING")
  /\ UNCHANGED <<historyVars, engine, workspace, cancels>>

\* mkdtemp() is called before the try: when it raises, the thread is gone and
\* the record stays as it is.
MakeWorkDir(r) ==
  /\ \/ ExecutorGoes(r, "mkdir", "publish") /\ workspace' = workspace \cup {r}
     \/ "mkdtemp" \in Faults /\ ExecutorGoes(r, "mkdir", "raised") /\ UNCHANGED workspace
  /\ UNCHANGED <<historyVars, jobs, engine, cancels>>

PublishWorkDir(r) ==
  /\ ExecutorGoes(r, "publish", "config")
  /\ jobs' = [jobs EXCEPT ![r].work_dir = TRUE]
  /\ UNCHANGED <<historyVars, engine, workspace, cancels>>

\* Writing the configuration into a directory cancel() has deleted raises.
WriteConfig(r) ==
  /\ \/ r \in workspace /\ ExecutorGoes(r, "config", "spawn")
     \/ r \notin workspace /\ ExecutorGoes(r, "config", "handler")
  /\ UNCHANGED <<historyVars, jobs, engine, workspace, cancels>>

SpawnEngine(r) ==
  /\ \/ /\ ExecutorGoes(r, "spawn", "register")
        /\ engine' = [engine EXCEPT ![r] = "running"]
     \/ /\ "launch" \in Faults
        /\ ExecutorGoes(r, "spawn", "handler")
        /\ UNCHANGED engine
  /\ UNCHANGED <<historyVars, jobs, workspace, cancels>>

\* The handle is published unless a cancel() got there first.
RegisterProcess(r) ==
  /\ \/ /\ jobs[r].status = "CANCELLED"
        /\ ExecutorGoes(r, "register", "reap")
        /\ UNCHANGED jobs
     \/ /\ jobs[r].status # "CANCELLED"
        /\ ExecutorGoes(r, "register", "wait")
        /\ jobs' = [jobs EXCEPT ![r].process = TRUE]
  /\ UNCHANGED <<historyVars, engine, workspace, cancels>>

Killed(r) == engine' = [engine EXCEPT ![r] = IF @ = "running" THEN "killed" ELSE @]

ReapRacedProcess(r) ==
  /\ ExecutorGoes(r, "reap", "handover")
  /\ Killed(r)
  /\ UNCHANGED <<historyVars, jobs, workspace, cancels>>

\* (mutant) the exit code is stored over a cancellation
FinishCancelledExecution(r) ==
  /\ engine[r] \in {"ok", "failed", "killed"}
  /\ ExecutorGoes(r, "wait", "handover")
  /\ SetStatus(r, IF engine[r] = "ok" THEN "COMPLETED" ELSE "FAILED")
  /\ UNCHANGED <<historyVars, engine, workspace, cancels>>

\* (mutant) the exit code is not looked at
FinishAnyExecution(r) ==
  /\ engine[r] \in {"ok", "failed", "killed"}
  /\ ExecutorGoes(r, "wait", "handover")
  /\ IF jobs[r].status = "CANCELLED" THEN UNCHANGED jobs ELSE SetStatus(r, "COMPLETED")
  /\ UNCHANGED <<historyVars, engine, workspace, cancels>>

\* The engine left a summary that can be read.
ResultsReadable(r) == r \in workspace

\* communicate() returned; under the lock the record is finalized unless it was
\* cancelled.  A summary that is gone or is no JSON raises there, which releases
\* the lock with the record as it was.
FinishExecution(r) ==
  /\ engine[r] \in {"ok", "failed", "killed"}
  /\ \/ /\ jobs[r].status = "CANCELLED"
        /\ ExecutorGoes(r, "wait", "handover")
        /\ UNCHANGED jobs
     \/ /\ jobs[r].status # "CANCELLED" /\ engine[r] # "ok"
        /\ ExecutorGoes(r, "wait", "handover")
        /\ SetStatus(r, "FAILED")
     \/ /\ jobs[r].status # "CANCELLED" /\ engine[r] = "ok" /\ ResultsReadable(r)
        /\ ExecutorGoes(r, "wait", "handover")
        /\ SetStatus(r, "COMPLETED")
     \/ /\ jobs[r].status # "CANCELLED" /\ engine[r] = "ok"
        /\ ~ResultsReadable(r) \/ "engine" \in Faults
        /\ ExecutorGoes(r, "wait", "handler")
        /\ UNCHANGED jobs
  /\ UNCHANGED <<historyVars, engine, workspace, cancels>>

\* "except Exception": the record becomes FAILED, whatever it is by then.
HandleException(r) ==
  /\ ExecutorGoes(r, "handler", "handover")
  /\ SetStatus(r, "FAILED")
  /\ UNCHANGED <<historyVars, engine, workspace, cancels>>

\* "except TimeoutExpired": communicate() gives up, the process is killed and
\* waited for, and only then is the record FAILED, whatever it is by then.
ExecutionTimesOut(r) ==
  /\ "timeout" \in Faults
  /\ engine[r] = "running"
  /\ ExecutorGoes(r, "wait", "expired")
  /\ UNCHANGED <<historyVars, jobs, engine, workspace, cancels>>

KillExpiredProcess(r) ==
  /\ ExecutorGoes(r, "expired", "timedout")
  /\ Killed(r)
  /\ UNCHANGED <<historyVars, jobs, workspace, cancels>>

\* (mutant) a run that was killed for its length keeps its status
LeaveTimedOut(r) ==
  /\ ExecutorGoes(r, "timedout", "handover")
  /\ UNCHANGED <<historyVars, jobs, engine, workspace, cancels>>

FailTimedOut(r) ==
  /\ ExecutorGoes(r, "timedout", "handover")
  /\ SetStatus(r, "FAILED")
  /\ UNCHANGED <<historyVars, engine, workspace, cancels>>

\* (mutant) a row is enough, whether or not it is closed
HandOverOpenRow(r) ==
  /\ ExecutorGoes(r, "handover", "done")
  /\ jobs' = IF rows[r] # "NONE" THEN [jobs EXCEPT ![r] = NoRecord] ELSE jobs
  /\ UNCHANGED <<historyVars, engine, workspace, cancels>>

\* _hand_over_to_history(): the record leaves memory once its row is closed.
HandOver(r) ==
  /\ ExecutorGoes(r, "handover", "done")
  /\ \/ RowClosed(r) /\ jobs' = [jobs EXCEPT ![r] = NoRecord]
     \/ (~RowClosed(r) \/ "tracking" \in Faults) /\ UNCHANGED jobs
  /\ UNCHANGED <<historyVars, engine, workspace, cancels>>

Execute(r) ==
  \/ StartExecution(r) \/ MakeWorkDir(r) \/ PublishWorkDir(r) \/ WriteConfig(r)
  \/ SpawnEngine(r) \/ RegisterProcess(r) \/ ReapRacedProcess(r)
  \/ FinishExecution(r) \/ HandleException(r) \/ ExecutionTimesOut(r)
  \/ KillExpiredProcess(r) \/ FailTimedOut(r) \/ HandOver(r)
--------------------------------------------------------------------------------
At(c, pc) == cancels[c] # Idle /\ cancels[c].pc = pc

Goto(c, pc) == cancels' = [cancels EXCEPT ![c].pc = pc]

\* _require_job() found the record; the object outlives its place in self._jobs.
BeginCancel(c, r) ==
  /\ cancels[c] = Idle
  /\ jobs[r].status # "ABSENT"
  /\ cancels' = [cancels EXCEPT ![c] =
       [pc |-> "decide", run |-> r, process |-> FALSE, work_dir |-> FALSE]]
  /\ UNCHANGED <<historyVars, jobs, executor, engine, workspace>>

\* Under the lock: refuse a terminal run, else mark it and capture what to stop
\* and delete.  A record handed over meanwhile is terminal.
DecideCancel(c) ==
  LET r == cancels[c].run
  IN  /\ At(c, "decide")
      /\ \/ /\ jobs[r].status \in Active
            /\ SetStatus(r, "CANCELLED")
            /\ cancels' = [cancels EXCEPT ![c].pc = "stop",
                                          ![c].process = jobs[r].process,
                                          ![c].work_dir = jobs[r].work_dir]
         \/ /\ jobs[r].status \notin Active
            /\ cancels' = [cancels EXCEPT ![c] = Idle]
            /\ UNCHANGED jobs
      /\ UNCHANGED <<historyVars, executor, engine, workspace>>

\* (mutant) the process is asked to stop but not waited for
StopProcessLater(c) ==
  /\ At(c, "stop")
  /\ Goto(c, "cleanup")
  /\ UNCHANGED <<historyVars, jobs, executor, engine, workspace>>

\* terminate(), wait, and kill() if that was not enough.
StopProcess(c) ==
  /\ At(c, "stop")
  /\ IF cancels[c].process THEN Killed(cancels[c].run) ELSE UNCHANGED engine
  /\ Goto(c, "cleanup")
  /\ UNCHANGED <<historyVars, jobs, executor, workspace>>

CleanupStorage(c) ==
  /\ At(c, "cleanup")
  /\ workspace' = IF cancels[c].work_dir THEN workspace \ {cancels[c].run} ELSE workspace
  /\ Goto(c, "mlflow")
  /\ UNCHANGED <<historyVars, jobs, executor, engine>>

MarkHistory(c) ==
  /\ At(c, "mlflow")
  /\ MarkCancelled(cancels[c].run) \/ MarkCancelledFails
  /\ cancels' = [cancels EXCEPT ![c] = Idle]
  /\ UNCHANGED <<jobs, executor, engine, workspace>>

Cancel(c) == DecideCancel(c) \/ StopProcess(c) \/ CleanupStorage(c) \/ MarkHistory(c)
--------------------------------------------------------------------------------
(* The engine subprocess and its MLflow row (tracking_pipeline.py and
   mlflow_client.py; the process itself is external). *)

\* begin(), before the engine's first stage.
EngineOpensRow(r) ==
  /\ engine[r] = "running" /\ rows[r] = "NONE"
  /\ rows' = [rows EXCEPT ![r] = "RUNNING"]
  /\ UNCHANGED <<cache, sweep, jobs, executor, engine, workspace, cancels>>

\* attached_run(): each registering worker reopens the row, whatever mark_cancelled()
\* made of it, and closes it FINISHED when it detaches, long before the engine ends.
WorkerTouchesRow(r) ==
  /\ engine[r] = "running" /\ rows[r] # "NONE"
  /\ \E s \in {"RUNNING", "FINISHED"} : rows' = [rows EXCEPT ![r] = s]
  /\ UNCHANGED <<cache, sweep, jobs, executor, engine, workspace, cancels>>

\* What an ending engine makes of its row, which one of the faults may keep it from.
RowAfter(r, closed, faults) ==
  IF rows[r] = "NONE" THEN {"NONE"}
  ELSE closed \cup {s \in {rows[r]} : faults \cap Faults # {}}

\* The engine ends.  Exit 0 wants its work directory for the summary but not its
\* row: logging that failed closes it FAILED all the same.
EngineExits(r) ==
  /\ engine[r] = "running"
  /\ \/ /\ r \in workspace
        /\ \E s \in RowAfter(r, {"FINISHED", "FAILED"}, {"tracking"}) :
             rows' = [rows EXCEPT ![r] = s]
        /\ engine' = [engine EXCEPT ![r] = "ok"]
     \/ /\ r \notin workspace \/ {"engine", "crash"} \cap Faults # {}
        /\ \E s \in RowAfter(r, {"FAILED"}, {"crash", "tracking"}) :
             rows' = [rows EXCEPT ![r] = s]
        /\ engine' = [engine EXCEPT ![r] = "failed"]
  /\ UNCHANGED <<cache, sweep, jobs, executor, workspace, cancels>>

EngineSteps(r) == EngineOpensRow(r) \/ WorkerTouchesRow(r) \/ EngineExits(r)

\* The backend dies: its memory and threads are gone.  What becomes of the
\* subprocess is the operating system's business: it may outlive its parent.
Restart ==
  /\ "restart" \in Faults
  /\ jobs' = [r \in Runs |-> NoRecord]
  /\ executor' = [r \in Runs |-> IF executor[r] = "none" THEN "none" ELSE "dead"]
  /\ \/ UNCHANGED engine
     \/ engine' = [r \in Runs |-> IF engine[r] = "running" THEN "killed" ELSE engine[r]]
  /\ cancels' = [c \in Cancellers |-> Idle]
  /\ cache' = NoCache /\ sweep' = NoSweep
  /\ UNCHANGED <<rows, workspace>>

SweepHistory == Sweeping /\ UNCHANGED <<jobs, executor, engine, workspace, cancels>>

Next ==
  \/ \E r \in Runs : Submit(r) \/ Execute(r) \/ EngineSteps(r)
  \/ \E c \in Cancellers : Cancel(c) \/ \E r \in Runs : BeginCancel(c, r)
  \/ SweepHistory
  \/ Restart

Spec == Init /\ [][Next]_vars

\* Threads that can go on do, an engine ends (it has finitely many groups to
\* register), and some screen keeps polling the deployments list, which is what
\* starts a sweep.
FairSpec ==
  /\ Spec
  /\ \A r \in Runs : WF_vars(Execute(r)) /\ WF_vars(EngineExits(r))
  /\ \A c \in Cancellers : WF_vars(Cancel(c))
  /\ WF_vars(SweepHistory)
--------------------------------------------------------------------------------
\* get_status() and get_run(): memory first, then MLflow itself.
GetRunAnswer(r) == IF jobs[r].status # "ABSENT" THEN jobs[r].status ELSE RowAnswer(r)

\* list_runs(): memory first, then the cached listing.
ListRunsAnswer(r) == IF jobs[r].status # "ABSENT" THEN jobs[r].status ELSE ListingAnswer(r)

\* "A finished job leaves memory only once MLflow confirms it, so a run is never
\* lost because tracking was unreachable": while the process lives, a submitted
\* run is in memory or its row is closed.
NoRunIsLost ==
  \A r \in Runs :
    executor[r] \notin {"none", "dead"} => jobs[r].status # "ABSENT" \/ RowClosed(r)

\* A record says COMPLETED only of an engine that exited 0 in a work directory
\* nobody deleted: never of one that was killed, timed out or cleaned up.
CompletedIsTrue ==
  \A r \in Runs : jobs[r].status = "COMPLETED" => engine[r] = "ok" /\ r \in workspace

\* "cleanup below must not start deleting a run's storage while the subprocess
\* could still be mid-write": when cancel() knew the process, it is dead before
\* the cleanup starts.
CleanupAfterDeath ==
  \A c \in Cancellers :
    At(c, "cleanup") /\ cancels[c].process => engine[cancels[c].run] # "running"

\* cancel() against _execute(): once the process handle is published, no exit code
\* is stored over a cancellation ("cancel() already finalized this record",
\* local_runner.py:488).  What may still replace it, for as long as the record is in
\* memory, is the FAILED of an except branch, which takes the lock a second time and
\* does not look: the engine's time limit had expired, or its summary could not be
\* read and cancel() came between the two critical sections.
CancelWithProcessSticks ==
  [][\A r \in Runs :
       jobs[r].status = "CANCELLED" /\ jobs[r].process =>
         \/ jobs'[r].status \in {"CANCELLED", "ABSENT"}
         \/ (executor[r] \in {"timedout", "handler"} /\ jobs'[r].status = "FAILED")]_vars

\* Every submitted run ends, in memory or in history after it, unless mkdtemp raised
\* in its thread or the backend died (local_runner.py:11, "a run is never
\* lost because tracking was unreachable").
EveryRunEnds ==
  \A r \in Runs :
    executor[r] = "start" ~> \/ [](GetRunAnswer(r) \in Terminal)
                             \/ executor[r] \in {"raised", "dead"}

\* The deployments list ends up agreeing with the run's own page, as long as not
\* every sweep fails (mlflow_history.py:218, "the next call retries").
ListingCatchesUp ==
  ([]<>(sweep.step = "fetch") => []<>(sweep.step = "store")) =>
    \A r \in Runs :
      executor[r] = "done" ~> \/ [](ListRunsAnswer(r) = GetRunAnswer(r))
                              \/ executor[r] = "dead"
================================================================================
