------------------------------- MODULE RunStatus -------------------------------
(***************************************************************************)
(* The platform's own run vocabulary (JobStatus) and the two translations  *)
(* into it: from a Databricks run state and from an MLflow run status.     *)
(***************************************************************************)

\* JobStatus: the five states a run is reported in.
JobStatus == {"PENDING", "RUNNING", "COMPLETED", "FAILED", "CANCELLED"}

\* The states every runner tests for with `status in (PENDING, RUNNING)`.
Active == {"PENDING", "RUNNING"}

Terminal == {"COMPLETED", "FAILED", "CANCELLED"}

\* What Databricks reports of a run: its life cycle and, once it stopped, its
\* result.  "UNKNOWN" stands for every word the platform has never heard of.
LifeCycles == {"QUEUED", "PENDING", "WAITING_FOR_RETRY", "BLOCKED", "RUNNING",
               "TERMINATING", "TERMINATED", "SKIPPED", "INTERNAL_ERROR", "UNKNOWN"}

Results == {"NONE", "SUCCESS", "SUCCESS_WITH_FAILURES", "FAILED", "TIMEDOUT",
            "CANCELED", "UPSTREAM_FAILED", "UPSTREAM_CANCELED",
            "MAXIMUM_CONCURRENT_RUNS_REACHED", "DISABLED", "EXCLUDED", "UNKNOWN"}

\* _RESULT_STATE_MAP with its default: anything but a success or a
\* cancellation is a failure.
result_status(result) ==
  CASE result = "SUCCESS" -> "COMPLETED"
    [] result \in {"CANCELED", "UPSTREAM_CANCELED"} -> "CANCELLED"
    [] OTHER -> "FAILED"

\* _LIFE_CYCLE_MAP with its default: a word nobody knows is still RUNNING.
life_cycle_status(life_cycle) ==
  CASE life_cycle \in {"QUEUED", "PENDING", "WAITING_FOR_RETRY", "BLOCKED"} -> "PENDING"
    [] life_cycle = "SKIPPED" -> "CANCELLED"
    [] life_cycle = "INTERNAL_ERROR" -> "FAILED"
    [] OTHER -> "RUNNING"

\* Terminal runs are judged by their result, the others by their life cycle.
map_run_state(life_cycle, result) ==
  IF life_cycle = "TERMINATED" THEN result_status(result)
                               ELSE life_cycle_status(life_cycle)

\* MLflow's RunInfo.status; "NONE" when no row carries the platform's run id.
MLflowStatuses == {"NONE", "SCHEDULED", "RUNNING", "FINISHED", "FAILED", "KILLED"}

\* _STATUS_MAP: a persisted row that is still RUNNING or SCHEDULED reads FAILED.
history_status(mlflow_status) ==
  CASE mlflow_status = "FINISHED" -> "COMPLETED"
    [] mlflow_status = "KILLED" -> "CANCELLED"
    [] OTHER -> "FAILED"
================================================================================
