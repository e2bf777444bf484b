--------------------------- MODULE SharedForecastJob ---------------------------
(***************************************************************************)
(* How submissions share one Databricks Job (databricks_runner.py,         *)
(* _trigger_databricks_job and _ensure_forecast_job): the job is looked up *)
(* by name, created when the lookup brought nothing, reset to the settings *)
(* of the run about to start otherwise, and then run_now is called.  The   *)
(* submit threads do this concurrently and no lock spans the calls.        *)
(*                                                                         *)
(* A job's definition is reduced to the submission whose settings it       *)
(* carries: the compute is chosen per run and its cluster is tagged with   *)
(* the run's id.  A run takes the definition its job has when run_now is   *)
(* accepted, the reading most favourable to the code.                      *)
(***************************************************************************)
EXTENDS Naturals, FiniteSets

CONSTANTS
  Submissions,  \* runs being submitted
  JobIds,       \* ids Databricks can give to a job
  Faults        \* of FaultKinds

FaultKinds ==
  {"list",        \* jobs.list fails: the lookup reports no job
   "acl",         \* creating the job with its access list is refused
   "reply_lost",  \* ... or the job is created and the reply is lost
   "call"}        \* reset, create or run_now raises

ASSUME FaultsAssumption == Faults \subseteq FaultKinds

VARIABLES
  pc,          \* where each submission is
  found,       \* the job id it holds, as a set of at most one id
  definition,  \* existing jobs -> the submission whose settings they carry
  started,     \* started runs -> the settings and the job they run with
  overlap,     \* the submissions whose definition work overlapped this one's
  misled       \* the submissions a failing call told something untrue

vars == <<pc, found, definition, started, overlap, misled>>

Steps == {"idle", "find", "reset", "create_shared", "create_plain", "run", "done"}

TypeOK ==
  /\ pc \in [Submissions -> Steps]
  /\ found \in [Submissions -> SUBSET JobIds]
  /\ \A s \in Submissions : pc[s] \in {"reset", "run"} =>
       \E j \in DOMAIN definition : found[s] = {j}
  /\ DOMAIN definition \subseteq JobIds
  /\ \A j \in DOMAIN definition : definition[j] \in Submissions
  /\ DOMAIN started \subseteq Submissions
  /\ \A s \in DOMAIN started : started[s] \in [compute: Submissions, job: JobIds]
  /\ overlap \in [Submissions -> SUBSET Submissions]
  /\ misled \subseteq Submissions

Init ==
  /\ pc = [s \in Submissions |-> "idle"]
  /\ found = [s \in Submissions |-> {}]
  /\ definition = [j \in {} |-> {}]
  /\ started = [s \in {} |-> {}]
  /\ overlap = [s \in Submissions |-> {}]
  /\ misled = {}

Busy == {s \in Submissions : pc[s] \notin {"idle", "done"}}

Goes(s, from, to) == pc[s] = from /\ pc' = [pc EXCEPT ![s] = to]

Defined(j, s) ==
  definition' = [k \in DOMAIN definition \cup {j} |-> IF k = j THEN s ELSE definition[k]]

\* Staging is over; from here to run_now the submission works on the job.
Trigger(s) ==
  /\ Goes(s, "idle", "find")
  /\ overlap' = [x \in Submissions |->
       IF x = s THEN Busy ELSE IF x \in Busy THEN overlap[x] \cup {s} ELSE overlap[x]]
  /\ UNCHANGED <<found, definition, started, misled>>

\* No job of that name exists, or the lookup failed.
FindsNone(s) ==
  /\ Goes(s, "find", "create_shared")
  /\ UNCHANGED found
  /\ \/ DOMAIN definition = {} /\ UNCHANGED misled
     \/ "list" \in Faults /\ misled' = misled \cup {s}

\* (mutant) a job that exists is used as it is
FindAndKeep(s) ==
  /\ \/ \E j \in DOMAIN definition :
          found' = [found EXCEPT ![s] = {j}] /\ Goes(s, "find", "run") /\ UNCHANGED misled
     \/ FindsNone(s)
  /\ UNCHANGED <<definition, started, overlap>>

\* (mutant) the lookup is skipped
FindNothing(s) ==
  /\ Goes(s, "find", "create_shared")
  /\ UNCHANGED <<found, definition, started, overlap, misled>>

\* _find_forecast_job(): the first job of that name, if any; a failing lookup is
\* logged and reads "none".
Find(s) ==
  /\ \/ \E j \in DOMAIN definition :
          found' = [found EXCEPT ![s] = {j}] /\ Goes(s, "find", "reset") /\ UNCHANGED misled
     \/ FindsNone(s)
  /\ UNCHANGED <<definition, started, overlap>>

ResetJob(s) ==
  /\ Goes(s, "reset", "run")
  /\ \E j \in found[s] : Defined(j, s)
  /\ UNCHANGED <<found, started, overlap, misled>>

FreshJob(s, j) ==
  /\ j \in JobIds \ DOMAIN definition
  /\ Defined(j, s)

\* With its access list first ...
CreateShared(s) ==
  /\ \E j \in JobIds : FreshJob(s, j) /\ found' = [found EXCEPT ![s] = {j}]
  /\ Goes(s, "create_shared", "run")
  /\ UNCHANGED <<started, overlap, misled>>

\* ... and, whatever went wrong with that, without it.
CreateSharedFails(s) ==
  /\ Goes(s, "create_shared", "create_plain")
  /\ \/ "acl" \in Faults /\ UNCHANGED <<definition, misled>>
     \/ /\ "reply_lost" \in Faults
        /\ \E j \in JobIds : FreshJob(s, j)
        /\ misled' = misled \cup {s}
  /\ UNCHANGED <<found, started, overlap>>

CreatePlain(s) ==
  /\ \E j \in JobIds : FreshJob(s, j) /\ found' = [found EXCEPT ![s] = {j}]
  /\ Goes(s, "create_plain", "run")
  /\ UNCHANGED <<started, overlap, misled>>

RunNow(s) ==
  /\ Goes(s, "run", "done")
  /\ \E j \in found[s] :
       started' = [x \in DOMAIN started \cup {s} |->
         IF x = s THEN [compute |-> definition[j], job |-> j] ELSE started[x]]
  /\ UNCHANGED <<found, definition, overlap, misled>>

\* An SDK call raises: the submission fails, the definition stays as it is.
CallFails(s) ==
  /\ "call" \in Faults
  /\ pc[s] \in {"reset", "create_plain", "run"}
  /\ pc' = [pc EXCEPT ![s] = "done"]
  /\ UNCHANGED <<found, definition, started, overlap, misled>>

Next == \E s \in Submissions :
  \/ Trigger(s) \/ Find(s) \/ ResetJob(s) \/ CreateShared(s) \/ CreateSharedFails(s)
  \/ CreatePlain(s) \/ RunNow(s) \/ CallFails(s)

Spec == Init /\ [][Next]_vars
--------------------------------------------------------------------------------
\* A run executes on the compute selected for it, or on that of a submission
\* that was at work on the job at the same time: submissions that do not
\* overlap never disturb each other, whatever failed before them.
ComputeIsOwnOrOverlapping ==
  \A s \in DOMAIN started : started[s].compute \in {s} \cup overlap[s]

\* "The selected compute is the compute that runs; there is no fallback"
\* (_attach_compute), which the comment on _ensure_forecast_job derives from
\* max_concurrent_runs=1.
SelectedComputeRuns == \A s \in DOMAIN started : started[s].compute = s

\* Submissions that never overlapped leave one job behind, "so every run lands
\* in one job's run history" (_trigger_databricks_job), unless a failing call
\* reported something untrue: a lookup that failed, a creation whose reply was lost.
OneJobWithoutOverlap ==
  (misled = {} /\ \A s \in Submissions : overlap[s] = {}) => Cardinality(DOMAIN definition) <= 1
================================================================================
