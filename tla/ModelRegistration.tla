--------------------------- MODULE ModelRegistration ---------------------------
(***************************************************************************)
(* Publishing a run's winning models (forecast_engine/s12_tracking:        *)
(* model_registrar.py under tracking_pipeline.track()).  The groups are    *)
(* registered by a bounded pool of threads, each attaching the run's       *)
(* MLflow run for its own calls; the caller collects the outcomes in order, *)
(* logs the summary and closes the run.  A task that is started again      *)
(* skips what the run's own tags say is already published.                 *)
(*                                                                         *)
(* Of MLflow only what the code relies on is modelled: an MLflow run's     *)
(* status and tags, attaching it (start_run), which sets it RUNNING and    *)
(* refuses in a thread that has an active run, and detaching it (the end   *)
(* of the with block), which closes it.                                    *)
(***************************************************************************)
EXTENDS Integers, Sequences, FiniteSets, Functions

CONSTANTS
  Winners,      \* the groups of final_winner_models, in order
  Forecast,     \* those with a production model and a forecast
  MaxWorkers,   \* registration_max_workers
  Faults,       \* of FaultKinds
  MaxAttempts   \* bound: how often the task is run

FaultKinds ==
  {"register",  \* log_model fails, before or after the registry has the version
   "attach",    \* attaching or detaching the MLflow run fails
   "tag",       \* a group cannot be marked published
   "read",      \* the run's tags cannot be read
   "log",       \* an artifact cannot be logged, the run cannot be closed
   "crash"}     \* the process is killed

Groups == Range(Winners)

ASSUME RegistrationAssumption ==
  /\ Winners \in Seq(Groups)
  /\ \A i, j \in DOMAIN Winners : Winners[i] = Winners[j] => i = j
  /\ Forecast \subseteq Groups
  /\ MaxWorkers \in Int /\ MaxAttempts \in Nat
  /\ Faults \subseteq FaultKinds

VARIABLES
  call,      \* the caller of register_winner_models
  work,      \* where each group's _register_one is
  reported,  \* its ModelRegistrationResult
  row,       \* the run's MLflow run: status, summary logged
  marks,     \* its published.<slug> tags
  registry,  \* how many versions each group's registered model has from this run
  erred,     \* history: groups whose registration failed in this attempt
  unmarked,  \* history: versions, and attempts to register, that no tag warned of
  faulted    \* history: attaching, detaching or logging failed in this attempt

serverVars == <<row, marks, registry>>
history == <<erred, unmarked, faulted>>
vars == <<call, work, reported, serverVars, history>>
--------------------------------------------------------------------------------
Steps == {"queued", "attaching", "uploading", "tagging", "reattaching", "marking"}
Ended == {"done", "raised", "cancelled"}

TypeOK ==
  /\ call \in [pc: {"idle", "reading", "collecting", "draining", "logging", "closed", "dead"},
               next: 1 .. Len(Winners) + 1,
               attempt: 0 .. MaxAttempts,
               published: SUBSET Groups]
  /\ work \in [Groups -> Steps \cup Ended \cup {"idle"}]
  /\ reported \in [Groups -> {"none", "registered", "failed"}]
  /\ row \in [status: {"RUNNING", "FINISHED", "FAILED"}, summary: BOOLEAN]
  /\ marks \subseteq Groups /\ erred \subseteq Groups
  /\ registry \in [Groups -> Nat] /\ unmarked \in [Groups -> Nat]
  /\ \A g \in marks : registry[g] > 0
  /\ faulted \in BOOLEAN

Init ==
  /\ call = [pc |-> "idle", next |-> 1, attempt |-> 0, published |-> {}]
  /\ work = [g \in Groups |-> "idle"]
  /\ reported = [g \in Groups |-> "none"]
  /\ row = [status |-> "RUNNING", summary |-> FALSE]
  /\ marks = {}
  /\ registry = [g \in Groups |-> 0]
  /\ erred = {}
  /\ unmarked = [g \in Groups |-> 0]
  /\ faulted = FALSE
--------------------------------------------------------------------------------
\* Never more threads than groups, and at least one.
Workers ==
  LET bound == IF MaxWorkers < Len(Winners) THEN MaxWorkers ELSE Len(Winners)
  IN  IF bound < 1 THEN 1 ELSE bound

\* With one worker no pool is built: the groups are registered by the caller.
InCallersThread == Workers = 1

Busy == {g \in Groups : work[g] \in Steps \ {"queued"}}

Goes(g, from, to) == work[g] = from /\ work' = [work EXCEPT ![g] = to]

\* A failure that reaches track() itself.
Fault(kind) == kind \in Faults /\ faulted' = TRUE

\* The task runs (again): the MLflow run is opened or reopened.
StartAttempt ==
  /\ call.pc \in {"idle", "closed", "dead"}
  /\ call.attempt < MaxAttempts
  /\ call' = [pc |-> "reading", next |-> 1, attempt |-> call.attempt + 1, published |-> {}]
  /\ row' = [row EXCEPT !.status = "RUNNING"]
  /\ work' = [g \in Groups |-> "idle"]
  /\ reported' = [g \in Groups |-> "none"]
  /\ erred' = {}
  /\ faulted' = FALSE
  /\ UNCHANGED <<marks, registry, unmarked>>

\* published_versions(): unknown means "publish it".
ReadPublished ==
  /\ call.pc = "reading"
  /\ \/ /\ call' = [call EXCEPT !.pc = "collecting", !.published = marks]
        /\ UNCHANGED unmarked
     \/ /\ "read" \in Faults
        /\ call' = [call EXCEPT !.pc = "collecting"]
        /\ unmarked' = [g \in Groups |-> unmarked[g] + IF g \in marks THEN 1 ELSE 0]
  /\ work' = [g \in Groups |-> "queued"]
  /\ UNCHANGED <<reported, serverVars, erred, faulted>>

\* (mutant) what was published before is not looked at
StartGroupAgain(g) ==
  /\ work[g] = "queued"
  /\ Cardinality(Busy) < Workers
  /\ work' = [work EXCEPT ![g] = IF g \in Forecast THEN "attaching" ELSE "done"]
  /\ reported' = [reported EXCEPT ![g] = IF g \in Forecast THEN @ ELSE "failed"]
  /\ UNCHANGED <<call, serverVars, history>>

\* A worker takes the next group of the queue; one with nothing to publish, or
\* published before, is answered at once.
StartGroup(g) ==
  /\ work[g] = "queued"
  /\ \A i, j \in DOMAIN Winners : Winners[i] = g /\ j < i => work[Winners[j]] # "queued"
  /\ Cardinality(Busy) < Workers
  /\ InCallersThread => \A h \in Groups : work[h] # "raised"
  /\ LET atOnce == g \notin Forecast \/ g \in call.published
     IN  /\ work' = [work EXCEPT ![g] = IF atOnce THEN "done" ELSE "attaching"]
         /\ reported' = [reported EXCEPT ![g] =
              IF ~atOnce THEN @ ELSE IF g \in Forecast THEN "registered" ELSE "failed"]
  /\ UNCHANGED <<call, serverVars, history>>

\* start_run(run_id): reopens the run, unless this thread has one active.  What it
\* raises is not an MLflowTrackingError: nothing catches it.
Attach(g, from, to) ==
  /\ \/ /\ ~InCallersThread
        /\ Goes(g, from, to)
        /\ row' = [row EXCEPT !.status = "RUNNING"]
        /\ UNCHANGED faulted
     \/ /\ InCallersThread
        /\ Goes(g, from, "raised")
        /\ UNCHANGED <<row, faulted>>
     \/ /\ Goes(g, from, "raised")
        /\ UNCHANGED row /\ Fault("attach")
  /\ UNCHANGED <<call, reported, marks, registry, erred, unmarked>>

AttachToRegister(g) == Attach(g, "attaching", "uploading")
AttachToMark(g) == Attach(g, "reattaching", "marking")

\* The end of a with block: the run is closed, or closing it raises.
Detach(g, from, to, status) ==
  \/ Goes(g, from, to) /\ row' = [row EXCEPT !.status = status] /\ UNCHANGED faulted
  \/ Goes(g, from, "raised") /\ UNCHANGED row /\ Fault("attach")

\* register_pyfunc_model() succeeds: a new version, not yet marked.
Register(g) ==
  /\ registry' = [registry EXCEPT ![g] = @ + 1]
  /\ unmarked' = [unmarked EXCEPT ![g] = @ + 1]
  /\ Detach(g, "uploading", "tagging", "FINISHED")
  /\ UNCHANGED <<call, reported, marks, erred>>

\* (mutant) a registration that failed is reported as registered
RegisterFailsSilently(g) ==
  /\ "register" \in Faults
  /\ Goes(g, "uploading", "done")
  /\ row' = [row EXCEPT !.status = "FAILED"]
  /\ reported' = [reported EXCEPT ![g] = "registered"]
  /\ erred' = erred \cup {g}
  /\ UNCHANGED <<call, marks, registry, unmarked, faulted>>

\* (mutant) nothing catches a registration that failed
RegisterFailsLoudly(g) ==
  /\ "register" \in Faults
  /\ Goes(g, "uploading", "raised")
  /\ row' = [row EXCEPT !.status = "FAILED"]
  /\ erred' = erred \cup {g}
  /\ UNCHANGED <<call, reported, marks, registry, unmarked, faulted>>

\* It fails, perhaps with the version created: the group's result says so, unless
\* closing the run raises on the way out.
RegisterFails(g) ==
  /\ "register" \in Faults
  /\ Detach(g, "uploading", "done", "FAILED")
  /\ reported' = [reported EXCEPT ![g] = IF work'[g] = "done" THEN "failed" ELSE @]
  /\ erred' = erred \cup {g}
  /\ \/ UNCHANGED <<registry, unmarked>>
     \/ /\ registry' = [registry EXCEPT ![g] = @ + 1]
        /\ unmarked' = [unmarked EXCEPT ![g] = @ + 1]
  /\ UNCHANGED <<call, marks>>

\* set_model_version_tags(): a failure is no more than the result's tag_error.
TagVersion(g) ==
  /\ Goes(g, "tagging", "reattaching")
  /\ UNCHANGED <<call, reported, serverVars, history>>

\* mark_published(): a failure is swallowed.  The result follows the with block.
MarkPublished(g) ==
  /\ \/ /\ marks' = marks \cup {g}
        /\ unmarked' = [unmarked EXCEPT ![g] = @ - 1]
     \/ "tag" \in Faults /\ UNCHANGED <<marks, unmarked>>
  /\ Detach(g, "marking", "done", "FINISHED")
  /\ reported' = [reported EXCEPT ![g] = IF work'[g] = "done" THEN "registered" ELSE @]
  /\ UNCHANGED <<call, registry, erred>>
--------------------------------------------------------------------------------
\* list(pool.map(...)) waits for the groups in order.
Collect ==
  /\ call.pc = "collecting"
  /\ call.next <= Len(Winners)
  /\ work[Winners[call.next]] = "done"
  /\ call' = [call EXCEPT !.next = @ + 1]
  /\ UNCHANGED <<work, reported, serverVars, history>>

\* (mutant) the queue is cancelled and the groups in it waited for
CollectRaisesLater ==
  /\ call.pc = "collecting"
  /\ call.next < Len(Winners)
  /\ work[Winners[call.next]] = "raised"
  /\ work[Winners[call.next + 1]] = "queued"
  /\ work' = [g \in Groups |-> IF work[g] = "queued" THEN "cancelled" ELSE work[g]]
  /\ UNCHANGED <<call, reported, serverVars, history>>

\* One that raised ends it: the groups nobody started yet are cancelled.
CollectRaises ==
  /\ call.pc = "collecting"
  /\ call.next <= Len(Winners)
  /\ work[Winners[call.next]] = "raised"
  /\ call' = [call EXCEPT !.pc = "draining"]
  /\ work' = [g \in Groups |-> IF work[g] = "queued" THEN "cancelled" ELSE work[g]]
  /\ UNCHANGED <<reported, serverVars, history>>

CollectedAll ==
  /\ call.pc = "collecting"
  /\ call.next = Len(Winners) + 1
  /\ call' = [call EXCEPT !.pc = "logging"]
  /\ UNCHANGED <<work, reported, serverVars, history>>

\* _close(): end_run() gives up silently.
Close(status) ==
  /\ call' = [call EXCEPT !.pc = "closed"]
  /\ \/ row' = [row EXCEPT !.status = status] /\ UNCHANGED faulted
     \/ Fault("log") /\ UNCHANGED row

\* The pool's with block waits for the threads; then track() catches what came
\* out of it.
TrackFails ==
  /\ call.pc = "draining"
  /\ Busy = {}
  /\ Close("FAILED")
  /\ UNCHANGED <<work, reported, marks, registry, erred, unmarked>>

\* The summary is logged last, with every group's outcome in it.
LogSummary ==
  /\ call.pc = "logging"
  /\ call' = [call EXCEPT !.pc = "closed"]
  /\ \/ row' = [status |-> "FINISHED", summary |-> TRUE] /\ UNCHANGED faulted
     \/ row' = [row EXCEPT !.summary = TRUE] /\ Fault("log")
     \/ row' = [row EXCEPT !.status = "FAILED"] /\ Fault("log")
  /\ UNCHANGED <<work, reported, marks, registry, erred, unmarked>>

Crash ==
  /\ "crash" \in Faults
  /\ call.pc \notin {"idle", "closed", "dead"}
  /\ call' = [call EXCEPT !.pc = "dead"]
  /\ work' = [g \in Groups |-> "idle"]
  /\ UNCHANGED <<reported, serverVars, history>>

GroupStep(g) ==
  \/ StartGroup(g) \/ AttachToRegister(g) \/ Register(g) \/ RegisterFails(g)
  \/ TagVersion(g) \/ AttachToMark(g) \/ MarkPublished(g)

CallerStep ==
  ReadPublished \/ Collect \/ CollectRaises \/ CollectedAll \/ TrackFails \/ LogSummary

Next ==
  \/ \E g \in Groups : GroupStep(g)
  \/ CallerStep
  \/ StartAttempt
  \/ Crash

\* Threads and caller keep running; nothing says that a task is started again.
Spec ==
  /\ Init /\ [][Next]_vars
  /\ \A g \in Groups : WF_vars(GroupStep(g))
  /\ WF_vars(CallerStep)
--------------------------------------------------------------------------------
\* "a version this run already created for a key is reused rather than
\* duplicated": a second version of a group is always owed to an attempt that
\* left no mark of the first, or could not read it.
NoDuplicateVersions ==
  \A g \in Groups : registry[g] <= unmarked[g] + 1

\* What the summary says of a group is so: a registered group has a version, and
\* one reported failed has no forecast or failed of its own.  "One group's failure
\* never blocks another's": every group has a result by then.
ReportsAreTrue ==
  call.pc = "logging" =>
    \A g \in Groups :
      /\ reported[g] # "none"
      /\ reported[g] = "registered" => registry[g] > 0
      /\ reported[g] = "failed" <=> g \notin Forecast \/ g \in erred

\* track(): "Log a finished execution into the open run and close it FINISHED".
\* So it does although the workers reopen and close the same run, registrations
\* fail and marks get lost, unless attaching the run or logging into it fails.
RunIsLogged == call.pc = "closed" /\ ~faulted => row.status = "FINISHED" /\ row.summary

\* track() "never raises" and always comes to an end: the caller waits for no
\* group that was cancelled, and no worker for a place in the pool.
EveryCallEnds == call.pc = "reading" ~> call.pc \in {"closed", "dead"}
================================================================================
