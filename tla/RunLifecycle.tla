------------------------------ MODULE RunLifecycle ------------------------------
(***************************************************************************)
(* What a PipelineRunner that reads its backend on demand can promise its  *)
(* callers (runner_base.py): a submitted run is PENDING, and from then on  *)
(* its status is written by four events only.  A caller that found it      *)
(* active is told how the job stands and reports that, possibly late; a    *)
(* caller that found it active cancels it; the submission fails; the       *)
(* process dies.  So COMPLETED is always the job's own end, and a terminal *)
(* status is left only through a caller that asked or decided before it    *)
(* was reached.                                                            *)
(***************************************************************************)
EXTENDS RunStatus

CONSTANTS Runs, Callers

VARIABLES
  status,  \* what the runner holds of a run, "ABSENT" when nothing
  job,     \* the job doing the work: "none", "going", or how it ended
  callers  \* what each caller is about to do to a run

vars == <<status, job, callers>>

JobEnds == Terminal

Quiet == [does |-> "nothing"]

Init ==
  /\ status = [r \in Runs |-> "ABSENT"]
  /\ job = [r \in Runs |-> "none"]
  /\ callers = [c \in Callers |-> Quiet]

SetStatus(r, s) == status' = [status EXCEPT ![r] = s]

Becomes(c, what) == callers' = [callers EXCEPT ![c] = what]

Submit(r) ==
  /\ status[r] = "ABSENT" /\ job[r] = "none"
  /\ SetStatus(r, "PENDING")
  /\ UNCHANGED <<job, callers>>

Start(r) ==
  /\ job[r] = "none" /\ job' = [job EXCEPT ![r] = "going"]
  /\ UNCHANGED <<status, callers>>

End(r) ==
  /\ job[r] = "going"
  /\ \E e \in JobEnds : job' = [job EXCEPT ![r] = e]
  /\ UNCHANGED <<status, callers>>

\* The job could not be started, or was started without the runner knowing.
Reject(r) ==
  /\ status[r] # "ABSENT" /\ job[r] = "none"
  /\ SetStatus(r, "FAILED")
  /\ UNCHANGED job \/ job' = [job EXCEPT ![r] = "going"]
  /\ UNCHANGED callers

Ask(c, r) ==
  /\ callers[c] = Quiet /\ status[r] \in Active
  /\ Becomes(c, [does |-> "asks", run |-> r])
  /\ UNCHANGED <<status, job>>

\* The job answers with an active status while it is going, then with its end.
Hear(c, r) ==
  /\ callers[c] = [does |-> "asks", run |-> r] /\ job[r] # "none"
  /\ \E s \in IF job[r] = "going" THEN Active ELSE {job[r]} :
       Becomes(c, [does |-> "tells", run |-> r, status |-> s])
  /\ UNCHANGED <<status, job>>

Miss(c, r) ==
  /\ callers[c] = [does |-> "asks", run |-> r]
  /\ Becomes(c, Quiet)
  /\ UNCHANGED <<status, job>>

Tell(c, r, s) ==
  /\ callers[c] = [does |-> "tells", run |-> r, status |-> s]
  /\ SetStatus(r, s)
  /\ Becomes(c, Quiet)
  /\ UNCHANGED job

Decide(c, r) ==
  /\ callers[c] = Quiet /\ status[r] \in Active
  /\ Becomes(c, [does |-> "cancels", run |-> r])
  /\ UNCHANGED <<status, job>>

Cancel(c, r) ==
  /\ callers[c] = [does |-> "cancels", run |-> r]
  /\ SetStatus(r, "CANCELLED")
  /\ Becomes(c, Quiet)
  /\ UNCHANGED job

\* The process died: every run it held is forgotten at once, and its callers.
Forget ==
  /\ status' = [r \in Runs |-> "ABSENT"]
  /\ callers' = [c \in Callers |-> Quiet]
  /\ UNCHANGED job

Next ==
  \/ \E r \in Runs : Submit(r) \/ Start(r) \/ End(r) \/ Reject(r)
  \/ \E c \in Callers, r \in Runs :
       \/ Ask(c, r) \/ Hear(c, r) \/ Miss(c, r) \/ Decide(c, r) \/ Cancel(c, r)
       \/ \E s \in JobStatus : Tell(c, r, s)
  \/ Forget

Spec == Init /\ [][Next]_vars
================================================================================
