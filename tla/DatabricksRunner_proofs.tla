------------------------- MODULE DatabricksRunner_proofs -------------------------
(***************************************************************************)
(* Proofs about DatabricksRunner, for any runs, API threads and faults.    *)
(***************************************************************************)
EXTENDS DatabricksRunner, TLAPS

\* map_run_state always answers with a JobStatus.
LEMMA StatusType == \A l, x : map_run_state(l, x) \in JobStatus
  BY DEF map_run_state, result_status, life_cycle_status, JobStatus

LEMMA TerminalMeans ==
  \A l, x : map_run_state(l, x) \in Terminal
              => l \in {"TERMINATED", "SKIPPED", "INTERNAL_ERROR"}
  BY DEF map_run_state, result_status, life_cycle_status, Terminal
--------------------------------------------------------------------------------
(* How the updates the actions are made of keep each variable in its type. *)

LEMMA StatusUpdate ==
  ASSUME TypeOK, NEW r \in Runs, NEW s \in JobStatus, SetStatus(r, s)
  PROVE  jobs' \in [Runs -> Record]
  BY DEF TypeOK, SetStatus, Record

\* get_result() changes nothing of a record but its summary.
LEMMA SummaryOnly ==
  ASSUME TypeOK, NEW t \in Threads, requests[t].run \in Runs, FetchSummary(t)
  PROVE  /\ jobs' \in [Runs -> Record]
         /\ \A r \in Runs :
              /\ jobs'[r].status = jobs[r].status
              /\ jobs'[r].cancelled_by = jobs[r].cancelled_by
              /\ jobs'[r].databricks_run_id = jobs[r].databricks_run_id
              /\ r # requests[t].run => jobs'[r] = jobs[r]
<1>1. jobs \in [Runs -> Record] BY DEF TypeOK
<1>2. PICK b \in BOOLEAN : jobs' = [jobs EXCEPT ![requests[t].run].summary = b]
  <2>1. PICK found \in BOOLEAN :
          jobs' = [jobs EXCEPT ![requests[t].run].summary =
                     @ \/ (jobs[requests[t].run].status = "COMPLETED" /\ found)]
    BY DEF FetchSummary
  <2>2. (jobs[requests[t].run].summary
           \/ (jobs[requests[t].run].status = "COMPLETED" /\ found)) \in BOOLEAN
    OBVIOUS
  <2> QED BY <2>1, <2>2, Zenon
<1> QED BY <1>1, <1>2 DEF Record

LEMMA StagerUpdate ==
  ASSUME TypeOK, NEW r \in Runs, NEW from, NEW to \in StagerSteps, StagerGoes(r, from, to)
  PROVE  stager' \in [Runs -> StagerSteps]
  BY DEF TypeOK, StagerGoes

LEMMA CloudUpdate ==
  ASSUME TypeOK, NEW r \in Runs, NEW from, NEW l \in LifeCycles, NEW x \in Results,
         CloudGoes(r, from, l, x)
  PROVE  cloud' \in [Runs -> CloudRun]
  BY DEF TypeOK, CloudGoes, CloudRun

LEMMA RowUpdate ==
  ASSUME TypeOK, NEW r \in Runs, NEW S, S \subseteq MLflowStatuses, EngineLeavesRow(r, S)
  PROVE  mlflow' \in [Runs -> MLflowStatuses]
  BY DEF TypeOK, EngineLeavesRow

LEMMA RequestShape ==
  ASSUME NEW q \in Request
  PROVE  /\ q # Idle /\ q.run \in Runs /\ q.op \in {"read", "result", "cancel"}
         /\ q.knows_end \in BOOLEAN
         /\ q.pc \in RequestSteps
         /\ q.pc = "apply" => q.seen \in JobStatus
         /\ q.pc # "apply" => q.seen = "nothing"
  BY DEF Request, Operations, RequestSteps, Idle

LEMMA BusyRequest ==
  ASSUME TypeOK, NEW t \in Threads, NEW p, At(t, p)
  PROVE  /\ requests[t] \in Request
         /\ requests[t].run \in Runs
         /\ requests[t].pc = p
         /\ p = "apply" => requests[t].seen \in JobStatus
  BY RequestShape DEF TypeOK, At

Moves(t, pc) == requests'[t] = [requests[t] EXCEPT !.pc = pc]

LEMMA GotoMoves ==
  ASSUME TypeOK, NEW t \in Threads, NEW pc, Goto(t, pc)
  PROVE  Moves(t, pc)
  BY DEF TypeOK, Goto, Moves

\* Where a request that moves on is then; the rest of it stays.
LEMMA MovedRequest ==
  ASSUME NEW q \in Request, q.pc # "apply", NEW p \in RequestSteps \ {"apply"}
  PROVE  /\ [q EXCEPT !.pc = p] \in Request
         /\ [q EXCEPT !.pc = p].pc = p /\ [q EXCEPT !.pc = p].run = q.run
         /\ [q EXCEPT !.pc = p].knows_end = q.knows_end
  BY DEF Request, RequestSteps

LEMMA GotoUpdate ==
  ASSUME TypeOK, NEW t \in Threads, requests[t] \in Request, requests[t].pc # "apply",
         NEW p \in RequestSteps \ {"apply"}, Goto(t, p)
  PROVE  requests' \in [Threads -> Request \cup {Idle}]
  BY MovedRequest DEF TypeOK, Goto

LEMMA ReturnUpdate ==
  ASSUME TypeOK, NEW t \in Threads, Return(t)
  PROVE  requests' \in [Threads -> Request \cup {Idle}] /\ requests'[t] = Idle
  BY DEF TypeOK, Return

\* Once its refresh is over a request is answered, or goes on to read the
\* result or to decide on the cancellation.
LEMMA AfterRefreshIs ==
  ASSUME NEW q \in Request
  PROVE  \/ AfterRefresh(q) = Idle
         \/ /\ AfterRefresh(q) \in Request /\ AfterRefresh(q).pc \in {"ready", "decide"}
            /\ AfterRefresh(q).run = q.run /\ AfterRefresh(q).knows_end = q.knows_end
<1>1. CASE q.op = "read" BY <1>1 DEF AfterRefresh
<1>2. CASE q.op = "result"
  <2>1. AfterRefresh(q) = [q EXCEPT !.pc = "ready", !.seen = "nothing"]
    BY <1>2 DEF AfterRefresh
  <2> QED BY <2>1 DEF Request, RequestSteps
<1>3. CASE q.op = "cancel"
  <2>1. AfterRefresh(q) = [q EXCEPT !.pc = "decide", !.seen = "nothing"]
    BY <1>3 DEF AfterRefresh
  <2> QED BY <2>1 DEF Request, RequestSteps
<1> QED BY <1>1, <1>2, <1>3, RequestShape

\* What the three ways out of a refresh leave of a request: CheckRecord's and
\* Apply's nothing but AfterRefresh, PollFails' a request that knows no end.
LEMMA RefreshedIs ==
  ASSUME TypeOK, NEW t \in Threads
  PROVE  /\ CheckRecord(t) =>
              \/ /\ jobs[requests[t].run].databricks_run_id
                 /\ jobs[requests[t].run].status \in Active
                 /\ Moves(t, "poll")
              \/ /\ ~(jobs[requests[t].run].databricks_run_id
                        /\ jobs[requests[t].run].status \in Active)
                 /\ requests'[t] = AfterRefresh(requests[t])
         /\ PollFails(t) =>
              requests'[t] = AfterRefresh([requests[t] EXCEPT !.knows_end = FALSE])
         /\ Apply(t) => requests'[t] = AfterRefresh(requests[t])
<1>1. requests \in [Threads -> Request \cup {Idle}] BY DEF TypeOK
<1>2. CheckRecord(t) =>
        requests'[t] = IF /\ jobs[requests[t].run].databricks_run_id
                          /\ jobs[requests[t].run].status \in Active
                       THEN [requests[t] EXCEPT !.pc = "poll"] ELSE AfterRefresh(requests[t])
  BY <1>1 DEF CheckRecord, PollIf
<1>3. PollFails(t) => requests'[t] = AfterRefresh([requests[t] EXCEPT !.knows_end = FALSE])
  BY <1>1 DEF PollFails
<1>4. Apply(t) => requests'[t] = AfterRefresh(requests[t])
  BY DEF Apply
<1> QED BY <1>2, <1>3, <1>4 DEF Moves

LEMMA ForgetfulRequest ==
  ASSUME NEW q \in Request, NEW b \in BOOLEAN
  PROVE  LET p == [q EXCEPT !.knows_end = b]
         IN  /\ p \in Request /\ p.knows_end = b /\ p.op = q.op /\ p.run = q.run
             /\ p.pc = q.pc /\ p.seen = q.seen
  BY DEF Request
--------------------------------------------------------------------------------
\* Every step keeps each variable in its type.
LEMMA TypingStep == TypeOK /\ [Next]_vars => TypeOK'
<1> SUFFICES ASSUME TypeOK, [Next]_vars PROVE TypeOK'
  OBVIOUS
<1>1. ASSUME NEW r \in Runs, Submit(r) PROVE TypeOK'
  <2>1. [NoRecord EXCEPT !.status = "PENDING"] \in Record
    BY DEF NoRecord, Record, JobStatus
  <2>2. jobs' \in [Runs -> Record] BY <1>1, <2>1 DEF Submit, TypeOK
  <2> QED BY <1>1, <2>2, StagerUpdate DEF Submit, TypeOK, StagerSteps
<1>2. ASSUME NEW r \in Runs, Stage(r) PROVE TypeOK'
  <2>1. CASE UploadDataset(r)
    BY <2>1, StagerUpdate DEF UploadDataset, TypeOK, StagerSteps
  <2>2. CASE UploadConfig(r)
    BY <2>2, StagerUpdate DEF UploadConfig, TypeOK, StagerSteps
  <2>3. CASE StagingFails(r)
    BY <2>3, StatusUpdate DEF StagingFails, TypeOK, StagerSteps, JobStatus
  <2>4. CASE RunNow(r)
    <3>1. cloud' \in [Runs -> CloudRun]
      BY <2>4 DEF RunNow, CloudAccepts, TypeOK, CloudRun, LifeCycles
    <3> QED BY <2>4, <3>1, StagerUpdate DEF RunNow, TypeOK, StagerSteps
  <2>5. CASE RunNowReplyLost(r)
    <3>1. cloud' \in [Runs -> CloudRun]
      BY <2>5 DEF RunNowReplyLost, CloudAccepts, TypeOK, CloudRun, LifeCycles
    <3> QED
      BY <2>5, <3>1, StagerUpdate, StatusUpdate
      DEF RunNowReplyLost, TypeOK, StagerSteps, JobStatus
  <2>6. CASE RecordRunId(r)
    <3>1. jobs' \in [Runs -> Record] BY <2>6 DEF RecordRunId, TypeOK, Record
    <3> QED BY <2>6, <3>1, StagerUpdate DEF RecordRunId, TypeOK, StagerSteps
  <2>7. CASE WriteRegistry(r)
    BY <2>7, StagerUpdate DEF WriteRegistry, TypeOK, StagerSteps, Files
  <2> QED BY <1>2, <2>1, <2>2, <2>3, <2>4, <2>5, <2>6, <2>7 DEF Stage
<1>3. ASSUME NEW r \in Runs, CloudSteps(r) PROVE TypeOK'
  <2>1. cloud[r].result \in Results BY DEF TypeOK, CloudRun
  <2>2. CASE CloudAdvances(r)
    <3>1. cloud' \in [Runs -> CloudRun]
      BY <2>1, <2>2, CloudUpdate DEF CloudAdvances, LifeCycles, Results
    <3> QED BY <2>2, <3>1 DEF CloudAdvances, TypeOK
  <2>3. CASE CloudGivesUp(r)
    <3>1. cloud' \in [Runs -> CloudRun]
      BY <2>3, CloudUpdate DEF CloudGivesUp, LifeCycles, Results
    <3> QED BY <2>3, <3>1 DEF CloudGivesUp, TypeOK
  <2>4. CASE CloudCancels(r)
    <3>1. cloud' \in [Runs -> CloudRun]
      BY <2>4, CloudUpdate DEF CloudCancels, LifeCycles, Results
    <3> QED BY <2>4, <3>1 DEF CloudCancels, TypeOK
  <2>5. CASE EngineSucceeds(r)
    <3>1. cloud' \in [Runs -> CloudRun]
      BY <2>5, CloudUpdate DEF EngineSucceeds, LifeCycles, Results
    <3>2. mlflow' \in [Runs -> MLflowStatuses]
      BY <2>5, RowUpdate DEF EngineSucceeds, MLflowStatuses
    <3> QED BY <2>5, <3>1, <3>2 DEF EngineSucceeds, TypeOK, Files
  <2>6. CASE EngineFails(r)
    <3>1. cloud' \in [Runs -> CloudRun]
      BY <2>6, CloudUpdate DEF EngineFails, LifeCycles, Results
    <3>2. mlflow' \in [Runs -> MLflowStatuses]
      BY <2>6, RowUpdate DEF EngineFails, MLflowStatuses
    <3> QED BY <2>6, <3>1, <3>2 DEF EngineFails, TypeOK
  <2> QED BY <1>3, <2>2, <2>3, <2>4, <2>5, <2>6 DEF CloudSteps
<1>4. ASSUME NEW t \in Threads, NEW op \in Operations, NEW r \in Runs, Begin(t, op, r)
      PROVE TypeOK'
  <2>1. [op |-> op, run |-> r, pc |-> "refresh", seen |-> "nothing",
         knows_end |-> op = "cancel" /\ jobs[r].databricks_run_id /\ Finished(r)] \in Request
    BY DEF TypeOK, Record, Finished, Request, RequestSteps
  <2> QED BY <1>4, <2>1 DEF Begin, TypeOK
<1>5. ASSUME NEW t \in Threads, Refresh(t) PROVE TypeOK'
  <2>1. requests[t] \in Request
    BY <1>5, BusyRequest DEF Refresh, CheckRecord, Poll, PollFails, Apply
  <2>2. AfterRefresh(requests[t]) \in Request \cup {Idle} BY <2>1, AfterRefreshIs
  <2>3. CASE CheckRecord(t)
    <3>1. requests[t].pc = "refresh" BY <2>3 DEF CheckRecord, At
    <3>2. [requests[t] EXCEPT !.pc = "poll"] \in Request
      BY <2>1, <3>1, MovedRequest DEF RequestSteps
    <3>3. requests' \in [Threads -> Request \cup {Idle}]
      BY <2>2, <2>3, <3>2 DEF CheckRecord, PollIf, TypeOK
    <3> QED BY <2>3, <3>3 DEF CheckRecord, TypeOK
  <2>4. CASE Poll(t)
    <3>1. CloudStatus(requests[t].run) \in JobStatus BY StatusType DEF CloudStatus
    <3>2. [requests[t] EXCEPT !.pc = "apply", !.seen = CloudStatus(requests[t].run)]
            \in Request
      BY <2>1, <3>1 DEF Request, RequestSteps
    <3> QED BY <2>4, <3>2 DEF Poll, TypeOK
  <2>5. CASE PollFails(t)
    <3>1. AfterRefresh([requests[t] EXCEPT !.knows_end = FALSE]) \in Request \cup {Idle}
      BY <2>1, ForgetfulRequest, AfterRefreshIs
    <3> QED BY <2>5, <3>1 DEF PollFails, TypeOK
  <2>6. CASE Apply(t)
    <3>1. ASSUME NEW x \in Threads PROVE requests'[x] \in Request \cup {Idle}
      <4>1. requests[x] \in Request \cup {Idle} BY DEF TypeOK
      <4>2. CASE x = t BY <2>2, <2>6, <4>2 DEF Apply
      <4>3. CASE x # t /\ requests[x] # Idle
        <5>1. PICK b \in BOOLEAN :
                requests'[x] = requests[x] \/ requests'[x] = [requests[x] EXCEPT !.knows_end = b]
          BY <2>6, <4>1, <4>3, RequestShape DEF Apply, StaleAnswer
        <5> QED BY <4>1, <4>3, <5>1, ForgetfulRequest
      <4>4. CASE x # t /\ requests[x] = Idle BY <2>6, <4>4 DEF Apply
      <4> QED BY <4>2, <4>3, <4>4
    <3>2. requests' \in [Threads -> Request \cup {Idle}]
      <4>1. requests' = [x \in Threads |-> requests'[x]] BY <2>6 DEF Apply
      <4> QED BY <3>1, <4>1
    <3>3. jobs' \in [Runs -> Record]
      <4>1. At(t, "apply") /\ SetStatus(requests[t].run, requests[t].seen)
        BY <2>6 DEF Apply
      <4>2. requests[t].run \in Runs /\ requests[t].seen \in JobStatus
        BY <4>1, BusyRequest
      <4> QED BY <4>1, <4>2, StatusUpdate
    <3> QED BY <2>6, <3>2, <3>3 DEF Apply, TypeOK
  <2> QED BY <1>5, <2>3, <2>4, <2>5, <2>6 DEF Refresh
<1>6. ASSUME NEW t \in Threads, GetResult(t) PROVE TypeOK'
  <2>1. CASE CheckReady(t)
    <3>1. requests' \in [Threads -> Request \cup {Idle}]
      BY <2>1, BusyRequest, GotoUpdate, ReturnUpdate DEF CheckReady, RequestSteps
    <3> QED BY <2>1, <3>1 DEF CheckReady, TypeOK
  <2>2. CASE FetchSummary(t)
    <3>1. requests' \in [Threads -> Request \cup {Idle}]
      BY <2>2, ReturnUpdate DEF FetchSummary
    <3>2. jobs' \in [Runs -> Record] BY <2>2, BusyRequest, SummaryOnly DEF FetchSummary
    <3> QED BY <2>2, <3>1, <3>2 DEF FetchSummary, TypeOK
  <2> QED BY <1>6, <2>1, <2>2 DEF GetResult
<1>7. ASSUME NEW t \in Threads, Cancel(t) PROVE TypeOK'
  <2>1. CASE DecideCancel(t)
    <3>1. requests' \in [Threads -> Request \cup {Idle}]
      BY <2>1, BusyRequest, GotoUpdate, ReturnUpdate DEF DecideCancel, RequestSteps
    <3> QED BY <2>1, <3>1 DEF DecideCancel, TypeOK
  <2>2. CASE SignalCancel(t)
    <3>1. requests' \in [Threads -> Request \cup {Idle}]
      BY <2>2, BusyRequest, GotoUpdate DEF SignalCancel, RequestSteps
    <3>2. cloud' \in [Runs -> CloudRun]
      <4>1. \/ UNCHANGED cloud
            \/ cloud' = [cloud EXCEPT ![requests[t].run].cancel = TRUE]
        BY <2>2 DEF SignalCancel
      <4>2. requests[t].run \in Runs BY <2>2, BusyRequest DEF SignalCancel
      <4> QED BY <4>1, <4>2, ZenonT(30) DEF TypeOK, CloudRun
    <3> QED BY <2>2, <3>1, <3>2 DEF SignalCancel, TypeOK
  <2>3. CASE MarkRecord(t)
    <3>1. requests' \in [Threads -> Request \cup {Idle}]
      BY <2>3, BusyRequest, GotoUpdate DEF MarkRecord, RequestSteps
    <3>2. jobs' \in [Runs -> Record]
      BY <2>3, BusyRequest DEF MarkRecord, TypeOK, Record, JobStatus
    <3> QED BY <2>3, <3>1, <3>2 DEF MarkRecord, TypeOK
  <2>4. CASE CleanupStorage(t)
    <3>1. requests' \in [Threads -> Request \cup {Idle}]
      BY <2>4, BusyRequest, GotoUpdate DEF CleanupStorage, RequestSteps
    <3>2. volume' \in [Runs -> SUBSET Files]
      BY <2>4, BusyRequest DEF CleanupStorage, TypeOK
    <3> QED BY <2>4, <3>1, <3>2 DEF CleanupStorage, TypeOK
  <2>5. CASE MarkHistory(t)
    BY <2>5, ReturnUpdate DEF MarkHistory, TypeOK, MLflowStatuses
  <2> QED BY <1>7, <2>1, <2>2, <2>3, <2>4, <2>5 DEF Cancel
<1>8. CASE Restart
  <2>1. NoRecord \in Record BY DEF NoRecord, Record
  <2> QED BY <1>8, <2>1 DEF Restart, TypeOK, StagerSteps
<1>9. CASE UNCHANGED vars BY <1>9 DEF vars, TypeOK
<1>10. ASSUME NEW r \in Runs, RowSteps(r) PROVE TypeOK'
  BY <1>10 DEF RowSteps, EngineOpensRow, WorkerTouchesRow, TypeOK, MLflowStatuses
<1> QED
  BY <1>1, <1>2, <1>3, <1>4, <1>5, <1>6, <1>7, <1>8, <1>9, <1>10 DEF Next, Serve

\* Every variable keeps its type, whatever the runs, threads and faults.
THEOREM TypeInvariant == Spec => []TypeOK
<1>1. Init => TypeOK
  BY DEF Init, TypeOK, Record, NoRecord, StagerSteps, CloudRun, NoCloudRun, Results,
         MLflowStatuses
<1> QED BY <1>1, TypingStep, PTL DEF Spec
--------------------------------------------------------------------------------
(* What Databricks says only grows: a run it accepted stays known, and a
   terminal status stays what it is. *)

CloudGrows ==
  \A r \in Runs :
    /\ cloud[r].life # "NONE" => cloud'[r].life # "NONE"
    /\ CloudStatus(r) \in Terminal =>
         cloud'[r].life = cloud[r].life /\ cloud'[r].result = cloud[r].result

\* The steps that touch the Databricks runs.
LEMMA CloudFrame ==
  ASSUME [Next]_vars
  PROVE  \/ UNCHANGED cloud
         \/ \E r \in Runs : RunNow(r) \/ RunNowReplyLost(r) \/ CloudAdvances(r)
              \/ CloudGivesUp(r) \/ CloudCancels(r) \/ EngineSucceeds(r) \/ EngineFails(r)
         \/ \E t \in Threads : SignalCancel(t)
<1>1. CASE UNCHANGED vars BY <1>1 DEF vars
<1>2. ASSUME NEW r \in Runs, Submit(r) \/ Stage(r) \/ CloudSteps(r) \/ RowSteps(r)
      PROVE  UNCHANGED cloud \/ RunNow(r) \/ RunNowReplyLost(r) \/ CloudAdvances(r)
               \/ CloudGivesUp(r) \/ CloudCancels(r) \/ EngineSucceeds(r) \/ EngineFails(r)
  BY <1>2 DEF Submit, Stage, CloudSteps, UploadDataset, UploadConfig, StagingFails,
       RecordRunId, WriteRegistry, RowSteps, EngineOpensRow, WorkerTouchesRow
<1>3. ASSUME NEW t \in Threads,
             Serve(t) \/ \E op \in Operations, r \in Runs : Begin(t, op, r)
      PROVE  UNCHANGED cloud \/ SignalCancel(t)
  BY <1>3 DEF Serve, Begin, Refresh, GetResult, Cancel, CheckRecord, Poll, PollFails,
       Apply, CheckReady, FetchSummary, DecideCancel, MarkRecord,
       CleanupStorage, MarkHistory
<1>4. CASE Restart BY <1>4 DEF Restart
<1> QED BY <1>1, <1>2, <1>3, <1>4 DEF Next

LEMMA CloudGrowsStep == IInv /\ [Next]_vars => CloudGrows
<1> SUFFICES ASSUME IInv, [Next]_vars PROVE CloudGrows
  OBVIOUS
<1>1. cloud \in [Runs -> CloudRun] BY DEF IInv, TypeOK
<1>2. CASE UNCHANGED cloud BY <1>2 DEF CloudGrows
<1>3. ASSUME NEW x \in Runs, RunNow(x) \/ RunNowReplyLost(x) PROVE CloudGrows
  <2>1. cloud[x].life = "NONE"
    BY <1>3 DEF IInv, StagingInv, RunNow, RunNowReplyLost, StagerGoes
  <2>2. CloudStatus(x) \notin Terminal BY <2>1, TerminalMeans DEF CloudStatus
  <2>3. cloud' = [cloud EXCEPT ![x].life = "QUEUED"]
    BY <1>3 DEF RunNow, RunNowReplyLost, CloudAccepts
  <2> QED BY <1>1, <2>1, <2>2, <2>3 DEF CloudGrows, CloudRun
<1>4. ASSUME NEW x \in Runs,
             \/ CloudAdvances(x) \/ CloudGivesUp(x) \/ CloudCancels(x)
             \/ EngineSucceeds(x) \/ EngineFails(x)
      PROVE CloudGrows
  <2>1. PICK l, y : l \in LifeCycles /\ cloud' = [cloud EXCEPT ![x].life = l, ![x].result = y]
    BY <1>4 DEF CloudAdvances, CloudGivesUp, CloudCancels, EngineSucceeds, EngineFails,
         CloudGoes, LifeCycles
  <2>2. cloud[x].life \in {"QUEUED", "PENDING", "RUNNING", "TERMINATING"}
    BY <1>4 DEF CloudAdvances, CloudGivesUp, CloudCancels, EngineSucceeds, EngineFails,
         CloudGoes
  <2>3. CloudStatus(x) \notin Terminal BY <2>2, TerminalMeans DEF CloudStatus
  <2>4. l # "NONE" BY <2>1 DEF LifeCycles
  <2> QED BY <1>1, <2>1, <2>3, <2>4 DEF CloudGrows, CloudRun
<1>5. ASSUME NEW t \in Threads, SignalCancel(t) PROVE CloudGrows
  BY <1>1, <1>5 DEF SignalCancel, CloudGrows, CloudRun
<1> QED BY <1>2, <1>3, <1>4, <1>5, CloudFrame
--------------------------------------------------------------------------------
(* The steps that touch the records, the stagers and the requests. *)

LEMMA JobsFrame ==
  ASSUME [Next]_vars
  PROVE  \/ UNCHANGED jobs
         \/ \E r \in Runs : Submit(r) \/ StagingFails(r) \/ RunNowReplyLost(r) \/ RecordRunId(r)
         \/ \E t \in Threads : Apply(t) \/ FetchSummary(t) \/ MarkRecord(t)
         \/ Restart
<1>1. CASE UNCHANGED vars BY <1>1 DEF vars
<1>2. ASSUME NEW r \in Runs, Submit(r) \/ Stage(r) \/ CloudSteps(r) \/ RowSteps(r)
      PROVE  UNCHANGED jobs \/ Submit(r) \/ StagingFails(r) \/ RunNowReplyLost(r)
               \/ RecordRunId(r)
  BY <1>2 DEF Stage, CloudSteps, UploadDataset, UploadConfig, RunNow, WriteRegistry,
       CloudAdvances, CloudGivesUp, CloudCancels, RowSteps, EngineOpensRow, WorkerTouchesRow,
       EngineSucceeds, EngineFails
<1>3. ASSUME NEW t \in Threads,
             Serve(t) \/ \E op \in Operations, r \in Runs : Begin(t, op, r)
      PROVE  UNCHANGED jobs \/ Apply(t) \/ FetchSummary(t) \/ MarkRecord(t)
  BY <1>3 DEF Serve, Begin, Refresh, GetResult, Cancel, CheckRecord, Poll, PollFails,
       CheckReady, DecideCancel, SignalCancel, CleanupStorage, MarkHistory
<1> QED BY <1>1, <1>2, <1>3 DEF Next

LEMMA StagerFrame ==
  ASSUME [Next]_vars
  PROVE  \/ UNCHANGED stager
         \/ \E r \in Runs : Submit(r) \/ Stage(r)
         \/ Restart
<1>1. CASE UNCHANGED vars BY <1>1 DEF vars
<1>2. ASSUME NEW r \in Runs, CloudSteps(r) \/ RowSteps(r) PROVE UNCHANGED stager
  BY <1>2 DEF CloudSteps, CloudAdvances, CloudGivesUp, CloudCancels, RowSteps,
       EngineOpensRow, WorkerTouchesRow, EngineSucceeds, EngineFails
<1>3. ASSUME NEW t \in Threads,
             Serve(t) \/ \E op \in Operations, r \in Runs : Begin(t, op, r)
      PROVE  UNCHANGED stager
  BY <1>3 DEF Serve, Begin, Refresh, GetResult, Cancel, CheckRecord, Poll, PollFails,
       Apply, FetchSummary, MarkRecord,
       CheckReady, DecideCancel, SignalCancel, CleanupStorage, MarkHistory
<1> QED BY <1>1, <1>2, <1>3 DEF Next
--------------------------------------------------------------------------------
LEMMA StagingStep == IInv /\ [Next]_vars => StagingInv'
<1> SUFFICES ASSUME IInv, [Next]_vars, NEW r \in Runs
             PROVE  /\ stager'[r] \in {"none", "dataset", "config", "trigger"} =>
                         cloud'[r].life = "NONE" /\ ~jobs'[r].databricks_run_id
                    /\ stager'[r] \in {"record", "registry"} \/ jobs'[r].databricks_run_id =>
                         cloud'[r].life # "NONE"
  BY DEF StagingInv
<1>1. /\ stager \in [Runs -> StagerSteps] /\ jobs \in [Runs -> Record]
      /\ cloud \in [Runs -> CloudRun]
  BY DEF IInv, TypeOK
<1>2. /\ stager[r] \in {"none", "dataset", "config", "trigger"} =>
           cloud[r].life = "NONE" /\ ~jobs[r].databricks_run_id
      /\ stager[r] \in {"record", "registry"} \/ jobs[r].databricks_run_id =>
           cloud[r].life # "NONE"
  BY DEF IInv, StagingInv
<1>3. cloud[r].life # "NONE" => cloud'[r].life # "NONE"
  BY CloudGrowsStep DEF CloudGrows
<1>4. ASSUME NEW x \in Runs, Submit(x) \/ Stage(x) PROVE
        /\ stager'[r] \in {"none", "dataset", "config", "trigger"} =>
             stager[r] \in {"none", "dataset", "config", "trigger"}
        /\ stager'[r] = "record" => stager[r] = "record" \/ RunNow(r)
        /\ stager'[r] = "registry" => stager[r] \in {"record", "registry"}
  BY <1>1, <1>4 DEF Submit, Stage, UploadDataset, UploadConfig, StagingFails, RunNow,
       RunNowReplyLost, RecordRunId, WriteRegistry, StagerGoes
<1>5. /\ stager'[r] \in {"none", "dataset", "config", "trigger"} =>
           stager[r] \in {"none", "dataset", "config", "trigger"}
      /\ stager'[r] \in {"record", "registry"} =>
           stager[r] \in {"record", "registry"} \/ RunNow(r)
  BY <1>1, <1>4, StagerFrame DEF Restart
<1>6. jobs'[r].databricks_run_id => jobs[r].databricks_run_id \/ RecordRunId(r)
  <2>1. ASSUME NEW x \in Runs, Submit(x) \/ StagingFails(x) \/ RunNowReplyLost(x)
        PROVE jobs'[r].databricks_run_id => jobs[r].databricks_run_id
    BY <1>1, <2>1 DEF Submit, StagingFails, RunNowReplyLost, SetStatus, Record, NoRecord
  <2>2. ASSUME NEW x \in Runs, RecordRunId(x)
        PROVE jobs'[r].databricks_run_id => jobs[r].databricks_run_id \/ RecordRunId(r)
    BY <1>1, <2>2 DEF RecordRunId, Record
  <2>3. ASSUME NEW t \in Threads, Apply(t) \/ FetchSummary(t) \/ MarkRecord(t)
        PROVE jobs'[r].databricks_run_id => jobs[r].databricks_run_id
    <3>1. requests[t].run \in Runs /\ TypeOK
      BY <2>3, BusyRequest DEF IInv, Apply, FetchSummary, MarkRecord
    <3>2. CASE FetchSummary(t) BY <3>1, <3>2, SummaryOnly
    <3>3. CASE Apply(t) \/ MarkRecord(t)
      BY <1>1, <3>3 DEF Apply, MarkRecord, SetStatus, Record
    <3> QED BY <2>3, <3>2, <3>3
  <2>4. CASE Restart BY <2>4 DEF Restart, NoRecord
  <2> QED BY <2>1, <2>2, <2>3, <2>4, JobsFrame
<1>7. RunNow(r) => cloud'[r].life # "NONE"
  BY <1>1 DEF RunNow, CloudAccepts, CloudRun
<1>8. RecordRunId(r) => stager[r] = "record" /\ stager'[r] = "registry"
  BY <1>1 DEF RecordRunId, StagerGoes
<1>9. stager'[r] \in {"none", "dataset", "config", "trigger"} =>
        cloud'[r] = cloud[r]
  <2> SUFFICES ASSUME stager'[r] \in {"none", "dataset", "config", "trigger"}
               PROVE  cloud'[r] = cloud[r]
    OBVIOUS
  <2>1. cloud[r].life = "NONE" /\ ~jobs[r].databricks_run_id BY <1>2, <1>5
  <2>2. ASSUME NEW x \in Runs, RunNow(x) \/ RunNowReplyLost(x) PROVE cloud'[r] = cloud[r]
    <3>1. x # r BY <1>1, <2>2 DEF RunNow, RunNowReplyLost, StagerGoes
    <3> QED BY <1>1, <2>2, <3>1 DEF RunNow, RunNowReplyLost, CloudAccepts
  <2>3. ASSUME NEW x \in Runs,
               \/ CloudAdvances(x) \/ CloudGivesUp(x) \/ CloudCancels(x)
               \/ EngineSucceeds(x) \/ EngineFails(x)
        PROVE cloud'[r] = cloud[r]
    <3>1. x # r
      BY <2>1, <2>3 DEF CloudAdvances, CloudGivesUp, CloudCancels, EngineSucceeds,
           EngineFails, CloudGoes
    <3> QED
      BY <1>1, <2>3, <3>1 DEF CloudAdvances, CloudGivesUp, CloudCancels, EngineSucceeds,
           EngineFails, CloudGoes
  <2>4. ASSUME NEW t \in Threads, SignalCancel(t) PROVE cloud'[r] = cloud[r]
    BY <1>1, <2>1, <2>4 DEF SignalCancel
  <2> QED BY <2>2, <2>3, <2>4, CloudFrame
<1> QED BY <1>2, <1>3, <1>5, <1>6, <1>7, <1>8, <1>9
--------------------------------------------------------------------------------
(* How the requests move. *)

\* A request that waits while others move keeps its place; all a step of
\* another thread can do to it is to make it forget that it knows the end.
Waits(t) ==
  IF requests[t] = Idle THEN requests'[t] = Idle
  ELSE /\ requests'[t] # Idle
       /\ requests'[t].pc = requests[t].pc /\ requests'[t].run = requests[t].run
       /\ requests'[t].seen = requests[t].seen
       /\ requests'[t].knows_end => requests[t].knows_end

LEMMA StillWaits == ASSUME NEW t, requests'[t] = requests[t] PROVE Waits(t)
  BY DEF Waits

\* What a thread's step does to its own request, and to the others'.
LEMMA OthersWait ==
  ASSUME TypeOK, NEW t \in Threads, NEW x \in Threads, x # t,
         Serve(x) \/ \E op \in Operations, r \in Runs : Begin(x, op, r)
  PROVE  /\ Waits(t)
         /\ Apply(x) /\ requests[t] # Idle /\ requests[t].run = requests[x].run
              /\ requests'[t].knows_end => ~StaleAnswer(x)
<1>1. requests \in [Threads -> Request \cup {Idle}] BY DEF TypeOK
<1>2. CASE Apply(x)
  <2>1. CASE requests[t] = Idle BY <1>2, <2>1 DEF Apply, Waits
  <2>2. CASE requests[t] # Idle
    <3>1. requests[t] \in Request BY <1>1, <2>2
    <3>2. requests[t].knows_end \in BOOLEAN /\ StaleAnswer(x) \in BOOLEAN
      BY <3>1, RequestShape DEF StaleAnswer
    <3>3. requests[t].run # requests[x].run => requests'[t] = requests[t]
      BY <1>2, <2>2 DEF Apply
    <3>4. requests[t].run = requests[x].run =>
            requests'[t] = [requests[t] EXCEPT !.knows_end =
                              requests[t].knows_end /\ ~StaleAnswer(x)]
      BY <1>2, <2>2 DEF Apply
    <3>5. CASE requests[t].run # requests[x].run
      BY <3>3, <3>5, StillWaits
    <3>6. CASE requests[t].run = requests[x].run
      <4> DEFINE b == requests[t].knows_end /\ ~StaleAnswer(x)
      <4>1. b \in BOOLEAN BY <3>2
      <4>2. requests'[t] = [requests[t] EXCEPT !.knows_end = b] BY <3>4, <3>6
      <4>3. /\ requests'[t] \in Request /\ requests'[t].knows_end = b
            /\ requests'[t].run = requests[t].run /\ requests'[t].pc = requests[t].pc
            /\ requests'[t].seen = requests[t].seen
        <5> HIDE DEF b
        <5> QED BY <3>1, <4>1, <4>2, ForgetfulRequest
      <4> QED BY <2>2, <4>3, RequestShape DEF Waits
    <3> QED BY <3>5, <3>6
  <2> QED BY <2>1, <2>2
<1>3. CASE ~Apply(x)
  <2>1. ASSUME NEW op, NEW r, Begin(x, op, r) PROVE requests'[t] = requests[t]
    BY <1>1, <2>1 DEF Begin
  <2>2. ASSUME CheckRecord(x) \/ Poll(x) \/ PollFails(x)
        PROVE  requests'[t] = requests[t]
    BY <1>1, <2>2 DEF CheckRecord, PollIf, Poll, PollFails
  <2>3. ASSUME GetResult(x) \/ Cancel(x) PROVE requests'[t] = requests[t]
    <3>1. Return(x) \/ \E p \in RequestSteps : Goto(x, p)
      BY <2>3 DEF GetResult, Cancel, CheckReady, FetchSummary, DecideCancel, SignalCancel,
         MarkRecord, CleanupStorage, MarkHistory, RequestSteps
    <3> QED BY <1>1, <3>1 DEF Goto, Return
  <2>4. requests'[t] = requests[t] BY <1>3, <2>1, <2>2, <2>3 DEF Serve, Refresh
  <2> QED BY <1>3, <2>4, StillWaits
<1> QED BY <1>2, <1>3

\* The steps that touch the requests.
LEMMA RequestsFrame ==
  ASSUME [Next]_vars
  PROVE  \/ UNCHANGED requests
         \/ \E x \in Threads : Serve(x) \/ \E op \in Operations, r \in Runs : Begin(x, op, r)
         \/ Restart
<1>1. CASE UNCHANGED vars BY <1>1 DEF vars
<1>2. ASSUME NEW x \in Runs, Submit(x) \/ Stage(x) \/ CloudSteps(x) \/ RowSteps(x)
      PROVE  UNCHANGED requests
  BY <1>2 DEF Submit, Stage, CloudSteps, UploadDataset, UploadConfig, StagingFails,
       RunNow, RunNowReplyLost, RecordRunId, WriteRegistry, CloudAdvances,
       CloudGivesUp, CloudCancels, RowSteps, EngineOpensRow, WorkerTouchesRow,
       EngineSucceeds, EngineFails
<1> QED BY <1>1, <1>2 DEF Next

Polling(t) == At(t, "poll") \/ At(t, "apply")

LEMMA NotPolling ==
  ASSUME NEW t, requests'[t] = Idle \/ requests'[t].pc \notin {"poll", "apply"}
  PROVE  ~Polling(t)'
  BY DEF Polling, At

\* A thread gets to "poll" only through CheckRecord, of a record that has an id
\* and is active, and to "apply" only through Poll.
LEMMA PollingMoves ==
  ASSUME TypeOK, [Next]_vars, NEW t \in Threads
  PROVE  \/ Waits(t)
         \/ /\ CheckRecord(t)
            /\ jobs[requests[t].run].databricks_run_id
            /\ Moves(t, "poll")
         \/ Poll(t)
         \/ ~Polling(t)'
<1>1. requests \in [Threads -> Request \cup {Idle}] BY DEF TypeOK
<1>2. ASSUME NEW q \in Request, requests'[t] = AfterRefresh(q) PROVE ~Polling(t)'
  BY <1>2, AfterRefreshIs, NotPolling
<1>3. CASE CheckRecord(t)
  <2>1. requests[t] \in Request BY <1>3, BusyRequest DEF CheckRecord
  <2> QED BY <1>2, <1>3, <2>1, RefreshedIs
<1>4. CASE PollFails(t)
  <2>1. requests[t] \in Request BY <1>4, BusyRequest DEF PollFails
  <2>2. [requests[t] EXCEPT !.knows_end = FALSE] \in Request BY <2>1, ForgetfulRequest
  <2> QED BY <1>2, <1>4, <2>2, RefreshedIs
<1>5. CASE Apply(t)
  <2>1. requests[t] \in Request BY <1>5, BusyRequest DEF Apply
  <2> QED BY <1>2, <1>5, <2>1, RefreshedIs
<1>6. ASSUME NEW op, NEW r, Begin(t, op, r) PROVE ~Polling(t)'
  <2>1. requests'[t].pc = "refresh" BY <1>1, <1>6 DEF Begin
  <2> QED BY <2>1, NotPolling
<1>7. CASE GetResult(t) \/ Cancel(t)
  <2>1. /\ requests[t] \in Request /\ requests[t].pc # "apply"
        /\ \/ Return(t)
           \/ \E p \in {"fetch", "signal", "mark", "cleanup", "mlflow"} : Goto(t, p)
    BY <1>7, BusyRequest DEF GetResult, Cancel, CheckReady, FetchSummary,
         DecideCancel, SignalCancel, MarkRecord, CleanupStorage, MarkHistory
  <2>2. CASE Return(t) BY <2>2, ReturnUpdate, NotPolling
  <2>3. ASSUME NEW p \in {"fetch", "signal", "mark", "cleanup", "mlflow"}, Goto(t, p)
        PROVE  ~Polling(t)'
    <3>1. Moves(t, p) /\ p \in RequestSteps \ {"apply"}
      BY <2>3, GotoMoves DEF RequestSteps
    <3>2. requests'[t].pc = p BY <2>1, <3>1, MovedRequest DEF Moves
    <3> QED BY <2>3, <3>2, NotPolling
  <2> QED BY <2>1, <2>2, <2>3
<1>8. CASE Restart BY <1>8 DEF Restart, Polling, At
<1>9. CASE UNCHANGED requests BY <1>9, StillWaits
<1>10. ASSUME NEW x \in Threads, Serve(x) \/ \E op \in Operations, r \in Runs : Begin(x, op, r)
       PROVE  \/ Waits(t)
              \/ Serve(t) \/ \E op \in Operations, r \in Runs : Begin(t, op, r)
  BY <1>10, OthersWait
<1> QED
  BY <1>3, <1>4, <1>5, <1>6, <1>7, <1>8, <1>9, <1>10, RequestsFrame DEF Serve, Refresh
--------------------------------------------------------------------------------
\* A recorded id is lost only with the process.
LEMMA IdStays ==
  ASSUME IInv, [Next]_vars, NEW r \in Runs, jobs[r].databricks_run_id
  PROVE  jobs'[r].databricks_run_id \/ Restart
<1>1. jobs \in [Runs -> Record] BY DEF IInv, TypeOK
<1>2. ASSUME NEW x \in Runs, Submit(x) PROVE jobs'[r].databricks_run_id
  <2>1. x # r BY <1>2 DEF IInv, StagingInv, Submit, StagerGoes
  <2> QED BY <1>1, <1>2, <2>1 DEF Submit
<1>3. ASSUME NEW x \in Runs, StagingFails(x) \/ RunNowReplyLost(x) \/ RecordRunId(x)
      PROVE  jobs'[r].databricks_run_id
  BY <1>1, <1>3 DEF StagingFails, RunNowReplyLost, RecordRunId, SetStatus, Record
<1>4. ASSUME NEW x \in Threads, Apply(x) \/ FetchSummary(x) \/ MarkRecord(x)
      PROVE  jobs'[r].databricks_run_id
  <2>1. requests[x].run \in Runs /\ TypeOK
    BY <1>4, BusyRequest DEF IInv, Apply, FetchSummary, MarkRecord
  <2>2. CASE FetchSummary(x) BY <2>1, <2>2, SummaryOnly
  <2>3. CASE Apply(x) \/ MarkRecord(x)
    BY <1>1, <2>3 DEF Apply, MarkRecord, SetStatus, Record
  <2> QED BY <1>4, <2>2, <2>3
<1> QED BY <1>2, <1>3, <1>4, JobsFrame

\* The polls under way stay about runs Databricks knows, and what they brought
\* back stays true while they wait to be applied.
LEMMA PollStep == IInv /\ [Next]_vars => PollInv'
<1> SUFFICES ASSUME IInv, [Next]_vars, NEW t \in Threads
             PROVE  /\ (At(t, "poll") => jobs[requests[t].run].databricks_run_id)'
                    /\ (At(t, "apply") =>
                          /\ cloud[requests[t].run].life # "NONE"
                          /\ requests[t].seen \in Terminal =>
                               CloudStatus(requests[t].run) = requests[t].seen)'
  BY DEF PollInv
<1>1. TypeOK /\ requests \in [Threads -> Request \cup {Idle}] BY DEF IInv, TypeOK
<1>2. /\ At(t, "poll") => jobs[requests[t].run].databricks_run_id
      /\ At(t, "apply") =>
           /\ cloud[requests[t].run].life # "NONE"
           /\ requests[t].seen \in Terminal => CloudStatus(requests[t].run) = requests[t].seen
  BY DEF IInv, PollInv
<1>3. CASE Waits(t)
  <2>1. /\ At(t, "poll")' <=> At(t, "poll")
        /\ At(t, "apply")' <=> At(t, "apply")
        /\ requests[t] # Idle =>
             requests'[t].run = requests[t].run /\ requests'[t].seen = requests[t].seen
    BY <1>3 DEF At, Waits
  <2>2. CASE At(t, "poll")
    <3>1. requests[t].run \in Runs /\ ~At(t, "apply") /\ requests[t] # Idle
      BY <1>1, <2>2, BusyRequest DEF At
    <3>2. ~Restart BY <1>1, <2>1, <2>2 DEF Restart, At
    <3>3. jobs'[requests[t].run].databricks_run_id BY <1>2, <2>2, <3>1, <3>2, IdStays
    <3> QED BY <2>1, <3>1, <3>3
  <2>3. CASE At(t, "apply")
    <3>1. requests[t].run \in Runs /\ ~At(t, "poll") /\ requests[t] # Idle
      BY <1>1, <2>3, BusyRequest DEF At
    <3>2. /\ cloud'[requests[t].run].life # "NONE"
          /\ requests[t].seen \in Terminal =>
               /\ cloud'[requests[t].run].life = cloud[requests[t].run].life
               /\ cloud'[requests[t].run].result = cloud[requests[t].run].result
      BY <1>2, <2>3, <3>1, CloudGrowsStep DEF CloudGrows
    <3> QED BY <1>2, <2>1, <2>3, <3>1, <3>2 DEF CloudStatus
  <2> QED BY <2>1, <2>2, <2>3
<1>4. CASE CheckRecord(t) /\ jobs[requests[t].run].databricks_run_id /\ Moves(t, "poll")
  <2>1. requests[t] \in Request /\ requests[t].pc = "refresh"
    BY <1>1, <1>4, BusyRequest DEF CheckRecord
  <2>2. requests'[t].run = requests[t].run /\ requests'[t].pc = "poll"
    BY <1>4, <2>1, MovedRequest DEF Moves, RequestSteps
  <2>3. UNCHANGED jobs BY <1>4 DEF CheckRecord
  <2> QED BY <1>4, <2>2, <2>3 DEF At
<1>5. CASE Poll(t)
  <2>1. requests[t] \in Request /\ requests[t].run \in Runs /\ At(t, "poll")
    BY <1>1, <1>5, BusyRequest DEF Poll
  <2>2. /\ requests'[t].pc = "apply" /\ requests'[t].run = requests[t].run
        /\ requests'[t].seen = CloudStatus(requests[t].run)
    BY <1>1, <1>5, <2>1 DEF Poll, Request
  <2>3. cloud[requests[t].run].life # "NONE" BY <1>2, <2>1 DEF IInv, StagingInv
  <2>4. UNCHANGED cloud BY <1>5 DEF Poll
  <2> QED BY <2>2, <2>3, <2>4 DEF At, CloudStatus
<1>6. CASE ~Polling(t)' BY <1>6 DEF Polling
<1> QED BY <1>1, <1>3, <1>4, <1>5, <1>6, PollingMoves
--------------------------------------------------------------------------------
Cause(r) ==
  /\ jobs[r].status = "COMPLETED" => CloudStatus(r) = "COMPLETED"
  /\ jobs[r].status = "FAILED" =>
       CloudStatus(r) = "FAILED" \/ (stager[r] = "done" /\ ~jobs[r].databricks_run_id)
  /\ jobs[r].status = "CANCELLED" =>
       CloudStatus(r) = "CANCELLED" \/ jobs[r].cancelled_by

\* A record nobody rewrote keeps its cause: what Databricks said of a finished
\* run does not change, and a stager that is done stays done.
LEMMA CauseKept ==
  ASSUME IInv, [Next]_vars, NEW r \in Runs, ~Restart,
         jobs'[r].status = jobs[r].status,
         jobs'[r].cancelled_by = jobs[r].cancelled_by,
         jobs'[r].databricks_run_id => jobs[r].databricks_run_id \/ stager[r] = "record"
  PROVE  Cause(r)'
<1>1. Cause(r) BY DEF IInv, TerminalStatusHasCause, Cause
<1>2. CloudStatus(r) \in Terminal => CloudStatus(r)' = CloudStatus(r)
  BY CloudGrowsStep DEF CloudGrows, CloudStatus
<1>3. stager[r] = "done" => stager'[r] = "done"
  <2>1. stager \in [Runs -> StagerSteps] BY DEF IInv, TypeOK
  <2>2. ASSUME NEW x \in Runs, Submit(x) \/ Stage(x), stager[r] = "done"
        PROVE  stager'[r] = "done"
    BY <2>1, <2>2 DEF Submit, Stage, UploadDataset, UploadConfig, StagingFails, RunNow,
         RunNowReplyLost, RecordRunId, WriteRegistry, StagerGoes
  <2> QED BY <2>2, StagerFrame
<1> QED BY <1>1, <1>2, <1>3 DEF Cause, Terminal

LEMMA CauseStep == IInv /\ [Next]_vars => TerminalStatusHasCause'
<1> SUFFICES ASSUME IInv, [Next]_vars, NEW r \in Runs PROVE Cause(r)'
  BY DEF TerminalStatusHasCause, Cause
<1>1. /\ stager \in [Runs -> StagerSteps] /\ jobs \in [Runs -> Record]
      /\ cloud \in [Runs -> CloudRun] /\ TypeOK
  BY DEF IInv, TypeOK
<1>2. CASE Restart BY <1>2 DEF Restart, Cause, NoRecord
<1>3. ASSUME ~Restart, jobs'[r] = jobs[r] PROVE Cause(r)'
  BY <1>3, CauseKept
<1>4. ASSUME NEW x \in Runs, Submit(x), ~Restart PROVE Cause(r)'
  <2>1. CASE x = r
    <3>1. jobs'[r].status = "PENDING" BY <1>1, <1>4, <2>1 DEF Submit, NoRecord
    <3> QED BY <3>1 DEF Cause
  <2>2. CASE x # r
    <3>1. jobs'[r] = jobs[r] BY <1>1, <1>4, <2>2 DEF Submit
    <3> QED BY <1>3, <1>4, <3>1
  <2> QED BY <2>1, <2>2
<1>5. ASSUME NEW x \in Runs, StagingFails(x) \/ RunNowReplyLost(x), ~Restart
      PROVE  Cause(r)'
  <2>1. CASE x = r
    <3>1. ~jobs[r].databricks_run_id
      BY <1>5, <2>1 DEF IInv, StagingInv, StagingFails, RunNowReplyLost, StagerGoes
    <3>2. stager'[r] = "done" /\ jobs'[r].status = "FAILED"
          /\ jobs'[r].databricks_run_id = jobs[r].databricks_run_id
      BY <1>1, <1>5, <2>1 DEF StagingFails, RunNowReplyLost, StagerGoes, SetStatus, Record
    <3> QED BY <3>1, <3>2 DEF Cause
  <2>2. CASE x # r
    <3>1. jobs'[r] = jobs[r]
      BY <1>1, <1>5, <2>2 DEF StagingFails, RunNowReplyLost, SetStatus
    <3> QED BY <1>3, <1>5, <3>1
  <2> QED BY <2>1, <2>2
<1>6. ASSUME NEW x \in Runs, RecordRunId(x), ~Restart PROVE Cause(r)'
  <2>1. /\ jobs'[r].status = jobs[r].status
        /\ jobs'[r].cancelled_by = jobs[r].cancelled_by
        /\ jobs'[r].databricks_run_id => jobs[r].databricks_run_id \/ stager[r] = "record"
    BY <1>1, <1>6 DEF RecordRunId, StagerGoes, Record
  <2> QED BY <1>6, <2>1, CauseKept
<1>7. ASSUME NEW t \in Threads, FetchSummary(t), ~Restart PROVE Cause(r)'
  <2>1. /\ jobs'[r].status = jobs[r].status
        /\ jobs'[r].cancelled_by = jobs[r].cancelled_by
        /\ jobs'[r].databricks_run_id = jobs[r].databricks_run_id
    BY <1>1, <1>7, BusyRequest, SummaryOnly DEF FetchSummary
  <2> QED BY <1>7, <2>1, CauseKept
<1>8. ASSUME NEW t \in Threads, MarkRecord(t), ~Restart PROVE Cause(r)'
  <2>1. requests[t].run \in Runs BY <1>1, <1>8, BusyRequest DEF MarkRecord
  <2>2. CASE requests[t].run = r
    <3>1. jobs'[r].status = "CANCELLED" /\ jobs'[r].cancelled_by
      BY <1>1, <1>8, <2>2 DEF MarkRecord, Record
    <3> QED BY <3>1 DEF Cause
  <2>3. CASE requests[t].run # r
    <3>1. jobs'[r] = jobs[r] BY <1>1, <1>8, <2>1, <2>3 DEF MarkRecord
    <3> QED BY <1>3, <1>8, <3>1
  <2> QED BY <2>2, <2>3
<1>9. ASSUME NEW t \in Threads, Apply(t), ~Restart PROVE Cause(r)'
  <2>1. requests[t].run \in Runs /\ At(t, "apply")
    BY <1>1, <1>9, BusyRequest DEF Apply
  <2>2. CASE requests[t].run = r
    <3>1. jobs'[r].status = requests[t].seen /\ UNCHANGED cloud
      BY <1>1, <1>9, <2>2 DEF Apply, SetStatus, Record
    <3>2. requests[t].seen \in Terminal => CloudStatus(r) = requests[t].seen
      BY <2>1, <2>2 DEF IInv, PollInv
    <3>3. CloudStatus(r)' = CloudStatus(r) BY <3>1 DEF CloudStatus
    <3> QED BY <3>1, <3>2, <3>3 DEF Cause, Terminal
  <2>3. CASE requests[t].run # r
    <3>1. jobs'[r] = jobs[r] BY <1>1, <1>9, <2>1, <2>3 DEF Apply, SetStatus
    <3> QED BY <1>3, <1>9, <3>1
  <2> QED BY <2>2, <2>3
<1> QED BY <1>2, <1>3, <1>4, <1>5, <1>6, <1>7, <1>8, <1>9, JobsFrame
--------------------------------------------------------------------------------
\* Files appear on the volume through the breadcrumb's writer and the engine;
\* only the former adds a breadcrumb.
LEMMA BreadcrumbStep == IInv /\ [Next]_vars => BreadcrumbHasRun'
<1> SUFFICES ASSUME IInv, [Next]_vars, NEW r \in Runs, "registry" \in volume'[r]
             PROVE  cloud'[r].life # "NONE"
  BY DEF BreadcrumbHasRun
<1>1. volume \in [Runs -> SUBSET Files] /\ TypeOK BY DEF IInv, TypeOK
<1>2. "registry" \in volume[r] \/ WriteRegistry(r)
  <2>1. ASSUME NEW x \in Runs, Submit(x) \/ Stage(x) \/ CloudSteps(x) \/ RowSteps(x)
        PROVE  "registry" \in volume[r] \/ WriteRegistry(r)
    <3>1. CASE UNCHANGED volume BY <3>1
    <3>2. CASE WriteRegistry(x) BY <1>1, <3>2 DEF WriteRegistry
    <3>3. CASE EngineSucceeds(x)
      BY <1>1, <3>3 DEF EngineSucceeds
    <3> QED
      BY <2>1, <3>1, <3>2, <3>3 DEF Submit, Stage, CloudSteps, UploadDataset,
           UploadConfig, StagingFails, RunNow,
           RunNowReplyLost, RecordRunId, CloudAdvances, CloudGivesUp, CloudCancels,
           RowSteps, EngineOpensRow, WorkerTouchesRow, EngineFails
  <2>2. ASSUME NEW t \in Threads,
               Serve(t) \/ \E op \in Operations, x \in Runs : Begin(t, op, x)
        PROVE  "registry" \in volume[r]
    <3>1. CASE UNCHANGED volume BY <3>1
    <3>2. CASE CleanupStorage(t)
      <4>1. requests[t].run \in Runs BY <1>1, <3>2, BusyRequest DEF CleanupStorage
      <4> QED BY <1>1, <3>2, <4>1 DEF CleanupStorage
    <3> QED
      BY <2>2, <3>1, <3>2 DEF Serve, Begin, Refresh, GetResult, Cancel, CheckRecord, Poll,
           PollFails, Apply, FetchSummary, MarkRecord, CheckReady,
           DecideCancel, SignalCancel, MarkHistory
  <2>3. CASE Restart \/ UNCHANGED vars BY <2>3 DEF Restart, vars
  <2> QED BY <2>1, <2>2, <2>3 DEF Next
<1>3. cloud[r].life # "NONE"
  BY <1>2 DEF IInv, BreadcrumbHasRun, StagingInv, WriteRegistry, StagerGoes
<1> QED BY <1>3, CloudGrowsStep DEF CloudGrows
--------------------------------------------------------------------------------
LEMMA InitInductive == Init => IInv
<1> SUFFICES ASSUME Init PROVE IInv
  OBVIOUS
<1>1. TypeOK
  BY DEF Init, TypeOK, Record, NoRecord, StagerSteps, CloudRun, NoCloudRun, Results,
     MLflowStatuses
<1>2. StagingInv BY DEF Init, StagingInv, NoRecord, NoCloudRun
<1>3. PollInv BY DEF Init, PollInv, At
<1>4. TerminalStatusHasCause BY DEF Init, TerminalStatusHasCause, NoRecord
<1>5. BreadcrumbHasRun BY DEF Init, BreadcrumbHasRun
<1> QED BY <1>1, <1>2, <1>3, <1>4, <1>5 DEF IInv

LEMMA Inductive == Spec => []IInv
<1>1. IInv /\ [Next]_vars => IInv'
  <2> SUFFICES ASSUME IInv, [Next]_vars PROVE IInv'
    OBVIOUS
  <2>1. TypeOK' BY TypingStep DEF IInv
  <2>2. StagingInv' BY StagingStep
  <2>3. PollInv' BY PollStep
  <2>4. TerminalStatusHasCause' BY CauseStep
  <2>5. BreadcrumbHasRun' BY BreadcrumbStep
  <2> QED BY <2>1, <2>2, <2>3, <2>4, <2>5 DEF IInv
<1> QED BY <1>1, InitInductive, PTL DEF Spec

\* Whatever the number of runs, API threads and faults, no interleaving of
\* staging, polls, cancels and restarts gives a record a terminal status
\* nothing caused.
THEOREM TerminalStatusIsCaused == Spec => []TerminalStatusHasCause
<1>1. IInv => TerminalStatusHasCause BY DEF IInv
<1> QED BY <1>1, Inductive, PTL

\* A breadcrumb is only ever written for a run Databricks accepted.
THEOREM BreadcrumbLeadsToRun == Spec => []BreadcrumbHasRun
<1>1. IInv => BreadcrumbHasRun BY DEF IInv
<1> QED BY <1>1, Inductive, PTL
--------------------------------------------------------------------------------
(* What becomes of a record's status, and of the requests under way. *)

LEMMA FinishedMeans ==
  ASSUME NEW l \in {"TERMINATED", "SKIPPED", "INTERNAL_ERROR"}, NEW x
  PROVE  map_run_state(l, x) \in Terminal
  BY DEF map_run_state, result_status, life_cycle_status, Terminal

\* Databricks never takes a finished run up again.
LEMMA FinishedStays ==
  ASSUME IInv, [Next]_vars, NEW r \in Runs, Finished(r)
  PROVE  Finished(r)'
<1>1. CloudStatus(r) \in Terminal BY FinishedMeans DEF Finished, CloudStatus
<1>2. cloud'[r].life = cloud[r].life BY <1>1, CloudGrowsStep DEF CloudGrows
<1> QED BY <1>2 DEF Finished

\* A run's status is written by its submission and by its requests only.
LEMMA StatusMoves ==
  ASSUME IInv, [Next]_vars, ~Restart, NEW r \in Runs
  PROVE  \/ jobs'[r].status = jobs[r].status
         \/ Submit(r) /\ jobs'[r].status = "PENDING"
         \/ (StagingFails(r) \/ RunNowReplyLost(r)) /\ jobs'[r].status = "FAILED"
         \/ \E x \in Threads : /\ Apply(x) /\ requests[x].run = r
                               /\ jobs'[r].status = requests[x].seen
         \/ \E x \in Threads : /\ MarkRecord(x) /\ requests[x].run = r
                               /\ jobs'[r].status = "CANCELLED"
<1>1. jobs \in [Runs -> Record] /\ TypeOK BY DEF IInv, TypeOK
<1>2. ASSUME NEW x \in Runs, Submit(x)
      PROVE  jobs'[r].status = jobs[r].status \/ (x = r /\ jobs'[r].status = "PENDING")
  BY <1>1, <1>2 DEF Submit, NoRecord
<1>3. ASSUME NEW x \in Runs, StagingFails(x) \/ RunNowReplyLost(x)
      PROVE  jobs'[r].status = jobs[r].status \/ (x = r /\ jobs'[r].status = "FAILED")
  BY <1>1, <1>3 DEF StagingFails, RunNowReplyLost, SetStatus, Record
<1>4. ASSUME NEW x \in Runs, RecordRunId(x) PROVE jobs'[r].status = jobs[r].status
  BY <1>1, <1>4 DEF RecordRunId, Record
<1>5. ASSUME NEW x \in Threads, Apply(x)
      PROVE  \/ jobs'[r].status = jobs[r].status
             \/ requests[x].run = r /\ jobs'[r].status = requests[x].seen
  BY <1>1, <1>5 DEF Apply, SetStatus, Record
<1>6. ASSUME NEW x \in Threads, MarkRecord(x)
      PROVE  \/ jobs'[r].status = jobs[r].status
             \/ requests[x].run = r /\ jobs'[r].status = "CANCELLED"
  BY <1>1, <1>6 DEF MarkRecord, Record
<1>7. ASSUME NEW x \in Threads, FetchSummary(x) PROVE jobs'[r].status = jobs[r].status
  BY <1>1, <1>7, BusyRequest, SummaryOnly DEF FetchSummary
<1> QED BY <1>2, <1>3, <1>4, <1>5, <1>6, <1>7, JobsFrame

\* A record stays until the process dies.
LEMMA RecordStays ==
  ASSUME RunnerInv, [Next]_vars, ~Restart, NEW r \in Runs, jobs[r].status # "ABSENT"
  PROVE  jobs'[r].status # "ABSENT"
<1>1. ASSUME NEW x \in Threads, Apply(x) PROVE requests[x].seen # "ABSENT"
  BY <1>1, BusyRequest DEF RunnerInv, IInv, Apply, JobStatus
<1> QED BY <1>1, StatusMoves DEF RunnerInv

LEMMA SubmissionStep == RunnerInv /\ [Next]_vars => SubmissionInv'
<1> SUFFICES ASSUME RunnerInv, [Next]_vars, NEW r \in Runs
             PROVE  /\ stager'[r] = "none" => jobs'[r].status = "ABSENT"
                    /\ stager'[r] \in {"dataset", "config", "trigger", "record", "registry"} =>
                         jobs'[r].status # "ABSENT"
  BY DEF SubmissionInv
<1>1. stager \in [Runs -> StagerSteps] /\ TypeOK BY DEF RunnerInv, IInv, TypeOK
<1>2. CASE Restart BY <1>2 DEF Restart, NoRecord
<1>3. CASE ~Restart
  <2>1. ASSUME NEW x \in Runs, Submit(x) \/ Stage(x) PROVE
          /\ stager'[r] = "none" => stager[r] = "none"
          /\ stager'[r] \in {"dataset", "config", "trigger", "record", "registry"} =>
               \/ stager[r] \in {"dataset", "config", "trigger", "record", "registry"}
               \/ Submit(r)
    BY <1>1, <2>1 DEF Submit, Stage, UploadDataset, UploadConfig, StagingFails, RunNow,
       RunNowReplyLost, RecordRunId, WriteRegistry, StagerGoes
  <2>2. /\ stager'[r] = "none" => stager[r] = "none"
        /\ stager'[r] \in {"dataset", "config", "trigger", "record", "registry"} =>
             \/ stager[r] \in {"dataset", "config", "trigger", "record", "registry"}
             \/ Submit(r)
    BY <1>3, <2>1, StagerFrame
  <2>3. ASSUME stager'[r] = "none" PROVE jobs'[r].status = "ABSENT"
    <3>1. stager[r] = "none" /\ jobs[r].status = "ABSENT"
      BY <2>2, <2>3 DEF RunnerInv, SubmissionInv
    <3>2. ~Submit(r) /\ ~StagingFails(r) /\ ~RunNowReplyLost(r)
      BY <1>1, <2>3, <3>1 DEF Submit, StagingFails, RunNowReplyLost, StagerGoes
    <3>3. ASSUME NEW x \in Threads, Apply(x) \/ MarkRecord(x) PROVE requests[x].run # r
      BY <3>1, <3>3 DEF RunnerInv, RequestInv, Apply, MarkRecord, At
    <3> QED BY <1>3, <3>1, <3>2, <3>3, StatusMoves DEF RunnerInv
  <2>4. Submit(r) => jobs'[r].status # "ABSENT"
    BY DEF Submit, NoRecord, RunnerInv, IInv, TypeOK
  <2>5. ASSUME stager[r] \in {"dataset", "config", "trigger", "record", "registry"}
        PROVE  jobs'[r].status # "ABSENT"
    BY <1>3, <2>5, RecordStays DEF RunnerInv, SubmissionInv
  <2> QED BY <2>2, <2>3, <2>4, <2>5
<1> QED BY <1>2, <1>3

\* A request keeps what it relies on while the others move: whoever undoes the
\* terminal status it was to find also makes it forget that it knows the end.
LEMMA RequestWaits ==
  ASSUME RunnerInv, [Next]_vars, ~Restart, NEW t \in Threads, Waits(t)
  PROVE  RequestInv(t)'
<1>1. TypeOK /\ IInv /\ RequestInv(t) BY DEF RunnerInv, IInv
<1>2. CASE requests[t] = Idle BY <1>2 DEF Waits, RequestInv
<1>3. CASE requests[t] # Idle
  <2> DEFINE r == requests[t].run
  <2>1. /\ requests[t] \in Request /\ r \in Runs /\ requests'[t].run = r
        /\ requests'[t].pc = requests[t].pc /\ requests'[t].seen = requests[t].seen
        /\ requests'[t].knows_end => requests[t].knows_end
    BY <1>1, <1>3, RequestShape DEF TypeOK, Waits
  <2>2. jobs[r].status # "ABSENT" BY <1>1, <1>3 DEF RequestInv
  <2>3. jobs'[r].status # "ABSENT" BY <2>1, <2>2, RecordStays
  <2>4. ASSUME requests'[t].knows_end
        PROVE  /\ jobs'[r].databricks_run_id
               /\ cloud'[r].life \in {"TERMINATED", "SKIPPED", "INTERNAL_ERROR"}
    <3>1. jobs[r].databricks_run_id /\ Finished(r)
      BY <1>1, <1>3, <2>1, <2>4 DEF RequestInv
    <3>2. jobs'[r].databricks_run_id BY <1>1, <2>1, <3>1, IdStays
    <3>3. ASSUME NEW x \in Runs, Finished(x)
          PROVE  cloud'[x].life \in {"TERMINATED", "SKIPPED", "INTERNAL_ERROR"}
      BY <1>1, <3>3, FinishedStays DEF Finished
    <3> QED BY <2>1, <3>1, <3>2, <3>3
  <2>5. ASSUME requests'[t].knows_end, requests[t].pc = "decide"
        PROVE  jobs'[r].status \in Terminal
    <3>1. jobs[r].status \in Terminal
      BY <1>1, <1>3, <2>1, <2>5 DEF RequestInv
    <3>2. ~Submit(r)
      BY <2>1, <2>2 DEF RunnerInv, SubmissionInv, Submit, StagerGoes
    <3>3. ASSUME NEW x \in Threads, Apply(x), requests[x].run = r
          PROVE  requests[x].seen \in Terminal
      <4>1. x # t /\ requests[x].seen \in JobStatus
        BY <1>1, <2>5, <3>3, BusyRequest DEF Apply, At
      <4>2. ~StaleAnswer(x)
        BY <1>1, <1>3, <2>5, <3>3, <4>1, OthersWait DEF Serve, Refresh
      <4> QED BY <3>1, <3>3, <4>1, <4>2 DEF StaleAnswer, JobStatus, Active, Terminal
    <3> QED BY <1>1, <2>1, <3>1, <3>2, <3>3, StatusMoves DEF Terminal
  <2>6. requests'[t].knows_end =>
          /\ requests'[t].pc = "apply" => requests'[t].seen \in Terminal
          /\ requests'[t].pc \notin {"signal", "mark", "cleanup", "mlflow"}
    BY <1>1, <1>3, <2>1 DEF RequestInv
  <2> QED BY <2>1, <2>3, <2>4, <2>5, <2>6 DEF RequestInv, Finished
<1> QED BY <1>2, <1>3
--------------------------------------------------------------------------------
(* The request's own steps. *)

LEMMA ArrivalStep ==
  ASSUME IInv, NEW t \in Threads, NEW op \in Operations, NEW r \in Runs, Begin(t, op, r)
  PROVE  RequestInv(t)'
<1>1. requests'[t] = [op |-> op, run |-> r, pc |-> "refresh", seen |-> "nothing",
        knows_end |-> op = "cancel" /\ jobs[r].databricks_run_id /\ Finished(r)]
  BY DEF Begin, IInv, TypeOK
<1>2. UNCHANGED <<jobs, cloud>> /\ jobs[r].status # "ABSENT" BY DEF Begin
<1>3. /\ requests'[t].run = r /\ requests'[t].pc = "refresh"
      /\ requests'[t].knows_end => jobs[r].databricks_run_id /\ Finished(r)
  <2> DEFINE end == op = "cancel" /\ jobs[r].databricks_run_id /\ Finished(r)
  <2>1. /\ requests'[t].run = r /\ requests'[t].pc = "refresh"
        /\ requests'[t].knows_end = end
    BY <1>1
  <2> QED BY <2>1
<1> QED BY <1>2, <1>3 DEF RequestInv, Finished

LEMMA RefreshEnds ==
  ASSUME NEW t \in Threads, NEW q \in Request, requests'[t] = AfterRefresh(q),
         jobs'[q.run].status # "ABSENT",
         q.knows_end =>
           /\ jobs'[q.run].databricks_run_id
           /\ cloud'[q.run].life \in {"TERMINATED", "SKIPPED", "INTERNAL_ERROR"}
           /\ jobs'[q.run].status \in Terminal
  PROVE  RequestInv(t)'
<1>1. \/ requests'[t] = Idle
      \/ /\ requests'[t].pc \in {"ready", "decide"}
         /\ requests'[t].run = q.run /\ requests'[t].knows_end = q.knows_end
  BY AfterRefreshIs
<1> QED BY <1>1 DEF RequestInv, Finished

LEMMA RefreshStep ==
  ASSUME RunnerInv, NEW t \in Threads, Refresh(t)
  PROVE  RequestInv(t)'
<1>1. /\ TypeOK /\ IInv /\ RequestInv(t) /\ jobs \in [Runs -> Record]
      /\ requests \in [Threads -> Request \cup {Idle}]
  BY DEF RunnerInv, IInv, TypeOK
<1>2. requests[t] # Idle /\ requests[t] \in Request /\ requests[t].run \in Runs
  BY <1>1, BusyRequest, RequestShape DEF Refresh, CheckRecord, Poll, PollFails, Apply
<1> DEFINE r == requests[t].run
<1>3. /\ jobs[r].status # "ABSENT"
      /\ requests[t].knows_end => jobs[r].databricks_run_id /\ Finished(r)
  BY <1>1, <1>2 DEF RequestInv
<1>4. jobs[r].status \in Active \cup Terminal
  BY <1>1, <1>2, <1>3 DEF Record, JobStatus, Active, Terminal
<1>5. CASE CheckRecord(t)
  <2>1. UNCHANGED <<jobs, cloud>> /\ requests[t].pc = "refresh" BY <1>5 DEF CheckRecord, At
  <2>2. CASE jobs[r].databricks_run_id /\ jobs[r].status \in Active
    <3>1. Moves(t, "poll") BY <1>1, <1>5, <2>2, RefreshedIs
    <3>2. /\ requests'[t].pc = "poll" /\ requests'[t].run = r
          /\ requests'[t].knows_end = requests[t].knows_end
      BY <1>2, <2>1, <3>1, MovedRequest DEF Moves, RequestSteps
    <3> QED BY <1>3, <2>1, <2>2, <3>2 DEF RequestInv, Finished
  <2>3. CASE ~(jobs[r].databricks_run_id /\ jobs[r].status \in Active)
    <3>1. requests'[t] = AfterRefresh(requests[t]) BY <1>1, <1>5, <2>3, RefreshedIs
    <3>2. requests[t].knows_end =>
            /\ jobs'[r].databricks_run_id
            /\ cloud'[r].life \in {"TERMINATED", "SKIPPED", "INTERNAL_ERROR"}
            /\ jobs'[r].status \in Terminal
      BY <1>3, <1>4, <2>1, <2>3 DEF Finished
    <3> QED BY <1>2, <1>3, <2>1, <3>1, <3>2, RefreshEnds
  <2> QED BY <2>2, <2>3
<1>6. CASE Poll(t)
  <2>1. UNCHANGED <<jobs, cloud>> BY <1>6 DEF Poll
  <2>2. /\ requests'[t].pc = "apply" /\ requests'[t].run = r
        /\ requests'[t].knows_end = requests[t].knows_end
        /\ requests'[t].seen = CloudStatus(r)
    BY <1>1, <1>2, <1>6 DEF Poll, Request
  <2>3. Finished(r) => CloudStatus(r) \in Terminal
    BY FinishedMeans DEF Finished, CloudStatus
  <2> QED BY <1>3, <2>1, <2>2, <2>3 DEF RequestInv, Finished
<1>7. CASE PollFails(t)
  <2> DEFINE q == [requests[t] EXCEPT !.knows_end = FALSE]
  <2>1. q \in Request /\ q.run = r /\ q.knows_end = FALSE BY <1>2, ForgetfulRequest
  <2>2. requests'[t] = AfterRefresh(q) BY <1>1, <1>7, RefreshedIs
  <2>3. UNCHANGED jobs BY <1>7 DEF PollFails
  <2> HIDE DEF q
  <2> QED BY <1>3, <2>1, <2>2, <2>3, RefreshEnds
<1>8. CASE Apply(t)
  <2>1. /\ requests[t].pc = "apply" /\ UNCHANGED cloud
        /\ requests'[t] = AfterRefresh(requests[t])
    BY <1>1, <1>8, RefreshedIs DEF Apply, At
  <2>2. requests[t].seen \in JobStatus BY <1>2, <2>1, RequestShape
  <2>3. /\ jobs'[r].status = requests[t].seen
        /\ jobs'[r].databricks_run_id = jobs[r].databricks_run_id
    BY <1>1, <1>2, <1>8 DEF Apply, SetStatus, Record
  <2>4. requests[t].knows_end => requests[t].seen \in Terminal
    BY <1>1, <1>2, <2>1 DEF RequestInv
  <2>5. jobs'[r].status # "ABSENT" BY <2>2, <2>3 DEF JobStatus
  <2>6. requests[t].knows_end =>
          /\ jobs'[r].databricks_run_id
          /\ cloud'[r].life \in {"TERMINATED", "SKIPPED", "INTERNAL_ERROR"}
          /\ jobs'[r].status \in Terminal
    BY <1>3, <2>1, <2>3, <2>4 DEF Finished
  <2> QED BY <1>2, <2>1, <2>5, <2>6, RefreshEnds
<1> QED BY <1>5, <1>6, <1>7, <1>8 DEF Refresh

LEMMA AnswerStep ==
  ASSUME RunnerInv, NEW t \in Threads, GetResult(t) \/ Cancel(t)
  PROVE  RequestInv(t)'
<1>1. /\ TypeOK /\ RequestInv(t) /\ jobs \in [Runs -> Record] /\ cloud \in [Runs -> CloudRun]
      /\ requests \in [Threads -> Request \cup {Idle}]
  BY DEF RunnerInv, IInv, TypeOK
<1>2. /\ requests[t] # Idle /\ requests[t] \in Request /\ requests[t].run \in Runs
      /\ requests[t].pc # "apply"
  BY <1>1, BusyRequest, RequestShape DEF GetResult, Cancel, CheckReady, FetchSummary,
     DecideCancel, SignalCancel, MarkRecord, CleanupStorage, MarkHistory
<1> DEFINE r == requests[t].run
<1>3. jobs[r].status # "ABSENT" BY <1>1, <1>2 DEF RequestInv
<1>4. ASSUME NEW p \in RequestSteps \ {"apply"}, Goto(t, p)
      PROVE  /\ requests'[t].pc = p /\ requests'[t].run = r
             /\ requests'[t].knows_end = requests[t].knows_end
  <2>1. requests'[t] = [requests[t] EXCEPT !.pc = p] BY <1>1, <1>4, GotoMoves DEF Moves
  <2> QED BY <1>2, <2>1, MovedRequest
<1>5. CASE Return(t) BY <1>1, <1>5, ReturnUpdate DEF RequestInv
<1>6. CASE CheckReady(t)
  <2>1. UNCHANGED <<jobs, cloud>> BY <1>6 DEF CheckReady
  <2>2. Return(t) \/ Goto(t, "fetch") BY <1>6 DEF CheckReady
  <2> QED BY <1>1, <1>2, <1>4, <1>5, <2>1, <2>2 DEF RequestInv, Finished, RequestSteps
<1>7. CASE DecideCancel(t)
  <2>1. UNCHANGED <<jobs, cloud>> /\ requests[t].pc = "decide" BY <1>7 DEF DecideCancel, At
  <2>2. Return(t) \/ (jobs[r].status \in Active /\ Goto(t, "signal"))
    BY <1>7 DEF DecideCancel
  <2> QED
    BY <1>1, <1>2, <1>4, <1>5, <2>1, <2>2
    DEF RequestInv, Finished, RequestSteps, Active, Terminal
<1>8. CASE SignalCancel(t)
  <2>1. UNCHANGED jobs /\ requests[t].pc = "signal" /\ Goto(t, "mark")
    BY <1>8 DEF SignalCancel, At
  <2> QED BY <1>1, <1>2, <1>4, <2>1 DEF RequestInv, RequestSteps
<1>9. CASE MarkRecord(t)
  <2>1. requests[t].pc = "mark" /\ Goto(t, "cleanup") BY <1>9 DEF MarkRecord, At
  <2>2. jobs'[r].status = "CANCELLED" BY <1>1, <1>2, <1>9 DEF MarkRecord, Record
  <2> QED BY <1>1, <1>2, <1>4, <2>1, <2>2 DEF RequestInv, RequestSteps
<1>10. CASE CleanupStorage(t)
  <2>1. UNCHANGED jobs /\ requests[t].pc = "cleanup" /\ Goto(t, "mlflow")
    BY <1>10 DEF CleanupStorage, At
  <2> QED BY <1>1, <1>2, <1>4, <2>1 DEF RequestInv, RequestSteps
<1> QED
  BY <1>5, <1>6, <1>7, <1>8, <1>9, <1>10 DEF GetResult, Cancel, FetchSummary, MarkHistory

LEMMA RequestStep ==
  ASSUME RunnerInv, [Next]_vars, NEW t \in Threads
  PROVE  RequestInv(t)'
<1>1. TypeOK /\ IInv BY DEF RunnerInv, IInv
<1>2. CASE Restart
  <2>1. requests'[t] = Idle BY <1>2 DEF Restart
  <2> QED BY <2>1 DEF RequestInv
<1>3. CASE ~Restart /\ Waits(t) BY <1>3, RequestWaits
<1>4. CASE Serve(t) BY <1>4, RefreshStep, AnswerStep DEF Serve
<1>5. ASSUME NEW op \in Operations, NEW r \in Runs, Begin(t, op, r) PROVE RequestInv(t)'
  BY <1>1, <1>5, ArrivalStep
<1>6. \/ Restart \/ Waits(t) \/ Serve(t) \/ \E op \in Operations, r \in Runs : Begin(t, op, r)
  BY <1>1, RequestsFrame, OthersWait, StillWaits
<1> QED BY <1>2, <1>3, <1>4, <1>5, <1>6

LEMMA RunnerInductive == Spec => []RunnerInv
<1>1. Init => RunnerInv
  BY InitInductive DEF Init, RunnerInv, SubmissionInv, RequestInv, NoRecord
<1>2. RunnerInv /\ IInv' /\ [Next]_vars => RunnerInv'
  BY SubmissionStep, RequestStep DEF RunnerInv
<1> QED BY <1>1, <1>2, Inductive, PTL DEF Spec

\* Whatever the faults, and however requests overlap: a cancel that arrives
\* after Databricks finished the run never reaches the cleanup, unless its own
\* poll failed or another request's stale answer undid a terminal status.
THEOREM FinishedRunIsKept == Spec => []FinishedRunIsNotCleaned
<1>1. RunnerInv => FinishedRunIsNotCleaned
  BY DEF RunnerInv, RequestInv, FinishedRunIsNotCleaned, At
<1> QED BY <1>1, RunnerInductive, PTL
--------------------------------------------------------------------------------
(* The runner implements RunLifecycle: what the mapped variables are before
   and after each step. *)

LEMMA JobNone == \A r \in Runs : cloud[r].life = "NONE" => LifecycleJob(r) = "none"
  BY DEF LifecycleJob, Finished

LEMMA JobGoes ==
  \A r \in Runs : Executing(r) => LifecycleJob(r) = "going"
  BY DEF LifecycleJob, Executing, Finished

LEMMA JobEnded ==
  \A r \in Runs : Finished(r) =>
    LifecycleJob(r) = CloudStatus(r) /\ LifecycleJob(r) \in Terminal
  BY FinishedMeans DEF LifecycleJob, Finished, CloudStatus

\* What a caller is doing, by the place its request has reached.
LEMMA CallerIs ==
  ASSUME NEW q, q # Idle
  PROVE  /\ q.pc = "poll" => LifecycleCaller(q) = [does |-> "asks", run |-> q.run]
         /\ q.pc = "apply" =>
              LifecycleCaller(q) = [does |-> "tells", run |-> q.run, status |-> q.seen]
         /\ q.pc \in {"signal", "mark"} =>
              LifecycleCaller(q) = [does |-> "cancels", run |-> q.run]
         /\ q.pc \in {"refresh", "ready", "fetch", "decide", "cleanup", "mlflow"} =>
              LifecycleCaller(q) = [does |-> "nothing"]
  BY DEF LifecycleCaller

LEMMA IdleIsQuiet == LifecycleCaller(Idle) = [does |-> "nothing"]
  BY DEF LifecycleCaller

\* A request that is over, or past its refresh, has nothing under way.
LEMMA RefreshedIsQuiet ==
  ASSUME NEW q \in Request
  PROVE  LifecycleCaller(AfterRefresh(q)) = [does |-> "nothing"]
<1>1. CASE AfterRefresh(q) = Idle BY <1>1, IdleIsQuiet
<1>2. CASE AfterRefresh(q) \in Request /\ AfterRefresh(q).pc \in {"ready", "decide"}
  BY <1>2, RequestShape, CallerIs
<1> QED BY <1>1, <1>2, AfterRefreshIs

LEMMA CallerWaits ==
  ASSUME NEW t, Waits(t)
  PROVE  LifecycleCaller(requests'[t]) = LifecycleCaller(requests[t])
  BY DEF Waits, LifecycleCaller

\* The mapped statuses, jobs and callers after a step that changes one of them.
LEMMA StatusOfOne ==
  ASSUME NEW x \in Runs, NEW s, jobs'[x].status = s,
         \A r \in Runs \ {x} : jobs'[r].status = jobs[r].status
  PROVE  [r \in Runs |-> jobs'[r].status]
           = [[r \in Runs |-> jobs[r].status] EXCEPT ![x] = s]
  OBVIOUS

LEMMA JobOfOne ==
  ASSUME NEW x \in Runs, NEW j, LifecycleJob(x)' = j,
         \A r \in Runs \ {x} : cloud'[r] = cloud[r]
  PROVE  [r \in Runs |-> LifecycleJob(r)']
           = [[r \in Runs |-> LifecycleJob(r)] EXCEPT ![x] = j]
<1>1. \A r \in Runs \ {x} : LifecycleJob(r)' = LifecycleJob(r)
  BY DEF LifecycleJob, Finished, CloudStatus
<1> QED BY <1>1

LEMMA JobsAlone ==
  ASSUME \A r \in Runs : cloud'[r].life = cloud[r].life /\ cloud'[r].result = cloud[r].result
  PROVE  UNCHANGED [r \in Runs |-> LifecycleJob(r)]
  BY DEF LifecycleJob, Finished, CloudStatus

LEMMA CallersAlone ==
  ASSUME UNCHANGED requests
  PROVE  UNCHANGED [t \in Threads |-> LifecycleCaller(requests[t])]
  OBVIOUS

LEMMA CallerOfOne ==
  ASSUME TypeOK, NEW t \in Threads,
         Serve(t) \/ \E op \in Operations, r \in Runs : Begin(t, op, r)
  PROVE  [x \in Threads |-> LifecycleCaller(requests'[x])]
           = [[x \in Threads |-> LifecycleCaller(requests[x])]
                EXCEPT ![t] = LifecycleCaller(requests'[t])]
<1>1. \A x \in Threads \ {t} : LifecycleCaller(requests'[x]) = LifecycleCaller(requests[x])
  BY OthersWait, CallerWaits
<1> QED BY <1>1

\* A step that leaves statuses, jobs and callers alone is a stutter.
LEMMA Stutters ==
  ASSUME \A r \in Runs : jobs'[r].status = jobs[r].status,
         \A r \in Runs : cloud'[r].life = cloud[r].life /\ cloud'[r].result = cloud[r].result,
         \A t \in Threads : LifecycleCaller(requests'[t]) = LifecycleCaller(requests[t])
  PROVE  UNCHANGED Lifecycle!vars
  BY JobsAlone DEF Lifecycle!vars
--------------------------------------------------------------------------------
(* The submission's steps and the Databricks run's. *)

\* submit(): a run that was never staged has neither record nor job.
LEMMA SubmitSimulates ==
  ASSUME RunnerInv, NEW x \in Runs, Submit(x)
  PROVE  Lifecycle!Submit(x)
<1>1. jobs \in [Runs -> Record] BY DEF RunnerInv, IInv, TypeOK
<1>2. jobs[x].status = "ABSENT" /\ cloud[x].life = "NONE"
  BY DEF RunnerInv, IInv, StagingInv, SubmissionInv, Submit, StagerGoes
<1>3. [r \in Runs |-> jobs'[r].status]
        = [[r \in Runs |-> jobs[r].status] EXCEPT ![x] = "PENDING"]
  BY <1>1, StatusOfOne DEF Submit, NoRecord
<1>4. UNCHANGED [r \in Runs |-> LifecycleJob(r)] BY JobsAlone DEF Submit
<1>5. UNCHANGED requests BY DEF Submit
<1> QED
  BY <1>2, <1>3, <1>4, <1>5, JobNone, CallersAlone
  DEF Lifecycle!Submit, Lifecycle!SetStatus

\* A submission that failed, or whose reply was lost: the record says FAILED
\* and nobody knows of a job.
LEMMA FailureSimulates ==
  ASSUME RunnerInv, NEW x \in Runs, StagingFails(x) \/ RunNowReplyLost(x)
  PROVE  Lifecycle!Reject(x)
<1>1. jobs \in [Runs -> Record] /\ cloud \in [Runs -> CloudRun] BY DEF RunnerInv, IInv, TypeOK
<1>2. stager[x] \in {"dataset", "config", "trigger"}
  BY DEF StagingFails, RunNowReplyLost, StagerGoes
<1>3. jobs[x].status # "ABSENT" /\ cloud[x].life = "NONE"
  BY <1>2 DEF RunnerInv, IInv, StagingInv, SubmissionInv
<1>4. [r \in Runs |-> jobs'[r].status]
        = [[r \in Runs |-> jobs[r].status] EXCEPT ![x] = "FAILED"]
  BY <1>1, StatusOfOne DEF StagingFails, RunNowReplyLost, SetStatus, Record
<1>5. UNCHANGED requests BY DEF StagingFails, RunNowReplyLost
<1>6. CASE StagingFails(x)
  <2>1. UNCHANGED [r \in Runs |-> LifecycleJob(r)] BY <1>6, JobsAlone DEF StagingFails
  <2> QED
    BY <1>3, <1>4, <1>5, <2>1, JobNone, CallersAlone DEF Lifecycle!Reject, Lifecycle!SetStatus
<1>7. CASE RunNowReplyLost(x)
  <2>1. cloud'[x].life = "QUEUED" /\ \A r \in Runs \ {x} : cloud'[r] = cloud[r]
    BY <1>1, <1>7 DEF RunNowReplyLost, CloudAccepts, CloudRun
  <2>2. LifecycleJob(x)' = "going" BY <2>1 DEF LifecycleJob, Finished
  <2>3. [r \in Runs |-> LifecycleJob(r)']
          = [[r \in Runs |-> LifecycleJob(r)] EXCEPT ![x] = "going"]
    BY <2>1, <2>2, JobOfOne
  <2> QED
    BY <1>3, <1>4, <1>5, <2>3, JobNone, CallersAlone DEF Lifecycle!Reject, Lifecycle!SetStatus
<1> QED BY <1>6, <1>7

\* A step of the Databricks run is the job's start, its end, or nothing new.
LEMMA CloudSimulates ==
  ASSUME RunnerInv, NEW x \in Runs,
         \/ RunNow(x) \/ CloudAdvances(x) \/ CloudGivesUp(x) \/ CloudCancels(x)
         \/ EngineSucceeds(x) \/ EngineFails(x)
  PROVE  Lifecycle!Start(x) \/ Lifecycle!End(x) \/ UNCHANGED Lifecycle!vars
<1>1. cloud \in [Runs -> CloudRun] BY DEF RunnerInv, IInv, TypeOK
<1>2. /\ UNCHANGED [r \in Runs |-> jobs[r].status]
      /\ UNCHANGED [t \in Threads |-> LifecycleCaller(requests[t])]
  BY DEF RunNow, CloudAdvances, CloudGivesUp, CloudCancels, EngineSucceeds, EngineFails
<1>3. CASE RunNow(x)
  <2>1. cloud[x].life = "NONE"
    BY <1>3 DEF RunnerInv, IInv, StagingInv, RunNow, StagerGoes
  <2>2. cloud'[x].life = "QUEUED" /\ \A r \in Runs \ {x} : cloud'[r] = cloud[r]
    BY <1>1, <1>3 DEF RunNow, CloudAccepts, CloudRun
  <2>3. LifecycleJob(x)' = "going" BY <2>2 DEF LifecycleJob, Finished
  <2>4. Lifecycle!Start(x)
    BY <1>2, <2>1, <2>2, <2>3, JobNone, JobOfOne DEF Lifecycle!Start
  <2> QED BY <2>4
<1>4. ASSUME NEW from, NEW l, NEW y, CloudGoes(x, from, l, y),
             from \subseteq {"QUEUED", "PENDING", "RUNNING", "TERMINATING"}
      PROVE  /\ LifecycleJob(x) = "going"
             /\ cloud'[x].life = l
             /\ \A r \in Runs \ {x} : cloud'[r] = cloud[r]
  BY <1>1, <1>4, JobGoes DEF CloudGoes, Executing, CloudRun
<1>5. ASSUME NEW from, NEW l \in {"TERMINATED", "SKIPPED", "INTERNAL_ERROR"}, NEW y,
             CloudGoes(x, from, l, y),
             from \subseteq {"QUEUED", "PENDING", "RUNNING", "TERMINATING"}
      PROVE  Lifecycle!End(x)
  <2>1. Finished(x)' BY <1>4, <1>5 DEF Finished
  <2>2. LifecycleJob(x)' \in Terminal
    BY <2>1, FinishedMeans DEF LifecycleJob, Finished, CloudStatus
  <2>3. [r \in Runs |-> LifecycleJob(r)']
          = [[r \in Runs |-> LifecycleJob(r)] EXCEPT ![x] = LifecycleJob(x)']
    BY <1>4, <1>5, JobOfOne
  <2> QED BY <1>2, <1>4, <1>5, <2>2, <2>3 DEF Lifecycle!End, Lifecycle!JobEnds,
             Lifecycle!Terminal, Terminal
<1>6. ASSUME NEW from, NEW l \in {"PENDING", "RUNNING", "TERMINATING"}, NEW y,
             CloudGoes(x, from, l, y),
             from \subseteq {"QUEUED", "PENDING", "RUNNING", "TERMINATING"}
      PROVE  UNCHANGED Lifecycle!vars
  <2>1. LifecycleJob(x)' = "going"
    BY <1>4, <1>6 DEF LifecycleJob, Finished
  <2>2. [r \in Runs |-> LifecycleJob(r)']
          = [[r \in Runs |-> LifecycleJob(r)] EXCEPT ![x] = "going"]
    BY <1>4, <1>6, <2>1, JobOfOne
  <2>3. UNCHANGED [r \in Runs |-> LifecycleJob(r)]
    BY <1>4, <1>6, <2>2
  <2> QED BY <1>2, <2>3 DEF Lifecycle!vars
<1>7. CASE CloudAdvances(x) BY <1>5, <1>6, <1>7 DEF CloudAdvances
<1>8. CASE CloudGivesUp(x) BY <1>5, <1>8 DEF CloudGivesUp
<1>9. CASE CloudCancels(x) BY <1>6, <1>9 DEF CloudCancels
<1>10. CASE EngineSucceeds(x) \/ EngineFails(x)
  BY <1>6, <1>10 DEF EngineSucceeds, EngineFails
<1> QED BY <1>3, <1>7, <1>8, <1>9, <1>10
--------------------------------------------------------------------------------
(* The requests' steps.  Every other caller waits (CallerOfOne). *)

\* A poll begins of an active record, or the request's refresh is over.
LEMMA CheckSimulates ==
  ASSUME RunnerInv, NEW t \in Threads, CheckRecord(t)
  PROVE  Lifecycle!Ask(t, requests[t].run) \/ UNCHANGED Lifecycle!vars
<1>1. TypeOK /\ requests[t] \in Request /\ requests[t] # Idle /\ requests[t].pc = "refresh"
  BY BusyRequest DEF RunnerInv, IInv, CheckRecord, At
<1>2. UNCHANGED <<jobs, cloud>> BY DEF CheckRecord
<1>3. LifecycleCaller(requests[t]) = [does |-> "nothing"] BY <1>1, CallerIs
<1>4. [x \in Threads |-> LifecycleCaller(requests'[x])]
        = [[x \in Threads |-> LifecycleCaller(requests[x])]
             EXCEPT ![t] = LifecycleCaller(requests'[t])]
  BY <1>1, CallerOfOne DEF Serve, Refresh
<1>5. CASE jobs[requests[t].run].status \in Active /\ Moves(t, "poll")
  <2>1. /\ requests'[t] # Idle /\ requests'[t].pc = "poll"
        /\ requests'[t].run = requests[t].run
    BY <1>1, <1>5, MovedRequest, RequestShape DEF Moves, RequestSteps
  <2>2. LifecycleCaller(requests'[t]) = [does |-> "asks", run |-> requests[t].run]
    BY <2>1, CallerIs
  <2> QED
    BY <1>1, <1>2, <1>3, <1>4, <1>5, <2>2, RequestShape, JobsAlone
    DEF Lifecycle!Ask, Lifecycle!Quiet, Lifecycle!Becomes, Lifecycle!Active, Active
<1>6. CASE requests'[t] = AfterRefresh(requests[t])
  <2>1. LifecycleCaller(requests'[t]) = [does |-> "nothing"] BY <1>1, <1>6, RefreshedIsQuiet
  <2>2. \A x \in Threads : LifecycleCaller(requests'[x]) = LifecycleCaller(requests[x])
    BY <1>3, <1>4, <2>1
  <2> QED BY <1>2, <2>2, Stutters
<1> QED BY <1>1, <1>5, <1>6, RefreshedIs

\* The poll's answer: what the job is going through, or how it ended.
LEMMA PollSimulates ==
  ASSUME RunnerInv, NEW t \in Threads, Poll(t)
  PROVE  Lifecycle!Hear(t, requests[t].run)
<1> DEFINE r == requests[t].run
           s == CloudStatus(r)
<1>1. /\ TypeOK /\ requests[t] \in Request /\ requests[t] # Idle /\ requests[t].pc = "poll"
      /\ r \in Runs
  BY BusyRequest DEF RunnerInv, IInv, Poll, At
<1>2. UNCHANGED <<jobs, cloud>> BY DEF Poll
<1>3. LifecycleCaller(requests[t]) = [does |-> "asks", run |-> r] BY <1>1, CallerIs
<1>4. [x \in Threads |-> LifecycleCaller(requests'[x])]
        = [[x \in Threads |-> LifecycleCaller(requests[x])]
             EXCEPT ![t] = LifecycleCaller(requests'[t])]
  BY <1>1, CallerOfOne DEF Serve, Refresh
<1>5. LifecycleCaller(requests'[t]) = [does |-> "tells", run |-> r, status |-> s]
  <2>1. requests'[t] = [requests[t] EXCEPT !.pc = "apply", !.seen = s]
    BY <1>1 DEF Poll, TypeOK
  <2>2. requests'[t].pc = "apply" /\ requests'[t].run = r /\ requests'[t].seen = s
    BY <1>1, <2>1 DEF Request
  <2>3. requests'[t] # Idle BY <1>1, <2>1 DEF Request, Idle
  <2> HIDE DEF r, s
  <2> QED BY <2>2, <2>3, CallerIs
<1>6. LifecycleJob(r) # "none"
  <2>1. cloud[r].life # "NONE"
    BY <1>1 DEF RunnerInv, IInv, PollInv, StagingInv, At
  <2>2. Finished(r) => LifecycleJob(r) # "none" BY <1>1, JobEnded DEF Terminal
  <2> QED BY <2>1, <2>2 DEF LifecycleJob
<1>7. s \in IF LifecycleJob(r) = "going" THEN Active ELSE {LifecycleJob(r)}
  <2>1. CASE Finished(r) BY <1>1, <2>1, JobEnded DEF Terminal
  <2>2. CASE ~Finished(r)
    <3>1. s \in JobStatus /\ s \notin Terminal
      BY <2>2, StatusType, TerminalMeans DEF CloudStatus, Finished
    <3>2. LifecycleJob(r) = "going" BY <1>6, <2>2 DEF LifecycleJob
    <3> QED BY <3>1, <3>2 DEF JobStatus, Active, Terminal
  <2> QED BY <2>1, <2>2
<1> HIDE DEF s
<1> QED
  BY <1>1, <1>2, <1>3, <1>4, <1>5, <1>6, <1>7, JobsAlone
  DEF Lifecycle!Hear, Lifecycle!Becomes, Lifecycle!Active, Active

LEMMA MissSimulates ==
  ASSUME RunnerInv, NEW t \in Threads, PollFails(t)
  PROVE  Lifecycle!Miss(t, requests[t].run)
<1>1. TypeOK /\ requests[t] \in Request /\ requests[t] # Idle /\ requests[t].pc = "poll"
  BY BusyRequest DEF RunnerInv, IInv, PollFails, At
<1>2. UNCHANGED <<jobs, cloud>> BY DEF PollFails
<1>3. LifecycleCaller(requests[t]) = [does |-> "asks", run |-> requests[t].run]
  BY <1>1, CallerIs
<1>4. [x \in Threads |-> LifecycleCaller(requests'[x])]
        = [[x \in Threads |-> LifecycleCaller(requests[x])]
             EXCEPT ![t] = LifecycleCaller(requests'[t])]
  BY <1>1, CallerOfOne DEF Serve, Refresh
<1>5. LifecycleCaller(requests'[t]) = [does |-> "nothing"]
  BY <1>1, RefreshedIs, ForgetfulRequest, RefreshedIsQuiet
<1> QED
  BY <1>1, <1>2, <1>3, <1>4, <1>5, JobsAlone
  DEF Lifecycle!Miss, Lifecycle!Becomes, Lifecycle!Quiet

\* The status a request was told is stored, whatever the record says by then.
LEMMA ApplySimulates ==
  ASSUME RunnerInv, NEW t \in Threads, Apply(t),
         NEW r \in Runs, requests[t].run = r, NEW s \in JobStatus, requests[t].seen = s
  PROVE  Lifecycle!Tell(t, r, s)
<1>1. /\ TypeOK /\ requests[t] \in Request /\ requests[t] # Idle /\ requests[t].pc = "apply"
      /\ r \in Runs /\ jobs \in [Runs -> Record]
  BY BusyRequest DEF RunnerInv, IInv, TypeOK, Apply, At
<1>2. LifecycleCaller(requests[t]) = [does |-> "tells", run |-> r, status |-> s]
  BY <1>1, CallerIs
<1>3. [x \in Threads |-> LifecycleCaller(requests'[x])]
        = [[x \in Threads |-> LifecycleCaller(requests[x])]
             EXCEPT ![t] = LifecycleCaller(requests'[t])]
  BY <1>1, CallerOfOne DEF Serve, Refresh
<1>4. LifecycleCaller(requests'[t]) = [does |-> "nothing"]
  BY <1>1, RefreshedIs, RefreshedIsQuiet
<1>5. [x \in Runs |-> jobs'[x].status] = [[x \in Runs |-> jobs[x].status] EXCEPT ![r] = s]
  <2>1. jobs'[r].status = s /\ \A x \in Runs \ {r} : jobs'[x].status = jobs[x].status
    BY <1>1 DEF Apply, SetStatus, Record
  <2> QED BY <1>1, <2>1, StatusOfOne
<1>6. UNCHANGED [x \in Runs |-> LifecycleJob(x)] BY JobsAlone DEF Apply
<1> QED
  BY <1>1, <1>2, <1>3, <1>4, <1>5, <1>6
  DEF Lifecycle!Tell, Lifecycle!Becomes, Lifecycle!SetStatus, Lifecycle!Quiet

\* cancel() goes on only from an active record; later it stamps it, whatever it
\* says by then.
LEMMA DecideSimulates ==
  ASSUME RunnerInv, NEW t \in Threads, DecideCancel(t)
  PROVE  Lifecycle!Decide(t, requests[t].run) \/ UNCHANGED Lifecycle!vars
<1>1. TypeOK /\ requests[t] \in Request /\ requests[t] # Idle /\ requests[t].pc = "decide"
  BY BusyRequest DEF RunnerInv, IInv, DecideCancel, At
<1>2. UNCHANGED <<jobs, cloud>> BY DEF DecideCancel
<1>3. LifecycleCaller(requests[t]) = [does |-> "nothing"] BY <1>1, CallerIs
<1>4. [x \in Threads |-> LifecycleCaller(requests'[x])]
        = [[x \in Threads |-> LifecycleCaller(requests[x])]
             EXCEPT ![t] = LifecycleCaller(requests'[t])]
  BY <1>1, CallerOfOne DEF Serve, Cancel
<1>5. CASE jobs[requests[t].run].status \in Active /\ Goto(t, "signal")
  <2>1. requests'[t] = [requests[t] EXCEPT !.pc = "signal"] BY <1>1, <1>5, GotoMoves DEF Moves
  <2>2. /\ requests'[t] # Idle /\ requests'[t].pc = "signal"
        /\ requests'[t].run = requests[t].run
    BY <1>1, <2>1, MovedRequest, RequestShape DEF RequestSteps
  <2>3. LifecycleCaller(requests'[t]) = [does |-> "cancels", run |-> requests[t].run]
    BY <2>2, CallerIs
  <2> QED
    BY <1>1, <1>2, <1>3, <1>4, <1>5, <2>3, RequestShape, JobsAlone
    DEF Lifecycle!Decide, Lifecycle!Quiet, Lifecycle!Becomes, Lifecycle!Active, Active
<1>6. CASE Return(t)
  <2>1. LifecycleCaller(requests'[t]) = [does |-> "nothing"]
    BY <1>1, <1>6, ReturnUpdate, IdleIsQuiet
  <2>2. \A x \in Threads : LifecycleCaller(requests'[x]) = LifecycleCaller(requests[x])
    BY <1>3, <1>4, <2>1
  <2> QED BY <1>2, <2>2, Stutters
<1> QED BY <1>5, <1>6 DEF DecideCancel

LEMMA MarkSimulates ==
  ASSUME RunnerInv, NEW t \in Threads, MarkRecord(t), NEW r \in Runs, requests[t].run = r
  PROVE  Lifecycle!Cancel(t, r)
<1>1. /\ TypeOK /\ requests[t] \in Request /\ requests[t] # Idle /\ requests[t].pc = "mark"
      /\ r \in Runs /\ jobs \in [Runs -> Record]
  BY BusyRequest DEF RunnerInv, IInv, TypeOK, MarkRecord, At
<1>2. LifecycleCaller(requests[t]) = [does |-> "cancels", run |-> r] BY <1>1, CallerIs
<1>3. [x \in Threads |-> LifecycleCaller(requests'[x])]
        = [[x \in Threads |-> LifecycleCaller(requests[x])]
             EXCEPT ![t] = LifecycleCaller(requests'[t])]
  BY <1>1, CallerOfOne DEF Serve, Cancel
<1>4. LifecycleCaller(requests'[t]) = [does |-> "nothing"]
  <2>1. requests'[t] = [requests[t] EXCEPT !.pc = "cleanup"]
    BY <1>1, GotoMoves DEF MarkRecord, Moves
  <2>2. requests'[t] # Idle /\ requests'[t].pc = "cleanup"
    BY <1>1, <2>1, MovedRequest, RequestShape DEF RequestSteps
  <2> QED BY <2>2, CallerIs
<1>5. [x \in Runs |-> jobs'[x].status]
        = [[x \in Runs |-> jobs[x].status] EXCEPT ![r] = "CANCELLED"]
  <2>1. /\ jobs'[r].status = "CANCELLED"
        /\ \A x \in Runs \ {r} : jobs'[x].status = jobs[x].status
    BY <1>1 DEF MarkRecord, Record
  <2> QED BY <1>1, <2>1, StatusOfOne
<1>6. UNCHANGED [x \in Runs |-> LifecycleJob(x)] BY JobsAlone DEF MarkRecord
<1> QED
  BY <1>1, <1>2, <1>3, <1>4, <1>5, <1>6
  DEF Lifecycle!Cancel, Lifecycle!Becomes, Lifecycle!SetStatus, Lifecycle!Quiet

\* A request's other steps change neither a status nor what it is about to do.
LEMMA RequestStutters ==
  ASSUME RunnerInv, NEW t \in Threads,
         \/ \E op \in Operations, r \in Runs : Begin(t, op, r)
         \/ GetResult(t) \/ SignalCancel(t) \/ CleanupStorage(t) \/ MarkHistory(t)
  PROVE  UNCHANGED Lifecycle!vars
<1>1. TypeOK /\ requests \in [Threads -> Request \cup {Idle}] /\ cloud \in [Runs -> CloudRun]
  BY DEF RunnerInv, IInv, TypeOK
<1>2. [x \in Threads |-> LifecycleCaller(requests'[x])]
        = [[x \in Threads |-> LifecycleCaller(requests[x])]
             EXCEPT ![t] = LifecycleCaller(requests'[t])]
  BY <1>1, CallerOfOne DEF Serve, Cancel
<1>3. \A r \in Runs : jobs'[r].status = jobs[r].status
  <2>1. UNCHANGED jobs \/ FetchSummary(t)
    BY DEF Begin, GetResult, CheckReady, SignalCancel, CleanupStorage, MarkHistory
  <2>2. CASE FetchSummary(t) BY <1>1, <2>2, BusyRequest, SummaryOnly DEF FetchSummary
  <2> QED BY <2>1, <2>2
<1>4. \A r \in Runs : cloud'[r].life = cloud[r].life /\ cloud'[r].result = cloud[r].result
  <2>1. UNCHANGED cloud \/ SignalCancel(t)
    BY DEF Begin, GetResult, CheckReady, FetchSummary, CleanupStorage, MarkHistory
  <2>2. CASE SignalCancel(t) BY <1>1, <2>2 DEF SignalCancel, CloudRun
  <2> QED BY <2>1, <2>2
<1>5. LifecycleCaller(requests'[t]) = LifecycleCaller(requests[t])
  <2>1. ASSUME NEW op \in Operations, NEW r \in Runs, Begin(t, op, r)
        PROVE  LifecycleCaller(requests'[t]) = LifecycleCaller(requests[t])
    <3>1. requests[t] = Idle /\ requests'[t] # Idle /\ requests'[t].pc = "refresh"
      BY <1>1, <2>1 DEF Begin, Idle
    <3> QED BY <3>1, IdleIsQuiet, CallerIs
  <2>2. CASE GetResult(t) \/ CleanupStorage(t) \/ MarkHistory(t)
    <3>1. /\ requests[t] \in Request /\ requests[t] # Idle
          /\ requests[t].pc \in {"ready", "fetch", "cleanup", "mlflow"}
      BY <1>1, <2>2, BusyRequest
      DEF GetResult, CheckReady, FetchSummary, CleanupStorage, MarkHistory, At
    <3>2. Return(t) \/ \E p \in {"fetch", "mlflow"} : Goto(t, p)
      BY <2>2 DEF GetResult, CheckReady, FetchSummary, CleanupStorage, MarkHistory
    <3>3. LifecycleCaller(requests[t]) = [does |-> "nothing"] BY <3>1, CallerIs
    <3>4. CASE Return(t) BY <1>1, <3>3, <3>4, ReturnUpdate, IdleIsQuiet
    <3>5. ASSUME NEW p \in {"fetch", "mlflow"}, Goto(t, p)
          PROVE  LifecycleCaller(requests'[t]) = [does |-> "nothing"]
      <4>1. requests'[t] = [requests[t] EXCEPT !.pc = p] BY <1>1, <3>5, GotoMoves DEF Moves
      <4>2. requests'[t] # Idle /\ requests'[t].pc = p
        BY <3>1, <3>5, <4>1, MovedRequest, RequestShape DEF RequestSteps
      <4> QED BY <3>5, <4>2, CallerIs
    <3> QED BY <3>2, <3>3, <3>4, <3>5
  <2>3. CASE SignalCancel(t)
    <3>1. requests[t] \in Request /\ requests[t] # Idle /\ requests[t].pc = "signal"
      BY <1>1, <2>3, BusyRequest DEF SignalCancel, At
    <3>2. requests'[t] = [requests[t] EXCEPT !.pc = "mark"]
      BY <1>1, <2>3, GotoMoves DEF SignalCancel, Moves
    <3>3. /\ requests'[t] # Idle /\ requests'[t].pc = "mark"
          /\ requests'[t].run = requests[t].run
      BY <3>1, <3>2, MovedRequest, RequestShape DEF RequestSteps
    <3> QED BY <3>1, <3>3, CallerIs
  <2> QED BY <2>1, <2>2, <2>3
<1>6. \A x \in Threads : LifecycleCaller(requests'[x]) = LifecycleCaller(requests[x])
  BY <1>2, <1>5
<1> QED BY <1>3, <1>4, <1>6, Stutters
--------------------------------------------------------------------------------
LEMMA StepSimulates == RunnerInv /\ [Next]_vars => [Lifecycle!Next]_(Lifecycle!vars)
<1> SUFFICES ASSUME RunnerInv, [Next]_vars PROVE [Lifecycle!Next]_(Lifecycle!vars)
  OBVIOUS
<1>1. TypeOK /\ jobs \in [Runs -> Record] BY DEF RunnerInv, IInv, TypeOK
<1>2. ASSUME NEW x \in Runs, Submit(x) \/ Stage(x) \/ CloudSteps(x) \/ RowSteps(x)
      PROVE  [Lifecycle!Next]_(Lifecycle!vars)
  <2>1. ASSUME UNCHANGED <<jobs, cloud, requests>> PROVE UNCHANGED Lifecycle!vars
    BY <2>1, Stutters
  <2>2. ASSUME RecordRunId(x) PROVE UNCHANGED Lifecycle!vars
    <3>1. UNCHANGED <<cloud, requests>> /\ \A r \in Runs : jobs'[r].status = jobs[r].status
      BY <1>1, <2>2 DEF RecordRunId, Record
    <3> QED BY <3>1, Stutters
  <2>3. \/ UNCHANGED <<jobs, cloud, requests>> \/ Submit(x) \/ RecordRunId(x)
        \/ StagingFails(x) \/ RunNowReplyLost(x)
        \/ RunNow(x) \/ CloudAdvances(x) \/ CloudGivesUp(x) \/ CloudCancels(x)
        \/ EngineSucceeds(x) \/ EngineFails(x)
    BY <1>2 DEF Stage, CloudSteps, UploadDataset, UploadConfig, WriteRegistry,
       RowSteps, EngineOpensRow, WorkerTouchesRow
  <2> QED
    BY <2>1, <2>2, <2>3, SubmitSimulates, FailureSimulates, CloudSimulates
    DEF Lifecycle!Next
<1>3. ASSUME NEW t \in Threads,
             Serve(t) \/ \E op \in Operations, r \in Runs : Begin(t, op, r)
      PROVE  [Lifecycle!Next]_(Lifecycle!vars)
  <2>1. ASSUME CheckRecord(t) \/ Poll(t) \/ PollFails(t) \/ Apply(t) \/ DecideCancel(t)
                 \/ MarkRecord(t)
        PROVE  requests[t].run \in Runs /\ (Apply(t) => requests[t].seen \in JobStatus)
    BY <1>1, <2>1, BusyRequest
    DEF CheckRecord, Poll, PollFails, Apply, DecideCancel, MarkRecord
  <2>2. JobStatus = Lifecycle!JobStatus BY DEF Lifecycle!JobStatus, JobStatus
  <2>3. ASSUME NEW r \in Runs,
               \/ Lifecycle!Ask(t, r) \/ Lifecycle!Hear(t, r) \/ Lifecycle!Miss(t, r)
               \/ Lifecycle!Decide(t, r) \/ Lifecycle!Cancel(t, r)
               \/ \E s \in Lifecycle!JobStatus : Lifecycle!Tell(t, r, s)
        PROVE  Lifecycle!Next
    BY <2>3 DEF Lifecycle!Next
  <2>4. CASE CheckRecord(t) BY <2>1, <2>3, <2>4, CheckSimulates
  <2>5. CASE Poll(t) BY <2>1, <2>3, <2>5, PollSimulates
  <2>6. CASE PollFails(t) BY <2>1, <2>3, <2>6, MissSimulates
  <2>7. CASE Apply(t)
    <3>1. PICK r \in Runs, s \in JobStatus : requests[t].run = r /\ requests[t].seen = s
      BY <2>1, <2>7
    <3>2. Lifecycle!Tell(t, r, s) BY <2>7, <3>1, ApplySimulates
    <3> QED BY <2>2, <2>3, <3>2
  <2>8. CASE DecideCancel(t) BY <2>1, <2>3, <2>8, DecideSimulates
  <2>9. CASE MarkRecord(t)
    <3>1. PICK r \in Runs : requests[t].run = r BY <2>1, <2>9
    <3>2. Lifecycle!Cancel(t, r) BY <2>9, <3>1, MarkSimulates
    <3> QED BY <2>3, <3>2
  <2> QED
    BY <1>3, <2>4, <2>5, <2>6, <2>7, <2>8, <2>9, RequestStutters DEF Serve, Refresh, Cancel
<1>4. CASE Restart
  <2>1. [x \in Runs |-> jobs'[x].status] = [x \in Runs |-> "ABSENT"]
    BY <1>4 DEF Restart, NoRecord
  <2>2. [t \in Threads |-> LifecycleCaller(requests'[t])]
          = [t \in Threads |-> [does |-> "nothing"]]
    BY <1>4, IdleIsQuiet DEF Restart
  <2>3. UNCHANGED [x \in Runs |-> LifecycleJob(x)] BY <1>4, JobsAlone DEF Restart
  <2> QED BY <2>1, <2>2, <2>3 DEF Lifecycle!Next, Lifecycle!Forget, Lifecycle!Quiet
<1>5. CASE UNCHANGED vars BY <1>5, Stutters DEF vars
<1> QED BY <1>2, <1>3, <1>4, <1>5 DEF Next

\* Any number of threads and runs, any faults, requests overlapping as they
\* like: a record's status is written by RunLifecycle's events only.  COMPLETED
\* is always the job's own end; FAILED and CANCELLED are the job's end, a failed
\* submission or a cancel(); a terminal status is left only through a request
\* that looked at the record before it was reached.
THEOREM RunnerImplementsLifecycle == Spec => ImplementsLifecycle
<1>1. Init => Lifecycle!Init
  <2> SUFFICES ASSUME Init PROVE Lifecycle!Init
    OBVIOUS
  <2>1. \A r \in Runs : jobs[r].status = "ABSENT" /\ cloud[r].life = "NONE"
    BY DEF Init, NoRecord, NoCloudRun
  <2>2. \A t \in Threads : LifecycleCaller(requests[t]) = [does |-> "nothing"]
    BY IdleIsQuiet DEF Init
  <2> QED BY <2>1, <2>2, JobNone DEF Lifecycle!Init, Lifecycle!Quiet
<1>2. RunnerInv /\ [Next]_vars => [Lifecycle!Next]_(Lifecycle!vars)
  BY StepSimulates
<1> QED
  BY <1>1, <1>2, RunnerInductive, PTL DEF Spec, ImplementsLifecycle, Lifecycle!Spec
================================================================================
