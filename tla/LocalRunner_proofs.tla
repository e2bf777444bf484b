--------------------------- MODULE LocalRunner_proofs ---------------------------
(***************************************************************************)
(* Proofs about LocalRunner, for any runs, cancellers and faults.          *)
(***************************************************************************)
EXTENDS LocalRunner, TLAPS

\* Where a run's thread is once it waits for the process it published, and once it
\* published its work directory.
Waited == {"wait", "expired", "timedout", "handler", "handover", "done"}

Published == {"config", "spawn", "register", "reap"} \cup Waited

\* What a record says of the thread that fills it.
RecordInv ==
  \A r \in Runs :
    /\ jobs[r].status = "ABSENT" => executor[r] \in {"none", "done", "dead"}
    /\ jobs[r].status \in {"COMPLETED", "FAILED"} => executor[r] \in {"handover", "done"}
    /\ jobs[r].process => executor[r] \in Waited
    /\ jobs[r].work_dir => executor[r] \in Published

\* An engine only runs while its thread is starting it or waiting for it.
EngineInv ==
  \A r \in Runs : engine[r] = "running" =>
    executor[r] \in {"register", "reap", "wait", "expired", "dead"}

\* What a cancellation captured says of that thread; the run it is about to clean
\* up after will not complete.
CallInv ==
  \A c \in Cancellers : cancels[c] # Idle =>
    /\ cancels[c].pc = "decide" => ~cancels[c].process /\ ~cancels[c].work_dir
    /\ cancels[c].process => executor[cancels[c].run] \in Waited
    /\ cancels[c].work_dir =>
         /\ executor[cancels[c].run] \in Published
         /\ jobs[cancels[c].run].status \in {"CANCELLED", "FAILED", "ABSENT"}

IInv == TypeOK /\ RecordInv /\ EngineInv /\ CallInv /\ NoRunIsLost /\ CompletedIsTrue /\ CleanupAfterDeath
--------------------------------------------------------------------------------
LEMMA ListingType == HistoryTypeOK => [r \in Runs |-> RowAnswer(r)] \in Listings
<1> SUFFICES ASSUME HistoryTypeOK, NEW r \in Runs PROVE RowAnswer(r) \in JobStatus \cup {"NONE"}
  BY DEF Listings
<1> QED BY DEF RowAnswer, history_status, JobStatus

LEMMA NoListingType == NoCache \in Cache /\ NoSweep \in Sweep
  BY DEF NoCache, Cache, NoSweep, Sweep, NoListing, Listings

\* The sweeps touch nothing but the listing.
LEMMA SweepingStep == HistoryTypeOK /\ Sweeping => HistoryTypeOK' /\ UNCHANGED rows
<1> SUFFICES ASSUME HistoryTypeOK, Sweeping PROVE HistoryTypeOK' /\ UNCHANGED rows
  OBVIOUS
<1>1. CASE StartSweep
  BY <1>1, NoListingType DEF StartSweep, HistoryTypeOK, Sweep
<1>2. CASE FetchListings
  BY <1>2, ListingType DEF FetchListings, HistoryTypeOK, Sweep
<1>3. CASE FetchFails
  BY <1>3, NoListingType DEF FetchFails, HistoryTypeOK
<1>4. CASE StoreListings
  BY <1>4, NoListingType DEF StoreListings, HistoryTypeOK, Sweep, Cache
<1>5. CASE ListingExpires
  BY <1>5 DEF ListingExpires, HistoryTypeOK, Cache
<1> QED BY <1>1, <1>2, <1>3, <1>4, <1>5 DEF Sweeping

\* A row, once closed, stays so.
LEMMA MarkStep ==
  ASSUME HistoryTypeOK, NEW r \in Runs, MarkCancelled(r) \/ MarkCancelledFails
  PROVE  HistoryTypeOK' /\ \A q \in Runs : RowClosed(q) => RowClosed(q)'
<1>1. CASE MarkCancelled(r)
  BY <1>1, NoListingType DEF MarkCancelled, HistoryTypeOK, MLflowStatuses, RowClosed
<1>2. CASE MarkCancelledFails
  BY <1>2 DEF MarkCancelledFails, historyVars, HistoryTypeOK, RowClosed
<1> QED BY <1>1, <1>2

LEMMA Goes ==
  ASSUME TypeOK, NEW r \in Runs, NEW from, NEW to \in ExecutorSteps, ExecutorGoes(r, from, to)
  PROVE  /\ executor' \in [Runs -> ExecutorSteps]
         /\ executor[r] = from /\ executor'[r] = to
         /\ \A q \in Runs : q # r => executor'[q] = executor[q]
  BY DEF TypeOK, ExecutorGoes

LEMMA SetsStatus ==
  ASSUME TypeOK, NEW r \in Runs, NEW s \in JobStatus, SetStatus(r, s)
  PROVE  /\ jobs' \in [Runs -> Record]
         /\ jobs'[r].status = s
         /\ jobs'[r].process = jobs[r].process /\ jobs'[r].work_dir = jobs[r].work_dir
         /\ \A q \in Runs : q # r => jobs'[q] = jobs[q]
  BY DEF TypeOK, SetStatus, Record

LEMMA Kills ==
  ASSUME TypeOK, NEW r \in Runs, Killed(r)
  PROVE  /\ engine' \in [Runs -> EngineStates]
         /\ engine'[r] # "running"
         /\ \A q \in Runs : engine'[q] = "running" => engine[q] = "running"
         /\ \A q \in Runs : engine[q] = "ok" => engine'[q] = "ok"
  BY DEF TypeOK, Killed, EngineStates
--------------------------------------------------------------------------------
LEMMA TypingStep == TypeOK /\ [Next]_vars => TypeOK'
<1> SUFFICES ASSUME TypeOK, [Next]_vars PROVE TypeOK'
  OBVIOUS
<1> USE DEF JobStatus, ExecutorSteps
<1>1. ASSUME NEW r \in Runs, Submit(r) PROVE TypeOK'
  BY <1>1, Goes DEF Submit, TypeOK, Record, NoRecord, historyVars, HistoryTypeOK
<1>2. ASSUME NEW r \in Runs, Execute(r) PROVE TypeOK'
  <2>1. HistoryTypeOK' /\ cancels' \in [Cancellers -> CancelCall \cup {Idle}]
    BY <1>2 DEF Execute, StartExecution, MakeWorkDir, PublishWorkDir, WriteConfig, SpawnEngine,
                RegisterProcess, ReapRacedProcess, FinishExecution,
                HandleException, ExecutionTimesOut, KillExpiredProcess, FailTimedOut, HandOver,
                historyVars, HistoryTypeOK, TypeOK
  <2>2. executor' \in [Runs -> ExecutorSteps]
    BY <1>2 DEF Execute, StartExecution, MakeWorkDir, PublishWorkDir, WriteConfig, SpawnEngine,
                RegisterProcess, ReapRacedProcess, FinishExecution,
                HandleException, ExecutionTimesOut, KillExpiredProcess, FailTimedOut, HandOver,
                ExecutorGoes, TypeOK
  <2>3. jobs' \in [Runs -> Record]
    <3>1. CASE UNCHANGED jobs BY <3>1 DEF TypeOK
    <3>2. CASE \E s \in JobStatus : SetStatus(r, s) BY <3>2, SetsStatus
    <3>3. CASE jobs' = [jobs EXCEPT ![r].work_dir = TRUE] BY <3>3 DEF TypeOK, Record
    <3>4. CASE jobs' = [jobs EXCEPT ![r].process = TRUE] BY <3>4 DEF TypeOK, Record
    <3>5. CASE jobs' = [jobs EXCEPT ![r] = NoRecord] BY <3>5 DEF TypeOK, Record, NoRecord
    <3> QED
      BY <1>2, <3>1, <3>2, <3>3, <3>4, <3>5
      DEF Execute, StartExecution, MakeWorkDir, PublishWorkDir, WriteConfig, SpawnEngine,
          RegisterProcess, ReapRacedProcess, FinishExecution,
          HandleException, ExecutionTimesOut, KillExpiredProcess, FailTimedOut, HandOver
  <2>4. engine' \in [Runs -> EngineStates] /\ workspace' \subseteq Runs
    BY <1>2 DEF Execute, StartExecution, MakeWorkDir, PublishWorkDir, WriteConfig, SpawnEngine,
                RegisterProcess, ReapRacedProcess, FinishExecution,
                HandleException, ExecutionTimesOut, KillExpiredProcess, FailTimedOut, HandOver,
                Killed, EngineStates, TypeOK
  <2> QED BY <2>1, <2>2, <2>3, <2>4 DEF TypeOK
<1>3. ASSUME NEW r \in Runs, EngineSteps(r) PROVE TypeOK'
  <2>1. HistoryTypeOK'
    BY <1>3 DEF EngineSteps, EngineOpensRow, WorkerTouchesRow, EngineExits, RowAfter, historyVars,
                HistoryTypeOK, MLflowStatuses, TypeOK
  <2>2. engine' \in [Runs -> EngineStates]
    BY <1>3 DEF EngineSteps, EngineOpensRow, WorkerTouchesRow, EngineExits, EngineStates, TypeOK
  <2>3. UNCHANGED <<jobs, executor, workspace, cancels>>
    BY <1>3 DEF EngineSteps, EngineOpensRow, WorkerTouchesRow, EngineExits
  <2> QED BY <2>1, <2>2, <2>3 DEF TypeOK
<1>4. ASSUME NEW c \in Cancellers, NEW r \in Runs, BeginCancel(c, r) PROVE TypeOK'
  BY <1>4 DEF BeginCancel, TypeOK, CancelCall, historyVars, HistoryTypeOK
<1>5. ASSUME NEW c \in Cancellers, Cancel(c) PROVE TypeOK'
  <2>1. cancels[c] \in CancelCall
    BY <1>5 DEF Cancel, DecideCancel, StopProcess, CleanupStorage, MarkHistory, At, TypeOK
  <2> DEFINE r == cancels[c].run
  <2>2. r \in Runs BY <2>1 DEF CancelCall
  <2>3. cancels' \in [Cancellers -> CancelCall \cup {Idle}]
    <3>1. jobs[r] \in Record BY <2>2 DEF TypeOK
    <3>2. CASE DecideCancel(c) BY <2>1, <3>1, <3>2 DEF DecideCancel, CancelCall, Record, TypeOK
    <3>3. CASE StopProcess(c) \/ CleanupStorage(c) \/ MarkHistory(c)
      BY <2>1, <3>3 DEF StopProcess, CleanupStorage, MarkHistory, Goto, CancelCall, TypeOK
    <3> QED BY <1>5, <3>2, <3>3 DEF Cancel
  <2>4. CASE DecideCancel(c)
    <3>1. jobs' \in [Runs -> Record]
      BY <2>2, <2>4, SetsStatus DEF DecideCancel, TypeOK
    <3> QED BY <2>3, <2>4, <3>1 DEF DecideCancel, TypeOK, historyVars, HistoryTypeOK
  <2>5. CASE StopProcess(c)
    BY <2>2, <2>3, <2>5, Kills DEF StopProcess, TypeOK, historyVars, HistoryTypeOK
  <2>6. CASE CleanupStorage(c)
    BY <2>2, <2>3, <2>6 DEF CleanupStorage, TypeOK, historyVars, HistoryTypeOK
  <2>7. CASE MarkHistory(c)
    <3>1. HistoryTypeOK' BY <2>2, <2>7, MarkStep DEF MarkHistory, TypeOK
    <3> QED BY <2>3, <2>7, <3>1 DEF MarkHistory, TypeOK
  <2> QED BY <1>5, <2>4, <2>5, <2>6, <2>7 DEF Cancel
<1>6. CASE SweepHistory BY <1>6, SweepingStep DEF SweepHistory, TypeOK
<1>7. CASE Restart
  BY <1>7, NoListingType
  DEF Restart, TypeOK, HistoryTypeOK, Record, NoRecord, EngineStates, Idle
<1>8. CASE UNCHANGED vars BY <1>8 DEF vars, TypeOK, HistoryTypeOK
<1> QED BY <1>1, <1>2, <1>3, <1>4, <1>5, <1>6, <1>7, <1>8 DEF Next
--------------------------------------------------------------------------------
\* A record follows its thread.
LEMMA RecordStep == TypeOK /\ RecordInv /\ CallInv /\ [Next]_vars => RecordInv'
<1> SUFFICES ASSUME TypeOK, RecordInv, CallInv, [Next]_vars PROVE RecordInv'
  OBVIOUS
<1>1. ASSUME NEW r \in Runs, Submit(r) PROVE RecordInv'
  BY <1>1, Goes DEF Submit, RecordInv, TypeOK, Record, NoRecord, ExecutorSteps
<1>2. ASSUME NEW r \in Runs, Execute(r) PROVE RecordInv'
  <2> USE DEF RecordInv, ExecutorSteps, Waited, Published, JobStatus
  <2>1. CASE StartExecution(r) BY <2>1, Goes, SetsStatus DEF StartExecution
  <2>2. CASE MakeWorkDir(r) BY <2>2, Goes DEF MakeWorkDir
  <2>3. CASE PublishWorkDir(r) BY <2>3, Goes DEF PublishWorkDir, TypeOK, Record
  <2>4. CASE WriteConfig(r) BY <2>4, Goes DEF WriteConfig
  <2>5. CASE SpawnEngine(r) BY <2>5, Goes DEF SpawnEngine
  <2>6. CASE RegisterProcess(r) BY <2>6, Goes DEF RegisterProcess, TypeOK, Record
  <2>7. CASE ReapRacedProcess(r) BY <2>7, Goes DEF ReapRacedProcess
  <2>8. CASE FinishExecution(r) BY <2>8, Goes, SetsStatus DEF FinishExecution
  <2>9. CASE ExecutionTimesOut(r) BY <2>9, Goes DEF ExecutionTimesOut
  <2>10. CASE HandOver(r) BY <2>10, Goes DEF HandOver, TypeOK, NoRecord
  <2>11. CASE HandleException(r) BY <2>11, Goes, SetsStatus DEF HandleException
  <2>12. CASE KillExpiredProcess(r) BY <2>12, Goes DEF KillExpiredProcess
  <2>13. CASE FailTimedOut(r) BY <2>13, Goes, SetsStatus DEF FailTimedOut
  <2> QED
    BY <1>2, <2>1, <2>2, <2>3, <2>4, <2>5, <2>6, <2>7, <2>8, <2>9, <2>10, <2>11, <2>12, <2>13
    DEF Execute
<1>3. ASSUME NEW c \in Cancellers, Cancel(c) PROVE RecordInv'
  <2>1. CASE DecideCancel(c)
    <3>1. cancels[c].run \in Runs BY <2>1 DEF DecideCancel, At, TypeOK, CancelCall
    <3> QED BY <2>1, <3>1, SetsStatus DEF DecideCancel, RecordInv, JobStatus, Active
  <2>2. CASE StopProcess(c) \/ CleanupStorage(c) \/ MarkHistory(c)
    BY <2>2 DEF StopProcess, CleanupStorage, MarkHistory, RecordInv
  <2> QED BY <1>3, <2>1, <2>2 DEF Cancel
<1>4. ASSUME UNCHANGED <<jobs, executor>> PROVE RecordInv'
  BY <1>4 DEF RecordInv
<1>5. ASSUME NEW r \in Runs, EngineSteps(r) \/ \E c \in Cancellers : BeginCancel(c, r)
      PROVE  UNCHANGED <<jobs, executor>>
  BY <1>5 DEF EngineSteps, EngineOpensRow, WorkerTouchesRow, EngineExits, BeginCancel
<1>6. CASE SweepHistory BY <1>4, <1>6 DEF SweepHistory
<1>7. CASE Restart BY <1>7 DEF Restart, RecordInv, NoRecord, TypeOK
<1>8. CASE UNCHANGED vars BY <1>4, <1>8 DEF vars
<1> QED BY <1>1, <1>2, <1>3, <1>4, <1>5, <1>6, <1>7, <1>8 DEF Next

\* The threads only go on, so what a cancellation captured stays true; a run it
\* cleans up after was CANCELLED first.
LEMMA CallStep == TypeOK /\ RecordInv /\ CallInv /\ [Next]_vars => CallInv'
<1> SUFFICES ASSUME TypeOK, RecordInv, CallInv, [Next]_vars PROVE CallInv'
  OBVIOUS
<1>a. ASSUME UNCHANGED cancels,
             \A r \in Runs : executor[r] \in Waited => executor'[r] \in Waited,
             \A r \in Runs : executor[r] \in Published => executor'[r] \in Published,
             \A r \in Runs : executor[r] \in Published
                             /\ jobs[r].status \in {"CANCELLED", "FAILED", "ABSENT"} =>
                               jobs'[r].status \in {"CANCELLED", "FAILED", "ABSENT"}
      PROVE  CallInv'
  <2> SUFFICES ASSUME NEW c \in Cancellers, cancels[c] # Idle
               PROVE  /\ cancels[c].pc = "decide" => ~cancels[c].process /\ ~cancels[c].work_dir
                      /\ cancels[c].process => executor'[cancels[c].run] \in Waited
                      /\ cancels[c].work_dir =>
                           /\ executor'[cancels[c].run] \in Published
                           /\ jobs'[cancels[c].run].status \in {"CANCELLED", "FAILED", "ABSENT"}
    BY <1>a DEF CallInv
  <2>1. cancels[c].run \in Runs BY DEF TypeOK, CancelCall
  <2> QED BY <1>a, <2>1 DEF CallInv
<1>1. ASSUME NEW r \in Runs, Submit(r) PROVE CallInv'
  BY <1>1, <1>a, Goes DEF Submit, ExecutorSteps, TypeOK, Waited, Published
<1>2. ASSUME NEW r \in Runs, Execute(r) PROVE CallInv'
  <2> DEFINE Kept ==
        /\ UNCHANGED cancels
        /\ \A q \in Runs : executor[q] \in Waited => executor'[q] \in Waited
        /\ \A q \in Runs : executor[q] \in Published => executor'[q] \in Published
        /\ \A q \in Runs : executor[q] \in Published
                           /\ jobs[q].status \in {"CANCELLED", "FAILED", "ABSENT"} =>
                             jobs'[q].status \in {"CANCELLED", "FAILED", "ABSENT"}
  <2> USE DEF ExecutorSteps, Waited, Published, JobStatus
  <2>1. CASE StartExecution(r)
    <3>1. Kept BY <2>1, Goes, SetsStatus DEF StartExecution
    <3> QED BY <1>a, <3>1
  <2>2. CASE MakeWorkDir(r)
    <3>1. Kept BY <2>2, Goes DEF MakeWorkDir
    <3> QED BY <1>a, <3>1
  <2>3. CASE PublishWorkDir(r)
    <3>1. Kept BY <2>3, Goes DEF PublishWorkDir, TypeOK, Record
    <3> QED BY <1>a, <3>1
  <2>4. CASE WriteConfig(r)
    <3>1. Kept BY <2>4, Goes DEF WriteConfig
    <3> QED BY <1>a, <3>1
  <2>5. CASE SpawnEngine(r)
    <3>1. Kept BY <2>5, Goes DEF SpawnEngine
    <3> QED BY <1>a, <3>1
  <2>6. CASE RegisterProcess(r)
    <3>1. Kept BY <2>6, Goes DEF RegisterProcess, TypeOK, Record
    <3> QED BY <1>a, <3>1
  <2>7. CASE ReapRacedProcess(r)
    <3>1. Kept BY <2>7, Goes DEF ReapRacedProcess
    <3> QED BY <1>a, <3>1
  <2>8. CASE FinishExecution(r)
    <3>1. executor[r] = "wait" BY <2>8 DEF FinishExecution, ExecutorGoes
    <3>2. jobs[r].status \notin {"FAILED", "ABSENT"} BY <3>1 DEF RecordInv
    <3>3. Kept BY <2>8, <3>2, Goes, SetsStatus DEF FinishExecution
    <3> QED BY <1>a, <3>3
  <2>9. CASE ExecutionTimesOut(r)
    <3>1. Kept BY <2>9, Goes DEF ExecutionTimesOut
    <3> QED BY <1>a, <3>1
  <2>10. CASE HandOver(r)
    <3>1. Kept BY <2>10, Goes DEF HandOver, TypeOK, NoRecord
    <3> QED BY <1>a, <3>1
  <2>11. CASE HandleException(r)
    <3>1. Kept BY <2>11, Goes, SetsStatus DEF HandleException
    <3> QED BY <1>a, <3>1
  <2>12. CASE KillExpiredProcess(r)
    <3>1. Kept BY <2>12, Goes DEF KillExpiredProcess
    <3> QED BY <1>a, <3>1
  <2>13. CASE FailTimedOut(r)
    <3>1. Kept BY <2>13, Goes, SetsStatus DEF FailTimedOut
    <3> QED BY <1>a, <3>1
  <2> QED
    BY <1>2, <2>1, <2>2, <2>3, <2>4, <2>5, <2>6, <2>7, <2>8, <2>9, <2>10, <2>11, <2>12, <2>13
    DEF Execute
<1>3. ASSUME NEW c \in Cancellers, NEW r \in Runs, BeginCancel(c, r) PROVE CallInv'
  BY <1>3 DEF BeginCancel, CallInv, TypeOK
<1>4. ASSUME NEW c \in Cancellers, Cancel(c) PROVE CallInv'
  <2>1. cancels[c] # Idle /\ cancels[c] \in CancelCall
    BY <1>4 DEF Cancel, DecideCancel, StopProcess, CleanupStorage, MarkHistory, At, TypeOK
  <2> DEFINE r == cancels[c].run
  <2>2. r \in Runs BY <2>1 DEF CancelCall
  <2>3. CASE DecideCancel(c) /\ jobs[r].status \in Active
    <3> HIDE DEF r
    <3>1. jobs'[r].status = "CANCELLED" /\ \A q \in Runs : q # r => jobs'[q] = jobs[q]
      BY <2>2, <2>3, SetsStatus DEF DecideCancel, JobStatus, r
    <3>2. UNCHANGED executor BY <2>3 DEF DecideCancel
    <3>3. cancels' = [cancels EXCEPT ![c].pc = "stop", ![c].process = jobs[r].process,
                                     ![c].work_dir = jobs[r].work_dir]
      BY <2>3 DEF DecideCancel, r
    <3>4. /\ cancels'[c].pc = "stop" /\ cancels'[c].run = r
          /\ cancels'[c].process = jobs[r].process /\ cancels'[c].work_dir = jobs[r].work_dir
      BY <2>1, <3>3 DEF CancelCall, TypeOK, r
    <3>5. \A d \in Cancellers : d # c => cancels'[d] = cancels[d] BY <3>3 DEF TypeOK
    <3>6. ASSUME NEW d \in Cancellers, d # c, cancels'[d] # Idle
          PROVE  /\ cancels'[d].pc = "decide" => ~cancels'[d].process /\ ~cancels'[d].work_dir
                 /\ cancels'[d].process => executor'[cancels'[d].run] \in Waited
                 /\ cancels'[d].work_dir =>
                      /\ executor'[cancels'[d].run] \in Published
                      /\ jobs'[cancels'[d].run].status \in {"CANCELLED", "FAILED", "ABSENT"}
      <4>1. cancels[d].run \in Runs BY <3>5, <3>6 DEF TypeOK, CancelCall
      <4> QED BY <3>1, <3>2, <3>5, <3>6, <4>1 DEF CallInv
    <3>7. jobs[r].process => executor[r] \in Waited BY <2>2 DEF RecordInv
    <3>8. jobs[r].work_dir => executor[r] \in Published BY <2>2 DEF RecordInv
    <3> QED BY <3>1, <3>2, <3>4, <3>6, <3>7, <3>8 DEF CallInv
  <2>4. CASE DecideCancel(c) /\ jobs[r].status \notin Active
    BY <2>4 DEF DecideCancel, CallInv, TypeOK
  <2>5. CASE StopProcess(c) \/ CleanupStorage(c) \/ MarkHistory(c)
    BY <2>1, <2>5 DEF StopProcess, CleanupStorage, MarkHistory, Goto, CallInv, TypeOK, CancelCall
  <2> QED BY <1>4, <2>3, <2>4, <2>5 DEF Cancel
<1>5. ASSUME NEW r \in Runs, EngineSteps(r) PROVE CallInv'
  BY <1>5 DEF EngineSteps, EngineOpensRow, WorkerTouchesRow, EngineExits, CallInv
<1>6. CASE SweepHistory BY <1>6 DEF SweepHistory, CallInv
<1>7. CASE Restart BY <1>7 DEF Restart, CallInv
<1>8. CASE UNCHANGED vars BY <1>8 DEF vars, CallInv
<1> QED BY <1>1, <1>2, <1>3, <1>4, <1>5, <1>6, <1>7, <1>8 DEF Next
--------------------------------------------------------------------------------
\* A thread is past its engine only when the engine is.
LEMMA EngineStep == TypeOK /\ EngineInv /\ [Next]_vars => EngineInv'
<1> SUFFICES ASSUME TypeOK, EngineInv, [Next]_vars PROVE EngineInv'
  OBVIOUS
<1> USE DEF EngineInv, ExecutorSteps
<1>1. ASSUME NEW r \in Runs, Submit(r) PROVE EngineInv'
  BY <1>1, Goes DEF Submit
<1>2. ASSUME NEW r \in Runs, Execute(r) PROVE EngineInv'
  <2>1. CASE SpawnEngine(r) BY <2>1, Goes DEF SpawnEngine, TypeOK
  <2>2. CASE ReapRacedProcess(r) BY <2>2, Goes, Kills DEF ReapRacedProcess
  <2>3. CASE KillExpiredProcess(r) BY <2>3, Goes, Kills DEF KillExpiredProcess
  <2>4. CASE FinishExecution(r) BY <2>4, Goes DEF FinishExecution
  <2>5. CASE RegisterProcess(r) \/ ExecutionTimesOut(r)
    BY <2>5, Goes DEF RegisterProcess, ExecutionTimesOut
  <2>6. CASE \/ StartExecution(r) \/ MakeWorkDir(r) \/ PublishWorkDir(r) \/ WriteConfig(r)
             \/ HandleException(r) \/ FailTimedOut(r) \/ HandOver(r)
    BY <2>6, Goes
    DEF StartExecution, MakeWorkDir, PublishWorkDir, WriteConfig, HandleException, FailTimedOut,
        HandOver
  <2> QED BY <1>2, <2>1, <2>2, <2>3, <2>4, <2>5, <2>6 DEF Execute
<1>3. ASSUME NEW r \in Runs, EngineSteps(r) PROVE EngineInv'
  BY <1>3 DEF EngineSteps, EngineOpensRow, WorkerTouchesRow, EngineExits, TypeOK
<1>4. ASSUME NEW c \in Cancellers, Cancel(c) PROVE EngineInv'
  <2>1. CASE StopProcess(c)
    <3>1. cancels[c].run \in Runs BY <2>1 DEF StopProcess, At, TypeOK, CancelCall
    <3> QED BY <2>1, <3>1, Kills DEF StopProcess
  <2>2. CASE DecideCancel(c) \/ CleanupStorage(c) \/ MarkHistory(c)
    BY <2>2 DEF DecideCancel, CleanupStorage, MarkHistory
  <2> QED BY <1>4, <2>1, <2>2 DEF Cancel
<1>5. ASSUME NEW c \in Cancellers, NEW r \in Runs, BeginCancel(c, r) PROVE EngineInv'
  BY <1>5 DEF BeginCancel
<1>6. CASE SweepHistory BY <1>6 DEF SweepHistory
<1>7. CASE Restart BY <1>7 DEF Restart, TypeOK, EngineStates
<1>8. CASE UNCHANGED vars BY <1>8 DEF vars
<1> QED BY <1>1, <1>2, <1>3, <1>4, <1>5, <1>6, <1>7, <1>8 DEF Next

LEMMA NotLostStep ==
  TypeOK /\ RecordInv /\ EngineInv /\ NoRunIsLost /\ [Next]_vars => NoRunIsLost'
<1> SUFFICES ASSUME TypeOK, RecordInv, EngineInv, NoRunIsLost, [Next]_vars PROVE NoRunIsLost'
  OBVIOUS
<1> USE DEF JobStatus, ExecutorSteps
\* Rows that are closed stay closed once the record is gone, records stay, threads do
\* not start over.
<1>a. ASSUME \A r \in Runs : RowClosed(r) /\ executor[r] \notin {"none", "dead"}
                             /\ jobs[r].status = "ABSENT" => RowClosed(r)',
             \A r \in Runs : jobs[r].status # "ABSENT" => jobs'[r].status # "ABSENT",
             \A r \in Runs : executor'[r] \notin {"none", "dead"} => executor[r] \notin {"none", "dead"}
      PROVE  NoRunIsLost'
  BY <1>a DEF NoRunIsLost
<1>1. ASSUME NEW r \in Runs, Submit(r) PROVE NoRunIsLost'
  BY <1>1, Goes DEF Submit, NoRunIsLost, RowClosed, historyVars, NoRecord, TypeOK
<1>2. ASSUME NEW r \in Runs, Execute(r) PROVE NoRunIsLost'
  <2>1. UNCHANGED rows
    BY <1>2 DEF Execute, StartExecution, MakeWorkDir, PublishWorkDir, WriteConfig, SpawnEngine,
                RegisterProcess, ReapRacedProcess, FinishExecution,
                HandleException, ExecutionTimesOut, KillExpiredProcess, FailTimedOut, HandOver,
                historyVars
  <2>2. \A q \in Runs : executor'[q] \notin {"none", "dead"} => executor[q] \notin {"none", "dead"}
    BY <1>2 DEF Execute, StartExecution, MakeWorkDir, PublishWorkDir, WriteConfig, SpawnEngine,
                RegisterProcess, ReapRacedProcess, FinishExecution,
                HandleException, ExecutionTimesOut, KillExpiredProcess, FailTimedOut, HandOver,
                ExecutorGoes, TypeOK
  <2>3. CASE HandOver(r)
    BY <2>1, <2>2, <2>3 DEF HandOver, NoRunIsLost, RowClosed, NoRecord, TypeOK
  <2>4. CASE UNCHANGED jobs BY <1>a, <2>1, <2>2, <2>4 DEF RowClosed
  <2>5. CASE \E s \in JobStatus : SetStatus(r, s)
    BY <1>a, <2>1, <2>2, <2>5, SetsStatus DEF RowClosed
  <2>6. CASE \/ jobs' = [jobs EXCEPT ![r].work_dir = TRUE]
             \/ jobs' = [jobs EXCEPT ![r].process = TRUE]
    <3>1. \A q \in Runs : jobs'[q].status = jobs[q].status BY <2>6 DEF TypeOK, Record
    <3> QED BY <1>a, <2>1, <2>2, <3>1 DEF RowClosed
  <2> QED
    BY <1>2, <2>3, <2>4, <2>5, <2>6
    DEF Execute, StartExecution, MakeWorkDir, PublishWorkDir, WriteConfig, SpawnEngine,
        RegisterProcess, ReapRacedProcess, FinishExecution,
        HandleException, ExecutionTimesOut, KillExpiredProcess, FailTimedOut
<1>3. ASSUME NEW r \in Runs, EngineSteps(r) PROVE NoRunIsLost'
  <2>1. engine[r] = "running" /\ \A q \in Runs : q # r => rows'[q] = rows[q]
    BY <1>3 DEF EngineSteps, EngineOpensRow, WorkerTouchesRow, EngineExits, TypeOK, HistoryTypeOK
  <2>3. executor[r] \notin {"none", "dead"} => jobs[r].status # "ABSENT"
    BY <2>1 DEF RecordInv, EngineInv
  <2>4. \A q \in Runs : RowClosed(q) /\ executor[q] \notin {"none", "dead"}
                        /\ jobs[q].status = "ABSENT" => RowClosed(q)'
    BY <2>1, <2>3 DEF RowClosed
  <2>2. UNCHANGED <<jobs, executor>>
    BY <1>3 DEF EngineSteps, EngineOpensRow, WorkerTouchesRow, EngineExits
  <2> QED BY <1>a, <2>2, <2>4
<1>4. ASSUME NEW c \in Cancellers, NEW r \in Runs, BeginCancel(c, r) PROVE NoRunIsLost'
  BY <1>4, <1>a DEF BeginCancel, historyVars, RowClosed
<1>5. ASSUME NEW c \in Cancellers, Cancel(c) PROVE NoRunIsLost'
  <2>1. cancels[c].run \in Runs
    BY <1>5
      DEF Cancel, DecideCancel, StopProcess, CleanupStorage, MarkHistory, At, TypeOK, CancelCall
  <2>2. CASE DecideCancel(c)
    BY <1>a, <2>1, <2>2, SetsStatus DEF DecideCancel, historyVars, RowClosed
  <2>3. CASE StopProcess(c) \/ CleanupStorage(c)
    BY <1>a, <2>3 DEF StopProcess, CleanupStorage, historyVars, RowClosed
  <2>4. CASE MarkHistory(c)
    <3>1. \A q \in Runs : RowClosed(q) => RowClosed(q)'
      BY <2>1, <2>4, MarkStep DEF MarkHistory, TypeOK
    <3> QED BY <1>a, <2>4, <3>1 DEF MarkHistory
  <2> QED BY <1>5, <2>2, <2>3, <2>4 DEF Cancel
<1>6. CASE SweepHistory BY <1>6, <1>a, SweepingStep DEF SweepHistory, RowClosed, TypeOK
<1>7. CASE Restart BY <1>7 DEF Restart, NoRunIsLost, TypeOK
<1>8. CASE UNCHANGED vars BY <1>8, <1>a DEF vars, RowClosed
<1> QED BY <1>1, <1>2, <1>3, <1>4, <1>5, <1>6, <1>7, <1>8 DEF Next

\* A completed record's engine has exited, and whoever would delete its directory
\* cancelled the run before it could complete.
LEMMA CompletedStep == IInv /\ [Next]_vars => CompletedIsTrue'
<1> SUFFICES ASSUME IInv, [Next]_vars PROVE CompletedIsTrue'
  OBVIOUS
<1> USE DEF IInv, JobStatus, ExecutorSteps
<1>a. ASSUME \A r \in Runs : jobs'[r].status = "COMPLETED" => jobs[r].status = "COMPLETED",
             \A r \in Runs : jobs[r].status = "COMPLETED" /\ engine[r] = "ok" => engine'[r] = "ok",
             \A r \in Runs : jobs[r].status = "COMPLETED" /\ r \in workspace => r \in workspace'
      PROVE  CompletedIsTrue'
  BY <1>a DEF CompletedIsTrue
<1>1. ASSUME NEW r \in Runs, Submit(r) PROVE CompletedIsTrue'
  BY <1>1, <1>a DEF Submit, NoRecord, TypeOK
<1>2. ASSUME NEW r \in Runs, Execute(r) PROVE CompletedIsTrue'
  <2>1. \A q \in Runs : jobs[q].status = "COMPLETED" /\ engine[q] = "ok" => engine'[q] = "ok"
    BY <1>2, Kills
    DEF Execute, StartExecution, MakeWorkDir, PublishWorkDir, WriteConfig, SpawnEngine,
        RegisterProcess, ReapRacedProcess, FinishExecution,
        HandleException, ExecutionTimesOut, KillExpiredProcess, FailTimedOut, HandOver,
        ExecutorGoes, RecordInv, TypeOK
  <2>2. workspace \subseteq workspace'
    BY <1>2
    DEF Execute, StartExecution, MakeWorkDir, PublishWorkDir, WriteConfig, SpawnEngine,
        RegisterProcess, ReapRacedProcess, FinishExecution,
        HandleException, ExecutionTimesOut, KillExpiredProcess, FailTimedOut, HandOver
  <2>3. CASE FinishExecution(r)
    <3>1. CASE SetStatus(r, "COMPLETED") /\ engine[r] = "ok" /\ ResultsReadable(r)
      BY <2>3, <3>1, SetsStatus DEF FinishExecution, CompletedIsTrue, ResultsReadable
    <3>2. CASE SetStatus(r, "FAILED") BY <1>a, <2>1, <2>2, <3>2, SetsStatus
    <3>3. CASE UNCHANGED jobs BY <1>a, <2>1, <2>2, <3>3
    <3> QED BY <2>3, <3>1, <3>2, <3>3 DEF FinishExecution
  <2>4. CASE UNCHANGED jobs BY <1>a, <2>1, <2>2, <2>4
  <2>5. CASE \E s \in {"RUNNING", "FAILED"} : SetStatus(r, s)
    BY <1>a, <2>1, <2>2, <2>5, SetsStatus
  <2>6. CASE \/ jobs' = [jobs EXCEPT ![r].work_dir = TRUE]
             \/ jobs' = [jobs EXCEPT ![r].process = TRUE]
             \/ jobs' = [jobs EXCEPT ![r] = NoRecord]
    <3>1. \A q \in Runs : jobs'[q].status \in {jobs[q].status, "ABSENT"}
      BY <2>6 DEF TypeOK, Record, NoRecord
    <3> QED BY <1>a, <2>1, <2>2, <3>1
  <2> QED
    BY <1>2, <2>3, <2>4, <2>5, <2>6
    DEF Execute, StartExecution, MakeWorkDir, PublishWorkDir, WriteConfig, SpawnEngine,
        RegisterProcess, ReapRacedProcess, HandleException, ExecutionTimesOut,
        KillExpiredProcess, FailTimedOut, HandOver
<1>3. ASSUME NEW r \in Runs, EngineSteps(r) PROVE CompletedIsTrue'
  <2>1. \A q \in Runs : engine[q] = "ok" => engine'[q] = "ok"
    BY <1>3 DEF EngineSteps, EngineOpensRow, WorkerTouchesRow, EngineExits, TypeOK
  <2>2. UNCHANGED <<jobs, workspace>>
    BY <1>3 DEF EngineSteps, EngineOpensRow, WorkerTouchesRow, EngineExits
  <2> QED BY <1>a, <2>1, <2>2
<1>4. ASSUME NEW c \in Cancellers, NEW r \in Runs, BeginCancel(c, r) PROVE CompletedIsTrue'
  BY <1>4, <1>a DEF BeginCancel
<1>5. ASSUME NEW c \in Cancellers, Cancel(c) PROVE CompletedIsTrue'
  <2>1. cancels[c].run \in Runs
    BY <1>5
      DEF Cancel, DecideCancel, StopProcess, CleanupStorage, MarkHistory, At, TypeOK, CancelCall
  <2>2. CASE DecideCancel(c)
    BY <1>a, <2>1, <2>2, SetsStatus DEF DecideCancel
  <2>3. CASE StopProcess(c) BY <1>a, <2>1, <2>3, Kills DEF StopProcess
  <2>4. CASE CleanupStorage(c)
    <3>1. cancels[c].work_dir => jobs[cancels[c].run].status # "COMPLETED"
      BY <2>4 DEF CleanupStorage, At, CallInv
    <3> QED BY <1>a, <2>4, <3>1 DEF CleanupStorage
  <2>5. CASE MarkHistory(c) BY <1>a, <2>5 DEF MarkHistory
  <2> QED BY <1>5, <2>2, <2>3, <2>4, <2>5 DEF Cancel
<1>6. CASE SweepHistory BY <1>6, <1>a DEF SweepHistory
<1>7. CASE Restart BY <1>7 DEF Restart, CompletedIsTrue, NoRecord
<1>8. CASE UNCHANGED vars BY <1>8, <1>a DEF vars
<1> QED BY <1>1, <1>2, <1>3, <1>4, <1>5, <1>6, <1>7, <1>8 DEF Next

\* Nobody starts the process of a run that was past starting it.
LEMMA CleanupStep == IInv /\ [Next]_vars => CleanupAfterDeath'
<1> SUFFICES ASSUME IInv, [Next]_vars PROVE CleanupAfterDeath'
  OBVIOUS
<1> USE DEF IInv, ExecutorSteps, Waited
<1>a. ASSUME UNCHANGED cancels,
             \A r \in Runs : executor[r] \in Waited /\ engine'[r] = "running" => engine[r] = "running"
      PROVE  CleanupAfterDeath'
  <2> SUFFICES ASSUME NEW c \in Cancellers, At(c, "cleanup"), cancels[c].process
               PROVE  engine'[cancels[c].run] # "running"
    BY <1>a DEF CleanupAfterDeath, At
  <2>1. cancels[c].run \in Runs BY DEF At, TypeOK, CancelCall
  <2>2. executor[cancels[c].run] \in Waited /\ engine[cancels[c].run] # "running"
    BY DEF At, CallInv, CleanupAfterDeath
  <2> QED BY <1>a, <2>1, <2>2
<1>1. ASSUME NEW r \in Runs, Submit(r) PROVE CleanupAfterDeath'
  BY <1>1, <1>a DEF Submit
<1>2. ASSUME NEW r \in Runs, Execute(r) PROVE CleanupAfterDeath'
  <2>1. \A q \in Runs : executor[q] \in Waited /\ engine'[q] = "running" => engine[q] = "running"
    BY <1>2, Kills
    DEF Execute, StartExecution, MakeWorkDir, PublishWorkDir, WriteConfig, SpawnEngine,
        RegisterProcess, ReapRacedProcess, FinishExecution,
        HandleException, ExecutionTimesOut, KillExpiredProcess, FailTimedOut, HandOver,
        ExecutorGoes, TypeOK
  <2>2. UNCHANGED cancels
    BY <1>2
    DEF Execute, StartExecution, MakeWorkDir, PublishWorkDir, WriteConfig, SpawnEngine,
        RegisterProcess, ReapRacedProcess, FinishExecution,
        HandleException, ExecutionTimesOut, KillExpiredProcess, FailTimedOut, HandOver
  <2> QED BY <1>a, <2>1, <2>2
<1>3. ASSUME NEW r \in Runs, EngineSteps(r) PROVE CleanupAfterDeath'
  <2>1. \A q \in Runs : engine'[q] = "running" => engine[q] = "running"
    BY <1>3 DEF EngineSteps, EngineOpensRow, WorkerTouchesRow, EngineExits, TypeOK
  <2>2. UNCHANGED cancels
    BY <1>3 DEF EngineSteps, EngineOpensRow, WorkerTouchesRow, EngineExits
  <2> QED BY <1>a, <2>1, <2>2
<1>4. ASSUME NEW c \in Cancellers, NEW r \in Runs, BeginCancel(c, r) PROVE CleanupAfterDeath'
  BY <1>4 DEF BeginCancel, CleanupAfterDeath, At, TypeOK
<1>5. ASSUME NEW c \in Cancellers, Cancel(c) PROVE CleanupAfterDeath'
  <2>1. cancels[c] # Idle /\ cancels[c] \in CancelCall
    BY <1>5 DEF Cancel, DecideCancel, StopProcess, CleanupStorage, MarkHistory, At, TypeOK
  <2>2. cancels[c].run \in Runs BY <2>1 DEF CancelCall
  <2>3. CASE StopProcess(c)
    <3>1. cancels' = [cancels EXCEPT ![c].pc = "cleanup"] BY <2>3 DEF StopProcess, Goto
    <3>2. \A d \in Cancellers : /\ cancels'[d] # Idle => cancels[d] # Idle
                                /\ cancels'[d].run = cancels[d].run
                                /\ cancels'[d].process = cancels[d].process
                                /\ d # c => cancels'[d] = cancels[d]
      BY <2>1, <3>1 DEF TypeOK, CancelCall
    <3>3. \A q \in Runs : engine'[q] = "running" => engine[q] = "running"
      BY <2>2, <2>3, Kills DEF StopProcess
    <3>4. cancels[c].process => engine'[cancels[c].run] # "running"
      BY <2>2, <2>3, Kills DEF StopProcess
    <3>5. ASSUME NEW d \in Cancellers, d # c, At(d, "cleanup")', cancels'[d].process
          PROVE  engine'[cancels'[d].run] # "running"
      <4>1. At(d, "cleanup") /\ cancels[d].process /\ cancels'[d].run = cancels[d].run
        BY <3>2, <3>5 DEF At
      <4>2. cancels[d].run \in Runs BY <4>1 DEF At, TypeOK, CancelCall
      <4> QED BY <3>3, <4>1, <4>2 DEF CleanupAfterDeath
    <3> QED BY <3>2, <3>4, <3>5 DEF CleanupAfterDeath
  <2>4. CASE DecideCancel(c) \/ CleanupStorage(c) \/ MarkHistory(c)
    BY <2>1, <2>4
    DEF DecideCancel, CleanupStorage, MarkHistory, Goto, CleanupAfterDeath, At, TypeOK, CancelCall
  <2> QED BY <1>5, <2>3, <2>4 DEF Cancel
<1>6. CASE SweepHistory BY <1>6, <1>a DEF SweepHistory
<1>7. CASE Restart BY <1>7 DEF Restart, CleanupAfterDeath, At
<1>8. CASE UNCHANGED vars BY <1>8, <1>a DEF vars
<1> QED BY <1>1, <1>2, <1>3, <1>4, <1>5, <1>6, <1>7, <1>8 DEF Next
--------------------------------------------------------------------------------
LEMMA InitInductive == Init => IInv
<1> SUFFICES ASSUME Init PROVE IInv
  OBVIOUS
<1>1. TypeOK
  BY NoListingType
  DEF Init, TypeOK, HistoryInit, HistoryTypeOK, MLflowStatuses, Record, NoRecord, ExecutorSteps,
      EngineStates
<1>2. RecordInv BY DEF Init, RecordInv, NoRecord
<1>3. EngineInv /\ CallInv /\ CleanupAfterDeath
  BY DEF Init, EngineInv, CallInv, CleanupAfterDeath, At
<1>4. NoRunIsLost /\ CompletedIsTrue BY DEF Init, NoRunIsLost, CompletedIsTrue, NoRecord
<1> QED BY <1>1, <1>2, <1>3, <1>4 DEF IInv

THEOREM Inductive == Spec => []IInv
<1>1. IInv /\ [Next]_vars => IInv'
  BY TypingStep, RecordStep, EngineStep, CallStep, NotLostStep, CompletedStep, CleanupStep DEF IInv
<1> QED BY InitInductive, <1>1, PTL DEF Spec

\* LocalPipelineRunner's records, threads and cancellations keep their types, for
\* any number of runs and request threads.
THEOREM TypeInvariant == Spec => []TypeOK
<1>1. IInv => TypeOK BY DEF IInv
<1> QED BY Inductive, <1>1, PTL

\* _hand_over_to_history(): while the backend lives, a submitted run is in memory or
\* its row in MLflow is closed, whatever the tracking server does.
THEOREM NothingIsLost == Spec => []NoRunIsLost
<1>1. IInv => NoRunIsLost BY DEF IInv
<1> QED BY Inductive, <1>1, PTL

\* _execute() against cancel(): a record says COMPLETED only of an engine that exited
\* 0 in a work directory that is still there, however the cancellations interleave.
THEOREM CompletedMeansIt == Spec => []CompletedIsTrue
<1>1. IInv => CompletedIsTrue BY DEF IInv
<1> QED BY Inductive, <1>1, PTL

\* cancel(): a process it knew of is dead before its storage is deleted.
THEOREM DeathBeforeCleanup == Spec => []CleanupAfterDeath
<1>1. IInv => CleanupAfterDeath BY DEF IInv
<1> QED BY Inductive, <1>1, PTL

\* _execute() against cancel(): a cancellation that had the process in hand is never
\* overwritten by the engine's exit code, only by the FAILED of an except branch the
\* thread was already in, for any runs, request threads and faults.
THEOREM CancellationSticks == Spec => CancelWithProcessSticks
<1> DEFINE Kept(r) ==
      jobs[r].status = "CANCELLED" /\ jobs[r].process =>
         \/ jobs'[r].status \in {"CANCELLED", "ABSENT"}
         \/ (executor[r] \in {"timedout", "handler"} /\ jobs'[r].status = "FAILED")
<1>1. ASSUME IInv, [Next]_vars, NEW q \in Runs PROVE Kept(q)
  <2> USE <1>1 DEF IInv, JobStatus, ExecutorSteps
  <2> SUFFICES ASSUME jobs[q].status = "CANCELLED", jobs[q].process PROVE Kept(q)
    OBVIOUS
  <2>w. executor[q] \in Waited BY DEF RecordInv
  <2>a. CASE UNCHANGED jobs BY <2>a
  <2>1. ASSUME NEW r \in Runs, Submit(r) PROVE Kept(q)
    BY <2>1, <2>w DEF Submit, ExecutorGoes, Waited, TypeOK
  <2>2. ASSUME NEW r \in Runs, StartExecution(r) PROVE Kept(q)
    <3>1. r # q BY <2>2, <2>w DEF StartExecution, ExecutorGoes, Waited
    <3> QED BY <2>2, <3>1, SetsStatus DEF StartExecution
  <2>3. ASSUME NEW r \in Runs,
               \/ MakeWorkDir(r) \/ WriteConfig(r) \/ SpawnEngine(r) \/ ReapRacedProcess(r)
               \/ ExecutionTimesOut(r) \/ KillExpiredProcess(r)
        PROVE  Kept(q)
    BY <2>3, <2>a
    DEF MakeWorkDir, WriteConfig, SpawnEngine, ReapRacedProcess, ExecutionTimesOut,
        KillExpiredProcess
  <2>4. ASSUME NEW r \in Runs, PublishWorkDir(r) \/ RegisterProcess(r) \/ HandOver(r) PROVE Kept(q)
    <3>1. jobs'[q].status \in {jobs[q].status, "ABSENT"}
      BY <2>4 DEF PublishWorkDir, RegisterProcess, HandOver, TypeOK, Record, NoRecord
    <3> QED BY <3>1
  <2>5. ASSUME NEW r \in Runs, FinishExecution(r) PROVE Kept(q)
    BY <2>5, SetsStatus DEF FinishExecution
  <2>6. ASSUME NEW r \in Runs, HandleException(r) \/ FailTimedOut(r) PROVE Kept(q)
    BY <2>6, SetsStatus DEF HandleException, FailTimedOut, ExecutorGoes
  <2>7. ASSUME NEW r \in Runs, EngineSteps(r) \/ \E c \in Cancellers : BeginCancel(c, r)
        PROVE  Kept(q)
    BY <2>7, <2>a DEF EngineSteps, EngineOpensRow, WorkerTouchesRow, EngineExits, BeginCancel
  <2>8. ASSUME NEW c \in Cancellers, Cancel(c) PROVE Kept(q)
    <3>1. cancels[c].run \in Runs
      BY <2>8
        DEF Cancel, DecideCancel, StopProcess, CleanupStorage, MarkHistory, At, TypeOK, CancelCall
    <3>2. CASE DecideCancel(c) BY <2>a, <3>1, <3>2, SetsStatus DEF DecideCancel
    <3>3. CASE StopProcess(c) \/ CleanupStorage(c) \/ MarkHistory(c)
      BY <2>a, <3>3 DEF StopProcess, CleanupStorage, MarkHistory
    <3> QED BY <2>8, <3>2, <3>3 DEF Cancel
  <2>9. CASE SweepHistory \/ UNCHANGED vars BY <2>a, <2>9 DEF SweepHistory, vars
  <2>10. CASE Restart BY <2>10 DEF Restart, NoRecord
  <2> QED
    BY <2>1, <2>2, <2>3, <2>4, <2>5, <2>6, <2>7, <2>8, <2>9, <2>10 DEF Next, Execute
<1>2. IInv /\ [Next]_vars => [\A r \in Runs : Kept(r)]_vars BY <1>1
<1> QED BY Inductive, <1>2, PTL DEF Spec, CancelWithProcessSticks
================================================================================
