--------------------- MODULE StagedPipelineTracking_proofs ---------------------
(***************************************************************************)
(* What a StagedPipeline is seen to do, proved for any series, compute,    *)
(* entries, faults and number of retries: the MLflow run tells how it      *)
(* ended, and the deployments page of DeploymentView how far it is.        *)
(***************************************************************************)
EXTENDS StagedPipeline_proofs, DeploymentView

RetryInv ==
  /\ task.retries \in Nat
  /\ task.pc = "failed" => task.phase <= LastPhase

LEMMA RetryStep == ASSUME PlaceInv, RetryInv, Step PROVE RetryInv'
<1> USE DEF PlaceInv, RetryInv
<1>1. LastPhase = 8 BY PhasesAre
<1>2. CASE task'.pc # "failed"
  <2>1. task'.retries \in Nat
    <3>1. CASE StartFirstTask \/ StartTask \/ LoadFails
      BY <3>1 DEF StartFirstTask, StartTask, LoadFails
    <3>2. CASE BeginStage \/ KeyTask BY <3>2 DEF BeginStage, KeyTask
    <3>3. CASE CompleteStage \/ CompleteKeyStage \/ TrackRun
      BY <3>3 DEF CompleteStage, CompleteKeyStage, TrackRun, Goes
    <3>4. CASE FailStage \/ EndPhase BY <3>4 DEF FailStage, EndPhase, Goes
    <3>5. CASE NextPhase BY <3>5 DEF NextPhase
    <3>6. CASE SaveCheckpoint BY <3>6 DEF SaveCheckpoint
    <3>7. CASE Leave BY <3>7 DEF Leave
    <3>8. CASE Crash BY <3>8 DEF Crash
    <3>9. CASE Retry
      <4>1. task'.retries = task.retries + 1 BY <3>9 DEF Retry
      <4> QED BY <4>1
    <3> QED BY <3>1, <3>2, <3>3, <3>4, <3>5, <3>6, <3>7, <3>8, <3>9 DEF Step
  <2> QED BY <1>2, <2>1
<1>3. CASE task'.pc = "failed"
  <2>1. LoadFails \/ Leave \/ Crash
    BY <1>3 DEF Step, StartFirstTask, StartTask, BeginStage, KeyTask, CompleteStage,
       CompleteKeyStage, TrackRun, FailStage, NextPhase, EndPhase, SaveCheckpoint, Retry, Goes
  <2>2. CASE LoadFails BY <1>1, <2>2 DEF LoadFails
  <2>3. CASE Leave BY <1>1, <1>3, <2>3 DEF Leave
  <2>4. CASE Crash BY <1>1, <2>4 DEF Crash
  <2> QED BY <2>1, <2>2, <2>3, <2>4
<1> QED BY <1>2, <1>3
(* The trail. *)

TrailOK(trail) ==
  /\ trail \in Seq(Range(trail))
  /\ \A i \in 1 .. Len(trail) : {"stage", "status"} \subseteq DOMAIN trail[i]

Clean(trail) == \A i \in 1 .. Len(trail) : trail[i].status # "Failed"

\* The stage under way is the last on the trail; nothing on it has failed while no
\* task was started again.
TrailInv ==
  /\ {"trail", "tracking", "reports"} \subseteq DOMAIN context /\ TrailOK(context.trail)
  /\ {"trail", "tracking", "reports"} \subseteq DOMAIN checkpoint.context
  /\ TrailOK(checkpoint.context.trail)
  /\ task.pc = "inside" =>
       context.trail # <<>> /\ context.trail[Len(context.trail)].stage = Stage
  /\ task.retries = 0 =>
       /\ task.pc \in {"between", "inside"} \/ (task.pc = "saving" /\ task.why = "none") =>
            Clean(context.trail)
       /\ entry = "workflow" /\ task.phase \in 2 .. LastPhase /\ task.pc = "waiting" =>
            Clean(checkpoint.context.trail)
       /\ entry = "workflow" /\ task.pc = "leaving" /\ task.why = "none" =>
            Clean(checkpoint.context.trail)

LEMMA OwnRange == ASSUME NEW S, NEW s \in Seq(S) PROVE s \in Seq(Range(s))
<1>1. s \in [1 .. Len(s) -> Range(s)] /\ Len(s) \in Nat BY DEF Range
<1> QED BY <1>1

LEMMA EmptyTrail == TrailOK(<<>>) /\ Clean(<<>>)
<1>1. <<>> \in Seq({}) OBVIOUS
<1> QED BY <1>1, OwnRange DEF TrailOK, Clean

LEMMA LongerTrail ==
  ASSUME NEW trail, TrailOK(trail), NEW rec, {"stage", "status"} \subseteq DOMAIN rec,
         rec.status # "Failed"
  PROVE  /\ TrailOK(Append(trail, rec)) /\ Append(trail, rec) # <<>>
         /\ Append(trail, rec)[Len(Append(trail, rec))] = rec
         /\ Clean(trail) => Clean(Append(trail, rec))
<1> DEFINE S == Range(trail) \cup {rec}
           new == Append(trail, rec)
<1>1. trail \in Seq(S) /\ rec \in S BY DEF TrailOK
<1>2. /\ new \in Seq(S) /\ Len(new) = Len(trail) + 1 /\ Len(trail) \in Nat
      /\ \A i \in 1 .. Len(trail) : new[i] = trail[i]
      /\ new[Len(trail) + 1] = rec
  BY <1>1
<1>3. new \in Seq(Range(new)) BY <1>2, OwnRange
<1> HIDE DEF new, S
<1>4. TrailOK(new) BY <1>2, <1>3 DEF TrailOK
<1>5. Clean(trail) => Clean(new) BY <1>2 DEF Clean
<1>6. new # <<>>
  <2>1. Len(<<>>) = 0 OBVIOUS
  <2> QED BY <1>2, <2>1
<1> QED BY <1>2, <1>4, <1>5, <1>6 DEF new

\* Another last record about the same stage.
LEMMA OtherLast ==
  ASSUME NEW trail, TrailOK(trail), trail # <<>>, NEW rec,
         {"stage", "status"} \subseteq DOMAIN rec, rec.stage = trail[Len(trail)].stage
  PROVE  LET new == [trail EXCEPT ![Len(trail)] = rec]
         IN  /\ TrailOK(new) /\ new # <<>> /\ Len(new) = Len(trail) /\ new[Len(new)] = rec
             /\ Clean(trail) /\ rec.status # "Failed" => Clean(new)
             /\ \A i \in 1 .. Len(trail) : i # Len(trail) => new[i] = trail[i]
<1> DEFINE S == Range(trail) \cup {rec}
           n == Len(trail)
           new == [trail EXCEPT ![n] = rec]
<1>1. trail \in Seq(S) /\ rec \in S BY DEF TrailOK
<1>2. n \in Nat /\ n > 0 BY <1>1
<1>3. /\ new \in Seq(S) /\ Len(new) = n /\ new[n] = rec
      /\ \A i \in 1 .. n : i # n => new[i] = trail[i]
  BY <1>1, <1>2
<1>4. new \in Seq(Range(new)) BY <1>3, OwnRange
<1> HIDE DEF new, S, n
<1>5. TrailOK(new)
  <2>1. \A i \in 1 .. n : {"stage", "status"} \subseteq DOMAIN new[i] BY <1>3 DEF TrailOK, n
  <2> QED BY <1>3, <1>4, <2>1 DEF TrailOK
<1>6. Clean(trail) /\ rec.status # "Failed" => Clean(new) BY <1>3 DEF Clean, n
<1>7. new # <<>>
  <2>1. Len(<<>>) = 0 OBVIOUS
  <2> QED BY <1>2, <1>3, <2>1
<1> QED BY <1>3, <1>5, <1>6, <1>7 DEF new, n

\* The last record with another status or other counts.
LEMMA LastUpdated ==
  ASSUME NEW trail, TrailOK(trail), trail # <<>>, NEW field \in {"status", "tasks"}, NEW v,
         field = "status" => v # "Failed"
  PROVE  LET n == Len(trail)
             new == [trail EXCEPT ![n] = [trail[n] EXCEPT ![field] = v]]
         IN  /\ TrailOK(new) /\ new # <<>> /\ Len(new) = n
             /\ new[n].stage = trail[n].stage
             /\ Clean(trail) => Clean(new)
<1> DEFINE n == Len(trail)
           rec == [trail[n] EXCEPT ![field] = v]
<1>1. n \in Nat /\ n > 0 BY DEF TrailOK
<1>2. {"stage", "status"} \subseteq DOMAIN trail[n] BY <1>1 DEF TrailOK
<1>3. {"stage", "status"} \subseteq DOMAIN rec /\ rec.stage = trail[n].stage BY <1>2
<1>4. Clean(trail) => rec.status # "Failed"
  <2>1. Clean(trail) => trail[n].status # "Failed" BY <1>1 DEF Clean
  <2> QED BY <1>2, <2>1
<1> HIDE DEF rec
<1> QED BY <1>3, <1>4, OtherLast DEF rec

LEMMA NewContextsHaveTrails ==
  /\ \A row : /\ {"trail", "tracking", "reports"} \subseteq DOMAIN NewContext(row)
              /\ NewContext(row).trail = <<>> /\ NewContext(row).tracking = row
  /\ {"trail", "tracking", "reports"} \subseteq DOMAIN NoContext /\ NoContext.trail = <<>>
  BY DEF NewContext, NoContext

TrackingInv == OutputInv /\ RetryInv /\ TrailInv

LEMMA TrailStep == ASSUME TrackingInv, Step, UNCHANGED plan PROVE TrailInv'
<1> USE DEF TrackingInv, OutputInv, PlaceInv, RetryInv, TrailInv, plan
<1>1. LastPhase = 8 BY PhasesAre
<1>2. CASE StartFirstTask
  <2>1. PICK row \in {0, Len(rows) + 1} : context' = NewContext(row)
    BY <1>2 DEF StartFirstTask
  <2>2. {"trail", "tracking", "reports"} \subseteq DOMAIN context' /\ context'.trail = <<>>
    BY <2>1, NewContextsHaveTrails
  <2>3. UNCHANGED checkpoint /\ task' = [task EXCEPT !.pc = "between", !.step = 0]
    BY <1>2 DEF StartFirstTask
  <2> QED BY <2>2, <2>3, EmptyTrail
<1>3. CASE StartTask
  <2>1. entry = "workflow" /\ task.pc = "waiting" /\ task.phase \in 2 .. LastPhase
    BY <1>1, <1>3 DEF StartTask
  <2>2. /\ context' = checkpoint.context /\ UNCHANGED checkpoint
        /\ task' = [task EXCEPT !.pc = "between", !.step = 0]
    BY <1>3 DEF StartTask
  <2> QED BY <2>1, <2>2
<1>4. CASE LoadFails BY <1>4 DEF LoadFails
<1>5. CASE BeginStage
  <2> DEFINE s == Phases[task.phase][task.step + 1]
             rec == [stage |-> s, status |-> "Running", tasks |-> NoTelemetry]
  <2>1. /\ context' = [context EXCEPT !.trail = Append(@, rec)] /\ UNCHANGED checkpoint
        /\ task.pc = "between" /\ task' = [task EXCEPT !.pc = "inside", !.step = @ + 1]
    BY <1>5 DEF BeginStage
  <2>2. context'.trail = Append(context.trail, rec)
        /\ {"trail", "tracking", "reports"} \subseteq DOMAIN context'
    BY <2>1
  <2>3. Stage' = s BY <2>1 DEF Stage
  <2>4. {"stage", "status"} \subseteq DOMAIN rec /\ rec.status # "Failed" /\ rec.stage = s
    OBVIOUS
  <2>5. task'.pc = "inside" /\ task'.retries = task.retries BY <2>1
  <2> HIDE DEF rec, s
  <2>6. /\ TrailOK(context'.trail) /\ context'.trail # <<>>
        /\ context'.trail[Len(context'.trail)] = rec
        /\ Clean(context.trail) => Clean(context'.trail)
    BY <2>2, <2>4, LongerTrail
  <2> QED BY <2>1, <2>2, <2>3, <2>4, <2>5, <2>6
<1>6. CASE KeyTask
  <2> DEFINE n == Len(context.trail)
             new == [context.trail EXCEPT
                       ![n] = [context.trail[n] EXCEPT !["tasks"] = Telemetry(wave')]]
  <2>1. context' = [context EXCEPT !.trail[n].tasks = Telemetry(wave')] /\ task.pc = "inside"
        /\ UNCHANGED <<task, checkpoint>>
    BY <1>6 DEF KeyTask
  <2>2. context'.trail = new /\ {"trail", "tracking", "reports"} \subseteq DOMAIN context' BY <2>1
  <2>3. context.trail # <<>> /\ context.trail[n].stage = Stage BY <2>1
  <2>4. /\ TrailOK(new) /\ new # <<>> /\ Len(new) = n /\ new[n].stage = context.trail[n].stage
        /\ Clean(context.trail) => Clean(new)
    BY <2>3, LastUpdated
  <2>5. Stage' = Stage BY <2>1 DEF Stage
  <2> HIDE DEF new, n
  <2> QED BY <2>1, <2>2, <2>3, <2>4, <2>5 DEF n
<1>a. ASSUME task.pc = "inside"
      PROVE  /\ TrailOK(Recorded("Completed")) /\ Recorded("Completed") # <<>>
             /\ Len(Recorded("Completed")) = Len(context.trail)
             /\ Clean(context.trail) => Clean(Recorded("Completed"))
  <2> DEFINE n == Len(context.trail)
             new == [context.trail EXCEPT
                       ![n] = [context.trail[n] EXCEPT !["status"] = "Completed"]]
  <2>1. Recorded("Completed") = new BY DEF Recorded
  <2>2. context.trail # <<>> BY <1>a
  <2>3. /\ TrailOK(new) /\ new # <<>> /\ Len(new) = n
        /\ Clean(context.trail) => Clean(new)
    BY <2>2, LastUpdated
  <2> QED BY <2>1, <2>3
<1>b. ASSUME task.pc = "inside", task' = [task EXCEPT !.pc = "between"], UNCHANGED checkpoint,
             {"trail", "tracking", "reports"} \subseteq DOMAIN context', TrailOK(context'.trail),
             Clean(context.trail) => Clean(context'.trail)
      PROVE  TrailInv'
  BY <1>b
<1>7. CASE CompleteStage
  <2>1. task.pc = "inside" /\ task' = [task EXCEPT !.pc = "between"] /\ UNCHANGED checkpoint
        /\ context'.trail = Recorded("Completed")
        /\ {"trail", "tracking", "reports"} \subseteq DOMAIN context'
    BY <1>7 DEF CompleteStage, Goes
  <2> QED BY <1>a, <1>b, <2>1
<1>8. CASE CompleteKeyStage
  <2> DEFINE t == Recorded("Completed")
             n == Len(t)
             new == [t EXCEPT ![n] = [t[n] EXCEPT !["tasks"] = Telemetry(wave)]]
  <2>1. task.pc = "inside" /\ task' = [task EXCEPT !.pc = "between"] /\ UNCHANGED checkpoint
        /\ context'.trail = [t EXCEPT ![Len(context.trail)].tasks = Telemetry(wave)]
        /\ {"trail", "tracking", "reports"} \subseteq DOMAIN context'
    BY <1>8 DEF CompleteKeyStage, Goes
  <2>2. /\ TrailOK(t) /\ t # <<>> /\ n = Len(context.trail)
        /\ Clean(context.trail) => Clean(t)
    BY <1>a, <2>1
  <2>3. context'.trail = new BY <2>1, <2>2
  <2>4. Clean(t) => Clean(new)
    <3> HIDE DEF t
    <3> QED BY <2>2, LastUpdated
  <2>5. TrailOK(new)
    <3> HIDE DEF t
    <3> QED BY <2>2, LastUpdated
  <2> HIDE DEF new, t
  <2> QED BY <1>a, <1>b, <2>1, <2>2, <2>3, <2>4, <2>5 DEF t
<1>9. CASE TrackRun
  <2>1. task.pc = "inside" /\ task' = [task EXCEPT !.pc = "between"] /\ UNCHANGED checkpoint
        /\ context'.trail = Recorded("Completed")
        /\ {"trail", "tracking", "reports"} \subseteq DOMAIN context'
    BY <1>9 DEF TrackRun, Goes
  <2> QED BY <1>a, <1>b, <2>1
<1>10. CASE FailStage
  <2>1. task.pc = "inside" /\ UNCHANGED checkpoint /\ task'.why = "stage"
        /\ task'.pc \in {"saving", "leaving"} /\ task'.phase = task.phase
    BY <1>10 DEF FailStage
  <2>2. PICK trail \in {Recorded("Failed"), context.trail} : FailTracking(trail)
    BY <1>10 DEF FailStage
  <2>3. context'.trail = trail /\ {"trail", "tracking", "reports"} \subseteq DOMAIN context'
    BY <2>2 DEF FailTracking
  <2>4. TrailOK(Recorded("Failed"))
    <3> DEFINE n == Len(context.trail)
               rec == [context.trail[n] EXCEPT !.status = "Failed"]
    <3>1. context.trail # <<>> BY <2>1
    <3>2. n \in Nat /\ n > 0 BY <3>1 DEF TrailOK
    <3>3. {"stage", "status"} \subseteq DOMAIN context.trail[n] BY <3>2 DEF TrailOK
    <3>4. {"stage", "status"} \subseteq DOMAIN rec /\ rec.stage = context.trail[n].stage BY <3>3
    <3>5. Recorded("Failed") = [context.trail EXCEPT ![n] = rec] BY DEF Recorded
    <3> HIDE DEF rec
    <3> QED BY <3>1, <3>4, <3>5, OtherLast
  <2> QED BY <2>1, <2>2, <2>3, <2>4
<1>11. CASE NextPhase
  <2>1. UNCHANGED <<context, checkpoint>> /\ entry # "workflow" /\ task.pc = "between"
    BY <1>11 DEF NextPhase
  <2>2. task'.pc \in {"between", "leaving"} /\ task'.retries = task.retries
    BY <1>11 DEF NextPhase
  <2> QED BY <2>1, <2>2
<1>12. CASE EndPhase BY <1>12 DEF EndPhase, Goes
<1>13. CASE SaveCheckpoint
  <2>1. task.pc = "saving" /\ UNCHANGED context /\ task'.pc = "leaving"
        /\ task'.retries = task.retries
    BY <1>13 DEF SaveCheckpoint
  <2>2. CASE /\ checkpoint' = [context |-> context, snapshot |-> executor]
             /\ task' = [task EXCEPT !.pc = "leaving"]
    <3>1. checkpoint'.context = context /\ task'.why = task.why BY <2>2
    <3> QED BY <2>1, <3>1
  <2>3. CASE /\ UNCHANGED checkpoint
             /\ task' = [task EXCEPT !.pc = "leaving",
                                     !.why = IF @ = "none" THEN "storage" ELSE @]
    <3>1. task'.why # "none" BY <2>3
    <3> QED BY <2>1, <2>3, <3>1
  <2> QED BY <1>13, <2>2, <2>3 DEF SaveCheckpoint
<1>14. CASE Leave
  <2>1. context' = NoContext /\ UNCHANGED checkpoint /\ task.pc = "leaving"
        /\ task'.retries = task.retries
    BY <1>14 DEF Leave, ProcessEnds
  <2>2. \/ task'.pc = "failed"
        \/ task.why = "none" /\ task'.pc = "waiting"
    BY <1>14 DEF Leave
  <2> QED BY <2>1, <2>2, NewContextsHaveTrails, EmptyTrail
<1>15. CASE Crash
  <2>1. context' = NoContext /\ UNCHANGED checkpoint /\ task'.pc = "failed"
    BY <1>15 DEF Crash, ProcessEnds
  <2> QED BY <2>1, NewContextsHaveTrails, EmptyTrail
<1>16. CASE Retry
  <2>1. UNCHANGED <<context, checkpoint>> /\ task'.pc = "waiting"
        /\ task'.retries = task.retries + 1
    BY <1>16 DEF Retry
  <2> QED BY <2>1
<1> QED
  BY <1>2, <1>3, <1>4, <1>5, <1>6, <1>7, <1>8, <1>9, <1>10, <1>11, <1>12, <1>13, <1>14,
     <1>15, <1>16 DEF Step
--------------------------------------------------------------------------------
(* The MLflow runs. *)

RowsOK(r) == r \in Seq(Range(r)) /\ \A i \in 1 .. Len(r) : DOMAIN r[i] = DOMAIN NewRow

LastRow == rows[Len(rows)]

\* The tracking stage is over, and nothing failed since.
Tracked ==
  \/ task.pc = "between" /\ task.phase = 8 /\ task.step = 2
  \/ task.pc \in {"saving", "leaving"} /\ task.phase = 8 /\ task.why = "none"
  \/ Over

LEMMA TrackKeepsExecutor ==
  ASSUME WaveInv, TrackRun PROVE UNCHANGED executor
<1>1. Stage = "MLflow Tracking" /\ Stage \notin KeyStages BY DEF TrackRun, KeyStages
<1>2. CASE wave = NoWave BY <1>2 DEF TrackRun, keyVars
<1>3. CASE wave # NoWave
  <2>1. wave.stage = Publishing /\ CloseStage BY <1>1, <1>3 DEF TrackRun, WaveInv
  <2> QED BY <2>1 DEF CloseStage
<1> QED BY <1>2, <1>3

\* In one process the executor stays until the run is over.
BundleInv ==
  entry = "bundle" /\ task.phase \in 7 .. 8
    /\ (task.pc \in {"between", "inside"} \/ (task.pc = "leaving" /\ task.why = "none"))
  => executor # NoExecutor

LEMMA BundleStep == ASSUME KeyInv, BundleInv, Step, UNCHANGED plan PROVE BundleInv'
<1> USE DEF KeyInv, OutputInv, PlaceInv, plan
<1> SUFFICES ASSUME entry = "bundle", task'.phase \in 7 .. 8,
                    \/ task'.pc \in {"between", "inside"}
                    \/ task'.pc = "leaving" /\ task'.why = "none"
             PROVE  executor' # NoExecutor
  BY DEF BundleInv
<1>1. LastPhase = 8 /\ \A p \in 1 .. 8 : Len(Phases[p]) \in Nat BY PhasesAre
<1>2. CASE StartFirstTask
  <2>1. task'.phase = 1 BY <1>2 DEF StartFirstTask
  <2> QED BY <2>1
<1>3. CASE StartTask \/ LoadFails \/ Leave \/ Crash \/ Retry \/ EndPhase \/ SaveCheckpoint
  <2>1. task'.pc \notin {"between", "inside", "leaving"} \/ entry = "workflow"
        \/ (task.pc = "waiting" /\ task.phase \in 2 .. 8)
    BY <1>1, <1>3 DEF StartTask, LoadFails, Leave, Crash, Retry, EndPhase, SaveCheckpoint, Goes
  <2> QED BY <1>1, <2>1
<1>4. CASE BeginStage
  <2>1. task.pc = "between" /\ task'.phase = task.phase BY <1>4 DEF BeginStage
  <2>2. executor # NoExecutor BY <2>1 DEF BundleInv
  <2> QED BY <1>4, <2>2 DEF BeginStage, SubmitKeys, keyVars
<1>5. CASE KeyTask
  <2>1. task' = task /\ task.pc = "inside" BY <1>5 DEF KeyTask
  <2>2. executor # NoExecutor BY <2>1 DEF BundleInv
  <2>3. Live(executor) BY <2>2 DEF ExecutorInv
  <2>4. PICK k \in Keys : CollectKey(k) \/ DropKey(k) BY <1>5 DEF KeyTask
  <2>5. CASE executor' = executor BY <2>2, <2>5
  <2>6. CASE executor' = [executor EXCEPT !.active = @ \ {k}, !.failures = @ \cup {k}]
    <3>1. executor'.mode = executor.mode BY <2>3, <2>6 DEF Live
    <3> QED BY <2>3, <3>1 DEF Live, NoExecutor
  <2> QED BY <2>4, <2>5, <2>6 DEF CollectKey, DropKey
<1>6. CASE CompleteStage
  <2>1. task.pc = "inside" /\ task'.phase = task.phase /\ UNCHANGED executor
    BY <1>6 DEF CompleteStage, Goes, keyVars
  <2> QED BY <2>1 DEF BundleInv
<1>7. CASE CompleteKeyStage
  <2>1. task.pc = "inside" /\ task'.phase = task.phase /\ Stage \in KeyStages
    BY <1>7 DEF CompleteKeyStage, Goes
  <2>2. task.phase \in 3 .. 6 BY <2>1, StageIsAt
  <2> QED BY <2>1, <2>2
<1>8. CASE TrackRun
  <2>1. task.pc = "inside" /\ task'.phase = task.phase /\ Stage = "MLflow Tracking"
    BY <1>8 DEF TrackRun, Goes
  <2>2. UNCHANGED executor BY <1>8, <2>1, TrackKeepsExecutor
  <2> QED BY <2>1, <2>2 DEF BundleInv
<1>9. CASE FailStage
  <2>1. task'.why = "stage" /\ task'.pc \in {"saving", "leaving"} BY <1>9 DEF FailStage
  <2> QED BY <2>1
<1>10. CASE NextPhase
  <2>1. /\ UNCHANGED executor /\ task.pc = "between" /\ task.phase \in 1 .. 8
        /\ task.step = Len(Phases[task.phase])
        /\ task' = IF task.phase < 8 THEN [task EXCEPT !.phase = @ + 1, !.step = 0]
                   ELSE [task EXCEPT !.pc = "leaving"]
    BY <1>1, <1>10 DEF NextPhase, keyVars
  <2>2. task.phase \in 6 .. 8 BY <2>1
  <2>3. CASE task.phase = 6 BY <2>1, <2>3 DEF ExecutorInv
  <2>4. CASE task.phase \in 7 .. 8 BY <2>1, <2>4 DEF BundleInv
  <2> QED BY <2>2, <2>3, <2>4
<1> QED BY <1>2, <1>3, <1>4, <1>5, <1>6, <1>7, <1>8, <1>9, <1>10 DEF Step

LEMMA BundlesInductive == Spec => []BundleInv
<1>1. Init => BundleInv BY DEF Init, BundleInv
<1>2. KeyInv /\ BundleInv /\ [Next]_vars => BundleInv'
  <2>1. ASSUME KeyInv, BundleInv, Next PROVE BundleInv' BY <2>1, BundleStep DEF Next
  <2>2. ASSUME BundleInv, UNCHANGED vars PROVE BundleInv'
    BY <2>2 DEF BundleInv, vars, plan, keyVars
  <2> QED BY <2>1, <2>2
<1> QED BY KeysInductive, <1>1, <1>2, PTL DEF Spec

\* A tracked run may be closed FAILED, as long as its process knows of one winner only
\* and has no executor; what a workflow's task knows its checkpoint then says.
Alone ==
  /\ task.phase = 8 => PublishesAlone
  /\ Over => entry # "bundle"
  /\ entry = "workflow" /\ (task.pc = "leaving" \/ Over) => SingleWinner(checkpoint.context)

Told == LastRow.status = "FINISHED" /\ LastRow.summary

\* While the tracking server answers, the context and the checkpoint carry the last
\* run's id, which is open until the run is tracked or fails, and closed accordingly.
RowInv ==
  ~untracked =>
    /\ RowsOK(rows)
    /\ task.pc \in {"between", "inside", "saving", "leaving"} =>
         context.tracking = Len(rows) /\ Len(rows) > 0
    /\ /\ entry = "workflow"
       /\ task.phase \in 2 .. 8 \/ (task.pc = "leaving" /\ task.why = "none")
       =>
         checkpoint.context.tracking = Len(rows) /\ Len(rows) > 0
    /\ task.pc \in {"between", "inside"} => open \/ Tracked
    /\ Tracked => ~open /\ (Told \/ (LastRow.status = "FAILED" /\ Alone))
    /\ task.why = "stage" => ~open /\ LastRow.status = "FAILED"
    /\ task.pc = "saving" /\ task.why = "stage" /\ task.retries = 0 =>
         LastRow.failed_stage = Stage

LEMMA NewRowIs == DOMAIN NewRow = {"status", "failed_stage", "summary"}
  BY DEF NewRow

LEMMA RowAdded ==
  ASSUME NEW r, RowsOK(r)
  PROVE  RowsOK(Append(r, NewRow)) /\ Len(Append(r, NewRow)) = Len(r) + 1 /\ Len(r) \in Nat
<1> DEFINE S == Range(r) \cup {NewRow}
           new == Append(r, NewRow)
<1>1. r \in Seq(S) /\ NewRow \in S BY DEF RowsOK
<1>2. /\ new \in Seq(S) /\ Len(new) = Len(r) + 1 /\ Len(r) \in Nat
      /\ \A i \in 1 .. Len(r) : new[i] = r[i]
      /\ new[Len(r) + 1] = NewRow
  BY <1>1
<1>3. new \in Seq(Range(new)) BY <1>2, OwnRange
<1> HIDE DEF new, S
<1>4. RowsOK(new) BY <1>2, <1>3 DEF RowsOK
<1> QED BY <1>2, <1>4 DEF new

LEMMA LastRowSet ==
  ASSUME NEW r, RowsOK(r), Len(r) > 0, NEW rec, DOMAIN rec = DOMAIN NewRow
  PROVE  LET new == [r EXCEPT ![Len(r)] = rec]
         IN  RowsOK(new) /\ Len(new) = Len(r) /\ new[Len(new)] = rec
<1> DEFINE S == Range(r) \cup {rec}
           n == Len(r)
           new == [r EXCEPT ![n] = rec]
<1>1. r \in Seq(S) /\ rec \in S BY DEF RowsOK
<1>2. n \in Nat /\ n > 0 BY <1>1
<1>3. /\ new \in Seq(S) /\ Len(new) = n /\ new[n] = rec
      /\ \A i \in 1 .. n : i # n => new[i] = r[i]
  BY <1>1, <1>2
<1>4. new \in Seq(Range(new)) BY <1>3, OwnRange
<1> HIDE DEF new, S, n
<1>5. \A i \in 1 .. n : DOMAIN new[i] = DOMAIN NewRow BY <1>3 DEF RowsOK, n
<1>6. RowsOK(new) BY <1>3, <1>4, <1>5 DEF RowsOK
<1> QED BY <1>3, <1>6 DEF new, n

\* What the last row says once it is closed, alone or with its summary or stage.
LEMMA LastRowClosed ==
  ASSUME RowsOK(rows), Len(rows) > 0, NEW status
  PROVE  LET closed == [rows EXCEPT ![Len(rows)].status = status]
         IN  RowsOK(closed) /\ Len(closed) = Len(rows)
<1> DEFINE n == Len(rows)
           rec == [rows[n] EXCEPT !.status = status]
<1>1. n \in Nat /\ n \in 1 .. n BY DEF RowsOK
<1>2. DOMAIN rec = DOMAIN NewRow BY <1>1 DEF RowsOK
<1>3. [rows EXCEPT ![n].status = status] = [rows EXCEPT ![n] = rec] OBVIOUS
<1> HIDE DEF rec
<1> QED BY <1>2, <1>3, LastRowSet

LEMMA LastRowEnded ==
  ASSUME RowsOK(rows), Len(rows) > 0, NEW status
  PROVE  LET closed == [rows EXCEPT ![Len(rows)].status = status]
         IN  RowsOK(closed) /\ Len(closed) = Len(rows) /\ closed[Len(closed)].status = status
<1> DEFINE n == Len(rows)
           rec == [rows[n] EXCEPT !.status = status]
<1>1. n \in Nat /\ n \in 1 .. n BY DEF RowsOK
<1>2. DOMAIN rows[n] = {"status", "failed_stage", "summary"} BY <1>1, NewRowIs DEF RowsOK
<1>3. DOMAIN rec = DOMAIN NewRow /\ rec.status = status BY <1>2, NewRowIs
<1>4. [rows EXCEPT ![n].status = status] = [rows EXCEPT ![n] = rec] OBVIOUS
<1> HIDE DEF rec
<1> QED BY <1>3, <1>4, LastRowSet

LEMMA LastRowTracked ==
  ASSUME RowsOK(rows), Len(rows) > 0
  PROVE  LET done == [rows EXCEPT ![Len(rows)].status = "FINISHED", ![Len(rows)].summary = TRUE]
         IN  /\ RowsOK(done) /\ Len(done) = Len(rows)
             /\ done[Len(done)].status = "FINISHED" /\ done[Len(done)].summary
<1> DEFINE n == Len(rows)
           rec == [rows[n] EXCEPT !.status = "FINISHED", !.summary = TRUE]
<1>1. n \in Nat /\ n \in 1 .. n BY DEF RowsOK
<1>2. DOMAIN rows[n] = {"status", "failed_stage", "summary"} BY <1>1, NewRowIs DEF RowsOK
<1>3. DOMAIN rec = DOMAIN NewRow /\ rec.status = "FINISHED" /\ rec.summary BY <1>2, NewRowIs
<1>4. rows \in [1 .. n -> Range(rows)] BY <1>1 DEF RowsOK
<1>5. [rows EXCEPT ![n].status = "FINISHED", ![n].summary = TRUE] = [rows EXCEPT ![n] = rec]
  BY <1>1, <1>4
<1> HIDE DEF rec
<1> QED BY <1>3, <1>5, LastRowSet

LEMMA LastRowFailed ==
  ASSUME RowsOK(rows), Len(rows) > 0, NEW stage
  PROVE  LET failed == [rows EXCEPT ![Len(rows)].status = "FAILED",
                                    ![Len(rows)].failed_stage = stage]
         IN  /\ RowsOK(failed) /\ Len(failed) = Len(rows)
             /\ failed[Len(failed)].status = "FAILED" /\ failed[Len(failed)].failed_stage = stage
<1> DEFINE n == Len(rows)
           rec == [rows[n] EXCEPT !.status = "FAILED", !.failed_stage = stage]
<1>1. n \in Nat /\ n \in 1 .. n BY DEF RowsOK
<1>2. DOMAIN rows[n] = {"status", "failed_stage", "summary"} BY <1>1, NewRowIs DEF RowsOK
<1>3. DOMAIN rec = DOMAIN NewRow /\ rec.status = "FAILED" /\ rec.failed_stage = stage
  BY <1>2, NewRowIs
<1>4. rows \in [1 .. n -> Range(rows)] BY <1>1 DEF RowsOK
<1>5. [rows EXCEPT ![n].status = "FAILED", ![n].failed_stage = stage] = [rows EXCEPT ![n] = rec]
  BY <1>1, <1>4
<1> HIDE DEF rec
<1> QED BY <1>3, <1>5, LastRowSet

LEMMA TrackingStage ==
  ASSUME PlaceInv, task.pc = "inside"
  PROVE  Stage = "MLflow Tracking" <=> task.phase = 8 /\ task.step = 2
<1>1. /\ task.phase \in 1 .. 8 /\ task.step \in 1 .. Len(Phases[task.phase])
      /\ Stage = "MLflow Tracking" => task.phase = 8
  BY StageIsAt
<1>2. Phases[8][1] # "MLflow Tracking" /\ Phases[8][2] = "MLflow Tracking" BY DEF Phases
<1>3. Len(Phases[8]) = 2 BY KeyPhasesAre
<1>4. ASSUME task.phase = 8 PROVE task.step \in {1, 2}
  <2>1. task.step \in 1 .. 2 BY <1>1, <1>3, <1>4, Zenon
  <2> QED BY <2>1
<1> QED BY <1>1, <1>2, <1>4 DEF Stage

LEMMA NotTrackedYet ==
  ASSUME PlaceInv, \/ task.pc = "inside"
                   \/ task.pc = "between" /\ task.step < Len(Phases[task.phase])
  PROVE  task.phase \in 1 .. 8 /\ ~Tracked
<1>1. LastPhase = 8 /\ Len(Phases[8]) = 2 BY PhasesAre, KeyPhasesAre
<1>2. task.phase \in 1 .. 8 BY <1>1 DEF PlaceInv
<1>3. ASSUME task.phase = 8, task.pc = "between", task.step = 2 PROVE FALSE
  <2>1. Len(Phases[task.phase]) = 2 BY <1>1, <1>3, Zenon
  <2>2. task.step < Len(Phases[task.phase]) BY <1>3
  <2> QED BY <1>3, <2>1, <2>2
<1> QED BY <1>1, <1>2, <1>3 DEF Tracked, Over

\* Steps that leave the tracking alone.
LEMMA TrackingKept ==
  ASSUME RowInv, UNCHANGED <<entry, rows, untracked>>,
         ~untracked =>
           /\ task'.pc \in {"between", "inside", "saving", "leaving"} =>
                /\ task.pc \in {"between", "inside", "saving", "leaving"}
                /\ context'.tracking = context.tracking
           /\ entry = "workflow" /\ (task'.phase \in 2 .. 8
                \/ (task'.pc = "leaving" /\ task'.why = "none")) =>
                checkpoint'.context.tracking = Len(rows) /\ Len(rows) > 0
           /\ task'.pc \in {"between", "inside"} => open' \/ Tracked'
           /\ Tracked' => Tracked /\ (Alone => Alone')
           /\ task'.why = "stage" => task.why = "stage"
           /\ Tracked' \/ task'.why = "stage" => (open' = open) \/ ~open'
           /\ ~(task'.pc = "saving" /\ task'.why = "stage" /\ task'.retries = 0)
  PROVE  RowInv'
<1> SUFFICES ASSUME ~untracked PROVE RowInv'
  BY DEF RowInv
<1>1. UNCHANGED <<entry, rows, untracked>> /\ LastRow' = LastRow /\ Told' = Told
  BY DEF LastRow, Told
<1>2. Tracked' => ~open' /\ (Told' \/ (LastRow'.status = "FAILED" /\ Alone'))
  BY <1>1 DEF RowInv
<1> QED BY <1>1, <1>2 DEF RowInv

\* While no task was started again, only the stage under way can have failed.
LEMMA FailedIsTheLast ==
  ASSUME TrackingInv, task.pc = "inside", task.retries = 0,
         NEW trail \in {Recorded("Failed"), context.trail}
  PROVE  FailedStage(trail) = Stage
<1> USE DEF TrackingInv, TrailInv
<1> DEFINE n == Len(context.trail)
<1>1. /\ context.trail # <<>> /\ TrailOK(context.trail) /\ Clean(context.trail)
      /\ context.trail[n].stage = Stage
  OBVIOUS
<1>2. n \in Nat /\ n > 0 /\ DOMAIN context.trail = 1 .. n BY <1>1 DEF TrailOK
<1>3. \A i \in 1 .. n : context.trail[i].status # "Failed" BY <1>1 DEF Clean
<1>4. CASE trail = context.trail
  <2>1. FailedRecords(trail) = {} BY <1>2, <1>3, <1>4 DEF FailedRecords
  <2> QED BY <1>1, <1>4, <2>1 DEF FailedStage
<1>5. CASE trail = Recorded("Failed")
  <2> DEFINE rec == [context.trail[n] EXCEPT !.status = "Failed"]
             new == [context.trail EXCEPT ![n] = rec]
  <2>1. {"stage", "status"} \subseteq DOMAIN context.trail[n] BY <1>1, <1>2 DEF TrailOK
  <2>2. {"stage", "status"} \subseteq DOMAIN rec /\ rec.stage = Stage /\ rec.status = "Failed"
    BY <1>1, <2>1
  <2>3. trail = new BY <1>5 DEF Recorded
  <2> HIDE DEF rec
  <2>4. /\ DOMAIN new = 1 .. n /\ new[n] = rec
        /\ \A i \in 1 .. n : i # n => new[i] = context.trail[i]
    BY <1>2
  <2>5. FailedRecords(trail) = {n} BY <1>2, <1>3, <2>2, <2>3, <2>4 DEF FailedRecords
  <2>6. (CHOOSE i \in {n} : \A j \in {n} : j <= i) = n BY <1>2
  <2>7. FailedStage(trail) = trail[n].stage BY <2>5, <2>6 DEF FailedStage
  <2> QED BY <2>2, <2>3, <2>4, <2>7
<1> QED BY <1>4, <1>5

OutcomeInv == TrackingInv /\ RowInv

LEMMA RowStep == ASSUME KeyInv, BundleInv, OutcomeInv, Step, UNCHANGED plan PROVE RowInv'
<1> USE DEF OutcomeInv, TrackingInv, OutputInv, PlaceInv, RetryInv, TrailInv, plan
<1>1. LastPhase = 8 /\ Len(Phases[8]) = 2 BY PhasesAre, KeyPhasesAre
<1>2. CASE StartFirstTask
  <2> SUFFICES ASSUME ~untracked' PROVE RowInv'
    BY DEF RowInv
  <2>1. ~untracked /\ rows' = Append(rows, NewRow) /\ context' = NewContext(Len(rows) + 1)
        /\ open' = TRUE
    BY <1>2 DEF StartFirstTask, Tracking
  <2>2. task.phase = 1 /\ task' = [task EXCEPT !.pc = "between", !.step = 0]
        /\ task.pc = "waiting"
    BY <1>2 DEF StartFirstTask
  <2>3. RowsOK(rows') /\ Len(rows') = Len(rows) + 1 /\ Len(rows) \in Nat
    BY <2>1, RowAdded DEF RowInv
  <2>4. context'.tracking = Len(rows') /\ Len(rows') > 0
    BY <2>1, <2>3, NewContextsHaveTrails
  <2> QED BY <1>1, <2>1, <2>2, <2>3, <2>4 DEF RowInv, Tracked, Over
<1>3. CASE StartTask
  <2> SUFFICES ASSUME ~untracked' PROVE RowInv'
    BY DEF RowInv
  <2>1. /\ entry = "workflow" /\ task.pc = "waiting" /\ task.phase \in 2 .. 8
        /\ task' = [task EXCEPT !.pc = "between", !.step = 0]
        /\ context' = checkpoint.context /\ UNCHANGED checkpoint
        /\ ResumeTracking(checkpoint.context.tracking)
    BY <1>1, <1>3 DEF StartTask
  <2>2. ~untracked BY <2>1 DEF ResumeTracking, Tracking
  <2>3. checkpoint.context.tracking = Len(rows) /\ Len(rows) > 0 /\ RowsOK(rows)
    BY <2>1, <2>2 DEF RowInv
  <2>4. Len(rows) # 0 BY <2>3
  <2>5. rows' = [rows EXCEPT ![Len(rows)].status = "RUNNING"] /\ open' = TRUE
    BY <2>1, <2>3, <2>4 DEF ResumeTracking, Tracking
  <2>6. RowsOK(rows') /\ Len(rows') = Len(rows) BY <2>3, <2>5, LastRowClosed
  <2>7. task'.pc = "between" /\ task'.step = 0 /\ task'.phase = task.phase
        /\ task'.why = "none"
    BY <2>1
  <2>8. ~Tracked' BY <1>1, <2>1, <2>7 DEF Tracked, Over
  <2> QED BY <2>1, <2>3, <2>5, <2>6, <2>7, <2>8 DEF RowInv
<1>4. CASE LoadFails
  <2>1. /\ UNCHANGED <<context, checkpoint, rows, open, untracked>>
        /\ task.phase \in 2 .. 8 /\ task'.phase = task.phase /\ task'.pc = "failed"
        /\ task'.why = "storage" /\ task.pc = "waiting"
    BY <1>1, <1>4 DEF LoadFails
  <2>2. ~Tracked' BY <1>1, <2>1 DEF Tracked, Over
  <2>3. ~untracked /\ entry = "workflow" =>
          checkpoint.context.tracking = Len(rows) /\ Len(rows) > 0
    BY <2>1 DEF RowInv
  <2> QED BY <2>1, <2>2, <2>3, TrackingKept
\* Between two stages and inside one.
<1>5. CASE BeginStage
  <2>1. /\ UNCHANGED <<checkpoint, rows, open, untracked>>
        /\ task.pc = "between" /\ task.step < Len(Phases[task.phase])
        /\ task' = [task EXCEPT !.pc = "inside", !.step = @ + 1]
    BY <1>5 DEF BeginStage
  <2>2. context'.tracking = context.tracking BY <1>5 DEF BeginStage
  <2>3. task.phase \in 1 .. 8 /\ ~Tracked BY <2>1, NotTrackedYet
  <2>4. task'.phase = task.phase /\ task'.pc = "inside" /\ task'.why = "none" BY <2>1
  <2>5. ~Tracked' BY <1>1, <2>1, <2>4 DEF Tracked, Over
  <2>6. ~untracked => open BY <2>1, <2>3 DEF RowInv
  <2>7. ~untracked /\ entry = "workflow" /\ task'.phase \in 2 .. 8 =>
          checkpoint.context.tracking = Len(rows) /\ Len(rows) > 0
    BY <2>4 DEF RowInv
  <2> QED BY <2>1, <2>2, <2>4, <2>5, <2>6, <2>7, TrackingKept
<1>a. ASSUME UNCHANGED <<checkpoint, rows, open, untracked>>, task.pc = "inside",
             context'.tracking = context.tracking, task'.phase = task.phase,
             task'.pc = "inside" \/ (task'.pc = "between" /\ Stage # "MLflow Tracking"),
             task'.step = task.step, task'.why = "none"
      PROVE  RowInv'
  <2>1. task.phase \in 1 .. 8 /\ ~Tracked BY <1>a, NotTrackedYet
  <2>2. ~Tracked'
    <3>1. task'.pc = "between" => ~(task'.phase = 8 /\ task'.step = 2)
      BY <1>a, TrackingStage, Zenon
    <3>2. task'.phase \in 1 .. 8 BY <1>a, <2>1
    <3>3. task'.pc \notin {"saving", "leaving"} BY <1>a
    <3> QED BY <1>1, <3>1, <3>2, <3>3 DEF Tracked, Over
  <2>3. ~untracked => open BY <1>a, <2>1 DEF RowInv
  <2>4. ~untracked /\ entry = "workflow" /\ task'.phase \in 2 .. 8 =>
          checkpoint.context.tracking = Len(rows) /\ Len(rows) > 0
    BY <1>a DEF RowInv
  <2> QED BY <1>a, <2>2, <2>3, <2>4, TrackingKept
<1>6. CASE KeyTask
  <2>1. UNCHANGED <<task, checkpoint, rows, open, untracked>> /\ task.pc = "inside"
        /\ context'.tracking = context.tracking
    BY <1>6 DEF KeyTask
  <2> QED BY <1>a, <2>1
<1>7. CASE CompleteStage
  <2>1. /\ UNCHANGED <<checkpoint, rows, open, untracked>> /\ task.pc = "inside"
        /\ task' = [task EXCEPT !.pc = "between"] /\ Stage # "MLflow Tracking"
        /\ context'.tracking = context.tracking
    BY <1>7 DEF CompleteStage, Goes
  <2> QED BY <1>a, <2>1
<1>8. CASE CompleteKeyStage
  <2>1. /\ UNCHANGED <<checkpoint, rows, open, untracked>> /\ task.pc = "inside"
        /\ task' = [task EXCEPT !.pc = "between"] /\ Stage \in KeyStages
        /\ context'.tracking = context.tracking
    BY <1>8 DEF CompleteKeyStage, Goes
  <2>2. Stage # "MLflow Tracking" BY <2>1 DEF KeyStages
  <2> QED BY <1>a, <2>1, <2>2
<1>9. CASE TrackRun
  <2> SUFFICES ASSUME ~untracked' PROVE RowInv'
    BY DEF RowInv
  <2>1. /\ UNCHANGED checkpoint /\ task.pc = "inside" /\ Stage = "MLflow Tracking"
        /\ task' = [task EXCEPT !.pc = "between"] /\ ~open'
    BY <1>9 DEF TrackRun, Goes
  <2>2. ~untracked BY <1>9 DEF TrackRun, Tracking
  <2>3. task.phase = 8 /\ task.step = 2 BY <2>1, TrackingStage
  <2>4. ~Tracked BY <2>1, NotTrackedYet
  <2>5. /\ open /\ context.tracking = Len(rows) /\ Len(rows) > 0 /\ RowsOK(rows)
        /\ entry = "workflow" => checkpoint.context.tracking = Len(rows)
    <3>1. task.phase \in 2 .. 8 BY <2>3
    <3> QED BY <2>1, <2>2, <2>4, <3>1 DEF RowInv
  <2>6. /\ \/ rows' = [rows EXCEPT ![Len(rows)].status = "FINISHED", ![Len(rows)].summary = TRUE]
           \/ PublishesAlone /\ rows' = [rows EXCEPT ![Len(rows)].status = "FAILED"]
        /\ context'.tracking = context.tracking /\ context'.reports = context.reports
    BY <1>9, <2>2, <2>5 DEF TrackRun, Tracking
  <2>7. task'.phase = 8 /\ task'.step = 2 /\ task'.pc = "between" /\ task'.why = "none"
    BY <2>1, <2>3
  <2>8. /\ RowsOK(rows') /\ Len(rows') = Len(rows)
        /\ Told' \/ (LastRow'.status = "FAILED" /\ Alone')
    <3>1. CASE rows' = [rows EXCEPT ![Len(rows)].status = "FINISHED", ![Len(rows)].summary = TRUE]
      BY <2>5, <3>1, LastRowTracked DEF LastRow, Told
    <3>2. CASE PublishesAlone /\ rows' = [rows EXCEPT ![Len(rows)].status = "FAILED"]
      <4>1. /\ RowsOK(rows') /\ Len(rows') = Len(rows) /\ LastRow'.status = "FAILED"
        BY <2>5, <3>2, LastRowEnded DEF LastRow
      <4>2. executor' = NoExecutor
        BY <1>9, <3>2, TrackKeepsExecutor DEF KeyInv, PublishesAlone
      <4>3. PublishesAlone' BY <2>6, <3>2, <4>2 DEF PublishesAlone, SingleWinner
      <4>4. Alone' BY <1>1, <2>7, <4>3 DEF Alone, Over
      <4> QED BY <4>1, <4>4
    <3> QED BY <2>6, <3>1, <3>2
  <2> QED BY <2>1, <2>5, <2>6, <2>7, <2>8 DEF RowInv, Tracked
<1>10. CASE FailStage
  <2> SUFFICES ASSUME ~untracked' PROVE RowInv'
    BY DEF RowInv
  <2>1. /\ UNCHANGED checkpoint /\ task.pc = "inside" /\ task'.why = "stage"
        /\ task'.pc \in {"saving", "leaving"} /\ task'.phase = task.phase
        /\ task'.step = task.step /\ task'.retries = task.retries
    BY <1>10 DEF FailStage
  <2>2. PICK trail \in {Recorded("Failed"), context.trail} : FailTracking(trail)
    BY <1>10 DEF FailStage
  <2>3. ~untracked BY <2>2 DEF FailTracking, Tracking
  <2>4. ~Tracked BY <2>1, NotTrackedYet
  <2>5. /\ open /\ context.tracking = Len(rows) /\ Len(rows) > 0 /\ RowsOK(rows)
        /\ entry = "workflow" /\ task.phase \in 2 .. 8 =>
             checkpoint.context.tracking = Len(rows)
    BY <2>1, <2>3, <2>4 DEF RowInv
  <2>6. /\ rows' = [rows EXCEPT ![Len(rows)].status = "FAILED",
                                ![Len(rows)].failed_stage = FailedStage(trail)]
        /\ context'.tracking = context.tracking /\ ~open'
    BY <2>2, <2>3, <2>5 DEF FailTracking, Tracking
  <2>7. /\ RowsOK(rows') /\ Len(rows') = Len(rows)
        /\ LastRow'.status = "FAILED" /\ LastRow'.failed_stage = FailedStage(trail)
    <3>1. PICK stage : stage = FailedStage(trail) OBVIOUS
    <3>2. rows' = [rows EXCEPT ![Len(rows)].status = "FAILED", ![Len(rows)].failed_stage = stage]
      BY <2>6, <3>1, Zenon
    <3> DEFINE new == [rows EXCEPT ![Len(rows)].status = "FAILED",
                                   ![Len(rows)].failed_stage = stage]
    <3>3. /\ RowsOK(new) /\ Len(new) = Len(rows)
          /\ new[Len(new)].status = "FAILED" /\ new[Len(new)].failed_stage = stage
      BY <2>5, LastRowFailed, Zenon
    <3> QED BY <3>1, <3>2, <3>3 DEF LastRow
  <2>8. task.retries = 0 => FailedStage(trail) = Stage BY <2>1, FailedIsTheLast
  <2>9. Stage' = Stage BY <2>1 DEF Stage
  <2>10. ~Tracked' BY <1>1, <2>1 DEF Tracked, Over
  <2> QED BY <2>1, <2>5, <2>6, <2>7, <2>8, <2>9, <2>10 DEF RowInv
\* From one phase to the next.
<1>11. CASE NextPhase
  <2>1. /\ UNCHANGED <<context, checkpoint, rows, open, untracked>> /\ entry # "workflow"
        /\ task.pc = "between" /\ task.step = Len(Phases[task.phase]) /\ task.phase \in 1 .. 8
    BY <1>1, <1>11 DEF NextPhase
  <2>2. CASE task.phase < 8
    <3>1. task' = [task EXCEPT !.phase = @ + 1, !.step = 0] BY <1>1, <1>11, <2>2 DEF NextPhase
    <3>2. task'.pc = "between" /\ task'.step = 0 /\ task'.phase = task.phase + 1
          /\ task'.why = "none"
      BY <2>1, <3>1
    <3>3. ~Tracked /\ ~Tracked' BY <1>1, <2>1, <2>2, <3>2 DEF Tracked, Over
    <3>4. ~untracked => open BY <2>1, <3>3 DEF RowInv
    <3> QED BY <2>1, <3>2, <3>3, <3>4, TrackingKept
  <2>3. CASE task.phase = 8
    <3>1. task' = [task EXCEPT !.pc = "leaving"] BY <1>1, <1>11, <2>3 DEF NextPhase
    <3>2. Tracked BY <1>1, <2>1, <2>3 DEF Tracked
    <3>3. task'.pc = "leaving" /\ task'.why = "none" /\ task'.phase = 8 BY <2>1, <2>3, <3>1
    <3>4. UNCHANGED executor BY <1>11 DEF NextPhase, keyVars
    <3>5. Alone => Alone'
      BY <1>1, <2>1, <2>3, <3>3, <3>4 DEF Alone, PublishesAlone, SingleWinner, Over
    <3> QED BY <2>1, <3>2, <3>3, <3>5, TrackingKept
  <2> QED BY <2>1, <2>2, <2>3
<1>12. CASE EndPhase
  <2>1. /\ UNCHANGED <<context, checkpoint, rows, open, untracked>>
        /\ task.pc = "between" /\ task.step = Len(Phases[task.phase])
        /\ task' = [task EXCEPT !.pc = "saving"]
    BY <1>12 DEF EndPhase, Goes
  <2>2. task'.pc = "saving" /\ task'.phase = task.phase /\ task'.why = "none" BY <2>1
  <2>3. Tracked' => Tracked BY <1>1, <2>1, <2>2 DEF Tracked, Over
  <2>4. ~untracked /\ entry = "workflow" /\ task'.phase \in 2 .. 8 =>
          checkpoint.context.tracking = Len(rows) /\ Len(rows) > 0
    BY <2>2 DEF RowInv
  <2>5. UNCHANGED executor BY <1>12 DEF EndPhase, keyVars
  <2>6. Tracked' /\ Alone => Alone'
    BY <1>1, <2>1, <2>2, <2>5 DEF Tracked, Alone, PublishesAlone, SingleWinner, Over
  <2> QED BY <2>1, <2>2, <2>3, <2>4, <2>6, TrackingKept
<1>13. CASE SaveCheckpoint
  <2>1. UNCHANGED <<context, rows, open, untracked>> /\ task.pc = "saving"
    BY <1>13 DEF SaveCheckpoint
  <2>2. ~untracked => context.tracking = Len(rows) /\ Len(rows) > 0 BY <2>1 DEF RowInv
  <2>3. CASE /\ checkpoint' = [context |-> context, snapshot |-> executor]
             /\ task' = [task EXCEPT !.pc = "leaving"]
    <3>1. task'.pc = "leaving" /\ task'.phase = task.phase /\ task'.why = task.why
          /\ checkpoint'.context = context
      BY <2>3
    <3>2. Tracked' => Tracked BY <2>1, <3>1 DEF Tracked, Over
    <3>3. Tracked' /\ Alone => Alone'
      <4>1. Tracked' => task.phase = 8 /\ task'.phase = 8
        BY <1>1, <2>1, <3>1 DEF Tracked, Over
      <4>2. UNCHANGED executor BY <1>13 DEF SaveCheckpoint, keyVars
      <4> QED BY <1>1, <2>1, <3>1, <4>1, <4>2 DEF Alone, PublishesAlone, SingleWinner, Over
    <3> QED BY <2>1, <2>2, <3>1, <3>2, <3>3, TrackingKept
  <2>4. CASE /\ UNCHANGED checkpoint
             /\ task' = [task EXCEPT !.pc = "leaving",
                                     !.why = IF @ = "none" THEN "storage" ELSE @]
    <3>1. /\ task'.pc = "leaving" /\ task'.phase = task.phase /\ task'.why # "none"
          /\ task'.why = "stage" => task.why = "stage"
      BY <2>4
    <3>2. ~Tracked' BY <1>1, <2>1, <3>1 DEF Tracked, Over
    <3>3. ~untracked /\ entry = "workflow" /\ task'.phase \in 2 .. 8 =>
            checkpoint.context.tracking = Len(rows) /\ Len(rows) > 0
      BY <3>1 DEF RowInv
    <3> QED BY <2>1, <2>2, <2>4, <3>1, <3>2, <3>3, TrackingKept
  <2> QED BY <1>13, <2>3, <2>4 DEF SaveCheckpoint
<1>14. CASE Leave
  <2> SUFFICES ASSUME ~untracked' PROVE RowInv'
    BY DEF RowInv
  <2>1. UNCHANGED <<checkpoint, untracked>> /\ task.pc = "leaving" /\ ~open'
    BY <1>14 DEF Leave, ProcessEnds
  <2>2. /\ RowsOK(rows) /\ context.tracking = Len(rows) /\ Len(rows) > 0
        /\ entry = "workflow" /\ (task.phase \in 2 .. 8 \/ task.why = "none") =>
             checkpoint.context.tracking = Len(rows)
        /\ Tracked => ~open /\ (Told \/ (LastRow.status = "FAILED" /\ Alone))
        /\ task.why = "stage" => ~open /\ LastRow.status = "FAILED"
    BY <2>1 DEF RowInv
  <2>3. UNCHANGED rows \/ (open /\ rows' = [rows EXCEPT ![Len(rows)].status = "FINISHED"])
    BY <1>14, <2>2 DEF Leave
  <2>4. RowsOK(rows') /\ Len(rows') = Len(rows) BY <2>2, <2>3, LastRowClosed
  <2>5. ~open => LastRow' = LastRow /\ Told' = Told BY <2>3 DEF LastRow, Told
  <2>6. CASE /\ task.why = "none"
             /\ task' = [task EXCEPT !.phase = @ + 1, !.pc = "waiting", !.step = 0]
    <3>1. task'.phase = task.phase + 1 /\ task'.pc = "waiting" /\ task'.why = "none"
      BY <2>6
    <3>2. Tracked' => Tracked /\ task.phase = 8 BY <1>1, <2>1, <2>6, <3>1 DEF Tracked, Over
    <3>3. Tracked' /\ Alone => Alone'
      <4>1. task.phase = 8 => (entry = "bundle" => executor # NoExecutor)
        BY <2>1, <2>6 DEF BundleInv
      <4>2. task.phase = 8 => task'.phase = 9 /\ task'.pc # "leaving" BY <3>1
      <4> QED BY <1>1, <2>1, <3>2, <4>1, <4>2 DEF Alone, PublishesAlone, Over
    <3>4. Tracked' => ~open' /\ (Told' \/ (LastRow'.status = "FAILED" /\ Alone'))
      BY <2>1, <2>2, <2>5, <3>2, <3>3
    <3> QED BY <2>1, <2>2, <2>4, <2>6, <3>1, <3>4 DEF RowInv
  <2>7. CASE task.why # "none" /\ task' = [task EXCEPT !.pc = "failed"]
    <3>1. task'.phase = task.phase /\ task'.pc = "failed" /\ task'.why = task.why
      BY <2>7
    <3>2. ~Tracked' BY <1>1, <2>1, <3>1 DEF Tracked, Over
    <3> QED BY <2>1, <2>2, <2>4, <2>5, <3>1, <3>2 DEF RowInv
  <2> QED BY <1>14, <2>6, <2>7 DEF Leave
<1>15. CASE Crash
  <2>1. /\ UNCHANGED <<checkpoint, rows, untracked>> /\ ~open' /\ task'.phase = task.phase
        /\ task'.pc = "failed" /\ task'.why = "crash" /\ task.phase \in 1 .. 8
    BY <1>1, <1>15 DEF Crash, ProcessEnds
  <2>2. ~Tracked' BY <1>1, <2>1 DEF Tracked, Over
  <2>3. ~untracked /\ entry = "workflow" /\ task'.phase \in 2 .. 8 =>
          checkpoint.context.tracking = Len(rows) /\ Len(rows) > 0
    BY <2>1 DEF RowInv
  <2> QED BY <2>1, <2>2, <2>3, TrackingKept
<1>16. CASE Retry
  <2>1. /\ UNCHANGED <<context, checkpoint, rows, open, untracked>> /\ task'.phase = task.phase
        /\ task'.pc = "waiting" /\ task'.why = "none" /\ task.pc = "failed"
        /\ task.phase \in 1 .. 8
    BY <1>1, <1>16 DEF Retry
  <2>2. ~Tracked' BY <1>1, <2>1 DEF Tracked, Over
  <2>3. ~untracked /\ entry = "workflow" /\ task'.phase \in 2 .. 8 =>
          checkpoint.context.tracking = Len(rows) /\ Len(rows) > 0
    BY <2>1 DEF RowInv
  <2> QED BY <2>1, <2>2, <2>3, TrackingKept
<1> QED
  BY <1>2, <1>3, <1>4, <1>5, <1>6, <1>7, <1>8, <1>9, <1>10, <1>11, <1>12, <1>13, <1>14,
     <1>15, <1>16 DEF Step

LEMMA OutcomeInit == Init => OutcomeInv
<1> SUFFICES ASSUME Init PROVE OutcomeInv
  OBVIOUS
<1>1. LastPhase = 8 BY PhasesAre
<1>2. OutputInv BY OutputInit
<1>3. RetryInv BY DEF Init, RetryInv
<1>4. TrailInv
  <2>1. context = NoContext /\ checkpoint.context = NoContext BY DEF Init, NoCheckpoint
  <2> QED BY <2>1, NewContextsHaveTrails, EmptyTrail DEF Init, TrailInv
<1>5. RowInv
  <2>1. RowsOK(<<>>)
    <3>1. <<>> \in Seq({}) OBVIOUS
    <3> QED BY <3>1, OwnRange DEF RowsOK
  <2> QED BY <1>1, <2>1 DEF Init, RowInv, Tracked, Over
<1> QED BY <1>2, <1>3, <1>4, <1>5 DEF OutcomeInv, TrackingInv

LEMMA OutcomesInductive == Spec => []OutcomeInv
<1>1. KeyInv /\ BundleInv /\ OutcomeInv /\ [Next]_vars => OutcomeInv'
  <2>1. ASSUME KeyInv, BundleInv, OutcomeInv, Next PROVE OutcomeInv'
    <3>1. OutputInv' BY <2>1, PlaceStep, OutputStep DEF Next, OutcomeInv, TrackingInv, OutputInv
    <3>2. RetryInv' BY <2>1, RetryStep DEF Next, OutcomeInv, TrackingInv, OutputInv
    <3>3. TrailInv' BY <2>1, TrailStep DEF Next, OutcomeInv
    <3>4. RowInv' BY <2>1, RowStep DEF Next
    <3> QED BY <3>1, <3>2, <3>3, <3>4 DEF OutcomeInv, TrackingInv
  <2>2. ASSUME OutcomeInv, UNCHANGED vars PROVE OutcomeInv'
    <3> USE <2>2 DEF OutcomeInv, TrackingInv, vars, plan
    <3>1. OutputInv' BY DEF OutputInv, PlaceInv, ContextInv, CheckpointInv
    <3>2. RetryInv' BY DEF RetryInv
    <3>3. TrailInv' BY DEF TrailInv, Stage
    <3>4. RowInv'
      BY DEF RowInv, Stage, LastRow, Tracked, Told, Alone, PublishesAlone, SingleWinner, Over,
             keyVars
    <3> QED BY <3>1, <3>2, <3>3, <3>4
  <2> QED BY <2>1, <2>2
<1> QED BY KeysInductive, BundlesInductive, OutcomeInit, <1>1, PTL DEF Spec

\* track(), fail() and resume(): for any series, faults and retries, an MLflow run that
\* the server never refused a call about is never left RUNNING: it is FINISHED with its
\* summary after the last task, or FAILED if the last task had the single winner of the
\* run to publish; FAILED after a stage that raised, and tagged with the stage the run
\* died in.
THEOREM RowIsTrue == Spec => []RowTellsTheOutcome
<1>1. LastPhase = 8 BY PhasesAre
<1>2. OutcomeInv => RowTellsTheOutcome
  BY <1>1 DEF OutcomeInv, RowInv, RowTellsTheOutcome, LastRow, Tracked, Told, Alone, Over
<1> QED BY OutcomesInductive, <1>2, PTL

--------------------------------------------------------------------------------
(* The deployments page: what its invariants speak of. *)


\* The stages of S have ended: the last record of each is Completed.
Ended(trail, S) ==
  \A s \in S : \E i \in 1 .. Len(trail) :
    /\ trail[i].stage = s /\ trail[i].status = "Completed"
    /\ \A j \in 1 .. Len(trail) : trail[j].stage = s => j <= i

Begins(trail, q) == \E i \in 1 .. Len(trail) : trail[i].stage \in Range(Phases[q])

Within(trail, S) == \A i \in 1 .. Len(trail) : trail[i].stage \in S

\* A trail of phase p: the phases before have ended, none after was begun.
InOrder(trail, p) ==
  /\ Ended(trail, Before(p))
  /\ \A q \in 1 .. 8 : Begins(trail, q) => q <= p

\* The trail of the process, that of the checkpoint and the one on the page are in
\* order, and the page has the first as soon as a stage has begun.
PageInv ==
  /\ live \in Seq(StageRecord)
  /\ task.pc \in {"waiting", "failed"} => context = NoContext
  /\ InOrder(live, task.phase)
  /\ task.pc \notin {"waiting", "failed"} => InOrder(context.trail, task.phase)
  /\ task.pc = "between" => Ended(context.trail, First(task.step, task.phase))
  /\ task.pc = "inside" => Ended(context.trail, First(task.step - 1, task.phase))
  /\ task.pc \in {"saving", "leaving"} /\ task.why = "none" =>
       Ended(context.trail, Before(task.phase + 1))
  /\ entry = "workflow" =>
       /\ InOrder(checkpoint.context.trail, task.phase)
       /\ task.pc = "leaving" /\ task.why = "none" =>
            Ended(checkpoint.context.trail, Before(task.phase + 1))
  /\ \/ task.pc \in {"inside", "saving", "leaving"}
     \/ task.pc = "between" /\ task.step > 0
     => live = context.trail
  /\ task.pc = "inside" \/ task.why = "stage" => Begins(live, task.phase)

\* While no task was started again, every stage has one record, and the outputs are
\* those of the completed ones.
Done(trail) == {i \in 1 .. Len(trail) : trail[i].status = "Completed"}

Once(trail, outputs) ==
  /\ \A i, j \in 1 .. Len(trail) : trail[i].stage = trail[j].stage => i = j
  /\ outputs = {trail[i].stage : i \in Done(trail)}

OnceInv ==
  task.retries = 0 =>
    /\ task.phase = 1 /\ task.pc = "waiting" => live = <<>>
    /\ task.pc \in {"between", "inside"} \/ (task.pc \in {"saving", "leaving"} /\ task.why = "none") =>
         Once(context.trail, context.outputs) /\ live = context.trail
    /\ task.pc \in {"between", "inside"} =>
         Within(context.trail, Before(task.phase) \cup First(task.step, task.phase))
    /\ task.pc \in {"saving", "leaving"} /\ task.why = "none" =>
         Within(context.trail, Before(task.phase + 1))
    /\ entry = "workflow" /\ task.phase \in 2 .. LastPhase /\ task.pc = "waiting" =>
         /\ Once(checkpoint.context.trail, checkpoint.context.outputs)
         /\ Within(checkpoint.context.trail, Before(task.phase))
         /\ live = checkpoint.context.trail
    /\ entry = "workflow" /\ task.pc = "leaving" /\ task.why = "none" =>
         checkpoint.context = context

\* A completed stage has every key's task in.
Settled(trail) ==
  \A i \in 1 .. Len(trail) :
    trail[i].status = "Completed" => trail[i].tasks.completed + trail[i].tasks.failed = trail[i].tasks.total

SettledInv ==
  /\ Settled(context.trail) /\ Settled(checkpoint.context.trail) /\ Settled(live)
  /\ task.pc = "inside" =>
       LET last == context.trail[Len(context.trail)]
       IN  /\ last.stage = Stage /\ last.status = "Running"
           /\ last.tasks \in {NoTelemetry, Telemetry(wave)}
           /\ wave = NoWave => last.tasks = NoTelemetry

--------------------------------------------------------------------------------
\* The stages in order.
StageOrder(s) ==
  CASE s = "Load Dataset" -> 11
    [] s = "Detect Frequency" -> 12
    [] s = "Assess Quality" -> 13
    [] s = "Preprocess Dataset" -> 14
    [] s = "Persist Curated" -> 15
    [] s = "Verify Curated" -> 16
    [] s = "Generate Groups" -> 21
    [] s = "Build Series" -> 22
    [] s = "Train Models" -> 31
    [] s = "Evaluate Models" -> 41
    [] s = "Explain Models" -> 51
    [] s = "Rank & Select" -> 61
    [] s = "Business Insights" -> 71
    [] s = "Mirror Artifacts" -> 72
    [] s = "Export Forecasts" -> 81
    [] s = "MLflow Tracking" -> 82
    [] OTHER -> 0

InOrderAt(p, i) ==
  StageOrder(Phases[p][i]) = 10 * p + i /\ i <= 6 /\ Phases[p][i] # "none"

LEMMA StagesInOrder == \A p \in 1 .. 8 : \A i \in 1 .. Len(Phases[p]) : InOrderAt(p, i)
<1>1. \A i \in 1 .. Len(Phases[1]) : InOrderAt(1, i)
  <2>1. Len(Phases[1]) = 6 BY DEF Phases
  <2>2. \A i \in 1 .. Len(Phases[1]) : i = 1 \/ i = 2 \/ i = 3 \/ i = 4 \/ i = 5 \/ i = 6 BY <2>1
  <2>3. InOrderAt(1, 1) BY DEF InOrderAt, StageOrder, Phases
  <2>4. InOrderAt(1, 2) BY DEF InOrderAt, StageOrder, Phases
  <2>5. InOrderAt(1, 3) BY DEF InOrderAt, StageOrder, Phases
  <2>6. InOrderAt(1, 4) BY DEF InOrderAt, StageOrder, Phases
  <2>7. InOrderAt(1, 5) BY DEF InOrderAt, StageOrder, Phases
  <2>8. InOrderAt(1, 6) BY DEF InOrderAt, StageOrder, Phases
  <2> QED BY <2>2, <2>3, <2>4, <2>5, <2>6, <2>7, <2>8
<1>2. \A i \in 1 .. Len(Phases[2]) : InOrderAt(2, i)
  <2>1. Len(Phases[2]) = 2 BY DEF Phases
  <2>2. \A i \in 1 .. Len(Phases[2]) : i = 1 \/ i = 2 BY <2>1
  <2>3. InOrderAt(2, 1) BY DEF InOrderAt, StageOrder, Phases
  <2>4. InOrderAt(2, 2) BY DEF InOrderAt, StageOrder, Phases
  <2> QED BY <2>2, <2>3, <2>4
<1>3. \A i \in 1 .. Len(Phases[3]) : InOrderAt(3, i)
  <2>1. Len(Phases[3]) = 1 BY DEF Phases
  <2>2. \A i \in 1 .. Len(Phases[3]) : i = 1 BY <2>1
  <2>3. InOrderAt(3, 1) BY DEF InOrderAt, StageOrder, Phases
  <2> QED BY <2>2, <2>3
<1>4. \A i \in 1 .. Len(Phases[4]) : InOrderAt(4, i)
  <2>1. Len(Phases[4]) = 1 BY DEF Phases
  <2>2. \A i \in 1 .. Len(Phases[4]) : i = 1 BY <2>1
  <2>3. InOrderAt(4, 1) BY DEF InOrderAt, StageOrder, Phases
  <2> QED BY <2>2, <2>3
<1>5. \A i \in 1 .. Len(Phases[5]) : InOrderAt(5, i)
  <2>1. Len(Phases[5]) = 1 BY DEF Phases
  <2>2. \A i \in 1 .. Len(Phases[5]) : i = 1 BY <2>1
  <2>3. InOrderAt(5, 1) BY DEF InOrderAt, StageOrder, Phases
  <2> QED BY <2>2, <2>3
<1>6. \A i \in 1 .. Len(Phases[6]) : InOrderAt(6, i)
  <2>1. Len(Phases[6]) = 1 BY DEF Phases
  <2>2. \A i \in 1 .. Len(Phases[6]) : i = 1 BY <2>1
  <2>3. InOrderAt(6, 1) BY DEF InOrderAt, StageOrder, Phases
  <2> QED BY <2>2, <2>3
<1>7. \A i \in 1 .. Len(Phases[7]) : InOrderAt(7, i)
  <2>1. Len(Phases[7]) = 2 BY DEF Phases
  <2>2. \A i \in 1 .. Len(Phases[7]) : i = 1 \/ i = 2 BY <2>1
  <2>3. InOrderAt(7, 1) BY DEF InOrderAt, StageOrder, Phases
  <2>4. InOrderAt(7, 2) BY DEF InOrderAt, StageOrder, Phases
  <2> QED BY <2>2, <2>3, <2>4
<1>8. \A i \in 1 .. Len(Phases[8]) : InOrderAt(8, i)
  <2>1. Len(Phases[8]) = 2 BY DEF Phases
  <2>2. \A i \in 1 .. Len(Phases[8]) : i = 1 \/ i = 2 BY <2>1
  <2>3. InOrderAt(8, 1) BY DEF InOrderAt, StageOrder, Phases
  <2>4. InOrderAt(8, 2) BY DEF InOrderAt, StageOrder, Phases
  <2> QED BY <2>2, <2>3, <2>4
<1>9. \A p \in 1 .. 8 : p = 1 \/ p = 2 \/ p = 3 \/ p = 4 \/ p = 5 \/ p = 6 \/ p = 7 \/ p = 8
  OBVIOUS
<1> QED BY Zenon, <1>1, <1>2, <1>3, <1>4, <1>5, <1>6, <1>7, <1>8, <1>9

LEMMA StagesDiffer ==
  ASSUME NEW p \in 1 .. 8, NEW i \in 1 .. Len(Phases[p]),
         NEW q \in 1 .. 8, NEW j \in 1 .. Len(Phases[q]), Phases[p][i] = Phases[q][j]
  PROVE  p = q /\ i = j
<1>1. Len(Phases[p]) \in Nat /\ Len(Phases[q]) \in Nat BY PhasesAre
<1>2. StageOrder(Phases[p][i]) = 10 * p + i /\ i <= 6 BY StagesInOrder DEF InOrderAt
<1>3. StageOrder(Phases[q][j]) = 10 * q + j /\ j <= 6 BY StagesInOrder DEF InOrderAt
<1>4. 10 * p + i = 10 * q + j BY <1>2, <1>3
<1>5. i \in Nat /\ j \in Nat /\ i >= 1 /\ j >= 1 BY <1>1
<1> QED BY <1>2, <1>3, <1>4, <1>5

LEMMA PhasesApart ==
  /\ \A p, q \in 1 .. 8 : \A s \in Range(Phases[p]) : s \in Range(Phases[q]) => p = q
  /\ \A p \in 1 .. 8 : \A s \in Range(Phases[p]) : s \notin Before(p)
  /\ "none" \notin Stages
<1>1. ASSUME NEW p \in 1 .. 8, NEW q \in 1 .. 8, NEW s \in Range(Phases[p]), s \in Range(Phases[q])
      PROVE  p = q
  <2>1. PICK i \in 1 .. Len(Phases[p]) : s = Phases[p][i] BY <1>1, PhasesAre DEF First
  <2>2. PICK j \in 1 .. Len(Phases[q]) : s = Phases[q][j] BY <1>1, PhasesAre DEF First
  <2> QED BY <2>1, <2>2, StagesDiffer
<1>2. ASSUME NEW p \in 1 .. 8, NEW s \in Range(Phases[p]), s \in Before(p) PROVE FALSE
  <2>1. PICK q \in 1 .. p - 1 : s \in Range(Phases[q]) BY <1>2 DEF Before
  <2>2. q \in 1 .. 8 /\ q # p BY <2>1
  <2> QED BY <1>1, <2>1, <2>2
<1>3. ASSUME "none" \in Stages PROVE FALSE
  <2>1. DOMAIN Phases = 1 .. 8 BY DEF Phases
  <2>2. PICK p \in 1 .. 8 : "none" \in Range(Phases[p]) BY <1>3, <2>1 DEF Stages
  <2>3. PICK i \in 1 .. Len(Phases[p]) : "none" = Phases[p][i] BY <2>2, PhasesAre DEF First
  <2> QED BY <2>3, StagesInOrder DEF InOrderAt
<1> QED BY <1>1, <1>2, <1>3

\* The next stage is none of those before.
LEMMA NextStageIsNew ==
  ASSUME NEW p \in 1 .. 8, NEW n \in Nat, n < Len(Phases[p])
  PROVE  /\ Phases[p][n + 1] \in Range(Phases[p]) /\ Phases[p][n + 1] \in Stages
         /\ Phases[p][n + 1] \notin Before(p) \cup First(n, p)
<1>1. Len(Phases[p]) \in Nat /\ Range(Phases[p]) = First(Len(Phases[p]), p) BY PhasesAre
<1>2. n + 1 \in 1 .. Len(Phases[p]) /\ \A i \in 1 .. n : i \in 1 .. Len(Phases[p]) /\ i # n + 1
  BY <1>1
<1>3. Phases[p][n + 1] \in Range(Phases[p]) BY <1>1, <1>2 DEF First
<1>4. Phases[p][n + 1] \notin First(n, p)
  <2> SUFFICES ASSUME NEW i \in 1 .. n, Phases[p][n + 1] = Phases[p][i] PROVE FALSE
    BY DEF First
  <2> QED BY <1>2, StagesDiffer
<1> QED BY <1>2, <1>3, <1>4, PhasesApart, StagesAre


--------------------------------------------------------------------------------
(* How the trail changes. *)

LEMMA RecordBegun ==
  ASSUME NEW trail \in Seq(StageRecord), NEW rec \in StageRecord, rec.status = "Running",
         NEW new, new = Append(trail, rec)
  PROVE  /\ new \in Seq(StageRecord) /\ new # trail
         /\ \A S : Ended(trail, S) /\ rec.stage \notin S => Ended(new, S)
         /\ \A q : Begins(new, q) <=> Begins(trail, q) \/ rec.stage \in Range(Phases[q])
         /\ \A S, T : Within(trail, S) /\ S \cup {rec.stage} \subseteq T => Within(new, T)
         /\ \A S, O : Once(trail, O) /\ Within(trail, S) /\ rec.stage \notin S => Once(new, O)
         /\ Settled(trail) => Settled(new)
<1>1. PICK n \in Nat : n = Len(trail) OBVIOUS
<1>2. /\ new \in Seq(StageRecord) /\ Len(new) = n + 1
      /\ new[n + 1] = rec /\ \A i \in 1 .. n : new[i] = trail[i]
  BY <1>1
<1>3. new # trail BY <1>1, <1>2
<1>4. \A i \in 1 .. n + 1 : i \in 1 .. n \/ i = n + 1 BY <1>1
<1>5. \A i \in 1 .. n : i \in 1 .. n + 1 /\ n + 1 \in 1 .. n + 1 /\ i # n + 1 BY <1>1
<1>6. ASSUME NEW S, Ended(trail, S), rec.stage \notin S PROVE Ended(new, S)
  <2> SUFFICES ASSUME NEW s \in S
               PROVE  \E i \in 1 .. n + 1 :
                        /\ new[i].stage = s /\ new[i].status = "Completed"
                        /\ \A j \in 1 .. n + 1 : new[j].stage = s => j <= i
    BY <1>2 DEF Ended
  <2>1. PICK i \in 1 .. n : /\ trail[i].stage = s /\ trail[i].status = "Completed"
                            /\ \A j \in 1 .. n : trail[j].stage = s => j <= i
    BY <1>1, <1>6 DEF Ended
  <2>2. \A j \in 1 .. n + 1 : new[j].stage = s => j <= i
    <3>1. rec.stage # s BY <1>6
    <3> QED BY <1>2, <1>4, <2>1, <3>1
  <2> QED BY <1>2, <1>5, <2>1, <2>2
<1>7. \A q : Begins(new, q) <=> Begins(trail, q) \/ rec.stage \in Range(Phases[q])
  <2>1. n + 1 \in 1 .. n + 1 BY <1>1
  <2> QED BY <1>1, <1>2, <1>4, <1>5, <2>1 DEF Begins
<1>8. \A S, T : Within(trail, S) /\ S \cup {rec.stage} \subseteq T => Within(new, T)
  BY <1>1, <1>2, <1>4 DEF Within
<1>9. ASSUME NEW S, NEW O, Once(trail, O), Within(trail, S), rec.stage \notin S
      PROVE  Once(new, O)
  <2>1. \A i \in 1 .. n : new[i].stage # rec.stage BY <1>1, <1>2, <1>9 DEF Within
  <2>2. \A i, j \in 1 .. n + 1 : new[i].stage = new[j].stage => i = j
    BY <1>1, <1>2, <1>4, <1>9, <2>1 DEF Once
  <2>3. Done(new) = Done(trail)
    <3>1. Done(new) = {i \in 1 .. n + 1 : new[i].status = "Completed"} BY <1>2 DEF Done
    <3>2. Done(trail) = {i \in 1 .. n : trail[i].status = "Completed"} BY <1>1 DEF Done
    <3>3. n + 1 \notin Done(new) BY <1>2, <3>1
    <3> QED BY <1>2, <1>4, <1>5, <3>1, <3>2, <3>3
  <2>4. \A i \in Done(trail) : new[i] = trail[i] BY <1>1, <1>2 DEF Done
  <2>5. O = {new[i].stage : i \in Done(new)} BY <1>9, <2>3, <2>4, ZenonT(30) DEF Once
  <2> QED BY <1>2, <2>2, <2>5 DEF Once
<1>10. Settled(trail) => Settled(new)
  <2>1. \A i \in 1 .. n + 1 : new[i].status = "Completed" => i \in 1 .. n BY <1>2, <1>4
  <2> QED BY <1>1, <1>2, <2>1 DEF Settled
<1> QED BY <1>2, <1>3, <1>6, <1>7, <1>8, <1>9, <1>10

LEMMA RecordRewritten ==
  ASSUME NEW trail \in Seq(StageRecord), trail # <<>>, NEW rec \in StageRecord,
         rec.stage = trail[Len(trail)].stage,
         NEW new, new = [trail EXCEPT ![Len(trail)] = rec]
  PROVE  /\ new \in Seq(StageRecord)
         /\ \A S : Ended(trail, S) /\ rec.stage \notin S => Ended(new, S)
         /\ \A S, T : /\ Ended(trail, S) /\ rec.status = "Completed" /\ T \subseteq S \cup {rec.stage}
                      => Ended(new, T)
         /\ \A q : Begins(new, q) <=> Begins(trail, q)
         /\ \A S : Within(trail, S) => Within(new, S)
         /\ trail[Len(trail)].status # "Completed" =>
              \A O : Once(trail, O) =>
                       Once(new, IF rec.status = "Completed" THEN O \cup {rec.stage} ELSE O)
         /\ Settled(trail) /\ (rec.status = "Completed" =>
                                 rec.tasks.completed + rec.tasks.failed = rec.tasks.total)
            => Settled(new)
<1>1. PICK n \in Nat : n = Len(trail) OBVIOUS
<1>2. n > 0 /\ n \in 1 .. n BY <1>1
<1>3. /\ new \in Seq(StageRecord) /\ Len(new) = n
      /\ new[n] = rec /\ \A i \in 1 .. n : i # n => new[i] = trail[i]
  BY <1>1, <1>2
<1>4. \A i \in 1 .. n : new[i].stage = trail[i].stage BY <1>1, <1>3
<1>5. ASSUME NEW S, Ended(trail, S), rec.stage \notin S PROVE Ended(new, S)
  <2> SUFFICES ASSUME NEW s \in S
               PROVE  \E i \in 1 .. n :
                        /\ new[i].stage = s /\ new[i].status = "Completed"
                        /\ \A j \in 1 .. n : new[j].stage = s => j <= i
    BY <1>3 DEF Ended
  <2>1. PICK i \in 1 .. n : /\ trail[i].stage = s /\ trail[i].status = "Completed"
                            /\ \A j \in 1 .. n : trail[j].stage = s => j <= i
    BY <1>1, <1>5 DEF Ended
  <2>2. i # n BY <1>1, <1>5, <2>1
  <2> QED BY <1>3, <1>4, <2>1, <2>2
<1>6. ASSUME NEW S, NEW T, Ended(trail, S), rec.status = "Completed", T \subseteq S \cup {rec.stage}
      PROVE  Ended(new, T)
  <2>1. Ended(new, S \ {rec.stage})
    <3>1. Ended(trail, S \ {rec.stage}) BY <1>6 DEF Ended
    <3> QED BY <1>5, <3>1
  <2>2. \A j \in 1 .. n : j <= n BY <1>1
  <2>3. Ended(new, {rec.stage}) BY <1>2, <1>3, <1>6, <2>2 DEF Ended
  <2>4. \A s \in T : s \in S \ {rec.stage} \/ s \in {rec.stage} BY <1>6
  <2> QED BY <2>1, <2>3, <2>4 DEF Ended
<1>7. \A q : Begins(new, q) <=> Begins(trail, q) BY <1>1, <1>3, <1>4 DEF Begins
<1>8. \A S : Within(trail, S) => Within(new, S) BY <1>1, <1>3, <1>4 DEF Within
<1>9. ASSUME trail[n].status # "Completed", NEW O, Once(trail, O)
      PROVE  Once(new, IF rec.status = "Completed" THEN O \cup {rec.stage} ELSE O)
  <2>1. \A i, j \in 1 .. n : new[i].stage = new[j].stage => i = j BY <1>1, <1>4, <1>9 DEF Once
  <2>2. n \notin Done(trail) /\ \A i \in Done(trail) : i \in 1 .. n /\ i # n
    BY <1>1, <1>9 DEF Done
  <2>3. Done(new) = IF rec.status = "Completed" THEN Done(trail) \cup {n} ELSE Done(trail)
    <3>1. Done(new) = {i \in 1 .. n : new[i].status = "Completed"} BY <1>3 DEF Done
    <3>2. Done(trail) = {i \in 1 .. n : trail[i].status = "Completed"} BY <1>1 DEF Done
    <3>3. \A i \in 1 .. n : i # n => (i \in Done(new) <=> i \in Done(trail)) BY <1>3, <3>1, <3>2
    <3>4. n \in Done(new) <=> rec.status = "Completed" BY <1>2, <1>3, <3>1
    <3> QED BY <1>2, <2>2, <3>1, <3>2, <3>3, <3>4
  <2>4. \A i \in Done(trail) : new[i] = trail[i] BY <1>3, <2>2
  <2>5. O = {new[i].stage : i \in Done(trail)} BY <1>9, <2>4 DEF Once
  <2>6. {new[i].stage : i \in Done(new)}
          = IF rec.status = "Completed" THEN O \cup {rec.stage} ELSE O
    BY <1>3, <2>3, <2>5
  <2> QED BY <1>3, <2>1, <2>6 DEF Once
<1>10. ASSUME Settled(trail), rec.status = "Completed" =>
                                rec.tasks.completed + rec.tasks.failed = rec.tasks.total
       PROVE  Settled(new)
  <2>1. \A i \in 1 .. n : i # n /\ new[i].status = "Completed" =>
                            new[i].tasks.completed + new[i].tasks.failed = new[i].tasks.total
    BY <1>1, <1>3, <1>10 DEF Settled
  <2>2. new[n].status = "Completed" =>
          new[n].tasks.completed + new[n].tasks.failed = new[n].tasks.total
    BY <1>3, <1>10
  <2> QED BY <1>3, <2>1, <2>2 DEF Settled
<1> QED BY <1>1, <1>3, <1>5, <1>6, <1>7, <1>8, <1>9, <1>10

--------------------------------------------------------------------------------
(* What a step writes of the stage under way. *)

Last == context.trail[Len(context.trail)]

Writes(rec, status, tasks) ==
  /\ rec \in StageRecord
  /\ rec.stage = Stage /\ rec.status = status /\ rec.tasks = tasks
  /\ context'.trail = [context.trail EXCEPT ![Len(context.trail)] = rec]

LEMMA InsideIs ==
  ASSUME ShapeInv, TrailInv, task.pc = "inside"
  PROVE  /\ context.trail \in Seq(StageRecord) /\ context.trail # <<>>
         /\ Len(context.trail) \in Nat /\ Len(context.trail) > 0
         /\ Last \in StageRecord /\ Last.stage = Stage
         /\ DOMAIN context = {"trail", "outputs", "reports", "tracking"}
<1>1. Begun(context, Len(rows)) /\ context.trail # <<>> BY DEF ShapeInv, ContextShape
<1>2. context.trail \in Seq(StageRecord) /\ DOMAIN context = {"trail", "outputs", "reports", "tracking"}
  BY <1>1 DEF Begun
<1>3. Len(context.trail) \in Nat /\ Len(context.trail) > 0 BY <1>1, <1>2
<1>4. Last \in StageRecord BY <1>2, <1>3 DEF Last
<1>5. Last.stage = Stage BY DEF TrailInv, Last
<1> QED BY <1>1, <1>2, <1>3, <1>4, <1>5

LEMMA KeyTaskWrites ==
  ASSUME ShapeInv, ShapeInv', TrailInv, KeyTask
  PROVE  /\ \E rec : Writes(rec, Last.status, Telemetry(wave'))
         /\ task.pc = "inside" /\ UNCHANGED <<task, checkpoint>>
         /\ context'.outputs = context.outputs
<1> DEFINE n == Len(context.trail)
           rec == [Last EXCEPT !.tasks = Telemetry(wave')]
<1>1. /\ context' = [context EXCEPT !.trail[n].tasks = Telemetry(wave')] /\ task.pc = "inside"
      /\ UNCHANGED <<task, checkpoint>>
  BY DEF KeyTask
<1>2. /\ n \in Nat /\ n > 0 /\ Last \in StageRecord /\ Last.stage = Stage
      /\ context.trail \in Seq(StageRecord) /\ DOMAIN context = {"trail", "outputs", "reports", "tracking"}
  BY <1>1, InsideIs
<1>3. context'.trail = [context.trail EXCEPT ![n] = rec] /\ context'.outputs = context.outputs
  BY <1>1, <1>2 DEF Last
<1>4. rec \in StageRecord
  <2>1. context'.trail \in Seq(StageRecord) BY <1>1 DEF ShapeInv, ContextShape, Begun
  <2> HIDE DEF rec
  <2>2. n \in 1 .. Len(context'.trail) /\ context'.trail[n] = rec BY <1>2, <1>3
  <2> QED BY <2>1, <2>2
<1>5. rec.stage = Stage /\ rec.status = Last.status /\ rec.tasks = Telemetry(wave')
  BY <1>2 DEF StageRecord
<1> HIDE DEF rec
<1>6. Writes(rec, Last.status, Telemetry(wave')) BY <1>3, <1>4, <1>5 DEF Writes
<1> QED BY <1>1, <1>3, <1>6

LEMMA RecordedWrites ==
  ASSUME ShapeInv, TrailInv, task.pc = "inside", NEW status \in {"Running", "Completed", "Failed"},
         context'.trail = Recorded(status)
  PROVE  \E rec : Writes(rec, status, Last.tasks)
<1> DEFINE rec == [Last EXCEPT !.status = status]
<1>1. /\ Last \in StageRecord /\ Last.stage = Stage
      /\ context.trail \in Seq(StageRecord) /\ context.trail # <<>>
  BY InsideIs
<1>2. Recorded(status) = [context.trail EXCEPT ![Len(context.trail)] = rec]
  BY <1>1, RecordedIs DEF Last
<1>3. rec \in StageRecord BY <1>1, LastRecordIs DEF Last
<1>4. rec.stage = Stage /\ rec.status = status /\ rec.tasks = Last.tasks BY <1>1 DEF StageRecord
<1> HIDE DEF rec
<1> QED BY <1>2, <1>3, <1>4 DEF Writes

LEMMA StageEndWrites ==
  ASSUME ShapeInv, TrailInv, CompleteStage \/ TrackRun
  PROVE  /\ \E rec : Writes(rec, "Completed", Last.tasks)
         /\ task.pc = "inside" /\ task' = [task EXCEPT !.pc = "between"] /\ UNCHANGED checkpoint
         /\ context'.outputs = context.outputs \cup {Stage}
<1>1. /\ task.pc = "inside" /\ task' = [task EXCEPT !.pc = "between"] /\ UNCHANGED checkpoint
  BY DEF CompleteStage, TrackRun, Goes
<1>2. DOMAIN context = {"trail", "outputs", "reports", "tracking"} BY <1>1, InsideIs
<1>3. /\ context'.trail = Recorded("Completed")
      /\ context'.outputs = context.outputs \cup {Stage}
  <2>1. CASE CompleteStage BY <1>2, <2>1 DEF CompleteStage
  <2>2. CASE TrackRun BY <1>2, <2>2 DEF TrackRun
  <2> QED BY <2>1, <2>2
<1> QED BY <1>1, <1>3, RecordedWrites

LEMMA KeyStageEndWrites ==
  ASSUME ShapeInv, ShapeInv', TrailInv, CompleteKeyStage
  PROVE  /\ \E rec : Writes(rec, "Completed", Telemetry(wave))
         /\ task.pc = "inside" /\ task' = [task EXCEPT !.pc = "between"] /\ UNCHANGED checkpoint
         /\ context'.outputs = context.outputs \cup {Stage}
         /\ wave # NoWave /\ wave.pending = {}
<1> DEFINE n == Len(context.trail)
           old == [Last EXCEPT !.status = "Completed"]
           rec == [old EXCEPT !.tasks = Telemetry(wave)]
<1>1. /\ task.pc = "inside" /\ task' = [task EXCEPT !.pc = "between"] /\ UNCHANGED checkpoint
      /\ wave # NoWave /\ wave.pending = {}
  BY DEF CompleteKeyStage, Goes, CloseStage
<1>2. /\ n \in Nat /\ n > 0 /\ Last \in StageRecord /\ Last.stage = Stage
      /\ context.trail \in Seq(StageRecord) /\ DOMAIN context = {"trail", "outputs", "reports", "tracking"}
      /\ context.trail # <<>>
  BY <1>1, InsideIs
<1>3. /\ context'.trail = [Recorded("Completed") EXCEPT ![n].tasks = Telemetry(wave)]
      /\ context'.outputs = context.outputs \cup {Stage}
  BY <1>2 DEF CompleteKeyStage
<1>4. Recorded("Completed") = [context.trail EXCEPT ![n] = old]
  BY <1>2, RecordedIs DEF Last
<1>5. context'.trail = [context.trail EXCEPT ![n] = rec]
  <2> HIDE DEF old
  <2> QED BY <1>2, <1>3, <1>4
<1>6. rec \in StageRecord
  <2>1. context'.trail \in Seq(StageRecord) BY <1>1 DEF ShapeInv, ContextShape, Begun
  <2> HIDE DEF rec
  <2>2. n \in 1 .. Len(context'.trail) /\ context'.trail[n] = rec BY <1>2, <1>5
  <2> QED BY <2>1, <2>2
<1>7. rec.stage = Stage /\ rec.status = "Completed" /\ rec.tasks = Telemetry(wave)
  BY <1>2 DEF StageRecord
<1> HIDE DEF rec
<1>8. Writes(rec, "Completed", Telemetry(wave)) BY <1>5, <1>6, <1>7 DEF Writes
<1> QED BY <1>1, <1>3, <1>8

LEMMA FailWrites ==
  ASSUME ShapeInv, TrailInv, FailStage
  PROVE  /\ \E status \in {"Failed", Last.status} : \E rec : Writes(rec, status, Last.tasks)
         /\ task.pc = "inside" /\ UNCHANGED checkpoint
         /\ \E pc \in {"saving", "leaving"} : task' = [task EXCEPT !.pc = pc, !.why = "stage"]
<1>1. /\ task.pc = "inside" /\ UNCHANGED checkpoint
      /\ \E pc \in {"saving", "leaving"} : task' = [task EXCEPT !.pc = pc, !.why = "stage"]
  BY DEF FailStage
<1>2. PICK trail \in {Recorded("Failed"), context.trail} : FailTracking(trail)
  BY DEF FailStage
<1>3. DOMAIN context = {"trail", "outputs", "reports", "tracking"} BY <1>1, InsideIs
<1>4. context'.trail = trail BY <1>2, <1>3 DEF FailTracking
<1>5. CASE trail = Recorded("Failed") BY <1>1, <1>4, <1>5, RecordedWrites
<1>6. CASE trail = context.trail
  <2>1. /\ Last \in StageRecord /\ Last.stage = Stage /\ context.trail \in Seq(StageRecord)
        /\ Len(context.trail) > 0
    BY <1>1, InsideIs
  <2>2. context.trail = [context.trail EXCEPT ![Len(context.trail)] = Last] BY <2>1 DEF Last
  <2>3. Writes(Last, Last.status, Last.tasks) BY <1>4, <1>6, <2>1, <2>2 DEF Writes
  <2> QED BY <1>1, <2>3
<1> QED BY <1>1, <1>2, <1>5, <1>6

--------------------------------------------------------------------------------
(* Every step keeps the page in order. *)

LEMMA BegunIsSome == \A c, n : Begun(c, n) => c # NoContext
<1>1. "none" \in NoContext.outputs BY DEF NoContext, NewContext
<1> QED BY <1>1, PhasesApart DEF Begun

LEMMA LiveFollows ==
  ASSUME ShapeInv, ShapeInv', WriteLive,
         task.pc \notin {"waiting", "failed"}, task'.pc \notin {"waiting", "failed"}
  PROVE  /\ live' = IF context'.trail # context.trail THEN context'.trail ELSE live
         /\ live = context.trail => live' = context'.trail
<1>1. context # NoContext /\ context' # NoContext
  BY BegunIsSome DEF ShapeInv, ContextShape
<1> QED BY <1>1 DEF WriteLive

LEMMA LiveStays ==
  ASSUME WriteLive, context = NoContext \/ context' = NoContext \/ UNCHANGED context
  PROVE  UNCHANGED live
  BY DEF WriteLive

LEMMA EmptyIsInOrder ==
  /\ \A q : ~Begins(<<>>, q)
  /\ \A S : S = {} => \A trail : Ended(trail, S)
  /\ InOrder(<<>>, 1)
<1>1. Len(<<>>) = 0 /\ 1 .. 0 = {} OBVIOUS
<1>2. \A q : ~Begins(<<>>, q) BY <1>1 DEF Begins
<1>3. \A S : S = {} => \A trail : Ended(trail, S) BY DEF Ended
<1> QED BY <1>2, <1>3, NothingBefore DEF InOrder

LEMMA StartPage ==
  ASSUME PlaceInv, ShapeInv, PageInv, StartFirstTask \/ StartTask \/ LoadFails \/ Retry,
         UNCHANGED plan, WriteLive
  PROVE  PageInv'
<1> USE DEF plan
<1>1. LastPhase = 8 BY PhasesAre
<1>2. task.pc \in {"waiting", "failed"} /\ context = NoContext
  BY DEF StartFirstTask, StartTask, LoadFails, Retry, PageInv
<1>3. UNCHANGED live BY <1>2, LiveStays
<1>4. UNCHANGED checkpoint /\ UNCHANGED entry
  BY DEF StartFirstTask, StartTask, LoadFails, Retry
<1>5. Before(1) = {} /\ First(0, task.phase) = {} BY NothingBefore
<1>6. CASE StartFirstTask
  <2>1. PICK row : context' = NewContext(row) BY <1>6 DEF StartFirstTask
  <2>2. context'.trail = <<>> BY <2>1, NewContextsHaveTrails
  <2>3. task.phase = 1 /\ task' = [task EXCEPT !.pc = "between", !.step = 0] /\ task.why = "none"
    BY <1>6 DEF StartFirstTask, PlaceInv
  <2>4. task'.phase = 1 /\ task'.pc = "between" /\ task'.step = 0 /\ task'.why = "none"
    BY <2>3 DEF PlaceInv
  <2> QED BY <1>3, <1>4, <1>5, <2>2, <2>3, <2>4, EmptyIsInOrder DEF PageInv
<1>7. CASE StartTask
  <2>1. /\ task.phase \in 2 .. 8 /\ context' = checkpoint.context /\ task.pc = "waiting"
        /\ task' = [task EXCEPT !.pc = "between", !.step = 0]
    BY <1>1, <1>7 DEF StartTask
  <2>2. entry = "workflow" /\ task.why = "none" BY <1>1, <2>1 DEF PlaceInv
  <2>3. /\ task'.phase = task.phase /\ task'.pc = "between" /\ task'.step = 0
        /\ task'.why = "none"
    BY <2>1, <2>2 DEF PlaceInv
  <2> QED BY <1>3, <1>4, <1>5, <2>1, <2>2, <2>3, EmptyIsInOrder DEF PageInv
<1>8. CASE LoadFails \/ Retry
  <2>1. /\ task'.phase = task.phase /\ task'.pc \in {"waiting", "failed"} /\ task'.why # "stage"
        /\ UNCHANGED context
    BY <1>8 DEF LoadFails, Retry, PlaceInv
  <2> QED BY <1>2, <1>3, <1>4, <2>1 DEF PageInv
<1> QED BY <1>6, <1>7, <1>8

LEMMA BeginPage ==
  ASSUME PlaceInv, ShapeInv, ShapeInv', PageInv, BeginStage, UNCHANGED plan, WriteLive
  PROVE  PageInv'
<1> USE DEF plan
<1> DEFINE s == Phases[task.phase][task.step + 1]
           rec == [stage |-> s, status |-> "Running", tasks |-> NoTelemetry]
<1>1. LastPhase = 8 /\ \A p \in 1 .. 8 : Len(Phases[p]) \in Nat BY PhasesAre
<1>2. /\ task.pc = "between" /\ task.step < Len(Phases[task.phase]) /\ UNCHANGED <<checkpoint, entry>>
      /\ task' = [task EXCEPT !.pc = "inside", !.step = @ + 1]
      /\ context' = [context EXCEPT !.trail = Append(@, rec)]
  BY DEF BeginStage
<1>3. task.phase \in 1 .. 8 /\ task.step \in Nat BY <1>1, <1>2 DEF PlaceInv
<1>4. /\ s \in Range(Phases[task.phase]) /\ s \in Stages
      /\ s \notin Before(task.phase) \cup First(task.step, task.phase)
  BY <1>2, <1>3, NextStageIsNew
<1>5. /\ context.trail \in Seq(StageRecord)
      /\ DOMAIN context = {"trail", "outputs", "reports", "tracking"}
  BY <1>2 DEF ShapeInv, ContextShape, Begun
<1>6. context'.trail = Append(context.trail, rec) BY <1>2, <1>5
<1>7. rec \in StageRecord BY <1>4, NoTelemetryIs DEF StageRecord
<1>8. /\ task'.pc = "inside" /\ task'.phase = task.phase /\ task'.step - 1 = task.step
      /\ task'.why = task.why
  BY <1>2, <1>3 DEF PlaceInv
<1>9. rec.stage = s /\ rec.status = "Running" OBVIOUS
<1> HIDE DEF rec, s
<1>10. /\ context'.trail \in Seq(StageRecord) /\ context'.trail # context.trail
       /\ \A S : Ended(context.trail, S) /\ s \notin S => Ended(context'.trail, S)
       /\ \A q : Begins(context'.trail, q) <=> Begins(context.trail, q) \/ s \in Range(Phases[q])
  BY <1>5, <1>6, <1>7, <1>9, RecordBegun
<1>11. live' = context'.trail BY <1>2, <1>8, <1>10, LiveFollows
<1>12. InOrder(context.trail, task.phase) /\ Ended(context.trail, First(task.step, task.phase))
  BY <1>2 DEF PageInv
<1>13. InOrder(context'.trail, task.phase)
  <2>1. \A q \in 1 .. 8 : s \in Range(Phases[q]) => q = task.phase
    BY <1>3, <1>4, PhasesApart
  <2>2. \A q \in 1 .. 8 : Begins(context'.trail, q) => q <= task.phase
    BY <1>3, <1>10, <1>12, <2>1 DEF InOrder
  <2> QED BY <1>4, <1>10, <1>12, <2>2 DEF InOrder
<1>14. Ended(context'.trail, First(task'.step - 1, task'.phase)) BY <1>4, <1>8, <1>10, <1>12
<1>15. Begins(context'.trail, task.phase) BY <1>4, <1>10
<1>16. /\ entry = "workflow" => InOrder(checkpoint.context.trail, task.phase) BY DEF PageInv
<1> QED BY <1>2, <1>8, <1>10, <1>11, <1>13, <1>14, <1>15, <1>16 DEF PageInv

\* What a record of the stage under way leaves in order.
LEMMA WrittenInOrder ==
  ASSUME PlaceInv, ShapeInv, TrailInv, PageInv, task.pc = "inside",
         NEW rec, NEW status, NEW tasks, Writes(rec, status, tasks)
  PROVE  /\ context'.trail \in Seq(StageRecord)
         /\ InOrder(context'.trail, task.phase) /\ Begins(context'.trail, task.phase)
         /\ Ended(context'.trail, First(task.step - 1, task.phase))
         /\ status = "Completed" => Ended(context'.trail, First(task.step, task.phase))
<1> DEFINE new == context'.trail
           p == task.phase
<1>1. LastPhase = 8 BY PhasesAre
<1>2. p \in 1 .. 8 /\ task.step \in Nat /\ task.step >= 1 /\ task.step <= Len(Phases[p])
  BY <1>1 DEF PlaceInv
<1>3. Len(Phases[p]) \in Nat BY <1>1, <1>2, PhasesAre
<1>4. PICK n \in Nat : task.step = n + 1
  <2>1. task.step - 1 \in Nat /\ task.step = (task.step - 1) + 1 BY <1>2
  <2> QED BY <2>1
<1>5. Stage \notin Before(p) \cup First(n, p)
  <2>1. n < Len(Phases[p]) BY <1>2, <1>3, <1>4
  <2>2. Phases[p][n + 1] \notin Before(p) \cup First(n, p) BY <1>2, <2>1, NextStageIsNew
  <2> QED BY <1>4, <2>2 DEF Stage
<1> DEFINE old == context.trail
<1>6. /\ old \in Seq(StageRecord) /\ old # <<>>
      /\ rec \in StageRecord /\ rec.stage = old[Len(old)].stage
      /\ rec.stage = Stage /\ rec.status = status
      /\ new = [old EXCEPT ![Len(old)] = rec]
  BY InsideIs DEF Writes, Last
<1> HIDE DEF new, old
<1>7. /\ new \in Seq(StageRecord)
      /\ \A S : Ended(old, S) /\ rec.stage \notin S => Ended(new, S)
      /\ \A S, T : /\ Ended(old, S) /\ rec.status = "Completed" /\ T \subseteq S \cup {rec.stage}
                   => Ended(new, T)
      /\ \A q : Begins(new, q) <=> Begins(old, q)
  BY <1>6, RecordRewritten
<1>8. /\ InOrder(old, p) /\ Ended(old, First(n, p)) /\ Begins(live, p)
      /\ live = old
  <2>1. task.step - 1 = n BY <1>4
  <2> QED BY <2>1 DEF PageInv, old
<1>9. InOrder(new, p) /\ Begins(new, p) BY <1>5, <1>6, <1>7, <1>8 DEF InOrder
<1>10. Ended(new, First(n, p)) BY <1>5, <1>6, <1>7, <1>8
<1>11. First(n + 1, p) = First(n, p) \cup {Stage} BY <1>4, OneStageMore DEF Stage
<1>12. status = "Completed" => Ended(new, First(n + 1, p)) BY <1>6, <1>7, <1>8, <1>11
<1>13. task.step - 1 = n BY <1>4
<1> QED BY <1>4, <1>7, <1>9, <1>10, <1>12, <1>13 DEF new, old

LEMMA InsidePage ==
  ASSUME PlaceInv, ShapeInv, ShapeInv', TrailInv, PageInv, UNCHANGED plan, WriteLive,
         KeyTask \/ CompleteStage \/ CompleteKeyStage \/ TrackRun \/ FailStage
  PROVE  PageInv'
<1> USE DEF plan
<1>1. /\ task.pc = "inside" /\ UNCHANGED checkpoint
      /\ \E rec, status, tasks :
           /\ Writes(rec, status, tasks)
           /\ \/ UNCHANGED task
              \/ status = "Completed" /\ task' = [task EXCEPT !.pc = "between"]
              \/ \E pc \in {"saving", "leaving"} : task' = [task EXCEPT !.pc = pc, !.why = "stage"]
  <2>1. CASE KeyTask BY <2>1, KeyTaskWrites
  <2>2. CASE CompleteStage \/ TrackRun BY <2>2, StageEndWrites
  <2>3. CASE CompleteKeyStage BY <2>3, KeyStageEndWrites
  <2>4. CASE FailStage BY <2>4, FailWrites
  <2> QED BY <2>1, <2>2, <2>3, <2>4
<1>2. PICK rec, status, tasks :
           /\ Writes(rec, status, tasks)
           /\ \/ UNCHANGED task
              \/ status = "Completed" /\ task' = [task EXCEPT !.pc = "between"]
              \/ \E pc \in {"saving", "leaving"} : task' = [task EXCEPT !.pc = pc, !.why = "stage"]
  BY <1>1
<1>3. /\ context'.trail \in Seq(StageRecord)
      /\ InOrder(context'.trail, task.phase) /\ Begins(context'.trail, task.phase)
      /\ Ended(context'.trail, First(task.step - 1, task.phase))
      /\ status = "Completed" => Ended(context'.trail, First(task.step, task.phase))
  BY <1>1, <1>2, WrittenInOrder
<1>4. /\ task'.pc \in {"inside", "between", "saving", "leaving"}
      /\ task'.phase = task.phase /\ task'.step = task.step
      /\ task'.pc = "between" => status = "Completed"
      /\ task'.pc \in {"saving", "leaving"} => task'.why = "stage"
  BY <1>1, <1>2 DEF PlaceInv
<1>5. live = context.trail /\ (entry = "workflow" => InOrder(checkpoint.context.trail, task.phase))
  BY <1>1 DEF PageInv
<1>6. live' = context'.trail BY <1>1, <1>4, <1>5, LiveFollows
<1> HIDE DEF plan
<1>7. UNCHANGED entry BY DEF plan
<1> QED BY <1>1, <1>3, <1>4, <1>5, <1>6, <1>7 DEF PageInv

\* A phase all of whose stages have ended is over.
LEMMA PhaseEnds ==
  ASSUME NEW p \in 1 .. 8, NEW trail, InOrder(trail, p), Ended(trail, First(Len(Phases[p]), p))
  PROVE  Ended(trail, Before(p + 1)) /\ InOrder(trail, p + 1)
<1>1. LastPhase = 8 BY PhasesAre
<1>2. Before(p + 1) = Before(p) \cup First(Len(Phases[p]), p) BY <1>1, OnePhaseMore
<1>3. Ended(trail, Before(p + 1)) BY <1>2 DEF InOrder, Ended
<1> QED BY <1>3 DEF InOrder

LEMMA NextIsInOrder ==
  ASSUME NEW p \in 1 .. 8, NEW trail, InOrder(trail, p), Ended(trail, Before(p + 1))
  PROVE  InOrder(trail, p + 1)
  BY DEF InOrder

LEMMA EndPage ==
  ASSUME PlaceInv, ShapeInv, ShapeInv', PageInv, UNCHANGED plan, WriteLive,
         NextPhase \/ EndPhase \/ SaveCheckpoint \/ Leave \/ Crash
  PROVE  PageInv'
<1>1. LastPhase = 8 BY PhasesAre
<1>2. task.phase \in 1 .. 8 /\ task.pc \in {"between", "saving", "leaving", "inside"}
  BY <1>1 DEF PlaceInv, NextPhase, EndPhase, SaveCheckpoint, Leave, Crash, Goes
<1>3. UNCHANGED live
  <2>1. UNCHANGED context \/ context' = NoContext
    BY DEF NextPhase, EndPhase, SaveCheckpoint, Leave, Crash, ProcessEnds
  <2> QED BY <2>1, LiveStays
<1>4. UNCHANGED entry BY DEF plan
<1>5. Len(Phases[task.phase]) \in Nat /\ Len(Phases[task.phase]) > 0
  BY <1>2, PhasesAreNotEmpty
<1>a. ASSUME task.pc = "between", task.step = Len(Phases[task.phase])
      PROVE  /\ Ended(context.trail, Before(task.phase + 1)) /\ InOrder(context.trail, task.phase + 1)
             /\ live = context.trail
  <2>1. live = context.trail BY <1>5, <1>a DEF PageInv
  <2>2. InOrder(context.trail, task.phase)
        /\ Ended(context.trail, First(Len(Phases[task.phase]), task.phase))
    BY <1>a DEF PageInv
  <2> QED BY <1>2, <2>1, <2>2, PhaseEnds
<1>6. CASE NextPhase
  <2>1. /\ entry # "workflow" /\ UNCHANGED <<context, checkpoint>>
        /\ task.pc = "between" /\ task.step = Len(Phases[task.phase])
    BY <1>6 DEF NextPhase
  <2>2. task.why = "none" BY <2>1 DEF PlaceInv
  <2>3. CASE task' = [task EXCEPT !.phase = @ + 1, !.step = 0]
    <3>1. /\ task'.phase = task.phase + 1 /\ task'.step = 0 /\ task'.pc = "between"
          /\ task'.why = "none"
      BY <2>1, <2>2, <2>3 DEF PlaceInv
    <3>2. Ended(context.trail, First(0, task.phase + 1)) BY NothingBefore, EmptyIsInOrder
    <3>3. live \in Seq(StageRecord) BY DEF PageInv
    <3> QED BY <1>3, <1>4, <1>a, <2>1, <3>1, <3>2, <3>3 DEF PageInv
  <2>4. CASE task' = [task EXCEPT !.pc = "leaving"]
    <3>1. task'.phase = task.phase /\ task'.pc = "leaving" /\ task'.why = "none"
      BY <2>1, <2>2, <2>4 DEF PlaceInv
    <3>2. live \in Seq(StageRecord) /\ InOrder(context.trail, task.phase) BY <2>1 DEF PageInv
    <3> QED BY <1>3, <1>4, <1>a, <2>1, <3>1, <3>2 DEF PageInv
  <2> QED BY <1>6, <2>3, <2>4 DEF NextPhase
<1>7. CASE EndPhase
  <2>1. /\ UNCHANGED <<context, checkpoint>>
        /\ task.pc = "between" /\ task.step = Len(Phases[task.phase])
        /\ task' = [task EXCEPT !.pc = "saving"]
    BY <1>7 DEF EndPhase, Goes
  <2>2. task'.phase = task.phase /\ task'.pc = "saving" /\ task'.why = "none"
    BY <2>1 DEF PlaceInv
  <2>3. live \in Seq(StageRecord) /\ InOrder(context.trail, task.phase) BY <2>1 DEF PageInv
  <2>4. entry = "workflow" => InOrder(checkpoint.context.trail, task.phase) BY DEF PageInv
  <2> QED BY <1>3, <1>4, <1>a, <2>1, <2>2, <2>3, <2>4 DEF PageInv
<1>8. CASE SaveCheckpoint
  <2>1. task.pc = "saving" /\ UNCHANGED context BY <1>8 DEF SaveCheckpoint
  <2>2. /\ live = context.trail /\ live \in Seq(StageRecord)
        /\ InOrder(context.trail, task.phase)
        /\ task.why = "none" => Ended(context.trail, Before(task.phase + 1))
        /\ task.why = "stage" => Begins(live, task.phase)
        /\ entry = "workflow" => InOrder(checkpoint.context.trail, task.phase)
    BY <2>1 DEF PageInv
  <2>3. CASE /\ checkpoint' = [context |-> context, snapshot |-> executor]
             /\ task' = [task EXCEPT !.pc = "leaving"]
    <3>1. checkpoint'.context = context /\ task'.pc = "leaving" /\ task'.phase = task.phase
          /\ task'.why = task.why
      BY <2>3 DEF PlaceInv
    <3> QED BY <1>3, <1>4, <2>1, <2>2, <3>1 DEF PageInv
  <2>4. CASE /\ UNCHANGED checkpoint
             /\ task' = [task EXCEPT !.pc = "leaving",
                                     !.why = IF @ = "none" THEN "storage" ELSE @]
    <3>1. task'.pc = "leaving" /\ task'.phase = task.phase /\ task'.why # "none"
          /\ (task'.why = "stage" => task.why = "stage")
      BY <2>4 DEF PlaceInv
    <3> QED BY <1>3, <1>4, <2>1, <2>2, <2>4, <3>1 DEF PageInv
  <2> QED BY <1>8, <2>3, <2>4 DEF SaveCheckpoint
<1>9. CASE Leave
  <2>1. task.pc = "leaving" /\ context' = NoContext /\ UNCHANGED checkpoint
    BY <1>9 DEF Leave, ProcessEnds
  <2>2. /\ live = context.trail /\ live \in Seq(StageRecord)
        /\ InOrder(context.trail, task.phase)
        /\ task.why = "none" => Ended(context.trail, Before(task.phase + 1))
        /\ task.why = "stage" => Begins(live, task.phase)
        /\ entry = "workflow" =>
             /\ InOrder(checkpoint.context.trail, task.phase)
             /\ task.why = "none" => Ended(checkpoint.context.trail, Before(task.phase + 1))
    BY <2>1 DEF PageInv
  <2>3. CASE /\ task.why = "none"
             /\ task' = [task EXCEPT !.phase = @ + 1, !.pc = "waiting", !.step = 0]
    <3>1. task'.pc = "waiting" /\ task'.phase = task.phase + 1 /\ task'.why = "none"
      BY <2>3 DEF PlaceInv
    <3>2. InOrder(live, task.phase + 1) BY <1>2, <2>2, <2>3, NextIsInOrder
    <3>3. entry = "workflow" => InOrder(checkpoint.context.trail, task.phase + 1)
      BY <1>2, <2>2, <2>3, NextIsInOrder
    <3> QED BY <1>3, <1>4, <2>1, <2>2, <3>1, <3>2, <3>3 DEF PageInv
  <2>4. CASE task.why # "none" /\ task' = [task EXCEPT !.pc = "failed"]
    <3>1. task'.pc = "failed" /\ task'.phase = task.phase /\ task'.why = task.why
      BY <2>4 DEF PlaceInv
    <3> QED BY <1>3, <1>4, <2>1, <2>2, <3>1 DEF PageInv
  <2> QED BY <1>9, <2>3, <2>4 DEF Leave
<1>10. CASE Crash
  <2>1. /\ context' = NoContext /\ UNCHANGED checkpoint
        /\ task' = [task EXCEPT !.pc = "failed", !.why = "crash"]
    BY <1>10 DEF Crash, ProcessEnds
  <2>2. task'.pc = "failed" /\ task'.phase = task.phase /\ task'.why = "crash"
    BY <2>1 DEF PlaceInv
  <2>3. /\ live \in Seq(StageRecord) /\ InOrder(live, task.phase)
        /\ entry = "workflow" => InOrder(checkpoint.context.trail, task.phase)
    BY DEF PageInv
  <2> QED BY <1>3, <1>4, <2>1, <2>2, <2>3 DEF PageInv
<1> QED BY <1>6, <1>7, <1>8, <1>9, <1>10

--------------------------------------------------------------------------------
(* What the page makes of a trail. *)

LEMMA DisplayIs ==
  /\ DOMAIN DisplayPhases = 1 .. 8
  /\ \A p \in 1 .. 8 : DisplayPhases[p].stages = Range(Phases[p])
<1>0. \A p \in 1 .. 8 : Range(Phases[p]) = First(Len(Phases[p]), p) BY PhasesAre
<1>1. DisplayPhases[1].stages = Range(Phases[1])
  <2>1. Len(Phases[1]) = 6 BY DEF Phases
  <2>2. Range(Phases[1]) = {Phases[1][i] : i \in 1 .. 6}
    <3>1. Range(Phases[1]) = First(Len(Phases[1]), 1) BY <1>0
    <3> QED BY <2>1, <3>1 DEF First
  <2>3. 1 .. 6 = {1, 2, 3, 4, 5, 6} OBVIOUS
  <2>4. Range(Phases[1]) = {Phases[1][1], Phases[1][2], Phases[1][3],
                           Phases[1][4], Phases[1][5], Phases[1][6]}
    BY <2>2, <2>3
  <2>5. DisplayPhases[1].stages = {Phases[1][1], Phases[1][2], Phases[1][3],
                           Phases[1][4], Phases[1][5], Phases[1][6]}
    BY DEF DisplayPhases, Phases
  <2> QED BY <2>4, <2>5
<1>2. DisplayPhases[2].stages = Range(Phases[2])
  <2>1. Len(Phases[2]) = 2 BY DEF Phases
  <2>2. Range(Phases[2]) = {Phases[2][i] : i \in 1 .. 2}
    <3>1. Range(Phases[2]) = First(Len(Phases[2]), 2) BY <1>0
    <3> QED BY <2>1, <3>1 DEF First
  <2>3. 1 .. 2 = {1, 2} OBVIOUS
  <2>4. Range(Phases[2]) = {Phases[2][1], Phases[2][2]}
    BY <2>2, <2>3
  <2>5. DisplayPhases[2].stages = {Phases[2][1], Phases[2][2]}
    BY DEF DisplayPhases, Phases
  <2> QED BY <2>4, <2>5
<1>3. DisplayPhases[3].stages = Range(Phases[3])
  <2>1. Len(Phases[3]) = 1 BY DEF Phases
  <2>2. Range(Phases[3]) = {Phases[3][i] : i \in 1 .. 1}
    <3>1. Range(Phases[3]) = First(Len(Phases[3]), 3) BY <1>0
    <3> QED BY <2>1, <3>1 DEF First
  <2>3. 1 .. 1 = {1} OBVIOUS
  <2>4. Range(Phases[3]) = {Phases[3][1]}
    BY <2>2, <2>3
  <2>5. DisplayPhases[3].stages = {Phases[3][1]}
    BY DEF DisplayPhases, Phases
  <2> QED BY <2>4, <2>5
<1>4. DisplayPhases[4].stages = Range(Phases[4])
  <2>1. Len(Phases[4]) = 1 BY DEF Phases
  <2>2. Range(Phases[4]) = {Phases[4][i] : i \in 1 .. 1}
    <3>1. Range(Phases[4]) = First(Len(Phases[4]), 4) BY <1>0
    <3> QED BY <2>1, <3>1 DEF First
  <2>3. 1 .. 1 = {1} OBVIOUS
  <2>4. Range(Phases[4]) = {Phases[4][1]}
    BY <2>2, <2>3
  <2>5. DisplayPhases[4].stages = {Phases[4][1]}
    BY DEF DisplayPhases, Phases
  <2> QED BY <2>4, <2>5
<1>5. DisplayPhases[5].stages = Range(Phases[5])
  <2>1. Len(Phases[5]) = 1 BY DEF Phases
  <2>2. Range(Phases[5]) = {Phases[5][i] : i \in 1 .. 1}
    <3>1. Range(Phases[5]) = First(Len(Phases[5]), 5) BY <1>0
    <3> QED BY <2>1, <3>1 DEF First
  <2>3. 1 .. 1 = {1} OBVIOUS
  <2>4. Range(Phases[5]) = {Phases[5][1]}
    BY <2>2, <2>3
  <2>5. DisplayPhases[5].stages = {Phases[5][1]}
    BY DEF DisplayPhases, Phases
  <2> QED BY <2>4, <2>5
<1>6. DisplayPhases[6].stages = Range(Phases[6])
  <2>1. Len(Phases[6]) = 1 BY DEF Phases
  <2>2. Range(Phases[6]) = {Phases[6][i] : i \in 1 .. 1}
    <3>1. Range(Phases[6]) = First(Len(Phases[6]), 6) BY <1>0
    <3> QED BY <2>1, <3>1 DEF First
  <2>3. 1 .. 1 = {1} OBVIOUS
  <2>4. Range(Phases[6]) = {Phases[6][1]}
    BY <2>2, <2>3
  <2>5. DisplayPhases[6].stages = {Phases[6][1]}
    BY DEF DisplayPhases, Phases
  <2> QED BY <2>4, <2>5
<1>7. DisplayPhases[7].stages = Range(Phases[7])
  <2>1. Len(Phases[7]) = 2 BY DEF Phases
  <2>2. Range(Phases[7]) = {Phases[7][i] : i \in 1 .. 2}
    <3>1. Range(Phases[7]) = First(Len(Phases[7]), 7) BY <1>0
    <3> QED BY <2>1, <3>1 DEF First
  <2>3. 1 .. 2 = {1, 2} OBVIOUS
  <2>4. Range(Phases[7]) = {Phases[7][1], Phases[7][2]}
    BY <2>2, <2>3
  <2>5. DisplayPhases[7].stages = {Phases[7][1], Phases[7][2]}
    BY DEF DisplayPhases, Phases
  <2> QED BY <2>4, <2>5
<1>8. DisplayPhases[8].stages = Range(Phases[8])
  <2>1. Len(Phases[8]) = 2 BY DEF Phases
  <2>2. Range(Phases[8]) = {Phases[8][i] : i \in 1 .. 2}
    <3>1. Range(Phases[8]) = First(Len(Phases[8]), 8) BY <1>0
    <3> QED BY <2>1, <3>1 DEF First
  <2>3. 1 .. 2 = {1, 2} OBVIOUS
  <2>4. Range(Phases[8]) = {Phases[8][1], Phases[8][2]}
    BY <2>2, <2>3
  <2>5. DisplayPhases[8].stages = {Phases[8][1], Phases[8][2]}
    BY DEF DisplayPhases, Phases
  <2> QED BY <2>4, <2>5
<1>9. DOMAIN DisplayPhases = 1 .. 8 BY DEF DisplayPhases
<1>10. \A p \in 1 .. 8 : p = 1 \/ p = 2 \/ p = 3 \/ p = 4 \/ p = 5 \/ p = 6 \/ p = 7 \/ p = 8
  OBVIOUS
<1> QED BY Zenon, <1>1, <1>2, <1>3, <1>4, <1>5, <1>6, <1>7, <1>8, <1>9, <1>10

LEMMA MaxIs ==
  ASSUME NEW n \in Nat, NEW S \in SUBSET (1 .. n), S # {}
  PROVE  Max(S) \in S /\ \A j \in S : j <= Max(S)
<1>1. \E i \in S : \A j \in S : i >= j BY LargestExists
<1>2. Max(S) \in S /\ \A j \in S : Max(S) >= j BY <1>1 DEF Max
<1> QED BY <1>2

LEMMA ReportedIs ==
  ASSUME NEW trail \in Seq(StageRecord)
  PROVE  /\ DOMAIN Reported(trail) = {trail[i].stage : i \in 1 .. Len(trail)}
         /\ \A i \in 1 .. Len(trail) :
              (\A j \in 1 .. Len(trail) : trail[j].stage = trail[i].stage => j <= i) =>
                Reported(trail)[trail[i].stage] = trail[i]
         /\ \A s \in DOMAIN Reported(trail) :
              \E i \in 1 .. Len(trail) : trail[i].stage = s /\ Reported(trail)[s] = trail[i]
<1> DEFINE Of(s) == {i \in 1 .. Len(trail) : trail[i].stage = s}
<1>1. DOMAIN trail = 1 .. Len(trail) /\ Len(trail) \in Nat OBVIOUS
<1>2. Reported(trail) = [s \in {trail[i].stage : i \in 1 .. Len(trail)} |-> trail[Max(Of(s))]]
  BY <1>1 DEF Reported
<1>3. ASSUME NEW s, NEW i \in 1 .. Len(trail), trail[i].stage = s
      PROVE  /\ Max(Of(s)) \in 1 .. Len(trail) /\ trail[Max(Of(s))].stage = s /\ i <= Max(Of(s))
  <2>1. Of(s) \in SUBSET (1 .. Len(trail)) /\ i \in Of(s) BY <1>3
  <2>2. Max(Of(s)) \in Of(s) /\ i <= Max(Of(s)) BY <1>1, <2>1, MaxIs
  <2> QED BY <2>2
<1> HIDE DEF Of
<1>4. DOMAIN Reported(trail) = {trail[i].stage : i \in 1 .. Len(trail)} BY <1>2
<1>5. ASSUME NEW i \in 1 .. Len(trail),
             \A j \in 1 .. Len(trail) : trail[j].stage = trail[i].stage => j <= i
      PROVE  Reported(trail)[trail[i].stage] = trail[i]
  <2> DEFINE s == trail[i].stage
             m == Max(Of(s))
  <2>1. s \in {trail[k].stage : k \in 1 .. Len(trail)} OBVIOUS
  <2>2. Reported(trail)[s] = trail[m] BY <1>2, <2>1
  <2>3. m \in 1 .. Len(trail) /\ trail[m].stage = s /\ i <= m BY <1>3
  <2>4. m = i BY <1>1, <1>5, <2>3
  <2> QED BY <2>2, <2>4
<1>6. ASSUME NEW s \in DOMAIN Reported(trail)
      PROVE  \E i \in 1 .. Len(trail) : trail[i].stage = s /\ Reported(trail)[s] = trail[i]
  <2>1. PICK i \in 1 .. Len(trail) : trail[i].stage = s BY <1>4
  <2>2. Reported(trail)[s] = trail[Max(Of(s))] BY <1>2, <1>4
  <2> QED BY <1>3, <2>1, <2>2
<1> QED BY <1>4, <1>5, <1>6

LEMMA StatusIs ==
  ASSUME NEW trail \in Seq(StageRecord), NEW p \in 1 .. 8
  PROVE  LET status == PhaseStatus(Reported(trail), DisplayPhases[p])
         IN  /\ status \in {"Pending", "Running", "Completed", "Failed"}
             /\ status # "Pending" <=> Begins(trail, p)
             /\ status = "Completed" <=> Ended(trail, Range(Phases[p]))
<1> DEFINE reported == Reported(trail)
           S == Range(Phases[p])
           members == S \cap DOMAIN reported
           statuses == {reported[s].status : s \in members}
           status == PhaseStatus(reported, DisplayPhases[p])
<1>1. DisplayPhases[p].stages = S BY DisplayIs
<1>2. status = CASE members = {} -> "Pending"
                 [] "Failed" \in statuses -> "Failed"
                 [] members = S /\ statuses = {"Completed"} -> "Completed"
                 [] OTHER -> "Running"
  BY <1>1 DEF PhaseStatus
<1>3. members # {} <=> Begins(trail, p) BY ReportedIs DEF Begins
<1>4. "Failed" \in statuses => members # {} OBVIOUS
<1>5. members = S /\ statuses = {"Completed"} => members # {} /\ "Failed" \notin statuses OBVIOUS
<1>6. status \in {"Pending", "Running", "Completed", "Failed"}
      /\ (status = "Pending" <=> members = {})
      /\ (status = "Completed" <=> members = S /\ statuses = {"Completed"})
  <2> HIDE DEF members, statuses, S, status
  <2>1. CASE members = {} BY <1>2, <1>4, <1>5, <2>1
  <2>2. CASE "Failed" \in statuses BY <1>2, <1>4, <1>5, <2>2
  <2>3. CASE members = S /\ statuses = {"Completed"} BY <1>2, <1>4, <1>5, <2>3
  <2>4. CASE /\ members # {} /\ "Failed" \notin statuses
             /\ ~(members = S /\ statuses = {"Completed"})
    BY <1>2, <2>4
  <2> QED BY <2>1, <2>2, <2>3, <2>4
<1>7. S # {}
  <2>1. Len(Phases[p]) \in Nat /\ Len(Phases[p]) > 0 BY PhasesAreNotEmpty
  <2>2. S = First(Len(Phases[p]), p) BY PhasesAre
  <2>3. Phases[p][1] \in First(Len(Phases[p]), p) BY <2>1 DEF First
  <2> QED BY <2>2, <2>3
<1>8. ASSUME Ended(trail, S) PROVE members = S /\ statuses = {"Completed"}
  <2>1. ASSUME NEW s \in S PROVE s \in DOMAIN reported /\ reported[s].status = "Completed"
    <3>1. PICK i \in 1 .. Len(trail) : /\ trail[i].stage = s /\ trail[i].status = "Completed"
                                       /\ \A j \in 1 .. Len(trail) : trail[j].stage = s => j <= i
      BY <1>8 DEF Ended
    <3> QED BY <3>1, ReportedIs
  <2> QED BY <1>7, <2>1
<1>9. ASSUME members = S, statuses = {"Completed"} PROVE Ended(trail, S)
  <2> SUFFICES ASSUME NEW s \in S
               PROVE  \E i \in 1 .. Len(trail) :
                        /\ trail[i].stage = s /\ trail[i].status = "Completed"
                        /\ \A j \in 1 .. Len(trail) : trail[j].stage = s => j <= i
    BY DEF Ended
  <2> DEFINE Of == {i \in 1 .. Len(trail) : trail[i].stage = s}
  <2>1. s \in DOMAIN reported /\ reported[s].status = "Completed" BY <1>9
  <2>2. PICK k \in 1 .. Len(trail) : trail[k].stage = s BY <2>1, ReportedIs
  <2>3. Of \in SUBSET (1 .. Len(trail)) /\ k \in Of /\ Len(trail) \in Nat BY <2>2
  <2>4. PICK i \in Of : \A j \in Of : j <= i BY <2>3, LargestExists
  <2>5. /\ i \in 1 .. Len(trail) /\ trail[i].stage = s
        /\ \A j \in 1 .. Len(trail) : trail[j].stage = s => j <= i
    BY <2>4
  <2>6. reported[s] = trail[i] BY <2>5, ReportedIs
  <2> QED BY <2>1, <2>5, <2>6
<1> QED BY <1>3, <1>6, <1>8, <1>9

LEMMA StatusesAre ==
  ASSUME NEW trail \in Seq(StageRecord), NEW job,
         ~(trail = <<>> /\ job \in {"COMPLETED", "FAILED"})
  PROVE  LET statuses == StageStatuses(trail, job)
         IN  /\ DOMAIN statuses = 1 .. 8 /\ Len(statuses) = 8
             /\ \A p \in 1 .. 8 : statuses[p] = PhaseStatus(Reported(trail), DisplayPhases[p])
<1>1. StageStatuses(trail, job)
        = [p \in 1 .. 8 |-> PhaseStatus(Reported(trail), DisplayPhases[p])]
  BY DisplayIs DEF StageStatuses
<1> QED BY <1>1

\* The phases before have ended.
LEMMA EarlierEnded ==
  ASSUME NEW trail, NEW n \in 1 .. 9, InOrder(trail, n), NEW p \in 1 .. 8, p < n
  PROVE  Ended(trail, Range(Phases[p]))
<1>1. p \in 1 .. n - 1 OBVIOUS
<1>2. Range(Phases[p]) \subseteq Before(n) BY <1>1 DEF Before
<1> QED BY <1>2 DEF InOrder, Ended

LEMMA PageInit == ViewInit => PageInv
<1> SUFFICES ASSUME ViewInit PROVE PageInv
  OBVIOUS
<1>1. /\ task.phase = 1 /\ task.pc = "waiting" /\ task.why = "none"
      /\ context = NoContext /\ checkpoint = NoCheckpoint /\ live = <<>>
  BY DEF ViewInit, Init
<1>2. checkpoint.context.trail = <<>> BY <1>1, NewContextsHaveTrails DEF NoCheckpoint
<1>3. <<>> \in Seq(StageRecord) OBVIOUS
<1> QED BY <1>1, <1>2, <1>3, EmptyIsInOrder DEF PageInv

LEMMA ViewIsOfTheRun == ViewSpec => Spec
<1>1. ViewInit => Init BY DEF ViewInit
<1>2. [ViewNext]_viewVars => [Next]_vars BY DEF ViewNext, viewVars
<1> QED BY <1>1, <1>2, PTL DEF ViewSpec, Spec

LEMMA PageInductive == ViewSpec => []PageInv
<1> DEFINE Base == PlaceInv /\ ShapeInv /\ TrailInv
<1>1. Spec => []Base
  <2>1. OutcomeInv => PlaceInv /\ TrailInv BY DEF OutcomeInv, TrackingInv, OutputInv
  <2> QED BY <2>1, OutcomesInductive, ShapeInductive, PTL
<1>2. Base /\ Base' /\ PageInv /\ [ViewNext]_viewVars => PageInv'
  <2>1. ASSUME Base, Base', PageInv, ViewNext PROVE PageInv'
    <3>1. Step /\ UNCHANGED plan /\ WriteLive BY <2>1 DEF ViewNext, Next
    <3>2. CASE StartFirstTask \/ StartTask \/ LoadFails \/ Retry BY <2>1, <3>1, <3>2, StartPage
    <3>3. CASE BeginStage BY <2>1, <3>1, <3>3, BeginPage
    <3>4. CASE KeyTask \/ CompleteStage \/ CompleteKeyStage \/ TrackRun \/ FailStage
      BY <2>1, <3>1, <3>4, InsidePage
    <3>5. CASE NextPhase \/ EndPhase \/ SaveCheckpoint \/ Leave \/ Crash
      BY <2>1, <3>1, <3>5, EndPage
    <3> QED BY <3>1, <3>2, <3>3, <3>4, <3>5 DEF Step
  <2>2. ASSUME PageInv, UNCHANGED viewVars PROVE PageInv'
    BY <2>2 DEF PageInv, viewVars, vars, plan
  <2> QED BY <2>1, <2>2
<1> HIDE DEF Base
<1> QED BY <1>1, <1>2, PageInit, ViewIsOfTheRun, PTL DEF ViewSpec

\* "unreached phases stay visible as Pending": for any series, entry, faults and number
\* of retries, the trail of several processes, rewritten by tasks started again, shows a
\* phase as begun only when every stage of the phase before is done.
THEOREM PageIsInOrder == ViewSpec => []PhasesShowInOrder
<1>1. PlaceInv /\ PageInv => PhasesShowInOrder
  <2> SUFFICES ASSUME PlaceInv, PageInv,
                      NEW i \in 1 .. Len(StageStatuses(live, JobStatus)) - 1,
                      StageStatuses(live, JobStatus)[i + 1] # "Pending"
               PROVE  StageStatuses(live, JobStatus)[i] = "Completed"
    BY DEF PhasesShowInOrder
  <2>1. live \in Seq(StageRecord) /\ InOrder(live, task.phase) BY DEF PageInv
  <2>2. LastPhase = 8 BY PhasesAre
  <2>3. task.phase \in 1 .. 9 BY <2>2 DEF PlaceInv
  <2>4. ~(live = <<>> /\ JobStatus \in {"COMPLETED", "FAILED"})
    <3> SUFFICES ASSUME live = <<>>, JobStatus \in {"COMPLETED", "FAILED"} PROVE FALSE
      OBVIOUS
    <3>1. StageStatuses(live, JobStatus) = <<>> BY DEF StageStatuses
    <3>2. Len(<<>>) = 0 OBVIOUS
    <3> QED BY <3>1, <3>2
  <2>5. i \in 1 .. 7 BY <2>1, <2>4, StatusesAre, SMTT(30)
  <2>6. Begins(live, i + 1) BY <2>1, <2>4, <2>5, StatusesAre, StatusIs
  <2>7. i < task.phase BY <2>1, <2>3, <2>5, <2>6 DEF InOrder
  <2>8. Ended(live, Range(Phases[i])) BY <2>1, <2>3, <2>5, <2>7, EarlierEnded
  <2> QED BY <2>1, <2>4, <2>5, <2>8, StatusesAre, StatusIs
<1>2. OutputInv => PlaceInv BY DEF OutputInv
<1> QED BY <1>1, <1>2, PageInductive, OutputsInductive, ViewIsOfTheRun, PTL

--------------------------------------------------------------------------------
(* Completed records are settled, and have one stage each. *)

LEMMA TelemetrySettles ==
  ASSUME NEW w, NEW ex, Built(ex), FanOutOK(w, ex), w.pending = {}
  PROVE  Telemetry(w).completed + Telemetry(w).failed = Telemetry(w).total
<1>1. Cardinality(w.pending) = 0 BY FS_EmptySet
<1>2. Len(w.results) \in Nat /\ w.total \in Nat BY DEF FanOutOK
<1> QED BY <1>1, <1>2 DEF Telemetry

LEMMA NothingSettled == Settled(<<>>) /\ Once(<<>>, {}) /\ \A S : Within(<<>>, S)
<1>1. Len(<<>>) = 0 /\ 1 .. 0 = {} OBVIOUS
<1>2. Settled(<<>>) /\ \A S : Within(<<>>, S) BY <1>1 DEF Settled, Within
<1>3. Done(<<>>) = {} BY <1>1 DEF Done
<1>4. Once(<<>>, {}) BY <1>1, <1>3 DEF Once
<1> QED BY <1>2, <1>4

\* What is written of the stage under way can be told from the fan-out.
LEMMA LastIsSettled ==
  ASSUME KeyInv, ShapeInv, SettledInv, task.pc = "inside"
  PROVE  /\ wave = NoWave \/ wave.pending = {} =>
              Last.tasks.completed + Last.tasks.failed = Last.tasks.total
         /\ CompleteStage => wave = NoWave
         /\ TrackRun => wave = NoWave \/ wave.pending = {}
         /\ KeyTask => wave # NoWave /\ wave' # NoWave
<1>1. NoTelemetry.completed + NoTelemetry.failed = NoTelemetry.total BY DEF NoTelemetry
<1>2. wave # NoWave => Built(executor) /\ FanOutOK(wave, executor) BY DEF ShapeInv, KeyShape
<1>3. wave # NoWave /\ wave.pending = {} =>
        Telemetry(wave).completed + Telemetry(wave).failed = Telemetry(wave).total
  BY <1>2, TelemetrySettles
<1>4. /\ Last.tasks \in {NoTelemetry, Telemetry(wave)}
      /\ wave = NoWave => Last.tasks = NoTelemetry
  BY DEF SettledInv, Last
<1>5. wave = NoWave \/ wave.pending = {} =>
        Last.tasks.completed + Last.tasks.failed = Last.tasks.total
  BY <1>1, <1>3, <1>4
<1>6. CompleteStage => wave = NoWave BY DEF CompleteStage, KeyInv, WaveInv
<1>7. TrackRun => wave = NoWave \/ wave.pending = {} BY DEF TrackRun, CloseStage
<1>8. ASSUME KeyTask PROVE wave # NoWave /\ wave' # NoWave
  <2>1. PICK k \in Keys : CollectKey(k) \/ DropKey(k) BY <1>8 DEF KeyTask
  <2>2. k \in wave.pending BY <2>1 DEF CollectKey, DropKey, Ends
  <2>3. wave # NoWave BY <2>2 DEF NoWave
  <2>4. wave'.stage = wave.stage
    <3>1. DOMAIN wave = {"stage", "total", "pending", "results"} BY DEF KeyInv, WaveInv
    <3> QED BY <2>1, <3>1 DEF CollectKey, DropKey
  <2>5. wave.stage # "none" BY <1>2, <2>3 DEF FanOutOK, KeyStages, Publishing
  <2>6. NoWave.stage = "none" BY DEF NoWave
  <2> QED BY <2>3, <2>4, <2>5, <2>6
<1> QED BY <1>5, <1>6, <1>7, <1>8

LEMMA LiveIsEither ==
  ASSUME WriteLive PROVE live' = live \/ live' = context'.trail
  BY DEF WriteLive

SettledBase == KeyInv /\ ShapeInv /\ TrailInv

LEMMA SettledStep ==
  ASSUME SettledBase, SettledBase', PageInv, SettledInv, Step, WriteLive
  PROVE  SettledInv'
<1> USE DEF SettledBase
<1>1. Settled(context.trail) /\ Settled(checkpoint.context.trail) /\ Settled(live)
  BY DEF SettledInv
<1>2. Settled(context'.trail) => Settled(live') BY <1>1, LiveIsEither
<1>3. task'.pc = "inside" => (Last.stage = Stage)'
  <2>1. (TrailInv)' OBVIOUS
  <2> QED BY <2>1 DEF TrailInv, Last
<1>4. CASE StartFirstTask \/ StartTask \/ Leave \/ Crash
  <2>1. task'.pc # "inside" /\ UNCHANGED checkpoint
    BY <1>4 DEF StartFirstTask, StartTask, Leave, Crash, ProcessEnds, KeyInv, OutputInv, PlaceInv
  <2>2. \/ \E row : context' = NewContext(row)
        \/ context' = checkpoint.context
        \/ context' = NoContext
    BY <1>4 DEF StartFirstTask, StartTask, Leave, Crash, ProcessEnds
  <2>3. Settled(context'.trail) BY <1>1, <2>2, NewContextsHaveTrails, NothingSettled
  <2> QED BY <1>1, <1>2, <2>1, <2>3 DEF SettledInv
<1>5. CASE LoadFails \/ Retry \/ NextPhase \/ EndPhase \/ SaveCheckpoint
  <2>1. UNCHANGED context /\ (UNCHANGED checkpoint \/ checkpoint'.context = context)
    BY <1>5 DEF LoadFails, Retry, NextPhase, EndPhase, SaveCheckpoint
  <2>2. task'.pc # "inside"
    BY <1>5 DEF LoadFails, Retry, NextPhase, EndPhase, SaveCheckpoint, Goes,
       KeyInv, OutputInv, PlaceInv
  <2> QED BY <1>1, <1>2, <2>1, <2>2 DEF SettledInv
<1>6. CASE BeginStage
  <2> DEFINE s == Phases[task.phase][task.step + 1]
             rec == [stage |-> s, status |-> "Running", tasks |-> NoTelemetry]
             n == Len(context.trail)
  <2>1. UNCHANGED checkpoint /\ context' = [context EXCEPT !.trail = Append(@, rec)]
        /\ task.pc = "between"
    BY <1>6 DEF BeginStage
  <2>2. /\ context.trail \in Seq(StageRecord)
        /\ DOMAIN context = {"trail", "outputs", "reports", "tracking"}
    BY <2>1 DEF ShapeInv, ContextShape, Begun
  <2>3. context'.trail = Append(context.trail, rec) BY <2>1, <2>2
  <2>4. n \in Nat /\ Len(context'.trail) = n + 1 /\ context'.trail[n + 1] = rec BY <2>2, <2>3
  <2>5. rec.status = "Running" /\ rec.tasks = NoTelemetry OBVIOUS
  <2>6. task'.pc = "inside" BY <1>6 DEF BeginStage, KeyInv, OutputInv, PlaceInv
  <2>7. rec \in StageRecord
    <3>1. context'.trail \in Seq(StageRecord) BY <2>6 DEF ShapeInv, ContextShape, Begun
    <3> HIDE DEF rec
    <3>2. n + 1 \in 1 .. Len(context'.trail) BY <2>4
    <3> QED BY <2>4, <3>1, <3>2
  <2> HIDE DEF rec, s, n
  <2>8. Settled(context'.trail) BY <1>1, <2>2, <2>3, <2>5, <2>7, RecordBegun
  <2>9. Last' = rec BY <2>4 DEF Last
  <2> QED BY <1>1, <1>2, <1>3, <2>1, <2>5, <2>6, <2>8, <2>9 DEF SettledInv, Last
<1>a. ASSUME task.pc = "inside", NEW rec, NEW status, NEW tasks, Writes(rec, status, tasks),
             status = "Completed" => tasks.completed + tasks.failed = tasks.total
      PROVE  /\ Settled(context'.trail)
             /\ task'.pc = "inside" => Last'.status = status /\ Last'.tasks = tasks
  <2> DEFINE old == context.trail
             new == context'.trail
  <2>1. /\ old \in Seq(StageRecord) /\ old # <<>> /\ Len(old) \in Nat /\ Len(old) > 0
        /\ rec \in StageRecord /\ rec.stage = old[Len(old)].stage
        /\ rec.status = status /\ rec.tasks = tasks
        /\ new = [old EXCEPT ![Len(old)] = rec]
    BY <1>a, InsideIs DEF Writes, Last
  <2>2. Settled(old) BY <1>1
  <2> HIDE DEF old, new
  <2>3. Settled(new) BY <1>a, <2>1, <2>2, RecordRewritten
  <2>4. Len(new) = Len(old) /\ new[Len(new)] = rec BY <2>1
  <2>5. Last' = rec BY <2>4 DEF Last, new
  <2> QED BY <2>1, <2>3, <2>5 DEF new
<1>7. CASE KeyTask
  <2>1. /\ task.pc = "inside" /\ task'.pc = "inside" /\ UNCHANGED checkpoint
        /\ \E rec : Writes(rec, Last.status, Telemetry(wave'))
    BY <1>7, KeyTaskWrites
  <2>2. Last.status = "Running" BY <2>1 DEF SettledInv, Last
  <2>3. /\ Settled(context'.trail) /\ Last'.status = "Running" /\ Last'.tasks = Telemetry(wave)'
        /\ wave' # NoWave
    BY <1>7, <1>a, <2>1, <2>2, LastIsSettled
  <2> QED BY <1>1, <1>2, <1>3, <2>1, <2>3 DEF SettledInv, Last
<1>8. CASE CompleteStage \/ TrackRun
  <2>1. /\ task.pc = "inside" /\ task'.pc # "inside" /\ UNCHANGED checkpoint
        /\ \E rec : Writes(rec, "Completed", Last.tasks)
    BY <1>8, StageEndWrites DEF KeyInv, OutputInv, PlaceInv
  <2>2. Last.tasks.completed + Last.tasks.failed = Last.tasks.total
    BY <1>8, <2>1, LastIsSettled
  <2>3. Settled(context'.trail) BY <1>a, <2>1, <2>2
  <2> QED BY <1>1, <1>2, <2>1, <2>3 DEF SettledInv
<1>9. CASE CompleteKeyStage
  <2>1. /\ task.pc = "inside" /\ task'.pc # "inside" /\ UNCHANGED checkpoint
        /\ \E rec : Writes(rec, "Completed", Telemetry(wave))
        /\ wave # NoWave /\ wave.pending = {}
    BY <1>9, KeyStageEndWrites DEF KeyInv, OutputInv, PlaceInv
  <2>2. Telemetry(wave).completed + Telemetry(wave).failed = Telemetry(wave).total
    <3>1. Built(executor) /\ FanOutOK(wave, executor) BY <2>1 DEF ShapeInv, KeyShape
    <3> QED BY <2>1, <3>1, TelemetrySettles
  <2>3. Settled(context'.trail) BY <1>a, <2>1, <2>2
  <2> QED BY <1>1, <1>2, <2>1, <2>3 DEF SettledInv
<1>10. CASE FailStage
  <2>1. /\ task.pc = "inside" /\ task'.pc # "inside" /\ UNCHANGED checkpoint
        /\ \E status \in {"Failed", Last.status} : \E rec : Writes(rec, status, Last.tasks)
    BY <1>10, FailWrites DEF KeyInv, OutputInv, PlaceInv
  <2>2. Last.status = "Running" BY <2>1 DEF SettledInv, Last
  <2>3. Settled(context'.trail) BY <1>a, <2>1, <2>2
  <2> QED BY <1>1, <1>2, <2>1, <2>3 DEF SettledInv
<1> QED BY <1>4, <1>5, <1>6, <1>7, <1>8, <1>9, <1>10 DEF Step

LEMMA OnceStart ==
  ASSUME PlaceInv, RetryInv, PageInv, OnceInv, StartFirstTask \/ StartTask \/ LoadFails \/ Retry,
         UNCHANGED plan, WriteLive
  PROVE  OnceInv'
<1> USE DEF plan
<1>1. LastPhase = 8 BY PhasesAre
<1>2. task.pc \in {"waiting", "failed"} /\ context = NoContext
  BY DEF StartFirstTask, StartTask, LoadFails, Retry, PageInv
<1>3. UNCHANGED live BY <1>2, LiveStays
<1>4. Before(1) = {} /\ First(0, task.phase) = {} BY NothingBefore
<1>5. CASE StartFirstTask
  <2>1. /\ task.phase = 1 /\ task.pc = "waiting"
        /\ task' = [task EXCEPT !.pc = "between", !.step = 0]
        /\ \E row : context' = NewContext(row)
    BY <1>5 DEF StartFirstTask
  <2>2. context'.trail = <<>> /\ context'.outputs = {}
    BY <2>1, NewContextsHaveTrails, NewContextsHaveOutputs
  <2>3. task'.pc = "between" /\ task'.retries = task.retries BY <2>1 DEF PlaceInv
  <2>4. task.retries = 0 => live = <<>> BY <2>1 DEF OnceInv
  <2>5. Once(context'.trail, context'.outputs) BY <2>2, NothingSettled
  <2>6. \A S : Within(context'.trail, S) BY <2>2, NothingSettled
  <2> QED BY <1>3, <2>2, <2>3, <2>4, <2>5, <2>6 DEF OnceInv
<1>6. CASE StartTask
  <2>1. /\ task.phase \in 2 .. 8 /\ task.pc = "waiting" /\ context' = checkpoint.context
        /\ task' = [task EXCEPT !.pc = "between", !.step = 0]
    BY <1>1, <1>6 DEF StartTask
  <2>2. entry = "workflow" BY <1>1, <2>1 DEF PlaceInv
  <2>3. /\ task'.pc = "between" /\ task'.retries = task.retries
        /\ task'.phase = task.phase /\ task'.step = 0
    BY <2>1 DEF PlaceInv
  <2>4. task.retries = 0 =>
          /\ Once(context'.trail, context'.outputs) /\ live = context'.trail
          /\ Within(context'.trail, Before(task.phase))
    BY <1>1, <2>1, <2>2 DEF OnceInv
  <2>5. Before(task'.phase) \cup First(task'.step, task'.phase) = Before(task.phase)
    BY <1>4, <2>3
  <2> QED BY <1>3, <2>3, <2>4, <2>5 DEF OnceInv
<1>7. CASE LoadFails
  <2>1. task'.pc = "failed" BY <1>7 DEF LoadFails, PlaceInv
  <2> QED BY <2>1 DEF OnceInv
<1>8. CASE Retry
  <2>1. task'.retries # 0 BY <1>8 DEF Retry, PlaceInv, RetryInv
  <2> QED BY <2>1 DEF OnceInv
<1> QED BY <1>5, <1>6, <1>7, <1>8

LEMMA OnceBegin ==
  ASSUME PlaceInv, ShapeInv, ShapeInv', PageInv, PageInv', OnceInv, BeginStage, UNCHANGED plan, WriteLive
  PROVE  OnceInv'
<1> USE DEF plan
<1> DEFINE s == Phases[task.phase][task.step + 1]
           rec == [stage |-> s, status |-> "Running", tasks |-> NoTelemetry]
           old == context.trail
           new == context'.trail
<1>1. LastPhase = 8 /\ \A p \in 1 .. 8 : Len(Phases[p]) \in Nat BY PhasesAre
<1>2. /\ task.pc = "between" /\ task.step < Len(Phases[task.phase]) /\ UNCHANGED <<checkpoint, entry>>
      /\ task' = [task EXCEPT !.pc = "inside", !.step = @ + 1]
      /\ context' = [context EXCEPT !.trail = Append(@, rec)]
  BY DEF BeginStage
<1>3. task.phase \in 1 .. 8 /\ task.step \in Nat BY <1>1, <1>2 DEF PlaceInv
<1>4. s \in Stages /\ s \notin Before(task.phase) \cup First(task.step, task.phase)
  BY <1>2, <1>3, NextStageIsNew
<1>5. old \in Seq(StageRecord) /\ DOMAIN context = {"trail", "outputs", "reports", "tracking"}
  BY <1>2 DEF ShapeInv, ContextShape, Begun
<1>6. new = Append(old, rec) /\ context'.outputs = context.outputs BY <1>2, <1>5
<1>7. rec \in StageRecord BY <1>4, NoTelemetryIs DEF StageRecord
<1>8. /\ task'.pc = "inside" /\ task'.phase = task.phase /\ task'.step = task.step + 1
      /\ task'.retries = task.retries
  BY <1>2 DEF PlaceInv
<1>9. rec.stage = s /\ rec.status = "Running" OBVIOUS
<1>10. First(task'.step, task'.phase) = First(task.step, task.phase) \cup {s}
  BY <1>3, <1>8, OneStageMore
<1> DEFINE W == Before(task.phase) \cup First(task.step, task.phase)
<1>11. task.retries = 0 => Once(old, context.outputs) /\ Within(old, W) BY <1>2 DEF OnceInv
<1>12. W \cup {s} = Before(task'.phase) \cup First(task'.step, task'.phase) BY <1>8, <1>10
<1>13. live' = new BY <1>8 DEF PageInv
<1>a. s \notin W BY <1>4
<1> HIDE DEF rec, s, old, new, W
<1>14. task.retries = 0 => Once(new, context.outputs) /\ Within(new, W \cup {s})
  <2>1. /\ \A S, T : Within(old, S) /\ S \cup {s} \subseteq T => Within(new, T)
        /\ \A S, O : Once(old, O) /\ Within(old, S) /\ s \notin S => Once(new, O)
    BY <1>5, <1>6, <1>7, <1>9, RecordBegun
  <2> QED BY <1>a, <1>11, <2>1
<1> QED BY <1>6, <1>8, <1>12, <1>13, <1>14 DEF OnceInv, new

LEMMA OnceInside ==
  ASSUME PlaceInv, ShapeInv, ShapeInv', TrailInv, PageInv', SettledInv, OnceInv,
         UNCHANGED plan, WriteLive,
         KeyTask \/ CompleteStage \/ CompleteKeyStage \/ TrackRun \/ FailStage
  PROVE  OnceInv'
<1> USE DEF plan
<1>1. CASE FailStage
  <2>1. task'.pc \in {"saving", "leaving"} /\ task'.why = "stage" BY <1>1, FailWrites DEF PlaceInv
  <2> QED BY <2>1 DEF OnceInv
<1>2. CASE KeyTask \/ CompleteStage \/ CompleteKeyStage \/ TrackRun
  <2>1. /\ task.pc = "inside" /\ UNCHANGED checkpoint
        /\ \E rec, status, tasks :
             /\ Writes(rec, status, tasks)
             /\ \/ UNCHANGED task /\ status = Last.status /\ context'.outputs = context.outputs
                \/ /\ status = "Completed" /\ task' = [task EXCEPT !.pc = "between"]
                   /\ context'.outputs = context.outputs \cup {Stage}
    <3>1. CASE KeyTask BY <3>1, KeyTaskWrites
    <3>2. CASE CompleteStage \/ TrackRun BY <3>2, StageEndWrites
    <3>3. CASE CompleteKeyStage BY <3>3, KeyStageEndWrites
    <3> QED BY <1>2, <3>1, <3>2, <3>3
  <2>2. PICK rec, status, tasks :
          /\ Writes(rec, status, tasks)
          /\ \/ UNCHANGED task /\ status = Last.status /\ context'.outputs = context.outputs
             \/ /\ status = "Completed" /\ task' = [task EXCEPT !.pc = "between"]
                /\ context'.outputs = context.outputs \cup {Stage}
    BY <2>1
  <2> DEFINE old == context.trail
             new == context'.trail
             W == Before(task.phase) \cup First(task.step, task.phase)
  <2>3. /\ old \in Seq(StageRecord) /\ old # <<>>
        /\ rec \in StageRecord /\ rec.stage = old[Len(old)].stage
        /\ rec.stage = Stage /\ rec.status = status
        /\ new = [old EXCEPT ![Len(old)] = rec]
    BY <2>1, <2>2, InsideIs DEF Writes, Last
  <2>4. old[Len(old)].status = "Running" /\ Last.status = "Running" BY <2>1 DEF SettledInv, Last
  <2>5. /\ task'.pc \in {"between", "inside"} /\ task'.phase = task.phase /\ task'.step = task.step
        /\ task'.retries = task.retries
    BY <2>1, <2>2 DEF PlaceInv
  <2>6. task.retries = 0 => Once(old, context.outputs) /\ Within(old, W) BY <2>1 DEF OnceInv
  <2>7. live' = new
    <3>1. task'.pc = "inside" => live' = new BY DEF PageInv
    <3>2. task'.pc = "between" /\ task'.step > 0 => live' = new BY DEF PageInv
    <3>3. task.step > 0 BY <2>1 DEF PlaceInv
    <3> QED BY <2>5, <3>1, <3>2, <3>3
  <2> HIDE DEF old, new, W
  <2>8. task.retries = 0 => Within(new, W)
    <3>1. \A S : Within(old, S) => Within(new, S) BY <2>3, RecordRewritten
    <3> QED BY <2>6, <3>1
  <2>9. task.retries = 0 =>
          Once(new, IF status = "Completed" THEN context.outputs \cup {Stage} ELSE context.outputs)
    <3>1. old[Len(old)].status # "Completed" BY <2>4
    <3> QED BY <2>3, <2>6, <3>1, RecordRewritten
  <2>10. task.retries = 0 => Once(new, context'.outputs) BY <2>2, <2>4, <2>9
  <2> QED BY <2>5, <2>7, <2>8, <2>10 DEF OnceInv, new, W
<1> QED BY <1>1, <1>2

LEMMA OnceEnd ==
  ASSUME PlaceInv, ShapeInv, ShapeInv', OnceInv, UNCHANGED plan, WriteLive,
         NextPhase \/ EndPhase \/ SaveCheckpoint \/ Leave \/ Crash
  PROVE  OnceInv'
<1> USE DEF plan
<1>1. LastPhase = 8 BY PhasesAre
<1>2. task.phase \in 1 .. 8 /\ task.pc \in {"between", "saving", "leaving", "inside"}
  BY <1>1 DEF PlaceInv, NextPhase, EndPhase, SaveCheckpoint, Leave, Crash, Goes
<1>3. UNCHANGED live
  <2>1. context' = NoContext \/ UNCHANGED context
    BY DEF NextPhase, EndPhase, SaveCheckpoint, Leave, Crash, ProcessEnds
  <2> QED BY <2>1, LiveStays
<1>a. ASSUME task.pc = "between", task.step = Len(Phases[task.phase]), task.retries = 0
      PROVE  Within(context.trail, Before(task.phase + 1))
  <2>1. Before(task.phase + 1) = Before(task.phase) \cup First(task.step, task.phase)
    BY <1>1, <1>2, <1>a, OnePhaseMore
  <2> QED BY <1>a, <2>1 DEF OnceInv
<1>4. CASE NextPhase
  <2>1. /\ task.pc = "between" /\ task.step = Len(Phases[task.phase]) /\ entry # "workflow"
        /\ UNCHANGED <<context, checkpoint>>
        /\ task' = IF task.phase < 8 THEN [task EXCEPT !.phase = @ + 1, !.step = 0]
                   ELSE [task EXCEPT !.pc = "leaving"]
    BY <1>1, <1>4 DEF NextPhase
  <2>2. \/ /\ task'.pc = "between" /\ task'.phase = task.phase + 1 /\ task'.step = 0
           /\ task'.retries = task.retries
        \/ /\ task'.pc = "leaving" /\ task'.phase = task.phase /\ task'.retries = task.retries
    BY <1>2, <2>1 DEF PlaceInv
  <2>3. Before(task.phase + 1) \cup First(0, task.phase + 1) = Before(task.phase + 1)
    BY NothingBefore
  <2>4. task.retries = 0 =>
          /\ Once(context.trail, context.outputs) /\ live = context.trail
          /\ Within(context.trail, Before(task.phase + 1))
    BY <1>a, <2>1 DEF OnceInv
  <2> QED BY <1>3, <2>1, <2>2, <2>3, <2>4 DEF OnceInv
<1>5. CASE EndPhase
  <2>1. /\ task.pc = "between" /\ task.step = Len(Phases[task.phase])
        /\ UNCHANGED <<context, checkpoint>> /\ task' = [task EXCEPT !.pc = "saving"]
    BY <1>5 DEF EndPhase, Goes
  <2>2. task'.pc = "saving" /\ task'.phase = task.phase /\ task'.retries = task.retries
    BY <2>1 DEF PlaceInv
  <2>3. task.retries = 0 =>
          /\ Once(context.trail, context.outputs) /\ live = context.trail
          /\ Within(context.trail, Before(task.phase + 1))
    BY <1>a, <2>1 DEF OnceInv
  <2> QED BY <1>3, <2>1, <2>2, <2>3 DEF OnceInv
<1>6. CASE SaveCheckpoint
  <2>1. /\ task.pc = "saving" /\ UNCHANGED context
        /\ \/ checkpoint'.context = context /\ task' = [task EXCEPT !.pc = "leaving"]
           \/ task' = [task EXCEPT !.pc = "leaving", !.why = IF @ = "none" THEN "storage" ELSE @]
    BY <1>6 DEF SaveCheckpoint
  <2>2. /\ task'.pc = "leaving" /\ task'.phase = task.phase /\ task'.retries = task.retries
        /\ task'.why = "none" => task.why = "none" /\ checkpoint'.context = context
    BY <2>1 DEF PlaceInv
  <2> QED BY <1>3, <2>1, <2>2 DEF OnceInv
<1>7. CASE Leave
  <2>1. /\ task.pc = "leaving" /\ UNCHANGED checkpoint
        /\ \/ /\ task.why = "none"
              /\ task' = [task EXCEPT !.phase = @ + 1, !.pc = "waiting", !.step = 0]
           \/ task' = [task EXCEPT !.pc = "failed"]
    BY <1>7 DEF Leave, ProcessEnds
  <2>2. \/ task'.pc = "failed"
        \/ /\ task.why = "none" /\ task'.pc = "waiting" /\ task'.phase = task.phase + 1
           /\ task'.retries = task.retries
    BY <2>1 DEF PlaceInv
  <2>3. task'.phase = task.phase + 1 => task'.phase # 1 BY <1>2
  <2>4. task.retries = 0 /\ task.why = "none" =>
          /\ Once(context.trail, context.outputs) /\ live = context.trail
          /\ Within(context.trail, Before(task.phase + 1))
          /\ entry = "workflow" => checkpoint.context = context
    BY <2>1 DEF OnceInv
  <2>5. UNCHANGED entry OBVIOUS
  <2> QED BY <1>3, <2>1, <2>2, <2>3, <2>4, <2>5 DEF OnceInv
<1>8. CASE Crash
  <2>1. task'.pc = "failed" BY <1>8 DEF Crash, PlaceInv
  <2> QED BY <2>1 DEF OnceInv
<1> QED BY <1>4, <1>5, <1>6, <1>7, <1>8

ViewInv == PageInv /\ SettledInv /\ OnceInv

LEMMA ViewStart == ViewInit => ViewInv
<1> SUFFICES ASSUME ViewInit PROVE SettledInv /\ OnceInv
  BY PageInit DEF ViewInv
<1>1. /\ task.phase = 1 /\ task.pc = "waiting" /\ live = <<>>
      /\ context = NoContext /\ checkpoint = NoCheckpoint
  BY DEF ViewInit, Init
<1>2. checkpoint.context.trail = <<>> /\ context.trail = <<>>
  BY <1>1, NewContextsHaveTrails DEF NoCheckpoint
<1>3. SettledInv BY <1>1, <1>2, NothingSettled DEF SettledInv
<1>4. OnceInv BY <1>1 DEF OnceInv
<1> QED BY <1>3, <1>4

LEMMA ViewInductive == ViewSpec => []ViewInv
<1> DEFINE Base == PlaceInv /\ RetryInv /\ SettledBase
<1>1. Spec => []Base
  <2>1. OutcomeInv => PlaceInv /\ RetryInv /\ TrailInv BY DEF OutcomeInv, TrackingInv, OutputInv
  <2> QED BY <2>1, OutcomesInductive, ShapeInductive, KeysInductive, PTL DEF SettledBase
<1>2. Base /\ Base' /\ PageInv' /\ ViewInv /\ [ViewNext]_viewVars => ViewInv'
  <2>1. ASSUME Base, Base', PageInv', ViewInv, ViewNext PROVE ViewInv'
    <3> USE <2>1
    <3>1. Step /\ UNCHANGED plan /\ WriteLive BY DEF ViewNext, Next
    <3>2. PlaceInv /\ RetryInv /\ ShapeInv /\ TrailInv /\ PageInv /\ SettledInv /\ OnceInv
          /\ SettledBase
      BY DEF SettledBase, ViewInv
    <3>3. ShapeInv' /\ SettledBase' BY DEF SettledBase
    <3>4. SettledInv' BY <3>1, <3>2, <3>3, SettledStep
    <3>5. OnceInv'
      <4>1. CASE StartFirstTask \/ StartTask \/ LoadFails \/ Retry BY <3>1, <3>2, <4>1, OnceStart
      <4>2. CASE BeginStage BY <3>1, <3>2, <3>3, <4>2, OnceBegin
      <4>3. CASE KeyTask \/ CompleteStage \/ CompleteKeyStage \/ TrackRun \/ FailStage
        BY <3>1, <3>2, <3>3, <4>3, OnceInside
      <4>4. CASE NextPhase \/ EndPhase \/ SaveCheckpoint \/ Leave \/ Crash
        BY <3>1, <3>2, <3>3, <4>4, OnceEnd
      <4> QED BY <3>1, <4>1, <4>2, <4>3, <4>4 DEF Step
    <3> QED BY <3>4, <3>5 DEF ViewInv
  <2>2. ASSUME ViewInv, UNCHANGED viewVars PROVE ViewInv'
    BY <2>2 DEF ViewInv, PageInv, SettledInv, OnceInv, Stage, viewVars, vars, plan
  <2> QED BY <2>1, <2>2
<1> HIDE DEF Base
<1> QED BY <1>1, <1>2, ViewStart, PageInductive, ViewIsOfTheRun, PTL DEF ViewSpec

\* While every stage has one record, the completed ones are as many as the outputs.
LEMMA ProgressIs ==
  ASSUME NEW trail \in Seq(StageRecord), NEW outputs, Once(trail, outputs),
         NEW job, job # "COMPLETED"
  PROVE  Progress(trail, job) = Cardinality(outputs)
<1> DEFINE D == Done(trail)
           f == [i \in D |-> trail[i].stage]
<1>1. PipelineStages = Stages
  <2>1. DOMAIN Phases = 1 .. 8 BY DEF Phases
  <2>2. \A p \in 1 .. 8 : DisplayPhases[p].stages = Range(Phases[p]) BY DisplayIs
  <2>3. DOMAIN DisplayPhases = 1 .. 8 BY DisplayIs
  <2> QED BY <2>1, <2>2, <2>3 DEF PipelineStages, Stages
<1>2. DOMAIN trail = 1 .. Len(trail) /\ Len(trail) \in Nat OBVIOUS
<1>3. \A i \in 1 .. Len(trail) : trail[i].stage \in Stages
  <2>1. \A i \in 1 .. Len(trail) : trail[i] \in StageRecord OBVIOUS
  <2> QED BY <2>1 DEF StageRecord
<1>4. Progress(trail, job) = Cardinality(D)
  <2>1. {i \in DOMAIN trail : trail[i].stage \in PipelineStages /\ trail[i].status = "Completed"} = D
    BY <1>1, <1>2, <1>3 DEF Done
  <2> QED BY <2>1 DEF Progress
<1>5. IsFiniteSet(D)
  <2>1. IsFiniteSet(1 .. Len(trail)) BY <1>2, FS_Interval
  <2> QED BY <2>1, FS_Subset DEF Done
<1>6. \A i, j \in D : trail[i].stage = trail[j].stage => i = j BY DEF Once, Done
<1>7. outputs = {trail[i].stage : i \in D} BY DEF Once
<1> HIDE DEF D
<1>8. f \in [D -> outputs] /\ \A t \in outputs : \E i \in D : f[i] = t BY <1>7
<1>9. \A i, j \in D : f[i] = f[j] => i = j BY <1>6
<1> HIDE DEF f
<1>10. f \in Bijection(D, outputs)
  <2>1. DOMAIN f = D BY <1>8
  <2>2. IsInjective(f) BY <1>9, <2>1 DEF IsInjective
  <2> QED BY <1>8, <2>2 DEF Bijection, Injection, Surjection
<1>11. Cardinality(outputs) = Cardinality(D)
  <2>1. ExistsBijection(D, outputs) BY <1>10 DEF ExistsBijection
  <2> QED BY <1>5, <2>1, FS_Bijection
<1> QED BY <1>4, <1>11

LEMMA EndedIs ==
  ASSUME NEW trail, NEW outputs, Once(trail, outputs), NEW S
  PROVE  Ended(trail, S) <=> S \subseteq outputs
<1>1. ASSUME Ended(trail, S), NEW s \in S PROVE s \in outputs
  <2>1. PICK i \in 1 .. Len(trail) : trail[i].stage = s /\ trail[i].status = "Completed"
    BY <1>1 DEF Ended
  <2>2. i \in Done(trail) BY <2>1 DEF Done
  <2> QED BY <2>1, <2>2 DEF Once
<1>2. ASSUME S \subseteq outputs, NEW s \in S
      PROVE  \E i \in 1 .. Len(trail) :
               /\ trail[i].stage = s /\ trail[i].status = "Completed"
               /\ \A j \in 1 .. Len(trail) : trail[j].stage = s => j <= i
  <2>1. PICK i \in Done(trail) : trail[i].stage = s BY <1>2 DEF Once
  <2>2. i \in 1 .. Len(trail) /\ trail[i].status = "Completed" BY <2>1 DEF Done
  <2>3. \A j \in 1 .. Len(trail) : trail[j].stage = s => j = i BY <2>1, <2>2 DEF Once
  <2>4. i <= i BY <2>2
  <2> QED BY <2>1, <2>2, <2>3, <2>4
<1> QED BY <1>1, <1>2 DEF Ended

\* A phase shown as done shows only fan-outs that are.
LEMMA FanOutsAreDone ==
  ASSUME NEW trail \in Seq(StageRecord), Settled(trail), NEW p \in 1 .. 8,
         Ended(trail, Range(Phases[p])), NEW t \in ParallelTasks(trail, DisplayPhases[p])
  PROVE  t.completed + t.failed = t.total
<1>1. PICK s \in Range(Phases[p]) \cap DOMAIN Reported(trail) : t = Reported(trail)[s].tasks
  BY DisplayIs DEF ParallelTasks
<1>2. PICK i \in 1 .. Len(trail) : /\ trail[i].stage = s /\ trail[i].status = "Completed"
                                   /\ \A j \in 1 .. Len(trail) : trail[j].stage = s => j <= i
  BY <1>1 DEF Ended
<1>3. Reported(trail)[s] = trail[i] BY <1>2, ReportedIs
<1> QED BY <1>1, <1>2, <1>3 DEF Settled

\* The page names the phase the run is in.
LEMMA CurrentIs ==
  ASSUME NEW trail \in Seq(StageRecord), NEW p \in 1 .. 8, InOrder(trail, p), Begins(trail, p), NEW job
  PROVE  CurrentStage(StageStatuses(trail, job), job) = DisplayPhases[p].label
<1> DEFINE statuses == StageStatuses(trail, job)
           running == {i \in DOMAIN statuses : statuses[i] = "Running"}
           ended == {i \in DOMAIN statuses : statuses[i] \in {"Completed", "Failed"}}
<1>1. trail # <<>> BY EmptyIsInOrder
<1>2. DOMAIN statuses = 1 .. 8
      /\ \A q \in 1 .. 8 : statuses[q] = PhaseStatus(Reported(trail), DisplayPhases[q])
  BY <1>1, StatusesAre
<1>3. statuses[p] \in {"Running", "Completed", "Failed"} BY <1>2, StatusIs
<1>4. \A q \in 1 .. 8 : q < p => statuses[q] = "Completed"
  <2> SUFFICES ASSUME NEW q \in 1 .. 8, q < p PROVE statuses[q] = "Completed"
    OBVIOUS
  <2>1. Ended(trail, Range(Phases[q])) BY EarlierEnded
  <2> QED BY <1>2, <2>1, StatusIs
<1>5. \A q \in 1 .. 8 : p < q => statuses[q] = "Pending"
  <2> SUFFICES ASSUME NEW q \in 1 .. 8, p < q PROVE statuses[q] = "Pending"
    OBVIOUS
  <2>1. ~Begins(trail, q) BY DEF InOrder
  <2> QED BY <1>2, <2>1, StatusIs
<1>6. CurrentStage(statuses, job) =
        CASE running # {} -> DisplayPhases[Min(running)].label
          [] running = {} /\ ended # {} -> DisplayPhases[Max(ended)].label
          [] ComputeLabel(statuses, job) # "none" -> ComputeLabel(statuses, job)
          [] OTHER -> CASE job = "PENDING" -> "Queued" [] job = "RUNNING" -> "In progress"
                        [] OTHER -> "none"
  BY DEF CurrentStage
<1>a. ComputeLabel(statuses, job) = "none"
  <2>1. statuses[p] \in Range(statuses) \ {"Pending"} BY <1>2, <1>3 DEF Range
  <2> QED BY <2>1 DEF ComputeLabel
<1> HIDE DEF statuses
<1>7. \A q \in 1 .. 8 : q < p \/ q = p \/ p < q OBVIOUS
<1>8. CASE statuses[p] = "Running"
  <2>1. running = {p} BY <1>2, <1>4, <1>5, <1>7, <1>8
  <2>2. Min({p}) = p BY DEF Min
  <2> HIDE DEF running, ended
  <2>3. running # {} /\ Min(running) = p BY <2>1, <2>2
  <2>4. CurrentStage(statuses, job) = DisplayPhases[p].label BY <1>6, <1>a, <2>3
  <2> QED BY <2>4 DEF statuses
<1>9. CASE statuses[p] \in {"Completed", "Failed"}
  <2>1. running = {} BY <1>2, <1>4, <1>5, <1>7, <1>9
  <2>2. p \in ended /\ ended \in SUBSET (1 .. p)
    <3>1. p \in ended BY <1>2, <1>9
    <3>2. \A q \in ended : q \in 1 .. 8 /\ q <= p BY <1>2, <1>5, <1>7
    <3> QED BY <3>1, <3>2
  <2> HIDE DEF running, ended
  <2>3. p \in Nat /\ ended # {} BY <2>2
  <2>4. Max(ended) \in ended /\ \A j \in ended : j <= Max(ended) BY <2>2, <2>3, MaxIs
  <2>5. Max(ended) = p
    <3>1. Max(ended) \in 1 .. p /\ p <= Max(ended) BY <2>2, <2>4
    <3> QED BY <3>1
  <2>6. CurrentStage(statuses, job) = DisplayPhases[p].label BY <1>6, <1>a, <2>1, <2>3, <2>5
  <2> QED BY <2>6 DEF statuses
<1> QED BY <1>3, <1>8, <1>9 DEF statuses

\* "a half-finished phase must never render as done": for any series, entry, faults and
\* number of retries.
THEOREM PageMatchesTheRun == ViewSpec => []ViewMatchesTheRun
<1> DEFINE Base == PlaceInv /\ RetryInv /\ ViewInv
           statuses == StageStatuses(live, JobStatus)
<1>1. ASSUME Base, Running, task.retries = 0
      PROVE  /\ Progress(live, JobStatus) = Cardinality(context.outputs)
             /\ \A i \in DOMAIN statuses :
                  /\ statuses[i] = "Completed" <=> DisplayPhases[i].stages \subseteq context.outputs
                  /\ statuses[i] = "Completed" =>
                       \A t \in ParallelTasks(live, DisplayPhases[i]) : t.completed + t.failed = t.total
  <2>1. live \in Seq(StageRecord) BY <1>1 DEF ViewInv, PageInv
  <2>2. Once(live, context.outputs) BY <1>1 DEF ViewInv, OnceInv, Running
  <2>3. Settled(live) BY <1>1 DEF ViewInv, SettledInv
  <2>4. JobStatus \notin {"COMPLETED", "FAILED"}
    <3>1. LastPhase = 8 BY PhasesAre
    <3>2. task.phase <= 8 /\ task.pc \in {"between", "inside"} BY <1>1, <3>1 DEF PlaceInv, Running
    <3>3. ~(task.phase > 8) BY <1>1, <3>1, <3>2 DEF PlaceInv
    <3> QED BY <3>1, <3>2, <3>3 DEF JobStatus
  <2>5. DOMAIN statuses = 1 .. 8
        /\ \A p \in 1 .. 8 : statuses[p] = PhaseStatus(Reported(live), DisplayPhases[p])
    BY <2>1, <2>4, StatusesAre
  <2> HIDE DEF statuses
  <2> SUFFICES ASSUME NEW i \in 1 .. 8
               PROVE  /\ statuses[i] = "Completed" <=> DisplayPhases[i].stages \subseteq context.outputs
                      /\ statuses[i] = "Completed" =>
                           \A t \in ParallelTasks(live, DisplayPhases[i]) :
                             t.completed + t.failed = t.total
    BY <2>1, <2>2, <2>4, <2>5, ProgressIs
  <2>6. statuses[i] = "Completed" <=> Ended(live, Range(Phases[i])) BY <2>1, <2>5, StatusIs
  <2>7. Ended(live, Range(Phases[i])) <=> Range(Phases[i]) \subseteq context.outputs
    BY <2>2, EndedIs
  <2>8. DisplayPhases[i].stages = Range(Phases[i]) BY DisplayIs
  <2>9. ASSUME Ended(live, Range(Phases[i]))
        PROVE  \A t \in ParallelTasks(live, DisplayPhases[i]) : t.completed + t.failed = t.total
    BY <2>1, <2>3, <2>9, FanOutsAreDone
  <2> QED BY <2>6, <2>7, <2>8, <2>9
<1>2. ASSUME Base, task.pc = "inside" \/ (task.pc = "failed" /\ task.why = "stage")
      PROVE  CurrentStage(statuses, JobStatus) = DisplayPhases[task.phase].label
  <2>1. task.phase \in 1 .. 8
    <3>1. LastPhase = 8 BY PhasesAre
    <3> QED BY <1>2, <3>1 DEF PlaceInv, RetryInv
  <2>2. live \in Seq(StageRecord) /\ InOrder(live, task.phase) /\ Begins(live, task.phase)
    BY <1>2 DEF ViewInv, PageInv
  <2> QED BY <2>1, <2>2, CurrentIs
<1>3. Base => ViewMatchesTheRun BY <1>1, <1>2 DEF ViewMatchesTheRun
<1>4. Spec => [](PlaceInv /\ RetryInv)
  <2>1. OutcomeInv => PlaceInv /\ RetryInv BY DEF OutcomeInv, TrackingInv, OutputInv
  <2> QED BY <2>1, OutcomesInductive, PTL
<1> HIDE DEF Base
<1>5. PlaceInv /\ RetryInv /\ ViewInv => Base BY DEF Base
<1> QED BY <1>3, <1>4, <1>5, ViewInductive, ViewIsOfTheRun, PTL
================================================================================
