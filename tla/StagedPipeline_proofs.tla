-------------------------- MODULE StagedPipeline_proofs -------------------------
(***************************************************************************)
(* Proofs about StagedPipeline and the KeyExecution in it, for any series, *)
(* compute, entries, faults and number of retries: a stage has the output  *)
(* of those before it, a key's task its inputs, the state its type, the    *)
(* selection the survivors, and every key is accounted for.                *)
(***************************************************************************)
EXTENDS StagedPipeline, TLAPS, WellFoundedInduction, FiniteSetTheorems

\* What the phases before p leave in the context, and the first n stages of phase p.
Before(p) == UNION {Range(Phases[q]) : q \in 1 .. p - 1}
First(n, p) == {Phases[p][i] : i \in 1 .. n}

\* Where a task can be, by how the run was started.
PlaceInv ==
  /\ entry \in EntryKinds
  /\ task.phase \in 1 .. LastPhase + 1 /\ task.step \in Nat
  /\ DOMAIN task = {"phase", "pc", "step", "retries", "why"}
  /\ task.pc \in {"waiting", "between", "inside", "saving", "leaving", "failed"}
  /\ task.pc \notin {"waiting", "failed"} =>
       task.phase <= LastPhase /\ task.step <= Len(Phases[task.phase])
  /\ task.pc = "inside" => task.step >= 1
  /\ task.pc \in {"waiting", "between", "inside"} => task.why = "none"
  /\ task.pc = "saving" => entry = "workflow"
  /\ entry # "workflow" /\ task.pc = "waiting" => task.phase \in {1, LastPhase + 1}
  /\ entry # "workflow" /\ task.pc = "leaving" /\ task.why = "none" => task.phase = LastPhase

\* What the task's context holds.
ContextInv ==
  /\ "outputs" \in DOMAIN context
  /\ task.pc \in {"between", "inside", "saving"} => Before(task.phase) \subseteq context.outputs
  /\ task.pc = "between" => First(task.step, task.phase) \subseteq context.outputs
  /\ task.pc = "inside" => First(task.step - 1, task.phase) \subseteq context.outputs
  /\ task.pc = "saving" /\ task.why = "none" => Before(task.phase + 1) \subseteq context.outputs

\* What the checkpoint holds: the phases before, and a phase that is over.
CheckpointInv ==
  /\ "outputs" \in DOMAIN checkpoint.context
  /\ entry = "workflow" =>
       /\ task.phase \in 2 .. LastPhase => Before(task.phase) \subseteq checkpoint.context.outputs
       /\ task.pc = "leaving" /\ task.why = "none" =>
            Before(task.phase + 1) \subseteq checkpoint.context.outputs

OutputInv == PlaceInv /\ ContextInv /\ CheckpointInv
--------------------------------------------------------------------------------
(* The phases. *)

LEMMA PhasesAre ==
  /\ LastPhase = 8
  /\ \A p \in 1 .. LastPhase : Len(Phases[p]) \in Nat
  /\ \A p \in 1 .. LastPhase : Range(Phases[p]) = First(Len(Phases[p]), p)
<1>1. LastPhase = 8 BY DEF LastPhase, Phases
<1> SUFFICES ASSUME NEW p \in 1 .. 8
             PROVE  Len(Phases[p]) \in Nat /\ DOMAIN Phases[p] = 1 .. Len(Phases[p])
  BY <1>1 DEF Range, First
<1>2. CASE p = 1 BY <1>2 DEF Phases
<1>3. CASE p = 2 BY <1>3 DEF Phases
<1>4. CASE p = 3 BY <1>4 DEF Phases
<1>5. CASE p = 4 BY <1>5 DEF Phases
<1>6. CASE p = 5 BY <1>6 DEF Phases
<1>7. CASE p = 6 BY <1>7 DEF Phases
<1>8. CASE p = 7 BY <1>8 DEF Phases
<1>9. CASE p = 8 BY <1>9 DEF Phases
<1> QED BY <1>2, <1>3, <1>4, <1>5, <1>6, <1>7, <1>8, <1>9

LEMMA OnePhaseMore ==
  ASSUME NEW p \in 1 .. LastPhase
  PROVE  Before(p + 1) = Before(p) \cup First(Len(Phases[p]), p)
<1>1. LastPhase = 8 /\ Range(Phases[p]) = First(Len(Phases[p]), p) BY PhasesAre
<1>2. 1 .. (p + 1) - 1 = (1 .. p - 1) \cup {p} BY <1>1
<1> QED BY <1>1, <1>2 DEF Before

LEMMA OneStageMore ==
  ASSUME NEW p, NEW n \in Nat
  PROVE  First(n + 1, p) = First(n, p) \cup {Phases[p][n + 1]}
<1>1. 1 .. n + 1 = (1 .. n) \cup {n + 1} OBVIOUS
<1> QED BY <1>1 DEF First

LEMMA NothingBefore == Before(1) = {} /\ \A p : First(0, p) = {}
  BY DEF Before, First
--------------------------------------------------------------------------------
(* Every step keeps tasks in their place and their outputs complete. *)

LEMMA PlaceStep == ASSUME PlaceInv, Step, UNCHANGED plan PROVE PlaceInv'
<1> USE DEF PlaceInv, plan
<1>1. LastPhase = 8 /\ \A p \in 1 .. LastPhase : Len(Phases[p]) \in Nat BY PhasesAre
<1>2. CASE StartFirstTask BY <1>1, <1>2 DEF StartFirstTask
<1>3. CASE StartTask BY <1>1, <1>3 DEF StartTask
<1>4. CASE LoadFails BY <1>1, <1>4 DEF LoadFails
<1>5. CASE BeginStage BY <1>1, <1>5 DEF BeginStage
<1>6. CASE KeyTask BY <1>1, <1>6 DEF KeyTask
<1>7. CASE CompleteStage BY <1>1, <1>7 DEF CompleteStage, Goes
<1>8. CASE CompleteKeyStage BY <1>1, <1>8 DEF CompleteKeyStage, Goes
<1>9. CASE TrackRun BY <1>1, <1>9 DEF TrackRun, Goes
<1>10. CASE FailStage BY <1>1, <1>10 DEF FailStage
<1>11. CASE NextPhase BY <1>1, <1>11, SMTT(30) DEF NextPhase
<1>12. CASE EndPhase BY <1>1, <1>12 DEF EndPhase, Goes
<1>13. CASE SaveCheckpoint BY <1>1, <1>13 DEF SaveCheckpoint
<1>14. CASE Leave
  <2>1. CASE task' = [task EXCEPT !.pc = "failed"]
    BY <1>1, <1>14, <2>1 DEF Leave
  <2>2. CASE /\ task.why = "none"
             /\ task' = [task EXCEPT !.phase = @ + 1, !.pc = "waiting", !.step = 0]
    BY <1>1, <1>14, <2>2, SMTT(30) DEF Leave
  <2> QED BY <1>14, <2>1, <2>2 DEF Leave
<1>15. CASE Crash BY <1>1, <1>15 DEF Crash, ProcessEnds
<1>16. CASE Retry BY <1>1, <1>16 DEF Retry
<1> QED
  BY <1>2, <1>3, <1>4, <1>5, <1>6, <1>7, <1>8, <1>9, <1>10, <1>11, <1>12, <1>13, <1>14,
     <1>15, <1>16 DEF Step

LEMMA NewContextsHaveOutputs ==
  \A row : /\ "outputs" \in DOMAIN NewContext(row) /\ NewContext(row).outputs = {}
           /\ "outputs" \in DOMAIN NoContext
  BY DEF NewContext, NoContext

LEMMA OutputStep == ASSUME OutputInv, Step, UNCHANGED plan PROVE ContextInv' /\ CheckpointInv'
<1> USE DEF OutputInv, PlaceInv, ContextInv, CheckpointInv, plan
<1>1. LastPhase = 8 /\ \A p \in 1 .. LastPhase : Len(Phases[p]) \in Nat BY PhasesAre
<1>2. CASE StartFirstTask
  BY <1>1, <1>2, NothingBefore, NewContextsHaveOutputs DEF StartFirstTask
<1>3. CASE StartTask BY <1>1, <1>3, NothingBefore, SMTT(30) DEF StartTask
<1>4. CASE LoadFails BY <1>1, <1>4 DEF LoadFails
<1>5. CASE BeginStage BY <1>1, <1>5, SMTT(30) DEF BeginStage
<1>6. CASE KeyTask BY <1>1, <1>6 DEF KeyTask
<1>a. ASSUME task.pc = "inside", task' = [task EXCEPT !.pc = "between"], UNCHANGED checkpoint,
             "outputs" \in DOMAIN context', context'.outputs = context.outputs \cup {Stage}
      PROVE  ContextInv' /\ CheckpointInv'
  <2>1. task.step \in Nat /\ task.step - 1 \in Nat BY <1>a
  <2>2. First(task.step, task.phase) = First(task.step - 1, task.phase) \cup {Stage}
    <3>1. (task.step - 1) + 1 = task.step BY <2>1
    <3> QED BY <2>1, <3>1, OneStageMore DEF Stage
  <2> QED BY <1>a, <2>2
<1>7. CASE CompleteStage BY <1>7, <1>a DEF CompleteStage, Goes
<1>8. CASE CompleteKeyStage BY <1>8, <1>a DEF CompleteKeyStage, Goes
<1>9. CASE TrackRun BY <1>9, <1>a DEF TrackRun, Goes
<1>10. CASE FailStage BY <1>1, <1>10 DEF FailStage, FailTracking
<1>b. ASSUME task.pc = "between", task.step = Len(Phases[task.phase])
      PROVE  Before(task.phase + 1) \subseteq context.outputs
  BY <1>1, <1>b, OnePhaseMore, SMTT(30)
<1>11. CASE NextPhase BY <1>1, <1>b, <1>11, NothingBefore DEF NextPhase
<1>12. CASE EndPhase BY <1>1, <1>b, <1>12 DEF EndPhase, Goes
<1>13. CASE SaveCheckpoint
  <2>1. CASE /\ checkpoint' = [context |-> context, snapshot |-> executor]
             /\ task' = [task EXCEPT !.pc = "leaving"]
    BY <1>1, <1>13, <2>1 DEF SaveCheckpoint
  <2>2. CASE /\ UNCHANGED checkpoint
             /\ task' = [task EXCEPT !.pc = "leaving",
                                     !.why = IF @ = "none" THEN "storage" ELSE @]
    BY <1>1, <1>13, <2>2 DEF SaveCheckpoint
  <2> QED BY <1>13, <2>1, <2>2 DEF SaveCheckpoint
<1>14. CASE Leave BY <1>1, <1>14, NewContextsHaveOutputs DEF Leave, ProcessEnds
<1>15. CASE Crash BY <1>1, <1>15, NewContextsHaveOutputs DEF Crash, ProcessEnds
<1>16. CASE Retry BY <1>1, <1>16 DEF Retry
<1> QED
  BY <1>2, <1>3, <1>4, <1>5, <1>6, <1>7, <1>8, <1>9, <1>10, <1>11, <1>12, <1>13, <1>14,
     <1>15, <1>16 DEF Step

LEMMA OutputInit == Init => OutputInv
<1> SUFFICES ASSUME Init PROVE OutputInv
  OBVIOUS
<1>1. LastPhase = 8 BY PhasesAre
<1>2. PlaceInv BY <1>1, PipelineAssumption DEF Init, PlaceInv
<1>3. ContextInv BY NewContextsHaveOutputs DEF Init, ContextInv
<1>4. CheckpointInv BY NewContextsHaveOutputs DEF Init, CheckpointInv, NoCheckpoint
<1> QED BY <1>2, <1>3, <1>4 DEF OutputInv

LEMMA OutputsInductive == Spec => []OutputInv
<1>1. OutputInv /\ [Next]_vars => OutputInv'
  <2>1. OutputInv /\ Next => OutputInv' BY PlaceStep, OutputStep DEF Next, OutputInv
  <2>2. OutputInv /\ UNCHANGED vars => OutputInv'
    BY DEF OutputInv, PlaceInv, ContextInv, CheckpointInv, vars, plan
  <2> QED BY <2>1, <2>2
<1> QED BY OutputInit, <1>1, PTL DEF Spec

\* checkpoint.load() and the tasks' order: however the run was started and whatever
\* failed, was lost or was started again, a stage finds in its context the output of
\* every stage before it.
THEOREM NothingIsSkipped == Spec => []StagesBuildOnEarlierOnes
<1>1. OutputInv => StagesBuildOnEarlierOnes
  <2> SUFFICES ASSUME OutputInv, Running
               PROVE  /\ Before(task.phase) \subseteq context.outputs
                      /\ First(task.step - 1, task.phase) \subseteq context.outputs
    BY DEF StagesBuildOnEarlierOnes, Before, First
  <2>1. First(task.step - 1, task.phase) \subseteq First(task.step, task.phase)
    BY DEF First, OutputInv, PlaceInv
  <2> QED BY <2>1 DEF OutputInv, ContextInv, Running
<1> QED BY OutputsInductive, <1>1, PTL
--------------------------------------------------------------------------------
(* The keys and their inputs. *)

\* An executor that was built, and has kept what it needs.
Live(ex) ==
  /\ {"mode", "active", "payloads"} \subseteq DOMAIN ex
  /\ ex.mode # "none"
  /\ ex.payloads \in [KeyStages -> SUBSET Keys]
  /\ ex.active \subseteq Keys

\* The keys still active have the payloads of every per-key phase before p.
Fed(ex, p) == \A q \in 3 .. 6 : q < p => ex.active \subseteq ex.payloads[Phases[q][1]]

ExecutorInv ==
  /\ executor = NoExecutor \/ Live(executor)
  /\ entry = "run" => executor = NoExecutor
  /\ entry # "run" /\ task.pc \in {"between", "inside", "saving"} =>
       /\ executor # NoExecutor => Fed(executor, task.phase)
       /\ task.phase \in 4 .. 6 => executor # NoExecutor
       /\ \/ task.pc = "between" /\ task.step = Len(Phases[task.phase])
          \/ task.pc = "saving" /\ task.why = "none"
          => /\ executor # NoExecutor => Fed(executor, task.phase + 1)
             /\ task.phase \in 3 .. 6 => executor # NoExecutor

SnapshotInv ==
  /\ checkpoint.snapshot = NoExecutor \/ Live(checkpoint.snapshot)
  /\ entry = "workflow" =>
       /\ task.phase \in 4 .. 6 => Live(checkpoint.snapshot) /\ Fed(checkpoint.snapshot, task.phase)
       /\ task.pc = "leaving" /\ task.why = "none" /\ task.phase \in 3 .. 5 =>
            Live(checkpoint.snapshot) /\ Fed(checkpoint.snapshot, task.phase + 1)

\* A fan-out under way is that of the stage under way, and every active key is in it.
WaveInv ==
  /\ DOMAIN wave = {"stage", "total", "pending", "results"}
  /\ wave # NoWave =>
       /\ task.pc = "inside" /\ FansOut(Stage)
       /\ wave.stage = IF Stage \in KeyStages THEN Stage ELSE Publishing
       /\ Live(executor)
       /\ wave.results \in Seq(Keys)
       /\ executor.active \subseteq wave.pending \cup Range(wave.results)

KeyInv == OutputInv /\ ExecutorInv /\ SnapshotInv /\ WaveInv /\ ActiveKeysHaveInputs

LEMMA KeyPhasesAre ==
  /\ Phases[3][1] = "Train Models" /\ Phases[4][1] = "Evaluate Models"
  /\ Phases[5][1] = "Explain Models" /\ Phases[6][1] = "Rank & Select"
  /\ Len(Phases[3]) = 1 /\ Len(Phases[4]) = 1 /\ Len(Phases[5]) = 1 /\ Len(Phases[6]) = 1
  /\ Len(Phases[1]) = 6 /\ Len(Phases[2]) = 2 /\ Len(Phases[7]) = 2 /\ Len(Phases[8]) = 2
  BY DEF Phases

LEMMA OtherPhasesAre ==
  /\ \A p \in {1, 2, 7} : \A i \in 1 .. Len(Phases[p]) :
       Phases[p][i] \notin KeyStages \cup {"MLflow Tracking"}
  /\ \A i \in 1 .. Len(Phases[8]) : Phases[8][i] \notin KeyStages
<1>1. /\ Phases[1][1] = "Load Dataset" /\ Phases[1][2] = "Detect Frequency"
      /\ Phases[1][3] = "Assess Quality" /\ Phases[1][4] = "Preprocess Dataset"
      /\ Phases[1][5] = "Persist Curated" /\ Phases[1][6] = "Verify Curated"
  BY DEF Phases
<1>2. /\ Phases[2][1] = "Generate Groups" /\ Phases[2][2] = "Build Series"
      /\ Phases[7][1] = "Business Insights" /\ Phases[7][2] = "Mirror Artifacts"
      /\ Phases[8][1] = "Export Forecasts" /\ Phases[8][2] = "MLflow Tracking"
  BY DEF Phases
<1>3. \A i \in 1 .. 6 : Phases[1][i] \notin KeyStages \cup {"MLflow Tracking"}
  <2> SUFFICES ASSUME NEW i \in 1 .. 6
               PROVE  Phases[1][i] \notin KeyStages \cup {"MLflow Tracking"}
    OBVIOUS
  <2>1. i = 1 \/ i = 2 \/ i = 3 \/ i = 4 \/ i = 5 \/ i = 6 OBVIOUS
  <2> QED BY <1>1, <2>1 DEF KeyStages
<1>4. \A p \in {2, 7} : \A i \in 1 .. 2 : Phases[p][i] \notin KeyStages \cup {"MLflow Tracking"}
  <2> SUFFICES ASSUME NEW p \in {2, 7}, NEW i \in 1 .. 2
               PROVE  Phases[p][i] \notin KeyStages \cup {"MLflow Tracking"}
    OBVIOUS
  <2>1. i = 1 \/ i = 2 OBVIOUS
  <2>2. CASE p = 2 BY <1>2, <2>1, <2>2 DEF KeyStages
  <2>3. CASE p = 7 BY <1>2, <2>1, <2>3 DEF KeyStages
  <2> QED BY <2>2, <2>3
<1>5. \A i \in 1 .. 2 : Phases[8][i] \notin KeyStages
  <2> SUFFICES ASSUME NEW i \in 1 .. 2 PROVE Phases[8][i] \notin KeyStages
    OBVIOUS
  <2>1. i = 1 \/ i = 2 OBVIOUS
  <2> QED BY <1>2, <2>1 DEF KeyStages
<1>6. Len(Phases[1]) = 6 /\ \A p \in {2, 7, 8} : Len(Phases[p]) = 2 BY KeyPhasesAre
<1> QED BY <1>3, <1>4, <1>5, <1>6

LEMMA KeyPhases ==
  /\ \A p \in 3 .. 6 : Len(Phases[p]) = 1 /\ Phases[p][1] \in KeyStages
  /\ \A p \in 1 .. 8 : \A i \in 1 .. Len(Phases[p]) :
       /\ Phases[p][i] \in KeyStages => p \in 3 .. 6 /\ i = 1
       /\ Phases[p][i] = "MLflow Tracking" => p = 8
<1>1. \A r \in 3 .. 6 : /\ Len(Phases[r]) = 1 /\ Phases[r][1] \in KeyStages
                        /\ Phases[r][1] # "MLflow Tracking"
  <2> SUFFICES ASSUME NEW r \in 3 .. 6
               PROVE  /\ Len(Phases[r]) = 1 /\ Phases[r][1] \in KeyStages
                      /\ Phases[r][1] # "MLflow Tracking"
    OBVIOUS
  <2>1. CASE r = 3 BY <2>1, KeyPhasesAre DEF KeyStages
  <2>2. CASE r = 4 BY <2>2, KeyPhasesAre DEF KeyStages
  <2>3. CASE r = 5 BY <2>3, KeyPhasesAre DEF KeyStages
  <2>4. CASE r = 6 BY <2>4, KeyPhasesAre DEF KeyStages
  <2>5. r = 3 \/ r = 4 \/ r = 5 \/ r = 6 OBVIOUS
  <2> QED BY <2>1, <2>2, <2>3, <2>4, <2>5, Zenon
<1>2. ASSUME NEW p \in 1 .. 8, NEW i \in 1 .. Len(Phases[p])
      PROVE  /\ Phases[p][i] \in KeyStages => p \in 3 .. 6 /\ i = 1
             /\ Phases[p][i] = "MLflow Tracking" => p = 8
  <2>1. CASE p \in {1, 2, 7} BY <1>2, <2>1, OtherPhasesAre, Zenon
  <2>2. CASE p \in 3 .. 6
    <3>1. Len(Phases[p]) = 1 BY <1>1, <2>2
    <3>2. i = 1 BY <3>1
    <3>3. Phases[p][1] # "MLflow Tracking" BY <1>1, <2>2, Zenon
    <3> QED BY <2>2, <3>2, <3>3, Zenon
  <2>3. CASE p = 8 BY <1>2, <2>3, OtherPhasesAre, Zenon
  <2>4. p \in {1, 2, 7} \/ p \in 3 .. 6 \/ p = 8 OBVIOUS
  <2> QED BY <2>1, <2>2, <2>3, <2>4, Zenon
<1> QED BY <1>1, <1>2

\* A stage is given what the per-key phases before its own left.
LEMMA FedMeansInputs ==
  ASSUME NEW ex, NEW p \in 1 .. 8, NEW s, Fed(ex, p),
         (p \in 3 .. 6 /\ s = Phases[p][1]) \/ (p = 8 /\ s = Publishing)
  PROVE  \A t \in InputsOf(s) : ex.active \subseteq ex.payloads[t]
<1>0. /\ Phases[3][1] = "Train Models" /\ Phases[4][1] = "Evaluate Models"
      /\ Phases[5][1] = "Explain Models" /\ Phases[6][1] = "Rank & Select"
  BY KeyPhasesAre
<1>i. /\ InputsOf("Train Models") = {}
      /\ InputsOf("Evaluate Models") = {Phases[3][1]}
      /\ InputsOf("Explain Models") = {Phases[3][1], Phases[4][1]}
      /\ InputsOf("Rank & Select") = {Phases[4][1], Phases[5][1]}
      /\ InputsOf(Publishing) = {Phases[6][1]}
  BY <1>0 DEF InputsOf, Publishing
<1>1. /\ 3 < p => ex.active \subseteq ex.payloads[Phases[3][1]]
      /\ 4 < p => ex.active \subseteq ex.payloads[Phases[4][1]]
      /\ 5 < p => ex.active \subseteq ex.payloads[Phases[5][1]]
      /\ 6 < p => ex.active \subseteq ex.payloads[Phases[6][1]]
  BY DEF Fed
<1>2. CASE p = 3 /\ s = "Train Models"
  <2>1. InputsOf(s) = {} BY <1>i, <1>2, Zenon
  <2> QED BY <2>1
<1>3. CASE p = 4 /\ s = "Evaluate Models"
  <2>1. p = 4 BY <1>3, Zenon
  <2>2. ex.active \subseteq ex.payloads[Phases[3][1]] BY <1>1, <2>1
  <2> QED BY <1>i, <1>3, <2>2, Zenon
<1>4. CASE p = 5 /\ s = "Explain Models"
  <2>1. p = 5 BY <1>4, Zenon
  <2>2. /\ ex.active \subseteq ex.payloads[Phases[3][1]]
        /\ ex.active \subseteq ex.payloads[Phases[4][1]]
    BY <1>1, <2>1
  <2> QED BY <1>i, <1>4, <2>2, Zenon
<1>5. CASE p = 6 /\ s = "Rank & Select"
  <2>1. p = 6 BY <1>5, Zenon
  <2>2. /\ ex.active \subseteq ex.payloads[Phases[4][1]]
        /\ ex.active \subseteq ex.payloads[Phases[5][1]]
    BY <1>1, <2>1
  <2> QED BY <1>i, <1>5, <2>2, Zenon
<1>6. CASE p = 8 /\ s = Publishing
  <2>1. p = 8 BY <1>6, Zenon
  <2>2. ex.active \subseteq ex.payloads[Phases[6][1]] BY <1>1, <2>1
  <2> QED BY <1>i, <1>6, <2>2, Zenon
<1>7. p \in 3 .. 6 => p = 3 \/ p = 4 \/ p = 5 \/ p = 6 OBVIOUS
<1> QED BY <1>0, <1>2, <1>3, <1>4, <1>5, <1>6, <1>7, Zenon

LEMMA FreshIsLive == \A mode : mode # "none" => Live(FreshExecutor(mode))
  BY DEF Live, FreshExecutor

LEMMA ResumedIsFed ==
  ASSUME NEW ex, NEW mode, NEW p, Live(ex), Fed(ex, p), mode # "none"
  PROVE  Live(Resumed(ex, mode)) /\ Fed(Resumed(ex, mode), p)
  BY DEF Live, Fed, Resumed

LEMMA LiveIsSome == \A ex : Live(ex) => ex # NoExecutor
  BY DEF Live, NoExecutor

LEMMA ModesAreSome == \A keys : \A mode \in ExecutionModes(keys) : mode # "none"
  BY DEF ExecutionModes, StartRay

LEMMA LiveIsKept ==
  ASSUME NEW ex, NEW new, Live(ex), {"mode", "active", "payloads"} \subseteq DOMAIN new,
         new.mode = ex.mode, new.active \subseteq ex.active, new.payloads = ex.payloads
  PROVE  Live(new) /\ \A p : Fed(ex, p) => Fed(new, p)
<1>1. Live(new) BY DEF Live
<1>2. ASSUME NEW p, Fed(ex, p), NEW q \in 3 .. 6, q < p
      PROVE  new.active \subseteq new.payloads[Phases[q][1]]
  BY <1>2 DEF Fed
<1> QED BY <1>1, <1>2 DEF Fed

\* Outside the per-key phases there is nothing more to have.
LEMMA FedOutside ==
  ASSUME NEW ex, NEW p \in 1 .. 8, p \notin 3 .. 6, Fed(ex, p)
  PROVE  Fed(ex, p + 1)
<1>1. ASSUME NEW q \in 3 .. 6, q < p + 1 PROVE q < p BY <1>1
<1> QED BY <1>1 DEF Fed

LEMMA FedAtFirst == \A ex : Fed(ex, 3)
  BY DEF Fed

LEMMA PhasesAreNotEmpty == \A p \in 1 .. 8 : Len(Phases[p]) \in Nat /\ Len(Phases[p]) > 0
<1> SUFFICES ASSUME NEW p \in 1 .. 8 PROVE Len(Phases[p]) \in Nat /\ Len(Phases[p]) > 0
  OBVIOUS
<1>1. CASE p \in 3 .. 6
  <2>1. Len(Phases[p]) = 1 BY <1>1, KeyPhases, Zenon
  <2> QED BY <2>1
<1>2. CASE p \in {1, 2}
  <2>1. Len(Phases[p]) = 6 \/ Len(Phases[p]) = 2 BY <1>2, KeyPhasesAre, Zenon
  <2> QED BY <2>1, SMTT(30)
<1>3. CASE p \in {7, 8}
  <2>1. Len(Phases[p]) = 2 BY <1>3, KeyPhasesAre, Zenon
  <2> QED BY <2>1
<1> QED BY <1>1, <1>2, <1>3

\* Where the stage under way is.
LEMMA StageIsAt ==
  ASSUME PlaceInv, task.pc = "inside"
  PROVE  /\ task.phase \in 1 .. 8 /\ task.step \in 1 .. Len(Phases[task.phase])
         /\ Stage \in KeyStages => task.phase \in 3 .. 6 /\ task.step = 1
                                   /\ Stage = Phases[task.phase][1]
         /\ Stage \notin KeyStages => task.phase \notin 3 .. 6
         /\ Stage = "MLflow Tracking" => task.phase = 8
<1>1. LastPhase = 8 BY PhasesAre
<1>2. task.phase \in 1 .. 8 /\ task.step \in 1 .. Len(Phases[task.phase])
  BY <1>1, PhasesAreNotEmpty DEF PlaceInv
<1>3. task.phase \in 3 .. 6 => task.step = 1 /\ Stage \in KeyStages
  <2> SUFFICES ASSUME task.phase \in 3 .. 6 PROVE task.step = 1 /\ Stage \in KeyStages
    OBVIOUS
  <2>1. Len(Phases[task.phase]) = 1 /\ Phases[task.phase][1] \in KeyStages BY KeyPhases
  <2>2. task.step = 1 BY <1>2, <2>1
  <2> QED BY <2>1, <2>2 DEF Stage
<1>4. /\ Stage \in KeyStages => task.phase \in 3 .. 6 /\ task.step = 1
      /\ Stage = "MLflow Tracking" => task.phase = 8
  BY <1>2, KeyPhases, Zenon DEF Stage
<1>5. task.step = 1 => Stage = Phases[task.phase][1] BY DEF Stage
<1> QED BY <1>2, <1>3, <1>4, <1>5, Zenon
--------------------------------------------------------------------------------
(* Every step keeps the keys supplied. *)

KeyPart == ExecutorInv /\ SnapshotInv /\ WaveInv /\ ActiveKeysHaveInputs

LEMMA NoWaveFacts ==
  /\ DOMAIN NoWave = {"stage", "total", "pending", "results"}
  /\ NoWave.pending = {}
  /\ (wave = NoWave => WaveInv /\ ActiveKeysHaveInputs)
  /\ (wave' = NoWave => WaveInv' /\ ActiveKeysHaveInputs')
  BY DEF NoWave, WaveInv, ActiveKeysHaveInputs

\* Where no fan-out is under way there is none.
LEMMA NoWaveOutside == ASSUME WaveInv, task.pc # "inside" PROVE wave = NoWave
  BY DEF WaveInv

LEMMA EndedTasksKeepKeys ==
  ASSUME KeyInv, executor' = NoExecutor, wave' = NoWave,
         task'.pc \notin {"between", "inside", "saving"}
  PROVE  ExecutorInv' /\ WaveInv' /\ ActiveKeysHaveInputs'
<1>1. ExecutorInv' BY DEF ExecutorInv
<1> QED BY <1>1, NoWaveFacts

LEMMA StartKeepsKeys ==
  ASSUME KeyInv, StartFirstTask \/ StartTask \/ LoadFails \/ Retry, UNCHANGED plan
  PROVE  KeyPart'
<1> USE DEF KeyInv, OutputInv, PlaceInv, plan, KeyPart
<1>1. LastPhase = 8 /\ \A p \in 1 .. 8 : Len(Phases[p]) > 0 BY PhasesAre, PhasesAreNotEmpty
<1>2. wave = NoWave
  BY NoWaveOutside DEF StartFirstTask, StartTask, LoadFails, Retry
<1>3. wave' = NoWave
  BY <1>2 DEF StartFirstTask, StartTask, LoadFails, Retry, keyVars
<1>4. WaveInv' /\ ActiveKeysHaveInputs' BY <1>3, NoWaveFacts
<1>5. CASE StartFirstTask
  <2>1. SnapshotInv' BY <1>5 DEF StartFirstTask, SnapshotInv
  <2>2. ExecutorInv'
    <3>1. task'.phase = 1 /\ task'.pc = "between" /\ task'.step = 0 /\ Len(Phases[1]) > 0
      BY <1>1, <1>5 DEF StartFirstTask
    <3>2. UNCHANGED <<executor, entry>> BY <1>5 DEF StartFirstTask, keyVars
    <3>3. \A ex : Fed(ex, 1) BY DEF Fed
    <3> QED BY <3>1, <3>2, <3>3 DEF ExecutorInv
  <2> QED BY <1>4, <2>1, <2>2
<1>6. CASE StartTask
  <2>1. /\ entry = "workflow" /\ task.phase \in 2 .. 8 /\ UNCHANGED <<entry, checkpoint>>
        /\ task'.phase = task.phase /\ task'.pc = "between" /\ task'.step = 0
        /\ Len(Phases[task.phase]) > 0
    BY <1>1, <1>6 DEF StartTask, EntryKinds
  <2>2. SnapshotInv' BY <2>1 DEF SnapshotInv
  <2>3. \/ executor' = NoExecutor /\ task.phase \notin 4 .. 6
        \/ Live(executor') /\ Fed(executor', task.phase)
    <3>1. CASE task.phase \in ResumingKeys
      <4>1. Live(checkpoint.snapshot) /\ Fed(checkpoint.snapshot, task.phase)
        BY <2>1, <3>1 DEF SnapshotInv, ResumingKeys
      <4>2. checkpoint.snapshot # NoExecutor BY <4>1, LiveIsSome
      <4>3. PICK keys : \E mode \in ExecutionModes(keys) :
                          executor' = Resumed(checkpoint.snapshot, mode)
        BY <1>6, <3>1, <4>2 DEF StartTask
      <4> QED BY <4>1, <4>3, ModesAreSome, ResumedIsFed
    <3>2. CASE task.phase \notin ResumingKeys
      <4>1. task.phase \notin 4 .. 6 BY <3>2 DEF ResumingKeys
      <4> QED BY <1>6, <3>2, <4>1 DEF StartTask
    <3> QED BY <3>1, <3>2
  <2>4. ExecutorInv' BY <2>1, <2>3, LiveIsSome DEF ExecutorInv
  <2> QED BY <1>4, <2>2, <2>4
<1>7. CASE LoadFails \/ Retry
  <2>1. /\ UNCHANGED <<entry, checkpoint, executor>> /\ task'.phase = task.phase
        /\ task'.pc \in {"waiting", "failed"}
    BY <1>7 DEF LoadFails, Retry, keyVars
  <2>2. SnapshotInv' BY <2>1 DEF SnapshotInv
  <2>3. ExecutorInv' BY <2>1 DEF ExecutorInv
  <2> QED BY <1>4, <2>2, <2>3
<1> QED BY <1>5, <1>6, <1>7

LEMMA EndKeepsKeys ==
  ASSUME KeyInv, NextPhase \/ EndPhase \/ SaveCheckpoint \/ Leave \/ Crash, UNCHANGED plan
  PROVE  KeyPart'
<1> USE DEF KeyInv, OutputInv, PlaceInv, plan, KeyPart
<1>1. LastPhase = 8 /\ \A p \in 1 .. 8 : Len(Phases[p]) \in Nat /\ Len(Phases[p]) > 0
  BY PhasesAre, PhasesAreNotEmpty
<1>2. CASE NextPhase \/ EndPhase
  <2>1. /\ UNCHANGED <<entry, checkpoint, executor, wave>>
        /\ task.pc = "between" /\ task.step = Len(Phases[task.phase]) /\ task.phase \in 1 .. 8
    BY <1>1, <1>2 DEF NextPhase, EndPhase, Goes, keyVars
  <2>2. wave' = NoWave BY <2>1, NoWaveOutside
  <2>3. /\ entry # "run" /\ executor # NoExecutor => Fed(executor, task.phase + 1)
        /\ entry # "run" /\ task.phase \in 3 .. 6 => executor # NoExecutor
    BY <2>1 DEF ExecutorInv
  <2>4. CASE EndPhase
    <3>1. task' = [task EXCEPT !.pc = "saving"] BY <2>4 DEF EndPhase, Goes
    <3>2. SnapshotInv' BY <2>1, <3>1 DEF SnapshotInv
    <3>3. ExecutorInv' BY <2>1, <2>3, <3>1 DEF ExecutorInv
    <3> QED BY <2>2, <3>2, <3>3, NoWaveFacts
  <2>5. CASE NextPhase
    <3>1. entry # "workflow" BY <2>5 DEF NextPhase
    <3>2. SnapshotInv' BY <2>1, <3>1 DEF SnapshotInv
    <3>3. CASE task.phase < 8
      <4>1. task' = [task EXCEPT !.phase = @ + 1, !.step = 0] BY <1>1, <2>5, <3>3 DEF NextPhase
      <4>2. task'.phase = task.phase + 1 /\ task'.phase \in 1 .. 8 /\ task'.step = 0
            /\ task'.pc = "between" /\ Len(Phases[task'.phase]) > 0
        BY <1>1, <2>1, <3>3, <4>1, SMTT(30)
      <4>3. ExecutorInv' BY <2>1, <2>3, <4>2 DEF ExecutorInv
      <4> QED BY <2>2, <3>2, <4>3, NoWaveFacts
    <3>4. CASE task.phase = 8
      <4>1. task'.pc = "leaving" BY <1>1, <2>5, <3>4 DEF NextPhase
      <4>2. ExecutorInv' BY <2>1, <4>1 DEF ExecutorInv
      <4> QED BY <2>2, <3>2, <4>2, NoWaveFacts
    <3> QED BY <2>1, <3>3, <3>4
  <2> QED BY <1>2, <2>4, <2>5
<1>3. CASE SaveCheckpoint
  <2>1. /\ UNCHANGED <<entry, executor, wave>> /\ task.pc = "saving" /\ entry = "workflow"
        /\ task'.phase = task.phase /\ task'.pc = "leaving"
    BY <1>3 DEF SaveCheckpoint, keyVars
  <2>2. wave' = NoWave BY <2>1, NoWaveOutside
  <2>3. ExecutorInv' BY <2>1 DEF ExecutorInv
  <2>4. SnapshotInv'
    <3>1. CASE /\ checkpoint' = [context |-> context, snapshot |-> executor]
               /\ task' = [task EXCEPT !.pc = "leaving"]
      <4>1. checkpoint'.snapshot = executor /\ task'.why = task.why BY <3>1
      <4>2. task.phase \in 4 .. 6 => Live(executor) /\ Fed(executor, task.phase)
        BY <2>1 DEF ExecutorInv
      <4>3. task.why = "none" /\ task.phase \in 3 .. 5 =>
              Live(executor) /\ Fed(executor, task.phase + 1)
        BY <2>1 DEF ExecutorInv
      <4>4. executor = NoExecutor \/ Live(executor) BY DEF ExecutorInv
      <4> QED BY <2>1, <4>1, <4>2, <4>3, <4>4 DEF SnapshotInv
    <3>2. CASE /\ UNCHANGED checkpoint
               /\ task' = [task EXCEPT !.pc = "leaving",
                                       !.why = IF @ = "none" THEN "storage" ELSE @]
      <4>1. task'.why # "none" BY <3>2
      <4> QED BY <2>1, <3>2, <4>1 DEF SnapshotInv
    <3> QED BY <1>3, <3>1, <3>2 DEF SaveCheckpoint
  <2> QED BY <2>2, <2>3, <2>4, NoWaveFacts
<1>4. CASE Leave
  <2>1. /\ executor' = NoExecutor /\ wave' = NoWave /\ UNCHANGED <<entry, checkpoint>>
        /\ task.pc = "leaving" /\ task.phase \in 1 .. 8
    BY <1>1, <1>4 DEF Leave, ProcessEnds
  <2>2. \/ task'.pc = "failed" /\ task'.phase = task.phase
        \/ task.why = "none" /\ task'.pc = "waiting" /\ task'.phase = task.phase + 1
    BY <1>4 DEF Leave
  <2>3. ExecutorInv' /\ WaveInv' /\ ActiveKeysHaveInputs' BY <2>1, <2>2, EndedTasksKeepKeys
  <2>4. SnapshotInv' BY <2>1, <2>2 DEF SnapshotInv
  <2> QED BY <2>3, <2>4
<1>5. CASE Crash
  <2>1. /\ executor' = NoExecutor /\ wave' = NoWave /\ UNCHANGED <<entry, checkpoint>>
        /\ task'.pc = "failed" /\ task'.phase = task.phase
    BY <1>5 DEF Crash, ProcessEnds
  <2>2. ExecutorInv' /\ WaveInv' /\ ActiveKeysHaveInputs' BY <2>1, EndedTasksKeepKeys
  <2>3. SnapshotInv' BY <2>1 DEF SnapshotInv
  <2> QED BY <2>2, <2>3
<1> QED BY <1>2, <1>3, <1>4, <1>5

LEMMA BeginKeepsKeys ==
  ASSUME KeyInv, BeginStage, UNCHANGED plan
  PROVE  KeyPart'
<1> USE DEF KeyInv, OutputInv, PlaceInv, plan, KeyPart
<1>1. LastPhase = 8 /\ \A p \in 1 .. 8 : Len(Phases[p]) \in Nat BY PhasesAre
<1>2. /\ UNCHANGED <<entry, checkpoint>> /\ task.pc = "between" /\ task.phase \in 1 .. 8
      /\ task' = [task EXCEPT !.pc = "inside", !.step = @ + 1]
      /\ task.step + 1 \in 1 .. Len(Phases[task.phase])
  BY <1>1 DEF BeginStage
<1>3. task'.phase = task.phase /\ task'.pc = "inside" /\ task'.step = task.step + 1
  BY <1>2
<1> DEFINE s == Phases[task.phase][task.step + 1]
<1>4. Stage' = s BY <1>3 DEF Stage
<1>5. wave = NoWave BY <1>2, NoWaveOutside
<1>6. SnapshotInv' BY <1>2, <1>3 DEF SnapshotInv
<1>7. CASE ~FansOut(s)
  <2>1. UNCHANGED <<executor, wave>> BY <1>7 DEF BeginStage, keyVars
  <2>2. ExecutorInv' BY <1>2, <1>3, <2>1 DEF ExecutorInv
  <2> QED BY <1>5, <1>6, <2>1, <2>2, NoWaveFacts
<1>8. CASE FansOut(s)
  <2> DEFINE fanned == IF s \in KeyStages THEN s ELSE Publishing
  <2>1. SubmitKeys(fanned) BY <1>8 DEF BeginStage
  <2>2. entry # "run" /\ (s \in KeyStages \/ (s = "MLflow Tracking" /\ executor # NoExecutor))
    BY <1>8 DEF FansOut
  <2>3. \/ s \in KeyStages /\ task.phase \in 3 .. 6 /\ s = Phases[task.phase][1]
        \/ s \notin KeyStages /\ task.phase = 8 /\ executor # NoExecutor
    <3>1. s \in KeyStages => task.phase \in 3 .. 6 /\ task.step + 1 = 1
      BY <1>2, KeyPhases, Zenon
    <3>2. s = "MLflow Tracking" => task.phase = 8 BY <1>2, KeyPhases, Zenon
    <3> QED BY <2>2, <3>1, <3>2, Zenon
  <2>4. Live(executor') /\ Fed(executor', task.phase)
    <3>1. CASE executor # NoExecutor
      BY <1>2, <2>1, <2>2, <3>1 DEF SubmitKeys, ExecutorInv
    <3>2. CASE executor = NoExecutor
      <4>1. task.phase = 3 BY <1>2, <2>2, <2>3, <3>2 DEF ExecutorInv
      <4>2. PICK mode \in ExecutionModes(Series) : executor' = FreshExecutor(mode)
        BY <2>1, <3>2 DEF SubmitKeys
      <4> QED BY <4>1, <4>2, ModesAreSome, FreshIsLive, FedAtFirst
    <3> QED BY <3>1, <3>2
  <2>5. executor' # NoExecutor BY <2>4, LiveIsSome
  <2>6. ExecutorInv' BY <1>2, <1>3, <2>2, <2>4, <2>5 DEF ExecutorInv
  <2>7. /\ DOMAIN wave' = {"stage", "total", "pending", "results"} /\ wave'.stage = fanned
        /\ wave'.pending = executor'.active /\ wave'.results = <<>>
    BY <2>1 DEF SubmitKeys
  <2>8. FansOut(Stage)'
    <3>1. entry' # "run" BY <1>2, <2>2
    <3>2. Stage' \in KeyStages \/ (Stage' = "MLflow Tracking" /\ executor' # NoExecutor)
      BY <1>4, <2>2, <2>5, Zenon
    <3> QED BY <3>1, <3>2, Zenon DEF FansOut
  <2>9. WaveInv'
    <3>1. wave'.stage = IF Stage' \in KeyStages THEN Stage' ELSE Publishing
      BY <1>4, <2>7, Zenon
    <3>2. <<>> \in Seq(Keys) OBVIOUS
    <3> QED BY <1>3, <2>4, <2>7, <2>8, <3>1, <3>2 DEF WaveInv
  <2>10. ActiveKeysHaveInputs'
    <3>1. \A t \in InputsOf(fanned) : executor'.active \subseteq executor'.payloads[t]
      <4>1. Fed(executor', task.phase) /\ task.phase \in 1 .. 8 BY <1>2, <2>4
      <4>2. \/ task.phase \in 3 .. 6 /\ fanned = Phases[task.phase][1]
            \/ task.phase = 8 /\ fanned = Publishing
        BY <2>3, Zenon
      <4> HIDE DEF fanned
      <4> QED BY <4>1, <4>2, FedMeansInputs
    <3>2. Range(<<>>) = {} BY DEF Range
    <3> QED BY <2>7, <3>1, <3>2 DEF ActiveKeysHaveInputs, TaskInput
  <2> QED BY <1>6, <2>6, <2>9, <2>10
<1> QED BY <1>7, <1>8

LEMMA TaskKeepsKeys ==
  ASSUME KeyInv, KeyTask, UNCHANGED plan
  PROVE  KeyPart'
<1> USE DEF KeyInv, OutputInv, PlaceInv, plan, KeyPart
<1>1. UNCHANGED <<entry, checkpoint, task>> /\ task.pc = "inside" BY DEF KeyTask
<1>2. PICK k \in Keys : CollectKey(k) \/ DropKey(k) BY DEF KeyTask
<1>3. wave # NoWave /\ k \in wave.pending
  BY <1>2, NoWaveFacts DEF CollectKey, DropKey, Ends
<1>4. Live(executor) /\ executor # NoExecutor /\ wave.results \in Seq(Keys)
  BY <1>3, LiveIsSome DEF WaveInv
<1>5. /\ DOMAIN wave' = DOMAIN wave /\ wave'.stage = wave.stage
      /\ wave'.pending = wave.pending \ {k}
      /\ \/ wave'.results = Append(wave.results, k) /\ executor' = executor
         \/ /\ wave'.results = wave.results
            /\ executor' = [executor EXCEPT !.active = @ \ {k}, !.failures = @ \cup {k}]
  BY <1>2 DEF CollectKey, DropKey, WaveInv
<1>6. Live(executor') /\ (\A p : Fed(executor, p) => Fed(executor', p))
      /\ executor'.active \subseteq executor.active /\ executor'.payloads = executor.payloads
  <2>1. CASE executor' = executor BY <1>4, <2>1
  <2>2. CASE executor' = [executor EXCEPT !.active = @ \ {k}, !.failures = @ \cup {k}]
    <3>1. /\ {"mode", "active", "payloads"} \subseteq DOMAIN executor'
          /\ executor'.mode = executor.mode /\ executor'.active = executor.active \ {k}
          /\ executor'.payloads = executor.payloads
      BY <1>4, <2>2 DEF Live
    <3> QED BY <1>4, <3>1, LiveIsKept
  <2> QED BY <1>5, <2>1, <2>2
<1>7. executor' # NoExecutor BY <1>6, LiveIsSome
<1>8. SnapshotInv' BY <1>1 DEF SnapshotInv
<1>9. ExecutorInv' BY <1>1, <1>4, <1>6, <1>7 DEF ExecutorInv
<1>10. /\ wave'.results \in Seq(Keys)
       /\ Range(wave.results) \subseteq Range(wave'.results)
       /\ Range(wave'.results) \subseteq Range(wave.results) \cup {k}
       /\ wave'.results = wave.results \/ k \in Range(wave'.results)
  <2>1. CASE wave'.results = wave.results BY <1>4, <2>1
  <2>2. CASE wave'.results = Append(wave.results, k)
    <3>1. Append(wave.results, k) \in Seq(Keys) BY <1>4
    <3>2. Len(Append(wave.results, k)) = Len(wave.results) + 1 /\ Len(wave.results) \in Nat
          /\ \A i \in 1 .. Len(wave.results) : Append(wave.results, k)[i] = wave.results[i]
          /\ Append(wave.results, k)[Len(wave.results) + 1] = k
      BY <1>4
    <3> QED BY <1>4, <2>2, <3>1, <3>2, SMTT(30) DEF Range
  <2> QED BY <1>5, <2>1, <2>2
<1>11. executor'.active \subseteq wave'.pending \cup Range(wave'.results)
  <2>1. executor.active \subseteq wave.pending \cup Range(wave.results) BY <1>3 DEF WaveInv
  <2>2. k \notin executor'.active \/ k \in Range(wave'.results)
    <3>1. CASE wave'.results = Append(wave.results, k)
      <4>1. Append(wave.results, k) # wave.results BY <1>4
      <4> QED BY <1>10, <3>1, <4>1
    <3>2. CASE executor' = [executor EXCEPT !.active = @ \ {k}, !.failures = @ \cup {k}]
      BY <1>4, <3>2 DEF Live
    <3> QED BY <1>5, <3>1, <3>2
  <2> QED BY <1>5, <1>6, <1>10, <2>1, <2>2
<1>12. WaveInv'
  <2>1. FansOut(Stage) => FansOut(Stage)' BY <1>1, <1>7 DEF FansOut, Stage
  <2>2. Stage' = Stage BY <1>1 DEF Stage
  <2> QED BY <1>1, <1>3, <1>5, <1>6, <1>10, <1>11, <2>1, <2>2 DEF WaveInv
<1>13. ActiveKeysHaveInputs'
  <2>1. wave'.pending \cup Range(wave'.results) \subseteq wave.pending \cup Range(wave.results)
    BY <1>3, <1>5, <1>10
  <2> QED BY <1>3, <1>5, <1>6, <2>1 DEF ActiveKeysHaveInputs, TaskInput
<1> QED BY <1>8, <1>9, <1>12, <1>13

LEMMA CompleteKeepsKeys ==
  ASSUME KeyInv, CompleteStage \/ CompleteKeyStage \/ TrackRun \/ FailStage, UNCHANGED plan
  PROVE  KeyPart'
<1> USE DEF KeyInv, OutputInv, PlaceInv, plan, KeyPart
<1>1. LastPhase = 8 /\ \A p \in 1 .. 8 : Len(Phases[p]) \in Nat BY PhasesAre
<1>2. /\ UNCHANGED <<entry, checkpoint>> /\ task.pc = "inside" /\ task'.phase = task.phase
      /\ task.phase \in 1 .. 8 /\ task'.pc \in {"between", "saving", "leaving"}
      /\ task'.pc = "between" => task'.step = task.step
      /\ task'.pc # "between" => task'.why # "none"
  <2>1. CASE CompleteStage \/ CompleteKeyStage \/ TrackRun
    <3>1. task.pc = "inside" /\ task' = [task EXCEPT !.pc = "between"] /\ UNCHANGED checkpoint
      BY <2>1 DEF CompleteStage, CompleteKeyStage, TrackRun, Goes
    <3> QED BY <1>1, <3>1
  <2>2. CASE FailStage BY <1>1, <2>2 DEF FailStage
  <2> QED BY <2>1, <2>2
<1>3. SnapshotInv' BY <1>2 DEF SnapshotInv
<1>a. ASSUME UNCHANGED executor, wave' = NoWave,
             task'.pc = "between" /\ entry # "run" => task.phase \notin 3 .. 6
      PROVE  KeyPart'
  <2>1. entry # "run" /\ task'.pc = "between" /\ executor # NoExecutor =>
          Fed(executor, task.phase + 1)
    BY <1>2, <1>a, FedOutside DEF ExecutorInv
  <2>2. ExecutorInv' BY <1>2, <1>a, <2>1 DEF ExecutorInv
  <2> QED BY <1>3, <1>a, <2>2, NoWaveFacts
<1>4. CASE CompleteStage
  <2>1. ~FansOut(Stage) /\ UNCHANGED <<executor, wave>> BY <1>4 DEF CompleteStage, keyVars
  <2>2. wave = NoWave BY <2>1 DEF WaveInv
  <2>3. entry # "run" => Stage \notin KeyStages BY <2>1 DEF FansOut
  <2> QED BY <1>2, <1>a, <2>1, <2>2, <2>3, StageIsAt
<1>5. CASE CompleteKeyStage
  <2>1. Stage \in KeyStages /\ CloseStage /\ entry # "run"
    BY <1>5 DEF CompleteKeyStage, FansOut
  <2>2. task.phase \in 3 .. 6 /\ task.step = 1 /\ Stage = Phases[task.phase][1]
    BY <1>2, <2>1, StageIsAt
  <2>3. wave # NoWave /\ wave.pending = {} /\ wave.stage = Stage /\ Stage # Publishing
        /\ wave' = NoWave /\ Live(executor)
    BY <2>1 DEF CloseStage, WaveInv, KeyStages, Publishing
  <2>4. executor' = [executor EXCEPT !.payloads[Stage] = @ \cup Range(wave.results)]
    BY <2>1, <2>3 DEF CloseStage
  <2>5. Range(wave.results) \subseteq Keys /\ executor.active \subseteq Range(wave.results)
    BY <2>3 DEF WaveInv, Range
  <2>6. /\ {"mode", "active", "payloads"} \subseteq DOMAIN executor'
        /\ executor'.mode = executor.mode /\ executor'.active = executor.active
        /\ executor'.payloads =
             [executor.payloads EXCEPT ![Stage] = @ \cup Range(wave.results)]
    BY <2>3, <2>4 DEF Live
  <2>7. Live(executor') BY <2>1, <2>3, <2>5, <2>6 DEF Live
  <2>8. executor # NoExecutor /\ executor' # NoExecutor BY <2>3, <2>7, LiveIsSome
  <2>9. Fed(executor, task.phase) BY <1>2, <2>1, <2>8 DEF ExecutorInv
  <2>10. ASSUME NEW q \in 3 .. 6, q < task.phase + 1
         PROVE  executor'.active \subseteq executor'.payloads[Phases[q][1]]
    <3>1. Phases[q][1] \in KeyStages BY KeyPhases
    <3>2. executor.payloads \in [KeyStages -> SUBSET Keys] BY <2>3 DEF Live
    <3>3. CASE q = task.phase BY <2>1, <2>2, <2>5, <2>6, <3>2, <3>3
    <3>4. CASE q < task.phase
      <4>1. executor.active \subseteq executor.payloads[Phases[q][1]]
        BY <2>9, <3>4 DEF Fed
      <4> QED BY <2>1, <2>6, <3>1, <3>2, <4>1
    <3> QED BY <1>2, <2>10, <3>3, <3>4
  <2>11. Fed(executor', task.phase + 1) BY <2>10 DEF Fed
  <2>12. Fed(executor', task.phase) BY <1>2, <2>11 DEF Fed
  <2>13. ExecutorInv' BY <1>2, <2>1, <2>7, <2>8, <2>11, <2>12 DEF ExecutorInv
  <2> QED BY <1>3, <2>3, <2>13, NoWaveFacts
<1>6. CASE TrackRun
  <2>1. Stage = "MLflow Tracking" /\ Stage \notin KeyStages BY <1>6 DEF TrackRun, KeyStages
  <2>2. task.phase = 8 BY <1>2, <2>1, StageIsAt
  <2>3. UNCHANGED executor /\ wave' = NoWave
    <3>1. CASE wave = NoWave BY <1>6, <3>1 DEF TrackRun, keyVars
    <3>2. CASE wave # NoWave
      <4>1. wave.stage = Publishing /\ CloseStage BY <1>6, <2>1, <3>2 DEF TrackRun, WaveInv
      <4> QED BY <4>1 DEF CloseStage
    <3> QED BY <3>1, <3>2
  <2> QED BY <1>a, <2>2, <2>3
<1>7. CASE FailStage
  <2>1. task'.pc # "between" BY <1>7 DEF FailStage
  <2>2. UNCHANGED executor /\ wave' = NoWave BY <1>7 DEF FailStage, AbandonStage, keyVars
  <2> QED BY <1>a, <2>1, <2>2
<1> QED BY <1>4, <1>5, <1>6, <1>7

LEMMA KeyInit == Init => KeyInv
<1> SUFFICES ASSUME Init PROVE KeyInv
  OBVIOUS
<1>1. OutputInv BY OutputInit
<1>2. ExecutorInv BY DEF Init, ExecutorInv
<1>3. SnapshotInv BY DEF Init, SnapshotInv, NoCheckpoint
<1>4. WaveInv /\ ActiveKeysHaveInputs BY NoWaveFacts DEF Init
<1> QED BY <1>1, <1>2, <1>3, <1>4 DEF KeyInv

LEMMA KeysInductive == Spec => []KeyInv
<1>1. KeyInv /\ [Next]_vars => KeyInv'
  <2>1. ASSUME KeyInv, Next PROVE KeyInv'
    <3>1. OutputInv' BY <2>1, PlaceStep, OutputStep DEF Next, KeyInv, OutputInv
    <3>2. KeyPart'
      BY <2>1, StartKeepsKeys, EndKeepsKeys, BeginKeepsKeys, TaskKeepsKeys, CompleteKeepsKeys
      DEF Next, Step
    <3> QED BY <3>1, <3>2 DEF KeyInv, KeyPart
  <2>2. ASSUME KeyInv, UNCHANGED vars PROVE KeyInv'
    <3> USE <2>2 DEF KeyInv, vars, plan
    <3>1. OutputInv' BY DEF OutputInv, PlaceInv, ContextInv, CheckpointInv
    <3>2. ExecutorInv' BY DEF ExecutorInv
    <3>3. SnapshotInv' BY DEF SnapshotInv
    <3>4. WaveInv' BY DEF WaveInv, Stage, FansOut
    <3>5. ActiveKeysHaveInputs' BY DEF ActiveKeysHaveInputs, TaskInput
    <3> QED BY <3>1, <3>2, <3>3, <3>4, <3>5
  <2> QED BY <2>1, <2>2
<1> QED BY KeyInit, <1>1, PTL DEF Spec

\* _stage_executor() and resume(): for any series and however the run was started,
\* retried or resumed, no key's task is ever given one of the _EMPTY_ payloads.
THEOREM InputsAreThere == Spec => []ActiveKeysHaveInputs
<1>1. KeyInv => ActiveKeysHaveInputs BY DEF KeyInv
<1> QED BY KeysInductive, <1>1, PTL
--------------------------------------------------------------------------------
(* Induction over numbers and sequences, and what Keep keeps. *)

LEMMA SetInduction ==
  ASSUME NEW T, 0 \in T, \A n \in Nat : n \in T => n + 1 \in T
  PROVE  Nat \subseteq T
<1> SUFFICES ASSUME Nat \ T # {} PROVE FALSE
  OBVIOUS
<1>1. PICK n \in Nat \ T : \A m \in Nat \ T : ~(<<m, n>> \in OpToRel(<, Nat))
  BY NatLessThanWellFounded, WFMin
<1>2. \A m \in Nat \ T : ~(m < n) BY <1>1 DEF OpToRel
<1>3. n \in Nat /\ n \notin T OBVIOUS
<1>4. n # 0 BY <1>3
<1>5. n - 1 \in Nat BY <1>3, <1>4
<1>6. n - 1 \in T BY <1>2, <1>5
<1>7. (n - 1) + 1 = n BY <1>3
<1> QED BY <1>3, <1>5, <1>6, <1>7

LEMMA SeqInduction ==
  ASSUME NEW T, NEW Good, <<>> \in Good,
         \A s \in Seq(T) : \A x \in T : s \in Good => Append(s, x) \in Good
  PROVE  Seq(T) \subseteq Good
<1> DEFINE N == {n \in Nat : \A s \in Seq(T) : Len(s) = n => s \in Good}
<1>1. 0 \in N
  <2>1. \A s \in Seq(T) : Len(s) = 0 => s = <<>> OBVIOUS
  <2> QED BY <2>1
<1>2. ASSUME NEW n \in Nat, n \in N PROVE n + 1 \in N
  <2> SUFFICES ASSUME NEW s \in Seq(T), Len(s) = n + 1 PROVE s \in Good
    OBVIOUS
  <2> DEFINE r == SubSeq(s, 1, n)
  <2>1. r \in Seq(T) /\ Len(r) = n /\ s[n + 1] \in T
    BY <1>2
  <2>2. s = Append(r, s[n + 1]) BY <1>2
  <2>3. r \in Good BY <1>2, <2>1
  <2> QED BY <2>1, <2>2, <2>3
<1> HIDE DEF N
<1>3. Nat \subseteq N BY <1>1, <1>2, SetInduction, Zenon
<1> QED BY <1>3 DEF N

\* The steps of a Keep.
Kept(f, s, M) ==
  f = [n \in 0 .. Len(s) |->
         IF n = 0 THEN <<>> ELSE IF s[n] \in M THEN Append(f[n - 1], s[n]) ELSE f[n - 1]]

LEMMA KeptStep ==
  ASSUME NEW f, NEW s, NEW M, Kept(f, s, M), NEW n \in 1 .. Len(s), Len(s) \in Nat
  PROVE  f[n] = IF s[n] \in M THEN Append(f[n - 1], s[n]) ELSE f[n - 1]
<1> DEFINE step(m) == IF m = 0 THEN <<>> ELSE IF s[m] \in M THEN Append(f[m - 1], s[m]) ELSE f[m - 1]
<1>1. n \in 0 .. Len(s) /\ n # 0 OBVIOUS
<1>2. f = [m \in 0 .. Len(s) |-> step(m)] BY DEF Kept
<1> HIDE DEF step
<1>3. f[n] = step(n) BY <1>1, <1>2
<1> QED BY <1>1, <1>3 DEF step

LEMMA KeptExists == ASSUME NEW T, NEW M PROVE \A s \in Seq(T) : \E f : Kept(f, s, M)
<1> DEFINE Good == {s \in Seq(T) : \E f : Kept(f, s, M)}
<1>1. <<>> \in Good
  <2>1. Kept([n \in 0 .. 0 |-> <<>>], <<>>, M) BY DEF Kept
  <2> QED BY <2>1
<1>2. ASSUME NEW s \in Seq(T), NEW x \in T, s \in Good PROVE Append(s, x) \in Good
  <2> DEFINE l == Append(s, x)
  <2>1. PICK f : Kept(f, s, M) BY <1>2
  <2> DEFINE g == [n \in 0 .. Len(l) |->
                     IF n <= Len(s) THEN f[n]
                     ELSE IF x \in M THEN Append(f[Len(s)], x) ELSE f[Len(s)]]
  <2>2. /\ l \in Seq(T) /\ Len(l) = Len(s) + 1 /\ Len(s) \in Nat /\ l[Len(l)] = x
        /\ \A n \in 1 .. Len(s) : l[n] = s[n]
    BY <1>2
  <2>3. ASSUME NEW n \in 0 .. Len(l)
        PROVE  g[n] = IF n = 0 THEN <<>>
                      ELSE IF l[n] \in M THEN Append(g[n - 1], l[n]) ELSE g[n - 1]
    <3> HIDE DEF l
    <3>1. CASE n = 0 BY <2>1, <2>2, <3>1 DEF Kept
    <3>2. CASE n \in 1 .. Len(s)
      <4>1. f[n] = IF s[n] \in M THEN Append(f[n - 1], s[n]) ELSE f[n - 1]
        BY <2>1, <2>2, <3>2, KeptStep
      <4>2. g[n] = f[n] /\ g[n - 1] = f[n - 1] /\ l[n] = s[n] BY <2>2, <3>2
      <4> QED BY <3>2, <4>1, <4>2
    <3>3. CASE n = Len(l)
      <4>1. g[n] = IF x \in M THEN Append(f[Len(s)], x) ELSE f[Len(s)] BY <2>2, <3>3
      <4>2. g[n - 1] = f[Len(s)] /\ l[n] = x /\ n # 0 BY <2>2, <3>3
      <4> QED BY <4>1, <4>2
    <3> QED BY <2>2, <3>1, <3>2, <3>3
  <2>4. Kept(g, l, M)
    <3> HIDE DEF l
    <3> QED BY <2>3 DEF Kept
  <2> QED BY <2>2, <2>4
<1> HIDE DEF Good
<1>3. Seq(T) \subseteq Good BY <1>1, <1>2, SeqInduction, Zenon
<1> QED BY <1>3 DEF Good

LEMMA KeepIs ==
  ASSUME NEW T, NEW s \in Seq(T), NEW M
  PROVE  \E f : Kept(f, s, M) /\ Keep(s, M) = f[Len(s)]
<1> DEFINE f == CHOOSE f : Kept(f, s, M)
<1>1. Kept(f, s, M) BY KeptExists
<1>2. Keep(s, M) = f[Len(s)] BY DEF Keep, Kept
<1> QED BY <1>1, <1>2

LEMMA KeepEmpty == \A M : Keep(<<>>, M) = <<>>
<1> SUFFICES ASSUME NEW M PROVE Keep(<<>>, M) = <<>>
  OBVIOUS
<1>1. PICK f : Kept(f, <<>>, M) /\ Keep(<<>>, M) = f[Len(<<>>)]
  <2>1. <<>> \in Seq({}) OBVIOUS
  <2> QED BY <2>1, KeepIs
<1> QED BY <1>1 DEF Kept

LEMMA KeepAppend ==
  ASSUME NEW T, NEW s \in Seq(T), NEW x \in T, NEW M
  PROVE  Keep(Append(s, x), M) = IF x \in M THEN Append(Keep(s, M), x) ELSE Keep(s, M)
<1> DEFINE l == Append(s, x)
<1>1. /\ l \in Seq(T) /\ Len(l) = Len(s) + 1 /\ Len(s) \in Nat /\ l[Len(l)] = x
      /\ \A n \in 1 .. Len(s) : l[n] = s[n]
  OBVIOUS
<1>2. PICK f : Kept(f, s, M) /\ Keep(s, M) = f[Len(s)] BY KeepIs
<1>3. PICK g : Kept(g, l, M) /\ Keep(l, M) = g[Len(l)] BY <1>1, KeepIs
<1> HIDE DEF l
<1> DEFINE N == {n \in Nat : n <= Len(s) => g[n] = f[n]}
<1>4. 0 \in N BY <1>1, <1>2, <1>3 DEF Kept
<1>5. ASSUME NEW n \in Nat, n \in N PROVE n + 1 \in N
  <2> SUFFICES ASSUME n + 1 <= Len(s) PROVE g[n + 1] = f[n + 1]
    OBVIOUS
  <2>1. n + 1 \in 1 .. Len(s) /\ n + 1 \in 1 .. Len(l) /\ (n + 1) - 1 = n BY <1>1
  <2>2. f[n + 1] = IF s[n + 1] \in M THEN Append(f[n], s[n + 1]) ELSE f[n]
    BY <1>1, <1>2, <2>1, KeptStep
  <2>3. g[n + 1] = IF l[n + 1] \in M THEN Append(g[n], l[n + 1]) ELSE g[n]
    BY <1>1, <1>3, <2>1, KeptStep
  <2>4. g[n] = f[n] /\ l[n + 1] = s[n + 1] BY <1>1, <1>5, <2>1
  <2> QED BY <2>2, <2>3, <2>4
<1> HIDE DEF N
<1>6. Nat \subseteq N BY <1>4, <1>5, SetInduction, Zenon
<1>7. g[Len(s)] = f[Len(s)] BY <1>1, <1>6 DEF N
<1>8. Len(l) \in 1 .. Len(l) /\ Len(l) - 1 = Len(s) BY <1>1
<1>9. g[Len(l)] = IF x \in M THEN Append(g[Len(s)], x) ELSE g[Len(s)]
  BY <1>1, <1>3, <1>8, KeptStep
<1> QED BY <1>2, <1>3, <1>7, <1>9 DEF l

LEMMA RangeAppend ==
  ASSUME NEW T, NEW s \in Seq(T), NEW x \in T
  PROVE  Range(Append(s, x)) = Range(s) \cup {x}
<1>1. /\ Append(s, x) \in Seq(T) /\ Len(Append(s, x)) = Len(s) + 1 /\ Len(s) \in Nat
      /\ \A n \in 1 .. Len(s) : Append(s, x)[n] = s[n]
      /\ Append(s, x)[Len(s) + 1] = x
  OBVIOUS
<1> QED BY <1>1 DEF Range

LEMMA RangeEmpty == Range(<<>>) = {}
  BY DEF Range

\* What is kept: the members, as a sequence.
LEMMA KeepRange ==
  ASSUME NEW T, NEW M
  PROVE  \A s \in Seq(T) : Keep(s, M) \in Seq(T) /\ Range(Keep(s, M)) = Range(s) \cap M
<1> DEFINE Good == {s \in Seq(T) : Keep(s, M) \in Seq(T) /\ Range(Keep(s, M)) = Range(s) \cap M}
<1>1. <<>> \in Good
  <2>1. <<>> \in Seq(T) OBVIOUS
  <2> QED BY <2>1, KeepEmpty, RangeEmpty
<1>2. ASSUME NEW s \in Seq(T), NEW x \in T, s \in Good PROVE Append(s, x) \in Good
  <2>1. Keep(s, M) \in Seq(T) /\ Range(Keep(s, M)) = Range(s) \cap M BY <1>2
  <2>2. Keep(Append(s, x), M) = IF x \in M THEN Append(Keep(s, M), x) ELSE Keep(s, M)
    BY KeepAppend
  <2>3. Append(s, x) \in Seq(T) /\ Append(Keep(s, M), x) \in Seq(T) BY <2>1
  <2>4. Range(Append(s, x)) = Range(s) \cup {x} BY RangeAppend
  <2>5. Range(Append(Keep(s, M), x)) = Range(Keep(s, M)) \cup {x} BY <2>1, RangeAppend
  <2> QED BY <2>1, <2>2, <2>3, <2>4, <2>5
<1> HIDE DEF Good
<1>3. Seq(T) \subseteq Good BY <1>1, <1>2, SeqInduction, Zenon
<1> QED BY <1>3 DEF Good

\* Keeping twice is keeping what is in both.
LEMMA KeepTwice ==
  ASSUME NEW T, NEW M, NEW L
  PROVE  \A s \in Seq(T) : Keep(Keep(s, M), L) = Keep(s, M \cap L)
<1> DEFINE Good == {s \in Seq(T) : Keep(Keep(s, M), L) = Keep(s, M \cap L)}
<1>1. <<>> \in Good BY KeepEmpty
<1>2. ASSUME NEW s \in Seq(T), NEW x \in T, s \in Good PROVE Append(s, x) \in Good
  <2>1. Append(s, x) \in Seq(T) /\ Keep(s, M) \in Seq(T) BY KeepRange
  <2>2. Keep(Keep(s, M), L) = Keep(s, M \cap L) BY <1>2
  <2>3. Keep(Append(s, x), M) = IF x \in M THEN Append(Keep(s, M), x) ELSE Keep(s, M)
    BY KeepAppend
  <2>4. Keep(Append(s, x), M \cap L)
          = IF x \in M \cap L THEN Append(Keep(s, M \cap L), x) ELSE Keep(s, M \cap L)
    BY KeepAppend
  <2>5. Keep(Append(Keep(s, M), x), L)
          = IF x \in L THEN Append(Keep(Keep(s, M), L), x) ELSE Keep(Keep(s, M), L)
    BY <2>1, KeepAppend
  <2>6. CASE x \in M /\ x \in L BY <2>1, <2>2, <2>3, <2>4, <2>5, <2>6, Zenon
  <2>7. CASE x \notin M BY <2>1, <2>2, <2>3, <2>4, <2>7, Zenon
  <2>8. CASE x \in M /\ x \notin L BY <2>1, <2>2, <2>3, <2>4, <2>5, <2>8, Zenon
  <2> QED BY <2>6, <2>7, <2>8
<1> HIDE DEF Good
<1>3. Seq(T) \subseteq Good BY <1>1, <1>2, SeqInduction, Zenon
<1> QED BY <1>3 DEF Good

\* Only the members in the sequence matter.
LEMMA KeepSame ==
  ASSUME NEW T, NEW M, NEW L
  PROVE  \A s \in Seq(T) : Range(s) \cap M = Range(s) \cap L => Keep(s, M) = Keep(s, L)
<1> DEFINE Good == {s \in Seq(T) : Range(s) \cap M = Range(s) \cap L => Keep(s, M) = Keep(s, L)}
<1>1. <<>> \in Good BY KeepEmpty
<1>2. ASSUME NEW s \in Seq(T), NEW x \in T, s \in Good PROVE Append(s, x) \in Good
  <2>1. Append(s, x) \in Seq(T) OBVIOUS
  <2>2. Range(Append(s, x)) = Range(s) \cup {x} BY RangeAppend
  <2> SUFFICES ASSUME Range(Append(s, x)) \cap M = Range(Append(s, x)) \cap L
               PROVE  Keep(Append(s, x), M) = Keep(Append(s, x), L)
    BY <2>1
  <2>3. Range(s) \cap M = Range(s) \cap L /\ (x \in M <=> x \in L) BY <2>2
  <2>4. Keep(s, M) = Keep(s, L) BY <1>2, <2>3
  <2>5. /\ Keep(Append(s, x), M) = IF x \in M THEN Append(Keep(s, M), x) ELSE Keep(s, M)
        /\ Keep(Append(s, x), L) = IF x \in L THEN Append(Keep(s, L), x) ELSE Keep(s, L)
    BY KeepAppend
  <2> QED BY <2>3, <2>4, <2>5
<1> HIDE DEF Good
<1>3. Seq(T) \subseteq Good BY <1>1, <1>2, SeqInduction, Zenon
<1> QED BY <1>3 DEF Good
--------------------------------------------------------------------------------
(* What the state is made of. *)

RowRecord == [status: {"RUNNING", "FINISHED", "FAILED"},
              failed_stage: Stages \cup {"none"}, summary: BOOLEAN]

\* A context that was begun, in a run that has opened n MLflow runs.
Begun(c, n) ==
  /\ DOMAIN c = {"trail", "outputs", "reports", "tracking"}
  /\ c.trail \in Seq(StageRecord)
  /\ c.outputs \subseteq Stages
  /\ DOMAIN c.reports \subseteq KeyStages
  /\ \A s \in DOMAIN c.reports : c.reports[s] \in Seq(Keys)
  /\ c.tracking \in 0 .. n

\* An executor that was built.
Built(ex) ==
  ex \in [mode: {"sequential", "driver only", "ray on spark"}, active: SUBSET Keys,
          order: Seq(Keys), failures: SUBSET Keys, payloads: [KeyStages -> SUBSET Keys]]

\* A fan-out under way: each of its keys is awaited, or in, or was dropped.
FanOutOK(w, ex) ==
  /\ w.stage \in KeyStages \cup {Publishing}
  /\ w.total \in Nat /\ w.pending \subseteq ex.active
  /\ w.results \in Seq(Keys)
  /\ Cardinality(ex.active) = Len(w.results) + Cardinality(w.pending)
  /\ Cardinality(ex.active) <= w.total

TaskShape == task \in Tasks

RowShape ==
  /\ rows \in Seq(RowRecord) /\ open \in BOOLEAN /\ untracked \in BOOLEAN
  /\ open => task.pc \notin {"waiting", "failed"} /\ context.tracking # 0

ContextShape ==
  /\ context = NoContext \/ Begun(context, Len(rows))
  /\ task.pc \notin {"waiting", "failed"} => Begun(context, Len(rows))
  /\ task.pc = "inside" => context.trail # <<>>

CheckpointShape ==
  /\ DOMAIN checkpoint = {"context", "snapshot"}
  /\ checkpoint.context = NoContext \/ Begun(checkpoint.context, Len(rows))
  /\ entry = "workflow" =>
       /\ task.phase \in 2 .. LastPhase => Begun(checkpoint.context, Len(rows))
       /\ task.pc = "leaving" /\ task.why = "none" => Begun(checkpoint.context, Len(rows))

KeyShape ==
  /\ executor = NoExecutor \/ Built(executor)
  /\ checkpoint.snapshot = NoExecutor \/ Built(checkpoint.snapshot)
  /\ wave # NoWave => Built(executor) /\ FanOutOK(wave, executor)

PlanShape == entry \in Entries /\ cluster \in Clusters

ShapeInv == PlanShape /\ TaskShape /\ RowShape /\ ContextShape /\ CheckpointShape /\ KeyShape

LEMMA LargestExists ==
  ASSUME NEW n \in Nat, NEW S \in SUBSET (1 .. n), S # {}
  PROVE  \E i \in S : \A j \in S : j <= i
<1> DEFINE N == {m \in Nat : \A R \in SUBSET (1 .. m) : R # {} => \E i \in R : \A j \in R : j <= i}
<1>1. 0 \in N
  <2>1. 1 .. 0 = {} OBVIOUS
  <2> QED BY <2>1
<1>2. ASSUME NEW m \in Nat, m \in N PROVE m + 1 \in N
  <2> SUFFICES ASSUME NEW R \in SUBSET (1 .. m + 1), R # {}
               PROVE  \E i \in R : \A j \in R : j <= i
    OBVIOUS
  <2>1. CASE m + 1 \in R
    <3>1. \A j \in R : j <= m + 1 OBVIOUS
    <3> QED BY <2>1, <3>1
  <2>2. CASE m + 1 \notin R
    <3>1. \A j \in R : j \in 1 .. m
      <4>1. \A j \in R : j \in 1 .. m + 1 /\ j # m + 1 BY <2>2
      <4> QED BY <4>1
    <3> QED BY <1>2, <3>1
  <2> QED BY <2>1, <2>2
<1> HIDE DEF N
<1>3. Nat \subseteq N BY <1>1, <1>2, SetInduction, Zenon
<1> QED BY <1>3 DEF N

LEMMA KeysAreFinite ==
  /\ IsFiniteSet(Keys) /\ Cardinality(Keys) \in Nat /\ Series \in Seq(Keys)
  /\ \A K \in SUBSET Keys : IsFiniteSet(K) /\ Cardinality(K) \in Nat
                            /\ Cardinality(K) <= Cardinality(Keys)
<1> DEFINE Good == {s \in Seq(Keys) : IsFiniteSet(Range(s))}
<1>1. <<>> \in Good
  <2>1. <<>> \in Seq(Keys) OBVIOUS
  <2> QED BY <2>1, RangeEmpty, FS_EmptySet
<1>2. ASSUME NEW s \in Seq(Keys), NEW x \in Keys, s \in Good PROVE Append(s, x) \in Good
  <2>1. Append(s, x) \in Seq(Keys) /\ Range(Append(s, x)) = Range(s) \cup {x} BY RangeAppend
  <2>2. IsFiniteSet(Range(s) \cup {x}) BY <1>2, FS_AddElement
  <2> QED BY <2>1, <2>2
<1> HIDE DEF Good
<1>3. Seq(Keys) \subseteq Good BY <1>1, <1>2, SeqInduction, Zenon
<1>4. Series \in Seq(Keys) BY SeriesAssumption DEF Keys
<1>5. IsFiniteSet(Keys) BY <1>3, <1>4 DEF Good, Keys
<1>6. ASSUME NEW K \in SUBSET Keys
      PROVE  IsFiniteSet(K) /\ Cardinality(K) \in Nat /\ Cardinality(K) <= Cardinality(Keys)
  BY <1>5, FS_Subset, FS_CardinalityType
<1> QED BY <1>4, <1>5, <1>6, FS_CardinalityType

LEMMA StagesAre ==
  /\ \A p \in 1 .. 8 : \A i \in 1 .. Len(Phases[p]) : Phases[p][i] \in Stages
  /\ KeyStages \subseteq Stages
<1>1. DOMAIN Phases = 1 .. 8 BY DEF Phases
<1>2. ASSUME NEW p \in 1 .. 8, NEW i \in 1 .. Len(Phases[p]) PROVE Phases[p][i] \in Stages
  <2>1. Phases[p][i] \in Range(Phases[p]) BY PhasesAre DEF First
  <2> QED BY <1>1, <2>1 DEF Stages
<1>3. KeyStages \subseteq Stages
  <2>1. \A p \in 3 .. 6 : Phases[p][1] \in Stages
    <3> SUFFICES ASSUME NEW p \in 3 .. 6 PROVE Phases[p][1] \in Stages
      OBVIOUS
    <3>1. Len(Phases[p]) = 1 BY KeyPhases
    <3>2. 1 \in 1 .. Len(Phases[p]) BY <3>1
    <3> QED BY <1>2, <3>2
  <2>2. /\ Phases[3][1] \in Stages /\ Phases[4][1] \in Stages
        /\ Phases[5][1] \in Stages /\ Phases[6][1] \in Stages
    BY <2>1
  <2>3. KeyStages = {Phases[3][1], Phases[4][1], Phases[5][1], Phases[6][1]}
    BY KeyPhasesAre DEF KeyStages
  <2> QED BY <2>2, <2>3
<1> QED BY <1>2, <1>3

LEMMA NoTelemetryIs == NoTelemetry \in [total: Nat, completed: Nat, failed: Nat]
  BY DEF NoTelemetry

LEMMA FailedStageIs ==
  ASSUME NEW trail \in Seq(StageRecord), trail # <<>>
  PROVE  FailedStage(trail) \in Stages
<1>1. Len(trail) \in Nat /\ Len(trail) > 0 /\ DOMAIN trail = 1 .. Len(trail) OBVIOUS
<1>2. \A i \in 1 .. Len(trail) : trail[i].stage \in Stages
  <2>1. \A i \in 1 .. Len(trail) : trail[i] \in StageRecord OBVIOUS
  <2> QED BY <2>1 DEF StageRecord
<1>3. CASE FailedRecords(trail) = {} BY <1>1, <1>2, <1>3 DEF FailedStage
<1>4. CASE FailedRecords(trail) # {}
  <2>1. FailedRecords(trail) \in SUBSET (1 .. Len(trail)) BY <1>1 DEF FailedRecords
  <2>2. \E i \in FailedRecords(trail) : \A j \in FailedRecords(trail) : j <= i
    BY <1>1, <1>4, <2>1, LargestExists
  <2> DEFINE last == CHOOSE i \in FailedRecords(trail) : \A j \in FailedRecords(trail) : j <= i
  <2>3. last \in FailedRecords(trail) BY <2>2
  <2>4. FailedStage(trail) = trail[last].stage BY <1>4 DEF FailedStage
  <2> HIDE DEF last
  <2> QED BY <1>2, <2>1, <2>3, <2>4
<1> QED BY <1>3, <1>4

LEMMA BegunLonger ==
  ASSUME NEW c, NEW n \in Nat, NEW m \in Nat, n <= m, Begun(c, n)
  PROVE  Begun(c, m)
  BY DEF Begun

LEMMA NewIsBegun ==
  ASSUME NEW n \in Nat, NEW row \in 0 .. n
  PROVE  Begun(NewContext(row), n)
<1>1. <<>> \in Seq(StageRecord) OBVIOUS
<1> QED BY <1>1 DEF Begun, NewContext

LEMMA NoContextIs == DOMAIN NoContext = {"trail", "outputs", "reports", "tracking"}
  BY DEF NoContext, NewContext

\* The last record with another status or other counts.
LEMMA RecordUpdated ==
  ASSUME NEW trail \in Seq(StageRecord), trail # <<>>,
         NEW rec, rec \in StageRecord
  PROVE  LET new == [trail EXCEPT ![Len(trail)] = rec]
         IN  /\ new \in Seq(StageRecord) /\ new # <<>> /\ Len(new) = Len(trail)
             /\ new[Len(trail)] = rec
             /\ \A i \in 1 .. Len(trail) : i # Len(trail) => new[i] = trail[i]
<1>1. Len(trail) \in Nat /\ Len(trail) > 0 OBVIOUS
<1> DEFINE new == [trail EXCEPT ![Len(trail)] = rec]
<1>2. /\ new \in Seq(StageRecord) /\ Len(new) = Len(trail) /\ new[Len(trail)] = rec
      /\ \A i \in 1 .. Len(trail) : i # Len(trail) => new[i] = trail[i]
  BY <1>1
<1>3. new # <<>>
  <2>1. Len(<<>>) = 0 OBVIOUS
  <2> HIDE DEF new
  <2> QED BY <1>1, <1>2, <2>1
<1> QED BY <1>2, <1>3

LEMMA LastRecordIs ==
  ASSUME NEW trail \in Seq(StageRecord), trail # <<>>
  PROVE  /\ trail[Len(trail)] \in StageRecord
         /\ \A status \in {"Running", "Completed", "Failed"} :
              [trail[Len(trail)] EXCEPT !.status = status] \in StageRecord
         /\ \A t \in [total: Nat, completed: Nat, failed: Nat] :
              [trail[Len(trail)] EXCEPT !.tasks = t] \in StageRecord
<1>1. trail[Len(trail)] \in StageRecord OBVIOUS
<1> QED BY <1>1 DEF StageRecord
--------------------------------------------------------------------------------
(* Every step keeps the shape of the state. *)

LEMMA TaskShapeStep == ASSUME PlaceInv, TaskShape, Step PROVE TaskShape'
<1> USE DEF TaskShape, Tasks
<1>1. LastPhase = 8 /\ \A p \in 1 .. LastPhase : Len(Phases[p]) \in Nat BY PhasesAre
<1>2. MaxRetries \in Nat BY PipelineAssumption
<1>3. CASE StartFirstTask \/ StartTask \/ LoadFails
  <2>1. \/ task' = [task EXCEPT !.pc = "between", !.step = 0]
        \/ task' = [task EXCEPT !.pc = "failed", !.why = "storage"]
    BY <1>3 DEF StartFirstTask, StartTask, LoadFails
  <2>2. CASE task' = [task EXCEPT !.pc = "between", !.step = 0] BY <2>2
  <2>3. CASE task' = [task EXCEPT !.pc = "failed", !.why = "storage"] BY <2>3
  <2> QED BY <2>1, <2>2, <2>3
<1>4. CASE BeginStage \/ KeyTask
  <2>1. \/ task' = [task EXCEPT !.pc = "inside", !.step = @ + 1]
        \/ task' = task
    BY <1>4 DEF BeginStage, KeyTask
  <2>2. task.step + 1 \in Nat OBVIOUS
  <2>3. CASE task' = [task EXCEPT !.pc = "inside", !.step = @ + 1] BY <2>2, <2>3
  <2> QED BY <2>1, <2>3
<1>5. CASE CompleteStage \/ CompleteKeyStage \/ TrackRun
  BY <1>5 DEF CompleteStage, CompleteKeyStage, TrackRun, Goes
<1>6. CASE FailStage \/ EndPhase BY <1>6 DEF FailStage, EndPhase, Goes
<1>7. CASE NextPhase
  <2>1. CASE task.phase < LastPhase /\ task' = [task EXCEPT !.phase = @ + 1, !.step = 0]
    <3>1. task.phase \in 1 .. LastPhase + 1 BY DEF PlaceInv
    <3>2. task.phase + 1 \in 1 .. LastPhase + 1
      <4>1. task.phase \in 1 .. 8 + 1 /\ task.phase < 8 BY <1>1, <2>1, <3>1, Zenon
      <4>2. task.phase + 1 \in 1 .. 8 + 1 BY <4>1
      <4> QED BY <1>1, <4>2, Zenon
    <3> QED BY <2>1, <3>2
  <2>2. CASE task' = [task EXCEPT !.pc = "leaving"] BY <2>2
  <2> QED BY <1>7, <2>1, <2>2 DEF NextPhase
<1>8. CASE SaveCheckpoint BY <1>8 DEF SaveCheckpoint
<1>9. CASE Leave
  <2>1. CASE task' = [task EXCEPT !.pc = "failed"] BY <2>1
  <2>2. CASE task' = [task EXCEPT !.phase = @ + 1, !.pc = "waiting", !.step = 0]
    <3>1. task.phase <= LastPhase /\ task.phase \in 1 .. LastPhase + 1
      BY <1>9 DEF Leave, PlaceInv
    <3>2. task.phase + 1 \in 1 .. LastPhase + 1
      <4>1. task.phase \in 1 .. 8 + 1 /\ task.phase <= 8 BY <1>1, <3>1, Zenon
      <4>2. task.phase + 1 \in 1 .. 8 + 1 BY <4>1
      <4> QED BY <1>1, <4>2, Zenon
    <3> QED BY <2>2, <3>2
  <2> QED BY <1>9, <2>1, <2>2 DEF Leave
<1>10. CASE Crash BY <1>10 DEF Crash
<1>11. CASE Retry
  <2>1. task.retries + 1 \in 0 .. MaxRetries BY <1>2, <1>11 DEF Retry
  <2> QED BY <1>11, <2>1 DEF Retry
<1> QED BY <1>3, <1>4, <1>5, <1>6, <1>7, <1>8, <1>9, <1>10, <1>11 DEF Step

\* The MLflow runs keep their shape; none is forgotten.
LEMMA RowsAre ==
  ASSUME NEW rs \in Seq(RowRecord)
  PROVE  /\ Append(rs, NewRow) \in Seq(RowRecord) /\ Len(Append(rs, NewRow)) = Len(rs) + 1
         /\ \A i \in 1 .. Len(rs) : \A r \in RowRecord :
              [rs EXCEPT ![i] = r] \in Seq(RowRecord) /\ Len([rs EXCEPT ![i] = r]) = Len(rs)
<1>1. NewRow \in RowRecord BY DEF NewRow, RowRecord
<1> QED BY <1>1

\* What is written to the row of a run.
RowWritten(i) ==
  \/ UNCHANGED rows
  \/ \E r \in RowRecord : rows' = [rows EXCEPT ![i] = r]

LEMMA WrittenRowsAre ==
  ASSUME NEW i \in 1 .. Len(rows), rows \in Seq(RowRecord), RowWritten(i)
  PROVE  rows' \in Seq(RowRecord) /\ Len(rows') = Len(rows)
  BY RowsAre DEF RowWritten

LEMMA WrittenRowIs ==
  ASSUME NEW i \in 1 .. Len(rows), rows \in Seq(RowRecord)
  PROVE  /\ \A v \in {"RUNNING", "FINISHED", "FAILED"} :
              rows' = [rows EXCEPT ![i].status = v] => RowWritten(i)
         /\ rows' = [rows EXCEPT ![i].status = "FINISHED", ![i].summary = TRUE] => RowWritten(i)
         /\ \A s \in Stages :
              rows' = [rows EXCEPT ![i].status = "FAILED", ![i].failed_stage = s] => RowWritten(i)
<1>1. rows[i] \in RowRecord OBVIOUS
<1>2. ASSUME NEW v \in {"RUNNING", "FINISHED", "FAILED"}, rows' = [rows EXCEPT ![i].status = v]
      PROVE  RowWritten(i)
  <2>1. [rows[i] EXCEPT !.status = v] \in RowRecord BY <1>1 DEF RowRecord
  <2> QED BY <1>2, <2>1 DEF RowWritten
<1>3. ASSUME rows' = [rows EXCEPT ![i].status = "FINISHED", ![i].summary = TRUE]
      PROVE  RowWritten(i)
  <2> DEFINE r == [rows[i] EXCEPT !.status = "FINISHED", !.summary = TRUE]
  <2>1. r \in RowRecord BY <1>1 DEF RowRecord
  <2>2. rows' = [rows EXCEPT ![i] = r] BY <1>3
  <2> HIDE DEF r
  <2> QED BY <2>1, <2>2 DEF RowWritten
<1>4. ASSUME NEW s \in Stages,
             rows' = [rows EXCEPT ![i].status = "FAILED", ![i].failed_stage = s]
      PROVE  RowWritten(i)
  <2> DEFINE r == [rows[i] EXCEPT !.status = "FAILED", !.failed_stage = s]
  <2>1. r \in RowRecord BY <1>1 DEF RowRecord
  <2>2. rows' = [rows EXCEPT ![i] = r] BY <1>4
  <2> HIDE DEF r
  <2> QED BY <2>1, <2>2 DEF RowWritten
<1> QED BY <1>2, <1>3, <1>4

\* The stage under way has a record of its own, which the steps write.
TrailWritten(new) ==
  /\ new \in Seq(StageRecord) /\ new # <<>>

LEMMA RecordedIs ==
  ASSUME context.trail \in Seq(StageRecord), context.trail # <<>>,
         NEW status \in {"Running", "Completed", "Failed"}
  PROVE  /\ Recorded(status) \in Seq(StageRecord) /\ Recorded(status) # <<>>
         /\ Len(Recorded(status)) = Len(context.trail)
         /\ Recorded(status) = [context.trail EXCEPT ![Len(context.trail)] =
                                  [context.trail[Len(context.trail)] EXCEPT !.status = status]]
<1> DEFINE rec == [context.trail[Len(context.trail)] EXCEPT !.status = status]
<1>1. rec \in StageRecord BY LastRecordIs
<1>2. Recorded(status) = [context.trail EXCEPT ![Len(context.trail)] = rec] BY DEF Recorded
<1> HIDE DEF rec
<1>3. /\ Recorded(status) \in Seq(StageRecord) /\ Recorded(status) # <<>>
      /\ Len(Recorded(status)) = Len(context.trail)
  BY <1>1, <1>2, RecordUpdated
<1> QED BY <1>2, <1>3 DEF rec

LEMMA TelemetryIs ==
  ASSUME NEW w, NEW ex, Built(ex), FanOutOK(w, ex)
  PROVE  /\ Telemetry(w) \in [total: Nat, completed: Nat, failed: Nat]
         /\ Telemetry(w).total = w.total
         /\ w.total - Telemetry(w).failed = Cardinality(ex.active)
         /\ Telemetry(w).completed = Len(w.results)
<1>1. ex.active \subseteq Keys BY DEF Built
<1>2. Len(w.results) \in Nat /\ Cardinality(w.pending) \in Nat /\ Cardinality(ex.active) \in Nat
  BY <1>1, KeysAreFinite DEF FanOutOK
<1>3. w.total - Len(w.results) - Cardinality(w.pending) \in Nat
  BY <1>2 DEF FanOutOK
<1>4. w.total \in Nat /\ Cardinality(ex.active) = Len(w.results) + Cardinality(w.pending)
  BY DEF FanOutOK
<1> QED BY <1>2, <1>3, <1>4 DEF Telemetry

\* The reports with one more.
LEMMA ReportingIs ==
  ASSUME NEW s \in KeyStages, NEW keys \in Seq(Keys), Begun(context, Len(rows))
  PROVE  /\ DOMAIN Reporting(s, keys) = DOMAIN context.reports \cup {s}
         /\ DOMAIN Reporting(s, keys) \subseteq KeyStages
         /\ \A t \in DOMAIN Reporting(s, keys) : Reporting(s, keys)[t] \in Seq(Keys)
  BY DEF Reporting, Begun

LEMMA MergedIs ==
  ASSUME Built(executor)
  PROVE  Merged \in Seq(Keys) /\ Range(Merged) \subseteq Range(wave.results)
<1>1. executor.order \in Seq(Keys) BY DEF Built
<1> QED BY <1>1, KeepRange DEF Merged

LEMMA ModesAre ==
  \A keys : \A mode \in ExecutionModes(keys) : mode \in {"sequential", "driver only", "ray on spark"}
  BY DEF ExecutionModes, StartRay

LEMMA FreshIsBuilt ==
  \A mode \in {"sequential", "driver only", "ray on spark"} : Built(FreshExecutor(mode))
  BY KeysAreFinite DEF Built, FreshExecutor

LEMMA ResumedIsBuilt ==
  ASSUME NEW ex, Built(ex), NEW mode \in {"sequential", "driver only", "ray on spark"}
  PROVE  Built(Resumed(ex, mode))
<1>1. Keep(ex.order, ex.active) \in Seq(Keys) BY KeepRange DEF Built
<1> QED BY <1>1 DEF Built, Resumed

LEMMA SubmittedIs ==
  ASSUME NEW s \in KeyStages \cup {Publishing}, SubmitKeys(s), KeyShape
  PROVE  Built(executor') /\ FanOutOK(wave', executor')
<1>1. Built(executor')
  <2>1. CASE executor # NoExecutor /\ UNCHANGED executor BY <2>1 DEF KeyShape
  <2>2. CASE \E mode \in ExecutionModes(Series) : executor' = FreshExecutor(mode)
    BY <2>2, ModesAre, FreshIsBuilt
  <2> QED BY <2>1, <2>2 DEF SubmitKeys
<1>2. /\ wave'.stage = s /\ wave'.total = Cardinality(executor'.active)
      /\ wave'.pending = executor'.active /\ wave'.results = <<>>
  BY DEF SubmitKeys
<1>3. executor'.active \subseteq Keys BY <1>1 DEF Built
<1>4. Cardinality(executor'.active) \in Nat BY <1>3, KeysAreFinite
<1>5. <<>> \in Seq(Keys) /\ Len(<<>>) = 0 OBVIOUS
<1> QED BY <1>1, <1>2, <1>4, <1>5 DEF FanOutOK

\* A key's task ends: it is in, or dropped.
LEMMA TaskEnds ==
  ASSUME WaveInv, KeyShape, NEW k \in Keys, CollectKey(k) \/ DropKey(k)
  PROVE  /\ wave # NoWave /\ wave' # NoWave
         /\ k \in wave.pending
         /\ Built(executor') /\ FanOutOK(wave', executor')
         /\ wave'.stage = wave.stage /\ wave'.total = wave.total
         /\ wave'.pending = wave.pending \ {k}
         /\ \/ /\ UNCHANGED executor
               /\ wave'.results = Append(wave.results, k)
            \/ /\ wave'.results = wave.results
               /\ executor'.active = executor.active \ {k}
               /\ executor'.failures = executor.failures \cup {k}
               /\ executor'.order = executor.order
<1>1. k \in wave.pending /\ wave # NoWave
  BY NoWaveFacts DEF CollectKey, DropKey, Ends
<1>2. Built(executor) /\ FanOutOK(wave, executor) /\ DOMAIN wave = {"stage", "total", "pending", "results"}
  BY <1>1 DEF KeyShape, WaveInv
<1>3. /\ wave'.stage = wave.stage /\ wave'.total = wave.total
      /\ wave'.pending = wave.pending \ {k}
      /\ \/ UNCHANGED executor /\ wave'.results = Append(wave.results, k)
         \/ /\ wave'.results = wave.results
            /\ executor' = [executor EXCEPT !.active = @ \ {k}, !.failures = @ \cup {k}]
  BY <1>2 DEF CollectKey, DropKey
<1>4. wave' # NoWave
  <2>1. wave'.stage # "none" BY <1>2, <1>3 DEF FanOutOK, KeyStages, Publishing
  <2> QED BY <2>1 DEF NoWave
<1>5. Built(executor')
  <2>1. CASE UNCHANGED executor BY <1>2, <2>1
  <2>2. CASE executor' = [executor EXCEPT !.active = @ \ {k}, !.failures = @ \cup {k}]
    <3>1. executor.active \ {k} \in SUBSET Keys /\ executor.failures \cup {k} \in SUBSET Keys
      BY <1>2 DEF Built
    <3> QED BY <1>2, <2>2, <3>1 DEF Built
  <2> QED BY <1>3, <2>1, <2>2
<1>6. executor.active \subseteq Keys /\ wave.pending \subseteq Keys BY <1>2 DEF Built, FanOutOK
<1>7. /\ Cardinality(wave.pending \ {k}) = Cardinality(wave.pending) - 1
      /\ Cardinality(executor.active \ {k}) = Cardinality(executor.active) - 1
      /\ Cardinality(wave.pending) \in Nat /\ Cardinality(executor.active) \in Nat
  BY <1>1, <1>2, <1>6, KeysAreFinite, FS_RemoveElement DEF FanOutOK
<1>8. FanOutOK(wave', executor')
  <2>1. CASE UNCHANGED executor /\ wave'.results = Append(wave.results, k)
    <3>1. /\ Append(wave.results, k) \in Seq(Keys) /\ Len(wave.results) \in Nat
          /\ Len(Append(wave.results, k)) = Len(wave.results) + 1
      BY <1>2 DEF FanOutOK
    <3> QED BY <1>2, <1>3, <1>7, <2>1, <3>1 DEF FanOutOK
  <2>2. CASE /\ wave'.results = wave.results
             /\ executor' = [executor EXCEPT !.active = @ \ {k}, !.failures = @ \cup {k}]
    <3>1. executor'.active = executor.active \ {k} BY <1>2, <2>2 DEF Built
    <3>2. Len(wave.results) \in Nat BY <1>2 DEF FanOutOK
    <3> QED BY <1>2, <1>3, <1>7, <2>2, <3>1, <3>2 DEF FanOutOK
  <2> QED BY <1>3, <2>1, <2>2
<1> QED BY <1>1, <1>2, <1>3, <1>4, <1>5, <1>8 DEF Built

LEMMA ClosedIsBuilt ==
  ASSUME KeyShape, CloseStage
  PROVE  /\ Built(executor') /\ wave' = NoWave
         /\ executor'.active = executor.active /\ executor'.order = executor.order
         /\ executor'.failures = executor.failures
<1>1. Built(executor) /\ FanOutOK(wave, executor) BY DEF CloseStage, KeyShape
<1>2. Range(wave.results) \subseteq Keys BY <1>1 DEF FanOutOK, Range
<1>3. CASE wave.stage = Publishing BY <1>1, <1>3 DEF CloseStage
<1>4. CASE wave.stage # Publishing
  <2>1. executor' = [executor EXCEPT !.payloads[wave.stage] = @ \cup Range(wave.results)]
        /\ wave.stage \in KeyStages
    BY <1>1, <1>4 DEF CloseStage, FanOutOK
  <2>2. executor.payloads[wave.stage] \subseteq Keys BY <1>1, <2>1 DEF Built
  <2> DEFINE pay == [executor.payloads EXCEPT ![wave.stage] = @ \cup Range(wave.results)]
  <2>3. pay \in [KeyStages -> SUBSET Keys] BY <1>1, <1>2, <2>1, <2>2 DEF Built
  <2>4. executor' = [executor EXCEPT !.payloads = pay] BY <2>1
  <2> HIDE DEF pay
  <2> QED BY <1>1, <2>3, <2>4 DEF Built, CloseStage
<1> QED BY <1>3, <1>4 DEF CloseStage

LEMMA KeyShapeStep == ASSUME KeyInv, KeyShape, Step, UNCHANGED plan PROVE KeyShape'
<1> USE DEF plan
<1>n. NoExecutor = NoExecutor /\ ~(NoWave # NoWave) OBVIOUS
<1>1. CASE StartFirstTask \/ LoadFails \/ Retry \/ NextPhase \/ EndPhase
  <2>1. UNCHANGED <<executor, wave, checkpoint>>
    BY <1>1 DEF StartFirstTask, LoadFails, Retry, NextPhase, EndPhase, keyVars
  <2> QED BY <2>1 DEF KeyShape
<1>2. CASE StartTask
  <2>1. UNCHANGED <<wave, checkpoint>> /\ wave = NoWave
    BY <1>2, NoWaveOutside DEF StartTask, KeyInv
  <2>2. CASE executor' = NoExecutor BY <2>1, <2>2 DEF KeyShape
  <2>3. CASE executor' # NoExecutor
    <3>1. PICK keys : \E mode \in ExecutionModes(keys) :
                        executor' = Resumed(checkpoint.snapshot, mode)
      BY <1>2, <2>3 DEF StartTask
    <3>2. checkpoint.snapshot # NoExecutor BY <1>2, <2>3 DEF StartTask
    <3>3. Built(executor') BY <3>1, <3>2, ModesAre, ResumedIsBuilt DEF KeyShape
    <3> QED BY <2>1, <3>3 DEF KeyShape
  <2> QED BY <2>2, <2>3
<1>3. CASE BeginStage
  <2> DEFINE s == Phases[task.phase][task.step + 1]
             fanned == IF s \in KeyStages THEN s ELSE Publishing
  <2>1. UNCHANGED checkpoint BY <1>3 DEF BeginStage
  <2>2. UNCHANGED keyVars \/ SubmitKeys(fanned) BY <1>3 DEF BeginStage
  <2>3. CASE UNCHANGED keyVars BY <2>1, <2>3 DEF KeyShape, keyVars
  <2>4. CASE SubmitKeys(fanned)
    <3>1. fanned \in KeyStages \cup {Publishing} OBVIOUS
    <3> HIDE DEF fanned
    <3> QED BY <2>1, <2>4, <3>1, SubmittedIs DEF KeyShape
  <2> QED BY <2>2, <2>3, <2>4
<1>4. CASE KeyTask
  <2>1. PICK k \in Keys : CollectKey(k) \/ DropKey(k) BY <1>4 DEF KeyTask
  <2>2. Built(executor') /\ FanOutOK(wave', executor') BY <2>1, TaskEnds DEF KeyInv
  <2> QED BY <1>4, <2>2 DEF KeyShape, KeyTask
<1>5. CASE CompleteStage BY <1>5 DEF CompleteStage, KeyShape, keyVars
<1>6. CASE CompleteKeyStage BY <1>6, ClosedIsBuilt DEF CompleteKeyStage, KeyShape
<1>7. CASE TrackRun
  <2>1. UNCHANGED checkpoint /\ (UNCHANGED keyVars \/ CloseStage) BY <1>7 DEF TrackRun
  <2>2. CASE UNCHANGED keyVars BY <2>1, <2>2 DEF KeyShape, keyVars
  <2>3. CASE CloseStage BY <2>1, <2>3, ClosedIsBuilt DEF KeyShape
  <2> QED BY <2>1, <2>2, <2>3
<1>8. CASE FailStage
  <2>1. UNCHANGED <<checkpoint, executor>> /\ wave' = NoWave
    BY <1>8 DEF FailStage, keyVars, AbandonStage
  <2> QED BY <2>1 DEF KeyShape
<1>9. CASE SaveCheckpoint
  <2>1. UNCHANGED <<executor, wave>>
        /\ (UNCHANGED checkpoint \/ checkpoint' = [context |-> context, snapshot |-> executor])
    BY <1>9 DEF SaveCheckpoint, keyVars
  <2> QED BY <2>1 DEF KeyShape
<1>10. CASE Leave \/ Crash
  <2>1. UNCHANGED checkpoint /\ executor' = NoExecutor /\ wave' = NoWave
    BY <1>10 DEF Leave, Crash, ProcessEnds
  <2> QED BY <2>1 DEF KeyShape
<1> QED
  BY <1>1, <1>2, <1>3, <1>4, <1>5, <1>6, <1>7, <1>8, <1>9, <1>10 DEF Step

LEMMA CheckpointKept ==
  ASSUME CheckpointShape, UNCHANGED <<checkpoint, entry>>,
         Len(rows) \in Nat, Len(rows') \in Nat, Len(rows) <= Len(rows'),
         entry = "workflow" =>
           /\ task'.phase \in 2 .. LastPhase =>
                task.phase \in 2 .. LastPhase \/ (task.pc = "leaving" /\ task.why = "none")
           /\ ~(task'.pc = "leaving" /\ task'.why = "none")
  PROVE  CheckpointShape'
<1>1. \A c : Begun(c, Len(rows)) => Begun(c, Len(rows')) BY BegunLonger
<1>2. Begun(checkpoint.context, Len(rows)) => Begun(checkpoint'.context, Len(rows'))
  BY <1>1
<1> QED BY <1>2 DEF CheckpointShape

LEMMA TrackingIs ==
  ASSUME NEW fails \in BOOLEAN, untracked \in BOOLEAN, Tracking(fails)
  PROVE  untracked' \in BOOLEAN
  BY DEF Tracking

LEMMA StartKeepsShape ==
  ASSUME KeyInv, ShapeInv, StartFirstTask \/ StartTask, UNCHANGED plan
  PROVE  RowShape' /\ ContextShape' /\ CheckpointShape'
<1> USE DEF ShapeInv, plan
<1>1. rows \in Seq(RowRecord) /\ Len(rows) \in Nat /\ untracked \in BOOLEAN BY DEF RowShape
<1>2. LastPhase = 8 BY PhasesAre
<1>3. CASE StartFirstTask
  <2>1. task.phase = 1 /\ task'.phase = 1 /\ task'.pc = "between" /\ UNCHANGED <<checkpoint, entry>>
    BY <1>3 DEF StartFirstTask, TaskShape, Tasks
  <2>2. untracked' \in BOOLEAN BY <1>1, <1>3, TrackingIs DEF StartFirstTask
  <2>3. CASE /\ rows' = Append(rows, NewRow) /\ context' = NewContext(Len(rows) + 1)
             /\ open' = TRUE
    <3>1. rows' \in Seq(RowRecord) /\ Len(rows') = Len(rows) + 1 BY <1>1, <2>3, RowsAre
    <3>2. Begun(context', Len(rows')) BY <1>1, <2>3, <3>1, NewIsBegun
    <3>3. context'.tracking = Len(rows) + 1 BY <2>3 DEF NewContext
    <3>4. RowShape' BY <1>1, <2>1, <2>2, <2>3, <3>1, <3>3 DEF RowShape
    <3>5. ContextShape' BY <2>1, <3>2 DEF ContextShape
    <3>6. CheckpointShape' BY <1>1, <1>2, <2>1, <3>1, CheckpointKept
    <3> QED BY <3>4, <3>5, <3>6
  <2>4. CASE UNCHANGED rows /\ context' = NewContext(0) /\ open' = FALSE
    <3>1. Begun(context', Len(rows')) BY <1>1, <2>4, NewIsBegun
    <3>2. RowShape' BY <1>1, <2>2, <2>4 DEF RowShape
    <3>3. ContextShape' BY <2>1, <3>1 DEF ContextShape
    <3>4. CheckpointShape' BY <1>1, <1>2, <2>1, <2>4, CheckpointKept
    <3> QED BY <3>2, <3>3, <3>4
  <2> QED BY <1>3, <2>3, <2>4 DEF StartFirstTask
<1>4. CASE StartTask
  <2>1. /\ task.phase \in 2 .. 8 /\ task'.phase = task.phase /\ task'.pc = "between"
        /\ UNCHANGED <<checkpoint, entry>> /\ context' = checkpoint.context
    BY <1>2, <1>4 DEF StartTask, TaskShape, Tasks
  <2>2. entry = "workflow" BY <1>2, <1>4 DEF StartTask, KeyInv, OutputInv, PlaceInv, EntryKinds
  <2>3. Begun(checkpoint.context, Len(rows)) BY <1>2, <2>1, <2>2 DEF CheckpointShape
  <2> DEFINE row == checkpoint.context.tracking
  <2>4. row \in 0 .. Len(rows) BY <2>3 DEF Begun
  <2>5. ResumeTracking(row) BY <1>4 DEF StartTask
  <2> HIDE DEF row
  <2>6. untracked' \in BOOLEAN BY <1>1, <2>5, TrackingIs DEF ResumeTracking
  <2>7. rows' \in Seq(RowRecord) /\ Len(rows') = Len(rows)
    <3>1. CASE row # 0 /\ rows' = [rows EXCEPT ![row].status = "RUNNING"]
      <4>1. row \in 1 .. Len(rows) BY <1>1, <2>4, <3>1
      <4> QED BY <1>1, <3>1, <4>1, WrittenRowIs, WrittenRowsAre
    <3> QED BY <1>1, <2>5, <3>1 DEF ResumeTracking
  <2>8. open' \in BOOLEAN /\ (open' => row # 0) BY <2>5 DEF ResumeTracking
  <2>9. RowShape' BY <2>1, <2>6, <2>7, <2>8 DEF RowShape, row
  <2>10. ContextShape' BY <2>1, <2>3, <2>7 DEF ContextShape
  <2>11. CheckpointShape' BY <1>1, <1>2, <2>1, <2>7, CheckpointKept
  <2> QED BY <2>9, <2>10, <2>11
<1> QED BY <1>3, <1>4

\* The steps that write the context while a stage is under way.
LEMMA InsideKeepsShape ==
  ASSUME KeyInv, ShapeInv, BeginStage \/ KeyTask \/ CompleteStage \/ CompleteKeyStage, UNCHANGED plan
  PROVE  RowShape' /\ ContextShape' /\ CheckpointShape'
<1> USE DEF ShapeInv, plan
<1>1. rows \in Seq(RowRecord) /\ Len(rows) \in Nat BY DEF RowShape
<1>2. LastPhase = 8 /\ \A p \in 1 .. LastPhase : Len(Phases[p]) \in Nat BY PhasesAre
<1>3. /\ UNCHANGED <<rows, open, untracked, checkpoint, entry>>
      /\ task.pc \in {"between", "inside"}
      /\ task'.pc \in {"between", "inside"} /\ task'.phase = task.phase
  BY DEF BeginStage, KeyTask, CompleteStage, CompleteKeyStage, Goes, TaskShape, Tasks
<1>4. Begun(context, Len(rows)) BY <1>3 DEF ContextShape
<1>5. CheckpointShape' BY <1>1, <1>2, <1>3, CheckpointKept
<1>a. ASSUME context'.tracking = context.tracking, DOMAIN context' = DOMAIN context,
             context'.trail \in Seq(StageRecord), context'.trail # <<>>,
             context'.outputs \subseteq Stages,
             \/ context'.reports = context.reports
             \/ \E s \in KeyStages : \E keys \in Seq(Keys) : context'.reports = Reporting(s, keys)
      PROVE  RowShape' /\ ContextShape'
  <2>1. DOMAIN context'.reports \subseteq KeyStages
        /\ \A s \in DOMAIN context'.reports : context'.reports[s] \in Seq(Keys)
    <3>1. CASE context'.reports = context.reports BY <1>4, <3>1 DEF Begun
    <3>2. CASE \E s \in KeyStages : \E keys \in Seq(Keys) : context'.reports = Reporting(s, keys)
      BY <1>4, <3>2, ReportingIs
    <3> QED BY <1>a, <3>1, <3>2
  <2>2. Begun(context', Len(rows')) BY <1>3, <1>4, <1>a, <2>1 DEF Begun
  <2>3. ContextShape' BY <1>3, <1>a, <2>2 DEF ContextShape
  <2>4. RowShape' BY <1>3, <1>a DEF RowShape
  <2> QED BY <2>3, <2>4
<1>6. CASE BeginStage
  <2> DEFINE s == Phases[task.phase][task.step + 1]
             rec == [stage |-> s, status |-> "Running", tasks |-> NoTelemetry]
  <2>1. task.phase \in 1 .. 8 /\ task.step + 1 \in 1 .. Len(Phases[task.phase])
    BY <1>2, <1>6, SMTT(30) DEF BeginStage, KeyInv, OutputInv, PlaceInv
  <2>2. s \in Stages BY <2>1, StagesAre
  <2> HIDE DEF s
  <2>3. rec \in StageRecord BY <2>2, NoTelemetryIs DEF StageRecord
  <2>4. context' = [context EXCEPT !.trail = Append(@, rec)] BY <1>6 DEF BeginStage, s
  <2> HIDE DEF rec
  <2>5. context.trail \in Seq(StageRecord) /\ context.outputs \subseteq Stages
        /\ DOMAIN context = {"trail", "outputs", "reports", "tracking"}
    BY <1>4 DEF Begun
  <2>6. Append(context.trail, rec) \in Seq(StageRecord) /\ Append(context.trail, rec) # <<>>
    <3> DEFINE new == Append(context.trail, rec)
    <3>1. new \in Seq(StageRecord) /\ Len(new) = Len(context.trail) + 1 /\ Len(context.trail) \in Nat
      BY <2>3, <2>5
    <3>2. Len(<<>>) = 0 OBVIOUS
    <3> HIDE DEF new
    <3>3. new # <<>> BY <3>1, <3>2
    <3> QED BY <3>1, <3>3 DEF new
  <2>7. /\ context'.trail = Append(context.trail, rec) /\ context'.tracking = context.tracking
        /\ DOMAIN context' = DOMAIN context /\ context'.outputs = context.outputs
        /\ context'.reports = context.reports
    BY <2>4, <2>5
  <2> QED BY <1>5, <1>a, <2>5, <2>6, <2>7
<1>7. ASSUME task.pc = "inside"
      PROVE  /\ context.trail \in Seq(StageRecord) /\ context.trail # <<>>
             /\ context.outputs \subseteq Stages
             /\ DOMAIN context = {"trail", "outputs", "reports", "tracking"}
             /\ Stage \in Stages
  <2>1. Stage \in Stages BY <1>7, StageIsAt, StagesAre DEF KeyInv, OutputInv, Stage
  <2> QED BY <1>4, <1>7, <2>1 DEF Begun, ContextShape
<1>8. CASE KeyTask
  <2> DEFINE rec == [context.trail[Len(context.trail)] EXCEPT !.tasks = Telemetry(wave')]
  <2>1. task.pc = "inside" BY <1>8 DEF KeyTask
  <2>2. PICK k \in Keys : CollectKey(k) \/ DropKey(k) BY <1>8 DEF KeyTask
  <2>3. Built(executor') /\ FanOutOK(wave', executor') BY <2>2, TaskEnds DEF KeyInv
  <2>4. Telemetry(wave') \in [total: Nat, completed: Nat, failed: Nat] BY <2>3, TelemetryIs
  <2>5. rec \in StageRecord BY <1>7, <2>1, <2>4, LastRecordIs
  <2>6. context' = [context EXCEPT !.trail = [@ EXCEPT ![Len(context.trail)] = rec]]
    BY <1>8 DEF KeyTask
  <2> HIDE DEF rec
  <2>7. /\ context'.trail = [context.trail EXCEPT ![Len(context.trail)] = rec]
        /\ context'.tracking = context.tracking /\ DOMAIN context' = DOMAIN context
        /\ context'.outputs = context.outputs /\ context'.reports = context.reports
    BY <1>7, <2>1, <2>6
  <2>8. context'.trail \in Seq(StageRecord) /\ context'.trail # <<>>
    BY <1>7, <2>1, <2>5, <2>7, RecordUpdated
  <2> QED BY <1>5, <1>7, <1>a, <2>1, <2>7, <2>8
<1>9. CASE CompleteStage
  <2>1. task.pc = "inside" BY <1>9 DEF CompleteStage, Goes
  <2>2. context' = [context EXCEPT !.trail = Recorded("Completed"), !.outputs = @ \cup {Stage},
          !.reports = IF Stage \in KeyStages THEN Reporting(Stage, Series) ELSE @]
    BY <1>9 DEF CompleteStage
  <2>3. /\ context'.trail = Recorded("Completed") /\ context'.tracking = context.tracking
        /\ DOMAIN context' = DOMAIN context /\ context'.outputs = context.outputs \cup {Stage}
        /\ \/ context'.reports = context.reports
           \/ Stage \in KeyStages /\ context'.reports = Reporting(Stage, Series)
    BY <1>7, <2>1, <2>2
  <2>4. Recorded("Completed") \in Seq(StageRecord) /\ Recorded("Completed") # <<>>
    BY <1>7, <2>1, RecordedIs
  <2>5. Series \in Seq(Keys) BY KeysAreFinite
  <2> QED BY <1>5, <1>7, <1>a, <2>1, <2>3, <2>4, <2>5
<1>10. CASE CompleteKeyStage
  <2> DEFINE n == Len(context.trail)
             done == Recorded("Completed")
             rec == [done[n] EXCEPT !.tasks = Telemetry(wave)]
  <2>1. task.pc = "inside" /\ Stage \in KeyStages /\ wave # NoWave
    BY <1>10 DEF CompleteKeyStage, Goes, CloseStage
  <2>2. Built(executor) /\ FanOutOK(wave, executor) BY <2>1 DEF KeyShape
  <2>3. Telemetry(wave) \in [total: Nat, completed: Nat, failed: Nat] BY <2>2, TelemetryIs
  <2>4. done \in Seq(StageRecord) /\ done # <<>> /\ Len(done) = n
    BY <1>7, <2>1, RecordedIs
  <2>5. rec \in StageRecord BY <2>3, <2>4, LastRecordIs
  <2>6. context' = [context EXCEPT !.trail = [done EXCEPT ![n] = rec], !.outputs = @ \cup {Stage},
                                   !.reports = Reporting(Stage, Merged)]
    BY <1>10 DEF CompleteKeyStage
  <2> HIDE DEF rec, done
  <2>7. [done EXCEPT ![n] = rec] \in Seq(StageRecord) /\ [done EXCEPT ![n] = rec] # <<>>
    BY <2>4, <2>5, RecordUpdated
  <2>8. /\ context'.trail = [done EXCEPT ![n] = rec] /\ context'.tracking = context.tracking
        /\ DOMAIN context' = DOMAIN context /\ context'.outputs = context.outputs \cup {Stage}
        /\ context'.reports = Reporting(Stage, Merged)
    BY <1>7, <2>1, <2>6
  <2>9. Merged \in Seq(Keys) BY <2>2, MergedIs
  <2> QED BY <1>5, <1>7, <1>a, <2>1, <2>7, <2>8, <2>9
<1> QED BY <1>6, <1>8, <1>9, <1>10

\* The steps that write the run's row at the end of a stage.
LEMMA TrackKeepsShape ==
  ASSUME KeyInv, ShapeInv, TrackRun \/ FailStage, UNCHANGED plan
  PROVE  RowShape' /\ ContextShape' /\ CheckpointShape'
<1> USE DEF ShapeInv, plan
<1>1. rows \in Seq(RowRecord) /\ Len(rows) \in Nat /\ untracked \in BOOLEAN BY DEF RowShape
<1>2. LastPhase = 8 BY PhasesAre
<1>3. /\ UNCHANGED <<checkpoint, entry>> /\ task.pc = "inside" /\ task'.phase = task.phase
      /\ open' = FALSE
      /\ task'.pc \in {"between", "saving", "leaving"}
      /\ task'.pc = "leaving" => task'.why # "none"
  BY DEF TrackRun, FailStage, FailTracking, Goes, TaskShape, Tasks
<1>4. Begun(context, Len(rows)) /\ context.trail # <<>> BY <1>3 DEF ContextShape
<1>5. /\ context.trail \in Seq(StageRecord) /\ context.outputs \subseteq Stages
      /\ DOMAIN context = {"trail", "outputs", "reports", "tracking"}
      /\ context.tracking \in 0 .. Len(rows)
  BY <1>4 DEF Begun
<1>6. open => context.tracking \in 1 .. Len(rows) BY <1>5 DEF RowShape
<1>7. Stage \in Stages BY <1>3, StageIsAt, StagesAre DEF KeyInv, OutputInv, Stage
<1>8. \A status \in {"Running", "Completed", "Failed"} :
        Recorded(status) \in Seq(StageRecord) /\ Recorded(status) # <<>>
  BY <1>4, <1>5, RecordedIs
<1>a. ASSUME DOMAIN context' = DOMAIN context, context'.reports = context.reports,
             context'.tracking \in {0, context.tracking},
             context'.trail \in Seq(StageRecord), context'.outputs \subseteq Stages,
             untracked' \in BOOLEAN, UNCHANGED rows \/ (open /\ RowWritten(context.tracking)),
             task'.pc # "inside"
      PROVE  RowShape' /\ ContextShape' /\ CheckpointShape'
  <2>1. rows' \in Seq(RowRecord) /\ Len(rows') = Len(rows)
    BY <1>1, <1>6, <1>a, WrittenRowsAre
  <2>2. RowShape' BY <1>3, <1>a, <2>1 DEF RowShape
  <2>3. Begun(context', Len(rows')) BY <1>1, <1>4, <1>5, <1>a, <2>1 DEF Begun
  <2>4. ContextShape' BY <1>a, <2>3 DEF ContextShape
  <2>5. CheckpointShape' BY <1>1, <1>2, <1>3, <2>1, CheckpointKept
  <2> QED BY <2>2, <2>4, <2>5
<1>9. CASE TrackRun
  <2> DEFINE row == context.tracking
  <2>1. context' = [context EXCEPT !.trail = Recorded("Completed"), !.outputs = @ \cup {Stage},
                                   !.tracking = IF open THEN row ELSE 0]
    BY <1>9 DEF TrackRun
  <2>2. /\ context'.trail = Recorded("Completed") /\ context'.tracking \in {0, context.tracking}
        /\ DOMAIN context' = DOMAIN context /\ context'.outputs = context.outputs \cup {Stage}
        /\ context'.reports = context.reports
    BY <1>5, <2>1
  <2>3. untracked' \in BOOLEAN BY <1>1, <1>9, TrackingIs DEF TrackRun
  <2>4. UNCHANGED rows \/ (open /\ RowWritten(row))
    <3>1. CASE open /\ rows' = [rows EXCEPT ![row].status = "FINISHED", ![row].summary = TRUE]
      BY <1>1, <1>6, <3>1, WrittenRowIs
    <3>2. CASE open /\ rows' = [rows EXCEPT ![row].status = "FAILED"]
      BY <1>1, <1>6, <3>2, WrittenRowIs
    <3> QED BY <1>9, <3>1, <3>2 DEF TrackRun
  <2>5. task'.pc # "inside" BY <1>9 DEF TrackRun, Goes, TaskShape, Tasks
  <2> QED BY <1>5, <1>7, <1>8, <1>a, <2>2, <2>3, <2>4, <2>5
<1>10. CASE FailStage
  <2>1. PICK trail \in Seq(StageRecord) : trail # <<>> /\ FailTracking(trail)
    <3>1. CASE FailTracking(Recorded("Failed")) BY <1>8, <3>1
    <3>2. CASE FailTracking(context.trail) BY <1>4, <1>5, <3>2
    <3> QED BY <1>10, <3>1, <3>2 DEF FailStage
  <2>2. FailedStage(trail) \in Stages BY <2>1, FailedStageIs
  <2>3. untracked' \in BOOLEAN BY <1>1, <2>1, TrackingIs DEF FailTracking
  <2>4. /\ context'.trail = trail /\ context'.tracking \in {0, context.tracking}
        /\ DOMAIN context' = DOMAIN context /\ context'.outputs = context.outputs
        /\ context'.reports = context.reports
    <3>1. \/ context' = [context EXCEPT !.trail = trail]
          \/ \E id \in {0, context.tracking} :
               context' = [context EXCEPT !.trail = trail, !.tracking = id]
      BY <2>1 DEF FailTracking
    <3> QED BY <1>5, <3>1
  <2>5. UNCHANGED rows \/ (open /\ RowWritten(context.tracking))
    <3>1. CASE open /\ rows' = [rows EXCEPT ![context.tracking].status = "FAILED",
                                          ![context.tracking].failed_stage = FailedStage(trail)]
      BY <1>1, <1>6, <2>2, <3>1, WrittenRowIs
    <3>2. CASE open /\ rows' = [rows EXCEPT ![context.tracking].status = "FAILED"]
      BY <1>1, <1>6, <3>2, WrittenRowIs
    <3> QED BY <2>1, <3>1, <3>2 DEF FailTracking
  <2>6. task'.pc # "inside" BY <1>10 DEF FailStage, TaskShape, Tasks
  <2> QED BY <1>5, <1>a, <2>1, <2>3, <2>4, <2>5, <2>6
<1> QED BY <1>9, <1>10

LEMMA EndKeepsShape ==
  ASSUME KeyInv, ShapeInv, UNCHANGED plan,
         LoadFails \/ NextPhase \/ EndPhase \/ SaveCheckpoint \/ Leave \/ Crash \/ Retry
  PROVE  RowShape' /\ ContextShape' /\ CheckpointShape'
<1> USE DEF ShapeInv, plan
<1>1. rows \in Seq(RowRecord) /\ Len(rows) \in Nat /\ untracked \in BOOLEAN BY DEF RowShape
<1>2. LastPhase = 8 BY PhasesAre
<1>3. CASE LoadFails \/ NextPhase \/ EndPhase \/ Retry
  <2>1. /\ UNCHANGED <<context, rows, open, untracked, checkpoint, entry>>
        /\ task'.pc # "inside"
        /\ task'.pc \notin {"waiting", "failed"} => task.pc \notin {"waiting", "failed"}
        /\ task.pc \notin {"waiting", "failed"} => task'.pc \notin {"waiting", "failed"}
        /\ entry = "workflow" => task'.phase = task.phase /\ task'.pc # "leaving"
    BY <1>3 DEF LoadFails, NextPhase, EndPhase, Retry, Goes, TaskShape, Tasks
  <2>2. RowShape' BY <2>1 DEF RowShape
  <2>3. ContextShape' BY <2>1 DEF ContextShape
  <2>4. CheckpointShape' BY <1>1, <2>1, CheckpointKept
  <2> QED BY <2>2, <2>3, <2>4
<1>4. CASE SaveCheckpoint
  <2>1. /\ UNCHANGED <<context, rows, open, untracked, entry>> /\ task.pc = "saving"
        /\ task'.pc = "leaving" /\ task'.phase = task.phase
    BY <1>4 DEF SaveCheckpoint, TaskShape, Tasks
  <2>2. RowShape' BY <2>1 DEF RowShape
  <2>3. ContextShape' BY <2>1 DEF ContextShape
  <2>4. CASE checkpoint' = [context |-> context, snapshot |-> executor]
    <3>1. Begun(context, Len(rows)) BY <2>1 DEF ContextShape
    <3> QED BY <2>1, <2>2, <2>3, <2>4, <3>1 DEF CheckpointShape
  <2>5. CASE UNCHANGED checkpoint /\ task'.why # "none"
    <3>1. CheckpointShape' BY <1>1, <2>1, <2>5, CheckpointKept
    <3> QED BY <2>2, <2>3, <3>1
  <2> QED BY <1>4, <2>4, <2>5 DEF SaveCheckpoint, TaskShape, Tasks
<1>5. CASE Leave \/ Crash
  <2>1. /\ UNCHANGED <<untracked, checkpoint, entry>> /\ open' = FALSE /\ context' = NoContext
        /\ task'.pc \in {"waiting", "failed"}
        /\ task'.phase # task.phase => task.pc = "leaving" /\ task.why = "none"
    BY <1>5 DEF Leave, Crash, ProcessEnds, TaskShape, Tasks
  <2>2. rows' \in Seq(RowRecord) /\ Len(rows') = Len(rows)
    <3>1. CASE open /\ rows' = [rows EXCEPT ![context.tracking].status = "FINISHED"]
      <4>1. context.tracking \in 1 .. Len(rows) BY <3>1 DEF RowShape, ContextShape, Begun
      <4> QED BY <1>1, <3>1, <4>1, WrittenRowIs, WrittenRowsAre
    <3> QED BY <1>1, <1>5, <3>1 DEF Leave, Crash
  <2>3. RowShape' BY <1>1, <2>1, <2>2 DEF RowShape
  <2>4. ContextShape' BY <2>1 DEF ContextShape
  <2>5. CheckpointShape' BY <1>1, <2>1, <2>2, CheckpointKept
  <2> QED BY <2>3, <2>4, <2>5
<1> QED BY <1>3, <1>4, <1>5

LEMMA ShapeInit == Init => ShapeInv
<1> SUFFICES ASSUME Init PROVE ShapeInv
  OBVIOUS
<1>1. LastPhase = 8 /\ MaxRetries \in Nat BY PhasesAre, PipelineAssumption
<1>2. PlanShape /\ TaskShape BY <1>1 DEF Init, PlanShape, TaskShape, Tasks
<1>3. <<>> \in Seq(RowRecord) OBVIOUS
<1>4. RowShape BY <1>3 DEF Init, RowShape
<1>5. ContextShape BY DEF Init, ContextShape
<1>6. CheckpointShape BY <1>1 DEF Init, CheckpointShape, NoCheckpoint
<1>7. KeyShape BY DEF Init, KeyShape, NoCheckpoint
<1> QED BY <1>2, <1>4, <1>5, <1>6, <1>7 DEF ShapeInv

LEMMA ShapeInductive == Spec => []ShapeInv
<1>1. KeyInv /\ ShapeInv /\ [Next]_vars => ShapeInv'
  <2>1. ASSUME KeyInv, ShapeInv, Next PROVE ShapeInv'
    <3>1. Step /\ UNCHANGED plan BY <2>1 DEF Next
    <3>2. TaskShape' BY <2>1, <3>1, TaskShapeStep DEF KeyInv, OutputInv, ShapeInv
    <3>3. KeyShape' BY <2>1, <3>1, KeyShapeStep DEF ShapeInv
    <3>4. RowShape' /\ ContextShape' /\ CheckpointShape'
      BY <2>1, <3>1, StartKeepsShape, InsideKeepsShape, TrackKeepsShape, EndKeepsShape DEF Step
    <3>5. PlanShape' BY <2>1, <3>1 DEF ShapeInv, PlanShape, plan
    <3> QED BY <3>2, <3>3, <3>4, <3>5 DEF ShapeInv
  <2>2. ASSUME ShapeInv, UNCHANGED vars PROVE ShapeInv'
    <3> USE <2>2 DEF ShapeInv, vars, plan
    <3>1. PlanShape' /\ TaskShape' /\ RowShape' BY DEF PlanShape, TaskShape, RowShape
    <3>2. ContextShape' /\ CheckpointShape' BY DEF ContextShape, CheckpointShape
    <3>3. KeyShape' BY DEF KeyShape
    <3> QED BY <3>1, <3>2, <3>3
  <2> QED BY <2>1, <2>2
<1> QED BY ShapeInit, KeysInductive, <1>1, PTL DEF Spec

\* The state of a run, of its checkpoint and of its fan-outs: whatever failed and was
\* started again, the contexts hold records of the pipeline's stages, an open MLflow
\* run is one that was opened, and every key named is one of the series.
THEOREM TypeInvariant == Spec => []TypeOK
<1>1. OutputInv /\ ShapeInv => TypeOK
  <2> SUFFICES ASSUME OutputInv, ShapeInv PROVE TypeOK
    OBVIOUS
  <2> USE DEF ShapeInv
  <2>1. ASSUME NEW c, c = NoContext \/ Begun(c, Len(rows)) PROVE ContextOK(c)
    BY <2>1 DEF ContextOK, Begun, Range
  <2>2. ContextOK(context) /\ ContextOK(checkpoint.context)
    BY <2>1 DEF ContextShape, CheckpointShape
  <2>3. KeyTypeOK
    <3>1. CASE executor = NoExecutor
      <4>1. /\ executor.mode = "none" /\ executor.active = {} /\ executor.order = <<>>
            /\ executor.failures = {} /\ DOMAIN executor.payloads = {}
        BY <3>1 DEF NoExecutor
      <4>2. wave = NoWave BY <3>1, <4>1 DEF KeyShape, Built
      <4>3. /\ wave.stage = "none" /\ wave.pending = {} /\ wave.results = <<>>
        BY <4>2 DEF NoWave
      <4> QED BY <4>1, <4>3, RangeEmpty DEF KeyTypeOK, PlanShape
    <3>2. CASE Built(executor)
      <4>0. executor.order \in Seq(Keys) BY <3>2 DEF Built
      <4>1. Range(executor.order) \subseteq Keys BY <4>0 DEF Range
      <4>2. CASE wave = NoWave
        <5>1. /\ wave.stage = "none" /\ wave.pending = {} /\ wave.results = <<>>
          BY <4>2 DEF NoWave
        <5> QED BY <3>2, <4>1, <5>1, RangeEmpty DEF KeyTypeOK, PlanShape, Built
      <4>3. CASE FanOutOK(wave, executor)
        <5>1. Range(wave.results) \subseteq Keys BY <4>3 DEF FanOutOK, Range
        <5> QED BY <3>2, <4>1, <4>3, <5>1 DEF KeyTypeOK, PlanShape, Built, FanOutOK
      <4> QED BY <4>2, <4>3 DEF KeyShape
    <3> QED BY <3>1, <3>2 DEF KeyShape
  <2>4. open => context.tracking \in DOMAIN rows
    <3>1. rows \in Seq(RowRecord) /\ DOMAIN rows = 1 .. Len(rows) /\ Len(rows) \in Nat
      BY DEF RowShape
    <3>2. open => context.tracking \in 0 .. Len(rows) /\ context.tracking # 0
      BY DEF RowShape, ContextShape, Begun
    <3> QED BY <3>1, <3>2
  <2>5. \A i \in DOMAIN rows : rows[i] \in RowRecord BY DEF RowShape
  <2> QED BY <2>2, <2>3, <2>4, <2>5 DEF TypeOK, TaskShape, RowShape, PlanShape, RowRecord
<1> QED BY OutputsInductive, ShapeInductive, <1>1, PTL
--------------------------------------------------------------------------------
(* The selection. *)

\* The keys that are not active failed, and the order still serves every selection
\* of the active ones.
Ordered(ex) ==
  /\ ex.active = Keys \ ex.failures
  /\ \A K \in SUBSET ex.active : Keep(ex.order, K) = Keep(Series, K)

OrderInv ==
  /\ executor # NoExecutor => Ordered(executor)
  /\ checkpoint.snapshot # NoExecutor => Ordered(checkpoint.snapshot)
  /\ wave # NoWave => /\ executor.active = wave.pending \cup Range(wave.results)
                      /\ wave.pending \cap Range(wave.results) = {}

Selected(c, ex) == c.reports["Rank & Select"] = Keep(Series, Keys \ ex.failures)

SelectInv ==
  /\ entry = "workflow" /\ task.pc \in {"between", "inside", "saving"} /\ task.phase = 7 =>
       executor = NoExecutor
  /\ entry # "run" =>
       /\ task.phase = 6 /\ (\/ task.pc = "between" /\ task.step = 1
                             \/ task.pc = "saving" /\ task.why = "none") =>
            Selected(context, executor)
       /\ entry = "bundle" /\ task.pc \in {"between", "inside"} /\ task.phase = 7 =>
            Selected(context, executor)
  /\ entry = "workflow" /\ checkpoint.snapshot # NoExecutor =>
       /\ task.phase = 6 /\ task.pc = "leaving" /\ task.why = "none" =>
            Selected(checkpoint.context, checkpoint.snapshot)
       /\ task.phase = 7 => Selected(checkpoint.context, checkpoint.snapshot)

LEMMA FreshIsOrdered == \A mode : Ordered(FreshExecutor(mode))
  BY DEF Ordered, FreshExecutor

LEMMA ResumedIsOrdered ==
  ASSUME NEW ex, Built(ex), Ordered(ex), NEW mode
  PROVE  Ordered(Resumed(ex, mode))
<1> DEFINE new == Resumed(ex, mode)
<1>1. /\ new.active = ex.active /\ new.failures = ex.failures
      /\ new.order = Keep(ex.order, ex.active) /\ ex.order \in Seq(Keys)
  BY DEF Resumed, Built
<1> HIDE DEF new
<1>2. ASSUME NEW K \in SUBSET ex.active PROVE Keep(new.order, K) = Keep(Series, K)
  <2>1. ex.active \cap K = K OBVIOUS
  <2>2. Keep(new.order, K) = Keep(ex.order, ex.active \cap K) BY <1>1, KeepTwice
  <2>3. Keep(new.order, K) = Keep(ex.order, K) BY <2>1, <2>2
  <2> QED BY <2>3 DEF Ordered
<1>3. Ordered(new) BY <1>1, <1>2 DEF Ordered
<1> QED BY <1>3 DEF new

LEMMA OrderedIsKept ==
  ASSUME NEW ex, NEW new, Ordered(ex), new.order = ex.order,
         \/ new.active = ex.active /\ new.failures = ex.failures
         \/ \E k : new.active = ex.active \ {k} /\ new.failures = ex.failures \cup {k}
  PROVE  Ordered(new)
  BY DEF Ordered

LEMMA OrderStep == ASSUME KeyInv, ShapeInv, OrderInv, Step, UNCHANGED plan PROVE OrderInv'
<1> USE DEF plan
<1>k. KeyShape /\ WaveInv BY DEF ShapeInv, KeyInv
<1>1. CASE StartFirstTask \/ LoadFails \/ Retry \/ NextPhase \/ EndPhase \/ CompleteStage
  <2>1. UNCHANGED <<executor, wave, checkpoint>>
    BY <1>1 DEF StartFirstTask, LoadFails, Retry, NextPhase, EndPhase, CompleteStage, keyVars
  <2> QED BY <2>1 DEF OrderInv
<1>2. CASE StartTask
  <2>1. UNCHANGED <<wave, checkpoint>> /\ wave = NoWave
    BY <1>2, NoWaveOutside DEF StartTask, KeyInv
  <2>2. CASE executor' = NoExecutor BY <2>1, <2>2 DEF OrderInv
  <2>3. CASE executor' # NoExecutor
    <3>1. PICK keys : \E mode \in ExecutionModes(keys) :
                        executor' = Resumed(checkpoint.snapshot, mode)
      BY <1>2, <2>3 DEF StartTask
    <3>2. checkpoint.snapshot # NoExecutor BY <1>2, <2>3 DEF StartTask
    <3>3. Ordered(executor') BY <1>k, <3>1, <3>2, ResumedIsOrdered DEF KeyShape, OrderInv
    <3> QED BY <2>1, <3>3 DEF OrderInv
  <2> QED BY <2>2, <2>3
<1>3. CASE BeginStage
  <2> DEFINE s == Phases[task.phase][task.step + 1]
             fanned == IF s \in KeyStages THEN s ELSE Publishing
  <2>1. UNCHANGED checkpoint BY <1>3 DEF BeginStage
  <2>2. UNCHANGED keyVars \/ SubmitKeys(fanned) BY <1>3 DEF BeginStage
  <2>3. CASE UNCHANGED keyVars BY <2>1, <2>3 DEF OrderInv, keyVars
  <2>4. CASE SubmitKeys(fanned)
    <3>1. Ordered(executor')
      <4>1. CASE executor # NoExecutor /\ UNCHANGED executor BY <4>1 DEF OrderInv
      <4>2. CASE \E mode \in ExecutionModes(Series) : executor' = FreshExecutor(mode)
        BY <4>2, FreshIsOrdered
      <4> QED BY <2>4, <4>1, <4>2 DEF SubmitKeys
    <3>2. wave'.pending = executor'.active /\ wave'.results = <<>> BY <2>4 DEF SubmitKeys
    <3> QED BY <2>1, <3>1, <3>2, RangeEmpty DEF OrderInv
  <2> QED BY <2>2, <2>3, <2>4
<1>4. CASE KeyTask
  <2>1. PICK k \in Keys : CollectKey(k) \/ DropKey(k) BY <1>4 DEF KeyTask
  <2>2. /\ wave # NoWave /\ wave' # NoWave /\ k \in wave.pending
        /\ wave'.pending = wave.pending \ {k}
        /\ \/ UNCHANGED executor /\ wave'.results = Append(wave.results, k)
           \/ /\ wave'.results = wave.results
              /\ executor'.active = executor.active \ {k}
              /\ executor'.failures = executor.failures \cup {k}
              /\ executor'.order = executor.order
    BY <1>k, <2>1, TaskEnds
  <2>3. /\ executor.active = wave.pending \cup Range(wave.results)
        /\ wave.pending \cap Range(wave.results) = {}
        /\ executor # NoExecutor
        /\ wave.results \in Seq(Keys)
    BY <1>k, <2>2 DEF OrderInv, KeyShape, FanOutOK, WaveInv, Live, NoExecutor
  <2>4. Ordered(executor') BY <2>2, <2>3, OrderedIsKept DEF OrderInv
  <2>5. UNCHANGED checkpoint BY <1>4 DEF KeyTask
  <2>6. CASE UNCHANGED executor /\ wave'.results = Append(wave.results, k)
    <3>1. Range(wave'.results) = Range(wave.results) \cup {k} BY <2>3, <2>6, RangeAppend
    <3> QED BY <2>2, <2>3, <2>4, <2>5, <2>6, <3>1 DEF OrderInv
  <2>7. CASE wave'.results = wave.results /\ executor'.active = executor.active \ {k}
    BY <2>2, <2>3, <2>4, <2>5, <2>7 DEF OrderInv
  <2> QED BY <2>2, <2>6, <2>7
<1>5. ASSUME CloseStage, UNCHANGED checkpoint PROVE OrderInv'
  <2>1. /\ wave' = NoWave /\ executor'.active = executor.active
        /\ executor'.order = executor.order /\ executor'.failures = executor.failures
        /\ executor # NoExecutor
    BY <1>k, <1>5, ClosedIsBuilt, LiveIsSome DEF CloseStage, WaveInv
  <2>2. Ordered(executor') BY <2>1, OrderedIsKept DEF OrderInv
  <2> QED BY <1>5, <2>1, <2>2 DEF OrderInv
<1>6. CASE CompleteKeyStage BY <1>5, <1>6 DEF CompleteKeyStage
<1>7. CASE TrackRun
  <2>1. UNCHANGED checkpoint /\ (UNCHANGED keyVars \/ CloseStage) BY <1>7 DEF TrackRun
  <2>2. CASE UNCHANGED keyVars BY <2>1, <2>2 DEF OrderInv, keyVars
  <2> QED BY <1>5, <2>1, <2>2
<1>8. CASE FailStage
  <2>1. UNCHANGED <<checkpoint, executor>> /\ wave' = NoWave
    BY <1>8 DEF FailStage, keyVars, AbandonStage
  <2> QED BY <2>1 DEF OrderInv
<1>9. CASE SaveCheckpoint
  <2>1. UNCHANGED <<executor, wave>>
        /\ (UNCHANGED checkpoint \/ checkpoint' = [context |-> context, snapshot |-> executor])
    BY <1>9 DEF SaveCheckpoint, keyVars
  <2> QED BY <2>1 DEF OrderInv
<1>10. CASE Leave \/ Crash
  <2>1. UNCHANGED checkpoint /\ executor' = NoExecutor /\ wave' = NoWave
    BY <1>10 DEF Leave, Crash, ProcessEnds
  <2> QED BY <2>1 DEF OrderInv
<1> QED
  BY <1>1, <1>2, <1>3, <1>4, <1>6, <1>7, <1>8, <1>9, <1>10 DEF Step

\* Closing Rank & Select selects the survivors.
LEMMA MergedIsSelected ==
  ASSUME OrderInv, wave # NoWave, wave.pending = {}, executor # NoExecutor
  PROVE  Merged = Keep(Series, Keys \ executor.failures)
<1>1. /\ Range(wave.results) = executor.active /\ executor.active = Keys \ executor.failures
      /\ \A K \in SUBSET executor.active : Keep(executor.order, K) = Keep(Series, K)
  BY DEF OrderInv, Ordered
<1> QED BY <1>1 DEF Merged

LEMMA NothingFansOutInSeven ==
  ASSUME PlaceInv, task.phase = 7
  PROVE  /\ task.pc = "inside" => ~FansOut(Stage) /\ Stage \notin KeyStages /\ Stage # "MLflow Tracking"
         /\ BeginStage => UNCHANGED keyVars
<1>1. ASSUME task.pc = "inside"
      PROVE  ~FansOut(Stage) /\ Stage \notin KeyStages /\ Stage # "MLflow Tracking"
  <2>1. 7 \notin 3 .. 6 /\ 7 # 8 OBVIOUS
  <2>2. Stage \notin KeyStages /\ Stage # "MLflow Tracking" BY <1>1, <2>1, StageIsAt, Zenon
  <2> QED BY <2>2 DEF FansOut
<1>2. ASSUME BeginStage PROVE UNCHANGED keyVars
  <2>1. task.step + 1 \in 1 .. Len(Phases[7])
    BY <1>2, PhasesAre, SMTT(30) DEF BeginStage, PlaceInv
  <2>2. Phases[7][task.step + 1] \notin KeyStages /\ Phases[7][task.step + 1] # "MLflow Tracking"
    <3>1. 7 \in {1, 2, 7} OBVIOUS
    <3>2. Phases[7][task.step + 1] \notin KeyStages \cup {"MLflow Tracking"}
      BY <2>1, <3>1, OtherPhasesAre, Zenon
    <3> QED BY <3>2, Zenon
  <2>3. ~FansOut(Phases[7][task.step + 1]) BY <2>2 DEF FansOut
  <2> QED BY <1>2, <2>3 DEF BeginStage
<1> QED BY <1>1, <1>2

LEMMA SelectStep ==
  ASSUME KeyInv, ShapeInv, OrderInv, SelectInv, Step, UNCHANGED plan
  PROVE  SelectInv'
<1> USE DEF plan
<1>p. PlaceInv /\ WaveInv /\ KeyShape /\ TaskShape BY DEF KeyInv, OutputInv, ShapeInv
<1>1. LastPhase = 8 /\ \A p \in 1 .. LastPhase : Len(Phases[p]) \in Nat BY PhasesAre
<1>2. CASE StartFirstTask
  <2>1. task'.phase = 1 /\ task'.pc = "between" /\ UNCHANGED <<checkpoint, entry>>
    BY <1>p, <1>2 DEF StartFirstTask, TaskShape, Tasks
  <2> QED BY <2>1 DEF SelectInv
<1>3. CASE StartTask
  <2>1. /\ task'.phase = task.phase /\ task'.pc = "between" /\ task'.step = 0
        /\ UNCHANGED <<checkpoint, entry>> /\ entry = "workflow"
        /\ task.phase = 7 => executor' = NoExecutor
    BY <1>p, <1>1, <1>3 DEF StartTask, TaskShape, Tasks, ResumingKeys, PlaceInv, EntryKinds
  <2> QED BY <2>1 DEF SelectInv
<1>4. CASE LoadFails \/ Retry
  <2>1. task'.phase = task.phase /\ task'.pc \in {"waiting", "failed"} /\ UNCHANGED <<checkpoint, entry>>
    BY <1>p, <1>4 DEF LoadFails, Retry, TaskShape, Tasks
  <2> QED BY <2>1 DEF SelectInv
<1>5. CASE BeginStage
  <2>1. /\ task'.phase = task.phase /\ task'.pc = "inside" /\ task.pc = "between"
        /\ UNCHANGED <<checkpoint, entry>> /\ context'.reports = context.reports
    BY <1>p, <1>5 DEF BeginStage, TaskShape, Tasks, ShapeInv, ContextShape, Begun
  <2>2. task.phase = 7 => UNCHANGED executor BY <1>p, <1>5, NothingFansOutInSeven DEF keyVars
  <2> QED BY <2>1, <2>2 DEF SelectInv, Selected
<1>6. CASE KeyTask
  <2>1. UNCHANGED <<task, checkpoint, entry>> /\ task.pc = "inside" BY <1>6 DEF KeyTask
  <2>2. PICK k \in Keys : CollectKey(k) \/ DropKey(k) BY <1>6 DEF KeyTask
  <2>3. wave # NoWave BY <1>p, <2>2, TaskEnds
  <2>4. task.phase # 7 BY <1>p, <2>1, <2>3, NothingFansOutInSeven DEF WaveInv
  <2> QED BY <2>1, <2>4 DEF SelectInv
<1>7. CASE CompleteStage
  <2>1. /\ task.pc = "inside" /\ task'.pc = "between" /\ task'.phase = task.phase
        /\ ~FansOut(Stage) /\ UNCHANGED <<checkpoint, entry, executor>>
    BY <1>p, <1>7 DEF CompleteStage, Goes, keyVars, TaskShape, Tasks
  <2>2. entry # "run" => task.phase # 6 /\ context'.reports = context.reports
    <3>1. entry # "run" => Stage \notin KeyStages BY <2>1 DEF FansOut
    <3>2. Stage \notin KeyStages => context'.reports = context.reports
      BY <1>7, <2>1 DEF CompleteStage, ShapeInv, ContextShape, Begun
    <3>3. 6 \in 3 .. 6 OBVIOUS
    <3>4. Stage \notin KeyStages => task.phase # 6 BY <1>p, <2>1, <3>3, StageIsAt, Zenon
    <3> QED BY <3>1, <3>2, <3>4, Zenon
  <2> QED BY <2>1, <2>2 DEF SelectInv, Selected
<1>8. CASE CompleteKeyStage
  <2>1. /\ task.pc = "inside" /\ task'.pc = "between" /\ task'.phase = task.phase
        /\ Stage \in KeyStages /\ CloseStage /\ UNCHANGED <<checkpoint, entry>>
    BY <1>p, <1>8 DEF CompleteKeyStage, Goes, TaskShape, Tasks
  <2>2. task.phase \in 3 .. 6 /\ Stage = Phases[task.phase][1] BY <1>p, <2>1, StageIsAt
  <2>3. ASSUME task.phase = 6 PROVE Selected(context', executor')
    <3>1. Stage = "Rank & Select" BY <2>2, <2>3, KeyPhasesAre
    <3>2. wave # NoWave /\ wave.pending = {} /\ executor # NoExecutor
      BY <1>p, <2>1, LiveIsSome DEF CloseStage, WaveInv
    <3>3. executor'.failures = executor.failures BY <1>p, <2>1, ClosedIsBuilt
    <3>4. context'.reports = Reporting(Stage, Merged)
      BY <1>8, <2>1 DEF CompleteKeyStage, ShapeInv, ContextShape, Begun
    <3>5. context'.reports["Rank & Select"] = Merged BY <3>1, <3>4 DEF Reporting
    <3> QED BY <3>2, <3>3, <3>5, MergedIsSelected DEF Selected
  <2> QED BY <2>1, <2>2, <2>3 DEF SelectInv
<1>9. CASE TrackRun
  <2>1. /\ task.pc = "inside" /\ task'.pc = "between" /\ task'.phase = task.phase
        /\ Stage = "MLflow Tracking" /\ UNCHANGED <<checkpoint, entry>>
    BY <1>p, <1>9 DEF TrackRun, Goes, TaskShape, Tasks
  <2>2. task'.phase = 8 BY <1>p, <2>1, StageIsAt
  <2>3. task'.phase # 6 /\ task'.phase # 7 BY <2>2
  <2> QED BY <2>1, <2>3 DEF SelectInv
<1>10. CASE FailStage
  <2>1. /\ task.pc = "inside" /\ task'.phase = task.phase /\ task'.why = "stage"
        /\ task'.pc = (IF entry = "workflow" THEN "saving" ELSE "leaving")
        /\ UNCHANGED <<checkpoint, entry, executor>>
    BY <1>p, <1>10 DEF FailStage, AbandonStage, keyVars, TaskShape, Tasks
  <2> QED BY <2>1 DEF SelectInv
<1>11. CASE NextPhase
  <2>1. /\ entry # "workflow" /\ task.pc = "between" /\ UNCHANGED <<checkpoint, entry, executor, context>>
        /\ task.step = Len(Phases[task.phase]) /\ task.phase \in 1 .. 8
        /\ \/ task'.phase = task.phase + 1 /\ task'.step = 0 /\ task'.pc = "between"
           \/ task'.pc = "leaving"
    BY <1>p, <1>1, <1>11 DEF NextPhase, keyVars, TaskShape, Tasks, PlaceInv
  <2>2. CASE task'.phase = task.phase + 1 /\ task'.step = 0 /\ task'.pc = "between"
    <3>1. task'.phase = 7 => task.phase = 6 BY <2>1, <2>2
    <3>2. task.phase = 6 => task.step = 1 BY <2>1, KeyPhasesAre
    <3> QED BY <2>1, <2>2, <3>1, <3>2 DEF SelectInv, Selected
  <2>3. CASE task'.pc = "leaving" BY <2>1, <2>3 DEF SelectInv, Selected
  <2> QED BY <2>1, <2>2, <2>3
<1>12. CASE EndPhase
  <2>1. /\ entry = "workflow" /\ task.pc = "between" /\ UNCHANGED <<checkpoint, entry, executor, context>>
        /\ task.step = Len(Phases[task.phase]) /\ task'.phase = task.phase /\ task'.pc = "saving"
    BY <1>p, <1>12 DEF EndPhase, Goes, keyVars, TaskShape, Tasks
  <2>2. task.phase = 6 => task.step = 1 BY <2>1, KeyPhasesAre
  <2>3. task'.why = "none" BY <1>p, <1>12, <2>1 DEF EndPhase, Goes, PlaceInv
  <2> QED BY <2>1, <2>2, <2>3 DEF SelectInv, Selected
<1>13. CASE SaveCheckpoint
  <2>1. /\ task.pc = "saving" /\ task'.pc = "leaving" /\ task'.phase = task.phase
        /\ UNCHANGED <<entry, executor, context>> /\ entry = "workflow"
        /\ \/ /\ checkpoint' = [context |-> context, snapshot |-> executor]
              /\ task'.why = task.why
           \/ UNCHANGED checkpoint /\ task'.why # "none"
    BY <1>p, <1>13 DEF SaveCheckpoint, keyVars, TaskShape, Tasks, PlaceInv
  <2>2. CASE checkpoint' = [context |-> context, snapshot |-> executor] /\ task'.why = task.why
    <3>1. checkpoint'.context = context /\ checkpoint'.snapshot = executor BY <2>2
    <3>2. task.phase = 7 => executor = NoExecutor BY <2>1 DEF SelectInv
    <3>3. task.phase = 6 /\ task.why = "none" => Selected(context, executor)
      BY <2>1 DEF SelectInv, EntryKinds
    <3> QED BY <2>1, <2>2, <3>1, <3>2, <3>3 DEF SelectInv, Selected
  <2>3. CASE UNCHANGED checkpoint /\ task'.why # "none" BY <2>1, <2>3 DEF SelectInv, Selected
  <2> QED BY <2>1, <2>2, <2>3
<1>14. CASE Leave
  <2>1. /\ task.pc = "leaving" /\ UNCHANGED <<checkpoint, entry>>
        /\ \/ task.why = "none" /\ task'.phase = task.phase + 1 /\ task'.pc = "waiting"
           \/ task'.phase = task.phase /\ task'.pc = "failed"
        /\ task.phase \in 1 .. 8
    <3>1. task.pc = "leaving" /\ UNCHANGED <<checkpoint, entry>> /\ task.phase \in 1 .. 8
      BY <1>p, <1>1, <1>14 DEF Leave, ProcessEnds, PlaceInv
    <3>2. CASE task' = [task EXCEPT !.pc = "failed"]
      BY <1>p, <3>1, <3>2 DEF TaskShape, Tasks
    <3>3. CASE /\ task.why = "none"
               /\ task' = [task EXCEPT !.phase = @ + 1, !.pc = "waiting", !.step = 0]
      BY <1>p, <3>1, <3>3 DEF TaskShape, Tasks
    <3> QED BY <1>14, <3>1, <3>2, <3>3 DEF Leave
  <2>2. task'.phase = 7 => task.phase = 7 \/ (task.phase = 6 /\ task.why = "none") BY <2>1
  <2> QED BY <2>1, <2>2 DEF SelectInv
<1>15. CASE Crash
  <2>1. UNCHANGED <<checkpoint, entry>> /\ task'.phase = task.phase /\ task'.pc = "failed"
    BY <1>p, <1>15 DEF Crash, ProcessEnds, TaskShape, Tasks
  <2> QED BY <2>1 DEF SelectInv
<1> QED
  BY <1>2, <1>3, <1>4, <1>5, <1>6, <1>7, <1>8, <1>9, <1>10, <1>11, <1>12, <1>13, <1>14, <1>15
  DEF Step

LEMMA SelectionsInductive == Spec => [](OrderInv /\ SelectInv)
<1>1. Init => OrderInv /\ SelectInv
  BY DEF Init, OrderInv, SelectInv, NoCheckpoint
<1>2. KeyInv /\ ShapeInv /\ OrderInv /\ SelectInv /\ [Next]_vars => OrderInv' /\ SelectInv'
  <2>1. ASSUME KeyInv, ShapeInv, OrderInv, SelectInv, Next PROVE OrderInv' /\ SelectInv'
    BY <2>1, OrderStep, SelectStep DEF Next
  <2>2. ASSUME OrderInv, SelectInv, UNCHANGED vars PROVE OrderInv' /\ SelectInv'
    BY <2>2 DEF OrderInv, SelectInv, Selected, vars, plan
  <2> QED BY <2>1, <2>2
<1> QED BY KeysInductive, ShapeInductive, <1>1, <1>2, PTL DEF Spec

\* Merging in series order and dropping failed keys: on whatever compute, in whatever
\* order the keys' tasks end and however often the run is resumed, what Rank & Select
\* hands on is the series without the keys that failed, in series order.
THEOREM SurvivorsAreSelected == Spec => []SelectionIsTheSurvivors
<1>1. PlaceInv /\ SelectInv => SelectionIsTheSurvivors
  <2> SUFFICES ASSUME PlaceInv, SelectInv PROVE SelectionIsTheSurvivors
    OBVIOUS
  <2>1. task.pc = "waiting" /\ task.phase = 7 => entry = "workflow"
    <3>1. 7 \notin {1, LastPhase + 1} BY PhasesAre
    <3> QED BY <3>1 DEF PlaceInv
  <2>2. /\ task.pc = "waiting" /\ task.phase = 7 /\ checkpoint.snapshot # NoExecutor =>
             Selected(checkpoint.context, checkpoint.snapshot)
        /\ entry = "bundle" /\ task.phase = 7 /\ task.pc = "between" => Selected(context, executor)
    BY <2>1 DEF SelectInv
  <2> QED BY <2>2, Zenon DEF Selected, SelectionIsTheSurvivors
<1>2. KeyInv => PlaceInv BY DEF KeyInv, OutputInv
<1> QED BY KeysInductive, SelectionsInductive, <1>1, <1>2, PTL
--------------------------------------------------------------------------------
(* The accounts of the keys. *)

\* The per-key stages of the phases before p.
KeyStagesBefore(p) == {Phases[q][1] : q \in {q \in 3 .. 6 : q < p}}

Nested(reports) ==
  \A q \in 4 .. 6 :
    Phases[q][1] \in DOMAIN reports =>
      Range(reports[Phases[q][1]]) \subseteq Range(reports[Phases[q - 1][1]])

\* The reports of a run in phase q, which has got to the start of phase p and has the
\* keys K still active.  A phase that is run again finds its own report there.
ReportsOK(reports, q, p, K) ==
  /\ KeyStagesBefore(p) \subseteq DOMAIN reports
  /\ DOMAIN reports \subseteq KeyStagesBefore(q + 1)
  /\ Nested(reports)
  /\ q <= 6 /\ p >= 4 => K \subseteq Range(reports[Phases[p - 1][1]])

\* The phase whose input is complete.
Reached == IF \/ task.pc = "between" /\ task.step = Len(Phases[task.phase])
              \/ task.pc \in {"saving", "leaving"} /\ task.why = "none"
           THEN task.phase + 1 ELSE task.phase

ActiveKeys == IF entry = "run" THEN Keys ELSE executor.active

ReportInv ==
  /\ task.pc \in {"between", "inside", "saving"} =>
       ReportsOK(context.reports, task.phase, Reached, ActiveKeys)
  /\ entry = "workflow" /\ (\/ task.phase \in 2 .. LastPhase
                            \/ task.pc = "leaving" /\ task.why = "none") =>
       ReportsOK(checkpoint.context.reports, task.phase,
                 IF task.pc = "leaving" THEN Reached ELSE task.phase, checkpoint.snapshot.active)

Counted(trail) ==
  {i \in DOMAIN trail : trail[i].stage \in KeyStages /\ trail[i].tasks.total > 0}

Balance(r) == r.tasks.total - r.tasks.failed

\* A counted stage takes up what the one before it left.
Chained(trail) ==
  \A i, j \in Counted(trail) :
    i < j /\ (\A m \in Counted(trail) : m <= i \/ j <= m) =>
      trail[j].tasks.total = IF trail[j].stage = "Train Models" THEN Cardinality(Keys)
                             ELSE Balance(trail[i])

\* The last counted stage left n keys.
Tallied(trail, n) ==
  \A i \in Counted(trail) : (\A j \in Counted(trail) : j <= i) => Balance(trail[i]) = n

Bounded(trail) == \A i \in DOMAIN trail : trail[i].tasks.total <= Cardinality(Keys)

LastRecord(trail) == trail[Len(trail)]

\* Training starts from the series: no executor is there before it.
FirstInv ==
  /\ task.pc \in {"waiting", "failed"} => executor = NoExecutor
  /\ task.pc \in {"between", "inside"} /\ task.phase < 3 => executor = NoExecutor
  /\ task.pc = "between" /\ task.phase = 3 /\ task.step = 0 => executor = NoExecutor

\* The stage under way has the trail's last record, and a fan-out under way is counted on it.
WaveCounted ==
  /\ task.pc = "inside" => LastRecord(context.trail).stage = Stage
  /\ wave # NoWave =>
       /\ wave.total <= Cardinality(Keys)
       /\ LastRecord(context.trail).tasks.total \in {0, wave.total}
       /\ LastRecord(context.trail).tasks.total = 0 => Cardinality(executor.active) = wave.total
       /\ wave.stage = "Train Models" => wave.total = Cardinality(Keys)

ContextCounted ==
  /\ Chained(context.trail) /\ Bounded(context.trail)
  /\ task.pc \in {"between", "inside", "saving"} /\ task.phase <= 6 /\ Reached >= 4 /\ entry # "run" =>
       Tallied(context.trail, Cardinality(executor.active))

CheckpointCounted ==
  /\ Chained(checkpoint.context.trail) /\ Bounded(checkpoint.context.trail)
  /\ entry = "workflow" /\ task.phase \in 4 .. 6 =>
       Tallied(checkpoint.context.trail, Cardinality(checkpoint.snapshot.active))
  /\ entry = "workflow" /\ task.phase = 3 /\ task.pc = "leaving" /\ task.why = "none" =>
       Tallied(checkpoint.context.trail, Cardinality(checkpoint.snapshot.active))

CountInv == WaveCounted /\ ContextCounted /\ CheckpointCounted

LEMMA KeyPhasesDiffer == \A q, r \in 3 .. 6 : Phases[q][1] = Phases[r][1] => q = r
<1> SUFFICES ASSUME NEW q \in 3 .. 6, NEW r \in 3 .. 6, Phases[q][1] = Phases[r][1]
             PROVE  q = r
  OBVIOUS
<1>1. q \in {3, 4, 5, 6} /\ r \in {3, 4, 5, 6} OBVIOUS
<1>2. CASE q = 3 BY <1>1, <1>2, KeyPhasesAre
<1>3. CASE q = 4 BY <1>1, <1>3, KeyPhasesAre
<1>4. CASE q = 5 BY <1>1, <1>4, KeyPhasesAre
<1>5. CASE q = 6 BY <1>1, <1>5, KeyPhasesAre
<1> QED BY <1>1, <1>2, <1>3, <1>4, <1>5

LEMMA StagesBefore ==
  /\ \A p \in 1 .. 9 : \A q \in 3 .. 6 : Phases[q][1] \in KeyStagesBefore(p) <=> q < p
  /\ \A p, r \in 1 .. 9 : p <= r => KeyStagesBefore(p) \subseteq KeyStagesBefore(r)
  /\ \A q \in 3 .. 6 : KeyStagesBefore(q + 1) = KeyStagesBefore(q) \cup {Phases[q][1]}
  /\ \A q \in 1 .. 8 : q \notin 3 .. 6 => KeyStagesBefore(q + 1) = KeyStagesBefore(q)
<1>1. \A p \in 1 .. 9 : \A q \in 3 .. 6 : Phases[q][1] \in KeyStagesBefore(p) <=> q < p
  <2> SUFFICES ASSUME NEW p \in 1 .. 9, NEW q \in 3 .. 6
               PROVE  Phases[q][1] \in KeyStagesBefore(p) <=> q < p
    OBVIOUS
  <2>1. ASSUME Phases[q][1] \in KeyStagesBefore(p) PROVE q < p
    <3>1. PICK r \in 3 .. 6 : r < p /\ Phases[q][1] = Phases[r][1]
      BY <2>1 DEF KeyStagesBefore
    <3>2. q = r BY <3>1, KeyPhasesDiffer
    <3> QED BY <3>1, <3>2
  <2>2. q < p => Phases[q][1] \in KeyStagesBefore(p) BY DEF KeyStagesBefore
  <2> QED BY <2>1, <2>2
<1>2. \A p, r \in 1 .. 9 : p <= r => KeyStagesBefore(p) \subseteq KeyStagesBefore(r)
  BY DEF KeyStagesBefore
<1>3. \A q \in 3 .. 6 : KeyStagesBefore(q + 1) = KeyStagesBefore(q) \cup {Phases[q][1]}
  <2> SUFFICES ASSUME NEW q \in 3 .. 6
               PROVE  KeyStagesBefore(q + 1) = KeyStagesBefore(q) \cup {Phases[q][1]}
    OBVIOUS
  <2>1. {r \in 3 .. 6 : r < q + 1} = {r \in 3 .. 6 : r < q} \cup {q} OBVIOUS
  <2> QED BY <2>1 DEF KeyStagesBefore
<1>4. \A q \in 1 .. 8 : q \notin 3 .. 6 => KeyStagesBefore(q + 1) = KeyStagesBefore(q)
  <2> SUFFICES ASSUME NEW q \in 1 .. 8, q \notin 3 .. 6
               PROVE  KeyStagesBefore(q + 1) = KeyStagesBefore(q)
    OBVIOUS
  <2>1. {r \in 3 .. 6 : r < q + 1} = {r \in 3 .. 6 : r < q} OBVIOUS
  <2> QED BY <2>1 DEF KeyStagesBefore
<1> QED BY <1>1, <1>2, <1>3, <1>4

LEMMA ReportsOfFewer ==
  ASSUME NEW reports, NEW q, NEW p, NEW K, NEW L, L \subseteq K \/ q > 6 \/ p < 4,
         q \in Nat, p \in Nat, ReportsOK(reports, q, p, K)
  PROVE  ReportsOK(reports, q, p, L)
  BY DEF ReportsOK

LEMMA ReportsBack ==
  ASSUME NEW reports, NEW q \in 1 .. 8, NEW K, ReportsOK(reports, q, q + 1, K)
  PROVE  ReportsOK(reports, q, q, K)
<1>1. KeyStagesBefore(q) \subseteq KeyStagesBefore(q + 1) BY StagesBefore
<1>2. ASSUME q <= 6, q >= 4 PROVE K \subseteq Range(reports[Phases[q - 1][1]])
  <2>1. K \subseteq Range(reports[Phases[q][1]]) BY <1>2 DEF ReportsOK
  <2>2. q \in 4 .. 6 /\ q \in 3 .. 6 BY <1>2
  <2>3. Phases[q][1] \in KeyStagesBefore(q + 1)
    <3>1. q + 1 \in 1 .. 9 /\ q < q + 1 OBVIOUS
    <3> QED BY <2>2, <3>1, StagesBefore
  <2>4. Phases[q][1] \in DOMAIN reports BY <2>3 DEF ReportsOK
  <2>5. Range(reports[Phases[q][1]]) \subseteq Range(reports[Phases[q - 1][1]])
    BY <2>2, <2>4 DEF ReportsOK, Nested
  <2> QED BY <2>1, <2>5
<1> QED BY <1>1, <1>2 DEF ReportsOK

LEMMA ReportsPass ==
  ASSUME NEW reports, NEW q \in 1 .. 8, q \notin 3 .. 6, NEW K, ReportsOK(reports, q, q, K)
  PROVE  ReportsOK(reports, q, q + 1, K)
<1>1. KeyStagesBefore(q + 1) = KeyStagesBefore(q) BY StagesBefore
<1> QED BY <1>1 DEF ReportsOK

LEMMA ReportsNext ==
  ASSUME NEW reports, NEW q \in 1 .. 7, NEW K, ReportsOK(reports, q, q + 1, K)
  PROVE  ReportsOK(reports, q + 1, q + 1, K)
<1>1. q + 1 \in 1 .. 9 /\ q + 2 \in 1 .. 9 /\ q + 1 <= q + 2 /\ (q + 1) + 1 = q + 2 OBVIOUS
<1>2. KeyStagesBefore(q + 1) \subseteq KeyStagesBefore(q + 2) BY <1>1, StagesBefore
<1> QED BY <1>1, <1>2 DEF ReportsOK

LEMMA ReportsStored ==
  ASSUME NEW old, NEW new, NEW q \in 3 .. 6, NEW K, NEW L, NEW R,
         ReportsOK(old, q, q, K),
         new = [s \in DOMAIN old \cup {Phases[q][1]} |-> IF s = Phases[q][1] THEN R ELSE old[s]],
         Range(R) \subseteq K, L \subseteq Range(R)
  PROVE  ReportsOK(new, q, q + 1, L)
<1>1. /\ DOMAIN new = DOMAIN old \cup {Phases[q][1]} /\ new[Phases[q][1]] = R
      /\ \A s \in DOMAIN old : s # Phases[q][1] => new[s] = old[s]
  OBVIOUS
<1>2. KeyStagesBefore(q + 1) = KeyStagesBefore(q) \cup {Phases[q][1]} BY StagesBefore
<1>3. KeyStagesBefore(q + 1) \subseteq DOMAIN new /\ DOMAIN new \subseteq KeyStagesBefore(q + 1)
  BY <1>1, <1>2 DEF ReportsOK
<1>4. Nested(new)
  <2> SUFFICES ASSUME NEW r \in 4 .. 6, Phases[r][1] \in DOMAIN new
               PROVE  Range(new[Phases[r][1]]) \subseteq Range(new[Phases[r - 1][1]])
    BY DEF Nested
  <2>1. r \in 3 .. 6 /\ r - 1 \in 3 .. 6 /\ r - 1 < q + 1 /\ r < q + 1
    <3>1. r \in 3 .. 6 /\ q + 1 \in 1 .. 9 OBVIOUS
    <3>2. r < q + 1 BY <1>3, <3>1, StagesBefore
    <3> QED BY <3>1, <3>2
  <2>2. Phases[r - 1][1] # Phases[q][1]
    <3>1. r - 1 # q BY <2>1
    <3> QED BY <2>1, <3>1, KeyPhasesDiffer
  <2>3. Phases[r - 1][1] \in DOMAIN old
    <3>1. r - 1 < q /\ q \in 1 .. 9 BY <2>1
    <3>2. Phases[r - 1][1] \in KeyStagesBefore(q) BY <2>1, <3>1, StagesBefore
    <3> QED BY <3>2 DEF ReportsOK
  <2>4. new[Phases[r - 1][1]] = old[Phases[r - 1][1]] BY <1>1, <2>2, <2>3
  <2>5. CASE r = q
    <3>1. K \subseteq Range(old[Phases[q - 1][1]]) BY <2>5 DEF ReportsOK
    <3> QED BY <1>1, <2>4, <2>5, <3>1
  <2>6. CASE r # q
    <3>1. Phases[r][1] # Phases[q][1] BY <2>1, <2>6, KeyPhasesDiffer
    <3>2. Phases[r][1] \in DOMAIN old BY <1>1, <3>1
    <3>3. Range(old[Phases[r][1]]) \subseteq Range(old[Phases[r - 1][1]])
      BY <3>2 DEF ReportsOK, Nested
    <3> QED BY <1>1, <2>4, <3>1, <3>2, <3>3
  <2> QED BY <2>5, <2>6
<1>5. L \subseteq Range(new[Phases[(q + 1) - 1][1]])
  <2>1. (q + 1) - 1 = q OBVIOUS
  <2> QED BY <1>1, <2>1
<1> QED BY <1>3, <1>4, <1>5 DEF ReportsOK

LEMMA NothingReported == \A K : ReportsOK([s \in {} |-> <<>>], 1, 1, K)
<1>1. DOMAIN [s \in {} |-> <<>>] = {} OBVIOUS
<1>2. KeyStagesBefore(1) = {} BY DEF KeyStagesBefore
<1> QED BY <1>1, <1>2 DEF ReportsOK, Nested

\* A later task has the keys its checkpoint had active.
LEMMA ResumedKeys ==
  ASSUME PlaceInv, SnapshotInv, KeyShape, StartTask, task.phase \in 4 .. 6
  PROVE  executor'.active = checkpoint.snapshot.active
<1>1. LastPhase = 8 BY PhasesAre
<1>2. entry = "workflow" BY <1>1 DEF StartTask, PlaceInv, EntryKinds
<1>3. checkpoint.snapshot # NoExecutor BY <1>2, LiveIsSome DEF SnapshotInv
<1>4. \E keys : \E mode \in ExecutionModes(keys) : executor' = Resumed(checkpoint.snapshot, mode)
  BY <1>3 DEF StartTask, ResumingKeys
<1> QED BY <1>3, <1>4 DEF Resumed, KeyShape, Built

\* What the phase of a task is, and what its context and its checkpoint report.
LEMMA ReportedSoFar ==
  ASSUME PlaceInv, ReportInv
  PROVE  /\ task.phase \in 1 .. 9 /\ (task.pc \notin {"waiting", "failed"} => task.phase \in 1 .. 8)
         /\ task.pc = "inside" => ReportsOK(context.reports, task.phase, task.phase, ActiveKeys)
         /\ task.pc \in {"between", "saving"} =>
              ReportsOK(context.reports, task.phase, Reached, ActiveKeys)
         /\ entry = "workflow" /\ task.pc # "leaving" /\ task.phase \in 2 .. 8 =>
              ReportsOK(checkpoint.context.reports, task.phase, task.phase,
                        checkpoint.snapshot.active)
<1>1. LastPhase = 8 BY PhasesAre
<1>2. task.pc = "inside" => Reached = task.phase BY DEF Reached
<1> QED BY <1>1, <1>2 DEF PlaceInv, ReportInv

\* A stage that is over is the last of its phase, or has no keys to report on.
LEMMA ReportsAfterStage ==
  ASSUME PlaceInv, task.pc = "inside", NEW reports, NEW K,
         \/ ReportsOK(reports, task.phase, task.phase + 1, K)
         \/ task.phase \notin 3 .. 6 /\ ReportsOK(reports, task.phase, task.phase, K),
         task'.pc = "between", task'.phase = task.phase, task'.step = task.step
  PROVE  ReportsOK(reports, task'.phase, Reached', K)
<1>1. task.phase \in 1 .. 8 /\ task.step \in 1 .. Len(Phases[task.phase]) BY StageIsAt
<1>2. task.phase \in 3 .. 6 => task.step = Len(Phases[task.phase])
  <2> SUFFICES ASSUME task.phase \in 3 .. 6 PROVE task.step = Len(Phases[task.phase])
    OBVIOUS
  <2>1. Len(Phases[task.phase]) = 1 BY KeyPhases
  <2>2. task.step \in 1 .. 1 BY <1>1, <2>1
  <2> QED BY <2>1, <2>2
<1>3. Reached' = IF task.step = Len(Phases[task.phase]) THEN task.phase + 1 ELSE task.phase
  BY DEF Reached
<1>4. CASE task.step = Len(Phases[task.phase]) BY <1>1, <1>3, <1>4, ReportsPass
<1>5. CASE task.step # Len(Phases[task.phase]) BY <1>1, <1>2, <1>3, <1>5, ReportsBack
<1> QED BY <1>4, <1>5

LEMMA ReportStep ==
  ASSUME KeyInv, ShapeInv, OrderInv, ReportInv, Step, UNCHANGED plan
  PROVE  ReportInv'
<1> USE DEF plan
<1>p. PlaceInv /\ WaveInv /\ ExecutorInv /\ SnapshotInv /\ KeyShape /\ TaskShape /\ ContextShape
  BY DEF KeyInv, OutputInv, ShapeInv
<1>1. LastPhase = 8 /\ \A p \in 1 .. 8 : Len(Phases[p]) \in Nat /\ Len(Phases[p]) > 0
  BY PhasesAre, PhasesAreNotEmpty
<1>2. CASE StartFirstTask
  <2>1. /\ task'.phase = 1 /\ task'.pc = "between" /\ task'.step = 0
        /\ context'.reports = [s \in {} |-> <<>>]
    <3>1. \E row : context' = NewContext(row) BY <1>2 DEF StartFirstTask
    <3>2. context'.reports = [s \in {} |-> <<>>] BY <3>1 DEF NewContext
    <3> QED BY <1>p, <1>2, <3>2 DEF StartFirstTask, TaskShape, Tasks
  <2>2. Reached' = 1 BY <1>1, <2>1 DEF Reached
  <2> QED BY <1>1, <2>1, <2>2, NothingReported DEF ReportInv
<1>3. CASE StartTask
  <2>1. /\ task'.phase = task.phase /\ task'.pc = "between" /\ task'.step = 0
        /\ UNCHANGED <<checkpoint, entry>> /\ entry = "workflow" /\ task.pc = "waiting"
        /\ task.phase \in 2 .. 8 /\ context' = checkpoint.context
    BY <1>p, <1>1, <1>3 DEF StartTask, TaskShape, Tasks, PlaceInv, EntryKinds
  <2>2. Reached' = task.phase
    <3>1. task.phase \in 1 .. 8 BY <2>1
    <3>2. Len(Phases[task.phase]) \in Nat /\ Len(Phases[task.phase]) > 0 BY <1>1, <3>1, Zenon
    <3> QED BY <2>1, <3>2 DEF Reached
  <2>3. ReportsOK(checkpoint.context.reports, task.phase, task.phase, checkpoint.snapshot.active)
    BY <1>p, <2>1, ReportedSoFar
  <2>4. task.phase \in 4 .. 6 => executor'.active = checkpoint.snapshot.active
    BY <1>p, <1>3, ResumedKeys
  <2>5. ReportsOK(context'.reports, task'.phase, Reached', executor'.active)
    BY <2>1, <2>2, <2>3, <2>4, ReportsOfFewer
  <2>6. ActiveKeys' = executor'.active BY <2>1 DEF ActiveKeys
  <2> QED BY <2>1, <2>3, <2>5, <2>6 DEF ReportInv
<1>4. CASE LoadFails \/ Retry
  <2>1. /\ task'.phase = task.phase /\ task'.pc \in {"waiting", "failed"} /\ task.pc # "leaving"
        /\ UNCHANGED <<checkpoint, entry>>
    BY <1>p, <1>4 DEF LoadFails, Retry, TaskShape, Tasks
  <2> QED BY <1>1, <1>p, <2>1, ReportedSoFar DEF ReportInv
<1>5. CASE BeginStage
  <2>1. /\ task'.phase = task.phase /\ task'.pc = "inside" /\ task.pc = "between"
        /\ UNCHANGED <<checkpoint, entry>> /\ context'.reports = context.reports
        /\ task.step # Len(Phases[task.phase]) /\ task.phase \in 1 .. 8
    BY <1>p, <1>1, <1>5 DEF BeginStage, TaskShape, Tasks, ContextShape, Begun, PlaceInv
  <2>2. Reached = task.phase /\ Reached' = task.phase BY <2>1 DEF Reached
  <2>3. task.phase \in 4 .. 6 => ActiveKeys' = ActiveKeys
    <3>1. CASE entry = "run" BY <2>1, <3>1 DEF ActiveKeys
    <3>2. CASE entry # "run" /\ task.phase \in 4 .. 6
      <4>1. executor # NoExecutor BY <1>p, <2>1, <3>2 DEF ExecutorInv
      <4>2. UNCHANGED executor BY <1>5, <4>1 DEF BeginStage, SubmitKeys, keyVars
      <4> QED BY <2>1, <4>2 DEF ActiveKeys
    <3> QED BY <3>1, <3>2
  <2>4. ReportsOK(context.reports, task.phase, task.phase, ActiveKeys)
    BY <2>1, <2>2 DEF ReportInv
  <2>5. ReportsOK(context'.reports, task'.phase, Reached', ActiveKeys')
    BY <2>1, <2>2, <2>3, <2>4, ReportsOfFewer
  <2> QED BY <1>1, <1>p, <2>1, <2>5, ReportedSoFar DEF ReportInv
<1>6. CASE KeyTask
  <2>1. UNCHANGED <<task, checkpoint, entry>> /\ task.pc = "inside" /\ context'.reports = context.reports
    BY <1>p, <1>6 DEF KeyTask, ContextShape, Begun
  <2>2. PICK k \in Keys : CollectKey(k) \/ DropKey(k) BY <1>6 DEF KeyTask
  <2>3. executor'.active \subseteq executor.active BY <1>p, <2>2, TaskEnds
  <2>4. ActiveKeys' \subseteq ActiveKeys BY <2>1, <2>3 DEF ActiveKeys
  <2>5. Reached' = task.phase BY <2>1 DEF Reached
  <2>6. task.phase \in Nat BY <1>p DEF PlaceInv
  <2>7. ReportsOK(context'.reports, task'.phase, Reached', ActiveKeys')
    BY <1>p, <2>1, <2>4, <2>5, <2>6, ReportedSoFar, ReportsOfFewer
  <2> QED BY <1>1, <1>p, <2>1, <2>7, ReportedSoFar DEF ReportInv
<1>a. ASSUME task.pc = "inside", task'.pc = "between", task'.phase = task.phase,
             UNCHANGED <<checkpoint, entry>>,
             ReportsOK(context'.reports, task'.phase, Reached', ActiveKeys')
      PROVE  ReportInv'
  BY <1>1, <1>p, <1>a, ReportedSoFar DEF ReportInv
<1>7. CASE CompleteStage
  <2>1. /\ task.pc = "inside" /\ task'.pc = "between" /\ task'.phase = task.phase
        /\ task'.step = task.step
        /\ ~FansOut(Stage) /\ UNCHANGED <<checkpoint, entry, executor>>
        /\ context'.reports = IF Stage \in KeyStages THEN Reporting(Stage, Series)
                              ELSE context.reports
    BY <1>p, <1>7 DEF CompleteStage, Goes, keyVars, TaskShape, Tasks, ContextShape, Begun
  <2>2. ActiveKeys' = ActiveKeys BY <2>1 DEF ActiveKeys
  <2>3. ReportsOK(context.reports, task.phase, task.phase, ActiveKeys)
    BY <1>p, <2>1, ReportedSoFar
  <2>4. CASE Stage \in KeyStages
    <3>1. task.phase \in 3 .. 6 /\ Stage = Phases[task.phase][1] BY <1>p, <2>1, <2>4, StageIsAt
    <3>2. ActiveKeys = Range(Series) BY <2>1, <2>4 DEF FansOut, ActiveKeys, Keys
    <3>3. context'.reports = Reporting(Stage, Series) BY <2>1, <2>4
    <3>4. ReportsOK(context'.reports, task.phase, task.phase + 1, ActiveKeys)
      <4>1. context'.reports = [s \in DOMAIN context.reports \cup {Phases[task.phase][1]} |->
                                  IF s = Phases[task.phase][1] THEN Series ELSE context.reports[s]]
        BY <3>1, <3>3, Zenon DEF Reporting
      <4> QED BY <2>3, <3>1, <3>2, <4>1, ReportsStored
    <3> QED BY <1>a, <1>p, <2>1, <2>2, <3>4, ReportsAfterStage
  <2>5. CASE Stage \notin KeyStages
    <3>1. task.phase \notin 3 .. 6 BY <1>p, <2>1, <2>5, StageIsAt
    <3> QED BY <1>a, <1>p, <2>1, <2>2, <2>3, <2>5, <3>1, ReportsAfterStage
  <2> QED BY <2>4, <2>5
<1>8. CASE CompleteKeyStage
  <2>1. /\ task.pc = "inside" /\ task'.pc = "between" /\ task'.phase = task.phase
        /\ task'.step = task.step
        /\ Stage \in KeyStages /\ FansOut(Stage) /\ CloseStage /\ UNCHANGED <<checkpoint, entry>>
        /\ context'.reports = Reporting(Stage, Merged)
    BY <1>p, <1>8 DEF CompleteKeyStage, Goes, TaskShape, Tasks, ContextShape, Begun
  <2>2. task.phase \in 3 .. 6 /\ Stage = Phases[task.phase][1] BY <1>p, <2>1, StageIsAt
  <2>3. ActiveKeys = executor.active /\ ActiveKeys' = executor.active
    BY <1>p, <2>1, ClosedIsBuilt DEF FansOut, ActiveKeys
  <2>4. Range(Merged) = executor.active
    <3>1. wave # NoWave /\ wave.pending = {} /\ executor # NoExecutor
      BY <1>p, <2>1, LiveIsSome DEF CloseStage, WaveInv
    <3>2. Merged = Keep(Series, Keys \ executor.failures) BY <3>1, MergedIsSelected
    <3>3. executor.active = Keys \ executor.failures BY <3>1 DEF OrderInv, Ordered
    <3> QED BY <3>2, <3>3, KeysAreFinite, KeepRange DEF Keys
  <2>5. ReportsOK(context'.reports, task.phase, task.phase + 1, executor.active)
    <3>1. ReportsOK(context.reports, task.phase, task.phase, executor.active)
      BY <1>p, <2>1, <2>3, ReportedSoFar
    <3>2. context'.reports = [s \in DOMAIN context.reports \cup {Phases[task.phase][1]} |->
                                IF s = Phases[task.phase][1] THEN Merged ELSE context.reports[s]]
      BY <2>1, <2>2, Zenon DEF Reporting
    <3> DEFINE new == context'.reports
    <3>3. new = [s \in DOMAIN context.reports \cup {Phases[task.phase][1]} |->
                   IF s = Phases[task.phase][1] THEN Merged ELSE context.reports[s]]
      BY <3>2
    <3>4. Range(Merged) \subseteq executor.active /\ executor.active \subseteq Range(Merged)
      BY <2>4
    <3> HIDE DEF new
    <3>5. ReportsOK(new, task.phase, task.phase + 1, executor.active)
      BY <2>2, <3>1, <3>3, <3>4, ReportsStored
    <3> QED BY <3>5 DEF new
  <2> QED BY <1>a, <1>p, <2>1, <2>3, <2>5, ReportsAfterStage
<1>9. CASE TrackRun
  <2>1. /\ task.pc = "inside" /\ task'.pc = "between" /\ task'.phase = task.phase
        /\ task'.step = task.step
        /\ Stage = "MLflow Tracking" /\ UNCHANGED <<checkpoint, entry>>
        /\ context'.reports = context.reports
    BY <1>p, <1>9 DEF TrackRun, Goes, TaskShape, Tasks, ContextShape, Begun
  <2>2. task.phase = 8 BY <1>p, <2>1, StageIsAt
  <2>3. ReportsOK(context.reports, 8, 8, ActiveKeys)
    BY <1>p, <2>1, <2>2, ReportedSoFar
  <2>4. ReportsOK(context'.reports, 8, 8, ActiveKeys')
    <3>1. 8 \in Nat /\ 8 > 6 OBVIOUS
    <3> QED BY <2>1, <2>3, <3>1, ReportsOfFewer, Zenon
  <2>5. 8 \notin 3 .. 6 OBVIOUS
  <2> QED BY <1>a, <1>p, <2>1, <2>2, <2>4, <2>5, ReportsAfterStage
<1>10. CASE FailStage
  <2>1. /\ task.pc = "inside" /\ task'.phase = task.phase /\ task'.why = "stage"
        /\ task'.pc \in {"saving", "leaving"} /\ (task'.pc = "leaving" => entry # "workflow")
        /\ UNCHANGED <<checkpoint, entry, executor>> /\ context'.reports = context.reports
    <3>1. context'.reports = context.reports
      BY <1>p, <1>10 DEF FailStage, FailTracking, ContextShape, Begun
    <3> QED BY <1>p, <1>10, <3>1 DEF FailStage, AbandonStage, keyVars, TaskShape, Tasks
  <2>2. Reached' = task.phase /\ ActiveKeys' = ActiveKeys BY <2>1 DEF Reached, ActiveKeys
  <2> QED BY <1>1, <1>p, <2>1, <2>2, ReportedSoFar DEF ReportInv
<1>11. CASE NextPhase
  <2>1. /\ entry # "workflow" /\ task.pc = "between" /\ UNCHANGED <<entry, executor, context>>
        /\ task.step = Len(Phases[task.phase]) /\ task.phase \in 1 .. 8
        /\ \/ task.phase < 8 /\ task'.phase = task.phase + 1 /\ task'.step = 0 /\ task'.pc = "between"
           \/ task'.pc = "leaving"
    BY <1>p, <1>1, <1>11 DEF NextPhase, keyVars, TaskShape, Tasks, PlaceInv
  <2>2. CASE task.phase < 8 /\ task'.phase = task.phase + 1 /\ task'.step = 0 /\ task'.pc = "between"
    <3>1. Reached = task.phase + 1 BY <2>1 DEF Reached
    <3>2. Len(Phases[task.phase + 1]) \in Nat /\ Len(Phases[task.phase + 1]) > 0
      <4>1. task.phase + 1 \in 1 .. 8 BY <2>1, <2>2
      <4> QED BY <1>1, <4>1, Zenon
    <3>3. Reached' = task.phase + 1 BY <2>2, <3>2 DEF Reached
    <3>4. ReportsOK(context.reports, task.phase, task.phase + 1, ActiveKeys)
      BY <2>1, <3>1 DEF ReportInv
    <3>5. ReportsOK(context.reports, task.phase + 1, task.phase + 1, ActiveKeys)
      BY <2>1, <2>2, <3>4, ReportsNext
    <3>6. ActiveKeys' = ActiveKeys BY <2>1 DEF ActiveKeys
    <3> QED BY <2>1, <2>2, <3>3, <3>5, <3>6 DEF ReportInv
  <2>3. CASE task'.pc = "leaving" BY <2>1, <2>3 DEF ReportInv
  <2> QED BY <2>1, <2>2, <2>3
<1>12. CASE EndPhase
  <2>1. /\ entry = "workflow" /\ task.pc = "between" /\ UNCHANGED <<checkpoint, entry, executor, context>>
        /\ task.step = Len(Phases[task.phase]) /\ task'.phase = task.phase /\ task'.pc = "saving"
        /\ task'.why = "none"
    BY <1>p, <1>12 DEF EndPhase, Goes, keyVars, TaskShape, Tasks, PlaceInv
  <2>2. Reached = task.phase + 1 /\ Reached' = task.phase + 1 /\ ActiveKeys' = ActiveKeys
    BY <2>1 DEF Reached, ActiveKeys
  <2> QED BY <1>1, <1>p, <2>1, <2>2, ReportedSoFar DEF ReportInv
<1>13. CASE SaveCheckpoint
  <2>1. /\ task.pc = "saving" /\ task'.pc = "leaving" /\ task'.phase = task.phase
        /\ UNCHANGED <<entry, executor, context>> /\ entry = "workflow"
        /\ \/ /\ checkpoint' = [context |-> context, snapshot |-> executor]
              /\ task'.why = task.why
           \/ UNCHANGED checkpoint /\ task'.why # "none"
    BY <1>p, <1>13 DEF SaveCheckpoint, keyVars, TaskShape, Tasks, PlaceInv
  <2>2. CASE checkpoint' = [context |-> context, snapshot |-> executor] /\ task'.why = task.why
    <3>1. Reached' = Reached BY <2>1, <2>2 DEF Reached
    <3>2. ReportsOK(context.reports, task.phase, Reached, executor.active)
      BY <2>1 DEF ReportInv, ActiveKeys
    <3>3. checkpoint'.context = context /\ checkpoint'.snapshot = executor BY <2>2
    <3> QED BY <2>1, <3>1, <3>2, <3>3 DEF ReportInv
  <2>3. CASE UNCHANGED checkpoint /\ task'.why # "none"
    <3>1. Reached' = task.phase BY <2>1, <2>3 DEF Reached
    <3> QED BY <1>1, <1>p, <2>1, <2>3, <3>1, ReportedSoFar DEF ReportInv
  <2> QED BY <2>1, <2>2, <2>3
<1>14. CASE Leave
  <2>1. task.pc = "leaving" /\ UNCHANGED <<checkpoint, entry>> /\ task.phase \in 1 .. 8
    BY <1>p, <1>1, <1>14 DEF Leave, ProcessEnds, PlaceInv
  <2>2. CASE task' = [task EXCEPT !.pc = "failed"] /\ task.why # "none"
    <3>1. task'.phase = task.phase /\ task'.pc = "failed" BY <1>p, <2>2 DEF TaskShape, Tasks
    <3>2. Reached = task.phase BY <2>1, <2>2 DEF Reached
    <3> QED BY <2>1, <3>1, <3>2 DEF ReportInv
  <2>3. CASE /\ task.why = "none"
             /\ task' = [task EXCEPT !.phase = @ + 1, !.pc = "waiting", !.step = 0]
    <3>1. task'.phase = task.phase + 1 /\ task'.pc = "waiting" BY <1>p, <2>3 DEF TaskShape, Tasks
    <3>2. Reached = task.phase + 1 BY <2>1, <2>3 DEF Reached
    <3>3. entry = "workflow" => ReportsOK(checkpoint.context.reports, task.phase, task.phase + 1,
                                          checkpoint.snapshot.active)
      BY <2>1, <2>3, <3>2 DEF ReportInv
    <3>4. entry = "workflow" /\ task.phase < 8 =>
            ReportsOK(checkpoint.context.reports, task.phase + 1, task.phase + 1,
                      checkpoint.snapshot.active)
      BY <2>1, <3>3, ReportsNext
    <3> QED BY <1>1, <2>1, <3>1, <3>4, SMTT(30) DEF ReportInv
  <2> QED BY <1>14, <2>2, <2>3 DEF Leave
<1>15. CASE Crash
  <2>1. /\ UNCHANGED <<checkpoint, entry>> /\ task'.phase = task.phase /\ task'.pc = "failed"
        /\ task.phase \in 1 .. 8
    BY <1>p, <1>1, <1>15 DEF Crash, ProcessEnds, TaskShape, Tasks, PlaceInv
  <2>2. entry = "workflow" /\ task.phase \in 2 .. 8 =>
          ReportsOK(checkpoint.context.reports, task.phase, task.phase, checkpoint.snapshot.active)
    <3>1. CASE task.pc # "leaving" BY <1>p, <3>1, ReportedSoFar
    <3>2. CASE task.pc = "leaving"
      <4>1. Reached \in {task.phase, task.phase + 1} BY DEF Reached
      <4>2. entry = "workflow" /\ task.phase \in 2 .. 8 =>
              ReportsOK(checkpoint.context.reports, task.phase, Reached, checkpoint.snapshot.active)
        BY <1>1, <3>2 DEF ReportInv
      <4> QED BY <2>1, <4>1, <4>2, ReportsBack
    <3> QED BY <3>1, <3>2
  <2> QED BY <1>1, <2>1, <2>2 DEF ReportInv
<1> QED
  BY <1>2, <1>3, <1>4, <1>5, <1>6, <1>7, <1>8, <1>9, <1>10, <1>11, <1>12, <1>13, <1>14, <1>15
  DEF Step

LEMMA ReportsInductive == Spec => []ReportInv
<1>1. Init => ReportInv
  BY PhasesAre DEF Init, ReportInv
<1>2. KeyInv /\ ShapeInv /\ OrderInv /\ ReportInv /\ [Next]_vars => ReportInv'
  <2>1. ASSUME KeyInv, ShapeInv, OrderInv, ReportInv, Next PROVE ReportInv'
    BY <2>1, ReportStep DEF Next
  <2>2. ASSUME ReportInv, UNCHANGED vars PROVE ReportInv'
    BY <2>2 DEF ReportInv, Reached, ActiveKeys, vars, plan
  <2> QED BY <2>1, <2>2
<1> QED BY KeysInductive, ShapeInductive, SelectionsInductive, <1>1, <1>2, PTL DEF Spec

LEMMA RecordsAre ==
  ASSUME NEW trail \in Seq(StageRecord)
  PROVE  /\ DOMAIN trail = 1 .. Len(trail) /\ Len(trail) \in Nat
         /\ \A i \in 1 .. Len(trail) : /\ trail[i] \in StageRecord
                                       /\ trail[i].tasks.total \in Nat /\ trail[i].tasks.failed \in Nat
<1>1. DOMAIN trail = 1 .. Len(trail) /\ Len(trail) \in Nat OBVIOUS
<1>2. \A i \in 1 .. Len(trail) : trail[i] \in StageRecord OBVIOUS
<1>3. \A r \in StageRecord : r.tasks.total \in Nat /\ r.tasks.failed \in Nat BY DEF StageRecord
<1> QED BY <1>1, <1>2, <1>3

\* What is not counted does not count.
LEMMA SameCounts ==
  ASSUME NEW old, NEW new, Counted(new) = Counted(old),
         \A i \in Counted(old) : new[i].stage = old[i].stage /\ new[i].tasks = old[i].tasks
  PROVE  /\ Chained(old) => Chained(new)
         /\ \A n : Tallied(old, n) => Tallied(new, n)
<1>1. \A i \in Counted(old) : Balance(new[i]) = Balance(old[i]) BY DEF Balance
<1>2. Chained(old) => Chained(new) BY <1>1 DEF Chained
<1>3. \A n : Tallied(old, n) => Tallied(new, n) BY <1>1 DEF Tallied
<1> QED BY <1>2, <1>3

LEMMA NothingCounted ==
  /\ Counted(<<>>) = {} /\ Chained(<<>>) /\ Bounded(<<>>)
  /\ \A trail : Counted(trail) = {} => \A n : Tallied(trail, n)
<1>1. DOMAIN <<>> = {} OBVIOUS
<1>2. Counted(<<>>) = {} BY <1>1 DEF Counted
<1> QED BY <1>1, <1>2 DEF Chained, Bounded, Tallied

LEMMA RecordAppended ==
  ASSUME NEW trail \in Seq(StageRecord), NEW rec, rec.tasks = NoTelemetry
  PROVE  /\ Chained(trail) => Chained(Append(trail, rec))
         /\ Bounded(trail) => Bounded(Append(trail, rec))
         /\ \A n : Tallied(trail, n) => Tallied(Append(trail, rec), n)
         /\ LastRecord(Append(trail, rec)) = rec
<1> DEFINE new == Append(trail, rec)
<1>1. /\ DOMAIN trail = 1 .. Len(trail) /\ Len(trail) \in Nat
      /\ DOMAIN new = 1 .. Len(trail) + 1 /\ Len(new) = Len(trail) + 1
      /\ new[Len(trail) + 1] = rec /\ \A i \in 1 .. Len(trail) : new[i] = trail[i]
  OBVIOUS
<1> HIDE DEF new
<1>2. rec.tasks.total = 0 BY DEF NoTelemetry
<1>3. Counted(new) = Counted(trail)
  <2>1. \A i \in DOMAIN new : i \in DOMAIN trail \/ i = Len(trail) + 1 BY <1>1
  <2>2. Len(trail) + 1 \notin Counted(new) BY <1>1, <1>2 DEF Counted
  <2>3. DOMAIN trail \subseteq DOMAIN new BY <1>1
  <2>4. \A i \in DOMAIN trail : new[i] = trail[i] BY <1>1
  <2> QED BY <2>1, <2>2, <2>3, <2>4 DEF Counted
<1>4. \A i \in Counted(trail) : new[i] = trail[i] BY <1>1 DEF Counted
<1>5. Bounded(trail) => Bounded(new)
  <2>1. Cardinality(Keys) \in Nat BY KeysAreFinite
  <2>2. \A i \in DOMAIN new : i \in 1 .. Len(trail) \/ i = Len(trail) + 1 BY <1>1
  <2> QED BY <1>1, <1>2, <2>1, <2>2 DEF Bounded
<1>6. LastRecord(new) = rec BY <1>1 DEF LastRecord
<1>7. /\ Chained(trail) => Chained(new)
      /\ \A n : Tallied(trail, n) => Tallied(new, n)
  BY <1>3, <1>4, SameCounts
<1> QED BY <1>5, <1>6, <1>7 DEF new

\* The last record's status is not counted.
WithStatus(trail, status) ==
  [trail EXCEPT ![Len(trail)] = [trail[Len(trail)] EXCEPT !.status = status]]

LEMMA RecordClosed ==
  ASSUME NEW trail \in Seq(StageRecord), trail # <<>>, NEW status,
         NEW new, new = WithStatus(trail, status)
  PROVE  /\ Chained(trail) => Chained(new)
         /\ Bounded(trail) => Bounded(new)
         /\ \A n : Tallied(trail, n) => Tallied(new, n)
         /\ LastRecord(new).stage = LastRecord(trail).stage
         /\ LastRecord(new).tasks = LastRecord(trail).tasks
<1>1. Len(trail) \in Nat /\ Len(trail) > 0 /\ Len(new) = Len(trail) BY DEF WithStatus
<1>2. trail[Len(trail)] \in StageRecord BY <1>1
<1> DEFINE rec == [trail[Len(trail)] EXCEPT !.status = status]
<1>3. rec.stage = trail[Len(trail)].stage /\ rec.tasks = trail[Len(trail)].tasks
  BY <1>2 DEF StageRecord
<1> HIDE DEF rec
<1>4. new = [trail EXCEPT ![Len(trail)] = rec] BY DEF rec, WithStatus
<1>5. /\ DOMAIN new = DOMAIN trail
      /\ \A i \in DOMAIN trail : new[i].stage = trail[i].stage /\ new[i].tasks = trail[i].tasks
  BY <1>3, <1>4
<1>6. Counted(new) = Counted(trail) BY <1>5 DEF Counted
<1>7. \A i \in Counted(trail) : i \in DOMAIN trail BY DEF Counted
<1>8. Len(trail) \in DOMAIN trail BY <1>1
<1> QED BY <1>1, <1>5, <1>6, <1>7, <1>8, SameCounts DEF Bounded, LastRecord

\* The last record's counts, as the tasks of its stage end; they are t, of a stage that
\* was counted with as many tasks or, the first time, may be.
WithCounts(trail, t) == [trail EXCEPT ![Len(trail)] = [trail[Len(trail)] EXCEPT !.tasks = t]]

CountsFollow(trail, t) ==
  LET last == LastRecord(trail)
  IN  /\ last.tasks.total \in {0, t.total}
      /\ t.total <= Cardinality(Keys)
      /\ last.stage \in KeyStages /\ last.tasks.total = 0 /\ t.total > 0 =>
           IF last.stage = "Train Models" THEN t.total = Cardinality(Keys)
           ELSE Tallied(trail, t.total)

LEMMA RecordCounted ==
  ASSUME NEW trail \in Seq(StageRecord), trail # <<>>,
         NEW t \in [total: Nat, completed: Nat, failed: Nat],
         NEW new, new = WithCounts(trail, t),
         CountsFollow(trail, t), Chained(trail), Bounded(trail)
  PROVE  /\ Chained(new) /\ Bounded(new)
         /\ LastRecord(new).stage = LastRecord(trail).stage /\ LastRecord(new).tasks = t
         /\ LastRecord(trail).stage \in KeyStages /\ t.total > 0 => Tallied(new, t.total - t.failed)
         /\ t.total = 0 => \A n : Tallied(trail, n) => Tallied(new, n)
<1>0. PICK n \in Nat : n = Len(trail) OBVIOUS
<1>1. n > 0 /\ n \in DOMAIN trail /\ DOMAIN trail = 1 .. n
  <2>1. Len(trail) > 0 /\ Len(trail) \in DOMAIN trail /\ DOMAIN trail = 1 .. Len(trail) OBVIOUS
  <2> QED BY <1>0, <2>1
<1>2. trail[n] \in StageRecord BY <1>0, <1>1, RecordsAre
<1> DEFINE rec == [trail[n] EXCEPT !.tasks = t]
<1>3. rec.stage = trail[n].stage /\ rec.tasks = t BY <1>2 DEF StageRecord
<1> HIDE DEF rec
<1>4. new = [trail EXCEPT ![n] = rec] BY <1>0 DEF rec, WithCounts
<1>5. /\ DOMAIN new = DOMAIN trail /\ new[n].stage = trail[n].stage /\ new[n].tasks = t
      /\ \A i \in DOMAIN trail : i # n => new[i] = trail[i]
  BY <1>1, <1>3, <1>4
<1>6. LastRecord(trail) = trail[n] /\ LastRecord(new) = new[n]
  <2>1. Len(new) = Len(trail) BY <1>0, <1>4
  <2> QED BY <1>0, <2>1 DEF LastRecord
<1>7. t.total \in Nat /\ t.failed \in Nat /\ trail[n].tasks.total \in {0, t.total}
  BY <1>6 DEF CountsFollow
<1>8. Bounded(new)
  <2>1. \A i \in DOMAIN trail : i # n => new[i].tasks.total <= Cardinality(Keys)
    BY <1>5 DEF Bounded
  <2>2. new[n].tasks.total <= Cardinality(Keys) BY <1>5 DEF CountsFollow
  <2> QED BY <1>5, <2>1, <2>2 DEF Bounded
<1>9. CASE ~(trail[n].stage \in KeyStages /\ t.total > 0)
  <2>1. n \notin Counted(trail) /\ n \notin Counted(new)
    <3>1. ~(trail[n].stage \in KeyStages /\ trail[n].tasks.total > 0) BY <1>7, <1>9
    <3>2. ~(new[n].stage \in KeyStages /\ new[n].tasks.total > 0) BY <1>5, <1>9
    <3> QED BY <3>1, <3>2 DEF Counted
  <2>2. Counted(new) = Counted(trail) BY <1>5, <2>1 DEF Counted
  <2>3. \A i \in Counted(trail) : new[i] = trail[i] BY <1>5, <2>1 DEF Counted
  <2>4. Chained(new) /\ \A m : Tallied(trail, m) => Tallied(new, m) BY <2>2, <2>3, SameCounts
  <2> QED BY <1>5, <1>6, <1>8, <1>9, <2>4
<1>10. CASE trail[n].stage \in KeyStages /\ t.total > 0
  <2>1. n \in Counted(new) /\ Counted(new) = Counted(trail) \cup {n}
    BY <1>1, <1>5, <1>10 DEF Counted
  <2>2. \A i \in Counted(new) : i \in 1 .. n BY <1>1, <1>5 DEF Counted
  <2>3. \A i \in Counted(new) : i # n => i \in Counted(trail) /\ new[i] = trail[i]
    BY <1>5, <2>1 DEF Counted
  <2>4. Tallied(new, t.total - t.failed)
    <3>1. ASSUME NEW i \in Counted(new), \A j \in Counted(new) : j <= i PROVE i = n
      <4>1. n <= i /\ i \in 1 .. n BY <2>1, <2>2, <3>1
      <4> QED BY <4>1
    <3>2. Balance(new[n]) = t.total - t.failed BY <1>5 DEF Balance
    <3> QED BY <3>1, <3>2 DEF Tallied
  <2>5. Chained(new)
    <3> SUFFICES ASSUME NEW i \in Counted(new), NEW j \in Counted(new), i < j,
                        \A m \in Counted(new) : m <= i \/ j <= m
                 PROVE  new[j].tasks.total = IF new[j].stage = "Train Models" THEN Cardinality(Keys)
                                             ELSE Balance(new[i])
      BY DEF Chained
    <3>0. i \in 1 .. n /\ j \in 1 .. n BY <2>2
    <3>1. i # n /\ i \in Counted(trail) /\ new[i] = trail[i]
      <4>1. i # n BY <3>0
      <4> QED BY <2>3, <4>1
    <3>2. \A m \in Counted(trail) : m <= i \/ j <= m BY <2>1
    <3>3. CASE j \in Counted(trail)
      <4>1. trail[j].tasks.total = IF trail[j].stage = "Train Models" THEN Cardinality(Keys)
                                   ELSE Balance(trail[i])
        BY <3>1, <3>2, <3>3 DEF Chained
      <4>2. new[j].tasks.total = trail[j].tasks.total /\ new[j].stage = trail[j].stage
        <5>1. CASE j # n BY <2>3, <5>1
        <5>2. CASE j = n
          <6>1. trail[n].tasks.total > 0 BY <3>3, <5>2 DEF Counted
          <6>2. trail[n].tasks.total = t.total
            <7>1. trail[n].tasks.total = 0 \/ trail[n].tasks.total = t.total BY <1>7
            <7> QED BY <6>1, <7>1
          <6> QED BY <1>5, <5>2, <6>2
        <5> QED BY <5>1, <5>2
      <4> QED BY <3>1, <4>1, <4>2
    <3>4. CASE j \notin Counted(trail)
      <4>1. j = n BY <2>1, <3>4
      <4>2. trail[n].tasks.total = 0
        <5>1. ~(trail[n].tasks.total > 0) BY <1>1, <1>10, <3>4, <4>1 DEF Counted
        <5> QED BY <1>7, <1>10, <5>1
      <4>3. CASE trail[n].stage = "Train Models"
        BY <1>5, <1>6, <1>10, <4>1, <4>2, <4>3 DEF CountsFollow
      <4>4. CASE trail[n].stage # "Train Models"
        <5>1. Tallied(trail, t.total)
          <6>1. /\ LastRecord(trail).stage \in KeyStages /\ LastRecord(trail).tasks.total = 0
                /\ LastRecord(trail).stage # "Train Models"
            BY <1>6, <1>10, <4>2, <4>4
          <6> QED BY <1>10, <6>1 DEF CountsFollow
        <5>2. \A m \in Counted(trail) : m <= i
          <6>1. ASSUME NEW m \in Counted(trail) PROVE m <= i
            <7>1. m \in 1 .. n /\ m # n BY <2>1, <2>2, <3>4, <4>1
            <7>2. ~(n <= m) BY <7>1
            <7> QED BY <3>2, <4>1, <7>2
          <6> QED BY <6>1
        <5>3. Balance(trail[i]) = t.total BY <3>1, <5>1, <5>2 DEF Tallied
        <5> QED BY <1>5, <3>1, <4>1, <4>4, <5>3
      <4> QED BY <4>3, <4>4
    <3> QED BY <3>3, <3>4
  <2>6. t.total # 0 BY <1>7, <1>10
  <2> QED BY <1>5, <1>6, <1>8, <2>4, <2>5, <2>6
<1> QED BY <1>9, <1>10

\* With no key there is nothing to count.
LEMMA NoKeysNoCounts ==
  ASSUME NEW trail \in Seq(StageRecord), Bounded(trail), Cardinality(Keys) = 0
  PROVE  \A n : Tallied(trail, n)
<1>1. \A i \in DOMAIN trail : ~(trail[i].tasks.total > 0)
  <2>1. \A i \in DOMAIN trail : trail[i].tasks.total \in Nat /\ trail[i].tasks.total <= 0
    BY RecordsAre DEF Bounded
  <2> QED BY <2>1
<1>2. Counted(trail) = {} BY <1>1 DEF Counted
<1> QED BY <1>2, NothingCounted
--------------------------------------------------------------------------------
(* Every step keeps the accounts. *)

LEMMA NothingFansOutEarly ==
  ASSUME PlaceInv, task.phase < 3, BeginStage
  PROVE  UNCHANGED keyVars
<1>1. task.phase \in {1, 2, 7} /\ task.step + 1 \in 1 .. Len(Phases[task.phase])
  <2>1. task.phase \in {1, 2} /\ Len(Phases[task.phase]) \in Nat BY PhasesAre, SMTT(30) DEF PlaceInv
  <2>2. task.step \in Nat /\ task.step < Len(Phases[task.phase]) BY DEF BeginStage, PlaceInv
  <2> QED BY <2>1, <2>2
<1>2. Phases[task.phase][task.step + 1] \notin KeyStages \cup {"MLflow Tracking"}
  BY <1>1, OtherPhasesAre, Zenon
<1>3. ~FansOut(Phases[task.phase][task.step + 1]) BY <1>2 DEF FansOut
<1> QED BY <1>3 DEF BeginStage

LEMMA FirstStep ==
  ASSUME KeyInv, TaskShape, FirstInv, Step, UNCHANGED plan
  PROVE  FirstInv'
<1> USE DEF plan
<1>p. PlaceInv /\ WaveInv BY DEF KeyInv, OutputInv
<1>1. LastPhase = 8 /\ \A p \in 1 .. 8 : Len(Phases[p]) \in Nat BY PhasesAre
<1>2. CASE StartFirstTask \/ LoadFails \/ Retry
  <2>1. UNCHANGED executor /\ task.pc \in {"waiting", "failed"}
    BY <1>2 DEF StartFirstTask, LoadFails, Retry, keyVars
  <2> QED BY <2>1 DEF FirstInv
<1>3. CASE StartTask
  <2>1. task'.phase = task.phase /\ task'.pc = "between" BY <1>3 DEF StartTask, TaskShape, Tasks
  <2>2. task.phase \in {2, 3} => executor' = NoExecutor BY <1>3 DEF StartTask, ResumingKeys
  <2>3. task.phase < 3 \/ task.phase = 3 => task.phase \in {2, 3}
    BY <1>1, <1>3 DEF StartTask
  <2> QED BY <2>1, <2>2, <2>3 DEF FirstInv
<1>4. CASE BeginStage
  <2>1. task.pc = "between" /\ task'.pc = "inside" /\ task'.phase = task.phase
    BY <1>4 DEF BeginStage, TaskShape, Tasks
  <2>2. task.phase < 3 => UNCHANGED executor BY <1>p, <1>4, NothingFansOutEarly DEF keyVars
  <2> QED BY <2>1, <2>2 DEF FirstInv
<1>5. CASE KeyTask
  <2>1. UNCHANGED task /\ task.pc = "inside" BY <1>5 DEF KeyTask
  <2>2. wave # NoWave BY <1>5, NoWaveFacts DEF KeyTask, CollectKey, DropKey, Ends
  <2>3. executor # NoExecutor BY <1>p, <2>2, LiveIsSome DEF WaveInv
  <2> QED BY <2>1, <2>3 DEF FirstInv
<1>6. CASE CompleteStage \/ CompleteKeyStage \/ TrackRun
  <2>1. /\ task.pc = "inside" /\ task'.pc = "between" /\ task'.phase = task.phase
        /\ task'.step = task.step /\ task.step # 0
    <3>1. task.pc = "inside" /\ task' = [task EXCEPT !.pc = "between"]
      BY <1>6 DEF CompleteStage, CompleteKeyStage, TrackRun, Goes
    <3>2. task.step # 0 BY <1>p, <3>1 DEF PlaceInv
    <3> QED BY <3>1, <3>2 DEF TaskShape, Tasks
  <2>2. task.phase < 3 => UNCHANGED executor
    <3>1. CASE UNCHANGED executor BY <3>1
    <3>2. CASE wave # NoWave
      <4>1. executor # NoExecutor BY <1>p, <3>2, LiveIsSome DEF WaveInv
      <4> QED BY <2>1, <4>1 DEF FirstInv
    <3> QED BY <1>6, <3>1, <3>2 DEF CompleteStage, CompleteKeyStage, TrackRun, CloseStage, keyVars
  <2> QED BY <2>1, <2>2 DEF FirstInv
<1>7. CASE FailStage \/ EndPhase \/ SaveCheckpoint
  <2>1. task'.pc \in {"saving", "leaving"}
    BY <1>7 DEF FailStage, EndPhase, SaveCheckpoint, Goes, TaskShape, Tasks
  <2> QED BY <2>1 DEF FirstInv
<1>8. CASE NextPhase
  <2>1. /\ task.pc = "between" /\ UNCHANGED executor /\ task.phase \in 1 .. 8
        /\ \/ task'.phase = task.phase + 1 /\ task'.pc = "between"
           \/ task'.pc = "leaving"
    BY <1>p, <1>1, <1>8 DEF NextPhase, keyVars, TaskShape, Tasks, PlaceInv
  <2> QED BY <2>1 DEF FirstInv
<1>9. CASE Leave \/ Crash
  <2>1. executor' = NoExecutor BY <1>9 DEF Leave, Crash, ProcessEnds
  <2> QED BY <2>1 DEF FirstInv
<1> QED BY <1>2, <1>3, <1>4, <1>5, <1>6, <1>7, <1>8, <1>9 DEF Step

\* A wave's counts follow on the trail the stage found.
LEMMA WaveFollows ==
  ASSUME KeyInv, ContextShape, KeyShape, CountInv, wave # NoWave,
         NEW trail, LastRecord(trail).stage = LastRecord(context.trail).stage,
         LastRecord(trail).tasks = LastRecord(context.trail).tasks,
         \A n : Tallied(context.trail, n) => Tallied(trail, n),
         NEW t, t.total = wave.total
  PROVE  CountsFollow(trail, t)
<1>p. PlaceInv /\ WaveInv BY DEF KeyInv, OutputInv
<1>1. task.pc = "inside" /\ FansOut(Stage) /\ LastRecord(trail).stage = Stage
  BY <1>p DEF WaveInv, CountInv, WaveCounted
<1>2. LastRecord(trail).tasks.total \in {0, t.total} /\ t.total <= Cardinality(Keys)
  BY DEF CountInv, WaveCounted
<1>3. ASSUME Stage \in KeyStages, LastRecord(trail).tasks.total = 0
      PROVE  IF Stage = "Train Models" THEN t.total = Cardinality(Keys) ELSE Tallied(trail, t.total)
  <2>1. wave.stage = Stage BY <1>p, <1>3 DEF WaveInv
  <2>2. CASE Stage = "Train Models" BY <2>1, <2>2 DEF CountInv, WaveCounted
  <2>3. CASE Stage # "Train Models"
    <3>1. task.phase \in 3 .. 6 /\ Stage = Phases[task.phase][1] BY <1>p, <1>1, <1>3, StageIsAt
    <3>2. task.phase # 3 BY <2>3, <3>1, KeyPhasesAre
    <3>3. Reached = task.phase BY <1>1 DEF Reached
    <3>4. entry # "run" BY <1>1 DEF FansOut
    <3>5. Tallied(context.trail, Cardinality(executor.active))
      BY <1>1, <3>1, <3>2, <3>3, <3>4 DEF CountInv, ContextCounted
    <3>6. Cardinality(executor.active) = wave.total BY <1>3 DEF CountInv, WaveCounted
    <3> QED BY <2>3, <3>5, <3>6
  <2> QED BY <2>2, <2>3
<1> QED BY <1>1, <1>2, <1>3 DEF CountsFollow

LEMMA CheckpointStillCounted ==
  ASSUME CheckpointCounted, UNCHANGED <<checkpoint, entry>>, task'.phase = task.phase,
         entry = "workflow" => task'.pc # "leaving" \/ task'.why # "none"
  PROVE  CheckpointCounted'
  BY DEF CheckpointCounted

LEMMA StartCounts ==
  ASSUME KeyInv, ShapeInv, FirstInv, CountInv, UNCHANGED plan,
         StartFirstTask \/ StartTask \/ LoadFails \/ Retry
  PROVE  CountInv'
<1> USE DEF plan
<1>p. PlaceInv /\ WaveInv /\ SnapshotInv /\ KeyShape /\ TaskShape
  BY DEF KeyInv, OutputInv, ShapeInv
<1>1. LastPhase = 8 /\ \A p \in 1 .. 8 : Len(Phases[p]) \in Nat /\ Len(Phases[p]) > 0
  BY PhasesAre, PhasesAreNotEmpty
<1>2. task.pc \in {"waiting", "failed"} /\ UNCHANGED <<checkpoint, entry, wave>>
  BY DEF StartFirstTask, StartTask, LoadFails, Retry, keyVars
<1>3. wave' = NoWave BY <1>p, <1>2, NoWaveOutside
<1>4. /\ task'.phase = task.phase /\ task'.pc \in {"waiting", "failed", "between"}
  BY <1>p DEF StartFirstTask, StartTask, LoadFails, Retry, TaskShape, Tasks
<1>5. WaveCounted' BY <1>3, <1>4 DEF WaveCounted
<1>6. CheckpointCounted' BY <1>2, <1>4, CheckpointStillCounted DEF CountInv
<1>7. ContextCounted'
  <2>1. CASE StartFirstTask
    <3>1. \E row : context' = NewContext(row) BY <2>1 DEF StartFirstTask
    <3>2. context'.trail = <<>> BY <3>1 DEF NewContext
    <3>3. Tallied(<<>>, Cardinality(executor'.active)) BY NothingCounted
    <3> QED BY <3>2, <3>3, NothingCounted DEF ContextCounted
  <2>2. CASE StartTask
    <3>1. /\ context' = checkpoint.context /\ task.phase \in 2 .. 8 /\ entry = "workflow"
          /\ task'.pc = "between" /\ task'.step = 0
      BY <1>p, <1>1, <2>2 DEF StartTask, TaskShape, Tasks, PlaceInv, EntryKinds
    <3>2. Len(Phases[task.phase]) \in Nat /\ Len(Phases[task.phase]) > 0
      <4>1. task.phase \in 1 .. 8 BY <3>1
      <4> QED BY <1>1, <4>1, Zenon
    <3>3. Reached' = task.phase BY <1>4, <3>1, <3>2 DEF Reached
    <3>4. task.phase \in 4 .. 6 => executor'.active = checkpoint.snapshot.active
      BY <1>p, <2>2, ResumedKeys
    <3> QED BY <1>4, <3>1, <3>3, <3>4 DEF CountInv, ContextCounted, CheckpointCounted
  <2>3. CASE LoadFails \/ Retry
    <3>1. UNCHANGED context /\ task'.pc \in {"waiting", "failed"}
      BY <1>p, <2>3 DEF LoadFails, Retry, TaskShape, Tasks
    <3> QED BY <3>1 DEF CountInv, ContextCounted
  <2> QED BY <2>1, <2>2, <2>3
<1> QED BY <1>5, <1>6, <1>7 DEF CountInv

LEMMA BeginCounts ==
  ASSUME KeyInv, ShapeInv, FirstInv, CountInv, UNCHANGED plan, BeginStage
  PROVE  CountInv'
<1> USE DEF plan
<1>p. PlaceInv /\ WaveInv /\ ExecutorInv /\ KeyShape /\ TaskShape /\ ContextShape
  BY DEF KeyInv, OutputInv, ShapeInv
<1> DEFINE s == Phases[task.phase][task.step + 1]
           fanned == IF s \in KeyStages THEN s ELSE Publishing
           rec == [stage |-> s, status |-> "Running", tasks |-> NoTelemetry]
<1>1. /\ task.pc = "between" /\ task'.pc = "inside" /\ task'.phase = task.phase
      /\ task'.step = task.step + 1 /\ UNCHANGED <<checkpoint, entry>>
      /\ task.step # Len(Phases[task.phase]) /\ task.step + 1 \in 1 .. Len(Phases[task.phase])
      /\ task.phase \in 1 .. 8
  <2>1. /\ task.pc = "between" /\ task' = [task EXCEPT !.pc = "inside", !.step = @ + 1]
        /\ task.step < Len(Phases[task.phase]) /\ UNCHANGED <<checkpoint, entry>>
    BY DEF BeginStage
  <2>2. task.phase \in 1 .. 8 /\ task.step \in Nat BY <1>p, <2>1, PhasesAre DEF PlaceInv
  <2>3. Len(Phases[task.phase]) \in Nat BY <2>2, PhasesAre
  <2>4. task.step # Len(Phases[task.phase]) /\ task.step + 1 \in 1 .. Len(Phases[task.phase])
    BY <2>1, <2>2, <2>3
  <2> QED BY <1>p, <2>1, <2>2, <2>4 DEF TaskShape, Tasks
<1>2. context.trail \in Seq(StageRecord) /\ context'.trail = Append(context.trail, rec)
  BY <1>p, <1>1 DEF BeginStage, ContextShape, Begun
<1>3. rec.tasks = NoTelemetry /\ rec.stage = Stage' BY <1>1 DEF Stage
<1> HIDE DEF rec
<1>4. /\ Chained(context'.trail) /\ Bounded(context'.trail)
      /\ \A n : Tallied(context.trail, n) => Tallied(context'.trail, n)
      /\ LastRecord(context'.trail) = rec
  BY <1>2, <1>3, RecordAppended DEF CountInv, ContextCounted
<1>5. Reached = task.phase /\ Reached' = task.phase BY <1>1 DEF Reached
<1>6. ContextCounted'
  <2>1. ASSUME task.phase \in 4 .. 6, entry # "run"
        PROVE  Tallied(context'.trail, Cardinality(executor'.active))
    <3>1. executor # NoExecutor BY <1>p, <1>1, <2>1 DEF ExecutorInv
    <3>2. UNCHANGED executor BY <3>1 DEF BeginStage, SubmitKeys, keyVars
    <3> QED BY <1>1, <1>4, <1>5, <2>1, <3>2 DEF CountInv, ContextCounted
  <2> QED BY <1>1, <1>4, <1>5, <2>1 DEF ContextCounted
<1>7. CheckpointCounted' BY <1>1, CheckpointStillCounted DEF CountInv
<1>8. WaveCounted'
  <2>1. CASE UNCHANGED keyVars
    <3>1. wave' = NoWave BY <1>p, <1>1, <2>1, NoWaveOutside DEF keyVars
    <3> QED BY <1>3, <1>4, <3>1 DEF WaveCounted
  <2>2. CASE SubmitKeys(fanned)
    <3>1. fanned \in KeyStages \cup {Publishing} /\ (fanned = "Train Models" => s = "Train Models")
      BY DEF Publishing
    <3> HIDE DEF fanned
    <3>2. Built(executor') /\ wave'.stage = fanned /\ wave'.total = Cardinality(executor'.active)
      BY <1>p, <2>2, <3>1, SubmittedIs DEF SubmitKeys
    <3>3. wave'.total <= Cardinality(Keys) BY <3>2, KeysAreFinite DEF Built
    <3>4. LastRecord(context'.trail).tasks.total = 0 BY <1>3, <1>4 DEF NoTelemetry
    <3>5. ASSUME s = "Train Models" PROVE wave'.total = Cardinality(Keys)
      <4>1. s \in KeyStages BY <3>5 DEF KeyStages
      <4>2. task.phase \in 3 .. 6 /\ task.step + 1 = 1 BY <1>1, <4>1, KeyPhases, Zenon
      <4>3. s = Phases[task.phase][1] /\ task.step = 0 BY <1>p, <4>2 DEF PlaceInv
      <4>4. task.phase = 3
        <5>1. Phases[3][1] = "Train Models" BY KeyPhasesAre
        <5>2. Phases[task.phase][1] = Phases[3][1] BY <3>5, <4>3, <5>1, Zenon
        <5>3. 3 \in 3 .. 6 OBVIOUS
        <5> QED BY <4>2, <5>2, <5>3, KeyPhasesDiffer, Zenon
      <4>5. executor = NoExecutor BY <1>1, <4>3, <4>4 DEF FirstInv
      <4>6. executor'.active = Keys BY <2>2, <4>5 DEF SubmitKeys, FreshExecutor
      <4> QED BY <3>2, <4>6
    <3> HIDE DEF s
    <3> QED BY <1>3, <1>4, <3>1, <3>2, <3>3, <3>4, <3>5 DEF WaveCounted
  <2> QED BY <2>1, <2>2 DEF BeginStage
<1> QED BY <1>6, <1>7, <1>8 DEF CountInv

LEMMA TaskCounts ==
  ASSUME KeyInv, ShapeInv, CountInv, UNCHANGED plan, KeyTask
  PROVE  CountInv'
<1> USE DEF plan
<1>p. PlaceInv /\ WaveInv /\ KeyShape /\ TaskShape /\ ContextShape
  BY DEF KeyInv, OutputInv, ShapeInv
<1>1. UNCHANGED <<task, checkpoint, entry>> /\ task.pc = "inside" BY DEF KeyTask
<1>2. PICK k \in Keys : CollectKey(k) \/ DropKey(k) BY DEF KeyTask
<1>3. /\ wave # NoWave /\ Built(executor') /\ FanOutOK(wave', executor')
      /\ wave'.total = wave.total /\ wave'.stage = wave.stage /\ k \in wave.pending
  BY <1>p, <1>2, TaskEnds
<1> DEFINE t == Telemetry(wave')
<1>4. /\ t \in [total: Nat, completed: Nat, failed: Nat] /\ t.total = wave.total
      /\ t.total - t.failed = Cardinality(executor'.active)
  BY <1>3, TelemetryIs
<1>5. context.trail \in Seq(StageRecord) /\ context.trail # <<>>
      /\ context'.trail = WithCounts(context.trail, t)
  BY <1>p, <1>1 DEF KeyTask, ContextShape, Begun, WithCounts
<1> HIDE DEF t
<1>6. t.total > 0
  <2>1. k \in executor.active /\ executor.active \subseteq Keys
        /\ Cardinality(executor.active) <= wave.total /\ wave.total \in Nat
    BY <1>p, <1>3 DEF KeyShape, FanOutOK, Built
  <2>2. /\ Cardinality(executor.active \ {k}) \in Nat
        /\ Cardinality(executor.active \ {k}) = Cardinality(executor.active) - 1
        /\ Cardinality(executor.active) \in Nat
    BY <2>1, KeysAreFinite, FS_RemoveElement
  <2> QED BY <1>4, <2>1, <2>2
<1>7. CountsFollow(context.trail, t) BY <1>p, <1>3, <1>4, WaveFollows
<1>8. /\ Chained(context'.trail) /\ Bounded(context'.trail)
      /\ LastRecord(context'.trail).stage = LastRecord(context.trail).stage
      /\ LastRecord(context'.trail).tasks = t
      /\ LastRecord(context.trail).stage \in KeyStages =>
           Tallied(context'.trail, Cardinality(executor'.active))
  BY <1>4, <1>5, <1>6, <1>7, RecordCounted DEF CountInv, ContextCounted
<1>9. LastRecord(context.trail).stage = Stage BY <1>1 DEF CountInv, WaveCounted
<1>10. ContextCounted'
  <2>1. Reached' = task.phase BY <1>1 DEF Reached
  <2>2. task.phase \in 4 .. 6 => Stage \in KeyStages
    <3>1. task.phase \in 4 .. 6 => task.phase \in 3 .. 6 OBVIOUS
    <3> QED BY <1>p, <1>1, <3>1, StageIsAt, Zenon
  <2>3. task.phase <= 6 /\ task.phase >= 4 => task.phase \in 4 .. 6 BY <1>p DEF PlaceInv
  <2> QED BY <1>1, <1>8, <1>9, <2>1, <2>2, <2>3 DEF ContextCounted
<1>11. CheckpointCounted' BY <1>1, CheckpointStillCounted DEF CountInv
<1>12. WaveCounted'
  <2>1. Stage' = Stage BY <1>1 DEF Stage
  <2>2. wave.total <= Cardinality(Keys) /\ (wave.stage = "Train Models" => wave.total = Cardinality(Keys))
    BY <1>3 DEF CountInv, WaveCounted
  <2>3. t.total # 0 BY <1>6
  <2> QED BY <1>3, <1>4, <1>8, <1>9, <2>1, <2>2, <2>3 DEF WaveCounted
<1> QED BY <1>10, <1>11, <1>12 DEF CountInv

LEMMA StageEndCounts ==
  ASSUME KeyInv, ShapeInv, CountInv, UNCHANGED plan, CompleteStage \/ TrackRun \/ FailStage
  PROVE  CountInv'
<1> USE DEF plan
<1>p. PlaceInv /\ WaveInv /\ KeyShape /\ TaskShape /\ ContextShape
  BY DEF KeyInv, OutputInv, ShapeInv
<1>1. /\ task.pc = "inside" /\ task'.pc \in {"between", "saving", "leaving"}
      /\ task'.phase = task.phase /\ UNCHANGED <<checkpoint, entry>>
      /\ task'.pc = "leaving" => entry # "workflow"
      /\ task'.pc # "between" => task'.why = "stage"
  BY <1>p DEF CompleteStage, TrackRun, FailStage, Goes, TaskShape, Tasks
<1>2. context.trail \in Seq(StageRecord) /\ context.trail # <<>>
      /\ DOMAIN context = {"trail", "outputs", "reports", "tracking"}
  BY <1>p, <1>1 DEF ContextShape, Begun
<1>3. \/ UNCHANGED context.trail
      \/ \E status \in {"Running", "Completed", "Failed"} : context'.trail = Recorded(status)
  <2>1. CASE CompleteStage \/ TrackRun
    <3>1. context'.trail = Recorded("Completed") BY <1>2, <2>1 DEF CompleteStage, TrackRun
    <3> QED BY <3>1
  <2>2. CASE FailStage
    <3>1. CASE FailTracking(Recorded("Failed"))
      <4>1. context'.trail = Recorded("Failed") BY <1>2, <3>1 DEF FailTracking
      <4> QED BY <4>1
    <3>2. CASE FailTracking(context.trail) BY <1>2, <3>2 DEF FailTracking
    <3> QED BY <2>2, <3>1, <3>2 DEF FailStage
  <2> QED BY <2>1, <2>2
<1>4. /\ Chained(context'.trail) /\ Bounded(context'.trail)
      /\ \A n : Tallied(context.trail, n) => Tallied(context'.trail, n)
  <2>1. CASE UNCHANGED context.trail BY <2>1 DEF CountInv, ContextCounted
  <2>2. ASSUME NEW status \in {"Running", "Completed", "Failed"}, context'.trail = Recorded(status)
        PROVE  <1>4
    <3>1. context'.trail = WithStatus(context.trail, status)
      BY <1>2, <2>2, RecordedIs DEF WithStatus
    <3> QED BY <1>2, <3>1, RecordClosed DEF CountInv, ContextCounted
  <2> QED BY <1>3, <2>1, <2>2
<1>5. wave' = NoWave
  <2>1. CASE CompleteStage
    <3>1. wave = NoWave BY <1>p, <2>1 DEF CompleteStage, WaveInv
    <3> QED BY <2>1, <3>1 DEF CompleteStage, keyVars
  <2>2. CASE TrackRun BY <2>2 DEF TrackRun, CloseStage, keyVars
  <2>3. CASE FailStage BY <2>3 DEF FailStage, AbandonStage, keyVars
  <2> QED BY <2>1, <2>2, <2>3
<1>6. WaveCounted' BY <1>1, <1>5 DEF WaveCounted
<1>7. CheckpointCounted' BY <1>1, CheckpointStillCounted DEF CountInv
<1>8. ContextCounted'
  <2>1. CASE FailStage
    <3>1. UNCHANGED executor BY <2>1 DEF FailStage, AbandonStage, keyVars
    <3>2. task'.why = "stage" /\ task'.pc # "between"
      BY <1>p, <2>1 DEF FailStage, TaskShape, Tasks
    <3>3. Reached' = task.phase /\ Reached = task.phase BY <1>1, <3>2 DEF Reached
    <3> QED BY <1>1, <1>4, <3>1, <3>3 DEF CountInv, ContextCounted
  <2>2. CASE CompleteStage \/ TrackRun
    <3>1. entry # "run" => task.phase \notin 3 .. 6
      <4>1. entry # "run" => Stage \notin KeyStages
        <5>1. CASE CompleteStage BY <5>1 DEF CompleteStage, FansOut
        <5>2. CASE TrackRun BY <5>2 DEF TrackRun, KeyStages
        <5> QED BY <2>2, <5>1, <5>2
      <4> QED BY <1>p, <1>1, <4>1, StageIsAt, Zenon
    <3>2. Reached' \in {task.phase, task.phase + 1} BY <1>1 DEF Reached
    <3>3. task.phase \in 1 .. 8 BY <1>p, <1>1, StageIsAt
    <3>4. ~(task.phase <= 6 /\ Reached' >= 4 /\ entry # "run") BY <3>1, <3>2, <3>3
    <3> QED BY <1>1, <1>4, <3>4 DEF ContextCounted
  <2> QED BY <2>1, <2>2
<1> QED BY <1>6, <1>7, <1>8 DEF CountInv

LEMMA KeyStageEndCounts ==
  ASSUME KeyInv, ShapeInv, CountInv, UNCHANGED plan, CompleteKeyStage
  PROVE  CountInv'
<1> USE DEF plan
<1>p. PlaceInv /\ WaveInv /\ KeyShape /\ TaskShape /\ ContextShape
  BY DEF KeyInv, OutputInv, ShapeInv
<1>1. /\ task.pc = "inside" /\ task'.pc = "between" /\ task'.phase = task.phase
      /\ task'.step = task.step
      /\ Stage \in KeyStages /\ CloseStage /\ UNCHANGED <<checkpoint, entry>>
  BY <1>p DEF CompleteKeyStage, Goes, TaskShape, Tasks
<1>2. task.phase \in 3 .. 6 /\ task.step = 1 /\ Stage = Phases[task.phase][1]
  BY <1>p, <1>1, StageIsAt
<1>3. wave # NoWave /\ wave' = NoWave /\ executor'.active = executor.active
  BY <1>p, <1>1, ClosedIsBuilt DEF CloseStage
<1>4. context.trail \in Seq(StageRecord) /\ context.trail # <<>>
      /\ DOMAIN context = {"trail", "outputs", "reports", "tracking"}
  BY <1>p, <1>1 DEF ContextShape, Begun
<1> DEFINE t == Telemetry(wave)
           done == Recorded("Completed")
<1>5. /\ t \in [total: Nat, completed: Nat, failed: Nat] /\ t.total = wave.total
      /\ t.total - t.failed = Cardinality(executor.active)
  BY <1>p, <1>3, TelemetryIs DEF KeyShape
<1>6. /\ done \in Seq(StageRecord) /\ done # <<>> /\ Len(done) = Len(context.trail)
      /\ done = WithStatus(context.trail, "Completed")
  BY <1>4, RecordedIs DEF WithStatus
<1>7. context'.trail = WithCounts(done, t)
  <2>1. context'.trail = [done EXCEPT ![Len(context.trail)].tasks = t]
    BY <1>4 DEF CompleteKeyStage
  <2> QED BY <1>6, <2>1 DEF WithCounts
<1> HIDE DEF t, done
<1>8. /\ Chained(done) /\ Bounded(done)
      /\ \A n : Tallied(context.trail, n) => Tallied(done, n)
      /\ LastRecord(done).stage = LastRecord(context.trail).stage
      /\ LastRecord(done).tasks = LastRecord(context.trail).tasks
  <2>1. Chained(context.trail) /\ Bounded(context.trail) BY DEF CountInv, ContextCounted
  <2> DEFINE old == context.trail
  <2>2. /\ old \in Seq(StageRecord) /\ old # <<>> /\ Chained(old) /\ Bounded(old)
        /\ done = WithStatus(old, "Completed")
    BY <1>4, <1>6, <2>1
  <2> HIDE DEF old
  <2>3. /\ Chained(done) /\ Bounded(done)
        /\ \A n : Tallied(old, n) => Tallied(done, n)
        /\ LastRecord(done).stage = LastRecord(old).stage
        /\ LastRecord(done).tasks = LastRecord(old).tasks
    BY <2>2, RecordClosed
  <2> QED BY <2>3 DEF old
<1>9. CountsFollow(done, t) BY <1>p, <1>3, <1>5, <1>8, WaveFollows
<1>10. LastRecord(done).stage = Stage BY <1>1, <1>8 DEF CountInv, WaveCounted
<1>11. /\ Chained(context'.trail) /\ Bounded(context'.trail)
       /\ t.total > 0 => Tallied(context'.trail, Cardinality(executor.active))
       /\ t.total = 0 => \A n : Tallied(done, n) => Tallied(context'.trail, n)
  <2> DEFINE new == context'.trail
  <2>1. /\ done \in Seq(StageRecord) /\ done # <<>> /\ new = WithCounts(done, t)
        /\ CountsFollow(done, t) /\ Chained(done) /\ Bounded(done)
        /\ LastRecord(done).stage \in KeyStages
    BY <1>1, <1>6, <1>7, <1>8, <1>9, <1>10
  <2> HIDE DEF new
  <2>2. /\ Chained(new) /\ Bounded(new)
        /\ t.total > 0 => Tallied(new, t.total - t.failed)
        /\ t.total = 0 => \A n : Tallied(done, n) => Tallied(new, n)
    BY <1>5, <2>1, RecordCounted
  <2> QED BY <1>5, <2>2 DEF new
<1>12. Tallied(context'.trail, Cardinality(executor.active)) \/ entry = "run"
  <2>1. CASE t.total > 0 BY <1>11, <2>1
  <2>2. CASE t.total = 0 /\ task.phase = 3
    <3>1. wave.stage = "Train Models" BY <1>p, <1>1, <1>2, <1>3, <2>2, KeyPhasesAre DEF WaveInv
    <3>2. Cardinality(Keys) = 0 BY <1>3, <1>5, <2>2, <3>1 DEF CountInv, WaveCounted
    <3>3. Tallied(done, Cardinality(executor.active)) BY <1>6, <1>8, <3>2, NoKeysNoCounts
    <3> QED BY <1>11, <2>2, <3>3
  <2>3. CASE t.total = 0 /\ task.phase # 3 /\ entry # "run"
    <3>1. Reached = task.phase BY <1>1 DEF Reached
    <3>2. task.phase <= 6 /\ task.phase >= 4 BY <1>2, <2>3
    <3>3. Tallied(context.trail, Cardinality(executor.active))
      BY <1>1, <2>3, <3>1, <3>2 DEF CountInv, ContextCounted
    <3> QED BY <1>8, <1>11, <2>3, <3>3
  <2>4. t.total > 0 \/ t.total = 0
    <3>1. t.total \in Nat BY <1>5
    <3> QED BY <3>1
  <2> QED BY <2>1, <2>2, <2>3, <2>4
<1>13. ContextCounted' BY <1>1, <1>3, <1>11, <1>12 DEF ContextCounted
<1>14. CheckpointCounted' BY <1>1, CheckpointStillCounted DEF CountInv
<1>15. WaveCounted' BY <1>1, <1>3 DEF WaveCounted
<1> QED BY <1>13, <1>14, <1>15 DEF CountInv

LEMMA TaskEndCounts ==
  ASSUME KeyInv, ShapeInv, CountInv, UNCHANGED plan,
         NextPhase \/ EndPhase \/ SaveCheckpoint \/ Leave \/ Crash
  PROVE  CountInv'
<1> USE DEF plan
<1>p. PlaceInv /\ WaveInv /\ KeyShape /\ TaskShape /\ ContextShape
  BY DEF KeyInv, OutputInv, ShapeInv
<1>1. LastPhase = 8 /\ \A p \in 1 .. 8 : Len(Phases[p]) \in Nat /\ Len(Phases[p]) > 0
  BY PhasesAre, PhasesAreNotEmpty
<1>2. CASE NextPhase
  <2>1. /\ entry # "workflow" /\ task.pc = "between" /\ UNCHANGED <<entry, checkpoint, executor, wave, context>>
        /\ task.step = Len(Phases[task.phase]) /\ task.phase \in 1 .. 8
        /\ \/ task.phase < 8 /\ task'.phase = task.phase + 1 /\ task'.step = 0 /\ task'.pc = "between"
           \/ task'.pc = "leaving"
    BY <1>p, <1>1, <1>2 DEF NextPhase, keyVars, TaskShape, Tasks, PlaceInv
  <2>2. wave' = NoWave BY <1>p, <2>1, NoWaveOutside
  <2>3. WaveCounted' BY <2>1, <2>2 DEF WaveCounted
  <2>4. CheckpointCounted' BY <2>1 DEF CountInv, CheckpointCounted
  <2>5. ContextCounted'
    <3>1. CASE task.phase < 8 /\ task'.phase = task.phase + 1 /\ task'.step = 0 /\ task'.pc = "between"
      <4>1. Len(Phases[task.phase + 1]) \in Nat /\ Len(Phases[task.phase + 1]) > 0
        <5>1. task.phase + 1 \in 1 .. 8 BY <2>1, <3>1
        <5> QED BY <1>1, <5>1, Zenon
      <4>2. Reached = task.phase + 1 /\ Reached' = task.phase + 1 BY <2>1, <3>1, <4>1 DEF Reached
      <4> QED BY <2>1, <3>1, <4>2 DEF CountInv, ContextCounted
    <3>2. CASE task'.pc = "leaving" BY <2>1, <3>2 DEF CountInv, ContextCounted
    <3> QED BY <2>1, <3>1, <3>2
  <2> QED BY <2>3, <2>4, <2>5 DEF CountInv
<1>3. CASE EndPhase
  <2>1. /\ task.pc = "between" /\ UNCHANGED <<checkpoint, entry, executor, wave, context>>
        /\ task.step = Len(Phases[task.phase]) /\ task'.phase = task.phase /\ task'.pc = "saving"
        /\ task'.why = "none"
    BY <1>p, <1>3 DEF EndPhase, Goes, keyVars, TaskShape, Tasks, PlaceInv
  <2>2. wave' = NoWave BY <1>p, <2>1, NoWaveOutside
  <2>3. WaveCounted' BY <2>1, <2>2 DEF WaveCounted
  <2>4. CheckpointCounted' BY <2>1, CheckpointStillCounted DEF CountInv
  <2>5. Reached = task.phase + 1 /\ Reached' = task.phase + 1 BY <2>1 DEF Reached
  <2>6. ContextCounted' BY <2>1, <2>5 DEF CountInv, ContextCounted
  <2> QED BY <2>3, <2>4, <2>6 DEF CountInv
<1>4. CASE SaveCheckpoint
  <2>1. /\ task.pc = "saving" /\ task'.pc = "leaving" /\ task'.phase = task.phase
        /\ UNCHANGED <<entry, executor, wave, context>> /\ entry = "workflow"
        /\ \/ /\ checkpoint' = [context |-> context, snapshot |-> executor]
              /\ task'.why = task.why
           \/ UNCHANGED checkpoint /\ task'.why # "none"
    BY <1>p, <1>4 DEF SaveCheckpoint, keyVars, TaskShape, Tasks, PlaceInv
  <2>2. wave' = NoWave BY <1>p, <2>1, NoWaveOutside
  <2>3. WaveCounted' BY <2>1, <2>2 DEF WaveCounted
  <2>4. ContextCounted' BY <2>1 DEF CountInv, ContextCounted
  <2>5. CASE checkpoint' = [context |-> context, snapshot |-> executor] /\ task'.why = task.why
    <3>1. checkpoint'.context = context /\ checkpoint'.snapshot = executor BY <2>5
    <3>2. task.phase \in 4 .. 6 => Reached >= 4 BY DEF Reached
    <3>3. task.phase = 3 /\ task.why = "none" => Reached >= 4 BY <2>1 DEF Reached
    <3>4. /\ task.phase \in 4 .. 6 => Tallied(context.trail, Cardinality(executor.active))
          /\ task.phase = 3 /\ task.why = "none" => Tallied(context.trail, Cardinality(executor.active))
      BY <2>1, <3>2, <3>3 DEF CountInv, ContextCounted
    <3>5. Chained(context.trail) /\ Bounded(context.trail) BY DEF CountInv, ContextCounted
    <3>6. CheckpointCounted' BY <2>1, <2>5, <3>1, <3>4, <3>5 DEF CheckpointCounted
    <3> QED BY <2>3, <2>4, <3>6 DEF CountInv
  <2>6. CASE UNCHANGED checkpoint /\ task'.why # "none"
    <3>1. CheckpointCounted' BY <2>1, <2>6, CheckpointStillCounted DEF CountInv
    <3> QED BY <2>3, <2>4, <3>1 DEF CountInv
  <2> QED BY <2>1, <2>5, <2>6
<1>5. CASE Leave \/ Crash
  <2>1. /\ context' = NoContext /\ wave' = NoWave /\ UNCHANGED <<checkpoint, entry>>
        /\ task.phase \in 1 .. 8
    BY <1>p, <1>1, <1>5 DEF Leave, Crash, ProcessEnds, PlaceInv
  <2>2. /\ task'.pc \in {"waiting", "failed"}
        /\ task'.phase # task.phase =>
             task'.phase = task.phase + 1 /\ task.pc = "leaving" /\ task.why = "none"
    <3>1. CASE \E why : task' = [task EXCEPT !.pc = "failed", !.why = why]
      BY <1>p, <3>1 DEF TaskShape, Tasks
    <3>2. CASE task' = [task EXCEPT !.pc = "failed"] BY <1>p, <3>2 DEF TaskShape, Tasks
    <3>3. CASE /\ task.pc = "leaving" /\ task.why = "none"
               /\ task' = [task EXCEPT !.phase = @ + 1, !.pc = "waiting", !.step = 0]
      BY <1>p, <3>3 DEF TaskShape, Tasks
    <3> QED BY <1>5, <3>1, <3>2, <3>3 DEF Leave, Crash
  <2>3. context'.trail = <<>>
    <3>1. NoContext.trail = <<>> BY DEF NoContext, NewContext
    <3> QED BY <2>1, <3>1
  <2>4. WaveCounted' BY <2>1, <2>2 DEF WaveCounted
  <2>5. ContextCounted' BY <2>2, <2>3, NothingCounted DEF ContextCounted
  <2>6. CheckpointCounted'
    <3>1. CASE task'.phase = task.phase BY <2>1, <2>2, <3>1, CheckpointStillCounted DEF CountInv
    <3>2. CASE task'.phase # task.phase
      <4>1. task'.phase \in 4 .. 6 => task.phase = 3 \/ task.phase \in 4 .. 6 BY <2>1, <2>2, <3>2
      <4> QED BY <2>1, <2>2, <3>2, <4>1 DEF CountInv, CheckpointCounted
    <3> QED BY <3>1, <3>2
  <2> QED BY <2>4, <2>5, <2>6 DEF CountInv
<1> QED BY <1>2, <1>3, <1>4, <1>5

LEMMA CountsInductive == Spec => [](FirstInv /\ CountInv)
<1>1. Init => FirstInv /\ CountInv
  <2> SUFFICES ASSUME Init PROVE FirstInv /\ CountInv
    OBVIOUS
  <2>1. /\ task.phase = 1 /\ task.pc = "waiting" /\ wave = NoWave /\ executor = NoExecutor
        /\ context = NoContext /\ checkpoint.context = NoContext
    BY DEF Init, NoCheckpoint
  <2>2. NoContext.trail = <<>> BY DEF NoContext, NewContext
  <2>3. FirstInv BY <2>1 DEF FirstInv
  <2>4. WaveCounted BY <2>1 DEF WaveCounted
  <2>5. ContextCounted BY <2>1, <2>2, NothingCounted DEF ContextCounted
  <2>6. CheckpointCounted BY <2>1, <2>2, NothingCounted DEF CheckpointCounted
  <2> QED BY <2>3, <2>4, <2>5, <2>6 DEF CountInv
<1>2. KeyInv /\ ShapeInv /\ FirstInv /\ CountInv /\ [Next]_vars => FirstInv' /\ CountInv'
  <2>1. ASSUME KeyInv, ShapeInv, FirstInv, CountInv, Next PROVE FirstInv' /\ CountInv'
    <3>1. Step /\ UNCHANGED plan BY <2>1 DEF Next
    <3>2. FirstInv' BY <2>1, <3>1, FirstStep DEF ShapeInv
    <3>3. CountInv'
      BY <2>1, <3>1, StartCounts, BeginCounts, TaskCounts, StageEndCounts, KeyStageEndCounts,
         TaskEndCounts DEF Step
    <3> QED BY <3>2, <3>3
  <2>2. ASSUME FirstInv, CountInv, UNCHANGED vars PROVE FirstInv' /\ CountInv'
    <3> USE <2>2 DEF vars, plan
    <3>1. FirstInv' BY DEF FirstInv
    <3>2. Stage' = Stage /\ Reached' = Reached BY DEF Stage, Reached
    <3>3. WaveCounted' BY <3>2 DEF CountInv, WaveCounted
    <3>4. ContextCounted' BY <3>2 DEF CountInv, ContextCounted
    <3>5. CheckpointCounted' BY DEF CountInv, CheckpointCounted
    <3> QED BY <3>1, <3>3, <3>4, <3>5 DEF CountInv
  <2> QED BY <2>1, <2>2
<1> QED BY KeysInductive, ShapeInductive, <1>1, <1>2, PTL DEF Spec

\* The accounts of the keys: whatever failed and was started again, a key in a per-key
\* report is in the one before it, and every per-key stage on the trail takes up the keys
\* the one before it did not lose (Train Models: all of them).
THEOREM KeysAreAccountedFor == Spec => []EveryKeyIsAccountedFor
<1>1. ReportInv /\ CountInv => EveryKeyIsAccountedFor
  <2> SUFFICES ASSUME ReportInv, CountInv PROVE EveryKeyIsAccountedFor
    OBVIOUS
  <2> DEFINE order == <<"Train Models", "Evaluate Models", "Explain Models", "Rank & Select">>
  <2>1. /\ order[1] = Phases[3][1] /\ order[2] = Phases[4][1]
        /\ order[3] = Phases[5][1] /\ order[4] = Phases[6][1]
    BY KeyPhasesAre
  <2>2. ASSUME Running, NEW i \in 1 .. 3, order[i + 1] \in DOMAIN context.reports
        PROVE  Range(context.reports[order[i + 1]]) \subseteq Range(context.reports[order[i]])
    <3>1. Nested(context.reports) BY <2>2 DEF Running, ReportInv, ReportsOK
    <3>2. i = 1 \/ i = 2 \/ i = 3 OBVIOUS
    <3>3. \A j \in 1 .. 3 : order[j + 1] = Phases[j + 3][1] /\ order[j] = Phases[(j + 3) - 1][1]
      <4> SUFFICES ASSUME NEW j \in 1 .. 3
                   PROVE  order[j + 1] = Phases[j + 3][1] /\ order[j] = Phases[(j + 3) - 1][1]
        OBVIOUS
      <4>1. j = 1 \/ j = 2 \/ j = 3 OBVIOUS
      <4> HIDE DEF order
      <4> QED BY <2>1, <4>1
    <3>4. i + 3 \in 4 .. 6 OBVIOUS
    <3> HIDE DEF order
    <3> QED BY <2>2, <3>1, <3>3, <3>4 DEF Nested
  <2>3. Running => Chained(context.trail) BY DEF CountInv, ContextCounted
  <2> QED BY <2>2, <2>3 DEF EveryKeyIsAccountedFor, Chained, Counted, Balance
<1> QED BY ReportsInductive, CountsInductive, <1>1, PTL
================================================================================
