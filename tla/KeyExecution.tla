------------------------------ MODULE KeyExecution ------------------------------
(***************************************************************************)
(* Key-parallel execution: forecast_engine/parallel/ray_executor.py.  One  *)
(* StagedKeyExecution owns a run's keys and takes them through four        *)
(* stages; each stage submits every key still active, collects the results *)
(* one at a time (with Ray in whatever order they arrive, without it one   *)
(* key after the other), drops the keys that failed, and merges what was   *)
(* collected in series order.  A fifth fan-out publishes the winners.      *)
(* snapshot() and resume() carry it from one Databricks task to the next.  *)
(*                                                                         *)
(* A key's payloads are reduced to the fact that the stage produced one;   *)
(* of the telemetry, times, workers and nodes are left out.                *)
(***************************************************************************)
EXTENDS Naturals, Sequences, FiniteSets, Functions

CONSTANTS
  Series,   \* the run's keys, in series order
  Clusters  \* the compute the run may find: of ClusterKinds

ClusterKinds == {"no ray", "single node", "multi node"}

ASSUME SeriesAssumption ==
  /\ Series \in Seq(Range(Series))
  /\ \A i, j \in DOMAIN Series : Series[i] = Series[j] => i = j
  /\ Clusters \subseteq ClusterKinds

VARIABLES
  cluster,   \* the compute of this run
  executor,  \* context.key_stage_executor
  wave       \* the stage being fanned out

keyVars == <<executor, wave>>

Keys == Range(Series)

KeyStages == {"Train Models", "Evaluate Models", "Explain Models", "Rank & Select"}

\* "publish_results", the fan-out inside the tracking stage.
Publishing == "Publish Models"

\* The stages whose per-key output a stage's tasks are given.
InputsOf(stage) ==
  CASE stage = "Train Models"    -> {}
    [] stage = "Evaluate Models" -> {"Train Models"}
    [] stage = "Explain Models"  -> {"Train Models", "Evaluate Models"}
    [] stage = "Rank & Select"   -> {"Evaluate Models", "Explain Models"}
    [] stage = Publishing        -> {"Rank & Select"}

\* [k for k in keys if k in members]
Keep(keys, members) ==
  LET upTo[n \in 0 .. Len(keys)] ==
        IF n = 0 THEN <<>>
        ELSE IF keys[n] \in members THEN Append(upTo[n - 1], keys[n]) ELSE upTo[n - 1]
  IN  upTo[Len(keys)]

NoExecutor == [mode |-> "none", active |-> {}, order |-> <<>>, failures |-> {},
               payloads |-> [s \in {} |-> {}]]

\* _start_ray(): across the Spark workers where the cluster has any, on the driver
\* alone when it has none or that fails.
StartRay ==
  IF cluster = "multi node" THEN {"ray on spark", "driver only"} ELSE {"driver only"}

\* How a new executor will run its keys: with no key there is nothing to start
\* Ray for, and where Ray is not installed they run in this process.
ExecutionModes(keys) ==
  IF keys = <<>> \/ cluster = "no ray" THEN {"sequential"} ELSE StartRay

\* StagedKeyExecution(context.series): every key active, nothing computed.
FreshExecutor(mode) ==
  [mode |-> mode, active |-> Keys, order |-> Series, failures |-> {},
   payloads |-> [s \in KeyStages |-> {}]]

\* (mutant) the keys that failed are taken up again
ResumedEveryKey(snapshot, mode) ==
  [snapshot EXCEPT !.mode = mode, !.active = @ \cup snapshot.failures]

\* resume(): the keys still active, in their original order, with every payload
\* the stages before left, on an executor of this process.
Resumed(snapshot, mode) ==
  [snapshot EXCEPT !.mode = mode,
                   !.order = Keep(@, snapshot.active)]

NoWave == [stage |-> "none", total |-> 0, pending |-> {}, results |-> <<>>]

KeyTypeOK ==
  /\ cluster \in Clusters
  /\ executor.mode \in {"none", "sequential", "driver only", "ray on spark"}
  /\ executor.active \subseteq Keys
  /\ Range(executor.order) \subseteq Keys
  /\ executor.failures \subseteq Keys
  /\ \A s \in DOMAIN executor.payloads : s \in KeyStages /\ executor.payloads[s] \subseteq Keys
  /\ wave.stage \in KeyStages \cup {Publishing, "none"}
  /\ wave.pending \subseteq Keys
  /\ Range(wave.results) \subseteq Keys
--------------------------------------------------------------------------------
\* _run_stage(): one task per active key.  Train Models builds the executor, and
\* so does any stage that finds none on the context (_stage_executor).
SubmitKeys(stage) ==
  /\ wave = NoWave
  /\ \/ executor # NoExecutor /\ UNCHANGED executor
     \/ /\ executor = NoExecutor
        /\ \E mode \in ExecutionModes(Series) : executor' = FreshExecutor(mode)
  /\ wave' = [stage |-> stage, total |-> Cardinality(executor'.active),
              pending |-> executor'.active, results |-> <<>>]

\* ray.wait() returns one finished task, in completion order; without Ray the next
\* key of the order is run.
Ends(k) ==
  /\ k \in wave.pending
  /\ executor.mode = "sequential" => k = Keep(executor.order, wave.pending)[1]

\* What a key's task is given of an earlier stage: its output, or one of
\* _EMPTY_TRAINED, _EMPTY_EVALUATION, _EMPTY_EXPLAINABILITY.
TaskInput(k, stage) == IF k \in executor.payloads[stage] THEN "output" ELSE "empty"

CollectKey(k) ==
  /\ Ends(k)
  /\ wave' = [wave EXCEPT !.pending = @ \ {k}, !.results = Append(@, k)]
  /\ UNCHANGED executor

\* (mutant) a key that failed stays active
DropKeyLater(k) ==
  /\ Ends(k)
  /\ wave' = [wave EXCEPT !.pending = @ \ {k}]
  /\ executor' = [executor EXCEPT !.failures = @ \cup {k}]

\* The task raised: the key takes no further part.
DropKey(k) ==
  /\ Ends(k)
  /\ wave' = [wave EXCEPT !.pending = @ \ {k}]
  /\ executor' = [executor EXCEPT !.active = @ \ {k}, !.failures = @ \cup {k}]

\* (mutant) the merged report in completion order
MergedAsCompleted == wave.results

\* The merged report: series order, not completion order.
Merged == Keep(executor.order, Range(wave.results))

\* Every task is in: the stage's payloads are kept for the stages after it.
CloseStage ==
  /\ wave # NoWave /\ wave.pending = {}
  /\ executor' = IF wave.stage = Publishing THEN executor
                 ELSE [executor EXCEPT !.payloads[wave.stage] = @ \cup Range(wave.results)]
  /\ wave' = NoWave

\* Some call of the stage other than a key's task raised (submitting a task, the
\* object store): what was collected is lost, the keys dropped stay dropped.
AbandonStage == wave # NoWave /\ wave' = NoWave /\ UNCHANGED executor

\* _telemetry(), as of the wave w: what on_progress is told after every task.
Telemetry(w) ==
  [total |-> w.total,
   completed |-> Len(w.results),
   failed |-> w.total - Len(w.results) - Cardinality(w.pending)]

NoTelemetry == [total |-> 0, completed |-> 0, failed |-> 0]
--------------------------------------------------------------------------------
\* _EMPTY_TRAINED and its likes "should not happen for an active key": a key's
\* task is given the real output of every stage it depends on, whatever was
\* retried or resumed before it.
ActiveKeysHaveInputs ==
  wave # NoWave =>
    \A k \in wave.pending \cup Range(wave.results) :
      \A s \in InputsOf(wave.stage) : TaskInput(k, s) = "output"
================================================================================
