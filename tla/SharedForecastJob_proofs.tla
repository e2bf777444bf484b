------------------------ MODULE SharedForecastJob_proofs ------------------------
(***************************************************************************)
(* Proofs about SharedForecastJob, for any submissions, job ids and faults. *)
(***************************************************************************)
EXTENDS SharedForecastJob, FiniteSetTheorems, TLAPS

\* Two submissions at work on the job know of each other; one that has yet to begin
\* knows of nobody.
OverlapInv ==
  /\ \A s, t \in Submissions : s # t /\ s \in Busy /\ t \in Busy => t \in overlap[s]
  /\ \A s \in Submissions : pc[s] = "idle" => overlap[s] = {}

\* What a submission is about to start carries its own settings, or those of one
\* that was at work beside it.
RunInv ==
  \A s \in Submissions : pc[s] = "run" =>
    \A j \in found[s] : definition[j] \in {s} \cup overlap[s]

Creating(s) == pc[s] \in {"create_shared", "create_plain"}

\* Nothing overlapped and nothing untrue was reported.
Quiet == misled = {} /\ \A s \in Submissions : overlap[s] = {}

\* Then there is at most one job, and none while one is being created.
OneJobInv ==
  Quiet =>
    /\ \A j, k \in DOMAIN definition : j = k
    /\ \A s \in Submissions : Creating(s) => DOMAIN definition = {}

--------------------------------------------------------------------------------
LEMMA GoesUpdate ==
  ASSUME TypeOK, NEW s \in Submissions, NEW from, NEW to \in Steps, Goes(s, from, to)
  PROVE  /\ pc' \in [Submissions -> Steps]
         /\ pc[s] = from /\ pc'[s] = to
         /\ \A t \in Submissions : t # s => pc'[t] = pc[t]
  BY DEF TypeOK, Goes

LEMMA DefinedUpdate ==
  ASSUME TypeOK, NEW s \in Submissions, NEW j \in JobIds, Defined(j, s)
  PROVE  /\ DOMAIN definition' = DOMAIN definition \cup {j}
         /\ definition'[j] = s
         /\ \A k \in DOMAIN definition : k # j => definition'[k] = definition[k]
         /\ DOMAIN definition' \subseteq JobIds
         /\ \A k \in DOMAIN definition' : definition'[k] \in Submissions
  BY DEF TypeOK, Defined

\* A submission creates the job: with the reply it goes on to run it.
Creates(s, from) ==
  /\ \E j \in JobIds : FreshJob(s, j) /\ found' = [found EXCEPT ![s] = {j}]
  /\ Goes(s, from, "run")
  /\ UNCHANGED <<started, overlap, misled>>

LEMMA CreatesCovers ==
  \A s : /\ CreateShared(s) => Creates(s, "create_shared")
         /\ CreatePlain(s) => Creates(s, "create_plain")
  BY DEF CreateShared, CreatePlain, Creates

LEMMA TypingStep == TypeOK /\ [Next]_vars => TypeOK'
<1> SUFFICES ASSUME TypeOK, [Next]_vars PROVE TypeOK'
  OBVIOUS
<1> USE DEF Steps
<1>1. CASE UNCHANGED vars BY <1>1 DEF vars, TypeOK
<1>2. ASSUME NEW s \in Submissions, Trigger(s) PROVE TypeOK'
  <2>1. overlap' \in [Submissions -> SUBSET Submissions] BY <1>2 DEF Trigger, TypeOK, Busy
  <2> QED BY <1>2, <2>1, GoesUpdate DEF Trigger, TypeOK
<1>3. ASSUME NEW s \in Submissions, Find(s) PROVE TypeOK'
  <2>1. CASE FindsNone(s)
    <3>1. misled' \subseteq Submissions BY <2>1 DEF FindsNone, TypeOK
    <3> QED BY <1>3, <2>1, <3>1, GoesUpdate DEF Find, FindsNone, TypeOK
  <2>2. CASE \E j \in DOMAIN definition :
               found' = [found EXCEPT ![s] = {j}] /\ Goes(s, "find", "reset") /\ UNCHANGED misled
    <3> PICK j \in DOMAIN definition :
               found' = [found EXCEPT ![s] = {j}] /\ Goes(s, "find", "reset") /\ UNCHANGED misled
      BY <2>2
    <3> QED BY <1>3, GoesUpdate DEF Find, TypeOK
  <2> QED BY <1>3, <2>1, <2>2 DEF Find
<1>4. ASSUME NEW s \in Submissions, ResetJob(s) PROVE TypeOK'
  <2> PICK j \in found[s] : Defined(j, s) BY <1>4 DEF ResetJob
  <2>1. j \in JobIds BY DEF TypeOK
  <2>2. pc[s] = "reset" BY <1>4 DEF ResetJob, Goes
  <2>3. found[s] = {j} /\ j \in DOMAIN definition BY <2>2 DEF TypeOK
  <2>4. DOMAIN definition' = DOMAIN definition
    <3>1. DOMAIN definition' = DOMAIN definition \cup {j} BY <2>1, DefinedUpdate
    <3> QED BY <2>3, <3>1
  <2>5. ASSUME NEW t \in Submissions, pc'[t] \in {"reset", "run"}
        PROVE  \E k \in DOMAIN definition' : found'[t] = {k}
    <3>1. pc[t] \in {"reset", "run"} BY <1>4, <2>5 DEF ResetJob, Goes, TypeOK
    <3> QED BY <1>4, <2>4, <3>1 DEF ResetJob, TypeOK
  <2> QED BY <1>4, <2>1, <2>5, GoesUpdate, DefinedUpdate DEF ResetJob, TypeOK
<1>5. ASSUME NEW s \in Submissions, NEW from \in Steps, Creates(s, from) PROVE TypeOK'
  <2> PICK j \in JobIds : FreshJob(s, j) /\ found' = [found EXCEPT ![s] = {j}]
    BY <1>5 DEF Creates
  <2>1. Defined(j, s) BY DEF FreshJob
  <2>2. DOMAIN definition' = DOMAIN definition \cup {j} BY <2>1, DefinedUpdate
  <2>3. found' \in [Submissions -> SUBSET JobIds] BY DEF TypeOK
  <2>4. ASSUME NEW t \in Submissions, pc'[t] \in {"reset", "run"}
        PROVE  \E k \in DOMAIN definition' : found'[t] = {k}
    <3>1. CASE t = s BY <2>2, <3>1 DEF TypeOK
    <3>2. CASE t # s BY <1>5, <2>2, <2>4, <3>2 DEF Creates, Goes, TypeOK
    <3> QED BY <3>1, <3>2
  <2>5. pc' \in [Submissions -> Steps] BY <1>5, GoesUpdate DEF Creates
  <2> QED BY <1>5, <2>1, <2>3, <2>4, <2>5, DefinedUpdate DEF Creates, TypeOK
<1>6. ASSUME NEW s \in Submissions, CreateSharedFails(s) PROVE TypeOK'
  <2>1. CASE UNCHANGED definition /\ UNCHANGED misled
    BY <1>6, <2>1, GoesUpdate DEF CreateSharedFails, TypeOK
  <2>2. CASE (\E j \in JobIds : FreshJob(s, j)) /\ misled' = misled \cup {s}
    <3> PICK j \in JobIds : FreshJob(s, j) BY <2>2
    <3> QED BY <1>6, <2>2, GoesUpdate, DefinedUpdate, ZenonT(30) DEF CreateSharedFails, FreshJob, TypeOK
  <2> QED BY <1>6, <2>1, <2>2 DEF CreateSharedFails
<1>7. ASSUME NEW s \in Submissions, RunNow(s) PROVE TypeOK'
  <2> PICK j \in found[s] :
        started' = [x \in DOMAIN started \cup {s} |->
          IF x = s THEN [compute |-> definition[j], job |-> j] ELSE started[x]]
    BY <1>7 DEF RunNow
  <2>1. pc[s] = "run" BY <1>7 DEF RunNow, Goes
  <2>2. definition[j] \in Submissions /\ j \in JobIds BY <2>1 DEF TypeOK
  <2> QED BY <1>7, <2>2, GoesUpdate DEF RunNow, TypeOK
<1>8. ASSUME NEW s \in Submissions, CallFails(s) PROVE TypeOK'
  BY <1>8 DEF CallFails, TypeOK
<1> QED BY <1>1, <1>2, <1>3, <1>4, <1>5, <1>6, <1>7, <1>8, CreatesCovers DEF Next
--------------------------------------------------------------------------------
\* Only Trigger starts work on the job, and it tells every one at work.
LEMMA OverlapStep == TypeOK /\ OverlapInv /\ [Next]_vars => OverlapInv'
<1> SUFFICES ASSUME TypeOK, OverlapInv, [Next]_vars PROVE OverlapInv'
  OBVIOUS
<1>1. ASSUME NEW s \in Submissions, Trigger(s) PROVE OverlapInv'
  BY <1>1, GoesUpdate, SMTT(30) DEF Trigger, OverlapInv, Busy, TypeOK, Steps, Goes
<1>2. ASSUME UNCHANGED overlap,
             \A t \in Submissions : t \in Busy' => t \in Busy,
             \A t \in Submissions : pc'[t] = "idle" => pc[t] = "idle"
      PROVE  OverlapInv'
  BY <1>2 DEF OverlapInv
<1>3. ASSUME NEW s \in Submissions,
             Find(s) \/ ResetJob(s) \/ Creates(s, "create_shared") \/ CreateSharedFails(s)
               \/ Creates(s, "create_plain") \/ RunNow(s) \/ CallFails(s)
      PROVE  /\ UNCHANGED overlap
             /\ \A t \in Submissions : t \in Busy' => t \in Busy
             /\ \A t \in Submissions : pc'[t] = "idle" => pc[t] = "idle"
  BY <1>3 DEF Find, FindsNone, ResetJob, Creates, CreateSharedFails, RunNow,
              CallFails, Busy, Goes, TypeOK
<1>4. CASE UNCHANGED vars BY <1>4 DEF vars, OverlapInv, Busy
<1> QED BY <1>1, <1>2, <1>3, <1>4, CreatesCovers DEF Next

\* Whoever changes a definition another submission is about to run is at work
\* beside it.
LEMMA RunStep ==
  TypeOK /\ OverlapInv /\ RunInv /\ [Next]_vars => RunInv'
<1> SUFFICES ASSUME TypeOK, OverlapInv, RunInv, [Next]_vars PROVE RunInv'
  OBVIOUS
<1>a. ASSUME NEW s \in Submissions, NEW j \in JobIds, Defined(j, s), UNCHANGED overlap,
             s \in Busy, UNCHANGED found \/ found' = [found EXCEPT ![s] = {j}],
             NEW t \in Submissions, t # s, pc[t] = "run"
      PROVE  \A k \in found'[t] : definition'[k] \in {t} \cup overlap'[t]
  <2>1. s \in overlap[t] BY <1>a DEF OverlapInv, Busy
  <2>2. found'[t] = found[t] BY <1>a DEF TypeOK
  <2>3. PICK k : found[t] = {k} /\ k \in DOMAIN definition BY <1>a DEF TypeOK
  <2>4. definition[k] \in {t} \cup overlap[t] BY <1>a, <2>3 DEF RunInv
  <2>5. definition'[k] = s \/ definition'[k] = definition[k]
    <3>1. definition'[j] = s /\ \A i \in DOMAIN definition : i # j => definition'[i] = definition[i]
      BY <1>a, DefinedUpdate
    <3> QED BY <2>3, <3>1
  <2>6. definition'[k] \in {t} \cup overlap'[t] BY <1>a, <2>1, <2>4, <2>5
  <2> QED BY <2>2, <2>3, <2>6
<1>1. ASSUME NEW s \in Submissions, Trigger(s) PROVE RunInv'
  <2>1. \A t \in Submissions : pc'[t] = "run" => pc[t] = "run" /\ t # s
    BY <1>1 DEF Trigger, Goes, TypeOK
  <2>2. \A t \in Submissions : overlap[t] \subseteq overlap'[t] \/ t = s
    BY <1>1 DEF Trigger, TypeOK
  <2> QED BY <1>1, <2>1, <2>2 DEF Trigger, RunInv
<1>2. ASSUME NEW s \in Submissions, Find(s) PROVE RunInv'
  <2>1. \A t \in Submissions : pc'[t] = "run" => pc[t] = "run" /\ t # s
    BY <1>2 DEF Find, FindsNone, Goes, TypeOK
  <2>2. \A t \in Submissions : t # s => found'[t] = found[t]
    BY <1>2 DEF Find, FindsNone, TypeOK
  <2> QED BY <1>2, <2>1, <2>2 DEF Find, RunInv
<1>3. ASSUME NEW s \in Submissions, ResetJob(s) PROVE RunInv'
  <2> PICK j \in found[s] : Defined(j, s) BY <1>3 DEF ResetJob
  <2>1. pc[s] = "reset" /\ s \in Busy BY <1>3 DEF ResetJob, Goes, Busy
  <2>2. found[s] = {j} /\ j \in JobIds BY <2>1 DEF TypeOK
  <2>3. \A t \in Submissions : t # s /\ pc'[t] = "run" => pc[t] = "run"
    BY <1>3 DEF ResetJob, Goes, TypeOK
  <2>4. ASSUME NEW t \in Submissions, t # s, pc'[t] = "run"
        PROVE  \A k \in found'[t] : definition'[k] \in {t} \cup overlap'[t]
    BY <1>3, <1>a, <2>1, <2>2, <2>3, <2>4 DEF ResetJob
  <2>5. definition'[j] = s /\ found'[s] = {j} BY <1>3, <2>2, DefinedUpdate DEF ResetJob
  <2> QED BY <2>4, <2>5 DEF RunInv
<1>4. ASSUME NEW s \in Submissions, NEW from \in {"create_shared", "create_plain"}, Creates(s, from)
      PROVE  RunInv'
  <2> PICK j \in JobIds : FreshJob(s, j) /\ found' = [found EXCEPT ![s] = {j}]
    BY <1>4 DEF Creates
  <2>1. s \in Busy BY <1>4 DEF Creates, Goes, Busy
  <2>2. \A t \in Submissions : t # s /\ pc'[t] = "run" => pc[t] = "run"
    BY <1>4 DEF Creates, Goes, TypeOK
  <2>3. found'[s] = {j} BY DEF TypeOK
  <2>4. Defined(j, s) /\ UNCHANGED overlap BY <1>4 DEF Creates, FreshJob
  <2>5. ASSUME NEW t \in Submissions, t # s, pc'[t] = "run"
        PROVE  \A k \in found'[t] : definition'[k] \in {t} \cup overlap'[t]
    BY <1>a, <2>1, <2>2, <2>4, <2>5
  <2>6. definition'[j] = s BY <2>4, DefinedUpdate
  <2> QED BY <2>3, <2>5, <2>6 DEF RunInv
<1>5. ASSUME NEW s \in Submissions, CreateSharedFails(s) PROVE RunInv'
  <2>1. \A t \in Submissions : pc'[t] = "run" => pc[t] = "run" /\ t # s
    BY <1>5 DEF CreateSharedFails, Goes, TypeOK
  <2>2. CASE UNCHANGED definition BY <1>5, <2>1, <2>2 DEF CreateSharedFails, RunInv
  <2>3. CASE \E j \in JobIds : FreshJob(s, j)
    <3> PICK j \in JobIds : FreshJob(s, j) BY <2>3
    <3>1. s \in Busy BY <1>5 DEF CreateSharedFails, Goes, Busy
    <3>2. Defined(j, s) /\ UNCHANGED overlap /\ UNCHANGED found
      BY <1>5 DEF CreateSharedFails, FreshJob
    <3>3. ASSUME NEW t \in Submissions, pc'[t] = "run"
          PROVE  \A k \in found'[t] : definition'[k] \in {t} \cup overlap'[t]
      BY <1>a, <2>1, <3>1, <3>2, <3>3
    <3> QED BY <3>3 DEF RunInv
  <2> QED BY <1>5, <2>2, <2>3 DEF CreateSharedFails
<1>6. ASSUME NEW s \in Submissions, RunNow(s) \/ CallFails(s) PROVE RunInv'
  <2>1. \A t \in Submissions : pc'[t] = "run" => pc[t] = "run"
    BY <1>6 DEF RunNow, CallFails, Goes, TypeOK
  <2> QED BY <1>6, <2>1 DEF RunNow, CallFails, RunInv
<1>7. CASE UNCHANGED vars BY <1>7 DEF vars, RunInv
<1> QED BY <1>1, <1>2, <1>3, <1>4, <1>5, <1>6, <1>7, CreatesCovers DEF Next
--------------------------------------------------------------------------------
\* A run starts once and last, with what RunInv says of it.
StartedInv ==
  \A s \in DOMAIN started :
    pc[s] = "done" /\ started[s].compute \in {s} \cup overlap[s]

LEMMA StartedStep == TypeOK /\ RunInv /\ StartedInv /\ [Next]_vars => StartedInv'
<1> SUFFICES ASSUME TypeOK, RunInv, StartedInv, [Next]_vars PROVE StartedInv'
  OBVIOUS
<1>1. ASSUME NEW s \in Submissions, Trigger(s) PROVE StartedInv'
  <2>1. s \notin DOMAIN started BY <1>1 DEF Trigger, Goes, StartedInv
  <2>2. \A t \in Submissions : t # s => pc'[t] = pc[t] /\ overlap[t] \subseteq overlap'[t]
    BY <1>1 DEF Trigger, Goes, TypeOK
  <2> QED BY <1>1, <2>1, <2>2 DEF Trigger, StartedInv, TypeOK
<1>2. ASSUME NEW s \in Submissions,
             Find(s) \/ ResetJob(s) \/ Creates(s, "create_shared") \/ CreateSharedFails(s)
               \/ Creates(s, "create_plain") \/ CallFails(s)
      PROVE  StartedInv'
  <2>1. UNCHANGED <<started, overlap>>
    BY <1>2 DEF Find, ResetJob, Creates, CreateSharedFails, CallFails
  <2>2. \A t \in Submissions : pc[t] = "done" => pc'[t] = "done"
    BY <1>2 DEF Find, FindsNone, ResetJob, Creates, CreateSharedFails, CallFails, Goes, TypeOK
  <2> QED BY <2>1, <2>2 DEF StartedInv, TypeOK
<1>3. ASSUME NEW s \in Submissions, RunNow(s) PROVE StartedInv'
  <2> PICK j \in found[s] :
        started' = [x \in DOMAIN started \cup {s} |->
          IF x = s THEN [compute |-> definition[j], job |-> j] ELSE started[x]]
    BY <1>3 DEF RunNow
  <2>1. definition[j] \in {s} \cup overlap[s] BY <1>3 DEF RunNow, Goes, RunInv
  <2>2. \A t \in Submissions : pc[t] = "done" \/ t = s => pc'[t] = "done"
    BY <1>3 DEF RunNow, Goes, TypeOK
  <2> QED BY <1>3, <2>1, <2>2 DEF RunNow, StartedInv, TypeOK
<1>4. CASE UNCHANGED vars BY <1>4 DEF vars, StartedInv
<1> QED BY <1>1, <1>2, <1>3, <1>4, CreatesCovers DEF Next
--------------------------------------------------------------------------------
\* Overlaps and untrue reports are never taken back.
LEMMA QuietBefore == TypeOK /\ OverlapInv /\ [Next]_vars /\ Quiet' => Quiet
<1> SUFFICES ASSUME TypeOK, OverlapInv, [Next]_vars, Quiet' PROVE Quiet
  OBVIOUS
<1>1. ASSUME NEW s \in Submissions, Trigger(s) PROVE Quiet
  <2>1. \A t \in Submissions : t # s => overlap[t] \subseteq overlap'[t]
    BY <1>1 DEF Trigger, TypeOK
  <2>2. overlap[s] = {} BY <1>1 DEF Trigger, Goes, OverlapInv
  <2> QED BY <1>1, <2>1, <2>2 DEF Trigger, Quiet
<1>2. ASSUME UNCHANGED overlap, misled \subseteq misled' PROVE Quiet
  BY <1>2 DEF Quiet
<1>3. ASSUME NEW s \in Submissions,
             Find(s) \/ ResetJob(s) \/ Creates(s, "create_shared") \/ CreateSharedFails(s)
               \/ Creates(s, "create_plain") \/ RunNow(s) \/ CallFails(s)
      PROVE  UNCHANGED overlap /\ misled \subseteq misled'
  BY <1>3 DEF Find, FindsNone, ResetJob, Creates, CreateSharedFails, RunNow, CallFails
<1>4. CASE UNCHANGED vars BY <1>4 DEF vars, Quiet
<1> QED BY <1>1, <1>2, <1>3, <1>4, CreatesCovers DEF Next

LEMMA OneJobStep == TypeOK /\ OverlapInv /\ OneJobInv /\ [Next]_vars => OneJobInv'
<1> SUFFICES ASSUME TypeOK, OverlapInv, OneJobInv, [Next]_vars, Quiet'
             PROVE  /\ \A j, k \in DOMAIN definition' : j = k
                    /\ \A s \in Submissions : Creating(s)' => DOMAIN definition' = {}
  BY DEF OneJobInv
<1>q. Quiet BY QuietBefore
<1>a. \A j, k \in DOMAIN definition : j = k BY <1>q DEF OneJobInv
<1>b. \A s \in Submissions : Creating(s) => DOMAIN definition = {} BY <1>q DEF OneJobInv
<1>c. \A s, t \in Submissions : s # t /\ s \in Busy => t \notin Busy
  BY <1>q DEF Quiet, OverlapInv
<1>1. ASSUME UNCHANGED definition,
             \A s \in Submissions : Creating(s)' => Creating(s) \/ DOMAIN definition = {}
      PROVE  /\ \A j, k \in DOMAIN definition' : j = k
             /\ \A s \in Submissions : Creating(s)' => DOMAIN definition' = {}
  BY <1>1, <1>a, <1>b
<1>2. ASSUME NEW s \in Submissions, Find(s)
      PROVE  /\ UNCHANGED definition
             /\ \A t \in Submissions : Creating(t)' => Creating(t) \/ DOMAIN definition = {}
  <2>1. CASE FindsNone(s)
    <3>1. DOMAIN definition = {} BY <2>1 DEF FindsNone, Quiet
    <3> QED BY <1>2, <3>1 DEF Find
  <2>2. CASE ~FindsNone(s)
    BY <1>2, <2>2 DEF Find, Goes, Creating, TypeOK
  <2> QED BY <2>1, <2>2
<1>3. ASSUME NEW s \in Submissions, Trigger(s) \/ RunNow(s) \/ CallFails(s)
      PROVE  /\ UNCHANGED definition
             /\ \A t \in Submissions : Creating(t)' => Creating(t) \/ DOMAIN definition = {}
  BY <1>3 DEF Trigger, RunNow, CallFails, Goes, Creating, TypeOK
<1>4. ASSUME NEW s \in Submissions, CreateSharedFails(s)
      PROVE  /\ UNCHANGED definition
             /\ \A t \in Submissions : Creating(t)' => Creating(t) \/ DOMAIN definition = {}
  <2>1. UNCHANGED definition BY <1>4 DEF CreateSharedFails, Quiet
  <2> QED BY <1>4, <2>1 DEF CreateSharedFails, Goes, Creating, TypeOK
<1>5. ASSUME NEW s \in Submissions, s \in Busy, ~Creating(s)',
             \A t \in Submissions : t # s => pc'[t] = pc[t]
      PROVE  \A t \in Submissions : ~Creating(t)'
  BY <1>5, <1>c DEF Creating, Busy
<1>6. ASSUME NEW s \in Submissions, ResetJob(s)
      PROVE  /\ \A j, k \in DOMAIN definition' : j = k
             /\ \A t \in Submissions : Creating(t)' => DOMAIN definition' = {}
  <2> PICK j \in found[s] : Defined(j, s) BY <1>6 DEF ResetJob
  <2>1. pc[s] = "reset" /\ s \in Busy /\ ~Creating(s)'
    BY <1>6 DEF ResetJob, Goes, Busy, Creating, TypeOK
  <2>2. j \in DOMAIN definition /\ j \in JobIds BY <2>1 DEF TypeOK
  <2>3. DOMAIN definition' = DOMAIN definition \cup {j} BY <2>2, DefinedUpdate
  <2>4. \A t \in Submissions : ~Creating(t)' BY <1>5, <1>6, <2>1 DEF ResetJob, Goes, TypeOK
  <2> QED BY <1>a, <2>2, <2>3, <2>4
<1>7. ASSUME NEW s \in Submissions, NEW from \in {"create_shared", "create_plain"}, Creates(s, from)
      PROVE  /\ \A j, k \in DOMAIN definition' : j = k
             /\ \A t \in Submissions : Creating(t)' => DOMAIN definition' = {}
  <2> PICK j \in JobIds : FreshJob(s, j) BY <1>7 DEF Creates
  <2>1. Creating(s) /\ s \in Busy /\ ~Creating(s)'
    BY <1>7 DEF Creates, Goes, Busy, Creating, TypeOK
  <2>2. DOMAIN definition = {} BY <1>b, <2>1
  <2>3. DOMAIN definition' = DOMAIN definition \cup {j} BY DefinedUpdate DEF FreshJob
  <2>4. \A t \in Submissions : ~Creating(t)' BY <1>5, <1>7, <2>1 DEF Creates, Goes, TypeOK
  <2> QED BY <2>2, <2>3, <2>4
<1>8. CASE UNCHANGED vars BY <1>8, <1>a, <1>b DEF vars, Creating
<1> QED BY <1>1, <1>2, <1>3, <1>4, <1>6, <1>7, <1>8, CreatesCovers DEF Next
--------------------------------------------------------------------------------
\* The inductive invariant.
IInv == TypeOK /\ OverlapInv /\ RunInv /\ StartedInv /\ OneJobInv

LEMMA InitInductive == Init => IInv
<1> SUFFICES ASSUME Init PROVE IInv
  OBVIOUS
<1>1. TypeOK BY DEF Init, TypeOK, Steps
<1>2. OverlapInv /\ RunInv BY DEF Init, OverlapInv, RunInv, Busy
<1>3. StartedInv BY DEF Init, StartedInv
<1>4. OneJobInv BY DEF Init, OneJobInv, Creating
<1> QED BY <1>1, <1>2, <1>3, <1>4 DEF IInv

THEOREM Inductive == Spec => []IInv
<1>1. IInv /\ [Next]_vars => IInv'
  BY TypingStep, OverlapStep, RunStep, StartedStep, OneJobStep DEF IInv
<1> QED BY InitInductive, <1>1, PTL DEF Spec

\* The bookkeeping of the shared job keeps its types, whoever submits what.
THEOREM TypeInvariant == Spec => []TypeOK
<1>1. IInv => TypeOK BY DEF IInv
<1> QED BY Inductive, <1>1, PTL

\* _attach_compute and _ensure_forecast_job: however many submissions there are and
\* whatever call fails, a run executes on its own compute or on that of a submission
\* that was at work on the job beside it.
THEOREM ComputeIsSafe == Spec => []ComputeIsOwnOrOverlapping
<1>1. IInv => ComputeIsOwnOrOverlapping
  BY DEF IInv, StartedInv, ComputeIsOwnOrOverlapping
<1> QED BY Inductive, <1>1, PTL

\* _trigger_databricks_job: any number of submissions that never overlap share one
\* job, unless a failing call told one of them something untrue.
THEOREM OneJob == Spec => []OneJobWithoutOverlap
<1>1. IInv => OneJobWithoutOverlap
  <2> SUFFICES ASSUME IInv, Quiet PROVE Cardinality(DOMAIN definition) <= 1
    BY DEF OneJobWithoutOverlap, Quiet
  <2>1. \A j, k \in DOMAIN definition : j = k BY DEF IInv, OneJobInv
  <2>2. CASE DOMAIN definition = {} BY <2>2, FS_EmptySet
  <2>3. CASE DOMAIN definition # {}
    <3> PICK j : j \in DOMAIN definition BY <2>3
    <3>1. DOMAIN definition = {j} BY <2>1
    <3> QED BY <3>1, FS_Singleton
  <2> QED BY <2>2, <2>3
<1> QED BY Inductive, <1>1, PTL
================================================================================
