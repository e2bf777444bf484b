------------------------ MODULE ModelRegistration_proofs ------------------------
(***************************************************************************)
(* Proofs about ModelRegistration, for any winners, pool size, faults and  *)
(* number of attempts.                                                     *)
(***************************************************************************)
EXTENDS ModelRegistration, FiniteSetTheorems, TLAPS

\* What a group's thread has found out and left behind.
GroupOK(g) ==
  /\ work[g] \in Steps \ {"queued"} => g \in Forecast /\ g \notin call.published
  /\ work[g] \in Steps => g \notin erred
  /\ work[g] \in {"tagging", "reattaching", "marking"} => registry[g] > 0 /\ unmarked[g] > 0
  /\ work[g] = "done" => /\ reported[g] # "none"
                         /\ reported[g] = "failed" <=> g \notin Forecast \/ g \in erred
  /\ reported[g] = "registered" => registry[g] > 0

\* A group that may yet be marked has no version a tag should have warned of.
CountOK(g) ==
  /\ g \in call.published => g \in marks
  /\ g \notin marks => registry[g] <= unmarked[g]
  /\ work[g] \in Steps /\ g \notin call.published => registry[g] <= unmarked[g]
  /\ registry[g] <= unmarked[g] + 1

GroupInv == \A g \in Groups : GroupOK(g) /\ CountOK(g)

\* How far the caller is says how far the groups are.
CallerInv ==
  /\ call.pc \in {"idle", "reading", "dead"} => \A g \in Groups : work[g] = "idle"
  /\ call.pc = "reading" => erred = {} /\ call.next = 1
  /\ call.pc \in {"collecting", "logging"} =>
       \A i \in DOMAIN Winners : i < call.next => work[Winners[i]] = "done"
  /\ call.pc = "logging" => call.next = Len(Winners) + 1
  /\ call.pc = "draining" => \A g \in Groups : work[g] # "queued"
  /\ call.pc = "closed" => \A g \in Groups : work[g] \notin Steps

\* With a pool nothing raises unless attaching the run did.
PoolInv ==
  ~InCallersThread =>
    /\ \A g \in Groups : work[g] = "raised" => faulted
    /\ call.pc = "draining" => faulted
    /\ RunIsLogged

IInv == TypeOK /\ GroupInv /\ CallerInv /\ PoolInv
--------------------------------------------------------------------------------
LEMMA WinnersAre ==
  /\ Len(Winners) \in Nat
  /\ DOMAIN Winners = 1 .. Len(Winners)
  /\ \A i \in DOMAIN Winners : Winners[i] \in Groups
  /\ \A g \in Groups : \E i \in DOMAIN Winners : g = Winners[i]
<1>1. Winners \in Seq(Groups) BY RegistrationAssumption
<1> QED BY <1>1 DEF Groups, Range

LEMMA GoesUpdate ==
  ASSUME TypeOK, NEW g \in Groups, NEW from, NEW to, Goes(g, from, to)
  PROVE  /\ work[g] = from /\ work'[g] = to
         /\ \A h \in Groups : h # g => work'[h] = work[h]
         /\ to \in Steps \cup Ended \cup {"idle"} =>
              work' \in [Groups -> Steps \cup Ended \cup {"idle"}]
  BY DEF TypeOK, Goes

LEMMA DetachUpdate ==
  ASSUME TypeOK, NEW g \in Groups, NEW from, NEW to \in Steps \cup Ended,
         NEW status \in {"FINISHED", "FAILED"}, Detach(g, from, to, status)
  PROVE  /\ work[g] = from
         /\ \A h \in Groups : h # g => work'[h] = work[h]
         /\ work' \in [Groups -> Steps \cup Ended \cup {"idle"}]
         /\ row' \in [status: {"RUNNING", "FINISHED", "FAILED"}, summary: BOOLEAN]
         /\ faulted' \in BOOLEAN /\ (faulted => faulted')
         /\ \/ work'[g] = to
            \/ work'[g] = "raised" /\ faulted'
<1>1. CASE Goes(g, from, to) /\ row' = [row EXCEPT !.status = status] /\ UNCHANGED faulted
  BY <1>1, GoesUpdate, ZenonT(30) DEF TypeOK
<1>2. CASE Goes(g, from, "raised") /\ UNCHANGED row /\ Fault("attach")
  BY <1>2, GoesUpdate DEF TypeOK, Fault, Ended
<1> QED BY <1>1, <1>2 DEF Detach

LEMMA AttachUpdate ==
  ASSUME TypeOK, NEW g \in Groups, NEW from, NEW to \in Steps, Attach(g, from, to)
  PROVE  /\ work[g] = from
         /\ \A h \in Groups : h # g => work'[h] = work[h]
         /\ work' \in [Groups -> Steps \cup Ended \cup {"idle"}]
         /\ row' \in [status: {"RUNNING", "FINISHED", "FAILED"}, summary: BOOLEAN]
         /\ faulted' \in BOOLEAN /\ (faulted => faulted')
         /\ \/ work'[g] = to
            \/ work'[g] = "raised" /\ (InCallersThread \/ faulted')
         /\ UNCHANGED <<call, reported, marks, registry, erred, unmarked>>
<1>1. CASE ~InCallersThread /\ Goes(g, from, to) /\ row' = [row EXCEPT !.status = "RUNNING"]
           /\ UNCHANGED faulted
  BY <1>1, GoesUpdate DEF TypeOK, Attach
<1>2. CASE InCallersThread /\ Goes(g, from, "raised") /\ UNCHANGED <<row, faulted>>
  BY <1>2, GoesUpdate DEF TypeOK, Ended, Attach
<1>3. CASE Goes(g, from, "raised") /\ UNCHANGED row /\ Fault("attach")
  BY <1>3, GoesUpdate DEF TypeOK, Fault, Ended, Attach
<1> QED BY <1>1, <1>2, <1>3 DEF Attach

\* A group's thread touches nothing of another group and nothing of the caller.
LEMMA GroupFrame ==
  ASSUME TypeOK, NEW g \in Groups, GroupStep(g)
  PROVE  /\ UNCHANGED call
         /\ \A h \in Groups : h # g =>
              /\ work'[h] = work[h] /\ reported'[h] = reported[h]
              /\ registry'[h] = registry[h] /\ unmarked'[h] = unmarked[h]
              /\ h \in marks' <=> h \in marks
              /\ h \in erred' <=> h \in erred
<1>1. CASE StartGroup(g)
  BY <1>1 DEF StartGroup, TypeOK, serverVars, history
<1>2. CASE AttachToRegister(g) \/ AttachToMark(g)
  BY <1>2, AttachUpdate DEF AttachToRegister, AttachToMark, Steps
<1>3. CASE Register(g)
  BY <1>3, DetachUpdate DEF Register, TypeOK, Steps
<1>4. CASE RegisterFails(g)
  BY <1>4, DetachUpdate DEF RegisterFails, TypeOK, Ended
<1>5. CASE TagVersion(g)
  BY <1>5, GoesUpdate DEF TagVersion, serverVars, history
<1>6. CASE MarkPublished(g)
  BY <1>6, DetachUpdate DEF MarkPublished, TypeOK, Ended
<1> QED BY <1>1, <1>2, <1>3, <1>4, <1>5, <1>6 DEF GroupStep
--------------------------------------------------------------------------------
LEMMA TypingStep == TypeOK /\ GroupInv /\ [Next]_vars => TypeOK'
<1> SUFFICES ASSUME TypeOK, GroupInv, [Next]_vars PROVE TypeOK'
  OBVIOUS
<1>1. ASSUME NEW g \in Groups, StartGroup(g) PROVE TypeOK'
  BY <1>1 DEF StartGroup, TypeOK, serverVars, history, Steps, Ended
<1>2. ASSUME NEW g \in Groups, AttachToRegister(g) \/ AttachToMark(g) PROVE TypeOK'
  BY <1>2, AttachUpdate DEF AttachToRegister, AttachToMark, TypeOK, Steps
<1>3. ASSUME NEW g \in Groups, Register(g) PROVE TypeOK'
  BY <1>3, DetachUpdate DEF Register, TypeOK, Steps
<1>4. ASSUME NEW g \in Groups, RegisterFails(g) PROVE TypeOK'
  <2>1. /\ work' \in [Groups -> Steps \cup Ended \cup {"idle"}]
        /\ row' \in [status: {"RUNNING", "FINISHED", "FAILED"}, summary: BOOLEAN]
        /\ faulted' \in BOOLEAN
    BY <1>4, DetachUpdate DEF RegisterFails, Ended
  <2>2. /\ registry' \in [Groups -> Nat] /\ unmarked' \in [Groups -> Nat]
        /\ \A h \in marks : registry'[h] > 0
    <3>1. CASE UNCHANGED <<registry, unmarked>> BY <3>1 DEF TypeOK
    <3>2. CASE /\ registry' = [registry EXCEPT ![g] = @ + 1]
               /\ unmarked' = [unmarked EXCEPT ![g] = @ + 1]
      <4>1. registry' \in [Groups -> Nat] /\ unmarked' \in [Groups -> Nat] BY <3>2 DEF TypeOK
      <4>2. \A h \in marks : registry'[h] > 0 BY <3>2 DEF TypeOK
      <4> QED BY <4>1, <4>2
    <3> QED BY <1>4, <3>1, <3>2 DEF RegisterFails
  <2>3. /\ reported' \in [Groups -> {"none", "registered", "failed"}]
        /\ UNCHANGED <<call, marks>> /\ erred' \subseteq Groups
    BY <1>4 DEF RegisterFails, TypeOK
  <2> QED BY <2>1, <2>2, <2>3 DEF TypeOK
<1>5. ASSUME NEW g \in Groups, TagVersion(g) PROVE TypeOK'
  BY <1>5, GoesUpdate DEF TagVersion, TypeOK, serverVars, history, Steps
<1>6. ASSUME NEW g \in Groups, MarkPublished(g) PROVE TypeOK'
  <2>1. /\ work' \in [Groups -> Steps \cup Ended \cup {"idle"}]
        /\ row' \in [status: {"RUNNING", "FINISHED", "FAILED"}, summary: BOOLEAN]
        /\ faulted' \in BOOLEAN /\ work[g] = "marking"
    BY <1>6, DetachUpdate DEF MarkPublished, Ended
  <2>2. registry[g] > 0 /\ unmarked[g] > 0 BY <2>1 DEF GroupInv, GroupOK
  <2>3. unmarked' \in [Groups -> Nat]
    BY <1>6, <2>2 DEF MarkPublished, TypeOK
  <2>4. /\ marks' \subseteq Groups /\ UNCHANGED <<call, registry, erred>>
        /\ \A h \in marks' : registry[h] > 0
        /\ reported' \in [Groups -> {"none", "registered", "failed"}]
    BY <1>6, <2>2 DEF MarkPublished, TypeOK
  <2> QED BY <2>1, <2>3, <2>4 DEF TypeOK
<1>7. CASE ReadPublished
  <2>1. unmarked' \in [Groups -> Nat]
    <3>1. CASE UNCHANGED unmarked BY <3>1 DEF TypeOK
    <3>2. CASE unmarked' = [g \in Groups |-> unmarked[g] + IF g \in marks THEN 1 ELSE 0]
      <4>1. \A g \in Groups : unmarked[g] + (IF g \in marks THEN 1 ELSE 0) \in Nat BY DEF TypeOK
      <4> QED BY <3>2, <4>1
    <3> QED BY <1>7, <3>1, <3>2 DEF ReadPublished
  <2>2. work' \in [Groups -> Steps \cup Ended \cup {"idle"}] BY <1>7 DEF ReadPublished, Steps
  <2> QED BY <1>7, <2>1, <2>2 DEF ReadPublished, TypeOK, serverVars
<1>8. CASE Collect
  <2>1. call.next + 1 \in 1 .. Len(Winners) + 1 BY <1>8, WinnersAre DEF Collect, TypeOK
  <2> QED BY <1>8, <2>1 DEF Collect, TypeOK, serverVars, history
<1>9. CASE CollectRaises
  BY <1>9 DEF CollectRaises, TypeOK, serverVars, history, Ended
<1>10. CASE CollectedAll
  BY <1>10 DEF CollectedAll, TypeOK, serverVars, history
<1>11. CASE TrackFails
  BY <1>11 DEF TrackFails, Close, Fault, TypeOK
<1>12. CASE LogSummary
  <2>1. row' \in [status: {"RUNNING", "FINISHED", "FAILED"}, summary: BOOLEAN]
    <3>1. row \in [status: {"RUNNING", "FINISHED", "FAILED"}, summary: BOOLEAN] BY DEF TypeOK
    <3>2. CASE row' = [status |-> "FINISHED", summary |-> TRUE] BY <3>2
    <3>3. CASE row' = [row EXCEPT !.summary = TRUE] BY <3>1, <3>3
    <3>4. CASE row' = [row EXCEPT !.status = "FAILED"] BY <3>1, <3>4
    <3> QED BY <1>12, <3>2, <3>3, <3>4 DEF LogSummary
  <2>2. faulted' \in BOOLEAN BY <1>12 DEF LogSummary, Fault, TypeOK
  <2> QED BY <1>12, <2>1, <2>2 DEF LogSummary, TypeOK
<1>13. CASE StartAttempt
  <2>1. 1 \in 1 .. Len(Winners) + 1 BY WinnersAre
  <2>2. call.attempt + 1 \in 0 .. MaxAttempts
    <3>1. call.attempt \in 0 .. MaxAttempts /\ call.attempt < MaxAttempts
      BY <1>13 DEF StartAttempt, TypeOK
    <3>2. MaxAttempts \in Nat BY RegistrationAssumption
    <3> QED BY <3>1, <3>2
  <2> QED BY <1>13, <2>1, <2>2 DEF StartAttempt, TypeOK
<1>14. CASE Crash
  BY <1>14 DEF Crash, TypeOK, serverVars, history
<1>15. CASE UNCHANGED vars
  BY <1>15 DEF vars, TypeOK, serverVars, history
<1> QED BY <1>1, <1>2, <1>3, <1>4, <1>5, <1>6, <1>7, <1>8, <1>9, <1>10, <1>11, <1>12, <1>13,
           <1>14, <1>15 DEF Next, GroupStep, CallerStep

LEMMA GroupInvStep == TypeOK /\ GroupInv /\ CallerInv /\ [Next]_vars => GroupInv'
<1> SUFFICES ASSUME TypeOK, GroupInv, CallerInv, [Next]_vars PROVE GroupInv'
  OBVIOUS
<1>t. /\ \A g \in Groups : registry[g] \in Nat /\ unmarked[g] \in Nat
      /\ \A g \in marks : registry[g] > 0
  BY DEF TypeOK
<1>a. ASSUME NEW g \in Groups, GroupStep(g), GroupOK(g)' /\ CountOK(g)' PROVE GroupInv'
  <2> SUFFICES ASSUME NEW h \in Groups, h # g PROVE GroupOK(h)' /\ CountOK(h)'
    BY <1>a DEF GroupInv
  <2>1. GroupOK(h) /\ CountOK(h) BY DEF GroupInv
  <2> QED BY <1>a, <2>1, GroupFrame DEF GroupOK, CountOK
<1>1. ASSUME NEW g \in Groups, StartGroup(g) PROVE GroupInv'
  <2>1. GroupOK(g) /\ CountOK(g) BY DEF GroupInv
  <2>2. UNCHANGED <<call, registry, marks, erred, unmarked>>
    BY <1>1 DEF StartGroup, serverVars, history
  <2>3. work[g] = "queued" BY <1>1 DEF StartGroup
  <2>4. CASE g \in Forecast /\ g \notin call.published
    <3>1. work'[g] = "attaching" /\ reported'[g] = reported[g]
      BY <1>1, <2>4 DEF StartGroup, TypeOK
    <3>2. GroupOK(g)' /\ CountOK(g)' BY <2>1, <2>2, <2>3, <2>4, <3>1 DEF GroupOK, CountOK, Steps
    <3> QED BY <1>1, <1>a, <3>2 DEF GroupStep
  <2>5. CASE ~(g \in Forecast /\ g \notin call.published)
    <3>1. work'[g] = "done" /\ reported'[g] = IF g \in Forecast THEN "registered" ELSE "failed"
      BY <1>1, <2>5 DEF StartGroup, TypeOK
    <3>2. g \notin erred BY <2>1, <2>3 DEF GroupOK, Steps
    <3>3. g \in Forecast => registry[g] > 0 BY <1>t, <2>1, <2>5 DEF CountOK
    <3>4. GroupOK(g)' /\ CountOK(g)'
      BY <2>1, <2>2, <2>3, <3>1, <3>2, <3>3 DEF GroupOK, CountOK, Steps
    <3> QED BY <1>1, <1>a, <3>4 DEF GroupStep
  <2> QED BY <2>4, <2>5
<1>2. ASSUME NEW g \in Groups, AttachToRegister(g) \/ AttachToMark(g) PROVE GroupInv'
  <2>1. GroupOK(g) /\ CountOK(g) BY DEF GroupInv
  <2>2. UNCHANGED <<call, reported, registry, marks, erred, unmarked>>
    BY <1>2 DEF AttachToRegister, AttachToMark, Attach
  <2>3. \/ work[g] = "attaching" /\ work'[g] \in {"uploading", "raised"}
        \/ work[g] = "reattaching" /\ work'[g] \in {"marking", "raised"}
    BY <1>2, AttachUpdate DEF AttachToRegister, AttachToMark, Steps
  <2>4. GroupOK(g)' /\ CountOK(g)' BY <2>1, <2>2, <2>3 DEF GroupOK, CountOK, Steps
  <2> QED BY <1>2, <1>a, <2>4 DEF GroupStep
<1>3. ASSUME NEW g \in Groups, Register(g) PROVE GroupInv'
  <2>1. GroupOK(g) /\ CountOK(g) BY DEF GroupInv
  <2>2. UNCHANGED <<call, reported, marks, erred>> BY <1>3 DEF Register
  <2>3. work[g] = "uploading" /\ work'[g] \in {"tagging", "raised"}
    BY <1>3, DetachUpdate DEF Register, Steps
  <2>4. registry'[g] = registry[g] + 1 /\ unmarked'[g] = unmarked[g] + 1
    BY <1>3 DEF Register, TypeOK
  <2>5. GroupOK(g)' /\ CountOK(g)' BY <1>t, <2>1, <2>2, <2>3, <2>4 DEF GroupOK, CountOK, Steps
  <2> QED BY <1>3, <1>a, <2>5 DEF GroupStep
<1>4. ASSUME NEW g \in Groups, RegisterFails(g) PROVE GroupInv'
  <2>1. GroupOK(g) /\ CountOK(g) BY DEF GroupInv
  <2>2. UNCHANGED <<call, marks>> /\ g \in erred' BY <1>4 DEF RegisterFails
  <2>3. work[g] = "uploading" /\ work'[g] \in {"done", "raised"}
    BY <1>4, DetachUpdate DEF RegisterFails, Ended
  <2>4. reported'[g] = IF work'[g] = "done" THEN "failed" ELSE reported[g]
    BY <1>4 DEF RegisterFails, TypeOK
  <2>5. \/ registry'[g] = registry[g] /\ unmarked'[g] = unmarked[g]
        \/ registry'[g] = registry[g] + 1 /\ unmarked'[g] = unmarked[g] + 1
    BY <1>4 DEF RegisterFails, TypeOK
  <2>6. GroupOK(g)' /\ CountOK(g)'
    BY <1>t, <2>1, <2>2, <2>3, <2>4, <2>5 DEF GroupOK, CountOK, Steps
  <2> QED BY <1>4, <1>a, <2>6 DEF GroupStep
<1>5. ASSUME NEW g \in Groups, TagVersion(g) PROVE GroupInv'
  <2>1. GroupOK(g) /\ CountOK(g) BY DEF GroupInv
  <2>2. work[g] = "tagging" /\ work'[g] = "reattaching" BY <1>5, GoesUpdate DEF TagVersion
  <2>3. GroupOK(g)' /\ CountOK(g)'
    BY <1>5, <2>1, <2>2 DEF TagVersion, serverVars, history, GroupOK, CountOK, Steps
  <2> QED BY <1>5, <1>a, <2>3 DEF GroupStep
<1>6. ASSUME NEW g \in Groups, MarkPublished(g) PROVE GroupInv'
  <2>1. GroupOK(g) /\ CountOK(g) BY DEF GroupInv
  <2>2. UNCHANGED <<call, registry, erred>> BY <1>6 DEF MarkPublished
  <2>3. work[g] = "marking" /\ work'[g] \in {"done", "raised"}
    BY <1>6, DetachUpdate DEF MarkPublished, Ended
  <2>4. reported'[g] = IF work'[g] = "done" THEN "registered" ELSE reported[g]
    BY <1>6 DEF MarkPublished, TypeOK
  <2>5. /\ g \in marks' \/ (marks' = marks /\ unmarked'[g] = unmarked[g])
        /\ marks \subseteq marks' /\ unmarked'[g] >= unmarked[g] - 1
        /\ unmarked'[g] \in Int
    BY <1>6, <1>t DEF MarkPublished, TypeOK
  <2>6. /\ registry[g] <= unmarked[g] /\ registry[g] > 0
        /\ g \in Forecast /\ g \notin call.published /\ g \notin erred
    BY <2>1, <2>3 DEF GroupOK, CountOK, Steps
  <2>7. GroupOK(g)' /\ CountOK(g)'
    BY <1>t, <2>2, <2>3, <2>4, <2>5, <2>6 DEF GroupOK, CountOK, Steps
  <2> QED BY <1>6, <1>a, <2>7 DEF GroupStep
<1>7. CASE ReadPublished
  <2> SUFFICES ASSUME NEW g \in Groups PROVE GroupOK(g)' /\ CountOK(g)'
    BY DEF GroupInv
  <2>1. GroupOK(g) /\ CountOK(g) BY DEF GroupInv
  <2>2. erred = {} /\ call.pc = "reading" BY <1>7 DEF ReadPublished, CallerInv
  <2>3. UNCHANGED <<reported, registry, marks, erred>> /\ work'[g] = "queued"
    BY <1>7 DEF ReadPublished, serverVars
  <2>4. CASE call'.published = marks /\ UNCHANGED unmarked
    BY <1>t, <2>1, <2>2, <2>3, <2>4 DEF GroupOK, CountOK, Steps
  <2>5. CASE /\ call'.published = call.published
             /\ unmarked' = [h \in Groups |-> unmarked[h] + IF h \in marks THEN 1 ELSE 0]
    <3>1. unmarked'[g] = unmarked[g] + IF g \in marks THEN 1 ELSE 0 BY <2>5
    <3> QED BY <1>t, <2>1, <2>2, <2>3, <2>5, <3>1 DEF GroupOK, CountOK, Steps
  <2> QED BY <1>7, <2>4, <2>5 DEF ReadPublished, TypeOK
<1>8. ASSUME UNCHANGED <<reported, registry, marks, erred, unmarked>>,
             call'.published = call.published,
             \A g \in Groups : work'[g] \in {work[g], "idle", "cancelled"}
      PROVE  GroupInv'
  BY <1>8 DEF GroupInv, GroupOK, CountOK, Steps
<1>9. CASE CallerStep /\ ~ReadPublished
  <2>1. /\ UNCHANGED <<reported, registry, marks, erred, unmarked>>
        /\ call'.published = call.published
    BY <1>9 DEF CallerStep, Collect, CollectRaises, CollectedAll, TrackFails, LogSummary, Close,
                serverVars, history, TypeOK
  <2>2. \A g \in Groups : work'[g] \in {work[g], "cancelled"}
    BY <1>9 DEF CallerStep, Collect, CollectRaises, CollectedAll, TrackFails, LogSummary
  <2> QED BY <1>8, <2>1, <2>2
<1>10. CASE StartAttempt
  <2> SUFFICES ASSUME NEW g \in Groups PROVE GroupOK(g)' /\ CountOK(g)'
    BY DEF GroupInv
  <2>1. CountOK(g) BY DEF GroupInv
  <2> QED BY <1>10, <2>1 DEF StartAttempt, GroupOK, CountOK, Steps
<1>11. CASE Crash
  BY <1>8, <1>11 DEF Crash, serverVars, history, TypeOK
<1>12. CASE UNCHANGED vars
  BY <1>8, <1>12 DEF vars, serverVars, history
<1> QED BY <1>1, <1>2, <1>3, <1>4, <1>5, <1>6, <1>7, <1>9, <1>10, <1>11, <1>12
        DEF Next, GroupStep
--------------------------------------------------------------------------------
\* A group that is done stays done until the next attempt; the caller moves past it
\* only then, and ends only once nobody is left at work.
LEMMA CallerStepInv == TypeOK /\ CallerInv /\ [Next]_vars => CallerInv'
<1> SUFFICES ASSUME TypeOK, CallerInv, [Next]_vars PROVE CallerInv'
  OBVIOUS
<1> USE DEF Steps
<1>1. ASSUME NEW g \in Groups, GroupStep(g) PROVE CallerInv'
  <2>1. UNCHANGED call /\ \A h \in Groups : h # g => work'[h] = work[h]
    BY <1>1, GroupFrame
  <2>2. work[g] \in Steps /\ work'[g] # "queued" /\ work'[g] # "idle"
    <3>1. CASE StartGroup(g) BY <3>1 DEF StartGroup, TypeOK
    <3>2. CASE AttachToRegister(g) \/ AttachToMark(g)
      BY <3>2, AttachUpdate DEF AttachToRegister, AttachToMark
    <3>3. CASE Register(g) BY <3>3, DetachUpdate DEF Register
    <3>4. CASE RegisterFails(g) BY <3>4, DetachUpdate DEF RegisterFails, Ended
    <3>5. CASE TagVersion(g) BY <3>5, GoesUpdate DEF TagVersion
    <3>6. CASE MarkPublished(g) BY <3>6, DetachUpdate DEF MarkPublished, Ended
    <3> QED BY <1>1, <3>1, <3>2, <3>3, <3>4, <3>5, <3>6 DEF GroupStep
  <2>3. call.pc = "reading" => erred' = {} BY <2>2 DEF CallerInv
  <2>4. \A i \in DOMAIN Winners : work[Winners[i]] = "done" => work'[Winners[i]] = "done"
    BY <2>1, <2>2, WinnersAre
  <2> QED BY <2>1, <2>2, <2>3, <2>4 DEF CallerInv
<1>2. CASE ReadPublished
  <2>1. call'.pc = "collecting" /\ call'.next = call.next /\ work' = [g \in Groups |-> "queued"]
    BY <1>2 DEF ReadPublished, TypeOK
  <2>2. call.next = 1 BY <1>2 DEF ReadPublished, CallerInv
  <2> QED BY <2>1, <2>2, WinnersAre DEF CallerInv
<1>3. CASE Collect
  <2>1. call'.pc = "collecting" /\ call'.next = call.next + 1 /\ UNCHANGED work
    BY <1>3 DEF Collect, TypeOK
  <2>2. ASSUME NEW i \in DOMAIN Winners, i < call.next + 1
        PROVE  work[Winners[i]] = "done"
    <3>1. i = call.next \/ i < call.next BY <2>2, WinnersAre DEF TypeOK
    <3> QED BY <1>3, <3>1 DEF Collect, CallerInv
  <2> QED BY <2>1, <2>2 DEF CallerInv
<1>4. CASE CollectRaises
  <2>1. call'.pc = "draining" BY <1>4 DEF CollectRaises, TypeOK
  <2>2. \A g \in Groups : work'[g] # "queued" BY <1>4 DEF CollectRaises
  <2> QED BY <2>1, <2>2 DEF CallerInv
<1>5. CASE CollectedAll
  <2>1. call'.pc = "logging" /\ call'.next = call.next /\ UNCHANGED work
    BY <1>5 DEF CollectedAll, TypeOK
  <2> QED BY <1>5, <2>1 DEF CollectedAll, CallerInv
<1>6. CASE TrackFails
  <2>1. call'.pc = "closed" /\ UNCHANGED work BY <1>6 DEF TrackFails, Close, TypeOK
  <2>2. \A g \in Groups : work[g] \notin Steps BY <1>6 DEF TrackFails, CallerInv, Busy
  <2> QED BY <2>1, <2>2 DEF CallerInv
<1>7. CASE LogSummary
  <2>1. call'.pc = "closed" /\ UNCHANGED work BY <1>7 DEF LogSummary, TypeOK
  <2>2. ASSUME NEW g \in Groups PROVE work[g] = "done"
    <3>1. PICK i \in DOMAIN Winners : g = Winners[i] BY WinnersAre
    <3>2. i < call.next BY <1>7, WinnersAre DEF LogSummary, CallerInv
    <3> QED BY <1>7, <3>1, <3>2 DEF LogSummary, CallerInv
  <2> QED BY <2>1, <2>2 DEF CallerInv
<1>8. CASE StartAttempt BY <1>8 DEF StartAttempt, CallerInv
<1>9. CASE Crash
  <2>1. call'.pc = "dead" BY <1>9 DEF Crash, TypeOK
  <2> QED BY <1>9, <2>1 DEF Crash, CallerInv
<1>10. CASE UNCHANGED vars BY <1>10 DEF vars, history, CallerInv
<1> QED BY <1>1, <1>2, <1>3, <1>4, <1>5, <1>6, <1>7, <1>8, <1>9, <1>10 DEF Next, CallerStep

\* The workers' reopening and closing of the run is over before the caller closes it.
LEMMA PoolStep == TypeOK /\ CallerInv /\ PoolInv /\ [Next]_vars => PoolInv'
<1> SUFFICES ASSUME TypeOK, CallerInv, PoolInv, [Next]_vars, ~InCallersThread
             PROVE  /\ \A g \in Groups : work'[g] = "raised" => faulted'
                    /\ call'.pc = "draining" => faulted'
                    /\ RunIsLogged'
  BY DEF PoolInv, InCallersThread, Workers
<1>p. /\ \A g \in Groups : work[g] = "raised" => faulted
      /\ call.pc = "draining" => faulted
      /\ RunIsLogged
  BY DEF PoolInv
<1>1. ASSUME NEW g \in Groups, GroupStep(g)
      PROVE  /\ \A h \in Groups : work'[h] = "raised" => faulted'
             /\ call'.pc = "draining" => faulted'
             /\ RunIsLogged'
  <2>1. UNCHANGED call /\ \A h \in Groups : h # g => work'[h] = work[h]
    BY <1>1, GroupFrame
  <2>2. (faulted => faulted') /\ (work'[g] = "raised" => faulted') /\ work[g] \in Steps
    <3> USE DEF Steps
    <3>1. CASE StartGroup(g) BY <3>1 DEF StartGroup, TypeOK, history
    <3>2. CASE AttachToRegister(g) \/ AttachToMark(g)
      BY <3>2, AttachUpdate DEF AttachToRegister, AttachToMark
    <3>3. CASE Register(g) BY <3>3, DetachUpdate DEF Register
    <3>4. CASE RegisterFails(g) BY <3>4, DetachUpdate DEF RegisterFails, Ended
    <3>5. CASE TagVersion(g) BY <3>5, GoesUpdate DEF TagVersion, history
    <3>6. CASE MarkPublished(g) BY <3>6, DetachUpdate DEF MarkPublished, Ended
    <3> QED BY <1>1, <3>1, <3>2, <3>3, <3>4, <3>5, <3>6 DEF GroupStep
  <2>3. call.pc # "closed" BY <2>2 DEF CallerInv
  <2> QED BY <1>p, <2>1, <2>2, <2>3 DEF RunIsLogged
<1>2. CASE ReadPublished \/ Collect \/ CollectedAll
  <2>1. call'.pc \in {"collecting", "logging"} /\ UNCHANGED faulted
    BY <1>2 DEF ReadPublished, Collect, CollectedAll, history, TypeOK
  <2>2. \A g \in Groups : work'[g] = "raised" => work[g] = "raised"
    BY <1>2 DEF ReadPublished, Collect, CollectedAll
  <2> QED BY <1>p, <2>1, <2>2 DEF RunIsLogged
<1>3. CASE CollectRaises
  <2>1. call'.pc = "draining" /\ UNCHANGED faulted BY <1>3 DEF CollectRaises, history, TypeOK
  <2>2. call.next \in DOMAIN Winners BY <1>3, WinnersAre DEF CollectRaises, TypeOK
  <2>3. faulted BY <1>3, <1>p, <2>2, WinnersAre DEF CollectRaises
  <2> QED BY <2>1, <2>3 DEF RunIsLogged
<1>4. CASE TrackFails
  <2>1. faulted BY <1>4, <1>p DEF TrackFails
  <2>2. faulted' BY <1>4, <2>1 DEF TrackFails, Close, Fault
  <2> QED BY <2>2 DEF RunIsLogged
<1>5. CASE LogSummary
  <2>1. call'.pc = "closed" /\ UNCHANGED work BY <1>5 DEF LogSummary, TypeOK
  <2>2. faulted' \/ (UNCHANGED faulted /\ row' = [status |-> "FINISHED", summary |-> TRUE])
    BY <1>5 DEF LogSummary, Fault
  <2>3. faulted => faulted' BY <2>2
  <2> QED BY <1>p, <2>1, <2>2, <2>3 DEF RunIsLogged
<1>6. CASE StartAttempt BY <1>6 DEF StartAttempt, RunIsLogged
<1>7. CASE Crash
  <2>1. call'.pc = "dead" BY <1>7 DEF Crash, TypeOK
  <2> QED BY <1>7, <2>1 DEF Crash, RunIsLogged
<1>8. CASE UNCHANGED vars BY <1>8, <1>p DEF vars, serverVars, history, RunIsLogged
<1> QED BY <1>1, <1>2, <1>3, <1>4, <1>5, <1>6, <1>7, <1>8 DEF Next, CallerStep
--------------------------------------------------------------------------------
LEMMA InitInductive == Init => IInv
<1> SUFFICES ASSUME Init PROVE IInv
  OBVIOUS
<1>1. TypeOK
  <2>1. 1 \in 1 .. Len(Winners) + 1 /\ 0 \in 0 .. MaxAttempts
    BY WinnersAre, RegistrationAssumption
  <2> QED BY <2>1 DEF Init, TypeOK
<1>2. GroupInv BY DEF Init, GroupInv, GroupOK, CountOK, Steps
<1>3. CallerInv BY DEF Init, CallerInv
<1>4. PoolInv BY DEF Init, PoolInv, RunIsLogged
<1> QED BY <1>1, <1>2, <1>3, <1>4 DEF IInv

THEOREM Inductive == Spec => []IInv
<1>1. IInv /\ [Next]_vars => IInv'
  BY TypingStep, GroupInvStep, CallerStepInv, PoolStep DEF IInv
<1> QED BY InitInductive, <1>1, PTL DEF Spec

\* register_winner_models() and its threads keep their types, whatever fails.
THEOREM TypeInvariant == Spec => []TypeOK
<1>1. IInv => TypeOK BY DEF IInv
<1> QED BY Inductive, <1>1, PTL

\* published_versions() and mark_published(): however often the task is started again
\* and whatever fails, a group's second version is owed to a mark that was not left
\* or could not be read.
THEOREM VersionsAreNotDuplicated == Spec => []NoDuplicateVersions
<1>1. IInv => NoDuplicateVersions
  BY DEF IInv, GroupInv, CountOK, NoDuplicateVersions
<1> QED BY Inductive, <1>1, PTL

\* register_winner_models(): for any number of groups and workers, the summary tells
\* the truth about every group.
THEOREM SummaryIsTrue == Spec => []ReportsAreTrue
<1>1. IInv => ReportsAreTrue
  <2> SUFFICES ASSUME IInv, call.pc = "logging", NEW g \in Groups
               PROVE  /\ reported[g] # "none"
                      /\ reported[g] = "registered" => registry[g] > 0
                      /\ reported[g] = "failed" <=> g \notin Forecast \/ g \in erred
    BY DEF ReportsAreTrue
  <2>1. PICK i \in DOMAIN Winners : g = Winners[i] BY WinnersAre
  <2>2. i < call.next BY WinnersAre DEF IInv, CallerInv
  <2>3. work[g] = "done" BY <2>1, <2>2 DEF IInv, CallerInv
  <2> QED BY <2>3 DEF IInv, GroupInv, GroupOK
<1> QED BY Inductive, <1>1, PTL

\* track(): with a pool of workers, that is with at least two groups and two workers,
\* the run ends FINISHED with its summary logged unless attaching the run or logging
\* into it failed.
THEOREM RunIsClosed == ~InCallersThread => (Spec => []RunIsLogged)
<1> SUFFICES ASSUME ~InCallersThread PROVE Spec => []RunIsLogged
  OBVIOUS
<1>1. IInv => RunIsLogged BY DEF IInv, PoolInv
<1> QED BY Inductive, <1>1, PTL
--------------------------------------------------------------------------------
\* While the caller collects, the queue is taken from its head on, and nobody in it
\* was cancelled.
QueueInv ==
  call.pc = "collecting" =>
    /\ \A g \in Groups : work[g] \in Steps \cup {"done", "raised"}
    /\ \A i, j \in DOMAIN Winners :
         i < j /\ work[Winners[i]] = "queued" => work[Winners[j]] = "queued"

\* A worker may take this group now.
MayStart(g) ==
  /\ work[g] = "queued"
  /\ \A i, j \in DOMAIN Winners : Winners[i] = g /\ j < i => work[Winners[j]] # "queued"
  /\ Cardinality(Busy) < Workers
  /\ InCallersThread => \A h \in Groups : work[h] # "raised"

\* list(pool.map(...)): the group the caller waits for has ended, or a worker is at
\* work, or one may take that very group.
NobodyWaitsInVain ==
  call.pc = "collecting" /\ call.next <= Len(Winners) =>
    LET head == Winners[call.next]
    IN  work[head] \in {"done", "raised"} \/ Busy # {} \/ MayStart(head)

\* The steps a group has before it, and those the caller has.
Left(step) ==
  CASE step = "idle" -> 7
    [] step = "queued" -> 6
    [] step = "attaching" -> 5
    [] step = "uploading" -> 4
    [] step = "tagging" -> 3
    [] step = "reattaching" -> 2
    [] step = "marking" -> 1
    [] OTHER -> 0

CallerLeft ==
  CASE call.pc = "reading" -> Len(Winners) + 3
    [] call.pc = "collecting" -> Len(Winners) + 3 - call.next
    [] call.pc \in {"draining", "logging"} -> 1
    [] OTHER -> 0

\* A step of an attempt takes something off what the caller or a group has before
\* it, and adds to neither: register_winner_models() repeats nothing.
Advances ==
  call'.pc # "dead" /\ call'.attempt = call.attempt =>
    /\ CallerLeft' <= CallerLeft
    /\ \A g \in Groups : Left(work'[g]) <= Left(work[g])
    /\ CallerLeft' < CallerLeft \/ \E g \in Groups : Left(work'[g]) < Left(work[g])

LEMMA GroupGoes ==
  ASSUME TypeOK, NEW g \in Groups, GroupStep(g)
  PROVE  /\ work[g] \in Steps
         /\ work'[g] \in (Steps \ {"queued"}) \cup {"done", "raised"}
         /\ Left(work'[g]) < Left(work[g])
         /\ work[g] = "queued" =>
              \A i, j \in DOMAIN Winners :
                Winners[i] = g /\ j < i => work[Winners[j]] # "queued"
<1> USE DEF Steps, Left
<1>1. CASE StartGroup(g) BY <1>1 DEF StartGroup, TypeOK
<1>2. CASE AttachToRegister(g)
  BY <1>2, AttachUpdate DEF AttachToRegister
<1>3. CASE Register(g) BY <1>3, DetachUpdate DEF Register
<1>4. CASE RegisterFails(g) BY <1>4, DetachUpdate DEF RegisterFails, Ended
<1>5. CASE TagVersion(g) BY <1>5, GoesUpdate DEF TagVersion
<1>6. CASE AttachToMark(g) BY <1>6, AttachUpdate DEF AttachToMark
<1>7. CASE MarkPublished(g) BY <1>7, DetachUpdate DEF MarkPublished, Ended
<1> QED BY <1>1, <1>2, <1>3, <1>4, <1>5, <1>6, <1>7 DEF GroupStep

LEMMA QueueStep == TypeOK /\ CallerInv /\ QueueInv /\ [Next]_vars => QueueInv'
<1> SUFFICES ASSUME TypeOK, CallerInv, QueueInv, [Next]_vars, call'.pc = "collecting"
             PROVE  /\ \A g \in Groups : work'[g] \in Steps \cup {"done", "raised"}
                    /\ \A i, j \in DOMAIN Winners :
                         i < j /\ work'[Winners[i]] = "queued" => work'[Winners[j]] = "queued"
  BY DEF QueueInv
<1>1. ASSUME NEW g \in Groups, GroupStep(g)
      PROVE  /\ \A h \in Groups : work'[h] \in Steps \cup {"done", "raised"}
             /\ \A i, j \in DOMAIN Winners :
                  i < j /\ work'[Winners[i]] = "queued" => work'[Winners[j]] = "queued"
  <2>1. UNCHANGED call /\ \A h \in Groups : h # g => work'[h] = work[h]
    BY <1>1, GroupFrame
  <2>2. /\ work'[g] \in (Steps \ {"queued"}) \cup {"done", "raised"}
        /\ work[g] = "queued" =>
             \A i, j \in DOMAIN Winners : Winners[i] = g /\ j < i => work[Winners[j]] # "queued"
    BY <1>1, GroupGoes
  <2>3. \A h \in Groups : work'[h] \in Steps \cup {"done", "raised"}
    BY <2>1, <2>2 DEF QueueInv
  <2>4. ASSUME NEW i \in DOMAIN Winners, NEW j \in DOMAIN Winners, i < j,
               work'[Winners[i]] = "queued"
        PROVE  work'[Winners[j]] = "queued"
    <3>1. Winners[i] \in Groups /\ Winners[j] \in Groups BY WinnersAre
    <3>2. Winners[i] # g BY <2>2, <2>4
    <3>3. work[Winners[i]] = "queued" BY <2>1, <2>4, <3>1, <3>2
    <3>4. work[Winners[j]] = "queued" BY <2>1, <2>4, <3>3 DEF QueueInv
    <3>5. Winners[j] # g BY <2>2, <2>4, <3>3, <3>4
    <3> QED BY <2>1, <3>1, <3>4, <3>5
  <2> QED BY <2>3, <2>4
<1>2. CASE ReadPublished
  <2>1. work' = [g \in Groups |-> "queued"] BY <1>2 DEF ReadPublished
  <2> QED BY <2>1, WinnersAre DEF Steps
<1>3. CASE Collect BY <1>3 DEF Collect, QueueInv
<1>4. CASE CollectRaises \/ CollectedAll \/ TrackFails \/ LogSummary \/ StartAttempt \/ Crash
  BY <1>4 DEF CollectRaises, CollectedAll, TrackFails, Close, LogSummary, StartAttempt, Crash,
              TypeOK
<1>5. CASE UNCHANGED vars BY <1>5 DEF vars, QueueInv
<1> QED BY <1>1, <1>2, <1>3, <1>4, <1>5 DEF Next, CallerStep

\* list(pool.map(...)): for any winners and any pool size, the bound of no worker
\* included, the caller never waits for a group that nobody can take up.
THEOREM NobodyWaits == Spec => []NobodyWaitsInVain
<1>1. Init => QueueInv BY DEF Init, QueueInv
<1>2. IInv /\ QueueInv /\ [Next]_vars => QueueInv' BY QueueStep DEF IInv
<1>3. IInv /\ QueueInv => NobodyWaitsInVain
  <2> SUFFICES ASSUME IInv, QueueInv, call.pc = "collecting", call.next <= Len(Winners),
                      work[Winners[call.next]] \notin {"done", "raised"}, Busy = {}
               PROVE  MayStart(Winners[call.next])
    BY DEF NobodyWaitsInVain
  <2>1. call.next \in DOMAIN Winners /\ Winners[call.next] \in Groups
    BY WinnersAre DEF IInv, TypeOK
  <2>2. work[Winners[call.next]] = "queued"
    BY <2>1 DEF QueueInv, Busy
  <2>3. \A i \in DOMAIN Winners : i < call.next => work[Winners[i]] = "done"
    BY DEF IInv, CallerInv
  <2>4. \A i \in DOMAIN Winners : call.next < i => work[Winners[i]] = "queued"
    BY <2>1, <2>2 DEF QueueInv
  <2>5. ASSUME NEW i \in DOMAIN Winners, NEW j \in DOMAIN Winners,
               Winners[i] = Winners[call.next], j < i
        PROVE  work[Winners[j]] # "queued"
    <3>1. i = call.next BY <2>1, <2>5, RegistrationAssumption
    <3> QED BY <2>3, <2>5, <3>1
  <2>6. ASSUME NEW h \in Groups PROVE work[h] # "raised"
    <3>1. PICK i \in DOMAIN Winners : h = Winners[i] BY WinnersAre
    <3>2. i < call.next \/ i = call.next \/ call.next < i BY <2>1, WinnersAre
    <3> QED BY <2>2, <2>3, <2>4, <3>1, <3>2
  <2>7. Cardinality(Busy) < Workers
    <3>1. Cardinality(Busy) = 0 BY FS_EmptySet
    <3>2. Workers > 0 BY WinnersAre, RegistrationAssumption DEF Workers
    <3>3. Workers \in Int BY WinnersAre, RegistrationAssumption DEF Workers
    <3> QED BY <3>1, <3>2, <3>3
  <2> QED BY <2>2, <2>5, <2>6, <2>7 DEF MayStart
<1> QED BY Inductive, <1>1, <1>2, <1>3, PTL DEF Spec

\* register_winner_models(): an attempt that is not killed takes at most as many steps
\* as its caller and its groups have before them when it starts.
THEOREM AttemptsAreFinite == Spec => [][Advances]_vars
<1>1. IInv /\ [Next]_vars => [Advances]_vars
  <2> SUFFICES ASSUME IInv, Next, call'.pc # "dead", call'.attempt = call.attempt
               PROVE  /\ CallerLeft' <= CallerLeft
                      /\ \A g \in Groups : Left(work'[g]) <= Left(work[g])
                      /\ CallerLeft' < CallerLeft
                           \/ \E g \in Groups : Left(work'[g]) < Left(work[g])
    BY DEF Advances
  <2> USE WinnersAre
  <2>l. \A step : Left(step) \in 0 .. 7 BY DEF Left
  <2>1. ASSUME NEW g \in Groups, GroupStep(g)
        PROVE  /\ CallerLeft' <= CallerLeft
               /\ \A h \in Groups : Left(work'[h]) <= Left(work[h])
               /\ Left(work'[g]) < Left(work[g])
    <3>1. UNCHANGED call /\ \A h \in Groups : h # g => work'[h] = work[h]
      BY <2>1, GroupFrame DEF IInv
    <3>2. Left(work'[g]) < Left(work[g]) BY <2>1, GroupGoes DEF IInv
    <3>3. CallerLeft' <= CallerLeft BY <3>1 DEF CallerLeft, IInv, TypeOK
    <3>4. ASSUME NEW h \in Groups PROVE Left(work'[h]) <= Left(work[h])
      <4>1. CASE h = g BY <2>l, <3>2, <4>1
      <4>2. CASE h # g BY <2>l, <3>1, <4>2
      <4> QED BY <4>1, <4>2
    <3> QED BY <3>2, <3>3, <3>4
  <2>2. CASE ReadPublished
    <3>1. call.pc = "reading" /\ call'.pc = "collecting" /\ call'.next = 1
      BY <2>2 DEF ReadPublished, IInv, TypeOK, CallerInv
    <3>2. \A g \in Groups : work[g] = "idle" /\ work'[g] = "queued"
      BY <2>2 DEF ReadPublished, IInv, CallerInv
    <3> QED BY <3>1, <3>2 DEF CallerLeft, Left
  <2>3. CASE Collect
    <3>1. /\ call.pc = "collecting" /\ call'.pc = "collecting"
          /\ call'.next = call.next + 1 /\ call.next \in Int /\ UNCHANGED work
      BY <2>3 DEF Collect, IInv, TypeOK
    <3> QED BY <2>l, <3>1 DEF CallerLeft
  <2>4. CASE CollectRaises
    <3>1. /\ call.pc = "collecting" /\ call'.pc = "draining" /\ call.next \in Int
          /\ call.next <= Len(Winners)
      BY <2>4 DEF CollectRaises, IInv, TypeOK
    <3>2. CallerLeft' < CallerLeft BY <3>1 DEF CallerLeft
    <3>3. \A g \in Groups : work'[g] = IF work[g] = "queued" THEN "cancelled" ELSE work[g]
      BY <2>4 DEF CollectRaises
    <3>4. \A g \in Groups : Left(work'[g]) <= Left(work[g])
      <4> TAKE g \in Groups
      <4>1. CASE work[g] = "queued" BY <3>3, <4>1 DEF Left
      <4>2. CASE work[g] # "queued" BY <2>l, <3>3, <4>2
      <4> QED BY <4>1, <4>2
    <3>5. CallerLeft' \in Int /\ CallerLeft \in Int BY <3>1 DEF CallerLeft
    <3> QED BY <3>2, <3>4, <3>5
  <2>5. CASE CollectedAll \/ TrackFails \/ LogSummary
    <3>1. /\ \/ /\ call.pc = "collecting" /\ call'.pc = "logging"
                /\ call.next = Len(Winners) + 1
             \/ call.pc \in {"draining", "logging"} /\ call'.pc = "closed"
          /\ UNCHANGED work
      BY <2>5 DEF CollectedAll, TrackFails, Close, LogSummary, IInv, TypeOK
    <3>2. CallerLeft' < CallerLeft /\ CallerLeft' <= CallerLeft BY <3>1 DEF CallerLeft
    <3> QED BY <2>l, <3>1, <3>2
  <2>6. CASE StartAttempt BY <2>6 DEF StartAttempt, IInv, TypeOK
  <2>7. CASE Crash BY <2>7 DEF Crash, IInv, TypeOK
  <2> QED BY <2>1, <2>2, <2>3, <2>4, <2>5, <2>6, <2>7 DEF Next, CallerStep
<1> QED BY Inductive, <1>1, PTL DEF Spec
================================================================================
