-------------------------- MODULE InsightEngine_proofs --------------------------
(***************************************************************************)
(* Proofs about InsightEngine, for any groups, facts, configurations,      *)
(* answers and number of workers.                                          *)
(***************************************************************************)
EXTENDS InsightEngine, SequenceTheorems, FiniteSetTheorems, TLAPS

\* An insight is about its own group's model, and a provider's was checked against
\* that group's figures.
Faithful(g) ==
  /\ insights[g].payload.model = Facts[g].model
  /\ insights[g].provider # "template" => Grounded(insights[g].payload, Facts[g])

\* What a group's thread holds and has left.
WorkInv ==
  \A g \in Groups :
    /\ work[g].pc \in {"call", "answer"} => work[g].sides # <<>>
    /\ work[g].pc = "answer" => trace[g] # <<>>
    /\ work[g].pc = "done" => insights[g] # NoInsight
    /\ insights[g] # NoInsight => Faithful(g)

\* The report has the groups collected so far, each of them done.
ReportInv ==
  /\ Len(report.groups) = collected
  /\ \A i \in 1 .. collected : report.groups[i] = GroupIds[i] /\ work[GroupIds[i]].pc = "done"
  /\ Returned => collected = Len(GroupIds)

IInv == TypeOK /\ WorkInv /\ ReportInv
--------------------------------------------------------------------------------
(* The operators. *)

LEMMA MinOfTwo == ASSUME NEW a \in Int, NEW b \in Int
                  PROVE  Min({a, b}) = IF a <= b THEN a ELSE b
<1> DEFINE m == IF a <= b THEN a ELSE b
<1>1. m \in {a, b} /\ \A y \in {a, b} : m =< y OBVIOUS
<1>2. \A x \in {a, b} : (\A y \in {a, b} : x =< y) => x = m OBVIOUS
<1> QED BY <1>1, <1>2 DEF Min

LEMMA MaxOfTwo == ASSUME NEW a \in Int, NEW b \in Int
                  PROVE  Max({a, b}) = IF a >= b THEN a ELSE b
<1> DEFINE m == IF a >= b THEN a ELSE b
<1>1. m \in {a, b} /\ \A y \in {a, b} : m >= y OBVIOUS
<1>2. \A x \in {a, b} : (\A y \in {a, b} : x >= y) => x = m OBVIOUS
<1> QED BY <1>1, <1>2 DEF Max

LEMMA GroupsAre ==
  /\ Len(GroupIds) \in Nat
  /\ DOMAIN GroupIds = 1 .. Len(GroupIds)
  /\ \A i \in 1 .. Len(GroupIds) : GroupIds[i] \in Groups
  /\ \A g \in Groups : \E i \in 1 .. Len(GroupIds) : g = GroupIds[i]
<1>1. GroupIds \in Seq(Groups) BY InsightAssumption
<1> QED BY <1>1 DEF Groups, Range

\* extract_numeric_facts() knows the metrics and what they are on another scale.
LEMMA NumericFactsAre ==
  ASSUME NEW g \in Groups
  PROVE  /\ GroundingMetrics(Facts[g]) \subseteq Int
         /\ GroundingMetrics(Facts[g]) # {} => NumericFacts(Facts[g]) # {}
         /\ \A k \in NumericFacts(Facts[g]) : \E m \in GroundingMetrics(Facts[g]) :
              k \in {m, 100 * m, m \div 100}
<1>1. Facts[g] \in FactRecord BY InsightAssumption
<1>2. Facts[g].wmape \in Int \cup {None} /\ Facts[g].others \subseteq Int
  BY <1>1 DEF FactRecord, Figures
<1>3. ConfidenceEstimate(Facts[g]) \in Int \cup {None} BY <1>2 DEF ConfidenceEstimate
<1> DEFINE metrics == GroundingMetrics(Facts[g])
           rescaled(f) == IF Absolute(f) <= 100 THEN 100 * f ELSE f \div 100
<1>4. metrics \subseteq Int BY <1>2, <1>3 DEF GroundingMetrics
<1>5. metrics \subseteq NumericFacts(Facts[g]) BY DEF NumericFacts
<1>6. ASSUME NEW k \in NumericFacts(Facts[g]), k \notin metrics
      PROVE  \E m \in metrics : k = rescaled(m)
  BY <1>6 DEF NumericFacts
<1> QED BY <1>4, <1>5, <1>6

\* What _matches_any() lets pass is as near as the report says.
LEMMA WithinTolerance ==
  ASSUME NEW f \in Int, NEW k \in Int, 100 * Absolute(f - k) <= Max({6000, 3 * Absolute(k)})
  PROVE  Absolute(f - k) <= Max({60, (3 * Absolute(k)) \div 100 + 1})
<1> DEFINE d == Absolute(f - k)
           a == 3 * Absolute(k)
<1>1. d \in Int /\ a \in Int BY DEF Absolute
<1>2. Max({6000, a}) = IF 6000 >= a THEN 6000 ELSE a BY <1>1, MaxOfTwo
<1>3. a \div 100 + 1 \in Int /\ a <= 100 * (a \div 100 + 1) BY <1>1
<1>4. Max({60, a \div 100 + 1}) = IF 60 >= a \div 100 + 1 THEN 60 ELSE a \div 100 + 1
  BY <1>3, MaxOfTwo
<1> HIDE DEF d, a
<1>5. 100 * d <= 6000 \/ 100 * d <= a BY <1>1, <1>2 DEF d, a
<1> QED BY <1>1, <1>3, <1>4, <1>5 DEF d, a

LEMMA ValidPayload ==
  ASSUME NEW r \in Responses, NEW g \in Groups, Verdict(r.payload, Facts[g]) = "success"
  PROVE  /\ r.payload \in Payload
         /\ r.payload.model = Facts[g].model
         /\ Grounded(r.payload, Facts[g])
<1>1. Problems(r.payload, Facts[g].model) = {} /\ Grounded(r.payload, Facts[g])
  BY DEF Verdict
<1>2. r.payload # NotJson BY <1>1, ZenonT(30) DEF Problems
<1>3. "selected_model" \notin Problems(r.payload, Facts[g].model) BY <1>1
<1>4. r.payload.model = Facts[g].model BY <1>2, <1>3 DEF Problems
<1> QED BY <1>1, <1>2, <1>4, InsightAssumption

LEMMA TemplateIsPayload == \A g \in Groups : TemplatePayload(Facts[g]) \in Payload
<1> SUFFICES ASSUME NEW g \in Groups PROVE TemplatePayload(Facts[g]) \in Payload
  OBVIOUS
<1>1. Facts[g] \in FactRecord BY InsightAssumption
<1> DEFINE facts == Facts[g]
<1> HIDE DEF facts
<1>2. /\ facts.model \in STRING /\ facts.wmape \in Int \cup {None}
      /\ facts.rejected \in Nat /\ facts.candidates \in Nat /\ facts.caveats \in Nat
      /\ facts.told \subseteq Int
  BY <1>1 DEF FactRecord, Figures, facts
<1>3. Min({6, facts.rejected}) \in Nat /\ Min({3, facts.caveats}) \in Nat BY <1>2, MinOfTwo
<1>4. ConfidenceEstimate(facts) \in Figures BY <1>2 DEF ConfidenceEstimate, Figures
<1>5. (IF facts.fallback THEN {100 * facts.candidates}
       ELSE IF facts.wmape = None THEN {}
       ELSE {facts.wmape, ((facts.wmape + 50) \div 100) * 100}) \subseteq Int
  BY <1>2
<1> QED BY <1>2, <1>3, <1>4, <1>5 DEF TemplatePayload, Payload, facts

LEMMA ProvidersAre == ASSUME TypeOK
                      PROVE  Providers \in Seq(Sides) /\ (Available => Providers # <<>>)
<1>1. config.sides \subseteq Sides BY InsightAssumption DEF TypeOK, Config
<1>2. <<"primary">> \in Seq(Sides) /\ <<"fallback">> \in Seq(Sides) /\ <<>> \in Seq(Sides)
  BY DEF Sides
<1>3. Providers \in Seq(Sides) BY <1>2 DEF Providers
<1>4. Available => "primary" \in config.sides \/ "fallback" \in config.sides
  BY <1>1 DEF Available, Sides
<1>5. "primary" \in config.sides => Len(Providers) >= 1 BY <1>2 DEF Providers
<1>6. "fallback" \in config.sides => Len(Providers) >= 1 BY <1>2 DEF Providers
<1> QED BY <1>3, <1>4, <1>5, <1>6
--------------------------------------------------------------------------------
(* How a group's thread moves. *)

LEMMA TailLength ==
  ASSUME NEW S, NEW s \in Seq(S), s # <<>>
  PROVE  Tail(s) \in Seq(S) /\ Len(Tail(s)) = Len(s) - 1
  OBVIOUS

LEMMA LongTail ==
  ASSUME NEW S, NEW s \in Seq(S), Len(s) > 1
  PROVE  Tail(s) # <<>>
<1>1. s # <<>> BY EmptySeq
<1>2. Tail(s) \in Seq(S) /\ Len(Tail(s)) = Len(s) - 1 BY <1>1, TailLength
<1> DEFINE t == Tail(s)
<1>3. Len(t) > 0 BY <1>2
<1>4. Len(<<>>) = 0 BY EmptySeq
<1> HIDE DEF t
<1>5. t # <<>> BY <1>3, <1>4
<1> QED BY <1>5 DEF t

LEMMA BusyWork ==
  ASSUME TypeOK, NEW g \in Groups, work[g].pc # "queued"
  PROVE  work[g] \in Work
  BY DEF TypeOK, Idle

LEMMA NextProviderUpdate ==
  ASSUME TypeOK, NEW g \in Groups, work[g] \in Work, work[g].sides # <<>>, NextProvider(g)
  PROVE  /\ work' \in [Groups -> Work \cup {Idle}]
         /\ \A h \in Groups : h # g => work'[h] = work[h]
         /\ work'[g].pc \in {"call", "template"}
         /\ work'[g].pc = "call" => work'[g].sides # <<>>
<1>1. work[g].sides \in Seq(Sides) BY DEF Work
<1>2. Tail(work[g].sides) \in Seq(Sides) BY <1>1
<1>3. Len(work[g].sides) > 1 => Tail(work[g].sides) # <<>> BY <1>1, LongTail
<1> DEFINE next == [pc |-> IF Len(work[g].sides) > 1 THEN "call" ELSE "template",
                    sides |-> Tail(work[g].sides), attempt |-> 1]
<1>4. 1 \in 1 .. MaxRetries + 1 BY InsightAssumption
<1>5. next \in Work BY <1>2, <1>4 DEF Work, Steps
<1>6. work' = [work EXCEPT ![g] = next] BY DEF NextProvider
<1> QED BY <1>3, <1>5, <1>6 DEF TypeOK

LEMMA RetryUpdate ==
  ASSUME TypeOK, NEW g \in Groups, work[g] \in Work, work[g].sides # <<>>, Retry(g)
  PROVE  /\ work' \in [Groups -> Work \cup {Idle}]
         /\ \A h \in Groups : h # g => work'[h] = work[h]
         /\ work'[g].pc \in {"call", "template"}
         /\ work'[g].pc = "call" => work'[g].sides # <<>>
<1>1. CASE work[g].attempt <= MaxRetries
  <2>1. work[g].attempt + 1 \in 1 .. MaxRetries + 1 BY <1>1, InsightAssumption DEF Work
  <2> DEFINE next == [work[g] EXCEPT !.pc = "call", !.attempt = @ + 1]
  <2>2. next \in Work /\ next.pc = "call" /\ next.sides = work[g].sides
    BY <2>1 DEF Work, Steps
  <2>3. work' = [work EXCEPT ![g] = next] BY <1>1 DEF Retry
  <2> QED BY <2>2, <2>3 DEF TypeOK
<1>2. CASE ~(work[g].attempt <= MaxRetries)
  BY <1>2, NextProviderUpdate DEF Retry
<1> QED BY <1>1, <1>2

\* Records keep the calls in their type.
LEMMA RecordUpdate ==
  ASSUME TypeOK, NEW g \in Groups, trace[g] # <<>>, NEW call \in Call, Record(g, call)
  PROVE  /\ trace' \in [Groups -> Seq(Call)]
         /\ \A h \in Groups : trace[h] # <<>> => trace'[h] # <<>>
<1>1. trace[g] \in Seq(Call) BY DEF TypeOK
<1> DEFINE n == Len(trace[g])
           next == [trace[g] EXCEPT ![n] = call]
<1>2. n \in 1 .. n /\ n \in Nat BY <1>1
<1>3. next \in Seq(Call) /\ Len(next) = n BY <1>1, <1>2
<1>4. next # <<>> BY <1>2, <1>3
<1>5. trace' = [trace EXCEPT ![g] = next] BY DEF Record
<1> QED BY <1>3, <1>4, <1>5 DEF TypeOK

LEMMA TheCallType ==
  ASSUME TypeOK, NEW g \in Groups, trace[g] # <<>>
  PROVE  TheCall(g) \in Call
<1>1. trace[g] \in Seq(Call) BY DEF TypeOK
<1> QED BY <1>1 DEF TheCall, Last

\* What one step of a group's thread does, in the terms of the invariant.
GroupMoves(g) ==
  /\ UNCHANGED <<config, mode, collected, report>>
  /\ work' \in [Groups -> Work \cup {Idle}]
  /\ trace' \in [Groups -> Seq(Call)]
  /\ insights' \in [Groups -> Insight \cup {NoInsight}]
  /\ \A h \in Groups : trace[h] # <<>> => trace'[h] # <<>>
  /\ \A h \in Groups : h # g => work'[h] = work[h] /\ insights'[h] = insights[h]
  /\ work[g].pc # "done"
  /\ work'[g].pc \in {"call", "answer"} => work'[g].sides # <<>>
  /\ work'[g].pc = "answer" => trace'[g] # <<>>
  /\ work'[g].pc = "done" => insights'[g] # NoInsight
  /\ insights'[g] # NoInsight => Faithful(g)'

LEMMA ExplainMoves ==
  ASSUME TypeOK, WorkInv, NEW g \in Groups, Explain(g)
  PROVE  GroupMoves(g)
<1>w. /\ work[g].pc \in {"call", "answer"} => work[g].sides # <<>>
      /\ work[g].pc = "answer" => trace[g] # <<>>
      /\ insights[g] # NoInsight => Faithful(g)
  BY DEF WorkInv
<1>1. CASE StartCall(g)
  <2>1. work[g] \in Work /\ work[g].sides # <<>> BY <1>1, <1>w, BusyWork DEF StartCall
  <2>2. work[g].sides[1] \in Sides BY <2>1 DEF Work
  <2> DEFINE call == [side |-> work[g].sides[1], tier |-> Tier(Facts[g]),
                      attempt |-> work[g].attempt, final |-> "pending", tokens |-> None,
                      costed |-> FALSE, graded |-> "no"]
  <2>3. call \in Call BY <2>1, <2>2 DEF Call, Work, Tier, Tiers, Finals
  <2>4. trace[g] \in Seq(Call) BY DEF TypeOK
  <2> HIDE DEF call
  <2>5. Append(trace[g], call) \in Seq(Call) /\ Append(trace[g], call) # <<>> BY <2>3, <2>4
  <2>6. trace' = [trace EXCEPT ![g] = Append(@, call)] BY <1>1 DEF StartCall, call
  <2>7. /\ trace' \in [Groups -> Seq(Call)] /\ trace'[g] # <<>>
        /\ \A h \in Groups : trace[h] # <<>> => trace'[h] # <<>>
    BY <2>5, <2>6 DEF TypeOK
  <2>8. [work[g] EXCEPT !.pc = "answer"] \in Work BY <2>1 DEF Work, Steps
  <2>9. work' = [work EXCEPT ![g] = [work[g] EXCEPT !.pc = "answer"]] BY <1>1 DEF StartCall
  <2>10. /\ work' \in [Groups -> Work \cup {Idle}]
         /\ work'[g].sides = work[g].sides /\ work'[g].pc = "answer"
         /\ \A h \in Groups : h # g => work'[h] = work[h]
    BY <2>1, <2>8, <2>9 DEF TypeOK, Work
  <2>11. UNCHANGED <<config, mode, collected, report, insights>> BY <1>1 DEF StartCall
  <2>12. insights'[g] # NoInsight => Faithful(g)' BY <1>w, <2>11 DEF Faithful
  <2> QED BY <1>1, <2>1, <2>7, <2>10, <2>11, <2>12 DEF GroupMoves, StartCall, TypeOK
<1>2. CASE ProviderFails(g)
  <2>1. work[g] \in Work /\ work[g].sides # <<>> /\ trace[g] # <<>>
    BY <1>2, <1>w, BusyWork DEF ProviderFails
  <2>2. [TheCall(g) EXCEPT !.final = "provider_error"] \in Call
    BY <2>1, TheCallType DEF Call, Finals
  <2>3. /\ trace' \in [Groups -> Seq(Call)]
        /\ \A h \in Groups : trace[h] # <<>> => trace'[h] # <<>>
    BY <1>2, <2>1, <2>2, RecordUpdate DEF ProviderFails
  <2>4. UNCHANGED <<config, mode, collected, report, insights>> BY <1>2 DEF ProviderFails
  <2>5. insights'[g] # NoInsight => Faithful(g)' BY <1>w, <2>4 DEF Faithful
  <2> QED BY <1>2, <2>1, <2>3, <2>4, <2>5, NextProviderUpdate DEF GroupMoves, ProviderFails, TypeOK
<1>3. CASE UseTemplate(g)
  <2>1. work[g] \in Work BY <1>3, BusyWork DEF UseTemplate
  <2> DEFINE insight == [provider |-> "template", payload |-> TemplatePayload(Facts[g]),
                         grounded |-> Grounded(TemplatePayload(Facts[g]), Facts[g]), retries |-> 0]
  <2>2. insight \in Insight BY TemplateIsPayload, InsightAssumption DEF Insight, Grounded
  <2>3. insights' = [insights EXCEPT ![g] = insight] BY <1>3 DEF UseTemplate
  <2>4. insight.payload.model = Facts[g].model BY DEF TemplatePayload
  <2>5. insight # NoInsight BY DEF NoInsight
  <2> HIDE DEF insight
  <2>6. /\ insights' \in [Groups -> Insight \cup {NoInsight}]
        /\ insights'[g] = insight
        /\ \A h \in Groups : h # g => insights'[h] = insights[h]
    BY <2>2, <2>3 DEF TypeOK
  <2>7. [work[g] EXCEPT !.pc = "done"] \in Work BY <2>1 DEF Work, Steps
  <2>8. work' = [work EXCEPT ![g] = [work[g] EXCEPT !.pc = "done"]] BY <1>3 DEF UseTemplate
  <2>9. /\ work' \in [Groups -> Work \cup {Idle}] /\ work'[g].pc = "done"
        /\ \A h \in Groups : h # g => work'[h] = work[h]
    BY <2>1, <2>7, <2>8 DEF TypeOK, Work
  <2>10. Faithful(g)' BY <2>4, <2>6 DEF Faithful, insight
  <2> QED BY <1>3, <2>5, <2>6, <2>9, <2>10 DEF GroupMoves, UseTemplate, TypeOK
<1>4. ASSUME NEW r \in Responses, Answer(g, r) PROVE GroupMoves(g)
  <2>1. work[g] \in Work /\ work[g].sides # <<>> /\ trace[g] # <<>> /\ work[g].pc = "answer"
    BY <1>4, <1>w, BusyWork DEF Answer
  <2> DEFINE verdict == Verdict(r.payload, Facts[g])
             call == [TheCall(g) EXCEPT
                        !.final = verdict, !.tokens = r.tokens, !.costed = Costed(r, g),
                        !.graded = CASE verdict = "success" -> "grounded"
                                     [] verdict = "blocked_ungrounded" -> "ungrounded"
                                     [] OTHER -> "no"]
  <2>2. verdict \in {"success", "validation_failed", "blocked_ungrounded"} BY DEF Verdict
  <2>3. r.tokens \in Nat \cup {None} BY InsightAssumption
  <2>4. Costed(r, g) \in BOOLEAN BY DEF Costed
  <2> HIDE DEF verdict
  <2>5. call \in Call /\ call.side = TheCall(g).side /\ call.attempt = TheCall(g).attempt
    BY <2>1, <2>2, <2>3, <2>4, TheCallType DEF Call, Finals
  <2>6. Record(g, call) BY <1>4 DEF Answer, verdict
  <2> HIDE DEF call
  <2>7. /\ trace' \in [Groups -> Seq(Call)]
        /\ \A h \in Groups : trace[h] # <<>> => trace'[h] # <<>>
    BY <2>1, <2>5, <2>6, RecordUpdate
  <2>8. UNCHANGED <<config, mode, collected, report>> BY <1>4 DEF Answer
  <2>9. CASE verdict = "success"
    <3> DEFINE insight == [provider |-> call.side, payload |-> r.payload, grounded |-> TRUE,
                           retries |-> call.attempt - 1]
    <3>1. /\ insights' = [insights EXCEPT ![g] = insight]
          /\ work' = [work EXCEPT ![g] = [work[g] EXCEPT !.pc = "done"]]
      BY <1>4, <2>9 DEF Answer, verdict, call
    <3>2. /\ r.payload \in Payload /\ r.payload.model = Facts[g].model
          /\ Grounded(r.payload, Facts[g])
      BY <2>9, ValidPayload DEF verdict
    <3>3. call.attempt - 1 \in 0 .. MaxRetries /\ call.side \in Sides
      BY <2>5, InsightAssumption DEF Call
    <3>4. insight \in Insight BY <3>2, <3>3 DEF Insight
    <3>5. insight # NoInsight BY DEF NoInsight
    <3>6. insight.payload = r.payload OBVIOUS
    <3> HIDE DEF insight
    <3>7. /\ insights' \in [Groups -> Insight \cup {NoInsight}] /\ insights'[g] = insight
          /\ \A h \in Groups : h # g => insights'[h] = insights[h]
      BY <3>1, <3>4 DEF TypeOK
    <3>8. [work[g] EXCEPT !.pc = "done"] \in Work BY <2>1 DEF Work, Steps
    <3>9. /\ work' \in [Groups -> Work \cup {Idle}] /\ work'[g].pc = "done"
          /\ \A h \in Groups : h # g => work'[h] = work[h]
      BY <2>1, <3>1, <3>8 DEF TypeOK, Work
    <3>10. Faithful(g)' BY <3>2, <3>6, <3>7 DEF Faithful
    <3> QED BY <2>1, <2>7, <2>8, <3>5, <3>7, <3>9, <3>10 DEF GroupMoves
  <2>10. CASE verdict # "success"
    <3>1. Retry(g) /\ UNCHANGED insights BY <1>4, <2>10 DEF Answer, verdict
    <3>2. insights'[g] # NoInsight => Faithful(g)' BY <1>w, <3>1 DEF Faithful
    <3>3. insights' \in [Groups -> Insight \cup {NoInsight}] BY <3>1 DEF TypeOK
    <3> QED BY <2>1, <2>7, <2>8, <3>1, <3>2, <3>3, RetryUpdate DEF GroupMoves
  <2> QED BY <2>9, <2>10
<1> QED BY <1>1, <1>2, <1>3, <1>4 DEF Explain
--------------------------------------------------------------------------------
LEMMA ReportMoves ==
  ASSUME TypeOK, NEW g \in Groups
  PROVE  /\ Append(report.groups, g) \in Seq(Groups)
         /\ Len(Append(report.groups, g)) = Len(report.groups) + 1
         /\ Append(report.groups, g)[Len(report.groups) + 1] = g
         /\ \A i \in 1 .. Len(report.groups) : Append(report.groups, g)[i] = report.groups[i]
<1>1. report.groups \in Seq(Groups) BY DEF TypeOK
<1> QED BY <1>1

\* Of the steps that are not a group's own.
LEMMA BeginMoves ==
  ASSUME TypeOK, NEW i \in DOMAIN GroupIds, BeginGroup(i)
  PROVE  /\ UNCHANGED <<config, mode, collected, trace, insights>>
         /\ report' \in [status: Statuses, available: BOOLEAN, exhausted: BOOLEAN, groups: Seq(Groups)]
         /\ report'.groups = report.groups
         /\ work' \in [Groups -> Work \cup {Idle}]
         /\ \A h \in Groups : work'[h] = work[h]
                              \/ /\ work[h] = Idle
                                 /\ work'[h].pc \in {"template", "call", "raised"}
                                 /\ work'[h].pc = "call" => work'[h].sides # <<>>
<1> DEFINE g == GroupIds[i]
           pc == IF ~Available \/ Exhausted THEN "template" ELSE RenderPrompt
           next == [pc |-> pc, sides |-> Providers, attempt |-> 1]
<1>1. g \in Groups BY GroupsAre
<1>2. pc \in {"template", "call", "raised"} /\ (pc = "call" => Available) BY DEF RenderPrompt
<1>3. 1 \in 1 .. MaxRetries + 1 BY InsightAssumption
<1>4. next \in Work /\ (next.pc = "call" => next.sides # <<>>)
      /\ next.pc \in {"template", "call", "raised"}
  BY <1>2, <1>3, ProvidersAre DEF Work, Steps
<1>5. work' = [work EXCEPT ![g] = next] /\ work[g] = Idle BY DEF BeginGroup
<1>6. report' = [report EXCEPT !.exhausted = @ \/ Exhausted]
      /\ UNCHANGED <<config, mode, collected, trace, insights>>
  BY DEF BeginGroup
<1>7. /\ report' \in [status: Statuses, available: BOOLEAN, exhausted: BOOLEAN, groups: Seq(Groups)]
      /\ report'.groups = report.groups
  BY <1>6 DEF TypeOK
<1> HIDE DEF next, g
<1>8. work' \in [Groups -> Work \cup {Idle}] BY <1>1, <1>4, <1>5 DEF TypeOK
<1>9. \A h \in Groups : work'[h] = work[h] \/ (h = g /\ work'[h] = next)
  BY <1>1, <1>5 DEF TypeOK
<1> QED BY <1>4, <1>5, <1>6, <1>7, <1>8, <1>9

LEMMA ExceptionMoves ==
  ASSUME TypeOK, TakeException
  PROVE  /\ mode' = "raising" /\ UNCHANGED <<config, collected, trace, insights, report>>
         /\ work' \in [Groups -> Work \cup {Idle}]
         /\ \A h \in Groups : work'[h] = work[h] \/ (work[h] = Idle /\ work'[h].pc = "cancelled")
<1>1. collected \in 0 .. Len(GroupIds) /\ collected < Len(GroupIds) BY DEF TypeOK, TakeException
<1>2. NextGroup \in Groups BY <1>1, GroupsAre DEF NextGroup
<1>3. work[NextGroup] \in Work BY <1>2, BusyWork DEF TakeException
<1> DEFINE next == [work[NextGroup] EXCEPT !.pc = "cancelled"]
<1>4. next \in Work /\ next.pc = "cancelled" BY <1>3 DEF Work, Steps
<1>5. work' = [g \in Groups |-> IF work[g] = Idle THEN next ELSE work[g]] BY DEF TakeException
<1> HIDE DEF next
<1> QED BY <1>4, <1>5 DEF TakeException, TypeOK

LEMMA TypingStep == TypeOK /\ WorkInv /\ [Next]_vars => TypeOK'
<1> SUFFICES ASSUME TypeOK, WorkInv, [Next]_vars PROVE TypeOK'
  OBVIOUS
<1>1. CASE Generate BY <1>1 DEF Generate, TypeOK, Statuses
<1>2. ASSUME NEW i \in DOMAIN GroupIds, BeginGroup(i) PROVE TypeOK'
  BY <1>2, BeginMoves DEF TypeOK
<1>3. ASSUME NEW g \in Groups, Explain(g) PROVE TypeOK'
  BY <1>3, ExplainMoves DEF GroupMoves, TypeOK
<1>4. CASE TakeResult
  <2>1. collected \in 0 .. Len(GroupIds) /\ collected < Len(GroupIds)
    BY <1>4 DEF TypeOK, TakeResult
  <2>2. NextGroup \in Groups /\ collected + 1 \in 0 .. Len(GroupIds)
    BY <2>1, GroupsAre DEF NextGroup
  <2>3. report' \in [status: Statuses, available: BOOLEAN, exhausted: BOOLEAN, groups: Seq(Groups)]
    BY <1>4, <2>2, ReportMoves DEF TakeResult, TypeOK
  <2> QED BY <1>4, <2>2, <2>3 DEF TakeResult, TypeOK
<1>5. CASE TakeException BY <1>5, ExceptionMoves DEF TypeOK
<1>6. CASE Raise BY <1>6 DEF Raise, TypeOK
<1>7. CASE Assemble
  <2>1. report' \in [status: Statuses, available: BOOLEAN, exhausted: BOOLEAN, groups: Seq(Groups)]
    BY <1>7 DEF Assemble, TypeOK, Statuses
  <2> QED BY <1>7, <2>1 DEF Assemble, TypeOK
<1>8. CASE UNCHANGED vars BY <1>8 DEF vars, TypeOK
<1> QED BY <1>1, <1>2, <1>3, <1>4, <1>5, <1>6, <1>7, <1>8 DEF Next, Collecting

LEMMA WorkStep == TypeOK /\ WorkInv /\ [Next]_vars => WorkInv'
<1> SUFFICES ASSUME TypeOK, WorkInv, [Next]_vars PROVE WorkInv'
  OBVIOUS
<1>a. ASSUME UNCHANGED <<trace, insights>>,
             \A h \in Groups : \/ work'[h] = work[h]
                               \/ /\ work'[h].pc \in {"template", "call", "raised", "cancelled"}
                                  /\ work'[h].pc = "call" => work'[h].sides # <<>>
      PROVE  WorkInv'
  BY <1>a DEF WorkInv, Faithful
<1>1. CASE Generate \/ TakeResult \/ Raise \/ Assemble \/ UNCHANGED vars
  BY <1>1, <1>a DEF Generate, TakeResult, Raise, Assemble, vars
<1>2. ASSUME NEW i \in DOMAIN GroupIds, BeginGroup(i) PROVE WorkInv'
  BY <1>2, <1>a, BeginMoves
<1>3. CASE TakeException BY <1>3, <1>a, ExceptionMoves
<1>4. ASSUME NEW g \in Groups, Explain(g) PROVE WorkInv'
  <2>1. GroupMoves(g) BY <1>4, ExplainMoves
  <2> SUFFICES ASSUME NEW h \in Groups
               PROVE  /\ work'[h].pc \in {"call", "answer"} => work'[h].sides # <<>>
                      /\ work'[h].pc = "answer" => trace'[h] # <<>>
                      /\ work'[h].pc = "done" => insights'[h] # NoInsight
                      /\ insights'[h] # NoInsight => Faithful(h)'
    BY DEF WorkInv
  <2>2. CASE h = g BY <2>1, <2>2 DEF GroupMoves
  <2>3. CASE h # g BY <2>1, <2>3 DEF GroupMoves, WorkInv, Faithful
  <2> QED BY <2>2, <2>3
<1> QED BY <1>1, <1>2, <1>3, <1>4 DEF Next, Collecting

LEMMA ReportStep == IInv /\ [Next]_vars => ReportInv'
<1> SUFFICES ASSUME IInv, [Next]_vars PROVE ReportInv'
  OBVIOUS
<1> USE DEF IInv
<1>t. collected \in 0 .. Len(GroupIds) /\ Len(GroupIds) \in Nat BY GroupsAre DEF TypeOK
<1>g. ASSUME NEW i \in 1 .. collected
      PROVE  GroupIds[i] \in Groups /\ work[GroupIds[i]].pc = "done"
  <2>1. i \in 1 .. Len(GroupIds) BY <1>t
  <2>2. GroupIds[i] \in Groups BY <2>1, GroupsAre
  <2> QED BY <2>2 DEF ReportInv
<1>a. ASSUME UNCHANGED <<config, collected>>, report'.groups = report.groups,
             Returned' => Returned \/ collected = Len(GroupIds),
             \A g \in Groups : work[g].pc = "done" => work'[g].pc = "done"
      PROVE  ReportInv'
  BY <1>a, <1>g DEF ReportInv
<1>1. CASE Generate
  <2>1. ~Returned' BY <1>1 DEF Generate, Returned
  <2>2. report'.groups = report.groups BY <1>1 DEF Generate, TypeOK
  <2> QED BY <1>1, <1>a, <2>1, <2>2 DEF Generate
<1>2. ASSUME NEW i \in DOMAIN GroupIds, BeginGroup(i) PROVE ReportInv'
  <2>1. \A g \in Groups : work[g].pc = "done" => work'[g].pc = "done"
    BY <1>2, BeginMoves DEF Idle
  <2> QED BY <1>2, <1>a, <2>1, BeginMoves DEF Returned
<1>3. ASSUME NEW g \in Groups, Explain(g) PROVE ReportInv'
  BY <1>3, <1>a, ExplainMoves DEF GroupMoves, Returned
<1>4. CASE TakeResult
  <2>1. collected < Len(GroupIds) /\ mode = "generating" /\ UNCHANGED <<mode, work>>
        /\ collected' = collected + 1 /\ work[NextGroup].pc = "done"
    BY <1>4 DEF TakeResult
  <2>2. NextGroup \in Groups BY <1>t, <2>1, GroupsAre DEF NextGroup
  <2>3. report'.groups = Append(report.groups, NextGroup) BY <1>4 DEF TakeResult, TypeOK
  <2>4. Len(report'.groups) = collected + 1 BY <2>2, <2>3, ReportMoves DEF ReportInv
  <2>5. ASSUME NEW i \in 1 .. collected + 1
        PROVE  report'.groups[i] = GroupIds[i] /\ work'[GroupIds[i]].pc = "done"
    <3>1. CASE i = collected + 1 BY <2>1, <2>2, <2>3, <3>1, ReportMoves DEF ReportInv, NextGroup
    <3>2. CASE i \in 1 .. collected BY <2>1, <2>2, <2>3, <3>2, ReportMoves DEF ReportInv
    <3> QED BY <1>t, <3>1, <3>2
  <2> QED BY <2>1, <2>4, <2>5 DEF ReportInv, Returned
<1>5. CASE TakeException
  <2>1. \A g \in Groups : work[g].pc = "done" => work'[g].pc = "done"
    BY <1>5, ExceptionMoves DEF Idle
  <2> QED BY <1>5, <1>a, <2>1, ExceptionMoves DEF Returned
<1>6. CASE Raise BY <1>6, <1>a DEF Raise, Returned
<1>7. CASE Assemble
  <2>1. report'.groups = report.groups BY <1>7 DEF Assemble, TypeOK
  <2> QED BY <1>7, <1>a, <2>1 DEF Assemble
<1>8. CASE UNCHANGED vars BY <1>8, <1>a DEF vars, Returned
<1> QED BY <1>1, <1>2, <1>3, <1>4, <1>5, <1>6, <1>7, <1>8 DEF Next, Collecting
--------------------------------------------------------------------------------
LEMMA InitInductive == Init => IInv
<1> SUFFICES ASSUME Init PROVE IInv
  OBVIOUS
<1>1. TypeOK BY GroupsAre DEF Init, TypeOK, Statuses
<1>2. WorkInv BY DEF Init, WorkInv, Idle
<1>3. ReportInv BY DEF Init, ReportInv, Returned
<1> QED BY <1>1, <1>2, <1>3 DEF IInv

THEOREM Inductive == Spec => []IInv
<1>1. IInv /\ [Next]_vars => IInv' BY TypingStep, WorkStep, ReportStep DEF IInv
<1> QED BY InitInductive, <1>1, PTL DEF Spec

\* The insight engine's results, calls and report keep their types, whatever the
\* deployments answer.
THEOREM TypeInvariant == Spec => []TypeOK
<1>1. IInv => TypeOK BY DEF IInv
<1> QED BY Inductive, <1>1, PTL

\* generate(): for any groups and any number of workers the report is in the order of
\* the groups, each insight is about its own group's winner, and a figure in the summary
\* a provider wrote, other than a whole number up to twelve, is near one of that group's
\* metrics.
THEOREM GroupsAreExplained == Spec => []EveryGroupIsExplainedInOrder
<1>1. IInv => EveryGroupIsExplainedInOrder
  <2> SUFFICES ASSUME IInv, Returned PROVE
        /\ report.groups = GroupIds
        /\ \A g \in Groups :
             /\ insights[g] # NoInsight /\ insights[g].payload.model = Facts[g].model
             /\ insights[g].provider # "template" /\ GroundingMetrics(Facts[g]) # {} =>
                  \A f \in insights[g].payload.figures :
                    SmallInteger(f) \/ \E m \in GroundingMetrics(Facts[g]) : Near(f, m)
    BY DEF EveryGroupIsExplainedInOrder
  <2>1. collected = Len(GroupIds) BY DEF IInv, ReportInv
  <2>2. report.groups = GroupIds
    <3>1. report.groups \in Seq(Groups) /\ GroupIds \in Seq(Groups)
      BY InsightAssumption DEF IInv, TypeOK
    <3>2. Len(report.groups) = Len(GroupIds)
          /\ \A i \in 1 .. Len(GroupIds) : report.groups[i] = GroupIds[i]
      BY <2>1 DEF IInv, ReportInv
    <3> QED BY <3>1, <3>2
  <2>3. ASSUME NEW g \in Groups
        PROVE  insights[g] # NoInsight /\ Faithful(g)
    <3>1. work[g].pc = "done" BY <2>1, GroupsAre DEF IInv, ReportInv
    <3> QED BY <3>1 DEF IInv, WorkInv
  <2>4. ASSUME NEW g \in Groups, insights[g].provider # "template", GroundingMetrics(Facts[g]) # {},
               NEW f \in insights[g].payload.figures, ~SmallInteger(f)
        PROVE  \E m \in GroundingMetrics(Facts[g]) : Near(f, m)
    <3>1. insights[g] \in Insight BY <2>3 DEF IInv, TypeOK
    <3>2. f \in Int BY <2>4, <3>1 DEF Insight, Payload
    <3>3. Matches(f, NumericFacts(Facts[g])) BY <2>3, <2>4 DEF Faithful, Grounded
    <3>4. PICK k \in NumericFacts(Facts[g]) : 100 * Absolute(f - k) <= Max({6000, 3 * Absolute(k)})
      <4>1. NumericFacts(Facts[g]) # {} BY <2>4, NumericFactsAre
      <4> QED BY <3>3, <4>1 DEF Matches
    <3>5. PICK m \in GroundingMetrics(Facts[g]) : m \in Int /\ k \in {m, 100 * m, m \div 100}
      BY NumericFactsAre
    <3>6. k \in Int BY <3>5
    <3>7. Absolute(f - k) <= Max({60, (3 * Absolute(k)) \div 100 + 1})
      BY <3>2, <3>4, <3>6, WithinTolerance
    <3> DEFINE Off(j) == Absolute(f - j) <= Max({60, (3 * Absolute(j)) \div 100 + 1})
    <3>8. Off(k) BY <3>7
    <3> HIDE DEF Off
    <3>9. \E j \in {m, 100 * m, m \div 100} : Off(j) BY <3>5, <3>8
    <3>10. Near(f, m) BY <3>9 DEF Near, Off
    <3> QED BY <3>5, <3>10
  <2> QED BY <2>2, <2>3, <2>4 DEF Faithful
<1> QED BY Inductive, <1>1, PTL
--------------------------------------------------------------------------------
(* The calls on record: how often a deployment was asked, and what came of it. *)

Mine(calls, side) == {i \in 1 .. Len(calls) : calls[i].side = side}

GaveUp(calls) == \A i \in 1 .. Len(calls) : calls[i].final \notin {"pending", "success"}

Told(calls, insight) ==
  IF insight.provider = "template" THEN GaveUp(calls)
  ELSE /\ calls # <<>> /\ Last(calls).final = "success" /\ Last(calls).side = insight.provider
       /\ Cardinality(Mine(calls, insight.provider)) = insight.retries + 1
       /\ \A i \in 1 .. Len(calls) : calls[i].final = "success" => i = Len(calls)

\* The calls of the side under way, none of one still to try.
OnSides(calls, sides, made) ==
  /\ Cardinality(Mine(calls, sides[1])) = made
  /\ Len(sides) <= 2
  /\ Len(sides) = 2 => sides[1] # sides[2] /\ Mine(calls, sides[2]) = {}

StoryOf(g) ==
  LET calls == trace[g]
  IN  /\ work[g].pc = "queued" => calls = <<>>
      /\ insights[g] # NoInsight => work[g].pc = "done" /\ Told(calls, insights[g])
      /\ work[g].pc \in {"queued", "call", "template", "raised", "cancelled"} => GaveUp(calls)
      /\ work[g].pc = "call" => OnSides(calls, work[g].sides, work[g].attempt - 1)
      /\ work[g].pc = "answer" =>
           /\ OnSides(calls, work[g].sides, work[g].attempt)
           /\ Last(calls).side = work[g].sides[1] /\ Last(calls).attempt = work[g].attempt
           /\ \A i \in 1 .. Len(calls) - 1 : calls[i].final \notin {"pending", "success"}

StoryInv == \A g \in Groups : StoryOf(g)

LEMMA CallsAreFinite ==
  ASSUME NEW calls \in Seq(Call), NEW side
  PROVE  IsFiniteSet(Mine(calls, side)) /\ Cardinality(Mine(calls, side)) \in Nat
<1>1. Len(calls) \in Nat OBVIOUS
<1>2. IsFiniteSet(1 .. Len(calls)) BY <1>1, FS_Interval
<1>3. Mine(calls, side) \subseteq 1 .. Len(calls) BY DEF Mine
<1>4. IsFiniteSet(Mine(calls, side)) BY <1>2, <1>3, FS_Subset
<1> QED BY <1>4, FS_CardinalityType

LEMMA NoCalls ==
  /\ GaveUp(<<>>)
  /\ \A side : Mine(<<>>, side) = {} /\ Cardinality(Mine(<<>>, side)) = 0
<1>1. Len(<<>>) = 0 /\ 1 .. 0 = {} OBVIOUS
<1>2. \A side : Mine(<<>>, side) = {} BY <1>1 DEF Mine
<1> QED BY <1>1, <1>2, FS_EmptySet DEF GaveUp

\* What a call made and a call recorded do to a group's list.
Grown(new, calls, call) == new = Append(calls, call)
Patched(new, calls, call) == new = [calls EXCEPT ![Len(calls)] = call]

LEMMA CallMade ==
  ASSUME NEW calls \in Seq(Call), NEW call \in Call, NEW new, Grown(new, calls, call)
  PROVE  /\ new \in Seq(Call) /\ new # <<>> /\ Last(new) = call
         /\ Cardinality(Mine(new, call.side)) = Cardinality(Mine(calls, call.side)) + 1
         /\ \A side : side # call.side => Mine(new, side) = Mine(calls, side)
         /\ GaveUp(calls) => \A i \in 1 .. Len(new) - 1 : new[i].final \notin {"pending", "success"}
<1>1. PICK n \in Nat : n = Len(calls) OBVIOUS
<1>2. /\ new \in Seq(Call) /\ Len(new) = n + 1 /\ new[n + 1] = call
      /\ \A i \in 1 .. n : new[i] = calls[i]
  BY <1>1 DEF Grown
<1>3. new # <<>> /\ Last(new) = call
  <2>1. Len(<<>>) = 0 OBVIOUS
  <2> QED BY <1>1, <1>2, <2>1 DEF Last
<1>4. 1 .. n + 1 = (1 .. n) \cup {n + 1} /\ n + 1 \notin 1 .. n BY <1>1
<1>5. Mine(new, call.side) = Mine(calls, call.side) \cup {n + 1}
  BY <1>1, <1>2, <1>4 DEF Mine
<1>6. n + 1 \notin Mine(calls, call.side) BY <1>1, <1>4 DEF Mine
<1>7. Cardinality(Mine(new, call.side)) = Cardinality(Mine(calls, call.side)) + 1
  BY <1>5, <1>6, CallsAreFinite, FS_AddElement
<1>8. \A side : side # call.side => Mine(new, side) = Mine(calls, side)
  BY <1>1, <1>2, <1>4 DEF Mine
<1>9. GaveUp(calls) => \A i \in 1 .. Len(new) - 1 : new[i].final \notin {"pending", "success"}
  <2>1. Len(new) - 1 = n BY <1>1, <1>2
  <2> QED BY <1>1, <1>2, <2>1 DEF GaveUp
<1> QED BY <1>2, <1>3, <1>7, <1>8, <1>9

LEMMA CallRecorded ==
  ASSUME NEW calls \in Seq(Call), calls # <<>>, NEW call \in Call, call.side = Last(calls).side,
         NEW new, Patched(new, calls, call)
  PROVE  /\ Len(new) = Len(calls) /\ Len(calls) \in Nat /\ new # <<>> /\ Last(new) = call
         /\ \A i \in 1 .. Len(calls) - 1 : new[i] = calls[i]
         /\ \A side : Mine(new, side) = Mine(calls, side)
         /\ /\ \A i \in 1 .. Len(calls) - 1 : calls[i].final \notin {"pending", "success"}
            /\ call.final \notin {"pending", "success"}
            => GaveUp(new)
<1>1. PICK n \in Nat : n = Len(calls) /\ n > 0
  <2>1. Len(calls) \in Nat /\ Len(calls) # 0 OBVIOUS
  <2> QED BY <2>1
<1>2. /\ new \in Seq(Call) /\ Len(new) = n /\ new[n] = call
      /\ \A i \in 1 .. n : i # n => new[i] = calls[i]
  BY <1>1 DEF Patched
<1>3. new # <<>> /\ Last(new) = call
  <2>1. Len(<<>>) = 0 OBVIOUS
  <2> QED BY <1>1, <1>2, <2>1 DEF Last
<1>4. \A i \in 1 .. n - 1 : i \in 1 .. n /\ i # n BY <1>1
<1>5. \A i \in 1 .. n : i = n \/ i \in 1 .. n - 1 BY <1>1
<1>6. call.side = calls[n].side BY <1>1 DEF Last
<1>7. \A side : Mine(new, side) = Mine(calls, side)
  <2>1. \A i \in 1 .. n : new[i].side = calls[i].side BY <1>2, <1>6
  <2> QED BY <1>1, <1>2, <2>1 DEF Mine
<1> QED BY <1>1, <1>2, <1>3, <1>4, <1>5, <1>7 DEF GaveUp

\* A group begun has the providers before it.
LEMMA BeginSides ==
  ASSUME TypeOK, NEW i \in DOMAIN GroupIds, BeginGroup(i)
  PROVE  /\ work[GroupIds[i]] = Idle
         /\ work'[GroupIds[i]].sides = Providers /\ work'[GroupIds[i]].attempt = 1
         /\ work'[GroupIds[i]].pc = "call" => ~Exhausted
         /\ work'[GroupIds[i]].pc \in {"template", "call", "raised"}
         /\ \A h \in Groups : h # GroupIds[i] => work'[h] = work[h]
<1> DEFINE g == GroupIds[i]
           pc == IF ~Available \/ Exhausted THEN "template" ELSE RenderPrompt
           next == [pc |-> pc, sides |-> Providers, attempt |-> 1]
<1>1. g \in Groups BY GroupsAre
<1>2. pc \in {"template", "call", "raised"} /\ (pc = "call" => ~Exhausted) BY DEF RenderPrompt
<1>3. work' = [work EXCEPT ![g] = next] /\ work[g] = Idle BY DEF BeginGroup
<1>4. next.pc = pc /\ next.sides = Providers /\ next.attempt = 1 OBVIOUS
<1> HIDE DEF next, g, pc
<1>5. work'[g] = next /\ \A h \in Groups : h # g => work'[h] = work[h]
  BY <1>1, <1>3 DEF TypeOK
<1> QED BY <1>2, <1>3, <1>4, <1>5 DEF g

LEMMA SidesDiffer == Len(Providers) <= 2 /\ (Len(Providers) = 2 => Providers[1] # Providers[2])
<1>1. CASE "primary" \in config.sides /\ "fallback" \in config.sides BY <1>1 DEF Providers
<1>2. CASE "primary" \in config.sides /\ "fallback" \notin config.sides BY <1>2 DEF Providers
<1>3. CASE "primary" \notin config.sides BY <1>3 DEF Providers
<1> QED BY <1>1, <1>2, <1>3

\* The other groups' calls are theirs.
LEMMA OthersUntouched ==
  ASSUME TypeOK, NEW g \in Groups, Explain(g)
  PROVE  \A h \in Groups : h # g => trace'[h] = trace[h]
<1>1. CASE StartCall(g) BY <1>1 DEF StartCall, TypeOK
<1>2. CASE ProviderFails(g) BY <1>2 DEF ProviderFails, Record, TypeOK
<1>3. CASE UseTemplate(g) BY <1>3 DEF UseTemplate
<1>4. ASSUME NEW r \in Responses, Answer(g, r) PROVE \A h \in Groups : h # g => trace'[h] = trace[h]
  BY <1>4 DEF Answer, Record, TypeOK
<1> QED BY <1>1, <1>2, <1>3, <1>4 DEF Explain

LEMMA SidesLeft ==
  ASSUME NEW sides \in Seq(Sides), NEW calls, NEW made, OnSides(calls, sides, made), Len(sides) > 1
  PROVE  OnSides(calls, Tail(sides), 1 - 1)
<1>1. PICK n \in Nat : n = Len(sides) OBVIOUS
<1>2. n <= 2 /\ n > 1 BY <1>1 DEF OnSides
<1>3. n = 2 BY <1>2
<1>4. Mine(calls, sides[2]) = {} BY <1>1, <1>3 DEF OnSides
<1> DEFINE rest == Tail(sides)
<1>5. Len(rest) = 1 /\ rest[1] = sides[2]
  <2>1. sides # <<>>
    <3>1. Len(<<>>) = 0 OBVIOUS
    <3>2. Len(sides) # 0 BY <1>1, <1>3
    <3> QED BY <3>1, <3>2, Zenon
  <2>2. /\ Len(Tail(sides)) = Len(sides) - 1
        /\ \A i \in 1 .. Len(Tail(sides)) : Tail(sides)[i] = sides[i + 1]
    BY <2>1, HeadTailProperties
  <2> QED BY <1>1, <1>3, <2>2
<1> HIDE DEF rest
<1>6. Cardinality(Mine(calls, rest[1])) = 1 - 1 BY <1>4, <1>5, FS_EmptySet
<1>7. Len(rest) <= 2 /\ Len(rest) # 2 BY <1>5
<1>8. OnSides(calls, rest, 1 - 1) BY <1>6, <1>7 DEF OnSides
<1> QED BY <1>8 DEF rest

\* The next provider has not been called yet; the same one is counted.
LEMMA NextStory ==
  ASSUME TypeOK, NEW g \in Groups, work[g] \in Work, work[g].sides # <<>>, NextProvider(g),
         NEW calls, NEW made, OnSides(calls, work[g].sides, made)
  PROVE  /\ work'[g].pc \in {"call", "template"}
         /\ work'[g].pc = "call" => OnSides(calls, work'[g].sides, work'[g].attempt - 1)
<1> DEFINE sides == work[g].sides
           next == [pc |-> IF Len(sides) > 1 THEN "call" ELSE "template",
                    sides |-> Tail(sides), attempt |-> 1]
<1>1. sides \in Seq(Sides) /\ Len(sides) \in Nat BY DEF Work
<1>2. work'[g] = next BY DEF NextProvider, TypeOK
<1>3. CASE Len(sides) > 1
  <2>1. OnSides(calls, Tail(sides), 1 - 1) BY <1>1, <1>3, SidesLeft
  <2>2. work'[g].pc = "call" /\ work'[g].sides = Tail(sides) /\ work'[g].attempt = 1 BY <1>2, <1>3
  <2> QED BY <2>1, <2>2
<1>4. CASE ~(Len(sides) > 1) BY <1>2, <1>4
<1> QED BY <1>3, <1>4

LEMMA RetryStory ==
  ASSUME TypeOK, NEW g \in Groups, work[g] \in Work, work[g].sides # <<>>, Retry(g),
         NEW calls, OnSides(calls, work[g].sides, work[g].attempt)
  PROVE  /\ work'[g].pc \in {"call", "template"}
         /\ work'[g].pc = "call" => OnSides(calls, work'[g].sides, work'[g].attempt - 1)
<1>1. CASE work[g].attempt <= MaxRetries
  <2>1. work[g].attempt \in Nat BY InsightAssumption DEF Work
  <2>2. work'[g] = [work[g] EXCEPT !.pc = "call", !.attempt = @ + 1] BY <1>1 DEF Retry, TypeOK
  <2>3. work'[g].pc = "call" /\ work'[g].sides = work[g].sides
        /\ work'[g].attempt = work[g].attempt + 1
    BY <2>2 DEF Work
  <2> QED BY <2>1, <2>3
<1>2. CASE ~(work[g].attempt <= MaxRetries) BY <1>2, NextStory DEF Retry
<1> QED BY <1>1, <1>2

LEMMA StoryExplain ==
  ASSUME TypeOK, WorkInv, NEW g \in Groups, StoryOf(g), Explain(g)
  PROVE  StoryOf(g)'
<1> DEFINE calls == trace[g]
           new == trace'[g]
<1>1. calls \in Seq(Call) BY DEF TypeOK
<1>2. /\ work[g].pc \in {"call", "answer"} => work[g].sides # <<>>
      /\ work[g].pc = "answer" => calls # <<>>
  BY DEF WorkInv
<1>3. work[g].pc # "done" => insights[g] = NoInsight BY DEF StoryOf
<1>4. CASE StartCall(g)
  <2>1. work[g].pc = "call" /\ work[g] \in Work /\ UNCHANGED insights
    BY <1>4, BusyWork DEF StartCall
  <2>2. work[g].sides[1] \in Sides BY <1>2, <2>1 DEF Work
  <2> DEFINE call == [side |-> work[g].sides[1], tier |-> Tier(Facts[g]),
                      attempt |-> work[g].attempt, final |-> "pending", tokens |-> None,
                      costed |-> FALSE, graded |-> "no"]
  <2>3. call \in Call BY <2>1, <2>2 DEF Call, Work, Tier, Tiers, Finals
  <2>4. call.side = work[g].sides[1] /\ call.attempt = work[g].attempt OBVIOUS
  <2>5. Grown(new, calls, call) BY <1>4 DEF StartCall, TypeOK, Grown
  <2>6. work'[g] = [work[g] EXCEPT !.pc = "answer"] BY <1>4 DEF StartCall, TypeOK
  <2>7. work'[g].pc = "answer" /\ work'[g].sides = work[g].sides /\ work'[g].attempt = work[g].attempt
    BY <2>1, <2>6 DEF Work
  <2>8. GaveUp(calls) /\ OnSides(calls, work[g].sides, work[g].attempt - 1)
    BY <2>1 DEF StoryOf
  <2>c. calls \in Seq(Call) BY <1>1
  <2> HIDE DEF call, calls, new
  <2>d. /\ new # <<>> /\ Last(new) = call
        /\ Cardinality(Mine(new, call.side)) = Cardinality(Mine(calls, call.side)) + 1
        /\ \A side : side # call.side => Mine(new, side) = Mine(calls, side)
        /\ GaveUp(calls) => \A i \in 1 .. Len(new) - 1 : new[i].final \notin {"pending", "success"}
    BY <2>c, <2>3, <2>5, CallMade, SMTT(30)
  <2>9. /\ new # <<>> /\ Last(new) = call
        /\ Cardinality(Mine(new, call.side)) = Cardinality(Mine(calls, call.side)) + 1
        /\ \A side : side # call.side => Mine(new, side) = Mine(calls, side)
        /\ \A i \in 1 .. Len(new) - 1 : new[i].final \notin {"pending", "success"}
    BY <2>d, <2>8
  <2>10. work[g].attempt \in Int BY <2>1, InsightAssumption DEF Work
  <2>11. OnSides(new, work[g].sides, work[g].attempt)
    BY <2>4, <2>8, <2>9, <2>10 DEF OnSides
  <2>12. insights'[g] = NoInsight BY <1>3, <2>1
  <2> QED BY <2>4, <2>7, <2>9, <2>11, <2>12 DEF StoryOf, new
<1>a. ASSUME work[g].pc = "answer"
      PROVE  /\ work[g] \in Work /\ TheCall(g) \in Call /\ TheCall(g) = Last(calls)
             /\ OnSides(calls, work[g].sides, work[g].attempt)
             /\ Last(calls).side = work[g].sides[1] /\ Last(calls).attempt = work[g].attempt
             /\ \A i \in 1 .. Len(calls) - 1 : calls[i].final \notin {"pending", "success"}
  BY <1>2, <1>a, BusyWork, TheCallType DEF StoryOf, TheCall
<1>b. ASSUME work[g].pc = "answer", NEW call \in Call, Record(g, call), call.side = Last(calls).side
      PROVE  /\ Len(new) = Len(calls) /\ Len(calls) \in Nat /\ new # <<>> /\ Last(new) = call
             /\ \A i \in 1 .. Len(calls) - 1 : new[i] = calls[i]
             /\ \A side : Mine(new, side) = Mine(calls, side)
             /\ OnSides(new, work[g].sides, work[g].attempt)
             /\ call.final \notin {"pending", "success"} => GaveUp(new)
  <2>1. Patched(new, calls, call) BY <1>b DEF Record, TypeOK, Patched
  <2>2. calls # <<>> BY <1>2, <1>b
  <2>3. OnSides(calls, work[g].sides, work[g].attempt)
        /\ \A i \in 1 .. Len(calls) - 1 : calls[i].final \notin {"pending", "success"}
    BY <1>a, <1>b
  <2>c. calls \in Seq(Call) /\ call \in Call /\ call.side = Last(calls).side BY <1>1, <1>b
  <2> HIDE DEF calls, new
  <2>4. /\ Len(new) = Len(calls) /\ Len(calls) \in Nat /\ new # <<>> /\ Last(new) = call
        /\ \A i \in 1 .. Len(calls) - 1 : new[i] = calls[i]
        /\ \A side : Mine(new, side) = Mine(calls, side)
        /\ /\ \A i \in 1 .. Len(calls) - 1 : calls[i].final \notin {"pending", "success"}
           /\ call.final \notin {"pending", "success"}
           => GaveUp(new)
    BY <2>c, <2>1, <2>2, CallRecorded
  <2>5. OnSides(new, work[g].sides, work[g].attempt) BY <2>3, <2>4 DEF OnSides
  <2> QED BY <2>3, <2>4, <2>5
<1>5. CASE ProviderFails(g)
  <2>1. work[g].pc = "answer" /\ UNCHANGED insights /\ NextProvider(g)
    BY <1>5 DEF ProviderFails
  <2> DEFINE call == [TheCall(g) EXCEPT !.final = "provider_error"]
  <2>2. call \in Call /\ call.side = Last(calls).side /\ call.final = "provider_error"
    BY <1>a, <2>1 DEF Call, Finals
  <2>3. Record(g, call) BY <1>5 DEF ProviderFails
  <2> HIDE DEF call, calls, new
  <2>4. GaveUp(new) /\ OnSides(new, work[g].sides, work[g].attempt) BY <1>b, <2>1, <2>2, <2>3
  <2>5. /\ work'[g].pc \in {"call", "template"}
        /\ work'[g].pc = "call" => OnSides(new, work'[g].sides, work'[g].attempt - 1)
    BY <1>2, <1>a, <2>1, <2>4, NextStory
  <2>6. insights'[g] = NoInsight BY <1>3, <2>1
  <2> QED BY <2>4, <2>5, <2>6 DEF StoryOf, new
<1>6. CASE UseTemplate(g)
  <2>1. work[g].pc = "template" /\ UNCHANGED trace BY <1>6 DEF UseTemplate
  <2>2. GaveUp(calls) BY <2>1 DEF StoryOf
  <2>3. insights'[g].provider = "template" BY <1>6 DEF UseTemplate, TypeOK
  <2>4. work[g] \in Work BY <2>1, BusyWork
  <2>5. work'[g].pc = "done" BY <1>6, <2>4 DEF UseTemplate, TypeOK, Work
  <2>6. Told(calls, insights'[g]) BY <2>2, <2>3 DEF Told
  <2> QED BY <2>1, <2>5, <2>6 DEF StoryOf
<1>7. ASSUME NEW r \in Responses, Answer(g, r) PROVE StoryOf(g)'
  <2> DEFINE verdict == Verdict(r.payload, Facts[g])
             call == [TheCall(g) EXCEPT
                        !.final = verdict, !.tokens = r.tokens, !.costed = Costed(r, g),
                        !.graded = CASE verdict = "success" -> "grounded"
                                     [] verdict = "blocked_ungrounded" -> "ungrounded"
                                     [] OTHER -> "no"]
  <2>1. work[g].pc = "answer" BY <1>7 DEF Answer
  <2>2. verdict \in {"success", "validation_failed", "blocked_ungrounded"} BY DEF Verdict
  <2>3. r.tokens \in Nat \cup {None} /\ Costed(r, g) \in BOOLEAN
    BY InsightAssumption DEF Costed
  <2>4. Record(g, call) BY <1>7 DEF Answer
  <2>5. TheCall(g) \in Call /\ TheCall(g) = Last(calls) BY <1>a, <2>1
  <2>6. verdict # "success" => Retry(g) /\ UNCHANGED insights BY <1>7 DEF Answer
  <2>7. verdict = "success" =>
          /\ insights' = [insights EXCEPT ![g] =
               [provider |-> call.side, payload |-> r.payload, grounded |-> TRUE,
                retries |-> call.attempt - 1]]
          /\ work' = [work EXCEPT ![g].pc = "done"]
    BY <1>7 DEF Answer
  <2> HIDE DEF verdict
  <2>8. /\ call \in Call /\ call.final = verdict
        /\ call.side = TheCall(g).side /\ call.attempt = TheCall(g).attempt
    BY <2>2, <2>3, <2>5 DEF Call, Finals
  <2> HIDE DEF call, calls, new
  <2>9. /\ Len(new) = Len(calls) /\ Len(calls) \in Nat /\ new # <<>> /\ Last(new) = call
        /\ \A i \in 1 .. Len(calls) - 1 : new[i] = calls[i]
        /\ \A side : Mine(new, side) = Mine(calls, side)
        /\ OnSides(new, work[g].sides, work[g].attempt)
        /\ call.final \notin {"pending", "success"} => GaveUp(new)
    BY <1>b, <2>1, <2>4, <2>5, <2>8
  <2>10. CASE verdict # "success"
    <3>1. GaveUp(new) BY <2>2, <2>8, <2>9, <2>10
    <3>2. /\ work'[g].pc \in {"call", "template"}
          /\ work'[g].pc = "call" => OnSides(new, work'[g].sides, work'[g].attempt - 1)
      BY <1>2, <1>a, <2>1, <2>6, <2>9, <2>10, RetryStory
    <3>3. insights'[g] = NoInsight BY <1>3, <2>1, <2>6, <2>10
    <3> QED BY <3>1, <3>2, <3>3 DEF StoryOf, new
  <2>11. CASE verdict = "success"
    <3>1. work[g] \in Work /\ call.side = work[g].sides[1] /\ call.attempt = work[g].attempt
      BY <1>a, <2>1, <2>5, <2>8
    <3>2. call.side \in Sides /\ call.attempt \in Nat BY <2>8, InsightAssumption DEF Call
    <3>3. insights'[g].provider = call.side /\ insights'[g].retries = call.attempt - 1
      BY <2>7, <2>11 DEF TypeOK
    <3>4. work'[g].pc = "done" BY <2>7, <2>11, <3>1 DEF TypeOK, Work
    <3>5. Cardinality(Mine(new, call.side)) = call.attempt BY <2>9, <3>1 DEF OnSides
    <3>6. Cardinality(Mine(new, call.side)) = (call.attempt - 1) + 1 BY <3>2, <3>5
    <3>7. \A i \in 1 .. Len(new) : new[i].final = "success" => i = Len(new)
      <4>1. \A i \in 1 .. Len(calls) - 1 : new[i].final # "success" BY <1>a, <2>1, <2>9
      <4>2. \A i \in 1 .. Len(calls) : i \in 1 .. Len(calls) - 1 \/ i = Len(calls) BY <2>9
      <4> QED BY <2>9, <4>1, <4>2
    <3>8. call.side # "template" BY <3>2 DEF Sides
    <3>9. Told(new, insights'[g])
      BY <2>8, <2>9, <2>11, <3>3, <3>6, <3>7, <3>8 DEF Told
    <3> QED BY <3>4, <3>9 DEF StoryOf, new
  <2> QED BY <2>10, <2>11
<1> QED BY <1>4, <1>5, <1>6, <1>7 DEF Explain

LEMMA StoryStep == IInv /\ StoryInv /\ [Next]_vars => StoryInv'
<1> SUFFICES ASSUME IInv, StoryInv, [Next]_vars, NEW h \in Groups PROVE StoryOf(h)'
  BY DEF StoryInv
<1> USE DEF IInv
<1>1. StoryOf(h) BY DEF StoryInv
<1>2. CASE UNCHANGED <<work, trace, insights>> BY <1>1, <1>2 DEF StoryOf
<1>3. CASE Generate \/ TakeResult \/ Raise \/ Assemble \/ UNCHANGED vars
  BY <1>2, <1>3 DEF Generate, TakeResult, Raise, Assemble, vars
<1>4. ASSUME NEW i \in DOMAIN GroupIds, BeginGroup(i) PROVE StoryOf(h)'
  <2>1. UNCHANGED <<trace, insights>> BY <1>4, BeginMoves
  <2>2. CASE h # GroupIds[i]
    <3>1. work'[h] = work[h] BY <1>4, <2>2, BeginSides
    <3> QED BY <1>1, <2>1, <3>1 DEF StoryOf
  <2>3. CASE h = GroupIds[i]
    <3>1. /\ work[h] = Idle /\ work'[h].sides = Providers /\ work'[h].attempt = 1
          /\ work'[h].pc \in {"template", "call", "raised"}
      BY <1>4, <2>3, BeginSides
    <3>2. trace[h] = <<>> /\ insights[h] = NoInsight BY <1>1, <3>1 DEF StoryOf, Idle
    <3>3. GaveUp(<<>>) BY NoCalls
    <3>4. OnSides(<<>>, Providers, 1 - 1)
      <4>1. Cardinality(Mine(<<>>, Providers[1])) = 1 - 1 /\ Mine(<<>>, Providers[2]) = {}
        BY NoCalls
      <4> QED BY <4>1, SidesDiffer DEF OnSides
    <3> QED BY <2>1, <3>1, <3>2, <3>3, <3>4 DEF StoryOf
  <2> QED BY <2>2, <2>3
<1>5. CASE TakeException
  <2>1. UNCHANGED <<trace, insights>> BY <1>5, ExceptionMoves
  <2>2. work'[h] = work[h] \/ (work[h] = Idle /\ work'[h].pc = "cancelled") BY <1>5, ExceptionMoves
  <2>3. work[h] = Idle => trace[h] = <<>> /\ insights[h] = NoInsight BY <1>1 DEF StoryOf, Idle
  <2> QED BY <1>1, <2>1, <2>2, <2>3, NoCalls DEF StoryOf
<1>6. ASSUME NEW g \in Groups, Explain(g) PROVE StoryOf(h)'
  <2>1. CASE h = g BY <1>1, <1>6, <2>1, StoryExplain
  <2>2. CASE h # g
    <3>1. work'[h] = work[h] /\ insights'[h] = insights[h]
      BY <1>6, <2>2, ExplainMoves DEF GroupMoves
    <3>2. trace'[h] = trace[h] BY <1>6, <2>2, OthersUntouched
    <3> QED BY <1>1, <3>1, <3>2 DEF StoryOf
  <2> QED BY <2>1, <2>2
<1> QED BY <1>3, <1>4, <1>5, <1>6 DEF Next, Collecting

LEMMA StoryInductive == Spec => []StoryInv
<1>1. Init => StoryInv
  <2> SUFFICES ASSUME Init, NEW g \in Groups PROVE StoryOf(g)
    BY DEF StoryInv
  <2>1. work[g] = Idle /\ trace[g] = <<>> /\ insights[g] = NoInsight BY DEF Init
  <2> QED BY <2>1, NoCalls DEF StoryOf, Idle
<1> QED BY <1>1, StoryStep, Inductive, PTL DEF Spec

\* "tells the whole story": for any groups, configuration and answers, the last call of a
\* group says how its insight came about, and each attempt counted is on record.
THEOREM TraceIsTrue == Spec => []TraceTellsTheStory
<1>1. IInv /\ StoryInv => TraceTellsTheStory
  <2> SUFFICES ASSUME IInv, StoryInv, NEW g \in Groups, insights[g] # NoInsight
               PROVE  LET calls == trace[g]
                          provider == insights[g].provider
                          mine == {i \in DOMAIN calls : calls[i].side = provider}
                      IN  IF provider = "template"
                          THEN \A i \in DOMAIN calls : calls[i].final \notin {"pending", "success"}
                          ELSE /\ Last(calls).final = "success" /\ Last(calls).side = provider
                               /\ Cardinality(mine) = insights[g].retries + 1
                               /\ \A i \in DOMAIN calls : calls[i].final = "success" => i = Len(calls)
    BY DEF TraceTellsTheStory, Succeeded
  <2>1. Told(trace[g], insights[g]) BY DEF StoryInv, StoryOf
  <2>2. trace[g] \in Seq(Call) BY DEF IInv, TypeOK
  <2>3. DOMAIN trace[g] = 1 .. Len(trace[g]) BY <2>2
  <2> QED BY <2>1, <2>3 DEF Told, GaveUp, Mine
<1> QED BY <1>1, Inductive, StoryInductive, PTL
--------------------------------------------------------------------------------
(* The ceiling and the cost. *)

\* With a ceiling, a group on a provider has only finished groups before it, and what
\* they spent left the headroom of a call.
SpendInv ==
  config.budget # None =>
    \A i \in 1 .. Len(GroupIds) :
      trace[GroupIds[i]] # <<>> \/ work[GroupIds[i]].pc = "call" =>
        /\ \A j \in 1 .. i - 1 : work[GroupIds[j]].pc = "done"
        /\ ~OutOfBudget(CallsOfFirst(i - 1))

\* A call has a cost only if it used tokens.
UsedIfCosted(call) == call.costed => call.tokens \notin {None, 0}

CostInv == \A g \in Groups : \A k \in 1 .. Len(trace[g]) : UsedIfCosted(trace[g][k])

LEMMA SameCalls ==
  ASSUME NEW n \in Nat, \A i \in 1 .. n : trace'[GroupIds[i]] = trace[GroupIds[i]]
  PROVE  CallsOfFirst(n)' = CallsOfFirst(n)
<1>1. \A i \in 1 .. n : CallsOf(i)' = CallsOf(i) BY DEF CallsOf
<1> QED BY <1>1 DEF CallsOfFirst

\* The groups without calls add nothing.
LEMMA NoLaterCalls ==
  ASSUME NEW n \in Nat, n <= Len(GroupIds),
         \A i \in n + 1 .. Len(GroupIds) : trace[GroupIds[i]] = <<>>
  PROVE  AllCalls = CallsOfFirst(n)
<1>1. Len(GroupIds) \in Nat BY InsightAssumption
<1>2. Len(<<>>) = 0 /\ 1 .. 0 = {} OBVIOUS
<1>3. \A i \in n + 1 .. Len(GroupIds) : CallsOf(i) = {} BY <1>2 DEF CallsOf
<1>4. \A i \in 1 .. Len(GroupIds) : i \in 1 .. n \/ i \in n + 1 .. Len(GroupIds) BY <1>1
<1>5. \A i \in 1 .. n : i \in 1 .. Len(GroupIds) BY <1>1
<1> QED BY <1>3, <1>4, <1>5 DEF AllCalls, CallsOfFirst

LEMMA CallsAreFinitelyMany == ASSUME TypeOK PROVE IsFiniteSet(AllCalls)
<1>1. Len(GroupIds) \in Nat /\ DOMAIN GroupIds = 1 .. Len(GroupIds) BY InsightAssumption
<1>2. ASSUME NEW i \in 1 .. Len(GroupIds) PROVE IsFiniteSet(CallsOf(i))
  <2> DEFINE ks == 1 .. Len(trace[GroupIds[i]])
             f == [k \in ks |-> <<i, k, trace[GroupIds[i]][k]>>]
  <2>1. GroupIds[i] \in Groups BY <1>1, GroupsAre
  <2>2. IsFiniteSet(ks) BY <2>1, FS_Interval DEF TypeOK
  <2>3. f \in [ks -> CallsOf(i)] /\ \A c \in CallsOf(i) : \E k \in ks : f[k] = c BY DEF CallsOf
  <2>4. f \in Surjection(ks, CallsOf(i)) BY <2>3 DEF Surjection
  <2> QED BY <2>2, <2>4, FS_Surjection
<1> DEFINE all == {CallsOf(i) : i \in 1 .. Len(GroupIds)}
           h == [i \in 1 .. Len(GroupIds) |-> CallsOf(i)]
<1>3. IsFiniteSet(1 .. Len(GroupIds)) BY <1>1, FS_Interval
<1>4. h \in Surjection(1 .. Len(GroupIds), all) BY DEF Surjection
<1>5. IsFiniteSet(all) BY <1>3, <1>4, FS_Surjection
<1>6. \A calls \in all : IsFiniteSet(calls) BY <1>2
<1> QED BY <1>5, <1>6, FS_UNION DEF AllCalls, CallsOfFirst

\* A group that is done does not move; and a group with calls, or on the way to one, was
\* so before, unless it has just been begun.
LEMMA GroupsSettle ==
  ASSUME IInv, [Next]_vars, NEW h \in Groups
  PROVE  /\ config' = config
         /\ work[h].pc = "done" => work'[h].pc = "done" /\ trace'[h] = trace[h]
         /\ \/ trace'[h] # <<>> \/ work'[h].pc = "call" => trace[h] # <<>> \/ work[h].pc = "call"
            \/ \E i \in DOMAIN GroupIds : BeginGroup(i) /\ h = GroupIds[i]
<1> USE DEF IInv
<1>1. CASE UNCHANGED <<config, work, trace>> BY <1>1
<1>2. CASE Generate \/ TakeResult \/ Raise \/ Assemble \/ UNCHANGED vars
  BY <1>1, <1>2 DEF Generate, TakeResult, Raise, Assemble, vars
<1>3. ASSUME NEW i \in DOMAIN GroupIds, BeginGroup(i)
      PROVE  /\ UNCHANGED <<config, trace>>
             /\ work[h].pc = "done" => work'[h] = work[h]
             /\ h # GroupIds[i] => work'[h] = work[h]
  BY <1>3, BeginMoves, BeginSides DEF Idle
<1>4. CASE TakeException BY <1>4, ExceptionMoves DEF Idle
<1>5. ASSUME NEW g \in Groups, Explain(g)
      PROVE  /\ config' = config
             /\ work[h].pc = "done" => work'[h] = work[h] /\ trace'[h] = trace[h]
             /\ trace'[h] # <<>> \/ work'[h].pc = "call" => trace[h] # <<>> \/ work[h].pc = "call"
  <2>1. config' = config /\ work[g].pc # "done" /\ (h # g => work'[h] = work[h])
    BY <1>5, ExplainMoves DEF GroupMoves
  <2>2. h # g => trace'[h] = trace[h] BY <1>5, OthersUntouched
  <2>3. work[g].pc = "answer" => trace[g] # <<>> BY DEF WorkInv
  <2>4. \/ work[g].pc \in {"call", "answer"}
        \/ UNCHANGED trace /\ work[g].pc = "template" /\ work'[g].pc # "call"
    <3>1. CASE StartCall(g) BY <3>1 DEF StartCall
    <3>2. CASE ProviderFails(g) BY <3>2 DEF ProviderFails
    <3>3. CASE UseTemplate(g)
      <4>1. work[g] \in Work BY <3>3, BusyWork DEF UseTemplate
      <4> QED BY <3>3, <4>1 DEF UseTemplate, TypeOK, Work
    <3>4. CASE \E r \in Responses : Answer(g, r) BY <3>4 DEF Answer
    <3> QED BY <1>5, <3>1, <3>2, <3>3, <3>4 DEF Explain
  <2> QED BY <2>1, <2>2, <2>3, <2>4
<1> QED BY <1>2, <1>3, <1>4, <1>5 DEF Next, Collecting

LEMMA SpendStep == IInv /\ StoryInv /\ SpendInv /\ [Next]_vars => SpendInv'
<1> SUFFICES ASSUME IInv, StoryInv, SpendInv, [Next]_vars, config'.budget # None,
                    NEW i \in 1 .. Len(GroupIds),
                    (trace[GroupIds[i]] # <<>> \/ work[GroupIds[i]].pc = "call")'
             PROVE  /\ \A j \in 1 .. i - 1 : work'[GroupIds[j]].pc = "done"
                    /\ ~OutOfBudget(CallsOfFirst(i - 1))'
  BY DEF SpendInv
<1> USE DEF IInv
<1>1. Len(GroupIds) \in Nat /\ DOMAIN GroupIds = 1 .. Len(GroupIds)
      /\ \A j \in 1 .. Len(GroupIds) : GroupIds[j] \in Groups
  BY InsightAssumption, GroupsAre
<1>2. i - 1 \in Nat /\ i - 1 <= Len(GroupIds) /\ 1 .. i - 1 \subseteq 1 .. Len(GroupIds) BY <1>1
<1>3. config' = config BY <1>1, GroupsSettle
<1>4. SUFFICES /\ \A j \in 1 .. i - 1 : work[GroupIds[j]].pc = "done"
               /\ ~OutOfBudget(CallsOfFirst(i - 1))
  <2>1. \A j \in 1 .. i - 1 : work'[GroupIds[j]].pc = "done" /\ trace'[GroupIds[j]] = trace[GroupIds[j]]
    BY <1>1, <1>2, <1>4, GroupsSettle
  <2>2. CallsOfFirst(i - 1)' = CallsOfFirst(i - 1) BY <1>2, <2>1, SameCalls
  <2>3. ~OutOfBudget(CallsOfFirst(i - 1))' BY <1>3, <1>4, <2>2 DEF OutOfBudget
  <2> QED BY <2>1, <2>3
<1>5. CASE trace[GroupIds[i]] # <<>> \/ work[GroupIds[i]].pc = "call"
  BY <1>3, <1>5 DEF SpendInv
<1>6. CASE ~(trace[GroupIds[i]] # <<>> \/ work[GroupIds[i]].pc = "call")
  <2>1. PICK b \in DOMAIN GroupIds : BeginGroup(b) /\ GroupIds[i] = GroupIds[b]
    BY <1>1, <1>6, GroupsSettle
  <2>2. i = b BY <1>1, <2>1, InsightAssumption DEF IsInjective
  <2>3. UNCHANGED trace /\ work[GroupIds[i]] = Idle /\ collected = i - 1
    <3>1. PoolSize = 1 BY <1>3 DEF PoolSize
    <3> QED BY <2>1, <2>2, <3>1 DEF BeginGroup
  <2>4. work'[GroupIds[i]].pc = "call" BY <1>6, <2>3
  <2>5. ~OutOfBudget(AllCalls) BY <2>1, <2>2, <2>4, BeginSides DEF Exhausted
  <2>6. \A j \in 1 .. i - 1 : work[GroupIds[j]].pc = "done" BY <2>3 DEF ReportInv
  <2>7. \A j \in i - 1 + 1 .. Len(GroupIds) : trace[GroupIds[j]] = <<>>
    <3> SUFFICES ASSUME NEW j \in i - 1 + 1 .. Len(GroupIds), trace[GroupIds[j]] # <<>> PROVE FALSE
      OBVIOUS
    <3>1. j \in 1 .. Len(GroupIds) /\ (j = i \/ i \in 1 .. j - 1) BY <1>1
    <3>2. i \in 1 .. j - 1 => work[GroupIds[i]].pc = "done" BY <1>3, <3>1 DEF SpendInv
    <3> QED BY <1>6, <2>3, <3>1, <3>2 DEF Idle
  <2>8. AllCalls = CallsOfFirst(i - 1) BY <1>2, <2>7, NoLaterCalls
  <2> QED BY <2>5, <2>6, <2>8
<1> QED BY <1>5, <1>6

LEMMA CostGrows ==
  ASSUME NEW calls \in Seq(Call), NEW call, NEW new, Grown(new, calls, call), UsedIfCosted(call),
         \A k \in 1 .. Len(calls) : UsedIfCosted(calls[k])
  PROVE  \A k \in 1 .. Len(new) : UsedIfCosted(new[k])
<1>1. PICK n \in Nat : n = Len(calls) OBVIOUS
<1>2. Len(new) = n + 1 /\ new[n + 1] = call /\ \A k \in 1 .. n : new[k] = calls[k]
  BY <1>1 DEF Grown
<1>3. \A k \in 1 .. n + 1 : k \in 1 .. n \/ k = n + 1 OBVIOUS
<1> QED BY <1>1, <1>2, <1>3

LEMMA CostPatched ==
  ASSUME NEW calls \in Seq(Call), NEW call, NEW new, Patched(new, calls, call), UsedIfCosted(call),
         \A k \in 1 .. Len(calls) : UsedIfCosted(calls[k])
  PROVE  \A k \in 1 .. Len(new) : UsedIfCosted(new[k])
<1>1. /\ Len(new) = Len(calls)
      /\ \A k \in 1 .. Len(calls) : new[k] = IF k = Len(calls) THEN call ELSE calls[k]
  BY DEF Patched
<1> QED BY <1>1

LEMMA CostExplain ==
  ASSUME TypeOK, WorkInv, CostInv, NEW g \in Groups, Explain(g),
         \A r \in Responses : r.tokens # 0
  PROVE  \A k \in 1 .. Len(trace'[g]) : UsedIfCosted(trace'[g][k])
<1> DEFINE calls == trace[g]
           new == trace'[g]
<1>1. calls \in Seq(Call) /\ \A k \in 1 .. Len(calls) : UsedIfCosted(calls[k])
  BY DEF TypeOK, CostInv
<1>2. work[g].pc = "answer" => TheCall(g) \in Call /\ UsedIfCosted(TheCall(g))
  <2> SUFFICES ASSUME work[g].pc = "answer" PROVE TheCall(g) \in Call /\ UsedIfCosted(TheCall(g))
    OBVIOUS
  <2>1. calls # <<>> BY DEF WorkInv
  <2>2. Len(calls) \in 1 .. Len(calls) BY <1>1, <2>1
  <2> QED BY <1>1, <2>1, <2>2, TheCallType DEF TheCall, Last
<1>3. ASSUME NEW call, Record(g, call), UsedIfCosted(call)
      PROVE  \A k \in 1 .. Len(new) : UsedIfCosted(new[k])
  <2>1. Patched(new, calls, call) BY <1>3 DEF Record, TypeOK, Patched
  <2>2. calls \in Seq(Call) /\ \A k \in 1 .. Len(calls) : UsedIfCosted(calls[k]) BY <1>1
  <2> HIDE DEF calls, new
  <2> QED BY <1>3, <2>1, <2>2, CostPatched
<1>4. CASE StartCall(g)
  <2> DEFINE call == [side |-> work[g].sides[1], tier |-> Tier(Facts[g]),
                      attempt |-> work[g].attempt, final |-> "pending", tokens |-> None,
                      costed |-> FALSE, graded |-> "no"]
  <2>1. UsedIfCosted(call) BY DEF UsedIfCosted
  <2>2. Grown(new, calls, call) BY <1>4 DEF StartCall, TypeOK, Grown
  <2>3. calls \in Seq(Call) /\ \A k \in 1 .. Len(calls) : UsedIfCosted(calls[k]) BY <1>1
  <2> HIDE DEF call, calls, new
  <2>4. \A k \in 1 .. Len(new) : UsedIfCosted(new[k]) BY <2>1, <2>2, <2>3, CostGrows
  <2> QED BY <2>4 DEF new
<1>5. CASE ProviderFails(g)
  <2> DEFINE call == [TheCall(g) EXCEPT !.final = "provider_error"]
  <2>1. UsedIfCosted(call) BY <1>2, <1>5 DEF ProviderFails, UsedIfCosted, Call
  <2>2. Record(g, call) BY <1>5 DEF ProviderFails
  <2> HIDE DEF call
  <2> QED BY <1>3, <2>1, <2>2
<1>6. CASE UseTemplate(g) BY <1>1, <1>6 DEF UseTemplate
<1>7. ASSUME NEW r \in Responses, Answer(g, r)
      PROVE  \A k \in 1 .. Len(new) : UsedIfCosted(new[k])
  <2> DEFINE verdict == Verdict(r.payload, Facts[g])
             call == [TheCall(g) EXCEPT
                        !.final = verdict, !.tokens = r.tokens, !.costed = Costed(r, g),
                        !.graded = CASE verdict = "success" -> "grounded"
                                     [] verdict = "blocked_ungrounded" -> "ungrounded"
                                     [] OTHER -> "no"]
  <2>1. Record(g, call) BY <1>7 DEF Answer
  <2>2. TheCall(g) \in Call BY <1>2, <1>7 DEF Answer
  <2>3. call.costed = Costed(r, g) /\ call.tokens = r.tokens BY <2>2 DEF Call
  <2> HIDE DEF call
  <2>4. UsedIfCosted(call) BY <2>3 DEF UsedIfCosted, Costed
  <2> QED BY <1>3, <2>1, <2>4
<1> QED BY <1>4, <1>5, <1>6, <1>7 DEF Explain

LEMMA CostStep ==
  ASSUME \A r \in Responses : r.tokens # 0
  PROVE  IInv /\ CostInv /\ [Next]_vars => CostInv'
<1> SUFFICES ASSUME IInv, CostInv, [Next]_vars, NEW h \in Groups
             PROVE  \A k \in 1 .. Len(trace'[h]) : UsedIfCosted(trace'[h][k])
  BY DEF CostInv, UsedIfCosted
<1>1. CASE UNCHANGED trace BY <1>1 DEF CostInv
<1>2. CASE Generate \/ Collecting \/ UNCHANGED vars \/ \E i \in DOMAIN GroupIds : BeginGroup(i)
  <2>1. UNCHANGED trace
    BY <1>2 DEF Generate, Collecting, TakeResult, TakeException, Raise, Assemble, vars, BeginGroup
  <2> QED BY <1>1, <2>1
<1>3. ASSUME NEW g \in Groups, Explain(g)
      PROVE  \A k \in 1 .. Len(trace'[h]) : UsedIfCosted(trace'[h][k])
  <2>1. CASE h = g BY <1>3, <2>1, CostExplain DEF IInv
  <2>2. CASE h # g
    <3>1. trace'[h] = trace[h] BY <1>3, <2>2, OthersUntouched DEF IInv
    <3> QED BY <3>1 DEF CostInv
  <2> QED BY <2>1, <2>2
<1> QED BY <1>2, <1>3 DEF Next

LEMMA CostIsOfAll ==
  ASSUME TypeOK, CostInv, Cost(AllCalls) # None
  PROVE  Cost(AllCalls) = Spent(AllCalls)
<1> DEFINE priced == Priced(AllCalls)
           spending == Spending(AllCalls)
<1>1. \A c \in AllCalls : UsedIfCosted(c[3])
  <2> SUFFICES ASSUME NEW i \in 1 .. Len(GroupIds), NEW k \in 1 .. Len(trace[GroupIds[i]])
               PROVE  UsedIfCosted(trace[GroupIds[i]][k])
    BY DEF AllCalls, CallsOfFirst, CallsOf
  <2> QED BY GroupsAre, InsightAssumption DEF CostInv
<1>2. priced \subseteq spending BY <1>1 DEF Priced, Spending, UsedIfCosted
<1>3. IsFiniteSet(spending) BY CallsAreFinitelyMany, FS_Subset DEF Spending
<1>4. Cardinality(priced) = Cardinality(spending) /\ Cost(AllCalls) = Total(priced) BY DEF Cost
<1> HIDE DEF priced, spending
<1>5. priced = spending BY <1>2, <1>3, <1>4, FS_Subset
<1> QED BY <1>4, <1>5 DEF Spent, spending

\* "never $0 or a guessed figure": for any groups, prices and answers, if a response that
\* reports its usage used tokens, no group is begun on a provider beyond the ceiling, and
\* a cost is that of every call that used tokens.
THEOREM SpendingIsTrue ==
  ASSUME \A r \in Responses : r.tokens # 0
  PROVE  Spec => []SpendingIsAccountedFor
<1>1. Init => SpendInv /\ CostInv
  <2> SUFFICES ASSUME Init PROVE SpendInv /\ CostInv
    OBVIOUS
  <2>1. \A g \in Groups : work[g].pc # "call" /\ trace[g] = <<>> BY DEF Init, Idle
  <2>2. SpendInv BY <2>1, GroupsAre, InsightAssumption DEF SpendInv
  <2>3. Len(<<>>) = 0 /\ 1 .. 0 = {} OBVIOUS
  <2>4. CostInv BY <2>1, <2>3 DEF CostInv
  <2> QED BY <2>2, <2>4
<1>2. IInv /\ StoryInv /\ SpendInv /\ CostInv /\ [Next]_vars => (SpendInv /\ CostInv)'
  BY SpendStep, CostStep
<1>3. IInv /\ SpendInv /\ CostInv => SpendingIsAccountedFor
  <2> SUFFICES ASSUME IInv, SpendInv, CostInv PROVE SpendingIsAccountedFor
    OBVIOUS
  <2>1. ASSUME NEW i \in DOMAIN GroupIds, trace[GroupIds[i]] # <<>>
        PROVE  ~OutOfBudget(CallsOfFirst(i - 1))
    <3>1. DOMAIN GroupIds = 1 .. Len(GroupIds) BY InsightAssumption
    <3> QED BY <2>1, <3>1 DEF SpendInv, OutOfBudget
  <2>2. Cost(AllCalls) # None => Cost(AllCalls) = Spent(AllCalls) BY CostIsOfAll DEF IInv
  <2> QED BY <2>1, <2>2 DEF SpendingIsAccountedFor
<1> QED BY <1>1, <1>2, <1>3, Inductive, StoryInductive, PTL DEF Spec
--------------------------------------------------------------------------------
(* generate() comes to an end: what keeps it going, and what it uses up. *)

\* Nobody is cancelled while generate() takes the results, and none begun before.
QueueInv ==
  /\ mode = "new" => \A g \in Groups : work[g] = Idle
  /\ mode = "generating" => \A g \in Groups : work[g].pc # "cancelled"

\* A worker, or generate() itself, may begin this group now.
MayBegin(i) ==
  /\ work[GroupIds[i]] = Idle
  /\ \A j \in 1 .. i - 1 : work[GroupIds[j]] # Idle
  /\ Cardinality(Running) < PoolSize
  /\ PoolSize = 1 => collected = i - 1

\* generate(): the group whose result is to be taken has ended, or one is being
\* explained, or that very group may be begun.
NobodyWaitsInVain ==
  mode = "generating" /\ collected < Len(GroupIds) =>
    \/ work[NextGroup].pc \in {"done", "raised"}
    \/ Running # {}
    \/ MayBegin(collected + 1)

\* The attempts a group has before it, the one under way included: those of its
\* provider and all of the next one's.
Tries(w) == (Len(w.sides) - 1) * (MaxRetries + 1) + (MaxRetries + 2 - w.attempt)

\* The steps a group has before it, and those of generate() itself.
Left(w) ==
  CASE w.pc = "queued" -> 4 * (MaxRetries + 1) + 2
    [] w.pc = "call" -> 2 * Tries(w) + 1
    [] w.pc = "answer" -> 2 * Tries(w)
    [] w.pc = "template" -> 1
    [] OTHER -> 0

CallerLeft ==
  CASE mode = "new" -> Len(GroupIds) + 3
    [] mode = "generating" -> Len(GroupIds) + 2 - collected
    [] mode = "raising" -> 1
    [] OTHER -> 0

\* Every step takes something off what generate() or a group has before it, and adds
\* to neither: no answer, however bad, is asked for without end.
Advances ==
  /\ CallerLeft' <= CallerLeft
  /\ \A g \in Groups : Left(work'[g]) <= Left(work[g])
  /\ CallerLeft' < CallerLeft \/ \E g \in Groups : Left(work'[g]) < Left(work[g])

LEMMA QueueStep == TypeOK /\ WorkInv /\ QueueInv /\ [Next]_vars => QueueInv'
<1> SUFFICES ASSUME TypeOK, WorkInv, QueueInv, [Next]_vars PROVE QueueInv'
  OBVIOUS
<1>1. CASE Generate
  <2>1. mode = "new" /\ mode' # "new" /\ UNCHANGED work BY <1>1 DEF Generate
  <2> QED BY <2>1 DEF QueueInv, Idle
<1>2. ASSUME NEW i \in DOMAIN GroupIds, BeginGroup(i) PROVE QueueInv'
  <2>1. mode = "generating" /\ mode' = "generating" BY <1>2 DEF BeginGroup
  <2>2. \A h \in Groups : work'[h] = work[h] \/ work'[h].pc \in {"template", "call", "raised"}
    BY <1>2, BeginMoves
  <2> QED BY <2>1, <2>2 DEF QueueInv
<1>3. ASSUME NEW g \in Groups, Explain(g) PROVE QueueInv'
  <2>1. work[g] # Idle
    <3>1. work[g].pc \in {"call", "answer", "template"}
      BY <1>3 DEF Explain, StartCall, ProviderFails, UseTemplate, Answer
    <3> QED BY <3>1 DEF Idle
  <2>2. work'[g].pc # "cancelled"
    <3>1. work[g] \in Work BY <1>3, BusyWork DEF Explain, StartCall, ProviderFails, UseTemplate, Answer
    <3>2. CASE StartCall(g) \/ UseTemplate(g) BY <3>1, <3>2 DEF StartCall, UseTemplate, TypeOK, Work
    <3>3. CASE ProviderFails(g)
      <4>1. work[g].sides # <<>> BY <3>3 DEF ProviderFails, WorkInv
      <4> QED BY <3>1, <3>3, <4>1, NextProviderUpdate DEF ProviderFails
    <3>4. ASSUME NEW r \in Responses, Answer(g, r) PROVE work'[g].pc # "cancelled"
      <4>1. work[g].sides # <<>> BY <3>4 DEF Answer, WorkInv
      <4>2. CASE Retry(g) BY <3>1, <4>1, <4>2, RetryUpdate
      <4>3. CASE work' = [work EXCEPT ![g].pc = "done"] BY <3>1, <4>3 DEF TypeOK, Work
      <4> QED BY <3>4, <4>2, <4>3 DEF Answer
    <3> QED BY <1>3, <3>2, <3>3, <3>4 DEF Explain
  <2>3. UNCHANGED mode /\ \A h \in Groups : h # g => work'[h] = work[h]
    BY <1>3, ExplainMoves DEF GroupMoves
  <2> QED BY <2>1, <2>2, <2>3 DEF QueueInv
<1>4. CASE Collecting
  <2>1. mode' # "new" /\ (mode' = "generating" => mode = "generating" /\ UNCHANGED work)
    BY <1>4 DEF Collecting, TakeResult, TakeException, Raise, Assemble
  <2> QED BY <2>1 DEF QueueInv
<1>5. CASE UNCHANGED vars BY <1>5 DEF vars, QueueInv
<1> QED BY <1>1, <1>2, <1>3, <1>4, <1>5 DEF Next

LEMMA PoolHasRoom == ASSUME TypeOK, Running = {} PROVE Cardinality(Running) < PoolSize
<1>1. Len(GroupIds) \in Int BY GroupsAre
<1>2. Workers \in Int BY InsightAssumption
<1> DEFINE bound == Min({Workers, Len(GroupIds)})
<1>3. bound \in Int BY <1>1, <1>2, MinOfTwo
<1> HIDE DEF bound
<1>4. Max({1, bound}) >= 1 /\ Max({1, bound}) \in Int BY <1>3, MaxOfTwo
<1>5. PoolSize >= 1 /\ PoolSize \in Int BY <1>4 DEF PoolSize, bound
<1>6. Cardinality(Running) = 0 BY FS_EmptySet
<1> QED BY <1>5, <1>6

\* generate(): for any groups and any number of workers, zero and less included, it
\* never waits for a group that nobody can take up.
THEOREM NobodyWaits == Spec => []NobodyWaitsInVain
<1>1. Init => QueueInv BY DEF Init, QueueInv
<1>2. IInv /\ QueueInv /\ [Next]_vars => QueueInv' BY QueueStep DEF IInv
<1>3. IInv /\ QueueInv => NobodyWaitsInVain
  <2> SUFFICES ASSUME IInv, QueueInv, mode = "generating", collected < Len(GroupIds),
                      work[NextGroup].pc \notin {"done", "raised"}, Running = {}
               PROVE  MayBegin(collected + 1)
    BY DEF NobodyWaitsInVain
  <2>1. PICK i \in 1 .. Len(GroupIds) : i = collected + 1 BY GroupsAre DEF IInv, TypeOK
  <2>2. NextGroup \in Groups /\ NextGroup = GroupIds[i] /\ collected = i - 1
    BY <2>1, GroupsAre DEF NextGroup, IInv, TypeOK
  <2>3. work[GroupIds[i]] = Idle
    BY <2>2 DEF IInv, TypeOK, QueueInv, Running, Work, Steps
  <2>4. \A j \in 1 .. i - 1 : work[GroupIds[j]] # Idle
    BY <2>2 DEF IInv, ReportInv, Idle
  <2>5. Cardinality(Running) < PoolSize BY PoolHasRoom DEF IInv
  <2>6. MayBegin(i) BY <2>2, <2>3, <2>4, <2>5 DEF MayBegin
  <2> QED BY <2>1, <2>6
<1> QED BY Inductive, <1>1, <1>2, <1>3, PTL DEF Spec

LEMMA TriesLeft ==
  ASSUME NEW w \in Work, Len(w.sides) \in 1 .. 2
  PROVE  /\ Tries(w) \in Nat /\ Tries(w) >= 1
         /\ Len(w.sides) = 1 => Tries(w) = MaxRetries + 2 - w.attempt
         /\ Len(w.sides) = 2 => Tries(w) = 2 * MaxRetries + 3 - w.attempt
<1>1. MaxRetries \in Nat /\ w.attempt \in 1 .. MaxRetries + 1 BY InsightAssumption DEF Work
<1>2. CASE Len(w.sides) = 1
  <2>1. Tries(w) = MaxRetries + 2 - w.attempt BY <1>1, <1>2 DEF Tries
  <2> QED BY <1>1, <1>2, <2>1
<1>3. CASE Len(w.sides) = 2
  <2>1. Tries(w) = 2 * MaxRetries + 3 - w.attempt BY <1>1, <1>3 DEF Tries
  <2> QED BY <1>1, <1>3, <2>1
<1> QED BY <1>2, <1>3

\* A group on a provider has one or two left.
LEMMA SidesAreFew ==
  ASSUME TypeOK, WorkInv, StoryInv, NEW g \in Groups, work[g].pc \in {"call", "answer"}
  PROVE  work[g] \in Work /\ work[g].sides # <<>> /\ Len(work[g].sides) \in 1 .. 2
<1>1. work[g] \in Work /\ work[g].sides # <<>> BY BusyWork DEF WorkInv
<1>2. work[g].sides \in Seq(Sides) BY <1>1 DEF Work
<1> DEFINE sides == work[g].sides
<1>3. Len(sides) \in Nat /\ Len(sides) # 0 BY <1>1, <1>2
<1>4. Len(sides) <= 2 BY DEF StoryInv, StoryOf, OnSides
<1>5. \A n \in Nat : n # 0 /\ n <= 2 => n \in 1 .. 2 OBVIOUS
<1>6. Len(sides) \in 1 .. 2 BY <1>3, <1>4, <1>5, Zenon
<1> QED BY <1>1, <1>6

LEMMA NextProviderTries ==
  ASSUME TypeOK, NEW g \in Groups, work[g] \in Work, work[g].sides # <<>>,
         Len(work[g].sides) \in 1 .. 2, NextProvider(g)
  PROVE  \/ work'[g].pc = "template"
         \/ /\ work'[g].pc = "call" /\ work'[g] \in Work
            /\ Len(work'[g].sides) = 1 /\ work'[g].attempt = 1 /\ Len(work[g].sides) = 2
<1> DEFINE sides == work[g].sides
           next == [pc |-> IF Len(sides) > 1 THEN "call" ELSE "template",
                    sides |-> Tail(sides), attempt |-> 1]
<1>1. sides \in Seq(Sides) BY DEF Work
<1>2. work'[g] = next BY DEF NextProvider, TypeOK
<1>3. CASE Len(sides) = 2
  <2>1. Tail(sides) \in Seq(Sides) /\ Len(Tail(sides)) = 1 BY <1>1, <1>3, TailLength
  <2>2. /\ next.pc = "call" /\ next.sides = Tail(sides) /\ next.attempt = 1
        /\ next = [pc |-> "call", sides |-> Tail(sides), attempt |-> 1]
    BY <1>3
  <2>3. 1 \in 1 .. MaxRetries + 1 BY InsightAssumption
  <2>4. [pc |-> "call", sides |-> Tail(sides), attempt |-> 1] \in Work
    BY <2>1, <2>3 DEF Work, Steps
  <2> QED BY <1>2, <1>3, <2>1, <2>2, <2>4
<1>4. CASE Len(sides) = 1 BY <1>2, <1>4
<1> QED BY <1>3, <1>4

\* What failed is tried once less, or the next provider is, or the template is used.
LEMMA RetryTries ==
  ASSUME TypeOK, NEW g \in Groups, work[g] \in Work, work[g].sides # <<>>,
         Len(work[g].sides) \in 1 .. 2, Retry(g) \/ NextProvider(g)
  PROVE  \/ work'[g].pc = "template"
         \/ work'[g].pc = "call" /\ Tries(work'[g]) \in Nat /\ Tries(work'[g]) < Tries(work[g])
<1>1. MaxRetries \in Nat /\ work[g].attempt \in 1 .. MaxRetries + 1
  BY InsightAssumption DEF Work
<1>2. CASE NextProvider(g)
  <2>1. SUFFICES ASSUME work'[g].pc # "template"
                 PROVE  work'[g].pc = "call" /\ Tries(work'[g]) \in Nat
                        /\ Tries(work'[g]) < Tries(work[g])
    OBVIOUS
  <2>2. /\ work'[g].pc = "call" /\ work'[g] \in Work
        /\ Len(work'[g].sides) = 1 /\ work'[g].attempt = 1 /\ Len(work[g].sides) = 2
    BY <1>2, <2>1, NextProviderTries
  <2>3. Tries(work'[g]) = MaxRetries + 1 BY <1>1, <2>2, TriesLeft
  <2>4. Tries(work[g]) = 2 * MaxRetries + 3 - work[g].attempt BY <2>2, TriesLeft
  <2> QED BY <1>1, <2>2, <2>3, <2>4
<1>3. CASE Retry(g) /\ work[g].attempt <= MaxRetries
  <2>1. work'[g] = [work[g] EXCEPT !.pc = "call", !.attempt = @ + 1]
    BY <1>3 DEF Retry, TypeOK
  <2>2. /\ work'[g].pc = "call" /\ work'[g].sides = work[g].sides
        /\ work'[g].attempt = work[g].attempt + 1
    BY <2>1 DEF Work
  <2>3. work'[g].attempt \in 1 .. MaxRetries + 1 BY <1>1, <1>3, <2>2
  <2>4. work'[g] \in Work BY <2>1, <2>2, <2>3 DEF Work, Steps
  <2>5. CASE Len(work[g].sides) = 1
    <3>1. Tries(work[g]) = MaxRetries + 2 - work[g].attempt BY <2>5, TriesLeft
    <3>2. /\ Tries(work'[g]) = MaxRetries + 2 - work'[g].attempt
          /\ Tries(work'[g]) \in Nat
      BY <2>2, <2>4, <2>5, TriesLeft
    <3> QED BY <1>1, <2>2, <3>1, <3>2
  <2>6. CASE Len(work[g].sides) = 2
    <3>1. Tries(work[g]) = 2 * MaxRetries + 3 - work[g].attempt BY <2>6, TriesLeft
    <3>2. /\ Tries(work'[g]) = 2 * MaxRetries + 3 - work'[g].attempt
          /\ Tries(work'[g]) \in Nat
      BY <2>2, <2>4, <2>6, TriesLeft
    <3> QED BY <1>1, <2>2, <3>1, <3>2
  <2> QED BY <2>5, <2>6
<1>4. CASE Retry(g) /\ ~(work[g].attempt <= MaxRetries) BY <1>2, <1>4 DEF Retry
<1> QED BY <1>2, <1>3, <1>4

LEMMA ExplainAdvances ==
  ASSUME TypeOK, WorkInv, StoryInv, NEW g \in Groups, Explain(g)
  PROVE  Left(work'[g]) < Left(work[g])
<1>1. CASE StartCall(g)
  <2>1. /\ work[g].pc = "call" /\ work[g] \in Work /\ Len(work[g].sides) \in 1 .. 2
    BY <1>1, SidesAreFew DEF StartCall
  <2>2. work'[g] = [work[g] EXCEPT !.pc = "answer"] BY <1>1 DEF StartCall, TypeOK
  <2>3. /\ work'[g].pc = "answer" /\ work'[g].sides = work[g].sides
        /\ work'[g].attempt = work[g].attempt
    BY <2>1, <2>2 DEF Work
  <2>4. Tries(work'[g]) = Tries(work[g]) BY <2>3 DEF Tries
  <2>5. Tries(work[g]) \in Nat BY <2>1, TriesLeft
  <2>6. Left(work'[g]) = 2 * Tries(work[g]) BY <2>3, <2>4 DEF Left
  <2>7. Left(work[g]) = 2 * Tries(work[g]) + 1 BY <2>1 DEF Left
  <2> QED BY <2>5, <2>6, <2>7
<1>2. CASE UseTemplate(g)
  <2>1. work[g].pc = "template" /\ work[g] \in Work BY <1>2, BusyWork DEF UseTemplate
  <2>2. work'[g].pc = "done" BY <1>2, <2>1 DEF UseTemplate, TypeOK, Work
  <2> QED BY <2>1, <2>2 DEF Left
<1>3. ASSUME work[g].pc = "answer", Retry(g) \/ NextProvider(g)
      PROVE  Left(work'[g]) < Left(work[g])
  <2>1. work[g] \in Work /\ work[g].sides # <<>> /\ Len(work[g].sides) \in 1 .. 2
    BY <1>3, SidesAreFew
  <2>2. Tries(work[g]) \in Nat /\ Tries(work[g]) >= 1 BY <2>1, TriesLeft
  <2>3. Left(work[g]) = 2 * Tries(work[g]) BY <1>3 DEF Left
  <2>4. CASE work'[g].pc = "template"
    <3>1. Left(work'[g]) = 1 BY <2>4 DEF Left
    <3> QED BY <2>2, <2>3, <3>1
  <2>5. CASE work'[g].pc = "call" /\ Tries(work'[g]) \in Nat /\ Tries(work'[g]) < Tries(work[g])
    <3>1. Left(work'[g]) = 2 * Tries(work'[g]) + 1 BY <2>5 DEF Left
    <3> QED BY <2>2, <2>3, <2>5, <3>1
  <2> QED BY <1>3, <2>1, <2>4, <2>5, RetryTries
<1>4. CASE ProviderFails(g) BY <1>3, <1>4 DEF ProviderFails
<1>5. ASSUME NEW r \in Responses, Answer(g, r) PROVE Left(work'[g]) < Left(work[g])
  <2>1. work[g].pc = "answer" BY <1>5 DEF Answer
  <2>2. work[g] \in Work /\ Len(work[g].sides) \in 1 .. 2 BY <2>1, SidesAreFew
  <2>3. CASE work' = [work EXCEPT ![g].pc = "done"]
    <3>1. work'[g].pc = "done" BY <2>2, <2>3 DEF TypeOK, Work
    <3>2. Left(work'[g]) = 0 BY <3>1 DEF Left
    <3>3. Left(work[g]) = 2 * Tries(work[g]) BY <2>1 DEF Left
    <3>4. Tries(work[g]) \in Nat /\ Tries(work[g]) >= 1 BY <2>2, TriesLeft
    <3> QED BY <3>2, <3>3, <3>4
  <2>4. CASE Retry(g) BY <1>3, <2>1, <2>4
  <2> QED BY <1>5, <2>3, <2>4 DEF Answer
<1> QED BY <1>1, <1>2, <1>4, <1>5 DEF Explain

LEMMA BeginAdvances ==
  ASSUME TypeOK, NEW i \in DOMAIN GroupIds, BeginGroup(i)
  PROVE  Left(work'[GroupIds[i]]) < Left(work[GroupIds[i]])
<1> DEFINE g == GroupIds[i]
<1>1. g \in Groups BY GroupsAre
<1>2. /\ work[g] = Idle /\ work'[g].sides = Providers /\ work'[g].attempt = 1
      /\ work'[g].pc \in {"template", "call", "raised"}
  BY BeginSides
<1>3. MaxRetries \in Nat BY InsightAssumption
<1> HIDE DEF g
<1>4. Left(work[g]) = 4 * (MaxRetries + 1) + 2 BY <1>2 DEF Left, Idle
<1>5. CASE work'[g].pc = "call"
  <2>1. work'[g] \in Work BY <1>1, <1>5, BeginMoves DEF Idle
  <2>2. Providers # <<>> BY <1>1, <1>2, <1>5, BeginMoves DEF Idle
  <2>3. Len(Providers) \in 1 .. 2
    <3>1. Len(Providers) \in Nat /\ Len(Providers) # 0 BY <2>2, ProvidersAre
    <3>2. \A n \in Nat : n # 0 /\ n <= 2 => n \in 1 .. 2 OBVIOUS
    <3> QED BY <3>1, <3>2, SidesDiffer, Zenon
  <2>4. Tries(work'[g]) \in Nat /\ Tries(work'[g]) <= 2 * (MaxRetries + 1)
    <3>1. CASE Len(Providers) = 1
      <4>1. Tries(work'[g]) = MaxRetries + 2 - 1 BY <1>2, <2>1, <2>3, <3>1, TriesLeft
      <4> QED BY <1>3, <4>1
    <3>2. CASE Len(Providers) = 2
      <4>1. Tries(work'[g]) = 2 * MaxRetries + 3 - 1 BY <1>2, <2>1, <2>3, <3>2, TriesLeft
      <4> QED BY <1>3, <4>1
    <3> QED BY <2>3, <3>1, <3>2
  <2>5. Left(work'[g]) = 2 * Tries(work'[g]) + 1 BY <1>5 DEF Left
  <2> QED BY <1>3, <1>4, <2>4, <2>5 DEF g
<1>6. CASE work'[g].pc \in {"template", "raised"}
  <2>1. Left(work'[g]) \in {0, 1} BY <1>6 DEF Left
  <2> QED BY <1>3, <1>4, <2>1 DEF g
<1> QED BY <1>2, <1>5, <1>6

\* What is left is a number.
LEMMA LeftIsNat ==
  TypeOK /\ WorkInv /\ StoryInv => \A g \in Groups : Left(work[g]) \in Nat
<1> SUFFICES ASSUME TypeOK, WorkInv, StoryInv, NEW g \in Groups
             PROVE  Left(work[g]) \in Nat
  OBVIOUS
<1>1. CASE work[g].pc \in {"call", "answer"}
  <2>1. Tries(work[g]) \in Nat BY <1>1, SidesAreFew, TriesLeft
  <2> QED BY <1>1, <2>1 DEF Left
<1>2. CASE work[g].pc \notin {"call", "answer"}
  BY <1>2, InsightAssumption DEF Left
<1> QED BY <1>1, <1>2

\* generate(): for any groups, answers and number of workers, it takes at most as many
\* steps as it and its groups have before them when it is called.
THEOREM ExplanationsAreFinite == Spec => [][Advances]_vars
<1>1. IInv /\ StoryInv /\ [Next]_vars => [Advances]_vars
  <2> SUFFICES ASSUME IInv, StoryInv, Next PROVE Advances
    OBVIOUS
  <2> USE DEF IInv
  <2>t. collected \in 0 .. Len(GroupIds) /\ Len(GroupIds) \in Nat BY GroupsAre DEF TypeOK
  <2>c. CallerLeft \in Int BY <2>t DEF CallerLeft
  <2>l. \A g \in Groups : Left(work[g]) \in Nat BY LeftIsNat
  <2>1. ASSUME CallerLeft' < CallerLeft, CallerLeft' \in Int,
               \A g \in Groups : work'[g] = work[g] \/ Left(work'[g]) = 0
        PROVE  Advances
    <3>1. \A g \in Groups : Left(work'[g]) <= Left(work[g]) BY <2>1, <2>l
    <3>2. CallerLeft' <= CallerLeft BY <2>1, <2>c
    <3> QED BY <2>1, <3>1, <3>2 DEF Advances
  <2>2. ASSUME NEW g \in Groups, UNCHANGED <<mode, collected>>,
               \A h \in Groups : h # g => work'[h] = work[h], Left(work'[g]) < Left(work[g]),
               Left(work'[g]) \in Nat
        PROVE  Advances
    <3>1. CallerLeft' <= CallerLeft BY <2>2, <2>c DEF CallerLeft
    <3>2. ASSUME NEW h \in Groups PROVE Left(work'[h]) <= Left(work[h])
      <4>1. CASE h = g BY <2>2, <2>l, <4>1
      <4>2. CASE h # g BY <2>2, <2>l, <4>2
      <4> QED BY <4>1, <4>2
    <3> QED BY <2>2, <3>1, <3>2 DEF Advances
  <2>n. \A g \in Groups : Left(work'[g]) \in Nat
    <3>1. (TypeOK /\ WorkInv /\ StoryInv)' BY TypingStep, WorkStep, StoryStep
    <3>2. (TypeOK /\ WorkInv /\ StoryInv)' => (\A g \in Groups : Left(work[g]) \in Nat)'
      BY LeftIsNat, PTL
    <3> QED BY <3>1, <3>2
  <2>3. CASE Generate
    <3>1. mode = "new" /\ mode' \in {"generating", "returned"} /\ UNCHANGED <<work, collected>>
      BY <2>3 DEF Generate
    <3>2. CallerLeft' < CallerLeft /\ CallerLeft' \in Int BY <2>t, <3>1 DEF CallerLeft
    <3> QED BY <2>1, <3>1, <3>2
  <2>4. ASSUME NEW i \in DOMAIN GroupIds, BeginGroup(i) PROVE Advances
    <3>1. GroupIds[i] \in Groups BY GroupsAre
    <3>2. UNCHANGED <<mode, collected>> BY <2>4 DEF BeginGroup
    <3> QED BY <2>2, <2>4, <2>n, <3>1, <3>2, BeginSides, BeginAdvances
  <2>5. ASSUME NEW g \in Groups, Explain(g) PROVE Advances
    BY <2>2, <2>5, <2>n, ExplainMoves, ExplainAdvances DEF GroupMoves
  <2>6. CASE TakeResult
    <3>1. /\ mode = "generating" /\ UNCHANGED <<mode, work>> /\ collected' = collected + 1
      BY <2>6 DEF TakeResult
    <3>2. CallerLeft' < CallerLeft /\ CallerLeft' \in Int BY <2>t, <3>1 DEF CallerLeft
    <3> QED BY <2>1, <3>1, <3>2
  <2>7. CASE TakeException
    <3>1. mode = "generating" BY <2>7 DEF TakeException
    <3>2. /\ mode' = "raising" /\ UNCHANGED collected
          /\ \A h \in Groups : work'[h] = work[h] \/ work'[h].pc = "cancelled"
      BY <2>7, ExceptionMoves
    <3>3. CallerLeft' < CallerLeft /\ CallerLeft' \in Int BY <2>t, <3>1, <3>2 DEF CallerLeft
    <3>4. \A h \in Groups : work'[h] = work[h] \/ Left(work'[h]) = 0 BY <3>2 DEF Left
    <3> QED BY <2>1, <3>3, <3>4
  <2>8. CASE Raise \/ Assemble
    <3>1. /\ mode \in {"raising", "generating"} /\ mode' \in {"raised", "returned"}
          /\ UNCHANGED <<work, collected>>
      BY <2>8 DEF Raise, Assemble
    <3>2. CallerLeft' < CallerLeft /\ CallerLeft' \in Int BY <2>t, <3>1 DEF CallerLeft
    <3> QED BY <2>1, <3>1, <3>2
  <2> QED BY <2>3, <2>4, <2>5, <2>6, <2>7, <2>8 DEF Next, Collecting
<1> QED BY Inductive, StoryInductive, <1>1, PTL DEF Spec
================================================================================
