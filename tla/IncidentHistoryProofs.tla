----------------------- MODULE IncidentHistoryProofs -----------------------
(***************************************************************************)
(* What the claim is for: proofs about the incident as a whole, its budget,*)
(* its backoff, its evidence, its end and its terminal line.  They rest on *)
(* ClaimInv of IncidentProofs, and relate the record a Deployment has in   *)
(* the map to the history of the incident it stands for.                   *)
(***************************************************************************)
EXTENDS IncidentProofs

-----------------------------------------------------------------------------
(* What the steps do to records and histories, field by field. *)

SameRecord(d) ==
  /\ incidents'[d].id = incidents[d].id
  /\ incidents'[d].attemptCount = incidents[d].attemptCount
  /\ incidents'[d].sinceAttempt = incidents[d].sinceAttempt
  /\ incidents'[d].terminalOutcome = incidents[d].terminalOutcome
  /\ incidents'[d].inFlight = incidents[d].inFlight
  /\ incidents'[d].evidence = incidents[d].evidence

SameHistory(i) ==
  /\ hist'[i].dep = hist[i].dep
  /\ hist'[i].dispatched = hist[i].dispatched
  /\ hist'[i].collected = hist[i].collected
  /\ hist'[i].classifiedOn = hist[i].classifiedOn
  /\ hist'[i].quietFor = hist[i].quietFor
  /\ hist'[i].outcome = hist[i].outcome
  /\ hist'[i].lost = hist[i].lost

OthersSame(d) == \A e \in Deployments \ {d} : SameRecord(e)

HistoriesSame == Len(hist') = Len(hist) /\ \A i \in 1 .. Len(hist) : SameHistory(i)

(* The types the effects are computed with. *)
LEMMA Types ==
  ASSUME ClaimInv
  PROVE  /\ TypeOK /\ hist \in Seq(History) /\ Len(hist) \in Nat
         /\ \A i \in 1 .. Len(hist) : hist[i] \in History
         /\ \A d \in Deployments : incidents[d] \in Record /\ incidents[d].id \in Nat
         /\ \A d \in Deployments : Present(incidents[d]) => incidents[d].id \in 1 .. Len(hist)
<1>1. TypeOK /\ IdsIssued
  BY DEF ClaimInv
<1>2. /\ hist \in Seq(History) /\ Len(hist) \in Nat
      /\ \A i \in 1 .. Len(hist) : hist[i] \in History
      /\ \A d \in Deployments : incidents[d] \in Record
  BY <1>1 DEF TypeOK
<1>3. \A d \in Deployments : incidents[d].id \in Nat
  BY <1>2 DEF Record
<1>4. QED
  BY <1>1, <1>2, <1>3 DEF IdsIssued, Present

(* beginAttempt on a Deployment without an active incident opens one and    *)
(* claims it in the same step: a fresh record is neither spent nor backing  *)
(* off.                                                                     *)
LEMMA OpenEffect ==
  ASSUME ClaimInv, NEW w \in Workers, BeginAttempt(w), ~SkipQuiet(w),
         ~Active(incidents[worker[w].dep])
  PROVE  LET d == worker[w].dep
             n == Len(hist) + 1
         IN  /\ d \in Deployments /\ Claim(w) /\ OthersSame(d)
             /\ incidents'[d].id = n /\ incidents'[d].attemptCount = 0
             /\ incidents'[d].terminalOutcome = "" /\ incidents'[d].evidence = 0
             /\ incidents'[d].inFlight
             /\ Len(hist') = n /\ \A i \in 1 .. Len(hist) : SameHistory(i)
             /\ hist'[n].dep = d /\ hist'[n].dispatched = 0 /\ hist'[n].collected = 0
             /\ hist'[n].classifiedOn = {} /\ hist'[n].outcome = ""
             /\ hist'[n].lost = FALSE
<1> DEFINE d == worker[w].dep
           new == Considered(w)
           n == Len(hist) + 1
           fresh == NewHistory(d, worker[w].gen # generation[d])
<1>1. /\ d \in Deployments
      /\ incidents' = [incidents EXCEPT ![d] = Decided(new)]
  BY BeginFacts
<1>2. ~Quiet(incidents[d], worker[w].gen)
  BY DEF BeginAttempt, SkipActive, Exhaust, Claim
<1>3. TypeOK /\ hist \in Seq(History) /\ Len(hist) \in Nat
  BY Types
<1>4. new \in Record
  BY <1>1, <1>3, ConsideredType
<1>5. /\ Active(new) /\ new.id = n /\ ~new.inFlight /\ new.attemptCount = 0
      /\ new.evidence = 0 /\ Opened(w) = Append(hist, fresh)
  BY <1>1, <1>2, <1>3, ConsideredFacts
<1>6. Decision(new) = "proceed"
  <2>1. ~(0 >= MaxAttempts) /\ ~(0 > 0)
    BY ConstantsAssumption
  <2>2. ~BackingOff(new)
    BY <1>5, <2>1 DEF BackingOff
  <2>3. QED
    BY <1>5, <2>1, <2>2 DEF Decision
<1>7. Claim(w) /\ hist' = Append(hist, fresh)
  BY <1>5, <1>6 DEF BeginAttempt, SkipActive, Exhaust, Claim
<1>8. incidents'[d] = Decided(new) /\ \A e \in Deployments \ {d} : incidents'[e] = incidents[e]
  BY <1>1, <1>3 DEF TypeOK
<1>9. /\ incidents'[d].id = n /\ incidents'[d].attemptCount = 0
      /\ incidents'[d].terminalOutcome = "" /\ incidents'[d].evidence = 0
      /\ incidents'[d].inFlight
  BY <1>4, <1>5, <1>6, <1>8, DecidedFacts DEF Active
<1>10. /\ fresh \in History /\ fresh.dep = d /\ fresh.dispatched = 0 /\ fresh.collected = 0
       /\ fresh.classifiedOn = {} /\ fresh.outcome = "" /\ fresh.lost = FALSE
  BY <1>1 DEF NewHistory, History
<1> HIDE DEF fresh
<1>11. /\ Len(hist') = n /\ \A i \in 1 .. Len(hist) : hist'[i] = hist[i]
       /\ hist'[n] = fresh
  <2>1. fresh \in History /\ hist \in Seq(History)
    BY <1>3, <1>10
  <2>2. /\ Len(Append(hist, fresh)) = Len(hist) + 1
        /\ \A i \in 1 .. Len(hist) : Append(hist, fresh)[i] = hist[i]
        /\ Append(hist, fresh)[Len(hist) + 1] = fresh
    BY <2>1, AppendInSeq
  <2>3. QED
    BY <1>7, <2>2
<1>12. OthersSame(d) /\ \A i \in 1 .. Len(hist) : SameHistory(i)
  BY <1>8, <1>11 DEF OthersSame, SameRecord, SameHistory
<1>13. QED
  BY <1>1, <1>7, <1>9, <1>10, <1>11, <1>12

(* beginAttempt on an active incident: skip, exhaust or claim it again.     *)
LEMMA ResumeEffect ==
  ASSUME ClaimInv, NEW w \in Workers, BeginAttempt(w), ~SkipQuiet(w),
         Active(incidents[worker[w].dep])
  PROVE  LET d == worker[w].dep
             i == incidents[d].id
         IN  /\ d \in Deployments /\ i \in 1 .. Len(hist) /\ OthersSame(d)
             /\ incidents'[d].id = i
             /\ incidents'[d].attemptCount = incidents[d].attemptCount
             /\ incidents'[d].sinceAttempt = incidents[d].sinceAttempt
             /\ incidents'[d].evidence = incidents[d].evidence
             /\ \/ SkipActive(w) /\ SameRecord(d) /\ HistoriesSame
                \/ /\ Claim(w) /\ Considered(w).id = i /\ HistoriesSame
                   /\ ~incidents[d].inFlight /\ incidents'[d].inFlight
                   /\ incidents'[d].terminalOutcome = ""
                   /\ incidents[d].attemptCount < MaxAttempts
                   /\ ~BackingOff(incidents[d])
                \/ /\ Exhaust(w) /\ Considered(w).id = i
                   /\ ~incidents[d].inFlight /\ ~incidents'[d].inFlight
                   /\ incidents'[d].terminalOutcome = "exhausted"
                   /\ incidents[d].attemptCount >= MaxAttempts
                   /\ Len(hist') = Len(hist)
                   /\ \A j \in (1 .. Len(hist)) \ {i} : SameHistory(j)
                   /\ hist'[i].dep = hist[i].dep /\ hist'[i].lost = hist[i].lost
                   /\ hist'[i].dispatched = hist[i].dispatched
                   /\ hist'[i].collected = hist[i].collected
                   /\ hist'[i].classifiedOn = hist[i].classifiedOn
                   /\ hist'[i].outcome = "exhausted"
<1> DEFINE d == worker[w].dep
           new == Considered(w)
           old == incidents[d]
           i == old.id
<1>1. /\ d \in Deployments
      /\ incidents' = [incidents EXCEPT ![d] = Decided(new)]
  BY BeginFacts
<1>2. ~Quiet(incidents[d], worker[w].gen)
  BY DEF BeginAttempt, SkipActive, Exhaust, Claim
<1>3. /\ TypeOK /\ hist \in Seq(History) /\ old \in Record
      /\ i \in 1 .. Len(hist)
  BY <1>1, Types DEF Active
<1>4. new \in Record
  BY <1>1, <1>3, ConsideredType
<1>5. /\ Active(new) /\ new.id = old.id /\ new.inFlight = old.inFlight
      /\ new.attemptCount = old.attemptCount /\ new.evidence = old.evidence
      /\ new.sinceAttempt = old.sinceAttempt /\ Opened(w) = hist
  BY <1>1, <1>2, <1>3, ConsideredFacts
<1>6. incidents'[d] = Decided(new) /\ \A e \in Deployments \ {d} : incidents'[e] = incidents[e]
  BY <1>1, <1>3 DEF TypeOK
<1>7. OthersSame(d)
  BY <1>6 DEF OthersSame, SameRecord
<1>8. /\ incidents'[d].id = i
      /\ incidents'[d].attemptCount = old.attemptCount
      /\ incidents'[d].sinceAttempt = old.sinceAttempt
      /\ incidents'[d].evidence = old.evidence
  BY <1>4, <1>5, <1>6, DecidedFacts
<1>9. new.terminalOutcome = "" /\ old.terminalOutcome = ""
  BY <1>5 DEF Active
<1>10. CASE SkipActive(w)
  <2>1. Decision(new) = "skip" /\ hist' = hist
    BY <1>5, <1>10 DEF SkipActive
  <2>2. Decided(new) = new
    BY <1>4, <2>1, DecidedFacts
  <2>3. SameRecord(d) /\ HistoriesSame
    BY <1>5, <1>6, <1>9, <2>1, <2>2 DEF SameRecord, HistoriesSame, SameHistory
  <2>4. QED
    BY <1>1, <1>3, <1>7, <1>8, <1>10, <2>3
<1>11. CASE Claim(w)
  <2>1. Decision(new) = "proceed" /\ hist' = hist
    BY <1>5, <1>11 DEF Claim
  <2>2. /\ ~new.inFlight /\ Decided(new).inFlight /\ Decided(new).terminalOutcome = ""
        /\ new.attemptCount < MaxAttempts /\ ~BackingOff(new)
    BY <1>4, <1>9, <2>1, DecidedFacts
  <2>3. ~BackingOff(old)
    BY <1>5, <2>2 DEF BackingOff
  <2>4. HistoriesSame
    BY <2>1 DEF HistoriesSame, SameHistory
  <2>5. QED
    BY <1>1, <1>3, <1>5, <1>6, <1>7, <1>8, <1>11, <2>2, <2>3, <2>4
<1>12. CASE Exhaust(w)
  <2>1. Decision(new) = "exhausted" /\ hist' = WithOutcome(hist, i, "exhausted")
    BY <1>5, <1>12 DEF Exhaust, WithOutcome
  <2>2. /\ ~new.inFlight /\ ~Decided(new).inFlight
        /\ Decided(new).terminalOutcome = "exhausted"
    BY <1>4, <2>1, DecidedFacts
  <2>3. new.attemptCount >= MaxAttempts
    BY <2>1 DEF Decision
  <2>4. /\ Len(hist') = Len(hist)
        /\ \A j \in 1 .. Len(hist) :
             /\ hist'[j].dep = hist[j].dep /\ hist'[j].lost = hist[j].lost
             /\ hist'[j].dispatched = hist[j].dispatched
             /\ hist'[j].collected = hist[j].collected
             /\ hist'[j].classifiedOn = hist[j].classifiedOn
             /\ hist'[j].quietFor = hist[j].quietFor
             /\ hist'[j].outcome = IF j = i THEN "exhausted" ELSE hist[j].outcome
    BY <1>3, <2>1, OutcomeNoted DEF TerminalOutcomes
  <2>5. \A j \in (1 .. Len(hist)) \ {i} : SameHistory(j)
    BY <2>4 DEF SameHistory
  <2>6. QED
    BY <1>1, <1>3, <1>5, <1>6, <1>7, <1>8, <1>12, <2>2, <2>3, <2>4, <2>5
<1>13. QED
  BY <1>10, <1>11, <1>12 DEF BeginAttempt

(* A step that touches one present record and the history of its incident. *)
Local(d) ==
  LET i == incidents[d].id
  IN  /\ d \in Deployments /\ Present(incidents[d]) /\ i \in 1 .. Len(hist)
      /\ OthersSame(d) /\ incidents'[d].id = i
      /\ Len(hist') = Len(hist)
      /\ \A j \in (1 .. Len(hist)) \ {i} : SameHistory(j)
      /\ hist'[i].dep = hist[i].dep /\ hist'[i].lost = hist[i].lost

(* The histories h, in which the classification of incident i may be noted  *)
(* already.                                                                 *)
AgreesUpTo(h, i) ==
  /\ h \in Seq(History) /\ Len(h) = Len(hist)
  /\ \A j \in 1 .. Len(hist) :
       /\ h[j].dep = hist[j].dep /\ h[j].dispatched = hist[j].dispatched
       /\ h[j].collected = hist[j].collected /\ h[j].quietFor = hist[j].quietFor
       /\ h[j].outcome = hist[j].outcome /\ h[j].lost = hist[j].lost
       /\ j # i => h[j].classifiedOn = hist[j].classifiedOn

(* The attempt on d ends with this outcome, its incident classified on      *)
(* these bundles.                                                           *)
EndsWith(d, outcome, bundles) ==
  LET i == incidents[d].id
  IN  /\ Local(d) /\ incidents'[d].inFlight = FALSE
      /\ incidents'[d].attemptCount = incidents[d].attemptCount
      /\ incidents'[d].evidence = incidents[d].evidence
      /\ hist'[i].dispatched = hist[i].dispatched
      /\ hist'[i].collected = hist[i].collected
      /\ hist'[i].classifiedOn = bundles
      /\ outcome \in TerminalOutcomes =>
           incidents'[d].terminalOutcome = outcome /\ hist'[i].outcome = outcome
      /\ outcome \notin TerminalOutcomes =>
           /\ incidents'[d].terminalOutcome = ""
           /\ hist'[i].outcome = hist[i].outcome
           /\ incidents'[d].sinceAttempt = 0 /\ hist'[i].quietFor = 0

(* endAttempt by the holder of the claim. *)
LEMMA EndEffect ==
  ASSUME ClaimInv, NEW d \in Deployments, Active(incidents[d]),
         NEW outcome \in TerminalOutcomes \union Results,
         NEW h, AgreesUpTo(h, incidents[d].id),
         endAttempt(d, incidents[d].id, outcome, h)
  PROVE  EndsWith(d, outcome, h[incidents[d].id].classifiedOn)
<1> DEFINE i == incidents[d].id
<1>1. /\ TypeOK /\ incidents[d] \in Record /\ i \in 1 .. Len(hist)
      /\ Present(incidents[d]) /\ incidents[d].terminalOutcome = ""
      /\ h \in Seq(History)
  BY Types DEF Active, AgreesUpTo
<1>2. /\ incidents' = [incidents EXCEPT ![d] = Released(incidents[d], outcome)]
      /\ \A e \in Deployments \ {d} : incidents'[e] = incidents[e]
  <2>1. incidents' = [incidents EXCEPT ![d] = Released(incidents[d], outcome)]
    BY <1>1 DEF endAttempt
  <2>2. QED
    BY <1>1, <2>1 DEF TypeOK
<1>3. incidents'[d] = Released(incidents[d], outcome)
  BY <1>1, <1>2 DEF TypeOK
<1>4. /\ incidents'[d].id = i /\ incidents'[d].inFlight = FALSE
      /\ incidents'[d].attemptCount = incidents[d].attemptCount
      /\ incidents'[d].evidence = incidents[d].evidence
      /\ outcome \in TerminalOutcomes => incidents'[d].terminalOutcome = outcome
      /\ outcome \notin TerminalOutcomes =>
           incidents'[d].terminalOutcome = "" /\ incidents'[d].sinceAttempt = 0
  <2> DEFINE new == Released(incidents[d], outcome)
  <2>1. /\ new.id = incidents[d].id /\ new.inFlight = FALSE
        /\ new.attemptCount = incidents[d].attemptCount
        /\ new.evidence = incidents[d].evidence
    BY <1>1, ReleasedFacts
  <2>2. outcome \in TerminalOutcomes => new.terminalOutcome = outcome
    BY <1>1, ReleasedFacts
  <2>3. outcome \notin TerminalOutcomes =>
           new.terminalOutcome = incidents[d].terminalOutcome /\ new.sinceAttempt = 0
    BY <1>1, ReleasedFacts
  <2> HIDE DEF new
  <2>4. QED
    BY <1>1, <1>3, <2>1, <2>2, <2>3 DEF new
<1>5. /\ Len(hist') = Len(h)
      /\ \A j \in 1 .. Len(h) : /\ hist'[j].dep = h[j].dep
                                /\ hist'[j].dispatched = h[j].dispatched
                                /\ hist'[j].collected = h[j].collected
                                /\ hist'[j].classifiedOn = h[j].classifiedOn
                                /\ hist'[j].lost = h[j].lost
      /\ outcome \in TerminalOutcomes =>
           \A j \in 1 .. Len(h) :
             /\ hist'[j].quietFor = h[j].quietFor
             /\ hist'[j].outcome = IF j = i THEN outcome ELSE h[j].outcome
      /\ outcome \notin TerminalOutcomes =>
           \A j \in 1 .. Len(h) :
             /\ hist'[j].outcome = h[j].outcome
             /\ hist'[j].quietFor = IF j = i THEN 0 ELSE h[j].quietFor
  <2> DEFINE Kept == \A j \in 1 .. Len(h) : /\ hist'[j].dep = h[j].dep
                                            /\ hist'[j].dispatched = h[j].dispatched
                                            /\ hist'[j].collected = h[j].collected
                                            /\ hist'[j].classifiedOn = h[j].classifiedOn
                                            /\ hist'[j].lost = h[j].lost
  <2>1. Len(hist') = Len(h) /\ Kept
    BY <1>1, EndAttemptType
  <2>2. ASSUME outcome \in TerminalOutcomes, NEW j \in 1 .. Len(h)
        PROVE  /\ hist'[j].quietFor = h[j].quietFor
               /\ hist'[j].outcome = IF j = i THEN outcome ELSE h[j].outcome
    BY <1>1, <2>2, EndAttemptType
  <2>3. ASSUME outcome \notin TerminalOutcomes, NEW j \in 1 .. Len(h)
        PROVE  /\ hist'[j].outcome = h[j].outcome
               /\ hist'[j].quietFor = IF j = i THEN 0 ELSE h[j].quietFor
    <3>1. hist' = WithAttemptEnd(h, i)
      BY <1>1, <2>3 DEF endAttempt, WithAttemptEnd
    <3>2. h \in Seq(History) /\ j \in 1 .. Len(h)
      BY <1>1
    <3> HIDE DEF i
    <3>3. /\ WithAttemptEnd(h, i)[j].outcome = h[j].outcome
          /\ WithAttemptEnd(h, i)[j].quietFor = IF j = i THEN 0 ELSE h[j].quietFor
      BY <3>2, AttemptEndNoted
    <3>4. QED
      BY <3>1, <3>3
  <2>4. QED
    BY <2>1, <2>2, <2>3
<1> HIDE DEF i
<1>6. \A j \in (1 .. Len(hist)) \ {i} : SameHistory(j)
  <2> SUFFICES ASSUME NEW j \in 1 .. Len(hist), j # i PROVE SameHistory(j)
    OBVIOUS
  <2>1. /\ hist'[j].dep = hist[j].dep /\ hist'[j].dispatched = hist[j].dispatched
        /\ hist'[j].collected = hist[j].collected /\ hist'[j].lost = hist[j].lost
        /\ hist'[j].classifiedOn = hist[j].classifiedOn
    BY <1>5 DEF i, AgreesUpTo
  <2>2. hist'[j].quietFor = hist[j].quietFor /\ hist'[j].outcome = hist[j].outcome
    <3>1. CASE outcome \in TerminalOutcomes
      BY <1>5, <3>1 DEF AgreesUpTo
    <3>2. CASE outcome \notin TerminalOutcomes
      BY <1>5, <3>2 DEF AgreesUpTo
    <3>3. QED
      BY <3>1, <3>2
  <2>3. QED
    BY <2>1, <2>2 DEF SameHistory
<1>7. OthersSame(d)
  BY <1>2 DEF OthersSame, SameRecord
<1>8. /\ hist'[i].dep = hist[i].dep /\ hist'[i].lost = hist[i].lost
      /\ hist'[i].dispatched = hist[i].dispatched
      /\ hist'[i].collected = hist[i].collected
      /\ hist'[i].classifiedOn = h[i].classifiedOn
      /\ outcome \in TerminalOutcomes => hist'[i].outcome = outcome
      /\ outcome \notin TerminalOutcomes =>
           hist'[i].outcome = hist[i].outcome /\ hist'[i].quietFor = 0
  BY <1>1, <1>5 DEF i, AgreesUpTo
<1>9. Local(d)
  BY <1>1, <1>4, <1>5, <1>6, <1>7, <1>8 DEF Local, i, AgreesUpTo
<1>10. QED
  BY <1>4, <1>8, <1>9 DEF i, EndsWith

(* What a worker that holds the claim knows. *)
LEMMA WorkerHolding ==
  ASSUME ClaimInv, NEW w \in Workers, worker[w].pc \in HoldingPCs
  PROVE  LET d == worker[w].dep
         IN  /\ d \in Deployments /\ incidents[d].inFlight
             /\ worker[w].incident = incidents[d].id /\ Active(incidents[d])
             /\ \A v \in Workers \ {w} : ~WorkerHolds(v, d)
             /\ \A g \in goroutines : ~GoroutineHolds(g, d)
<1>1. ClaimKeepsIncident
  BY DEF ClaimInv
<1>2. QED
  BY <1>1, HolderFacts DEF ClaimKeepsIncident

(* ... and a goroutine inside Remediate. *)
LEMMA GoroutineHolding ==
  ASSUME ClaimInv, NEW g \in goroutines, g.pc = "remediate"
  PROVE  /\ g.dep \in Deployments /\ incidents[g.dep].inFlight
         /\ g.incident = incidents[g.dep].id /\ Active(incidents[g.dep])
         /\ \A w \in Workers : ~WorkerHolds(w, g.dep)
         /\ \A f \in goroutines \ {g} : ~GoroutineHolds(f, g.dep)
<1>1. ClaimKeepsIncident
  BY DEF ClaimInv
<1>2. QED
  BY <1>1, HolderFacts DEF ClaimKeepsIncident

(* The classification of a worker's incident, field by field. *)
ClassifiedOnce(w) ==
  /\ Classified(w) \in Seq(History) /\ Len(Classified(w)) = Len(hist)
  /\ \A j \in 1 .. Len(hist) :
       /\ Classified(w)[j].dep = hist[j].dep
       /\ Classified(w)[j].dispatched = hist[j].dispatched
       /\ Classified(w)[j].collected = hist[j].collected
       /\ Classified(w)[j].quietFor = hist[j].quietFor
       /\ Classified(w)[j].outcome = hist[j].outcome
       /\ Classified(w)[j].lost = hist[j].lost
       /\ Classified(w)[j].classifiedOn = IF j = worker[w].incident
                                         THEN hist[j].classifiedOn \union {worker[w].bundle}
                                         ELSE hist[j].classifiedOn

LEMMA ClassifiedFields ==
  ASSUME TypeOK, NEW w \in Workers
  PROVE  ClassifiedOnce(w)
BY ClassifiedFacts DEF ClassifiedOnce

WorkerEnds(w) == EscalateBlind(w) \/ Escalate(w) \/ Reject(w)

(* The incident ends in Reconcile, before an action or after some. *)
LEMMA WorkerEndEffect ==
  ASSUME ClaimInv, NEW w \in Workers, WorkerEnds(w)
  PROVE  LET d == worker[w].dep
             i == incidents[d].id
         IN  /\ worker[w].pc \in HoldingPCs /\ worker[w].incident = i
             /\ d \in Deployments /\ Active(incidents[d])
             /\ worker' = [worker EXCEPT ![w].pc = "close"]
             /\ UNCHANGED <<goroutines, audit, restarts>>
             /\ \E o \in {"escalated", "rejected"} :
                  \/ EndsWith(d, o, hist[i].classifiedOn)
                  \/ /\ worker[w].pc = "classify"
                     /\ EndsWith(d, o, hist[i].classifiedOn \union {worker[w].bundle})
<1> DEFINE d == worker[w].dep
           i == incidents[d].id
<1>1. /\ worker[w].pc \in HoldingPCs /\ worker' = [worker EXCEPT ![w].pc = "close"]
      /\ UNCHANGED <<goroutines, audit, restarts>>
  BY DEF WorkerEnds, EscalateBlind, Escalate, Reject, HoldingPCs
<1>2. d \in Deployments /\ worker[w].incident = i /\ Active(incidents[d])
  BY <1>1, WorkerHolding
<1>3. TypeOK /\ hist \in Seq(History) /\ i \in 1 .. Len(hist)
  BY <1>2, Types DEF Active
<1>4. {"escalated", "rejected"} \subseteq TerminalOutcomes
  BY DEF TerminalOutcomes
<1>5. CASE EscalateBlind(w)
  <2>1. endAttempt(d, i, "escalated", hist)
    BY <1>2, <1>5 DEF EscalateBlind
  <2>2. AgreesUpTo(hist, i) /\ "escalated" \in TerminalOutcomes
    BY <1>3, <1>4 DEF AgreesUpTo
  <2>3. EndsWith(d, "escalated", hist[i].classifiedOn)
    BY <1>2, <2>1, <2>2, EndEffect
  <2>4. QED
    BY <1>1, <1>2, <2>3
<1>6. CASE Escalate(w) \/ Reject(w)
  <2>1. PICK o \in {"escalated", "rejected"} :
          worker[w].pc = "classify" /\ endAttempt(d, i, o, Classified(w))
    BY <1>2, <1>6 DEF Escalate, Reject
  <2>2. ClassifiedOnce(w)
    BY <1>3, ClassifiedFields
  <2>3. /\ AgreesUpTo(Classified(w), i)
        /\ Classified(w)[i].classifiedOn = hist[i].classifiedOn \union {worker[w].bundle}
    BY <1>2, <1>3, <2>2 DEF AgreesUpTo, ClassifiedOnce
  <2>4. o \in TerminalOutcomes
    BY <1>4
  <2>5. EndsWith(d, o, Classified(w)[i].classifiedOn)
    BY <1>2, <2>1, <2>3, <2>4, EndEffect
  <2>6. EndsWith(d, o, hist[i].classifiedOn \union {worker[w].bundle})
    BY <2>3, <2>5
  <2>7. QED
    BY <1>1, <1>2, <2>1, <2>6
<1>7. QED
  BY <1>5, <1>6 DEF WorkerEnds

(* Remediate returns: recovered ends the incident, anything else leaves it  *)
(* open and starts its backoff.                                             *)
LEMMA FinishEffect ==
  ASSUME ClaimInv, NEW g \in goroutines, NEW result \in Results, Finish(g, result)
  PROVE  LET d == g.dep
             i == incidents[d].id
         IN  /\ g.pc = "remediate" /\ g.incident = i
             /\ d \in Deployments /\ Active(incidents[d])
             /\ goroutines' = (goroutines \ {g}) \union {[g EXCEPT !.pc = "close"]}
             /\ UNCHANGED <<worker, audit, restarts>>
             /\ EndsWith(d, result, hist[i].classifiedOn)
             /\ result \in TerminalOutcomes => result = "recovered"
<1> DEFINE d == g.dep
           i == incidents[d].id
<1>1. /\ g.pc = "remediate" /\ UNCHANGED <<worker, audit, restarts>>
      /\ goroutines' = (goroutines \ {g}) \union {[g EXCEPT !.pc = "close"]}
  BY DEF Finish
<1>2. d \in Deployments /\ g.incident = i /\ Active(incidents[d])
  BY <1>1, GoroutineHolding
<1>3. TypeOK /\ hist \in Seq(History) /\ i \in 1 .. Len(hist)
  BY <1>2, Types DEF Active
<1>4. endAttempt(d, i, result, hist)
  BY <1>2 DEF Finish
<1>5. result \in TerminalOutcomes => result = "recovered"
  BY DEF TerminalOutcomes, Results
<1>6. AgreesUpTo(hist, i)
  BY <1>3 DEF AgreesUpTo
<1>7. EndsWith(d, result, hist[i].classifiedOn)
  BY <1>2, <1>4, <1>6, EndEffect
<1>8. QED
  BY <1>1, <1>2, <1>5, <1>7

(* Collect changes the count of collections of the worker's incident. *)
LEMMA CollectEffect ==
  ASSUME ClaimInv, NEW w \in Workers, CollectEvidence(w)
  PROVE  LET d == worker[w].dep
             i == incidents[d].id
             n == hist[i].collected + 1
         IN  /\ worker[w].pc = "admitted" /\ Active(incidents[d])
             /\ incidents[d].evidence = 0
             /\ worker' = [worker EXCEPT ![w].pc = "freeze", ![w].bundle = n]
             /\ UNCHANGED <<goroutines, audit, restarts>>
             /\ Local(d) /\ SameRecord(d)
             /\ hist'[i].collected = n
             /\ hist'[i].dispatched = hist[i].dispatched
             /\ hist'[i].classifiedOn = hist[i].classifiedOn
             /\ hist'[i].outcome = hist[i].outcome
             /\ hist'[i].quietFor = hist[i].quietFor
<1> DEFINE d == worker[w].dep
           i == incidents[d].id
           n == hist[i].collected + 1
<1>1. worker[w].pc = "admitted" /\ worker[w].pc \in HoldingPCs
  BY DEF CollectEvidence, HoldingPCs
<1>2. d \in Deployments /\ worker[w].incident = i /\ Active(incidents[d])
  BY <1>1, WorkerHolding
<1>3. /\ TypeOK /\ hist \in Seq(History) /\ i \in 1 .. Len(hist)
      /\ hist[i] \in History /\ Present(incidents[d])
  BY <1>2, Types DEF Active
<1>4. n \in Nat
  <2>1. hist[i].collected \in Nat
    BY <1>3 DEF History
  <2>2. QED
    BY <2>1
<1>5. /\ incidents[d].evidence = 0 /\ incidents' = incidents
      /\ worker' = [worker EXCEPT ![w].pc = "freeze", ![w].bundle = n]
      /\ UNCHANGED <<goroutines, audit, restarts>>
  BY <1>2 DEF CollectEvidence
<1>6. hist' = WithCollected(hist, i, n)
  BY <1>2 DEF CollectEvidence, WithCollected
<1> HIDE DEF n, i
<1>7. /\ Len(hist') = Len(hist)
      /\ \A j \in 1 .. Len(hist) :
           /\ hist'[j].dep = hist[j].dep
           /\ hist'[j].lost = hist[j].lost
           /\ hist'[j].dispatched = hist[j].dispatched
           /\ hist'[j].classifiedOn = hist[j].classifiedOn
           /\ hist'[j].quietFor = hist[j].quietFor
           /\ hist'[j].outcome = hist[j].outcome
           /\ hist'[j].collected = IF j = i THEN n ELSE hist[j].collected
  BY <1>3, <1>4, <1>6, CollectionNoted
<1>8. \A j \in (1 .. Len(hist)) \ {i} : SameHistory(j)
  BY <1>7 DEF SameHistory
<1>9. OthersSame(d) /\ SameRecord(d)
  BY <1>5 DEF OthersSame, SameRecord
<1>10. Local(d)
  BY <1>2, <1>3, <1>5, <1>7, <1>8, <1>9 DEF Local, i
<1>11. QED
  BY <1>1, <1>2, <1>3, <1>5, <1>7, <1>9, <1>10 DEF i, n

(* freezeEvidence notes the bundle on the record. *)
LEMMA FreezeEffect ==
  ASSUME ClaimInv, NEW w \in Workers, FreezeEvidence(w)
  PROVE  LET d == worker[w].dep
         IN  /\ worker[w].pc = "freeze" /\ Active(incidents[d])
             /\ worker' = [worker EXCEPT ![w].pc = "classify"]
             /\ UNCHANGED <<goroutines, audit, restarts>>
             /\ Local(d) /\ HistoriesSame
             /\ incidents'[d].evidence = worker[w].bundle
             /\ incidents'[d].attemptCount = incidents[d].attemptCount
             /\ incidents'[d].sinceAttempt = incidents[d].sinceAttempt
             /\ incidents'[d].terminalOutcome = incidents[d].terminalOutcome
             /\ incidents'[d].inFlight = incidents[d].inFlight
<1> DEFINE d == worker[w].dep
           i == incidents[d].id
<1>1. worker[w].pc = "freeze" /\ worker[w].pc \in HoldingPCs
  BY DEF FreezeEvidence, HoldingPCs
<1>2. d \in Deployments /\ Active(incidents[d])
  BY <1>1, WorkerHolding
<1>3. /\ TypeOK /\ incidents[d] \in Record /\ i \in 1 .. Len(hist) /\ Present(incidents[d])
  BY <1>2, Types DEF Active
<1>4. /\ incidents' = [incidents EXCEPT ![d].evidence = worker[w].bundle]
      /\ hist' = hist /\ worker' = [worker EXCEPT ![w].pc = "classify"]
      /\ UNCHANGED <<goroutines, audit, restarts>>
  BY <1>3 DEF FreezeEvidence, freezeEvidence
<1>5. /\ incidents'[d] = [incidents[d] EXCEPT !.evidence = worker[w].bundle]
      /\ \A e \in Deployments \ {d} : incidents'[e] = incidents[e]
  BY <1>2, <1>3, <1>4 DEF TypeOK
<1>6. /\ incidents'[d].id = i
      /\ incidents'[d].evidence = worker[w].bundle
      /\ incidents'[d].attemptCount = incidents[d].attemptCount
      /\ incidents'[d].sinceAttempt = incidents[d].sinceAttempt
      /\ incidents'[d].terminalOutcome = incidents[d].terminalOutcome
      /\ incidents'[d].inFlight = incidents[d].inFlight
  BY <1>3, <1>5 DEF Record
<1>7. OthersSame(d) /\ HistoriesSame
  BY <1>4, <1>5 DEF OthersSame, SameRecord, HistoriesSame, SameHistory
<1>8. Local(d)
  BY <1>2, <1>3, <1>6, <1>7 DEF Local, HistoriesSame, SameHistory
<1>9. QED
  BY <1>1, <1>2, <1>4, <1>6, <1>7, <1>8

(* recordAttempt and the go statement. *)
LEMMA DispatchEffect ==
  ASSUME ClaimInv, NEW w \in Workers, Dispatch(w)
  PROVE  LET d == worker[w].dep
             i == incidents[d].id
         IN  /\ worker[w].pc = "classify" /\ worker[w].incident = i
             /\ Active(incidents[d]) /\ incidents[d].inFlight
             /\ worker' = [worker EXCEPT ![w] = IdleWorker]
             /\ UNCHANGED <<audit, restarts>>
             /\ goroutines' = goroutines \union
                  {[dep |-> d, incident |-> i, attempt |-> incidents[d].attemptCount + 1,
                    pc |-> "remediate", moves |-> 0]}
             /\ Local(d)
             /\ incidents'[d].attemptCount = incidents[d].attemptCount + 1
             /\ incidents'[d].sinceAttempt = incidents[d].sinceAttempt
             /\ incidents'[d].terminalOutcome = incidents[d].terminalOutcome
             /\ incidents'[d].inFlight = incidents[d].inFlight
             /\ incidents'[d].evidence = incidents[d].evidence
             /\ hist'[i].dispatched = hist[i].dispatched + 1
             /\ hist'[i].collected = hist[i].collected
             /\ hist'[i].classifiedOn = hist[i].classifiedOn \union {worker[w].bundle}
             /\ hist'[i].outcome = hist[i].outcome
<1> DEFINE d == worker[w].dep
           i == incidents[d].id
           n == incidents[d].attemptCount + 1
<1>1. worker[w].pc = "classify" /\ worker[w].pc \in HoldingPCs
  BY DEF Dispatch, HoldingPCs
<1>2. /\ d \in Deployments /\ worker[w].incident = i /\ Active(incidents[d])
      /\ incidents[d].inFlight
  BY <1>1, WorkerHolding
<1>3. /\ TypeOK /\ incidents[d] \in Record /\ i \in 1 .. Len(hist) /\ Present(incidents[d])
  BY <1>2, Types DEF Active
<1>4. /\ incidents' = [incidents EXCEPT ![d].attemptCount = n]
      /\ worker' = [worker EXCEPT ![w] = IdleWorker]
      /\ UNCHANGED <<audit, restarts>>
      /\ goroutines' = goroutines \union
           {[dep |-> d, incident |-> i, attempt |-> n, pc |-> "remediate", moves |-> 0]}
  BY <1>2, <1>3 DEF Dispatch
<1>5. hist' = WithDispatch(Classified(w), i)
  BY <1>2 DEF Dispatch, WithDispatch
<1> HIDE DEF n
<1>6. /\ incidents'[d] = [incidents[d] EXCEPT !.attemptCount = n]
      /\ \A e \in Deployments \ {d} : incidents'[e] = incidents[e]
  BY <1>2, <1>3, <1>4 DEF TypeOK
<1>7. /\ incidents'[d].id = i
      /\ incidents'[d].attemptCount = n
      /\ incidents'[d].evidence = incidents[d].evidence
      /\ incidents'[d].sinceAttempt = incidents[d].sinceAttempt
      /\ incidents'[d].terminalOutcome = incidents[d].terminalOutcome
      /\ incidents'[d].inFlight = incidents[d].inFlight
  BY <1>3, <1>6 DEF Record
<1>a. worker[w].incident = i /\ i \in 1 .. Len(hist)
  BY <1>2, <1>3
<1> HIDE DEF i
<1>8. ClassifiedOnce(w)
  BY <1>3, ClassifiedFields
<1>9. Classified(w) \in Seq(History) /\ Len(Classified(w)) = Len(hist)
  BY <1>8 DEF ClassifiedOnce
<1>10. /\ Len(hist') = Len(hist)
       /\ \A j \in 1 .. Len(hist) :
            /\ hist'[j].dep = Classified(w)[j].dep
            /\ hist'[j].lost = Classified(w)[j].lost
            /\ hist'[j].collected = Classified(w)[j].collected
            /\ hist'[j].classifiedOn = Classified(w)[j].classifiedOn
            /\ hist'[j].quietFor = Classified(w)[j].quietFor
            /\ hist'[j].outcome = Classified(w)[j].outcome
            /\ hist'[j].dispatched = IF j = i THEN Classified(w)[j].dispatched + 1
                                              ELSE Classified(w)[j].dispatched
  BY <1>5, <1>9, DispatchNoted
<1>11. \A j \in (1 .. Len(hist)) \ {i} : SameHistory(j)
  <2> SUFFICES ASSUME NEW j \in 1 .. Len(hist), j # i PROVE SameHistory(j)
    OBVIOUS
  <2>1. /\ Classified(w)[j].dep = hist[j].dep
        /\ Classified(w)[j].dispatched = hist[j].dispatched
        /\ Classified(w)[j].collected = hist[j].collected
        /\ Classified(w)[j].quietFor = hist[j].quietFor
        /\ Classified(w)[j].outcome = hist[j].outcome
        /\ Classified(w)[j].lost = hist[j].lost
        /\ Classified(w)[j].classifiedOn = hist[j].classifiedOn
    BY <1>a, <1>8 DEF ClassifiedOnce
  <2>2. QED
    BY <1>10, <2>1 DEF SameHistory
<1>12. /\ hist'[i].dep = hist[i].dep /\ hist'[i].lost = hist[i].lost
       /\ hist'[i].dispatched = hist[i].dispatched + 1
       /\ hist'[i].collected = hist[i].collected
       /\ hist'[i].classifiedOn = hist[i].classifiedOn \union {worker[w].bundle}
       /\ hist'[i].outcome = hist[i].outcome
  <2>1. /\ Classified(w)[i].dep = hist[i].dep
        /\ Classified(w)[i].dispatched = hist[i].dispatched
        /\ Classified(w)[i].collected = hist[i].collected
        /\ Classified(w)[i].outcome = hist[i].outcome
        /\ Classified(w)[i].lost = hist[i].lost
        /\ Classified(w)[i].classifiedOn = hist[i].classifiedOn \union {worker[w].bundle}
    BY <1>a, <1>8 DEF ClassifiedOnce
  <2>2. QED
    BY <1>a, <1>10, <2>1
<1>13. OthersSame(d)
  BY <1>6 DEF OthersSame, SameRecord
<1>14. Local(d)
  BY <1>2, <1>3, <1>7, <1>10, <1>11, <1>12, <1>13 DEF Local, i
<1>15. QED
  BY <1>1, <1>2, <1>4, <1>7, <1>12, <1>14 DEF i, n

AllSame == (\A d \in Deployments : SameRecord(d)) /\ HistoriesSame

(* The steps that change no record and nothing of a history but edited.     *)
QuietStep ==
  \/ \E w \in Workers : \/ \E d \in Deployments : Observe(w, d)
                        \/ SkipQuiet(w) \/ ReuseEvidence(w) \/ CloseInReconcile(w)
  \/ \E g \in goroutines : MoveSpec(g) \/ CloseInGoroutine(g)
  \/ \E d \in Deployments : HumanEdit(d) \/ CacheSync(d)
  \/ UNCHANGED vars

LEMMA QuietEffect ==
  ASSUME ClaimInv, QuietStep
  PROVE  AllSame
<1>1. ASSUME UNCHANGED <<incidents, hist>> PROVE AllSame
  BY <1>1 DEF AllSame, SameRecord, HistoriesSame, SameHistory
<1>2. ASSUME NEW d \in Deployments, HumanEdit(d) PROVE AllSame
  <2>1. /\ incidents' = incidents
        /\ hist' = [i \in 1 .. Len(hist) |->
                      [hist[i] EXCEPT !.edited = hist[i].edited \/ hist[i].dep = d]]
    BY <1>2 DEF HumanEdit
  <2>2. Len(hist) \in Nat /\ \A i \in 1 .. Len(hist) : hist[i] \in History
    BY Types
  <2>3. ASSUME NEW i \in 1 .. Len(hist) PROVE SameHistory(i)
    <3>1. hist'[i] = [hist[i] EXCEPT !.edited = hist[i].edited \/ hist[i].dep = d]
      BY <2>1
    <3>2. \A b : LET k == [hist[i] EXCEPT !.edited = b]
                 IN  /\ k.dep = hist[i].dep /\ k.dispatched = hist[i].dispatched
                     /\ k.collected = hist[i].collected
                     /\ k.classifiedOn = hist[i].classifiedOn
                     /\ k.quietFor = hist[i].quietFor /\ k.outcome = hist[i].outcome
                     /\ k.lost = hist[i].lost
      BY <2>2 DEF History
    <3>3. QED
      BY <3>1, <3>2 DEF SameHistory
  <2>4. Len(hist') = Len(hist)
    BY <2>1, <2>2
  <2>5. QED
    BY <2>1, <2>3, <2>4 DEF AllSame, SameRecord, HistoriesSame
<1>3. QED
  BY <1>1, <1>2 DEF QuietStep, Observe, SkipQuiet, ReuseEvidence, CloseInReconcile, MoveSpec,
                    CloseInGoroutine, CacheSync, vars

(* Time: the ages of records and histories only, and those in step.         *)
LEMMA TickEffect ==
  ASSUME ClaimInv, Tick
  PROVE  /\ UNCHANGED <<worker, goroutines, audit, restarts>>
         /\ \A d \in Deployments :
              /\ incidents'[d].id = incidents[d].id
              /\ incidents'[d].attemptCount = incidents[d].attemptCount
              /\ incidents'[d].terminalOutcome = incidents[d].terminalOutcome
              /\ incidents'[d].inFlight = incidents[d].inFlight
              /\ incidents'[d].evidence = incidents[d].evidence
              /\ Active(incidents[d]) /\ incidents[d].attemptCount > 0 /\ ~incidents[d].inFlight
                   => incidents'[d].sinceAttempt = Older(incidents[d].sinceAttempt)
         /\ Len(hist') = Len(hist)
         /\ \A i \in 1 .. Len(hist) :
              /\ hist'[i].dep = hist[i].dep /\ hist'[i].dispatched = hist[i].dispatched
              /\ hist'[i].collected = hist[i].collected
              /\ hist'[i].classifiedOn = hist[i].classifiedOn
              /\ hist'[i].outcome = hist[i].outcome /\ hist'[i].lost = hist[i].lost
              /\ /\ hist[i].outcome = "" /\ ~hist[i].lost /\ hist[i].dispatched > 0
                 /\ ~incidents[hist[i].dep].inFlight
                 => hist'[i].quietFor = Older(hist[i].quietFor)
<1>1. /\ incidents' = [d \in Deployments |-> Aged(incidents[d])]
      /\ hist' = [i \in 1 .. Len(hist) |-> AgedHistory(i)]
      /\ UNCHANGED <<worker, goroutines, audit, restarts>>
  BY DEF Tick
<1>2. /\ Len(hist) \in Nat /\ \A i \in 1 .. Len(hist) : hist[i] \in History
      /\ \A d \in Deployments : incidents[d] \in Record
  BY Types
<1>3. ASSUME NEW d \in Deployments
      PROVE  /\ incidents'[d].id = incidents[d].id
             /\ incidents'[d].attemptCount = incidents[d].attemptCount
             /\ incidents'[d].terminalOutcome = incidents[d].terminalOutcome
             /\ incidents'[d].inFlight = incidents[d].inFlight
             /\ incidents'[d].evidence = incidents[d].evidence
             /\ Active(incidents[d]) /\ incidents[d].attemptCount > 0 /\ ~incidents[d].inFlight
                  => incidents'[d].sinceAttempt = Older(incidents[d].sinceAttempt)
  <2>1. incidents'[d] = Aged(incidents[d]) /\ incidents[d] \in Record
    BY <1>1, <1>2
  <2>2. /\ incidents'[d].id = incidents[d].id
        /\ incidents'[d].attemptCount = incidents[d].attemptCount
        /\ incidents'[d].terminalOutcome = incidents[d].terminalOutcome
        /\ incidents'[d].inFlight = incidents[d].inFlight
        /\ incidents'[d].evidence = incidents[d].evidence
    BY <2>1, AgedFacts
  <2>3. ASSUME Active(incidents[d]), incidents[d].attemptCount > 0, ~incidents[d].inFlight
        PROVE  incidents'[d].sinceAttempt = Older(incidents[d].sinceAttempt)
    <3>1. ~Terminal(incidents[d])
      BY <2>3 DEF Active, Terminal
    <3>2. incidents'[d] = [incidents[d] EXCEPT !.sinceAttempt = Older(incidents[d].sinceAttempt)]
      BY <2>1, <2>3, <3>1 DEF Aged
    <3>3. QED
      BY <2>1, <3>2 DEF Record
  <2>4. QED
    BY <2>2, <2>3
<1>4. ASSUME NEW i \in 1 .. Len(hist)
      PROVE  /\ hist'[i].dep = hist[i].dep /\ hist'[i].dispatched = hist[i].dispatched
             /\ hist'[i].collected = hist[i].collected
             /\ hist'[i].classifiedOn = hist[i].classifiedOn
             /\ hist'[i].outcome = hist[i].outcome /\ hist'[i].lost = hist[i].lost
             /\ /\ hist[i].outcome = "" /\ ~hist[i].lost /\ hist[i].dispatched > 0
                /\ ~incidents[hist[i].dep].inFlight
                => hist'[i].quietFor = Older(hist[i].quietFor)
  <2>1. hist'[i] = AgedHistory(i) /\ hist[i] \in History
    BY <1>1, <1>2
  <2> DEFINE between == /\ hist[i].outcome = "" /\ ~hist[i].lost /\ hist[i].dispatched > 0
                        /\ ~incidents[hist[i].dep].inFlight
  <2>2. AgedHistory(i) = IF between THEN [hist[i] EXCEPT !.quietFor = Older(hist[i].quietFor)]
                                    ELSE hist[i]
    BY DEF AgedHistory
  <2> HIDE DEF between
  <2>3. CASE between
    <3>1. hist'[i] = [hist[i] EXCEPT !.quietFor = Older(hist[i].quietFor)]
      BY <2>1, <2>2, <2>3
    <3>2. QED
      BY <2>1, <3>1 DEF History
  <2>4. CASE ~between
    <3>1. hist'[i] = hist[i]
      BY <2>1, <2>2, <2>4
    <3>2. QED
      BY <2>4, <3>1 DEF between
  <2>5. QED
    BY <2>3, <2>4
<1>5. Len(hist') = Len(hist)
  BY <1>1, <1>2
<1>6. QED
  BY <1>1, <1>3, <1>4, <1>5

(* The process restarts: nothing is remembered but the histories. *)
LEMMA RestartEffect ==
  ASSUME ClaimInv, Restart
  PROVE  /\ goroutines' = {} /\ audit' = audit /\ restarts' # restarts
         /\ \A w \in Workers : worker'[w] = IdleWorker
         /\ \A d \in Deployments : incidents'[d] = Missing
         /\ Len(hist') = Len(hist)
         /\ \A i \in 1 .. Len(hist) :
              /\ hist'[i].dep = hist[i].dep /\ hist'[i].dispatched = hist[i].dispatched
              /\ hist'[i].collected = hist[i].collected
              /\ hist'[i].classifiedOn = hist[i].classifiedOn
              /\ hist'[i].outcome = hist[i].outcome /\ hist'[i].lost = TRUE
<1>1. /\ goroutines' = {} /\ audit' = audit /\ restarts' = restarts + 1
      /\ \A w \in Workers : worker'[w] = IdleWorker
      /\ \A d \in Deployments : incidents'[d] = Missing
      /\ hist' = [i \in 1 .. Len(hist) |-> [hist[i] EXCEPT !.lost = TRUE]]
  BY DEF Restart
<1>2. restarts \in Nat
  BY Types, ConstantsAssumption DEF TypeOK
<1>3. Len(hist) \in Nat /\ \A i \in 1 .. Len(hist) : hist[i] \in History
  BY Types
<1>4. Len(hist') = Len(hist)
  BY <1>1, <1>3
<1>5. \A i \in 1 .. Len(hist) :
        /\ hist'[i].dep = hist[i].dep /\ hist'[i].dispatched = hist[i].dispatched
        /\ hist'[i].collected = hist[i].collected
        /\ hist'[i].classifiedOn = hist[i].classifiedOn
        /\ hist'[i].outcome = hist[i].outcome /\ hist'[i].lost = TRUE
  BY <1>1, <1>3 DEF History
<1>6. restarts' # restarts
  BY <1>1, <1>2
<1>7. QED
  BY <1>1, <1>4, <1>5, <1>6

(* Every step is one of those above. *)
LEMMA StepCases ==
  ASSUME [Next]_vars
  PROVE  \/ QuietStep \/ Tick \/ Restart
         \/ \E w \in Workers : \/ BeginAttempt(w) /\ ~SkipQuiet(w)
                               \/ WorkerEnds(w) \/ CollectEvidence(w)
                               \/ FreezeEvidence(w) \/ Dispatch(w)
         \/ \E g \in goroutines, result \in Results : Finish(g, result)
BY DEF Next, ReconcileStep, Return, QuietStep, WorkerEnds

-----------------------------------------------------------------------------
(* The record and its history. *)

(* A missing record has no outcome. *)
MissingIsOpen ==
  \A d \in Deployments : ~Present(incidents[d]) => incidents[d].terminalOutcome = ""

(* The record of d agrees with the history of the incident it stands for:   *)
(* the attempts, the outcome and, between two attempts, the age of the last.*)
Linked(d) ==
  Present(incidents[d]) =>
    LET r == incidents[d]
        h == hist[incidents[d].id]
    IN  /\ ~h.lost
        /\ r.attemptCount = h.dispatched
        /\ r.terminalOutcome = h.outcome
        /\ r.terminalOutcome = "" /\ r.attemptCount > 0 /\ ~r.inFlight
             => r.sinceAttempt = h.quietFor

AllLinked == \A d \in Deployments : Linked(d)

(* An incident that neither ended nor was forgotten is the one in the map.  *)
RunningIsCurrent ==
  \A i \in 1 .. Len(hist) :
    hist[i].outcome = "" /\ ~hist[i].lost => incidents[hist[i].dep].id = i

WithinBudget == \A i \in 1 .. Len(hist) : hist[i].dispatched <= MaxAttempts

(* Whoever holds the claim has budget left for the action it may dispatch.  *)
WorkerBudget ==
  \A w \in Workers :
    worker[w].pc \in HoldingPCs => incidents[worker[w].dep].attemptCount < MaxAttempts

RecordInv == MissingIsOpen /\ AllLinked /\ RunningIsCurrent /\ WithinBudget

(* Two Deployments have different incidents. *)
LEMMA IdsDiffer ==
  ASSUME ClaimInv, NEW d \in Deployments, NEW e \in Deployments \ {d},
         Present(incidents[d]), Present(incidents[e])
  PROVE  incidents[d].id # incidents[e].id
BY DEF ClaimInv, IdsIssued

(* What a step on one active record has to keep of it. *)
LEMMA RecordLocal ==
  ASSUME ClaimInv, RecordInv, NEW d \in Deployments, Local(d), Active(incidents[d]),
         incidents'[d].attemptCount = hist'[incidents[d].id].dispatched,
         incidents'[d].terminalOutcome = hist'[incidents[d].id].outcome,
         /\ incidents'[d].terminalOutcome = "" /\ incidents'[d].attemptCount > 0
         /\ ~incidents'[d].inFlight
         => incidents'[d].sinceAttempt = hist'[incidents[d].id].quietFor,
         hist'[incidents[d].id].dispatched <= MaxAttempts
  PROVE  /\ RecordInv'
         /\ Len(hist') = Len(hist)
         /\ \A j \in 1 .. Len(hist) : hist[j].outcome # "" => SameHistory(j)
<1> DEFINE i == incidents[d].id
<1>1. /\ Present(incidents[d]) /\ i \in 1 .. Len(hist)
      /\ OthersSame(d) /\ incidents'[d].id = i
      /\ Len(hist') = Len(hist)
      /\ \A j \in (1 .. Len(hist)) \ {i} : SameHistory(j)
      /\ hist'[i].dep = hist[i].dep /\ hist'[i].lost = hist[i].lost
  BY DEF Local
<1>2. ~hist[i].lost /\ hist[i].outcome = "" /\ hist[i].dep = d
  BY <1>1 DEF RecordInv, AllLinked, Linked, Active, ClaimInv, IdsIssued
<1>3. MissingIsOpen'
  BY <1>1 DEF MissingIsOpen, RecordInv, OthersSame, SameRecord, Present
<1>4. ASSUME NEW e \in Deployments PROVE Linked(e)'
  <2>1. CASE e = d
    BY <1>1, <1>2, <2>1 DEF Linked
  <2>2. CASE e # d
    <3>1. SameRecord(e)
      BY <1>1, <2>2 DEF OthersSame
    <3>2. ASSUME Present(incidents[e]) PROVE SameHistory(incidents[e].id)
      <4>1. incidents[e].id \in 1 .. Len(hist)
        BY <3>2, Types
      <4>2. incidents[e].id # i
        BY <1>1, <2>2, <3>2, IdsDiffer
      <4>3. QED
        BY <1>1, <4>1, <4>2
    <3>3. Linked(e)
      BY DEF RecordInv, AllLinked
    <3>4. QED
      BY <3>1, <3>2, <3>3 DEF Linked, Present, SameRecord, SameHistory
  <2>3. QED
    BY <2>1, <2>2
<1>5. RunningIsCurrent'
  <2> SUFFICES ASSUME NEW j \in 1 .. Len(hist), hist'[j].outcome = "", ~hist'[j].lost
               PROVE  incidents'[hist'[j].dep].id = j
    BY <1>1 DEF RunningIsCurrent
  <2>1. CASE j = i
    BY <1>1, <1>2, <2>1
  <2>2. CASE j # i
    <3>1. SameHistory(j)
      BY <1>1, <2>2
    <3>2. incidents[hist[j].dep].id = j
      BY <3>1 DEF SameHistory, RecordInv, RunningIsCurrent
    <3>3. hist[j].dep \in Deployments
      BY Types DEF History
    <3>4. SameRecord(hist[j].dep)
      BY <1>1, <2>2, <3>2, <3>3 DEF OthersSame
    <3>5. QED
      BY <3>1, <3>2, <3>4 DEF SameHistory, SameRecord
  <2>3. QED
    BY <2>1, <2>2
<1>6. WithinBudget'
  <2> SUFFICES ASSUME NEW j \in 1 .. Len(hist) PROVE hist'[j].dispatched <= MaxAttempts
    BY <1>1 DEF WithinBudget
  <2>1. CASE j = i
    BY <2>1
  <2>2. CASE j # i
    <3>1. hist'[j].dispatched = hist[j].dispatched
      BY <1>1, <2>2 DEF SameHistory
    <3>2. QED
      BY <3>1 DEF RecordInv, WithinBudget
  <2>3. QED
    BY <2>1, <2>2
<1>7. \A j \in 1 .. Len(hist) : hist[j].outcome # "" => SameHistory(j)
  BY <1>1, <1>2
<1>8. QED
  BY <1>1, <1>3, <1>4, <1>5, <1>6, <1>7 DEF RecordInv, AllLinked

(* A step that changes none. *)
LEMMA RecordQuiet ==
  ASSUME ClaimInv, RecordInv, AllSame
  PROVE  RecordInv'
<1>1. /\ \A d \in Deployments : SameRecord(d)
      /\ Len(hist') = Len(hist) /\ \A i \in 1 .. Len(hist) : SameHistory(i)
  BY DEF AllSame, HistoriesSame
<1>2. MissingIsOpen'
  BY <1>1 DEF MissingIsOpen, RecordInv, SameRecord, Present
<1>3. ASSUME NEW e \in Deployments PROVE Linked(e)'
  <2>1. SameRecord(e) /\ Linked(e)
    BY <1>1 DEF RecordInv, AllLinked
  <2>2. Present(incidents[e]) => SameHistory(incidents[e].id)
    BY <1>1, Types
  <2>3. QED
    BY <2>1, <2>2 DEF Linked, Present, SameRecord, SameHistory
<1>4. RunningIsCurrent'
  <2> SUFFICES ASSUME NEW j \in 1 .. Len(hist), hist'[j].outcome = "", ~hist'[j].lost
               PROVE  incidents'[hist'[j].dep].id = j
    BY <1>1 DEF RunningIsCurrent
  <2>1. SameHistory(j) /\ hist[j].dep \in Deployments
    BY <1>1, Types DEF History
  <2>2. incidents[hist[j].dep].id = j /\ SameRecord(hist[j].dep)
    BY <1>1, <2>1 DEF SameHistory, RecordInv, RunningIsCurrent
  <2>3. QED
    BY <2>1, <2>2 DEF SameHistory, SameRecord
<1>5. WithinBudget'
  BY <1>1 DEF WithinBudget, RecordInv, SameHistory
<1>6. QED
  BY <1>2, <1>3, <1>4, <1>5 DEF RecordInv, AllLinked

(* beginAttempt opens an incident: the one before it has ended. *)
LEMMA RecordOpens ==
  ASSUME ClaimInv, RecordInv, NEW w \in Workers, BeginAttempt(w), ~SkipQuiet(w),
         ~Active(incidents[worker[w].dep])
  PROVE  RecordInv'
<1> DEFINE d == worker[w].dep
           n == Len(hist) + 1
<1>1. /\ d \in Deployments /\ OthersSame(d)
      /\ incidents'[d].id = n /\ incidents'[d].attemptCount = 0
      /\ incidents'[d].terminalOutcome = "" /\ incidents'[d].inFlight
      /\ Len(hist') = n /\ \A i \in 1 .. Len(hist) : SameHistory(i)
      /\ hist'[n].dep = d /\ hist'[n].dispatched = 0 /\ hist'[n].outcome = ""
      /\ hist'[n].lost = FALSE
  BY OpenEffect
<1>2. Len(hist) \in Nat /\ 1 .. n = (1 .. Len(hist)) \union {n} /\ n # 0
  BY Types
<1>a. \A j \in 1 .. Len(hist) : j # 0
  BY <1>2
<1> HIDE DEF n
<1>3. MissingIsOpen'
  BY <1>1, <1>2 DEF MissingIsOpen, RecordInv, OthersSame, SameRecord, Present
<1>4. ASSUME NEW e \in Deployments PROVE Linked(e)'
  <2>1. CASE e = d
    BY <1>1, <2>1 DEF Linked
  <2>2. CASE e # d
    <3>1. SameRecord(e) /\ Linked(e)
      BY <1>1, <2>2 DEF OthersSame, RecordInv, AllLinked
    <3>2. Present(incidents[e]) => SameHistory(incidents[e].id)
      BY <1>1, Types
    <3>3. QED
      BY <3>1, <3>2 DEF Linked, Present, SameRecord, SameHistory
  <2>3. QED
    BY <2>1, <2>2
<1>5. RunningIsCurrent'
  <2> SUFFICES ASSUME NEW j \in 1 .. n, hist'[j].outcome = "", ~hist'[j].lost
               PROVE  incidents'[hist'[j].dep].id = j
    BY <1>1 DEF RunningIsCurrent
  <2>1. CASE j = n
    BY <1>1, <2>1
  <2>2. CASE j \in 1 .. Len(hist)
    <3>1. SameHistory(j) /\ hist[j].dep \in Deployments
      BY <1>1, <2>2, Types DEF History
    <3>2. incidents[hist[j].dep].id = j /\ hist[j].outcome = ""
      BY <2>2, <3>1 DEF SameHistory, RecordInv, RunningIsCurrent
    <3>3. Active(incidents[hist[j].dep])
      <4>1. j # 0
        BY <1>a, <2>2
      <4>2. Present(incidents[hist[j].dep])
        BY <3>2, <4>1 DEF Present
      <4>3. incidents[hist[j].dep].terminalOutcome = ""
        BY <3>1, <3>2, <4>2 DEF RecordInv, AllLinked, Linked
      <4>4. QED
        BY <4>2, <4>3 DEF Active
    <3>4. SameRecord(hist[j].dep)
      BY <1>1, <3>1, <3>3 DEF OthersSame
    <3>5. QED
      BY <3>1, <3>2, <3>4 DEF SameHistory, SameRecord
  <2>3. QED
    BY <1>2, <2>1, <2>2
<1>6. WithinBudget'
  <2>1. 0 <= MaxAttempts
    BY ConstantsAssumption
  <2> SUFFICES ASSUME NEW j \in 1 .. n PROVE hist'[j].dispatched <= MaxAttempts
    BY <1>1 DEF WithinBudget
  <2>2. CASE j = n
    BY <1>1, <2>1, <2>2
  <2>3. CASE j \in 1 .. Len(hist)
    BY <1>1, <2>3 DEF SameHistory, RecordInv, WithinBudget
  <2>4. QED
    BY <1>2, <2>2, <2>3
<1>7. QED
  BY <1>3, <1>4, <1>5, <1>6 DEF RecordInv, AllLinked

(* Time keeps the two ages equal. *)
LEMMA RecordTick ==
  ASSUME ClaimInv, RecordInv, Tick
  PROVE  RecordInv'
<1>1. /\ \A d \in Deployments :
           /\ incidents'[d].id = incidents[d].id
           /\ incidents'[d].attemptCount = incidents[d].attemptCount
           /\ incidents'[d].terminalOutcome = incidents[d].terminalOutcome
           /\ incidents'[d].inFlight = incidents[d].inFlight
      /\ Len(hist') = Len(hist)
      /\ \A i \in 1 .. Len(hist) :
           /\ hist'[i].dep = hist[i].dep /\ hist'[i].dispatched = hist[i].dispatched
           /\ hist'[i].outcome = hist[i].outcome /\ hist'[i].lost = hist[i].lost
  BY TickEffect
<1>2. MissingIsOpen'
  BY <1>1 DEF MissingIsOpen, RecordInv, Present
<1>3. ASSUME NEW d \in Deployments PROVE Linked(d)'
  <2> DEFINE i == incidents[d].id
  <2>1. Linked(d)
    BY DEF RecordInv, AllLinked
  <2>2. CASE ~Present(incidents[d])
    BY <1>1, <2>2 DEF Linked, Present
  <2>3. CASE Present(incidents[d])
    <3>1. i \in 1 .. Len(hist) /\ hist[i].dep = d
      BY <2>3, Types DEF ClaimInv, IdsIssued
    <3>2. /\ ~hist[i].lost /\ incidents[d].attemptCount = hist[i].dispatched
          /\ incidents[d].terminalOutcome = hist[i].outcome
      BY <2>1, <2>3 DEF Linked
    <3>3. ASSUME incidents[d].terminalOutcome = "", incidents[d].attemptCount > 0,
                 ~incidents[d].inFlight
          PROVE  incidents'[d].sinceAttempt = hist'[i].quietFor
      <4>1. incidents[d].sinceAttempt = hist[i].quietFor
        BY <2>1, <2>3, <3>3 DEF Linked
      <4>2. incidents'[d].sinceAttempt = Older(incidents[d].sinceAttempt)
        BY <2>3, <3>3, TickEffect DEF Active
      <4>3. hist'[i].quietFor = Older(hist[i].quietFor)
        BY <3>1, <3>2, <3>3, TickEffect
      <4>4. QED
        BY <4>1, <4>2, <4>3
    <3> HIDE DEF i
    <3>4. /\ ~hist'[i].lost /\ incidents'[d].attemptCount = hist'[i].dispatched
          /\ incidents'[d].terminalOutcome = hist'[i].outcome /\ incidents'[d].id = i
      BY <1>1, <3>1, <3>2 DEF i
    <3>5. QED
      BY <1>1, <3>3, <3>4 DEF Linked
  <2>4. QED
    BY <2>2, <2>3
<1>4. RunningIsCurrent'
  <2> SUFFICES ASSUME NEW j \in 1 .. Len(hist), hist'[j].outcome = "", ~hist'[j].lost
               PROVE  incidents'[hist'[j].dep].id = j
    BY <1>1 DEF RunningIsCurrent
  <2>1. hist[j].dep \in Deployments
    BY Types DEF History
  <2>2. incidents[hist[j].dep].id = j
    BY <1>1 DEF RecordInv, RunningIsCurrent
  <2>3. QED
    BY <1>1, <2>1, <2>2
<1>5. WithinBudget'
  BY <1>1 DEF WithinBudget, RecordInv
<1>6. QED
  BY <1>2, <1>3, <1>4, <1>5 DEF RecordInv, AllLinked

(* A restart forgets every incident. *)
LEMMA RecordRestart ==
  ASSUME ClaimInv, RecordInv, Restart
  PROVE  RecordInv'
<1>1. /\ \A d \in Deployments : incidents'[d] = Missing
      /\ Len(hist') = Len(hist)
      /\ \A i \in 1 .. Len(hist) :
           hist'[i].dispatched = hist[i].dispatched /\ hist'[i].lost = TRUE
  BY RestartEffect
<1>2. Missing.id = 0 /\ Missing.terminalOutcome = ""
  BY DEF Missing, NewRecord
<1>3. MissingIsOpen' /\ AllLinked'
  BY <1>1, <1>2 DEF MissingIsOpen, AllLinked, Linked, Present
<1>4. RunningIsCurrent' /\ WithinBudget'
  BY <1>1 DEF RunningIsCurrent, WithinBudget, RecordInv
<1>5. QED
  BY <1>3, <1>4 DEF RecordInv

(* A worker that will hold the claim after a step has just taken it or held *)
(* it before, and is where its own step, if any, has brought it.            *)
Holder(v) ==
  /\ worker'[v].dep = worker[v].dep
  /\ \/ Claim(v) /\ worker'[v].pc = "admitted"
     \/ worker[v].pc \in HoldingPCs /\ worker'[v].pc = worker[v].pc
        /\ worker'[v].bundle = worker[v].bundle
     \/ worker[v].pc = "admitted" /\ (ReuseEvidence(v) \/ CollectEvidence(v))
     \/ FreezeEvidence(v) /\ worker'[v].pc = "classify"
        /\ worker'[v].bundle = worker[v].bundle

LEMMA HolderCases ==
  ASSUME ClaimInv, [Next]_vars, NEW v \in Workers, worker'[v].pc \in HoldingPCs
  PROVE  Holder(v)
<1>1. worker \in [Workers -> WorkerState]
  BY DEF ClaimInv, TypeOK
<1>2. /\ IdleWorker.pc \notin HoldingPCs
      /\ "close" \notin HoldingPCs /\ "begin" \notin HoldingPCs
  BY DEF IdleWorker, HoldingPCs
<1>3. ASSUME worker'[v] = worker[v] PROVE Holder(v)
  BY <1>3 DEF Holder
<1>4. ASSUME NEW w \in Workers, NEW d \in Deployments, Observe(w, d) PROVE Holder(v)
  <2>1. PICK g : worker' = [worker EXCEPT ![w] =
                    [IdleWorker EXCEPT !.pc = "begin", !.dep = d, !.gen = g]]
    BY <1>4 DEF Observe
  <2>2. [IdleWorker EXCEPT !.pc = "begin", !.dep = d, !.gen = g].pc = "begin"
    BY DEF IdleWorker
  <2>3. v # w
    BY <1>1, <1>2, <2>1, <2>2
  <2>4. QED
    BY <1>1, <1>3, <2>1, <2>3
<1>5. ASSUME NEW w \in Workers, worker' = [worker EXCEPT ![w] = IdleWorker] PROVE Holder(v)
  <2>1. v # w
    BY <1>1, <1>2, <1>5
  <2>2. QED
    BY <1>1, <1>3, <1>5, <2>1
<1>6. ASSUME NEW w \in Workers, worker' = [worker EXCEPT ![w].pc = "close"] PROVE Holder(v)
  <2>1. ASSUME v = w PROVE FALSE
    <3>1. worker'[v].pc = "close"
      BY <1>1, <1>6, <2>1 DEF WorkerState
    <3>2. QED
      BY <1>2, <3>1
  <2>2. QED
    BY <1>1, <1>3, <1>6, <2>1
<1>7. ASSUME NEW w \in Workers, Exhaust(w) PROVE Holder(v)
  <2>1. worker' = [worker EXCEPT ![w].pc = "close", ![w].incident = Considered(w).id]
    BY <1>7 DEF Exhaust
  <2>2. ASSUME v = w PROVE FALSE
    <3>1. worker'[v].pc = "close"
      BY <1>1, <2>1, <2>2 DEF WorkerState
    <3>2. QED
      BY <1>2, <3>1
  <2>3. QED
    BY <1>1, <1>3, <2>1, <2>2
<1>8. ASSUME NEW w \in Workers, Claim(w) PROVE Holder(v)
  <2>1. worker' = [worker EXCEPT ![w].pc = "admitted", ![w].incident = Considered(w).id]
    BY <1>8 DEF Claim
  <2>2. CASE v = w
    <3>1. worker'[v].pc = "admitted" /\ worker'[v].dep = worker[v].dep
      BY <1>1, <2>1, <2>2 DEF WorkerState
    <3>2. QED
      BY <1>8, <2>2, <3>1 DEF Holder
  <2>3. CASE v # w
    BY <1>1, <1>3, <2>1, <2>3
  <2>4. QED
    BY <2>2, <2>3
<1>9. ASSUME NEW w \in Workers, ReuseEvidence(w) PROVE Holder(v)
  <2>1. /\ worker' = [worker EXCEPT ![w].pc = "classify",
                                    ![w].bundle = incidents[worker[w].dep].evidence]
        /\ worker[w].pc = "admitted"
    BY <1>9 DEF ReuseEvidence
  <2>2. CASE v = w
    <3>1. worker'[v].dep = worker[v].dep
      BY <1>1, <2>1, <2>2 DEF WorkerState
    <3>2. QED
      BY <1>9, <2>1, <2>2, <3>1 DEF Holder
  <2>3. CASE v # w
    BY <1>1, <1>3, <2>1, <2>3
  <2>4. QED
    BY <2>2, <2>3
<1>10. ASSUME NEW w \in Workers, CollectEvidence(w) PROVE Holder(v)
  <2>1. /\ worker' = [worker EXCEPT ![w].pc = "freeze",
                                    ![w].bundle = hist[worker[w].incident].collected + 1]
        /\ worker[w].pc = "admitted"
    BY <1>10 DEF CollectEvidence
  <2>2. CASE v = w
    <3>1. worker'[v].dep = worker[v].dep
      BY <1>1, <2>1, <2>2 DEF WorkerState
    <3>2. QED
      BY <1>10, <2>1, <2>2, <3>1 DEF Holder
  <2>3. CASE v # w
    BY <1>1, <1>3, <2>1, <2>3
  <2>4. QED
    BY <2>2, <2>3
<1>11. ASSUME NEW w \in Workers, FreezeEvidence(w) PROVE Holder(v)
  <2>1. worker' = [worker EXCEPT ![w].pc = "classify"]
    BY <1>11 DEF FreezeEvidence
  <2>2. CASE v = w
    <3>1. /\ worker'[v].dep = worker[v].dep /\ worker'[v].pc = "classify"
          /\ worker'[v].bundle = worker[v].bundle
      BY <1>1, <2>1, <2>2 DEF WorkerState
    <3>2. QED
      BY <1>11, <2>2, <3>1 DEF Holder
  <2>3. CASE v # w
    BY <1>1, <1>3, <2>1, <2>3
  <2>4. QED
    BY <2>2, <2>3
<1>12. ASSUME NEW w \in Workers, ReconcileStep(w) PROVE Holder(v)
  <2>1. ASSUME BeginAttempt(w) PROVE Holder(v)
    BY <1>5, <1>7, <1>8, <2>1 DEF BeginAttempt, SkipQuiet, SkipActive
  <2>2. ASSUME EscalateBlind(w) \/ Escalate(w) \/ Reject(w) PROVE Holder(v)
    BY <1>6, <2>2 DEF EscalateBlind, Escalate, Reject
  <2>3. ASSUME Dispatch(w) \/ CloseInReconcile(w) PROVE Holder(v)
    BY <1>5, <2>3 DEF Dispatch, CloseInReconcile
  <2>4. QED
    BY <1>9, <1>10, <1>11, <1>12, <2>1, <2>2, <2>3 DEF ReconcileStep
<1>13. ASSUME worker' = worker PROVE Holder(v)
  BY <1>3, <1>13
<1>14. ASSUME Restart PROVE FALSE
  <2>1. worker'[v] = IdleWorker
    BY <1>14, RestartEffect
  <2>2. QED
    BY <1>2, <2>1
<1>15. QED
  BY <1>4, <1>12, <1>13, <1>14 DEF Next, MoveSpec, Return, Finish, CloseInGoroutine, HumanEdit,
                                   CacheSync, Tick, vars

(* The attempt counter does not move while a worker holds the claim: only   *)
(* the holder's own dispatch counts, and that gives the claim away.         *)
LEMMA CountKept ==
  ASSUME ClaimInv, [Next]_vars, NEW v \in Workers,
         worker[v].pc \in HoldingPCs, worker'[v].pc \in HoldingPCs
  PROVE  incidents'[worker[v].dep].attemptCount = incidents[worker[v].dep].attemptCount
<1> DEFINE d == worker[v].dep
           Kept == incidents'[d].attemptCount = incidents[d].attemptCount
<1>1. d \in Deployments /\ Active(incidents[d])
  BY WorkerHolding
<1>2. ASSUME QuietStep PROVE Kept
  BY <1>1, <1>2, QuietEffect DEF AllSame, SameRecord
<1>3. ASSUME Tick PROVE Kept
  BY <1>1, <1>3, TickEffect
<1>4. ASSUME Restart PROVE FALSE
  <2>1. worker'[v] = IdleWorker
    BY <1>4, RestartEffect
  <2>2. QED
    BY <2>1 DEF IdleWorker, HoldingPCs
<1>5. ASSUME NEW e \in Deployments, OthersSame(e), d # e PROVE Kept
  BY <1>1, <1>5 DEF OthersSame, SameRecord
<1>6. ASSUME NEW w \in Workers, BeginAttempt(w), ~SkipQuiet(w) PROVE Kept
  <2>1. worker[w].dep \in Deployments
    BY <1>6, BeginFacts
  <2>2. CASE worker[w].dep = d
    BY <1>1, <1>6, <2>2, ResumeEffect
  <2>3. CASE worker[w].dep # d
    <3>1. OthersSame(worker[w].dep)
      <4>1. CASE Active(incidents[worker[w].dep])
        BY <1>6, <4>1, ResumeEffect
      <4>2. CASE ~Active(incidents[worker[w].dep])
        BY <1>6, <4>2, OpenEffect
      <4>3. QED
        BY <4>1, <4>2
    <3>2. QED
      BY <1>5, <2>1, <2>3, <3>1
  <2>4. QED
    BY <2>2, <2>3
<1>7. ASSUME NEW e \in Deployments, Local(e),
             incidents'[e].attemptCount = incidents[e].attemptCount
      PROVE  Kept
  BY <1>5, <1>7 DEF Local
<1>8. ASSUME NEW w \in Workers, WorkerEnds(w) PROVE Kept
  <2>1. /\ worker[w].dep \in Deployments /\ Local(worker[w].dep)
        /\ incidents'[worker[w].dep].attemptCount = incidents[worker[w].dep].attemptCount
    BY <1>8, WorkerEndEffect DEF EndsWith
  <2>2. QED
    BY <1>7, <2>1
<1>9. ASSUME NEW w \in Workers, CollectEvidence(w) PROVE Kept
  <2>1. Local(worker[w].dep) /\ SameRecord(worker[w].dep)
    BY <1>9, CollectEffect
  <2>2. QED
    BY <1>7, <2>1 DEF Local, SameRecord
<1>10. ASSUME NEW w \in Workers, FreezeEvidence(w) PROVE Kept
  <2>1. /\ Local(worker[w].dep)
        /\ incidents'[worker[w].dep].attemptCount = incidents[worker[w].dep].attemptCount
    BY <1>10, FreezeEffect
  <2>2. QED
    BY <1>7, <2>1 DEF Local
<1>11. ASSUME NEW w \in Workers, Dispatch(w) PROVE Kept
  <2>1. /\ Local(worker[w].dep) /\ worker[w].pc = "classify"
        /\ worker' = [worker EXCEPT ![w] = IdleWorker]
    BY <1>11, DispatchEffect
  <2>2. v # w
    BY <2>1 DEF IdleWorker, HoldingPCs, ClaimInv, TypeOK
  <2>3. worker[w].dep # d
    <3>1. ~WorkerHolds(v, worker[w].dep)
      BY <2>1, <2>2, WorkerHolding DEF HoldingPCs
    <3>2. QED
      BY <3>1 DEF WorkerHolds
  <2>4. QED
    BY <1>5, <2>1, <2>3 DEF Local
<1>12. ASSUME NEW g \in goroutines, NEW result \in Results, Finish(g, result) PROVE Kept
  <2>1. /\ g.dep \in Deployments /\ Local(g.dep)
        /\ incidents'[g.dep].attemptCount = incidents[g.dep].attemptCount
    BY <1>12, FinishEffect DEF EndsWith
  <2>2. QED
    BY <1>7, <2>1
<1>13. QED
  BY <1>2, <1>3, <1>4, <1>6, <1>8, <1>9, <1>10, <1>11, <1>12, StepCases

(* A claim is taken only while budget is left. *)
LEMMA BudgetNext ==
  ASSUME ClaimInv, WorkerBudget, [Next]_vars
  PROVE  WorkerBudget'
<1> SUFFICES ASSUME NEW v \in Workers, worker'[v].pc \in HoldingPCs
             PROVE  incidents'[worker'[v].dep].attemptCount < MaxAttempts
  BY DEF WorkerBudget
<1> DEFINE d == worker[v].dep
<1>1. worker'[v].dep = d /\ (Claim(v) \/ worker[v].pc \in HoldingPCs)
  BY HolderCases DEF Holder, FreezeEvidence, HoldingPCs
<1>2. CASE Claim(v)
  <2>1. BeginAttempt(v) /\ ~SkipQuiet(v)
    BY <1>2 DEF BeginAttempt, Claim, SkipQuiet
  <2>2. CASE Active(incidents[d])
    <3>1. /\ incidents'[d].attemptCount = incidents[d].attemptCount
          /\ ~SkipActive(v) /\ ~Exhaust(v)
      BY <1>2, <2>1, <2>2, ResumeEffect DEF Claim, SkipActive, Exhaust
    <3>2. incidents[d].attemptCount < MaxAttempts
      BY <2>1, <2>2, <3>1, ResumeEffect
    <3>3. QED
      BY <1>1, <3>1, <3>2
  <2>3. CASE ~Active(incidents[d])
    <3>1. incidents'[d].attemptCount = 0
      BY <2>1, <2>3, OpenEffect
    <3>2. 0 < MaxAttempts
      BY ConstantsAssumption
    <3>3. QED
      BY <1>1, <3>1, <3>2
  <2>4. QED
    BY <2>2, <2>3
<1>3. CASE worker[v].pc \in HoldingPCs
  BY <1>1, <1>3, CountKept DEF WorkerBudget
<1>4. QED
  BY <1>1, <1>2, <1>3

(* The attempt on a Deployment ends. *)
LEMMA RecordEnds ==
  ASSUME ClaimInv, RecordInv, NEW d \in Deployments, Active(incidents[d]),
         NEW outcome, NEW bundles, EndsWith(d, outcome, bundles)
  PROVE  /\ RecordInv'
         /\ \A j \in 1 .. Len(hist) : hist[j].outcome # "" => SameHistory(j)
<1> DEFINE i == incidents[d].id
<1>1. /\ Local(d) /\ Present(incidents[d]) /\ i \in 1 .. Len(hist)
      /\ incidents'[d].attemptCount = incidents[d].attemptCount
      /\ hist'[i].dispatched = hist[i].dispatched
  BY DEF EndsWith, Local
<1>2. incidents[d].attemptCount = hist[i].dispatched /\ hist[i].outcome = ""
  BY <1>1 DEF RecordInv, AllLinked, Linked, Active
<1>3. hist'[i].dispatched <= MaxAttempts
  BY <1>1 DEF RecordInv, WithinBudget
<1>4. incidents'[d].terminalOutcome = hist'[i].outcome
  BY <1>2 DEF EndsWith
<1>5. /\ incidents'[d].terminalOutcome = "" /\ incidents'[d].attemptCount > 0
      /\ ~incidents'[d].inFlight
      => incidents'[d].sinceAttempt = hist'[i].quietFor
  BY DEF EndsWith, TerminalOutcomes
<1>6. incidents'[d].attemptCount = hist'[i].dispatched
  BY <1>1, <1>2
<1>7. QED
  BY <1>1, <1>3, <1>4, <1>5, <1>6, RecordLocal

(* An incident that ended takes no more actions and keeps its outcome.      *)
EndedKept ==
  /\ 1 .. Len(hist) \subseteq 1 .. Len(hist')
  /\ \A j \in 1 .. Len(hist) : hist[j].outcome # "" =>
       hist'[j].outcome = hist[j].outcome /\ hist'[j].dispatched = hist[j].dispatched

LEMMA RecordNext ==
  ASSUME ClaimInv, RecordInv, WorkerBudget, [Next]_vars
  PROVE  RecordInv' /\ EndedKept
<1> DEFINE Ended == \A j \in 1 .. Len(hist) : hist[j].outcome # "" => SameHistory(j)
<1>1. Len(hist) \in Nat
  BY Types
<1>2. ASSUME Len(hist') = Len(hist), Ended PROVE EndedKept
  BY <1>2 DEF EndedKept, SameHistory
<1>3. ASSUME AllSame PROVE RecordInv' /\ EndedKept
  BY <1>2, <1>3, RecordQuiet DEF AllSame, HistoriesSame
<1>4. ASSUME Tick PROVE RecordInv' /\ EndedKept
  <2>1. /\ Len(hist') = Len(hist)
        /\ \A j \in 1 .. Len(hist) : hist'[j].outcome = hist[j].outcome
                                    /\ hist'[j].dispatched = hist[j].dispatched
    BY <1>4, TickEffect
  <2>2. QED
    BY <1>4, <2>1, RecordTick DEF EndedKept
<1>5. ASSUME Restart PROVE RecordInv' /\ EndedKept
  <2>1. /\ Len(hist') = Len(hist)
        /\ \A j \in 1 .. Len(hist) : hist'[j].outcome = hist[j].outcome
                                    /\ hist'[j].dispatched = hist[j].dispatched
    BY <1>5, RestartEffect
  <2>2. QED
    BY <1>5, <2>1, RecordRestart DEF EndedKept
<1>6. ASSUME NEW w \in Workers, BeginAttempt(w), ~SkipQuiet(w)
      PROVE  RecordInv' /\ EndedKept
  <2> DEFINE d == worker[w].dep
             i == incidents[d].id
  <2>1. CASE ~Active(incidents[d])
    <3>1. Len(hist') = Len(hist) + 1 /\ \A j \in 1 .. Len(hist) : SameHistory(j)
      BY <1>6, <2>1, OpenEffect
    <3>a. 1 .. Len(hist) \subseteq 1 .. Len(hist) + 1
      BY <1>1
    <3>2. EndedKept
      BY <3>1, <3>a DEF EndedKept, SameHistory
    <3>3. QED
      BY <1>6, <2>1, <3>2, RecordOpens
  <2>2. CASE Active(incidents[d])
    <3>1. /\ d \in Deployments /\ i \in 1 .. Len(hist) /\ OthersSame(d)
          /\ incidents'[d].id = i /\ Present(incidents[d])
          /\ incidents'[d].attemptCount = incidents[d].attemptCount
          /\ incidents'[d].sinceAttempt = incidents[d].sinceAttempt
      BY <1>6, <2>2, ResumeEffect DEF Active
    <3>2. CASE SkipActive(w)
      <4>1. SameRecord(d) /\ HistoriesSame
        BY <1>6, <2>2, <3>2, ResumeEffect DEF SkipActive, Claim, Exhaust
      <4>2. AllSame
        BY <3>1, <4>1 DEF AllSame, OthersSame
      <4>3. QED
        BY <1>3, <4>2
    <3>3. CASE Claim(w)
      <4>1. HistoriesSame /\ incidents'[d].inFlight /\ incidents'[d].terminalOutcome = ""
        BY <1>6, <2>2, <3>3, ResumeEffect DEF SkipActive, Claim, Exhaust
      <4>2. Local(d) /\ SameHistory(i) /\ Len(hist') = Len(hist)
        BY <3>1, <4>1 DEF Local, HistoriesSame, SameHistory
      <4>3. incidents[d].attemptCount = hist[i].dispatched /\ hist[i].outcome = ""
        BY <2>2, <3>1 DEF RecordInv, AllLinked, Linked, Active
      <4>4. hist[i].dispatched <= MaxAttempts
        BY <3>1 DEF RecordInv, WithinBudget
      <4>5. RecordInv' /\ Ended
        <5>1. /\ incidents'[d].attemptCount = hist'[i].dispatched
              /\ incidents'[d].terminalOutcome = hist'[i].outcome
              /\ hist'[i].dispatched <= MaxAttempts
          BY <3>1, <4>1, <4>2, <4>3, <4>4 DEF SameHistory
        <5>2. QED
          BY <2>2, <3>1, <4>1, <4>2, <5>1, RecordLocal
      <4>6. QED
        BY <1>2, <4>2, <4>5
    <3>4. CASE Exhaust(w)
      <4>1. /\ incidents'[d].terminalOutcome = "exhausted"
            /\ Len(hist') = Len(hist)
            /\ \A j \in (1 .. Len(hist)) \ {i} : SameHistory(j)
            /\ hist'[i].dep = hist[i].dep /\ hist'[i].lost = hist[i].lost
            /\ hist'[i].dispatched = hist[i].dispatched
            /\ hist'[i].outcome = "exhausted"
        BY <1>6, <2>2, <3>4, ResumeEffect DEF SkipActive, Claim, Exhaust
      <4>2. Local(d)
        BY <3>1, <4>1 DEF Local
      <4>3. incidents[d].attemptCount = hist[i].dispatched
        BY <2>2, <3>1 DEF RecordInv, AllLinked, Linked
      <4>4. hist[i].dispatched <= MaxAttempts
        BY <3>1 DEF RecordInv, WithinBudget
      <4>5. RecordInv' /\ Ended
        <5>1. /\ incidents'[d].attemptCount = hist'[i].dispatched
              /\ incidents'[d].terminalOutcome = hist'[i].outcome
              /\ hist'[i].dispatched <= MaxAttempts
          BY <3>1, <4>1, <4>3, <4>4
        <5>2. QED
          BY <2>2, <3>1, <4>1, <4>2, <5>1, RecordLocal
      <4>6. QED
        BY <1>2, <4>1, <4>5
    <3>5. QED
      BY <1>6, <3>2, <3>3, <3>4 DEF BeginAttempt
  <2>3. QED
    BY <2>1, <2>2
<1>7. ASSUME NEW d \in Deployments, Active(incidents[d]), NEW o, NEW bundles,
             EndsWith(d, o, bundles)
      PROVE  RecordInv' /\ EndedKept
  <2>1. RecordInv' /\ Ended
    BY <1>7, RecordEnds
  <2>2. Len(hist') = Len(hist)
    BY <1>7 DEF EndsWith, Local
  <2>3. QED
    BY <1>2, <2>1, <2>2
<1>8. ASSUME NEW w \in Workers, WorkerEnds(w) PROVE RecordInv' /\ EndedKept
  <2>1. /\ worker[w].dep \in Deployments /\ Active(incidents[worker[w].dep])
        /\ \E o, bundles : EndsWith(worker[w].dep, o, bundles)
    BY <1>8, WorkerEndEffect
  <2>2. QED
    BY <1>7, <2>1
<1>9. ASSUME NEW w \in Workers, CollectEvidence(w) PROVE RecordInv' /\ EndedKept
  <2> DEFINE d == worker[w].dep
             i == incidents[d].id
  <2>1. /\ Active(incidents[d]) /\ Local(d) /\ SameRecord(d)
        /\ hist'[i].dispatched = hist[i].dispatched
        /\ hist'[i].outcome = hist[i].outcome
        /\ hist'[i].quietFor = hist[i].quietFor
    BY <1>9, CollectEffect
  <2>2. d \in Deployments /\ i \in 1 .. Len(hist) /\ Len(hist') = Len(hist) /\ Present(incidents[d])
    BY <2>1 DEF Local
  <2>3. Linked(d) /\ hist[i].dispatched <= MaxAttempts
    BY <2>2 DEF RecordInv, AllLinked, WithinBudget
  <2>4. /\ incidents'[d].attemptCount = hist'[i].dispatched
        /\ incidents'[d].terminalOutcome = hist'[i].outcome
        /\ hist'[i].dispatched <= MaxAttempts
    BY <2>1, <2>2, <2>3 DEF Linked, SameRecord
  <2>5. /\ incidents'[d].terminalOutcome = "" /\ incidents'[d].attemptCount > 0
        /\ ~incidents'[d].inFlight
        => incidents'[d].sinceAttempt = hist'[i].quietFor
    BY <2>1, <2>2, <2>3 DEF Linked, SameRecord
  <2>6. RecordInv' /\ Ended
    BY <2>1, <2>2, <2>4, <2>5, RecordLocal
  <2>7. QED
    BY <1>2, <2>2, <2>6
<1>10. ASSUME NEW w \in Workers, FreezeEvidence(w) PROVE RecordInv' /\ EndedKept
  <2> DEFINE d == worker[w].dep
             i == incidents[d].id
  <2>1. /\ Active(incidents[d]) /\ Local(d) /\ HistoriesSame
        /\ incidents'[d].attemptCount = incidents[d].attemptCount
        /\ incidents'[d].sinceAttempt = incidents[d].sinceAttempt
        /\ incidents'[d].terminalOutcome = incidents[d].terminalOutcome
        /\ incidents'[d].inFlight = incidents[d].inFlight
    BY <1>10, FreezeEffect
  <2>2. /\ d \in Deployments /\ i \in 1 .. Len(hist) /\ Len(hist') = Len(hist)
        /\ Present(incidents[d]) /\ SameHistory(i)
    BY <2>1 DEF Local, HistoriesSame
  <2>3. Linked(d) /\ hist[i].dispatched <= MaxAttempts
    BY <2>2 DEF RecordInv, AllLinked, WithinBudget
  <2>4. /\ incidents'[d].attemptCount = hist'[i].dispatched
        /\ incidents'[d].terminalOutcome = hist'[i].outcome
        /\ hist'[i].dispatched <= MaxAttempts
    BY <2>1, <2>2, <2>3 DEF Linked, SameHistory
  <2>5. /\ incidents'[d].terminalOutcome = "" /\ incidents'[d].attemptCount > 0
        /\ ~incidents'[d].inFlight
        => incidents'[d].sinceAttempt = hist'[i].quietFor
    BY <2>1, <2>2, <2>3 DEF Linked, SameHistory
  <2>6. RecordInv' /\ Ended
    BY <2>1, <2>2, <2>4, <2>5, RecordLocal
  <2>7. QED
    BY <1>2, <2>2, <2>6
<1>11. ASSUME NEW w \in Workers, Dispatch(w) PROVE RecordInv' /\ EndedKept
  <2> DEFINE d == worker[w].dep
             i == incidents[d].id
  <2>1. /\ worker[w].pc = "classify" /\ Active(incidents[d]) /\ incidents[d].inFlight /\ Local(d)
        /\ incidents'[d].attemptCount = incidents[d].attemptCount + 1
        /\ incidents'[d].terminalOutcome = incidents[d].terminalOutcome
        /\ incidents'[d].inFlight = incidents[d].inFlight
        /\ hist'[i].dispatched = hist[i].dispatched + 1
        /\ hist'[i].outcome = hist[i].outcome
    BY <1>11, DispatchEffect
  <2>2. d \in Deployments /\ i \in 1 .. Len(hist) /\ Len(hist') = Len(hist) /\ Present(incidents[d])
    BY <2>1 DEF Local
  <2>3. Linked(d)
    BY <2>2 DEF RecordInv, AllLinked
  <2>4. incidents[d].attemptCount < MaxAttempts
    BY <2>1 DEF WorkerBudget, HoldingPCs
  <2>5. /\ incidents[d].attemptCount = hist[i].dispatched
        /\ incidents[d].terminalOutcome = hist[i].outcome
    BY <2>2, <2>3 DEF Linked
  <2>6. incidents[d].attemptCount \in Nat /\ MaxAttempts \in Nat
    BY <2>2, Types, ConstantsAssumption DEF Record
  <2>7. hist'[i].dispatched <= MaxAttempts
    BY <2>1, <2>4, <2>5, <2>6
  <2>8. RecordInv' /\ Ended
    <3>1. /\ incidents'[d].attemptCount = hist'[i].dispatched
          /\ incidents'[d].terminalOutcome = hist'[i].outcome
          /\ incidents'[d].inFlight
      BY <2>1, <2>5
    <3>2. QED
      BY <2>1, <2>2, <2>7, <3>1, RecordLocal
  <2>9. QED
    BY <1>2, <2>2, <2>8
<1>12. ASSUME NEW g \in goroutines, NEW result \in Results, Finish(g, result)
       PROVE  RecordInv' /\ EndedKept
  <2>1. /\ g.dep \in Deployments /\ Active(incidents[g.dep])
        /\ \E o, bundles : EndsWith(g.dep, o, bundles)
    BY <1>12, FinishEffect
  <2>2. QED
    BY <1>7, <2>1
<1>13. QED
  BY <1>3, <1>4, <1>5, <1>6, <1>8, <1>9, <1>10, <1>11, <1>12, StepCases, QuietEffect

(* What a terminal line says is so. *)
Truthful(line) ==
  /\ line.incident \in 1 .. Len(hist)
  /\ line.outcome = hist[line.incident].outcome
  /\ line.outcome # "recovered"
  /\ line.attempts = hist[line.incident].dispatched

(* A line is written about a terminal record, and stays true afterwards.    *)
LEMMA AuditNext ==
  ASSUME ClaimInv, RecordInv, AuditTruthful, EndedKept, [Next]_vars
  PROVE  AuditTruthful'
<1>1. audit \in Seq(Line) /\ Len(audit) \in Nat
  BY DEF ClaimInv, TypeOK
<1>2. \A n \in 1 .. Len(audit) : Truthful(audit[n])
  BY DEF AuditTruthful, Truthful
<1>3. ASSUME audit' = audit PROVE AuditTruthful'
  <2> SUFFICES ASSUME NEW n \in 1 .. Len(audit) PROVE Truthful(audit[n])'
    BY <1>3 DEF AuditTruthful, Truthful
  <2>1. Truthful(audit[n]) /\ audit[n] \in Line
    BY <1>1, <1>2
  <2>2. hist[audit[n].incident].outcome # ""
    BY <2>1 DEF Truthful, Line, TerminalOutcomes
  <2>3. QED
    BY <1>3, <2>1, <2>2 DEF Truthful, EndedKept
<1>4. ASSUME NEW d \in Deployments, closeIncidentIfTerminal(d), UNCHANGED <<incidents, hist>>
      PROVE  AuditTruthful'
  <2> DEFINE r == incidents[d]
             new == [incident |-> r.id, outcome |-> r.terminalOutcome,
                     attempts |-> r.attemptCount]
  <2>1. CASE audit' = audit
    BY <1>3, <2>1
  <2>2. CASE audit' # audit
    <3>1. /\ Terminal(r) /\ r.terminalOutcome # "recovered"
          /\ audit' = Append(audit, new)
      BY <1>4, <2>2 DEF closeIncidentIfTerminal
    <3>2. /\ r.id \in 1 .. Len(hist) /\ r \in Record
          /\ r.attemptCount = hist[r.id].dispatched
          /\ r.terminalOutcome = hist[r.id].outcome
      BY <3>1, Types DEF Terminal, RecordInv, AllLinked, Linked
    <3>3. Truthful(new) /\ new \in Line
      BY <3>1, <3>2 DEF Truthful, Line, Record, Terminal
    <3> HIDE DEF new
    <3>4. /\ Len(audit') = Len(audit) + 1 /\ audit'[Len(audit) + 1] = new
          /\ \A n \in 1 .. Len(audit) : audit'[n] = audit[n]
      BY <1>1, <3>1, <3>3, AppendInSeq
    <3>5. \A n \in 1 .. Len(audit) + 1 : n \in 1 .. Len(audit) \/ n = Len(audit) + 1
      BY <1>1
    <3>6. \A n \in 1 .. Len(audit') : Truthful(audit'[n])
      BY <1>2, <3>3, <3>4, <3>5
    <3>7. QED
      BY <1>4, <3>6 DEF AuditTruthful, Truthful
  <2>3. QED
    BY <2>1, <2>2
<1>5. ASSUME NEW w \in Workers, CloseInReconcile(w) PROVE AuditTruthful'
  <2>1. worker[w].dep \in Deployments
    BY <1>5 DEF CloseInReconcile, ClaimInv, TypeOK
  <2>2. QED
    BY <1>4, <1>5, <2>1 DEF CloseInReconcile
<1>6. ASSUME NEW g \in goroutines, CloseInGoroutine(g) PROVE AuditTruthful'
  <2>1. g.dep \in Deployments
    BY DEF ClaimInv, TypeOK, Goroutine
  <2>2. QED
    BY <1>4, <1>6, <2>1 DEF CloseInGoroutine
<1>7. QED
  BY <1>3, <1>5, <1>6
     DEF Next, ReconcileStep, Return, Observe, BeginAttempt, SkipQuiet, SkipActive, Exhaust,
         Claim, EscalateBlind, ReuseEvidence, CollectEvidence, FreezeEvidence, Escalate, Reject,
         Dispatch, MoveSpec, Finish, HumanEdit, CacheSync, Tick, Restart, vars

-----------------------------------------------------------------------------
(* The inductive invariant of an incident's life. *)

LifeInv == ClaimInv /\ RecordInv /\ WorkerBudget /\ AuditTruthful

LEMMA LifeInit == Init => LifeInv
<1> SUFFICES ASSUME Init PROVE LifeInv
  OBVIOUS
<1>1. ClaimInv
  BY ClaimInit
<1>2. /\ \A d \in Deployments : incidents[d] = Missing
      /\ \A w \in Workers : worker[w] = IdleWorker
      /\ Len(hist) = 0 /\ Len(audit) = 0
  BY DEF Init
<1>3. Missing.id = 0 /\ Missing.terminalOutcome = "" /\ IdleWorker.pc \notin HoldingPCs
  BY DEF Missing, NewRecord, IdleWorker, HoldingPCs
<1>4. MissingIsOpen /\ AllLinked
  BY <1>2, <1>3 DEF MissingIsOpen, AllLinked, Linked, Present
<1>5. RunningIsCurrent /\ WithinBudget
  BY <1>2 DEF RunningIsCurrent, WithinBudget
<1>6. WorkerBudget
  BY <1>2, <1>3 DEF WorkerBudget
<1>7. AuditTruthful
  BY <1>2 DEF AuditTruthful
<1>8. QED
  BY <1>1, <1>4, <1>5, <1>6, <1>7 DEF LifeInv, RecordInv

LEMMA LifeStep == LifeInv /\ [Next]_vars => LifeInv'
<1> SUFFICES ASSUME LifeInv, [Next]_vars PROVE LifeInv'
  OBVIOUS
<1>1. ClaimInv /\ RecordInv /\ WorkerBudget /\ AuditTruthful
  BY DEF LifeInv
<1>2. ClaimInv'
  BY <1>1, ClaimStep
<1>3. RecordInv' /\ EndedKept
  BY <1>1, RecordNext
<1>4. WorkerBudget' /\ AuditTruthful'
  BY <1>1, <1>3, BudgetNext, AuditNext
<1>5. QED
  BY <1>2, <1>3, <1>4 DEF LifeInv

(* The record of a Deployment tells the truth about the incident it stands  *)
(* for: its attempts, its outcome and the time since its last attempt, at   *)
(* every step of every interleaving of reconciles, remediations, edits and  *)
(* restarts.                                                                *)
THEOREM LifeInvariant == Spec => []LifeInv
<1>1. Init => LifeInv
  BY LifeInit
<1>2. LifeInv /\ [Next]_vars => LifeInv'
  BY LifeStep
<1>3. QED
  BY <1>1, <1>2, PTL DEF Spec

(* No incident gets more than MaxAttempts actions, for any number of        *)
(* workers: the claim makes the check of beginAttempt and the increment of  *)
(* recordAttempt one step.                                                  *)
THEOREM BudgetIsKept == Spec => []BudgetHolds
<1>1. LifeInv => BudgetHolds
  BY DEF LifeInv, RecordInv, WithinBudget, AllLinked, Linked, BudgetHolds
<1>2. QED
  BY <1>1, LifeInvariant, PTL

(* A terminal line of the audit file says how its incident ended and after  *)
(* how many actions, though closeIncidentIfTerminal reads the record a      *)
(* second time, after the lock was free.                                    *)
THEOREM AuditIsTruthful == Spec => []AuditTruthful
<1>1. LifeInv => AuditTruthful
  BY DEF LifeInv
<1>2. QED
  BY <1>1, LifeInvariant, PTL

-----------------------------------------------------------------------------
(* What a step may do to a record. *)

(* Only beginAttempt replaces a record or sets inFlight. *)
LEMMA OnlyBeginClaims ==
  ASSUME ClaimInv, [Next]_vars, NEW d \in Deployments
  PROVE  \/ Restart
         \/ \E w \in Workers : worker[w].dep = d /\ BeginAttempt(w) /\ ~SkipQuiet(w)
         \/ /\ incidents'[d].id = incidents[d].id
            /\ incidents'[d].inFlight => incidents[d].inFlight
<1> DEFINE Kept == /\ incidents'[d].id = incidents[d].id
                   /\ incidents'[d].inFlight => incidents[d].inFlight
<1>1. ASSUME SameRecord(d) PROVE Kept
  BY <1>1 DEF SameRecord
<1>2. ASSUME NEW e \in Deployments, OthersSame(e), d # e PROVE Kept
  BY <1>1, <1>2 DEF OthersSame
<1>3. ASSUME NEW e \in Deployments, Local(e), incidents'[e].inFlight => incidents[e].inFlight
      PROVE  Kept
  BY <1>2, <1>3 DEF Local
<1>4. ASSUME QuietStep PROVE Kept
  BY <1>1, <1>4, QuietEffect DEF AllSame
<1>5. ASSUME Tick PROVE Kept
  BY <1>5, TickEffect
<1>6. ASSUME NEW w \in Workers, BeginAttempt(w), ~SkipQuiet(w), worker[w].dep # d PROVE Kept
  <2>1. worker[w].dep \in Deployments
    BY <1>6, BeginFacts
  <2>2. OthersSame(worker[w].dep)
    <3>1. CASE Active(incidents[worker[w].dep])
      BY <1>6, <3>1, ResumeEffect
    <3>2. CASE ~Active(incidents[worker[w].dep])
      BY <1>6, <3>2, OpenEffect
    <3>3. QED
      BY <3>1, <3>2
  <2>3. QED
    BY <1>2, <1>6, <2>1, <2>2
<1>7. ASSUME NEW w \in Workers, WorkerEnds(w) PROVE Kept
  <2>1. /\ worker[w].dep \in Deployments /\ Local(worker[w].dep)
        /\ incidents'[worker[w].dep].inFlight = FALSE
    BY <1>7, WorkerEndEffect DEF EndsWith
  <2>2. QED
    BY <1>3, <2>1
<1>8. ASSUME NEW w \in Workers, CollectEvidence(w) PROVE Kept
  <2>1. Local(worker[w].dep) /\ SameRecord(worker[w].dep)
    BY <1>8, CollectEffect
  <2>2. QED
    BY <1>3, <2>1 DEF Local, SameRecord
<1>9. ASSUME NEW w \in Workers, FreezeEvidence(w) \/ Dispatch(w) PROVE Kept
  <2>1. /\ Local(worker[w].dep)
        /\ incidents'[worker[w].dep].inFlight = incidents[worker[w].dep].inFlight
    BY <1>9, FreezeEffect, DispatchEffect
  <2>2. QED
    BY <1>3, <2>1 DEF Local
<1>10. ASSUME NEW g \in goroutines, NEW result \in Results, Finish(g, result) PROVE Kept
  <2>1. g.dep \in Deployments /\ Local(g.dep) /\ incidents'[g.dep].inFlight = FALSE
    BY <1>10, FinishEffect DEF EndsWith
  <2>2. QED
    BY <1>3, <2>1
<1>11. QED
  BY <1>4, <1>5, <1>6, <1>7, <1>8, <1>9, <1>10, StepCases

(* A claim on an incident that already acted waits out the backoff of its   *)
(* last attempt, measured from the attempt's end: the age beginAttempt      *)
(* compares is the age of that end, whichever way the attempt ended.        *)
THEOREM BackoffIsRespected == Spec => BackoffRespected
<1>1. ASSUME LifeInv, [Next]_vars, NEW d \in Deployments,
             ~incidents[d].inFlight, incidents'[d].inFlight,
             Present(incidents[d]), incidents'[d].id = incidents[d].id,
             hist[incidents[d].id].dispatched > 0
      PROVE  hist[incidents[d].id].quietFor
               >= attemptBackoff(hist[incidents[d].id].dispatched)
  <2> DEFINE r == incidents[d]
             i == r.id
             n == r.attemptCount
  <2>1. ClaimInv /\ RecordInv
    BY <1>1 DEF LifeInv
  <2>2. ~Restart
    <3>1. Missing.inFlight = FALSE
      BY DEF Missing, NewRecord
    <3>2. QED
      BY <1>1, <2>1, <3>1, RestartEffect
  <2>3. PICK w \in Workers : worker[w].dep = d /\ BeginAttempt(w) /\ ~SkipQuiet(w)
    BY <1>1, <2>1, <2>2, OnlyBeginClaims
  <2>4. Active(r)
    <3>1. ASSUME ~Active(r) PROVE FALSE
      <4>1. incidents'[d].id = Len(hist) + 1
        BY <2>1, <2>3, <3>1, OpenEffect
      <4>2. r.id \in 1 .. Len(hist) /\ Len(hist) \in Nat
        BY <1>1, <2>1, Types
      <4>3. QED
        BY <1>1, <4>1, <4>2
    <3>2. QED
      BY <3>1
  <2>5. n < MaxAttempts /\ ~BackingOff(r)
    BY <1>1, <2>1, <2>3, <2>4, ResumeEffect DEF SameRecord
  <2>6. r \in Record /\ Linked(d)
    BY <2>1, Types DEF RecordInv, AllLinked
  <2>7. n = hist[i].dispatched /\ n > 0 /\ r.terminalOutcome = ""
    BY <1>1, <2>4, <2>6 DEF Linked, Active
  <2>8. r.sinceAttempt = hist[i].quietFor
    BY <1>1, <2>6, <2>7 DEF Linked
  <2>9. n \in Nat /\ r.sinceAttempt \in Nat /\ MaxAttempts \in Nat
    BY <2>6, ConstantsAssumption DEF Record
  <2>10. ~(r.sinceAttempt < attemptBackoff(n))
    BY <2>5, <2>7 DEF BackingOff
  <2>11. attemptBackoff(n) \in 0 .. AgeCap
    <3>1. n \in Nat /\ MaxAttempts \in Nat /\ n < MaxAttempts /\ n > 0
      BY <2>5, <2>7, <2>9
    <3> HIDE DEF n
    <3>2. n \in 1 .. MaxAttempts - 1
      BY <3>1
    <3>3. QED
      BY <3>2, AgeCapAssumption
  <2> HIDE DEF n
  <2>12. attemptBackoff(n) \in Int
    BY <2>11, ConstantsAssumption
  <2>13. r.sinceAttempt >= attemptBackoff(n)
    <3> DEFINE b == attemptBackoff(n)
    <3>1. b \in Int /\ ~(r.sinceAttempt < b) /\ r.sinceAttempt \in Nat
      BY <2>9, <2>10, <2>12
    <3> HIDE DEF b
    <3>2. r.sinceAttempt >= b
      BY <3>1
    <3>3. QED
      BY <3>2 DEF b
  <2>14. QED
    BY <2>7, <2>8, <2>13 DEF n
<1>2. LifeInv /\ [Next]_vars
        => [\A d \in Deployments :
              LET i == incidents[d].id
              IN  /\ ~incidents[d].inFlight /\ incidents'[d].inFlight
                  /\ Present(incidents[d]) /\ incidents'[d].id = i
                  /\ hist[i].dispatched > 0
                  => hist[i].quietFor >= attemptBackoff(hist[i].dispatched)]_vars
  BY <1>1
<1>3. QED
  BY <1>2, LifeInvariant, PTL DEF Spec, BackoffRespected

(* No passage of time re-arms a Deployment the controller gave up on: only  *)
(* the loss of the process or a generation other than the stored one, read  *)
(* by the reconcile that replaces the record.                               *)
THEOREM ExhaustedIsSticky == Spec => ExhaustedSticky
<1>1. ASSUME LifeInv, [Next]_vars, NEW d \in Deployments,
             incidents[d].terminalOutcome = "exhausted",
             incidents'[d].id # incidents[d].id
      PROVE  \/ restarts' # restarts
             \/ \E w \in Workers : /\ worker[w].pc = "begin" /\ worker[w].dep = d
                                  /\ worker[w].gen # incidents[d].generation
  <2>1. ClaimInv /\ MissingIsOpen
    BY <1>1 DEF LifeInv, RecordInv
  <2>2. Terminal(incidents[d])
    BY <1>1, <2>1 DEF MissingIsOpen, Terminal
  <2>3. CASE Restart
    BY <2>1, <2>3, RestartEffect
  <2>4. CASE ~Restart
    <3>1. PICK w \in Workers : worker[w].dep = d /\ BeginAttempt(w) /\ ~SkipQuiet(w)
      BY <1>1, <2>1, <2>4, OnlyBeginClaims
    <3>2. worker[w].pc = "begin" /\ ~Quiet(incidents[d], worker[w].gen)
      BY <3>1 DEF BeginAttempt, SkipActive, Exhaust, Claim
    <3>3. SpecChanged(incidents[d], worker[w].gen)
      BY <1>1, <2>2, <3>2 DEF Quiet
    <3>4. QED
      BY <3>1, <3>2, <3>3 DEF SpecChanged
  <2>5. QED
    BY <2>3, <2>4
<1>2. LifeInv /\ [Next]_vars
        => [\A d \in Deployments :
              /\ incidents[d].terminalOutcome = "exhausted"
              /\ incidents'[d].id # incidents[d].id
              => \/ restarts' # restarts
                 \/ \E w \in Workers : /\ worker[w].pc = "begin" /\ worker[w].dep = d
                                      /\ worker[w].gen # incidents[d].generation]_vars
  BY <1>1
<1>3. QED
  BY <1>2, LifeInvariant, PTL DEF Spec, ExhaustedSticky

-----------------------------------------------------------------------------
(* The evidence of an incident. *)

(* A step changes the state of at most the worker that takes it. *)
LEMMA OwnStep ==
  ASSUME ClaimInv, [Next]_vars, ~Restart, NEW v \in Workers
  PROVE  \/ worker'[v] = worker[v]
         \/ ReconcileStep(v)
         \/ \E d \in Deployments : Observe(v, d)
<1>1. worker \in [Workers -> WorkerState]
  BY DEF ClaimInv, TypeOK
<1>2. ASSUME NEW w \in Workers, NEW s, worker' = [worker EXCEPT ![w] = s], v # w
      PROVE  worker'[v] = worker[v]
  BY <1>1, <1>2
<1>3. ASSUME NEW w \in Workers, v # w, NEW d \in Deployments, Observe(w, d)
      PROVE  worker'[v] = worker[v]
  BY <1>2, <1>3 DEF Observe
<1>4. ASSUME NEW w \in Workers, v # w, ReconcileStep(w) PROVE worker'[v] = worker[v]
  <2>1. CASE BeginAttempt(w)
    <3>1. CASE SkipQuiet(w) \/ SkipActive(w)
      BY <1>2, <1>4, <3>1 DEF SkipQuiet, SkipActive
    <3>2. CASE Exhaust(w)
      BY <1>1, <1>4, <3>2 DEF Exhaust
    <3>3. CASE Claim(w)
      BY <1>1, <1>4, <3>3 DEF Claim
    <3>4. QED
      BY <2>1, <3>1, <3>2, <3>3 DEF BeginAttempt
  <2>2. CASE EscalateBlind(w) \/ Escalate(w) \/ Reject(w)
    BY <1>1, <1>4, <2>2 DEF EscalateBlind, Escalate, Reject
  <2>3. CASE ReuseEvidence(w)
    BY <1>1, <1>4, <2>3 DEF ReuseEvidence
  <2>4. CASE CollectEvidence(w)
    BY <1>1, <1>4, <2>4 DEF CollectEvidence
  <2>5. CASE FreezeEvidence(w)
    BY <1>1, <1>4, <2>5 DEF FreezeEvidence
  <2>6. CASE Dispatch(w) \/ CloseInReconcile(w)
    BY <1>2, <1>4, <2>6 DEF Dispatch, CloseInReconcile
  <2>7. QED
    BY <1>4, <2>1, <2>2, <2>3, <2>4, <2>5, <2>6 DEF ReconcileStep
<1>5. QED
  BY <1>3, <1>4 DEF Next, MoveSpec, Return, Finish, CloseInGoroutine, HumanEdit, CacheSync,
                    Tick, vars

(* The record has no bundle only before the incident's one collection, or   *)
(* while the worker that made it has not yet come to freezeEvidence.        *)
Freezing(w, d) == worker[w].pc = "freeze" /\ worker[w].dep = d

EvidenceOf(d) ==
  Present(incidents[d]) =>
    /\ incidents[d].evidence \in {0, 1}
    /\ incidents[d].evidence = 0 /\ (\A w \in Workers : ~Freezing(w, d))
         => hist[incidents[d].id].collected = 0

EvidenceNoted == \A d \in Deployments : EvidenceOf(d)

(* The only bundle there is is the first. *)
WorkerBundle ==
  \A w \in Workers : worker[w].pc \in {"freeze", "classify"} => worker[w].bundle = 1

(* A worker that has collected reaches freezeEvidence next. *)
LEMMA FreezingKept ==
  ASSUME ClaimInv, [Next]_vars, ~Restart, NEW v \in Workers, NEW d,
         Freezing(v, d), ~FreezeEvidence(v)
  PROVE  Freezing(v, d)'
<1>1. worker'[v] = worker[v]
  BY OwnStep DEF Freezing, ReconcileStep, Observe, BeginAttempt, SkipQuiet, SkipActive, Exhaust,
                 Claim, EscalateBlind, ReuseEvidence, CollectEvidence, Escalate, Reject, Dispatch,
                 CloseInReconcile
<1>2. QED
  BY <1>1 DEF Freezing

(* A step that leaves the evidence of d alone. *)
LEMMA EvidenceOfKept ==
  ASSUME ClaimInv, [Next]_vars, ~Restart, NEW d \in Deployments, EvidenceOf(d),
         \A w \in Workers : Freezing(w, d) => ~FreezeEvidence(w),
         incidents'[d].id = incidents[d].id,
         incidents'[d].evidence = incidents[d].evidence,
         Present(incidents[d]) =>
           hist'[incidents[d].id].collected = hist[incidents[d].id].collected
  PROVE  EvidenceOf(d)'
<1> SUFFICES ASSUME Present(incidents[d])
             PROVE  /\ incidents[d].evidence \in {0, 1}
                    /\ incidents[d].evidence = 0 /\ (\A w \in Workers : ~Freezing(w, d)')
                         => hist[incidents[d].id].collected = 0
  BY DEF EvidenceOf, Present, Freezing
<1>1. ASSUME \A w \in Workers : ~Freezing(w, d)' PROVE \A w \in Workers : ~Freezing(w, d)
  BY <1>1, FreezingKept
<1>2. QED
  BY <1>1 DEF EvidenceOf

(* Another worker than the one collecting cannot freeze its evidence. *)
LEMMA FreezingIsExclusive ==
  ASSUME ClaimInv, NEW w \in Workers, worker[w].pc \in HoldingPCs, worker[w].pc # "freeze"
  PROVE  \A v \in Workers : ~Freezing(v, worker[w].dep)
<1> SUFFICES ASSUME NEW v \in Workers, Freezing(v, worker[w].dep) PROVE FALSE
  OBVIOUS
<1>1. v # w /\ WorkerHolds(v, worker[w].dep)
  BY DEF Freezing, WorkerHolds, HoldingPCs
<1>2. QED
  BY <1>1, WorkerHolding

LEMMA BundleNext ==
  ASSUME ClaimInv, EvidenceNoted, WorkerBundle, [Next]_vars
  PROVE  WorkerBundle'
<1> SUFFICES ASSUME NEW v \in Workers, worker'[v].pc \in {"freeze", "classify"}
             PROVE  worker'[v].bundle = 1
  BY DEF WorkerBundle
<1> DEFINE d == worker[v].dep
<1>1. worker \in [Workers -> WorkerState]
  BY DEF ClaimInv, TypeOK
<1>2. Holder(v)
  BY HolderCases DEF HoldingPCs
<1>3. ASSUME ReuseEvidence(v) PROVE worker'[v].bundle = 1
  <2>1. /\ worker[v].pc = "admitted" /\ incidents[d].evidence # 0
        /\ worker' = [worker EXCEPT ![v].pc = "classify", ![v].bundle = incidents[d].evidence]
    BY <1>3 DEF ReuseEvidence
  <2>2. d \in Deployments /\ Present(incidents[d])
    BY <2>1, WorkerHolding DEF HoldingPCs, Active
  <2>3. incidents[d].evidence = 1
    BY <2>1, <2>2 DEF EvidenceNoted, EvidenceOf
  <2>4. worker'[v].bundle = incidents[d].evidence
    BY <1>1, <2>1 DEF WorkerState
  <2>5. QED
    BY <2>3, <2>4
<1>4. ASSUME CollectEvidence(v) PROVE worker'[v].bundle = 1
  <2> DEFINE n == hist[incidents[d].id].collected + 1
  <2>1. /\ worker[v].pc = "admitted" /\ incidents[d].evidence = 0 /\ Local(d)
        /\ worker' = [worker EXCEPT ![v].pc = "freeze", ![v].bundle = n]
    BY <1>4, CollectEffect
  <2>2. d \in Deployments /\ Present(incidents[d])
    BY <2>1 DEF Local
  <2>3. \A w \in Workers : ~Freezing(w, d)
    BY <2>1, FreezingIsExclusive DEF HoldingPCs
  <2>4. hist[incidents[d].id].collected = 0
    BY <2>1, <2>2, <2>3 DEF EvidenceNoted, EvidenceOf
  <2>5. n = 1
    BY <2>4
  <2> HIDE DEF n
  <2>6. worker'[v].bundle = n
    BY <1>1, <2>1 DEF WorkerState
  <2>7. QED
    BY <2>5, <2>6
<1>5. ASSUME FreezeEvidence(v) PROVE worker[v].bundle = 1
  BY <1>5 DEF FreezeEvidence, WorkerBundle
<1>6. QED
  BY <1>2, <1>3, <1>4, <1>5 DEF Holder, WorkerBundle

Frozen(i) ==
  /\ hist[i].classifiedOn \subseteq {1}
  /\ hist[i].dispatched > 0 => hist[i].classifiedOn = {1}

FrozenAfter(i) ==
  /\ hist'[i].classifiedOn \subseteq {1}
  /\ hist'[i].dispatched > 0 => hist'[i].classifiedOn = {1}

EvidenceInv == EvidenceNoted /\ WorkerBundle /\ EvidenceFrozen

(* A step on one record: what it has to keep there. *)
LEMMA EvidenceLocal ==
  ASSUME ClaimInv, EvidenceInv, [Next]_vars, ~Restart, NEW d \in Deployments, Local(d),
         EvidenceOf(d)', FrozenAfter(incidents[d].id),
         \A w \in Workers, e \in Deployments \ {d} : Freezing(w, e) => ~FreezeEvidence(w)
  PROVE  EvidenceNoted' /\ EvidenceFrozen'
<1> DEFINE i == incidents[d].id
<1>1. /\ Present(incidents[d]) /\ i \in 1 .. Len(hist) /\ OthersSame(d)
      /\ incidents'[d].id = i /\ Len(hist') = Len(hist)
      /\ \A j \in (1 .. Len(hist)) \ {i} : SameHistory(j)
  BY DEF Local
<1>2. ASSUME NEW e \in Deployments PROVE EvidenceOf(e)'
  <2>1. CASE e = d
    BY <2>1
  <2>2. CASE e # d
    <3>1. SameRecord(e) /\ EvidenceOf(e)
      BY <1>1, <2>2 DEF OthersSame, EvidenceInv, EvidenceNoted
    <3>2. ASSUME Present(incidents[e])
          PROVE  hist'[incidents[e].id].collected = hist[incidents[e].id].collected
      <4>1. incidents[e].id \in 1 .. Len(hist) /\ incidents[e].id # i
        BY <1>1, <2>2, <3>2, Types, IdsDiffer
      <4>2. QED
        BY <1>1, <4>1 DEF SameHistory
    <3>3. \A w \in Workers : Freezing(w, e) => ~FreezeEvidence(w)
      BY <2>2
    <3>4. incidents'[e].id = incidents[e].id /\ incidents'[e].evidence = incidents[e].evidence
      BY <3>1 DEF SameRecord
    <3>5. QED
      BY <3>1, <3>2, <3>3, <3>4, EvidenceOfKept
  <2>3. QED
    BY <2>1, <2>2
<1>3. ASSUME NEW j \in 1 .. Len(hist) PROVE FrozenAfter(j)
  <2>1. CASE j = i
    BY <2>1
  <2>2. CASE j # i
    <3>1. SameHistory(j) /\ Frozen(j)
      BY <1>1, <2>2 DEF EvidenceInv, EvidenceFrozen, Frozen, FrozenAfter
    <3>2. QED
      BY <3>1 DEF Frozen, FrozenAfter, SameHistory
  <2>3. QED
    BY <2>1, <2>2
<1>4. QED
  BY <1>1, <1>2, <1>3 DEF EvidenceNoted, EvidenceFrozen, Frozen, FrozenAfter

(* An attempt ends: its bundle stays. *)
LEMMA EvidenceEnds ==
  ASSUME ClaimInv, EvidenceInv, [Next]_vars, NEW d \in Deployments,
         NEW outcome, NEW bundles, EndsWith(d, outcome, bundles),
         \A w \in Workers : ~FreezeEvidence(w), ~Restart,
         \/ bundles = hist[incidents[d].id].classifiedOn
         \/ bundles = hist[incidents[d].id].classifiedOn \union {1}
  PROVE  EvidenceNoted' /\ EvidenceFrozen'
<1> DEFINE i == incidents[d].id
<1>1. /\ Local(d) /\ incidents'[d].evidence = incidents[d].evidence
      /\ hist'[i].dispatched = hist[i].dispatched
      /\ hist'[i].collected = hist[i].collected
      /\ hist'[i].classifiedOn = bundles
  BY DEF EndsWith
<1>2. i \in 1 .. Len(hist) /\ incidents'[d].id = i
  BY <1>1 DEF Local
<1>3. Frozen(i) /\ EvidenceOf(d)
  BY <1>2 DEF EvidenceInv, EvidenceFrozen, Frozen, EvidenceNoted
<1>4. EvidenceOf(d)'
  BY <1>1, <1>2, <1>3, EvidenceOfKept
<1> HIDE DEF i
<1>5. FrozenAfter(i)
  <2>1. bundles \subseteq {1} /\ (hist[i].dispatched > 0 => bundles = {1})
    BY <1>3 DEF Frozen, FrozenAfter, i
  <2>2. QED
    BY <1>1, <2>1 DEF Frozen, FrozenAfter
<1>6. QED
  BY <1>1, <1>4, <1>5, EvidenceLocal DEF i

LEMMA EvidenceNext ==
  ASSUME ClaimInv, EvidenceInv, [Next]_vars
  PROVE  EvidenceInv'
<1> DEFINE Goal == EvidenceNoted' /\ EvidenceFrozen'
<1>1. WorkerBundle'
  BY BundleNext DEF EvidenceInv
<1>2. /\ \A d \in Deployments : EvidenceOf(d)
      /\ \A i \in 1 .. Len(hist) : Frozen(i)
  BY DEF EvidenceInv, EvidenceNoted, EvidenceFrozen, Frozen, FrozenAfter
<1>3. ASSUME ~Restart, \A w \in Workers : ~FreezeEvidence(w), Len(hist') = Len(hist),
             \A d \in Deployments : /\ incidents'[d].id = incidents[d].id
                                    /\ incidents'[d].evidence = incidents[d].evidence,
             \A i \in 1 .. Len(hist) : /\ hist'[i].collected = hist[i].collected
                                       /\ hist'[i].classifiedOn = hist[i].classifiedOn
                                       /\ hist'[i].dispatched = hist[i].dispatched
      PROVE  Goal
  <2>1. ASSUME NEW d \in Deployments PROVE EvidenceOf(d)'
    <3>1. Present(incidents[d]) => incidents[d].id \in 1 .. Len(hist)
      BY Types
    <3>2. QED
      BY <1>2, <1>3, <3>1, EvidenceOfKept
  <2>2. \A i \in 1 .. Len(hist) : FrozenAfter(i)
    BY <1>2, <1>3 DEF Frozen, FrozenAfter
  <2>3. QED
    BY <1>3, <2>1, <2>2 DEF EvidenceNoted, EvidenceFrozen, Frozen, FrozenAfter
<1>4. ASSUME Restart PROVE Goal
  <2>1. /\ \A d \in Deployments : incidents'[d] = Missing
        /\ Len(hist') = Len(hist)
        /\ \A i \in 1 .. Len(hist) : /\ hist'[i].classifiedOn = hist[i].classifiedOn
                                     /\ hist'[i].dispatched = hist[i].dispatched
    BY <1>4, RestartEffect
  <2>2. Missing.id = 0
    BY DEF Missing, NewRecord
  <2>3. EvidenceNoted'
    BY <2>1, <2>2 DEF EvidenceNoted, EvidenceOf, Present
  <2>4. EvidenceFrozen'
    BY <1>2, <2>1 DEF EvidenceFrozen, Frozen, FrozenAfter
  <2>5. QED
    BY <2>3, <2>4
<1>5. ASSUME NEW w \in Workers, BeginAttempt(w), ~SkipQuiet(w),
             ~Active(incidents[worker[w].dep]), ~Restart, \A v \in Workers : ~FreezeEvidence(v)
      PROVE  Goal
  <2> DEFINE d == worker[w].dep
             n == Len(hist) + 1
  <2>1. /\ d \in Deployments /\ OthersSame(d)
        /\ incidents'[d].id = n /\ incidents'[d].evidence = 0
        /\ Len(hist') = n /\ \A i \in 1 .. Len(hist) : SameHistory(i)
        /\ hist'[n].collected = 0 /\ hist'[n].classifiedOn = {} /\ hist'[n].dispatched = 0
    BY <1>5, OpenEffect
  <2>2. \A j \in 1 .. n : j \in 1 .. Len(hist) \/ j = n
    BY Types
  <2> HIDE DEF n
  <2>3. ASSUME NEW e \in Deployments PROVE EvidenceOf(e)'
    <3>1. CASE e = d
      BY <2>1, <3>1 DEF EvidenceOf
    <3>2. CASE e # d
      <4>1. SameRecord(e)
        BY <2>1, <3>2 DEF OthersSame
      <4>2. Present(incidents[e]) => SameHistory(incidents[e].id)
        BY <2>1, Types
      <4>3. /\ incidents'[e].id = incidents[e].id
            /\ incidents'[e].evidence = incidents[e].evidence
            /\ Present(incidents[e]) =>
                 hist'[incidents[e].id].collected = hist[incidents[e].id].collected
        BY <4>1, <4>2 DEF SameRecord, SameHistory
      <4>4. QED
        BY <1>2, <1>5, <4>3, EvidenceOfKept
    <3>3. QED
      BY <3>1, <3>2
  <2>4. ASSUME NEW j \in 1 .. n PROVE FrozenAfter(j)
    <3>1. CASE j = n
      <4>1. hist'[j].classifiedOn = {} /\ ~(hist'[j].dispatched > 0)
        BY <2>1, <3>1
      <4>2. QED
        BY <4>1 DEF Frozen, FrozenAfter
    <3>2. CASE j \in 1 .. Len(hist)
      BY <1>2, <2>1, <3>2 DEF Frozen, FrozenAfter, SameHistory
    <3>3. QED
      BY <2>2, <3>1, <3>2
  <2>5. QED
    BY <2>1, <2>3, <2>4 DEF EvidenceNoted, EvidenceFrozen, Frozen, FrozenAfter
<1>6. ASSUME NEW w \in Workers, BeginAttempt(w), ~SkipQuiet(w),
             Active(incidents[worker[w].dep]), ~Restart, \A v \in Workers : ~FreezeEvidence(v)
      PROVE  Goal
  <2> DEFINE d == worker[w].dep
             i == incidents[d].id
  <2>1. /\ d \in Deployments /\ OthersSame(d) /\ i \in 1 .. Len(hist)
        /\ incidents'[d].id = incidents[d].id
        /\ incidents'[d].evidence = incidents[d].evidence
    BY <1>6, ResumeEffect
  <2>2. /\ Len(hist') = Len(hist)
        /\ \A j \in (1 .. Len(hist)) \ {i} : SameHistory(j)
        /\ hist'[i].collected = hist[i].collected
        /\ hist'[i].classifiedOn = hist[i].classifiedOn
        /\ hist'[i].dispatched = hist[i].dispatched
    BY <1>6, ResumeEffect DEF HistoriesSame, SameHistory
  <2>3. \A e \in Deployments : /\ incidents'[e].id = incidents[e].id
                               /\ incidents'[e].evidence = incidents[e].evidence
    BY <2>1 DEF OthersSame, SameRecord
  <2> HIDE DEF i
  <2>4. \A j \in 1 .. Len(hist) : /\ hist'[j].collected = hist[j].collected
                                  /\ hist'[j].classifiedOn = hist[j].classifiedOn
                                  /\ hist'[j].dispatched = hist[j].dispatched
    BY <2>2 DEF SameHistory
  <2>5. QED
    BY <1>3, <1>6, <2>2, <2>3, <2>4
<1>7. ASSUME NEW w \in Workers, WorkerEnds(w), ~Restart, \A v \in Workers : ~FreezeEvidence(v)
      PROVE  Goal
  <2> DEFINE d == worker[w].dep
             i == incidents[d].id
  <2>1. /\ d \in Deployments
        /\ \E o \in {"escalated", "rejected"} :
             \/ EndsWith(d, o, hist[i].classifiedOn)
             \/ /\ worker[w].pc = "classify"
                /\ EndsWith(d, o, hist[i].classifiedOn \union {worker[w].bundle})
    BY <1>7, WorkerEndEffect
  <2>2. worker[w].pc = "classify" => worker[w].bundle = 1
    BY DEF EvidenceInv, WorkerBundle
  <2>3. PICK o, bundles :
          /\ EndsWith(d, o, bundles)
          /\ bundles = hist[i].classifiedOn \/ bundles = hist[i].classifiedOn \union {1}
    BY <2>1, <2>2
  <2>4. QED
    BY <1>7, <2>1, <2>3, EvidenceEnds
<1>8. ASSUME NEW w \in Workers, CollectEvidence(w), NEW d \in Deployments,
             d = worker[w].dep, ~Restart,
             \A v \in Workers : ~FreezeEvidence(v)
      PROVE  Goal
  <2> DEFINE i == incidents[d].id
             n == hist[i].collected + 1
  <2>1. /\ worker' = [worker EXCEPT ![w].pc = "freeze", ![w].bundle = n]
        /\ Local(d) /\ SameRecord(d)
        /\ hist'[i].dispatched = hist[i].dispatched
        /\ hist'[i].classifiedOn = hist[i].classifiedOn
    BY <1>8, CollectEffect
  <2>2. d \in Deployments /\ i \in 1 .. Len(hist)
    BY <2>1 DEF Local
  <2> HIDE DEF n
  <2>3. Freezing(w, d)'
    <3>1. worker'[w].pc = "freeze" /\ worker'[w].dep = worker[w].dep
      BY <2>1 DEF ClaimInv, TypeOK, WorkerState
    <3>2. QED
      BY <1>8, <3>1 DEF Freezing
  <2>4. EvidenceOf(d)'
    BY <1>2, <2>1, <2>2, <2>3 DEF EvidenceOf, SameRecord, Present, Freezing
  <2>5. Frozen(i) /\ FrozenAfter(i)
    BY <1>2, <2>1, <2>2 DEF Frozen, FrozenAfter
  <2>6. QED
    BY <1>8, <2>1, <2>2, <2>4, <2>5, EvidenceLocal
<1>9. ASSUME NEW w \in Workers, FreezeEvidence(w), NEW d \in Deployments, d = worker[w].dep
      PROVE  Goal
  <2> DEFINE i == incidents[d].id
  <2>1. /\ worker[w].pc = "freeze" /\ Local(d) /\ HistoriesSame
        /\ worker' = [worker EXCEPT ![w].pc = "classify"]
        /\ incidents'[d].evidence = worker[w].bundle
    BY <1>9, FreezeEffect
  <2>2. worker[w].bundle = 1
    BY <2>1 DEF EvidenceInv, WorkerBundle
  <2>3. d \in Deployments /\ i \in 1 .. Len(hist) /\ ~Restart
    <3>1. worker'[w].pc = "classify"
      BY <2>1 DEF ClaimInv, TypeOK, WorkerState
    <3>2. ~Restart
      <4>1. IdleWorker.pc = "idle"
        BY DEF IdleWorker
      <4>2. Restart => worker'[w].pc = "idle"
        BY <4>1, RestartEffect
      <4>3. QED
        BY <3>1, <4>2
    <3>3. QED
      BY <2>1, <3>2 DEF Local
  <2>4. EvidenceOf(d)'
    <3>1. incidents'[d].evidence \in {0, 1} /\ incidents'[d].evidence # 0
      BY <2>1, <2>2
    <3>2. QED
      BY <3>1 DEF EvidenceOf
  <2>5. FrozenAfter(i)
    BY <1>2, <2>1, <2>3 DEF Frozen, FrozenAfter, HistoriesSame, SameHistory
  <2>6. ASSUME NEW v \in Workers, NEW e \in Deployments \ {d}, Freezing(v, e)
        PROVE  ~FreezeEvidence(v)
    <3>1. v # w
      BY <1>9, <2>6 DEF Freezing
    <3>2. worker'[v].pc = "freeze"
      BY <2>1, <2>6, <3>1 DEF Freezing, ClaimInv, TypeOK
    <3>3. FreezeEvidence(v) => worker'[v].pc = "classify"
      BY DEF FreezeEvidence, ClaimInv, TypeOK, WorkerState
    <3>4. QED
      BY <3>2, <3>3
  <2>7. QED
    BY <2>1, <2>3, <2>4, <2>5, <2>6, EvidenceLocal
<1>10. ASSUME NEW w \in Workers, Dispatch(w), NEW d \in Deployments, d = worker[w].dep,
              ~Restart, \A v \in Workers : ~FreezeEvidence(v)
       PROVE  Goal
  <2> DEFINE i == incidents[d].id
  <2>1. /\ worker[w].pc = "classify" /\ Local(d)
        /\ incidents'[d].evidence = incidents[d].evidence
        /\ hist'[i].collected = hist[i].collected
        /\ hist'[i].classifiedOn = hist[i].classifiedOn \union {worker[w].bundle}
    BY <1>10, DispatchEffect
  <2>2. worker[w].bundle = 1
    BY <2>1 DEF EvidenceInv, WorkerBundle
  <2>3. d \in Deployments /\ i \in 1 .. Len(hist) /\ incidents'[d].id = i
    BY <2>1 DEF Local
  <2>4. EvidenceOf(d)'
    BY <1>2, <1>10, <2>1, <2>3, EvidenceOfKept
  <2>5. FrozenAfter(i)
    <3>1. hist[i].classifiedOn \subseteq {1}
      BY <1>2, <2>3 DEF Frozen, FrozenAfter
    <3>2. hist'[i].classifiedOn = {1}
      BY <2>1, <2>2, <3>1
    <3>3. QED
      BY <3>2 DEF Frozen, FrozenAfter
  <2>6. QED
    BY <1>10, <2>1, <2>3, <2>4, <2>5, EvidenceLocal
<1>11. ASSUME NEW g \in goroutines, NEW result \in Results, Finish(g, result), ~Restart,
              \A v \in Workers : ~FreezeEvidence(v)
       PROVE  Goal
  <2>1. g.dep \in Deployments /\ EndsWith(g.dep, result, hist[incidents[g.dep].id].classifiedOn)
    BY <1>11, FinishEffect
  <2>2. QED
    BY <1>11, <2>1, EvidenceEnds
<1>12. ASSUME AllSame, ~Restart, \A v \in Workers : ~FreezeEvidence(v) PROVE Goal
  BY <1>3, <1>12 DEF AllSame, SameRecord, HistoriesSame, SameHistory
<1>13. ASSUME Tick, ~Restart, \A v \in Workers : ~FreezeEvidence(v) PROVE Goal
  BY <1>3, <1>13, TickEffect
<1>14. Goal
  <2>1. CASE Restart
    BY <1>4, <2>1
  <2>2. CASE \E w \in Workers : FreezeEvidence(w)
    <3>1. PICK w \in Workers : FreezeEvidence(w)
      BY <2>2
    <3>2. worker[w].dep \in Deployments
      BY <3>1 DEF FreezeEvidence, ClaimInv, TypeOK
    <3>3. QED
      BY <1>9, <3>1, <3>2
  <2>3. CASE ~Restart /\ \A w \in Workers : ~FreezeEvidence(w)
    <3>1. ASSUME NEW w \in Workers, CollectEvidence(w) \/ Dispatch(w)
          PROVE  worker[w].dep \in Deployments
      BY <3>1 DEF CollectEvidence, Dispatch, ClaimInv, TypeOK
    <3>2. QED
      BY <1>5, <1>6, <1>7, <1>8, <1>10, <1>11, <1>12, <1>13, <2>3, <3>1, StepCases, QuietEffect
  <2>4. QED
    BY <2>1, <2>2, <2>3
<1>15. QED
  BY <1>1, <1>14 DEF EvidenceInv

(* Evidence is collected once for an incident, and every attempt of it is   *)
(* classified on that bundle, although Collect runs between two             *)
(* acquisitions of the lock: the claim keeps a second reconcile from        *)
(* collecting in between.                                                   *)
THEOREM EvidenceIsFrozen == Spec => []EvidenceFrozen
<1>1. Init => EvidenceInv
  <2> SUFFICES ASSUME Init PROVE EvidenceInv
    OBVIOUS
  <2>1. /\ \A d \in Deployments : incidents[d] = Missing
        /\ \A w \in Workers : worker[w] = IdleWorker
        /\ Len(hist) = 0
    BY DEF Init
  <2>2. Missing.id = 0 /\ IdleWorker.pc = "idle"
    BY DEF Missing, NewRecord, IdleWorker
  <2>3. EvidenceNoted
    BY <2>1, <2>2 DEF EvidenceNoted, EvidenceOf, Present
  <2>4. WorkerBundle /\ EvidenceFrozen
    BY <2>1, <2>2 DEF WorkerBundle, EvidenceFrozen
  <2>5. QED
    BY <2>3, <2>4 DEF EvidenceInv
<1>2. ClaimInv /\ EvidenceInv /\ [Next]_vars => EvidenceInv'
  BY EvidenceNext
<1>3. EvidenceInv => EvidenceFrozen
  BY DEF EvidenceInv
<1>4. QED
  BY <1>1, <1>2, <1>3, ClaimInvariant, PTL DEF Spec

-----------------------------------------------------------------------------
(* Incident implements IncidentPromise. *)

LEMMA LivesFacts ==
  ASSUME hist \in Seq(History)
  PROVE  /\ Len(Lives) = Len(hist) /\ DOMAIN Lives = 1 .. Len(hist)
         /\ \A i \in 1 .. Len(hist) : Lives[i] = LifeOf(i)
         /\ Lives = [i \in 1 .. Len(hist) |-> LifeOf(i)]
<1>1. Len(hist) \in Nat
  OBVIOUS
<1>2. QED
  BY <1>1 DEF Lives

(* The same after a step. *)
LEMMA LivesNext ==
  ASSUME ClaimInv, [Next]_vars
  PROVE  /\ Len(Lives') = Len(hist') /\ Len(hist') \in Nat
         /\ \A i \in 1 .. Len(hist') : Lives'[i] = LifeOf(i)'
         /\ Lives' = [i \in 1 .. Len(hist') |-> LifeOf(i)']
<1>1. hist' \in Seq(History)
  <2>1. ClaimInv'
    BY ClaimStep
  <2>2. QED
    BY <2>1 DEF ClaimInv, TypeOK
<1>2. Len(hist') \in Nat
  BY <1>1
<1>3. QED
  BY <1>2 DEF Lives

(* The fields of a life. *)
SameLife(i) ==
  /\ hist'[i].dep = hist[i].dep /\ hist'[i].dispatched = hist[i].dispatched
  /\ hist'[i].outcome = hist[i].outcome /\ hist'[i].lost = hist[i].lost
  /\ Acting(i)' <=> Acting(i)

LEMMA SameLifeOf ==
  ASSUME NEW i, SameLife(i)
  PROVE  LifeOf(i)' = LifeOf(i)
<1>1. Acting(i)' = Acting(i)
  BY DEF SameLife, Acting
<1>2. QED
  BY <1>1 DEF SameLife, LifeOf

(* No life changes. *)
LEMMA LivesStutter ==
  ASSUME ClaimInv, [Next]_vars, Len(hist') = Len(hist),
         \A i \in 1 .. Len(hist) : SameLife(i)
  PROVE  Lives' = Lives
<1>1. \A i \in 1 .. Len(hist) : LifeOf(i)' = LifeOf(i)
  BY SameLifeOf
<1>2. Lives = [i \in 1 .. Len(hist) |-> LifeOf(i)]
  BY DEF Lives
<1>3. Lives' = [i \in 1 .. Len(hist') |-> LifeOf(i)']
  BY LivesNext
<1>4. QED
  BY <1>1, <1>2, <1>3

(* One life changes. *)
LEMMA OneLife ==
  ASSUME ClaimInv, [Next]_vars, Len(hist') = Len(hist), NEW i \in 1 .. Len(hist),
         \A j \in (1 .. Len(hist)) \ {i} : SameLife(j),
         NEW x, LifeOf(i)' = x
  PROVE  Lives' = [Lives EXCEPT ![i] = x]
<1>1. \A j \in (1 .. Len(hist)) \ {i} : LifeOf(j)' = LifeOf(j)
  BY SameLifeOf
<1>2. Lives = [j \in 1 .. Len(hist) |-> LifeOf(j)]
  BY DEF Lives
<1>3. Lives' = [j \in 1 .. Len(hist') |-> LifeOf(j)']
  BY LivesNext
<1>4. QED
  BY <1>1, <1>2, <1>3

(* A goroutine inside Remediate works on the incident its Deployment has    *)
(* in the map.                                                              *)
LEMMA ActingFacts ==
  ASSUME ClaimInv, NEW d \in Deployments, Present(incidents[d]), Acting(incidents[d].id)
  PROVE  incidents[d].inFlight /\ \E g \in goroutines : GoroutineHolds(g, d)
<1>1. PICK g \in goroutines : g.incident = incidents[d].id /\ g.pc = "remediate"
  BY DEF Acting
<1>2. g.dep \in Deployments /\ incidents[g.dep].id = incidents[d].id /\ incidents[g.dep].inFlight
  BY <1>1, GoroutineHolding
<1>3. g.dep = d
  BY <1>2, IdsDiffer DEF Present
<1>4. QED
  BY <1>1, <1>2, <1>3 DEF GoroutineHolds

(* The steps between and beside the actions of an incident are not visible  *)
(* in its life.                                                             *)
LEMMA ActingQuiet ==
  ASSUME ClaimInv, NEW i, \/ goroutines' = goroutines
                          \/ \E g \in goroutines : MoveSpec(g) \/ CloseInGoroutine(g)
  PROVE  Acting(i)' <=> Acting(i)
<1>1. CASE goroutines' = goroutines
  BY <1>1 DEF Acting
<1>2. ASSUME NEW g \in goroutines, MoveSpec(g) PROVE Acting(i)' <=> Acting(i)
  <2> DEFINE m == [g EXCEPT !.moves = g.moves + 1]
  <2>1. /\ goroutines' = (goroutines \ {g}) \union {m} /\ g.pc = "remediate"
        /\ g \in Goroutine
    BY <1>2 DEF MoveSpec, ClaimInv, TypeOK
  <2>2. m.incident = g.incident /\ m.pc = "remediate"
    BY <2>1 DEF Goroutine
  <2> HIDE DEF m
  <2>3. QED
    BY <2>1, <2>2 DEF Acting
<1>3. ASSUME NEW g \in goroutines, CloseInGoroutine(g) PROVE Acting(i)' <=> Acting(i)
  BY <1>3 DEF CloseInGoroutine, Acting
<1>4. QED
  BY <1>1, <1>2, <1>3

(* beginAttempt opens an incident: the Deployment has none running. *)
LEMMA OpenIsOpen ==
  ASSUME LifeInv, [Next]_vars, NEW w \in Workers, BeginAttempt(w), ~SkipQuiet(w),
         NEW d \in Deployments, d = worker[w].dep, ~Active(incidents[d])
  PROVE  Promise!Open(d)
<1> DEFINE new == Promise!NewIncident(d)
<1>a. PICK n : n = Len(hist) + 1
  OBVIOUS
<1>1. ClaimInv /\ RecordInv /\ hist \in Seq(History) /\ Len(hist) \in Nat
  BY Types DEF LifeInv
<1>2. /\ Claim(w) /\ Len(hist') = n /\ \A i \in 1 .. Len(hist) : SameHistory(i)
      /\ hist'[n].dep = d /\ hist'[n].dispatched = 0 /\ hist'[n].outcome = ""
      /\ hist'[n].lost = FALSE
  BY <1>1, <1>a, OpenEffect
<1>3. goroutines' = goroutines
  BY <1>2 DEF Claim
<1>4. \A i : Acting(i)' <=> Acting(i)
  BY <1>3 DEF Acting
<1>5. \A i \in 1 .. Len(hist) : LifeOf(i)' = LifeOf(i)
  BY <1>2, <1>4, SameLifeOf DEF SameHistory, SameLife
<1>6. ~Acting(n)
  <2> SUFFICES ASSUME NEW g \in goroutines, g.incident = n, g.pc = "remediate" PROVE FALSE
    BY DEF Acting
  <2>1. g.dep \in Deployments /\ incidents[g.dep].id = n /\ Present(incidents[g.dep])
    BY <1>1, GoroutineHolding DEF Active
  <2>2. n \in 1 .. Len(hist)
    BY <1>1, <2>1, Types
  <2>3. QED
    BY <1>1, <1>a, <2>2
<1>7. LifeOf(n)' = new
  <2>1. Acting(n)' = FALSE
    BY <1>3, <1>6 DEF Acting
  <2>2. QED
    BY <1>2, <2>1 DEF LifeOf, Promise!NewIncident, Promise!Life
<1>8. Lives' = Append(Lives, new)
  <2>1. Lives' = [i \in 1 .. n |-> LifeOf(i)']
    BY <1>1, <1>2, LivesNext
  <2>2. /\ Lives = [i \in 1 .. Len(hist) |-> LifeOf(i)] /\ Len(Lives) = Len(hist)
    BY <1>1, LivesFacts
  <2> HIDE DEF new
  <2>3. Append(Lives, new)
          = [i \in 1 .. Len(Lives) + 1 |-> IF i = Len(Lives) + 1 THEN new ELSE Lives[i]]
    BY <1>1, <2>2
  <2>4. Append(Lives, new) = [i \in 1 .. n |-> IF i = n THEN new ELSE Lives[i]]
    BY <1>a, <2>2, <2>3
  <2>5. \A i \in 1 .. n : i # n => i \in 1 .. Len(hist)
    BY <1>1, <1>a
  <2>6. ASSUME NEW i \in 1 .. n PROVE LifeOf(i)' = IF i = n THEN new ELSE Lives[i]
    BY <1>5, <1>7, <2>2, <2>5
  <2>7. QED
    BY <2>1, <2>4, <2>6
<1>9. ASSUME NEW i \in 1 .. Len(Lives), Lives[i].dep = d PROVE ~Promise!Running(i)
  <2>1. i \in 1 .. Len(hist) /\ Lives[i] = LifeOf(i)
    BY <1>1, LivesFacts
  <2>2. Lives[i].dep = hist[i].dep /\ Lives[i].outcome = hist[i].outcome
        /\ Lives[i].lost = hist[i].lost
    BY <2>1 DEF LifeOf
  <2>3. ASSUME hist[i].outcome = "", ~hist[i].lost PROVE FALSE
    <3>1. incidents[d].id = i
      BY <1>1, <1>9, <2>1, <2>2, <2>3 DEF RecordInv, RunningIsCurrent
    <3>2. Present(incidents[d])
      BY <1>1, <2>1, <3>1 DEF Present
    <3>3. incidents[d].terminalOutcome = ""
      BY <1>1, <2>3, <3>1, <3>2 DEF RecordInv, AllLinked, Linked
    <3>4. QED
      BY <3>2, <3>3 DEF Active
  <2>4. QED
    BY <2>2, <2>3 DEF Promise!Running
<1>10. QED
  BY <1>8, <1>9 DEF Promise!Open

(* The current incident of a Deployment, as its life shows it. *)
LEMMA CurrentLife ==
  ASSUME LifeInv, NEW d \in Deployments, Active(incidents[d]), NEW i, i = incidents[d].id
  PROVE  /\ i \in 1 .. Len(hist) /\ i \in 1 .. Len(Lives) /\ Lives[i] = LifeOf(i)
         /\ Promise!Running(i)
         /\ Lives[i].acting <=> Acting(i)
         /\ Lives[i].acts = incidents[d].attemptCount
         /\ incidents[d].attemptCount = hist[i].dispatched
         /\ hist[i].outcome = "" /\ ~hist[i].lost
         /\ hist[i].dispatched <= MaxAttempts
<1>1. ClaimInv /\ RecordInv /\ Present(incidents[d]) /\ hist \in Seq(History)
  BY Types DEF LifeInv, Active
<1>2. i \in 1 .. Len(hist) /\ Len(Lives) = Len(hist) /\ Lives[i] = LifeOf(i)
  BY <1>1, Types, LivesFacts
<1>3. /\ incidents[d].attemptCount = hist[i].dispatched
      /\ hist[i].outcome = "" /\ ~hist[i].lost
  BY <1>1 DEF RecordInv, AllLinked, Linked, Active
<1>4. hist[i].dispatched <= MaxAttempts
  BY <1>1, <1>2 DEF RecordInv, WithinBudget
<1>5. /\ LifeOf(i).outcome = hist[i].outcome /\ LifeOf(i).lost = hist[i].lost
      /\ LifeOf(i).acts = hist[i].dispatched
  BY DEF LifeOf
<1>6. LifeOf(i).acting <=> Acting(i)
  BY DEF LifeOf
<1>7. Promise!Running(i)
  BY <1>2, <1>3, <1>5 DEF Promise!Running
<1>8. QED
  BY <1>2, <1>3, <1>4, <1>5, <1>6, <1>7

(* An incident is given up: exhausted by beginAttempt, or escalated or      *)
(* rejected by the worker that holds its claim.                             *)
LEMMA EndIsGiveUp ==
  ASSUME LifeInv, [Next]_vars, NEW d \in Deployments, Active(incidents[d]),
         ~Acting(incidents[d].id), Local(d), goroutines' = goroutines,
         NEW o \in {"exhausted", "escalated", "rejected"},
         o = "exhausted" <=> incidents[d].attemptCount = MaxAttempts,
         hist'[incidents[d].id].dispatched = hist[incidents[d].id].dispatched,
         hist'[incidents[d].id].outcome = o
  PROVE  \E i \in 1 .. Len(Lives) : Promise!GiveUp(i)
<1>1. PICK i : i = incidents[d].id
  OBVIOUS
<1>2. ClaimInv
  BY DEF LifeInv
<1>3. /\ i \in 1 .. Len(hist) /\ i \in 1 .. Len(Lives) /\ Lives[i] = LifeOf(i)
      /\ Promise!Running(i) /\ ~Lives[i].acting
      /\ Lives[i].acts = incidents[d].attemptCount
  BY <1>1, CurrentLife
<1>4. /\ Len(hist') = Len(hist)
      /\ \A j \in (1 .. Len(hist)) \ {i} : SameHistory(j)
      /\ hist'[i].dep = hist[i].dep /\ hist'[i].lost = hist[i].lost
      /\ hist'[i].dispatched = hist[i].dispatched /\ hist'[i].outcome = o
  BY <1>1 DEF Local
<1>5. \A j : Acting(j)' <=> Acting(j)
  BY DEF Acting
<1>6. \A j \in (1 .. Len(hist)) \ {i} : SameLife(j)
  BY <1>4, <1>5 DEF SameLife, SameHistory
<1>7. LifeOf(i)' = Promise!Returned(Lives[i], o)
  <2>1. Acting(i)' = FALSE
    BY <1>1 DEF Acting
  <2>2. LifeOf(i)' = [dep |-> hist[i].dep, acts |-> hist[i].dispatched, acting |-> FALSE,
                      outcome |-> o, lost |-> hist[i].lost]
    BY <1>4, <2>1 DEF LifeOf
  <2>3. Promise!Returned(LifeOf(i), o)
          = [dep |-> hist[i].dep, acts |-> hist[i].dispatched, acting |-> FALSE,
             outcome |-> o, lost |-> hist[i].lost]
    BY DEF LifeOf, Promise!Returned, Promise!Life
  <2>4. QED
    BY <1>3, <2>2, <2>3
<1>8. Lives' = [Lives EXCEPT ![i] = Promise!Returned(Lives[i], o)]
  BY <1>2, <1>3, <1>4, <1>6, <1>7, OneLife
<1>9. o = "exhausted" <=> Lives[i].acts = MaxAttempts
  BY <1>3
<1>10. Promise!GiveUp(i)
  BY <1>3, <1>8, <1>9 DEF Promise!GiveUp
<1>11. QED
  BY <1>3, <1>10

(* Dispatch is an action of the incident. *)
LEMMA DispatchIsAct ==
  ASSUME LifeInv, [Next]_vars, NEW w \in Workers, Dispatch(w)
  PROVE  \E i \in 1 .. Len(Lives) : Promise!Act(i)
<1>1. PICK d : d = worker[w].dep
  OBVIOUS
<1>2. PICK i : i = incidents[d].id
  OBVIOUS
<1>3. ClaimInv /\ WorkerBudget
  BY DEF LifeInv
<1>4. PICK g : /\ g.incident = i /\ g.pc = "remediate" /\ goroutines' = goroutines \union {g}
  <2> DEFINE g == [dep |-> d, incident |-> i, attempt |-> incidents[d].attemptCount + 1,
                   pc |-> "remediate", moves |-> 0]
  <2>1. goroutines' = goroutines \union {g}
    BY <1>1, <1>2, <1>3, DispatchEffect
  <2>2. g.incident = i /\ g.pc = "remediate"
    OBVIOUS
  <2> HIDE DEF g
  <2>3. QED
    BY <2>1, <2>2
<1>5. /\ worker[w].pc = "classify" /\ Active(incidents[d]) /\ Local(d)
      /\ hist'[i].dispatched = hist[i].dispatched + 1
      /\ hist'[i].outcome = hist[i].outcome
  BY <1>1, <1>2, <1>3, DispatchEffect
<1>6. /\ d \in Deployments /\ Present(incidents[d]) /\ Len(hist') = Len(hist)
      /\ \A j \in (1 .. Len(hist)) \ {i} : SameHistory(j)
      /\ hist'[i].dep = hist[i].dep /\ hist'[i].lost = hist[i].lost
  BY <1>2, <1>5 DEF Local
<1>7. /\ i \in 1 .. Len(hist) /\ i \in 1 .. Len(Lives) /\ Lives[i] = LifeOf(i)
      /\ Promise!Running(i) /\ (Lives[i].acting <=> Acting(i))
      /\ Lives[i].acts = incidents[d].attemptCount
  BY <1>2, <1>5, <1>6, CurrentLife
<1>8. ~Acting(i)
  <2>1. \A f \in goroutines : ~GoroutineHolds(f, d)
    BY <1>1, <1>3, <1>5, WorkerHolding DEF HoldingPCs
  <2>2. QED
    BY <1>2, <1>3, <1>6, <2>1, ActingFacts
<1>9. Lives[i].acts < MaxAttempts
  BY <1>1, <1>3, <1>5, <1>7 DEF WorkerBudget, HoldingPCs
<1>10. \A j : j # i => (Acting(j)' <=> Acting(j))
  BY <1>4 DEF Acting
<1>11. \A j \in (1 .. Len(hist)) \ {i} : SameLife(j)
  BY <1>6, <1>10 DEF SameLife, SameHistory
<1>12. LifeOf(i)' = Promise!Dispatched(Lives[i])
  <2>1. Acting(i)' = TRUE
    BY <1>4 DEF Acting
  <2>2. LifeOf(i)' = [dep |-> hist[i].dep, acts |-> hist[i].dispatched + 1, acting |-> TRUE,
                      outcome |-> hist[i].outcome, lost |-> hist[i].lost]
    BY <1>5, <1>6, <2>1 DEF LifeOf
  <2>3. Promise!Dispatched(LifeOf(i))
          = [dep |-> hist[i].dep, acts |-> hist[i].dispatched + 1, acting |-> TRUE,
             outcome |-> hist[i].outcome, lost |-> hist[i].lost]
    BY DEF LifeOf, Promise!Dispatched, Promise!Life
  <2>4. QED
    BY <1>7, <2>2, <2>3
<1>13. Lives' = [Lives EXCEPT ![i] = Promise!Dispatched(Lives[i])]
  BY <1>3, <1>6, <1>7, <1>11, <1>12, OneLife
<1>14. Promise!Act(i)
  BY <1>7, <1>8, <1>9, <1>13 DEF Promise!Act
<1>15. QED
  BY <1>7, <1>14

(* The action returns. *)
LEMMA FinishIsReturn ==
  ASSUME LifeInv, [Next]_vars, NEW g \in goroutines, NEW result \in Results, Finish(g, result)
  PROVE  \E i \in 1 .. Len(Lives) : Promise!ActReturns(i)
<1>1. PICK d : d = g.dep
  OBVIOUS
<1>2. PICK i : i = incidents[d].id
  OBVIOUS
<1>3. ClaimInv
  BY DEF LifeInv
<1>4. /\ g.pc = "remediate" /\ g.incident = i /\ d \in Deployments /\ Active(incidents[d])
      /\ goroutines' = (goroutines \ {g}) \union {[g EXCEPT !.pc = "close"]}
      /\ EndsWith(d, result, hist[i].classifiedOn)
      /\ result \in TerminalOutcomes => result = "recovered"
  BY <1>1, <1>2, <1>3, FinishEffect
<1>5. /\ i \in 1 .. Len(hist) /\ i \in 1 .. Len(Lives) /\ Lives[i] = LifeOf(i)
      /\ Promise!Running(i) /\ (Lives[i].acting <=> Acting(i)) /\ hist[i].outcome = ""
  BY <1>2, <1>4, CurrentLife
<1>6. Acting(i)
  BY <1>4 DEF Acting
<1>7. /\ Len(hist') = Len(hist) /\ Present(incidents[d])
      /\ \A j \in (1 .. Len(hist)) \ {i} : SameHistory(j)
      /\ hist'[i].dep = hist[i].dep /\ hist'[i].lost = hist[i].lost
      /\ hist'[i].dispatched = hist[i].dispatched
  BY <1>2, <1>4 DEF EndsWith, Local
<1>8. PICK o \in {"recovered", ""} : hist'[i].outcome = o
  <2>1. CASE result \in TerminalOutcomes
    BY <1>2, <1>4, <2>1 DEF EndsWith
  <2>2. CASE result \notin TerminalOutcomes
    BY <1>2, <1>4, <1>5, <2>2 DEF EndsWith
  <2>3. QED
    BY <2>1, <2>2
<1>9. PICK c : c.pc = "close" /\ goroutines' = (goroutines \ {g}) \union {c}
  <2>1. [g EXCEPT !.pc = "close"].pc = "close"
    BY <1>3 DEF ClaimInv, TypeOK, Goroutine
  <2>2. QED
    BY <1>4, <2>1
<1>10. \A j : j # i => (Acting(j)' <=> Acting(j))
  BY <1>4, <1>9 DEF Acting
<1>11. Acting(i)' = FALSE
  <2> SUFFICES ASSUME NEW f \in goroutines', f.incident = i, f.pc = "remediate" PROVE FALSE
    BY DEF Acting
  <2>1. f \in goroutines /\ f # g
    BY <1>9
  <2>2. f.dep \in Deployments /\ incidents[f.dep].id = i /\ Present(incidents[f.dep])
    BY <1>3, <2>1, GoroutineHolding DEF Active
  <2>3. f.dep = d
    BY <1>2, <1>3, <1>4, <1>7, <2>2, IdsDiffer
  <2>4. QED
    BY <1>1, <1>3, <1>4, <2>1, <2>3, GoroutineHolding DEF GoroutineHolds
<1>12. \A j \in (1 .. Len(hist)) \ {i} : SameLife(j)
  BY <1>7, <1>10 DEF SameLife, SameHistory
<1>13. LifeOf(i)' = Promise!Returned(Lives[i], o)
  <2>1. LifeOf(i)' = [dep |-> hist[i].dep, acts |-> hist[i].dispatched, acting |-> FALSE,
                      outcome |-> o, lost |-> hist[i].lost]
    BY <1>7, <1>8, <1>11 DEF LifeOf
  <2>2. Promise!Returned(LifeOf(i), o)
          = [dep |-> hist[i].dep, acts |-> hist[i].dispatched, acting |-> FALSE,
             outcome |-> o, lost |-> hist[i].lost]
    BY DEF LifeOf, Promise!Returned, Promise!Life
  <2>3. QED
    BY <1>5, <2>1, <2>2
<1>14. Lives' = [Lives EXCEPT ![i] = Promise!Returned(Lives[i], o)]
  BY <1>3, <1>5, <1>7, <1>12, <1>13, OneLife
<1>15. Promise!ActReturns(i)
  BY <1>5, <1>6, <1>14 DEF Promise!ActReturns
<1>16. QED
  BY <1>5, <1>15

(* The process dies. *)
LEMMA RestartIsForget ==
  ASSUME LifeInv, [Next]_vars, Restart
  PROVE  Promise!Forget
<1>1. ClaimInv /\ hist \in Seq(History)
  BY Types DEF LifeInv
<1>2. /\ goroutines' = {} /\ Len(hist') = Len(hist)
      /\ \A i \in 1 .. Len(hist) :
           /\ hist'[i].dep = hist[i].dep /\ hist'[i].dispatched = hist[i].dispatched
           /\ hist'[i].outcome = hist[i].outcome /\ hist'[i].lost = TRUE
  BY <1>1, RestartEffect
<1>3. ASSUME NEW i \in 1 .. Len(hist) PROVE LifeOf(i)' = Promise!Forgotten(Lives[i])
  <2>1. Acting(i)' = FALSE
    BY <1>2 DEF Acting
  <2>2. LifeOf(i)' = [dep |-> hist[i].dep, acts |-> hist[i].dispatched, acting |-> FALSE,
                      outcome |-> hist[i].outcome, lost |-> TRUE]
    BY <1>2, <2>1 DEF LifeOf
  <2>3. Promise!Forgotten(LifeOf(i))
          = [dep |-> hist[i].dep, acts |-> hist[i].dispatched, acting |-> FALSE,
             outcome |-> hist[i].outcome, lost |-> TRUE]
    BY DEF LifeOf, Promise!Forgotten, Promise!Life
  <2>4. Lives[i] = LifeOf(i)
    BY <1>1, LivesFacts
  <2>5. QED
    BY <2>2, <2>3, <2>4
<1>4. Lives' = [i \in 1 .. Len(hist') |-> LifeOf(i)'] /\ Len(Lives) = Len(hist)
  BY <1>1, LivesNext, LivesFacts
<1>5. QED
  BY <1>2, <1>3, <1>4 DEF Promise!Forget

(* Every step of the manager is a step of the promise, or none. *)
LEMMA StepIsPromised == LifeInv /\ [Next]_vars => [Promise!Next]_Lives
<1> SUFFICES ASSUME LifeInv, [Next]_vars PROVE Promise!Next \/ Lives' = Lives
  OBVIOUS
<1>1. ClaimInv /\ WorkerBudget /\ Len(hist) \in Nat
  BY Types DEF LifeInv
<1>2. ASSUME AllSame, \A i : Acting(i)' <=> Acting(i) PROVE Lives' = Lives
  <2>1. Len(hist') = Len(hist) /\ \A i \in 1 .. Len(hist) : SameLife(i)
    BY <1>2 DEF AllSame, HistoriesSame, SameHistory, SameLife
  <2>2. QED
    BY <1>1, <2>1, LivesStutter
<1>3. ASSUME QuietStep PROVE Lives' = Lives
  <2>1. \/ goroutines' = goroutines
        \/ \E g \in goroutines : MoveSpec(g) \/ CloseInGoroutine(g)
    BY <1>3 DEF QuietStep, Observe, SkipQuiet, ReuseEvidence, CloseInReconcile, HumanEdit,
                CacheSync, vars
  <2>2. \A i : Acting(i)' <=> Acting(i)
    BY <1>1, <2>1, ActingQuiet
  <2>3. AllSame
    BY <1>1, <1>3, QuietEffect
  <2>4. QED
    BY <1>2, <2>2, <2>3
<1>4. ASSUME goroutines' = goroutines, Len(hist') = Len(hist),
             \A i \in 1 .. Len(hist) :
               /\ hist'[i].dep = hist[i].dep /\ hist'[i].dispatched = hist[i].dispatched
               /\ hist'[i].outcome = hist[i].outcome /\ hist'[i].lost = hist[i].lost
      PROVE  Lives' = Lives
  <2>1. \A i : Acting(i)' <=> Acting(i)
    BY <1>4 DEF Acting
  <2>2. \A i \in 1 .. Len(hist) : SameLife(i)
    BY <1>4, <2>1 DEF SameLife
  <2>3. QED
    BY <1>1, <1>4, <2>2, LivesStutter
<1>5. ASSUME Tick PROVE Lives' = Lives
  BY <1>1, <1>4, <1>5, TickEffect
<1>6. ASSUME NEW w \in Workers, BeginAttempt(w), ~SkipQuiet(w),
             NEW d \in Deployments, d = worker[w].dep
      PROVE  Promise!Next \/ Lives' = Lives
  <2>1. CASE ~Active(incidents[d])
    BY <1>6, <2>1, OpenIsOpen DEF Promise!Next
  <2>2. CASE Active(incidents[d])
    <3>1. goroutines' = goroutines
      BY <1>6 DEF BeginAttempt, SkipActive, Exhaust, Claim
    <3>2. CASE HistoriesSame
      BY <1>4, <3>1, <3>2 DEF HistoriesSame, SameHistory
    <3>3. CASE Exhaust(w)
      <4>1. /\ incidents[d].id \in 1 .. Len(hist) /\ OthersSame(d)
            /\ incidents'[d].id = incidents[d].id
            /\ ~incidents[d].inFlight /\ incidents[d].attemptCount >= MaxAttempts
            /\ Len(hist') = Len(hist)
            /\ \A j \in (1 .. Len(hist)) \ {incidents[d].id} : SameHistory(j)
            /\ hist'[incidents[d].id].dep = hist[incidents[d].id].dep
            /\ hist'[incidents[d].id].lost = hist[incidents[d].id].lost
            /\ hist'[incidents[d].id].dispatched = hist[incidents[d].id].dispatched
            /\ hist'[incidents[d].id].outcome = "exhausted"
        BY <1>1, <1>6, <2>2, <3>3, ResumeEffect DEF SkipActive, Claim, Exhaust
      <4>2. Local(d)
        BY <2>2, <4>1 DEF Local, Active
      <4>3. ~Acting(incidents[d].id)
        BY <1>1, <2>2, <4>1, ActingFacts DEF Active
      <4>4. incidents[d].attemptCount = MaxAttempts
        <5>1. /\ incidents[d].attemptCount = hist[incidents[d].id].dispatched
              /\ hist[incidents[d].id].dispatched <= MaxAttempts
          BY <2>2, CurrentLife
        <5>2. incidents[d].attemptCount \in Nat /\ MaxAttempts \in Nat
          BY <1>1, Types, ConstantsAssumption DEF Record
        <5>3. incidents[d].attemptCount >= MaxAttempts
          BY <4>1
        <5>4. QED
          BY <5>1, <5>2, <5>3
      <4>5. \E i \in 1 .. Len(Lives) : Promise!GiveUp(i)
        BY <2>2, <3>1, <4>1, <4>2, <4>3, <4>4, EndIsGiveUp
      <4>6. QED
        BY <4>5 DEF Promise!Next
    <3>4. QED
      BY <1>1, <1>6, <2>2, <3>2, <3>3, ResumeEffect
  <2>3. QED
    BY <2>1, <2>2
<1>7. ASSUME NEW w \in Workers, WorkerEnds(w), NEW d \in Deployments, d = worker[w].dep
      PROVE  Promise!Next
  <2>1. /\ worker[w].pc \in HoldingPCs /\ Active(incidents[d]) /\ goroutines' = goroutines
    BY <1>1, <1>7, WorkerEndEffect
  <2>2. PICK o \in {"escalated", "rejected"} : \E bundles : EndsWith(d, o, bundles)
    BY <1>1, <1>7, WorkerEndEffect
  <2>3. o \in TerminalOutcomes
    BY DEF TerminalOutcomes
  <2>4. /\ Local(d)
        /\ hist'[incidents[d].id].dispatched = hist[incidents[d].id].dispatched
        /\ hist'[incidents[d].id].outcome = o
    BY <2>2, <2>3 DEF EndsWith
  <2>5. ~Acting(incidents[d].id)
    <3>1. \A g \in goroutines : ~GoroutineHolds(g, d)
      BY <1>1, <1>7, <2>1, WorkerHolding
    <3>2. QED
      BY <1>1, <2>1, <3>1, ActingFacts DEF Active
  <2>6. incidents[d].attemptCount # MaxAttempts
    <3>1. incidents[d].attemptCount < MaxAttempts
      BY <1>1, <1>7, <2>1 DEF WorkerBudget
    <3>2. incidents[d].attemptCount \in Nat /\ MaxAttempts \in Nat
      BY <1>1, Types, ConstantsAssumption DEF Record
    <3>3. QED
      BY <3>1, <3>2
  <2>7. \E i \in 1 .. Len(Lives) : Promise!GiveUp(i)
    BY <2>1, <2>4, <2>5, <2>6, EndIsGiveUp
  <2>8. QED
    BY <2>7 DEF Promise!Next
<1>8. ASSUME NEW w \in Workers, CollectEvidence(w) PROVE Lives' = Lives
  <2> DEFINE d == worker[w].dep
             i == incidents[d].id
  <2>1. /\ Local(d) /\ goroutines' = goroutines
        /\ hist'[i].dispatched = hist[i].dispatched
        /\ hist'[i].outcome = hist[i].outcome
    BY <1>1, <1>8, CollectEffect
  <2>2. /\ Len(hist') = Len(hist)
        /\ \A j \in (1 .. Len(hist)) \ {i} : SameHistory(j)
        /\ hist'[i].dep = hist[i].dep /\ hist'[i].lost = hist[i].lost
    BY <2>1 DEF Local
  <2> HIDE DEF i
  <2>3. \A j \in 1 .. Len(hist) :
          /\ hist'[j].dep = hist[j].dep /\ hist'[j].dispatched = hist[j].dispatched
          /\ hist'[j].outcome = hist[j].outcome /\ hist'[j].lost = hist[j].lost
    BY <2>1, <2>2 DEF SameHistory
  <2>4. QED
    BY <1>4, <2>1, <2>2, <2>3
<1>9. ASSUME NEW w \in Workers, FreezeEvidence(w) PROVE Lives' = Lives
  BY <1>1, <1>4, <1>9, FreezeEffect DEF HistoriesSame, SameHistory
<1>10. ASSUME NEW w \in Workers, Dispatch(w) PROVE Promise!Next
  BY <1>10, DispatchIsAct DEF Promise!Next
<1>11. ASSUME NEW g \in goroutines, NEW result \in Results, Finish(g, result)
       PROVE  Promise!Next
  BY <1>11, FinishIsReturn DEF Promise!Next
<1>12. ASSUME Restart PROVE Promise!Next
  BY <1>12, RestartIsForget DEF Promise!Next
<1>13. ASSUME NEW w \in Workers, (BeginAttempt(w) /\ ~SkipQuiet(w)) \/ WorkerEnds(w)
       PROVE  worker[w].dep \in Deployments
  BY <1>1, <1>13, BeginFacts, WorkerEndEffect
<1>14. QED
  BY <1>3, <1>5, <1>6, <1>7, <1>8, <1>9, <1>10, <1>11, <1>12, <1>13, StepCases

(* The incident manager keeps its promise: whatever the order of            *)
(* reconciles, remediations, edits, stale or failed reads and restarts, a   *)
(* Deployment has one incident at a time, its actions come one after the    *)
(* other within the budget, it ends once, exhausted exactly when the budget *)
(* is spent, and does nothing after its end.                                *)
THEOREM PromiseIsKept == Spec => ImplementsPromise
<1>1. Init => Promise!Init
  <2> SUFFICES ASSUME Init PROVE Lives = <<>>
    BY DEF Promise!Init
  <2>1. Len(hist) = 0
    BY DEF Init
  <2>2. QED
    BY <2>1 DEF Lives
<1>2. LifeInv /\ [Next]_vars => [Promise!Next]_Lives
  BY StepIsPromised
<1>3. QED
  BY <1>1, <1>2, LifeInvariant, PTL DEF Spec, ImplementsPromise, Promise!Spec

-----------------------------------------------------------------------------
(* The terminal line. *)

(* closeIncidentIfTerminal appends at most one line. *)
LEMMA AuditGrows ==
  ASSUME ClaimInv, [Next]_vars
  PROVE  \A n \in 1 .. Len(audit) : n \in 1 .. Len(audit') /\ audit'[n] = audit[n]
<1> DEFINE Goal == \A n \in 1 .. Len(audit) : n \in 1 .. Len(audit') /\ audit'[n] = audit[n]
<1>1. TypeOK /\ audit \in Seq(Line) /\ Len(audit) \in Nat
  BY DEF ClaimInv, TypeOK
<1>2. ASSUME audit' = audit PROVE Goal
  BY <1>2
<1>3. ASSUME NEW d \in Deployments, closeIncidentIfTerminal(d) PROVE Goal
  <2> DEFINE new == [incident |-> incidents[d].id, outcome |-> incidents[d].terminalOutcome,
                     attempts |-> incidents[d].attemptCount]
  <2>1. CASE audit' = audit
    BY <1>2, <2>1
  <2>2. CASE audit' # audit
    <3>1. Terminal(incidents[d]) /\ audit' = Append(audit, new) /\ incidents[d] \in Record
      BY <1>1, <1>3, <2>2 DEF closeIncidentIfTerminal, TypeOK
    <3>2. new \in Line
      BY <3>1 DEF Line, Record, Terminal
    <3> HIDE DEF new
    <3>3. /\ Len(audit') = Len(audit) + 1
          /\ \A n \in 1 .. Len(audit) : audit'[n] = audit[n]
      BY <1>1, <3>1, <3>2, AppendInSeq
    <3>4. \A n \in 1 .. Len(audit) : n \in 1 .. Len(audit) + 1
      BY <1>1
    <3>5. QED
      BY <3>3, <3>4
  <2>3. QED
    BY <2>1, <2>2
<1>4. ASSUME NEW w \in Workers, CloseInReconcile(w) PROVE Goal
  <2>1. worker[w].dep \in Deployments
    BY <1>1, <1>4 DEF CloseInReconcile, TypeOK
  <2>2. QED
    BY <1>3, <1>4, <2>1 DEF CloseInReconcile
<1>5. ASSUME NEW g \in goroutines, CloseInGoroutine(g) PROVE Goal
  <2>1. g.dep \in Deployments
    BY <1>1 DEF TypeOK, Goroutine
  <2>2. QED
    BY <1>3, <1>5, <2>1 DEF CloseInGoroutine
<1>6. QED
  BY <1>2, <1>4, <1>5
     DEF Next, ReconcileStep, Return, Observe, BeginAttempt, SkipQuiet, SkipActive, Exhaust,
         Claim, EscalateBlind, ReuseEvidence, CollectEvidence, FreezeEvidence, Escalate, Reject,
         Dispatch, MoveSpec, Finish, HumanEdit, CacheSync, Tick, Restart, vars

(* How a worker comes to closeIncidentIfTerminal, or stays there. *)
Closer(v) ==
  /\ worker'[v].dep = worker[v].dep
  /\ \/ worker[v].pc = "close" /\ worker'[v].incident = worker[v].incident
     \/ Exhaust(v) /\ worker'[v].incident = Considered(v).id
     \/ WorkerEnds(v) /\ worker'[v].incident = worker[v].incident

LEMMA CloserCases ==
  ASSUME ClaimInv, [Next]_vars, NEW v \in Workers, worker'[v].pc = "close"
  PROVE  Closer(v) /\ ~Restart
<1>1. worker \in [Workers -> WorkerState] /\ IdleWorker.pc = "idle"
  BY DEF ClaimInv, TypeOK, IdleWorker
<1>2. ~Restart
  BY <1>1, RestartEffect
<1>3. CASE worker'[v] = worker[v]
  BY <1>2, <1>3 DEF Closer
<1>4. ASSUME NEW d \in Deployments, Observe(v, d) PROVE FALSE
  <2>1. PICK g : worker' = [worker EXCEPT ![v] =
                    [IdleWorker EXCEPT !.pc = "begin", !.dep = d, !.gen = g]]
    BY <1>4 DEF Observe
  <2>2. [IdleWorker EXCEPT !.pc = "begin", !.dep = d, !.gen = g].pc = "begin"
    BY DEF IdleWorker
  <2>3. QED
    BY <1>1, <2>1, <2>2
<1>5. CASE ReconcileStep(v)
  <2>1. ASSUME worker' = [worker EXCEPT ![v] = IdleWorker] PROVE FALSE
    BY <1>1, <2>1
  <2>2. CASE BeginAttempt(v)
    <3>1. CASE Exhaust(v)
      <4>1. /\ worker'[v].dep = worker[v].dep
            /\ worker'[v].incident = Considered(v).id
        BY <1>1, <3>1 DEF Exhaust, WorkerState
      <4>2. QED
        BY <1>2, <3>1, <4>1 DEF Closer
    <3>2. CASE Claim(v)
      <4>1. worker'[v].pc = "admitted"
        BY <1>1, <3>2 DEF Claim, WorkerState
      <4>2. QED
        BY <4>1
    <3>3. QED
      BY <2>1, <2>2, <3>1, <3>2 DEF BeginAttempt, SkipQuiet, SkipActive
  <2>3. CASE WorkerEnds(v)
    <3>1. worker' = [worker EXCEPT ![v].pc = "close"]
      BY <2>3 DEF WorkerEnds, EscalateBlind, Escalate, Reject
    <3>2. worker'[v].dep = worker[v].dep /\ worker'[v].incident = worker[v].incident
      BY <1>1, <3>1 DEF WorkerState
    <3>3. QED
      BY <1>2, <2>3, <3>2 DEF Closer
  <2>4. CASE ReuseEvidence(v)
    <3>1. worker'[v].pc = "classify"
      BY <1>1, <2>4 DEF ReuseEvidence, WorkerState
    <3>2. QED
      BY <3>1
  <2>5. CASE CollectEvidence(v)
    <3>1. worker'[v].pc = "freeze"
      BY <1>1, <2>5 DEF CollectEvidence, WorkerState
    <3>2. QED
      BY <3>1
  <2>6. CASE FreezeEvidence(v)
    <3>1. worker'[v].pc = "classify"
      BY <1>1, <2>6 DEF FreezeEvidence, WorkerState
    <3>2. QED
      BY <3>1
  <2>7. CASE Dispatch(v) \/ CloseInReconcile(v)
    BY <2>1, <2>7 DEF Dispatch, CloseInReconcile
  <2>8. QED
    BY <1>5, <2>2, <2>3, <2>4, <2>5, <2>6, <2>7 DEF ReconcileStep, WorkerEnds
<1>6. QED
  BY <1>2, <1>3, <1>4, <1>5, OwnStep

(* With one worker, the record it is about to log is still the one it ended.*)
OneWorker == \A v, w \in Workers : v = w

CloseKeeps ==
  \A w \in Workers : worker[w].pc = "close" =>
    /\ incidents[worker[w].dep].id = worker[w].incident
    /\ Terminal(incidents[worker[w].dep])
    /\ incidents[worker[w].dep].terminalOutcome # "recovered"

LEMMA CloseNext ==
  ASSUME ClaimInv, CloseKeeps, OneWorker, [Next]_vars
  PROVE  CloseKeeps'
<1> SUFFICES ASSUME NEW v \in Workers, worker'[v].pc = "close", NEW d, d = worker[v].dep
             PROVE  /\ incidents'[d].id = worker'[v].incident
                    /\ Present(incidents'[d]) /\ incidents'[d].terminalOutcome # ""
                    /\ incidents'[d].terminalOutcome # "recovered"
  <2>1. \A v \in Workers : worker'[v].pc = "close" => worker'[v].dep = worker[v].dep
    BY CloserCases DEF Closer
  <2>2. QED
    BY <2>1 DEF CloseKeeps, Terminal, Present
<1>1. Closer(v) /\ ~Restart
  BY CloserCases
<1>2. CASE Exhaust(v) /\ worker'[v].incident = Considered(v).id
  <2>1. BeginAttempt(v) /\ ~SkipQuiet(v) /\ ~Claim(v) /\ ~SkipActive(v)
    BY <1>2 DEF BeginAttempt, SkipQuiet, Exhaust, Claim, SkipActive
  <2>2. Active(incidents[d])
    BY <2>1, OpenEffect
  <2>3. /\ incidents'[d].id = Considered(v).id /\ Present(incidents[d])
        /\ incidents'[d].id = incidents[d].id
        /\ incidents'[d].terminalOutcome = "exhausted"
    BY <2>1, <2>2, ResumeEffect DEF Active
  <2>4. QED
    BY <1>2, <2>3 DEF Present
<1>3. CASE WorkerEnds(v) /\ worker'[v].incident = worker[v].incident
  <2>1. worker[v].incident = incidents[d].id /\ Active(incidents[d])
    BY <1>3, WorkerEndEffect
  <2>2. PICK o \in {"escalated", "rejected"} : \E bundles : EndsWith(d, o, bundles)
    BY <1>3, WorkerEndEffect
  <2>3. o \in TerminalOutcomes
    BY DEF TerminalOutcomes
  <2>4. incidents'[d].id = incidents[d].id /\ incidents'[d].terminalOutcome = o
    BY <2>2, <2>3 DEF EndsWith, Local
  <2>5. QED
    BY <1>3, <2>1, <2>4 DEF Present, Active
<1>4. CASE worker[v].pc = "close" /\ worker'[v].incident = worker[v].incident
  <2>1. /\ incidents[d].id = worker[v].incident /\ Present(incidents[d])
        /\ incidents[d].terminalOutcome # "" /\ incidents[d].terminalOutcome # "recovered"
        /\ d \in Deployments
    BY <1>4 DEF CloseKeeps, Terminal, ClaimInv, TypeOK
  <2> DEFINE Kept == /\ incidents'[d].id = incidents[d].id
                     /\ incidents'[d].terminalOutcome = incidents[d].terminalOutcome
  <2>2. ASSUME QuietStep PROVE Kept
    BY <2>1, <2>2, QuietEffect DEF AllSame, SameRecord
  <2>3. ASSUME Tick PROVE Kept
    BY <2>1, <2>3, TickEffect
  <2>4. ASSUME NEW w \in Workers,
               \/ BeginAttempt(w) /\ ~SkipQuiet(w)
               \/ WorkerEnds(w) \/ CollectEvidence(w) \/ FreezeEvidence(w) \/ Dispatch(w)
        PROVE  FALSE
    <3>1. w = v
      BY DEF OneWorker
    <3>2. worker[w].pc # "close"
      BY <2>4 DEF BeginAttempt, SkipQuiet, SkipActive, Exhaust, Claim, WorkerEnds, EscalateBlind,
                  Escalate, Reject, CollectEvidence, FreezeEvidence, Dispatch
    <3>3. QED
      BY <1>4, <3>1, <3>2
  <2>5. ASSUME NEW g \in goroutines, NEW result \in Results, Finish(g, result) PROVE Kept
    <3>1. g.dep \in Deployments /\ Active(incidents[g.dep]) /\ Local(g.dep)
      BY <2>5, FinishEffect DEF EndsWith
    <3>2. g.dep # d
      BY <2>1, <3>1 DEF Active
    <3>3. QED
      BY <2>1, <3>1, <3>2 DEF Local, OthersSame, SameRecord
  <2>6. Kept
    BY <1>1, <2>2, <2>3, <2>4, <2>5, StepCases
  <2>7. QED
    BY <1>4, <2>1, <2>6 DEF Present
<1>5. QED
  BY <1>1, <1>2, <1>3, <1>4 DEF Closer

LEMMA OneMore ==
  ASSUME NEW m \in Nat
  PROVE  \A j \in 1 .. m + 1 : j = m + 1 \/ j \in 1 .. m
  OBVIOUS

(* An incident that has ended without recovery did so before the step, or   *)
(* ends in it, in Reconcile.                                                *)
LEMMA NewlyEnded ==
  ASSUME ClaimInv, RecordInv, [Next]_vars, NEW i \in 1 .. Len(hist'),
         hist'[i].outcome # "", hist'[i].outcome # "recovered", ~hist'[i].lost
  PROVE  /\ ~Restart
         /\ \/ /\ i \in 1 .. Len(hist) /\ hist[i].outcome = hist'[i].outcome
               /\ hist[i].lost = hist'[i].lost
            \/ \E w \in Workers : Exhaust(w) /\ Considered(w).id = i
            \/ \E w \in Workers : WorkerEnds(w) /\ worker[w].incident = i
<1> DEFINE Before == /\ i \in 1 .. Len(hist) /\ hist[i].outcome = hist'[i].outcome
                     /\ hist[i].lost = hist'[i].lost
<1>1. ASSUME Restart PROVE FALSE
  <2>1. Len(hist') = Len(hist) /\ \A j \in 1 .. Len(hist) : hist'[j].lost = TRUE
    BY <1>1, RestartEffect
  <2>2. QED
    BY <2>1
<1>2. ASSUME HistoriesSame PROVE Before
  BY <1>2 DEF HistoriesSame, SameHistory
<1>3. ASSUME Tick PROVE Before
  <2>1. /\ Len(hist') = Len(hist)
        /\ \A j \in 1 .. Len(hist) : hist'[j].outcome = hist[j].outcome
                                    /\ hist'[j].lost = hist[j].lost
    BY <1>3, TickEffect
  <2>2. QED
    BY <2>1
<1>4. ASSUME NEW e \in Deployments, Local(e), i # incidents[e].id PROVE Before
  BY <1>4 DEF Local, SameHistory
<1>5. ASSUME NEW e \in Deployments, Local(e),
             hist'[incidents[e].id].outcome = hist[incidents[e].id].outcome
      PROVE  Before
  BY <1>5 DEF Local, SameHistory
<1>6. ASSUME NEW w \in Workers, BeginAttempt(w), ~SkipQuiet(w)
      PROVE  Before \/ (Exhaust(w) /\ Considered(w).id = i)
  <2> DEFINE d == worker[w].dep
  <2>1. CASE ~Active(incidents[d])
    <3>1. PICK n : n = Len(hist) + 1
      OBVIOUS
    <3>2. /\ Len(hist') = n /\ \A j \in 1 .. Len(hist) : SameHistory(j)
          /\ hist'[n].outcome = ""
      BY <1>6, <2>1, <3>1, OpenEffect
    <3>3. Len(hist) \in Nat
      BY Types
    <3>a. \A j \in 1 .. n : j = n \/ j \in 1 .. Len(hist)
      BY <3>1, <3>3, OneMore
    <3>4. i \in 1 .. Len(hist)
      BY <3>2, <3>a
    <3>5. QED
      BY <3>2, <3>4 DEF SameHistory
  <2>2. CASE Active(incidents[d])
    <3>1. CASE HistoriesSame
      BY <1>2, <3>1
    <3>2. CASE ~HistoriesSame
      <4>1. /\ Exhaust(w) /\ Considered(w).id = incidents[d].id
            /\ Len(hist') = Len(hist)
            /\ \A j \in (1 .. Len(hist)) \ {incidents[d].id} : SameHistory(j)
        BY <1>6, <2>2, <3>2, ResumeEffect
      <4>2. QED
        BY <4>1 DEF SameHistory
    <3>3. QED
      BY <3>1, <3>2
  <2>3. QED
    BY <2>1, <2>2
<1>7. ASSUME NEW w \in Workers, WorkerEnds(w) PROVE Before \/ worker[w].incident = i
  <2>1. /\ worker[w].dep \in Deployments /\ Local(worker[w].dep)
        /\ worker[w].incident = incidents[worker[w].dep].id
    BY <1>7, WorkerEndEffect DEF EndsWith
  <2>2. QED
    BY <1>4, <2>1
<1>8. ASSUME NEW w \in Workers, CollectEvidence(w) \/ Dispatch(w) PROVE Before
  <2>1. /\ Local(worker[w].dep)
        /\ hist'[incidents[worker[w].dep].id].outcome = hist[incidents[worker[w].dep].id].outcome
    BY <1>8, CollectEffect, DispatchEffect
  <2>2. worker[w].dep \in Deployments
    BY <2>1 DEF Local
  <2>3. QED
    BY <1>5, <2>1, <2>2
<1>9. ASSUME NEW w \in Workers, FreezeEvidence(w) PROVE Before
  BY <1>2, <1>9, FreezeEffect
<1>10. ASSUME NEW g \in goroutines, NEW result \in Results, Finish(g, result) PROVE Before
  <2>1. /\ g.dep \in Deployments
        /\ EndsWith(g.dep, result, hist[incidents[g.dep].id].classifiedOn)
        /\ result \in TerminalOutcomes => result = "recovered"
    BY <1>10, FinishEffect
  <2>2. Local(g.dep)
    BY <2>1 DEF EndsWith
  <2>3. CASE i # incidents[g.dep].id
    BY <1>4, <2>1, <2>2, <2>3
  <2>4. CASE i = incidents[g.dep].id
    <3>1. result \notin TerminalOutcomes
      BY <2>1, <2>4 DEF EndsWith
    <3>2. hist'[incidents[g.dep].id].outcome = hist[incidents[g.dep].id].outcome
      BY <2>1, <3>1 DEF EndsWith
    <3>3. QED
      BY <1>5, <2>1, <2>2, <3>2
  <2>5. QED
    BY <2>3, <2>4
<1>11. QED
  BY <1>1, <1>2, <1>3, <1>6, <1>7, <1>8, <1>9, <1>10, StepCases, QuietEffect DEF AllSame

Logged(i) ==
  \/ \E n \in 1 .. Len(audit) : audit[n].incident = i
  \/ \E w \in Workers : worker[w].pc = "close" /\ worker[w].incident = i

(* The line of an incident that is about to be logged gets written.         *)
LEMMA LoggedKept ==
  ASSUME ClaimInv, CloseKeeps, ~AuditMayFail, [Next]_vars, ~Restart, NEW i, Logged(i)
  PROVE  Logged(i)'
<1>1. CASE \E n \in 1 .. Len(audit) : audit[n].incident = i
  BY <1>1, AuditGrows DEF Logged
<1>2. ASSUME NEW v \in Workers, worker[v].pc = "close", worker[v].incident = i
      PROVE  Logged(i)'
  <2>1. CASE worker'[v] = worker[v]
    BY <1>2, <2>1 DEF Logged
  <2>2. CASE worker'[v] # worker[v]
    <3> DEFINE d == worker[v].dep
               new == [incident |-> incidents[d].id, outcome |-> incidents[d].terminalOutcome,
                       attempts |-> incidents[d].attemptCount]
    <3>1. CloseInReconcile(v)
      BY <1>2, <2>2, OwnStep DEF ReconcileStep, Observe, BeginAttempt, SkipQuiet, SkipActive,
         Exhaust, Claim, EscalateBlind, ReuseEvidence, CollectEvidence, FreezeEvidence, Escalate,
         Reject, Dispatch
    <3>2. /\ incidents[d].id = i /\ Terminal(incidents[d])
          /\ incidents[d].terminalOutcome # "recovered"
          /\ d \in Deployments /\ incidents[d] \in Record
      BY <1>2 DEF CloseKeeps, ClaimInv, TypeOK
    <3>3. audit' = Append(audit, new)
      BY <3>1, <3>2 DEF CloseInReconcile, closeIncidentIfTerminal
    <3>4. new \in Line /\ new.incident = i
      BY <3>2 DEF Line, Record, Terminal
    <3>5. audit \in Seq(Line) /\ Len(audit) \in Nat
      BY DEF ClaimInv, TypeOK
    <3> HIDE DEF new
    <3>6. Len(audit') = Len(audit) + 1 /\ audit'[Len(audit) + 1] = new
      BY <3>3, <3>4, <3>5, AppendInSeq
    <3>7. Len(audit) + 1 \in 1 .. Len(audit')
      BY <3>5, <3>6
    <3>8. QED
      BY <3>4, <3>6, <3>7 DEF Logged
  <2>3. QED
    BY <2>1, <2>2
<1>3. QED
  BY <1>1, <1>2 DEF Logged

LEMMA LoggedNext ==
  ASSUME ClaimInv, RecordInv, CloseKeeps, OneWorker, ~AuditMayFail, EndedIsLogged, [Next]_vars
  PROVE  EndedIsLogged'
<1> SUFFICES ASSUME NEW i \in 1 .. Len(hist'), ~hist'[i].lost,
                    hist'[i].outcome \in TerminalOutcomes, hist'[i].outcome # "recovered"
             PROVE  Logged(i)'
  BY DEF EndedIsLogged, Logged
<1>1. hist'[i].outcome # ""
  BY DEF TerminalOutcomes
<1>2. ~Restart
  BY <1>1, NewlyEnded
<1>3. worker \in [Workers -> WorkerState]
  BY DEF ClaimInv, TypeOK
<1>4. CASE /\ i \in 1 .. Len(hist) /\ hist[i].outcome = hist'[i].outcome
           /\ hist[i].lost = hist'[i].lost
  <2>1. Logged(i)
    BY <1>4 DEF EndedIsLogged, Logged
  <2>2. QED
    BY <1>2, <2>1, LoggedKept
<1>5. ASSUME NEW w \in Workers, Exhaust(w), Considered(w).id = i PROVE Logged(i)'
  <2>1. worker'[w].pc = "close" /\ worker'[w].incident = i
    BY <1>3, <1>5 DEF Exhaust, WorkerState
  <2>2. QED
    BY <2>1 DEF Logged
<1>6. ASSUME NEW w \in Workers, WorkerEnds(w), worker[w].incident = i PROVE Logged(i)'
  <2>1. worker' = [worker EXCEPT ![w].pc = "close"]
    BY <1>6 DEF WorkerEnds, EscalateBlind, Escalate, Reject
  <2>2. worker'[w].pc = "close" /\ worker'[w].incident = i
    BY <1>3, <1>6, <2>1 DEF WorkerState
  <2>3. QED
    BY <2>2 DEF Logged
<1>7. QED
  BY <1>1, <1>4, <1>5, <1>6, NewlyEnded

(* With one reconcile worker (controller-runtime's default) and an audit    *)
(* file that accepts writes, an incident that ended without recovery has    *)
(* its terminal line, or the worker that ended it is about to write it.     *)
THEOREM EndIsLogged ==
  ASSUME OneWorker, ~AuditMayFail
  PROVE  Spec => []EndedIsLogged
<1>1. Init => CloseKeeps /\ EndedIsLogged
  <2> SUFFICES ASSUME Init PROVE CloseKeeps /\ EndedIsLogged
    OBVIOUS
  <2>1. (\A w \in Workers : worker[w] = IdleWorker) /\ Len(hist) = 0
    BY DEF Init
  <2>2. IdleWorker.pc # "close"
    BY DEF IdleWorker
  <2>3. QED
    BY <2>1, <2>2 DEF CloseKeeps, EndedIsLogged
<1>2. LifeInv /\ CloseKeeps /\ EndedIsLogged /\ [Next]_vars => CloseKeeps' /\ EndedIsLogged'
  <2> SUFFICES ASSUME LifeInv, CloseKeeps, EndedIsLogged, [Next]_vars
               PROVE  CloseKeeps' /\ EndedIsLogged'
    OBVIOUS
  <2>1. ClaimInv /\ RecordInv
    BY DEF LifeInv
  <2>2. QED
    BY <2>1, CloseNext, LoggedNext
<1>3. QED
  BY <1>1, <1>2, LifeInvariant, PTL DEF Spec

=============================================================================
