--------------------------- MODULE IncidentProofs ---------------------------
(***************************************************************************)
(* Proofs about Incident, for any set of Deployments and of workers, any   *)
(* budget, backoff, cooldown and bounds.                                   *)
(***************************************************************************)
EXTENDS Incident, TLAPS

(* A function on 1 .. n is a sequence of length n. *)
LEMMA FunctionIsSeq ==
  ASSUME NEW S, NEW n \in Nat, NEW f \in [1 .. n -> S]
  PROVE  f \in Seq(S) /\ Len(f) = n
  OBVIOUS

(* Replacing one element of a sequence, wherever the index points, leaves a *)
(* sequence over the same set and of the same length.                       *)
LEMMA ExceptInSeq ==
  ASSUME NEW S, NEW s \in Seq(S), NEW i,
         NEW e, i \in 1 .. Len(s) => e \in S
  PROVE  /\ [s EXCEPT ![i] = e] \in Seq(S)
         /\ Len([s EXCEPT ![i] = e]) = Len(s)
<1>1. s \in [1 .. Len(s) -> S] /\ Len(s) \in Nat
  OBVIOUS
<1>2. [s EXCEPT ![i] = e] \in [1 .. Len(s) -> S]
  BY <1>1
<1>3. QED
  BY <1>1, <1>2, FunctionIsSeq

(* Appending to a sequence of S. *)
LEMMA AppendInSeq ==
  ASSUME NEW S, NEW s \in Seq(S), NEW e \in S
  PROVE  /\ Append(s, e) \in Seq(S)
         /\ Len(Append(s, e)) = Len(s) + 1
         /\ \A i \in 1 .. Len(s) : Append(s, e)[i] = s[i]
         /\ Append(s, e)[Len(s) + 1] = e
  OBVIOUS

(* Ages are natural numbers. *)
LEMMA OlderIsNat ==
  ASSUME NEW age \in Nat
  PROVE  Older(age) \in Nat
  BY DEF Older

-----------------------------------------------------------------------------
(* Type correctness. *)

(* A fresh record is a record. *)
LEMMA NewRecordType ==
  ASSUME NEW id \in Nat
  PROVE  NewRecord(id) \in Record
  BY DEF NewRecord, Record

(* What beginAttempt, endAttempt and the clock make of a record is one. *)
LEMMA RecordOperators ==
  ASSUME NEW record \in Record
  PROVE  /\ Decided(record) \in Record
         /\ \A outcome \in TerminalOutcomes \union Results : Released(record, outcome) \in Record
         /\ Aged(record) \in Record
<1>1. Decided(record) \in Record
  <2>1. Decision(record) \in {"skip", "exhausted", "proceed"}
    BY DEF Decision
  <2>2. QED
    BY <2>1 DEF Decided, Record, TerminalOutcomes
<1>2. ASSUME NEW outcome \in TerminalOutcomes \union Results
      PROVE  Released(record, outcome) \in Record
  BY DEF Released, Record, TerminalOutcomes, Results
<1>3. Aged(record) \in Record
  <2>1. record.sinceAttempt \in Nat /\ record.sinceTerminal \in Nat
    BY DEF Record
  <2>2. Older(record.sinceAttempt) \in Nat /\ Older(record.sinceTerminal) \in Nat
    BY <2>1, OlderIsNat
  <2>3. QED
    BY <2>2 DEF Aged, Record
<1>4. QED
  BY <1>1, <1>2, <1>3

(* The record beginAttempt decides on and the histories it leaves. *)
LEMMA ConsideredType ==
  ASSUME TypeOK, NEW w \in Workers, worker[w].dep \in Deployments
  PROVE  /\ Considered(w) \in Record
         /\ Opened(w) \in Seq(History)
<1> DEFINE d == worker[w].dep
           g == worker[w].gen
<1>1. /\ incidents[d] \in Record /\ g \in Nat /\ hist \in Seq(History) /\ Len(hist) \in Nat
      /\ generation[d] \in 1 .. MaxGeneration
  BY DEF TypeOK, WorkerState
<1>2. NewRecord(Len(hist) + 1) \in Record
  BY <1>1, NewRecordType
<1>3. Considered(w) \in Record
  BY <1>1, <1>2 DEF Considered, Record
<1>4. NewHistory(d, g # generation[d]) \in History
  BY DEF NewHistory, History
<1>5. Opened(w) \in Seq(History)
  BY <1>1, <1>4, AppendInSeq DEF Opened
<1>6. QED
  BY <1>3, <1>5

(* Every variable has its type, initially and after every step. *)
LEMMA TypeInit == Init => TypeOK
<1> SUFFICES ASSUME Init PROVE TypeOK
  OBVIOUS
<1>1. Missing \in Record
  BY NewRecordType DEF Missing
<1>2. IdleWorker \in WorkerState
  BY DEF IdleWorker, WorkerState, WorkerPCs
<1>3. <<>> \in Seq(Line) /\ <<>> \in Seq(History)
  OBVIOUS
<1>4. QED
  BY <1>1, <1>2, <1>3, ConstantsAssumption DEF Init, TypeOK, IdleWorker

(* Rewriting one history: the others are untouched, whatever the index. *)
LEMMA HistoryExcept ==
  ASSUME NEW h \in Seq(History), NEW i, NEW e,
         i \in 1 .. Len(h) => e \in History
  PROVE  /\ [h EXCEPT ![i] = e] \in Seq(History)
         /\ Len([h EXCEPT ![i] = e]) = Len(h)
         /\ \A j \in 1 .. Len(h) : [h EXCEPT ![i] = e][j] = IF j = i THEN e ELSE h[j]
<1>1. h \in [1 .. Len(h) -> History]
  OBVIOUS
<1>2. QED
  BY <1>1, ExceptInSeq

(* The outcome of incident i is noted. *)
WithOutcome(h, i, o) == [h EXCEPT ![i].outcome = o]

LEMMA OutcomeNoted ==
  ASSUME NEW h \in Seq(History), NEW i, NEW o \in TerminalOutcomes
  PROVE  /\ WithOutcome(h, i, o) \in Seq(History)
         /\ Len(WithOutcome(h, i, o)) = Len(h)
         /\ \A j \in 1 .. Len(h) :
              /\ WithOutcome(h, i, o)[j].dep = h[j].dep
              /\ WithOutcome(h, i, o)[j].lost = h[j].lost
              /\ WithOutcome(h, i, o)[j].dispatched = h[j].dispatched
              /\ WithOutcome(h, i, o)[j].collected = h[j].collected
              /\ WithOutcome(h, i, o)[j].classifiedOn = h[j].classifiedOn
              /\ WithOutcome(h, i, o)[j].quietFor = h[j].quietFor
              /\ WithOutcome(h, i, o)[j].outcome = IF j = i THEN o ELSE h[j].outcome
<1> DEFINE v == o
           e == [h[i] EXCEPT !.outcome = v]
           h2 == [h EXCEPT ![i] = e]
<1>1. \A j \in 1 .. Len(h) : h[j] \in History
  OBVIOUS
<1>2. i \in 1 .. Len(h) => v \in TerminalOutcomes \union {""}
  BY DEF TerminalOutcomes
<1> HIDE DEF v
<1>3. ASSUME i \in 1 .. Len(h)
      PROVE  /\ [h[i] EXCEPT !.outcome = v] \in History
             /\ [h[i] EXCEPT !.outcome = v].outcome = v
             /\ [h[i] EXCEPT !.outcome = v].dep = h[i].dep
             /\ [h[i] EXCEPT !.outcome = v].lost = h[i].lost
             /\ [h[i] EXCEPT !.outcome = v].dispatched = h[i].dispatched
             /\ [h[i] EXCEPT !.outcome = v].collected = h[i].collected
             /\ [h[i] EXCEPT !.outcome = v].classifiedOn = h[i].classifiedOn
             /\ [h[i] EXCEPT !.outcome = v].quietFor = h[i].quietFor
  <2>1. h[i] \in History /\ v \in TerminalOutcomes \union {""}
    BY <1>1, <1>2, <1>3
  <2>2. QED
    BY <2>1 DEF History
<1>4. /\ h2 \in Seq(History)
      /\ Len(h2) = Len(h)
      /\ \A j \in 1 .. Len(h) : h2[j] = IF j = i THEN e ELSE h[j]
  BY <1>3, HistoryExcept
<1>5. WithOutcome(h, i, o) = h2
  BY DEF WithOutcome, v
<1> HIDE DEF h2
<1>6. QED
  BY <1>3, <1>4, <1>5 DEF v

(* An attempt of incident i has just ended. *)
WithAttemptEnd(h, i) == [h EXCEPT ![i].quietFor = 0]

LEMMA AttemptEndNoted ==
  ASSUME NEW h \in Seq(History), NEW i
  PROVE  /\ WithAttemptEnd(h, i) \in Seq(History)
         /\ Len(WithAttemptEnd(h, i)) = Len(h)
         /\ \A j \in 1 .. Len(h) :
              /\ WithAttemptEnd(h, i)[j].dep = h[j].dep
              /\ WithAttemptEnd(h, i)[j].lost = h[j].lost
              /\ WithAttemptEnd(h, i)[j].dispatched = h[j].dispatched
              /\ WithAttemptEnd(h, i)[j].collected = h[j].collected
              /\ WithAttemptEnd(h, i)[j].classifiedOn = h[j].classifiedOn
              /\ WithAttemptEnd(h, i)[j].outcome = h[j].outcome
              /\ WithAttemptEnd(h, i)[j].quietFor = IF j = i THEN 0 ELSE h[j].quietFor
<1> DEFINE v == 0
           e == [h[i] EXCEPT !.quietFor = v]
           h2 == [h EXCEPT ![i] = e]
<1>1. \A j \in 1 .. Len(h) : h[j] \in History
  OBVIOUS
<1>2. i \in 1 .. Len(h) => v \in Nat
  OBVIOUS
<1> HIDE DEF v
<1>3. ASSUME i \in 1 .. Len(h)
      PROVE  /\ [h[i] EXCEPT !.quietFor = v] \in History
             /\ [h[i] EXCEPT !.quietFor = v].quietFor = v
             /\ [h[i] EXCEPT !.quietFor = v].dep = h[i].dep
             /\ [h[i] EXCEPT !.quietFor = v].lost = h[i].lost
             /\ [h[i] EXCEPT !.quietFor = v].dispatched = h[i].dispatched
             /\ [h[i] EXCEPT !.quietFor = v].collected = h[i].collected
             /\ [h[i] EXCEPT !.quietFor = v].classifiedOn = h[i].classifiedOn
             /\ [h[i] EXCEPT !.quietFor = v].outcome = h[i].outcome
  <2>1. h[i] \in History /\ v \in Nat
    BY <1>1, <1>2, <1>3
  <2>2. QED
    BY <2>1 DEF History
<1>4. /\ h2 \in Seq(History)
      /\ Len(h2) = Len(h)
      /\ \A j \in 1 .. Len(h) : h2[j] = IF j = i THEN e ELSE h[j]
  BY <1>3, HistoryExcept
<1>5. WithAttemptEnd(h, i) = h2
  BY DEF WithAttemptEnd, v
<1> HIDE DEF h2
<1>6. QED
  BY <1>3, <1>4, <1>5 DEF v

(* Another bundle of evidence is collected for incident i. *)
WithCollected(h, i, n) == [h EXCEPT ![i].collected = n]

LEMMA CollectionNoted ==
  ASSUME NEW h \in Seq(History), NEW i, NEW n \in Nat
  PROVE  /\ WithCollected(h, i, n) \in Seq(History)
         /\ Len(WithCollected(h, i, n)) = Len(h)
         /\ \A j \in 1 .. Len(h) :
              /\ WithCollected(h, i, n)[j].dep = h[j].dep
              /\ WithCollected(h, i, n)[j].lost = h[j].lost
              /\ WithCollected(h, i, n)[j].dispatched = h[j].dispatched
              /\ WithCollected(h, i, n)[j].classifiedOn = h[j].classifiedOn
              /\ WithCollected(h, i, n)[j].quietFor = h[j].quietFor
              /\ WithCollected(h, i, n)[j].outcome = h[j].outcome
              /\ WithCollected(h, i, n)[j].collected = IF j = i THEN n ELSE h[j].collected
<1> DEFINE v == n
           e == [h[i] EXCEPT !.collected = v]
           h2 == [h EXCEPT ![i] = e]
<1>1. \A j \in 1 .. Len(h) : h[j] \in History
  OBVIOUS
<1>2. i \in 1 .. Len(h) => v \in Nat
  OBVIOUS
<1> HIDE DEF v
<1>3. ASSUME i \in 1 .. Len(h)
      PROVE  /\ [h[i] EXCEPT !.collected = v] \in History
             /\ [h[i] EXCEPT !.collected = v].collected = v
             /\ [h[i] EXCEPT !.collected = v].dep = h[i].dep
             /\ [h[i] EXCEPT !.collected = v].lost = h[i].lost
             /\ [h[i] EXCEPT !.collected = v].dispatched = h[i].dispatched
             /\ [h[i] EXCEPT !.collected = v].classifiedOn = h[i].classifiedOn
             /\ [h[i] EXCEPT !.collected = v].quietFor = h[i].quietFor
             /\ [h[i] EXCEPT !.collected = v].outcome = h[i].outcome
  <2>1. h[i] \in History /\ v \in Nat
    BY <1>1, <1>2, <1>3
  <2>2. QED
    BY <2>1 DEF History
<1>4. /\ h2 \in Seq(History)
      /\ Len(h2) = Len(h)
      /\ \A j \in 1 .. Len(h) : h2[j] = IF j = i THEN e ELSE h[j]
  BY <1>3, HistoryExcept
<1>5. WithCollected(h, i, n) = h2
  BY DEF WithCollected, v
<1> HIDE DEF h2
<1>6. QED
  BY <1>3, <1>4, <1>5 DEF v

(* A history classified on one more bundle. *)
LEMMA ClassifiedOnFacts ==
  ASSUME NEW h \in History, NEW b \in Nat
  PROVE  /\ ClassifiedOn(h, b) \in History
         /\ ClassifiedOn(h, b).dep = h.dep
         /\ ClassifiedOn(h, b).lost = h.lost
         /\ ClassifiedOn(h, b).dispatched = h.dispatched
         /\ ClassifiedOn(h, b).collected = h.collected
         /\ ClassifiedOn(h, b).quietFor = h.quietFor
         /\ ClassifiedOn(h, b).outcome = h.outcome
         /\ ClassifiedOn(h, b).classifiedOn = h.classifiedOn \union {b}
<1>1. h.classifiedOn \union {b} \in SUBSET Nat
  BY DEF History
<1>2. QED
  BY <1>1 DEF ClassifiedOn, History

(* An action of incident i is dispatched. *)
WithDispatch(h, i) == [h EXCEPT ![i].dispatched = @ + 1]

LEMMA DispatchNoted ==
  ASSUME NEW h \in Seq(History), NEW i
  PROVE  /\ WithDispatch(h, i) \in Seq(History)
         /\ Len(WithDispatch(h, i)) = Len(h)
         /\ \A j \in 1 .. Len(h) :
              /\ WithDispatch(h, i)[j].dep = h[j].dep
              /\ WithDispatch(h, i)[j].lost = h[j].lost
              /\ WithDispatch(h, i)[j].collected = h[j].collected
              /\ WithDispatch(h, i)[j].classifiedOn = h[j].classifiedOn
              /\ WithDispatch(h, i)[j].quietFor = h[j].quietFor
              /\ WithDispatch(h, i)[j].outcome = h[j].outcome
              /\ WithDispatch(h, i)[j].dispatched
                   = IF j = i THEN h[j].dispatched + 1 ELSE h[j].dispatched
<1> DEFINE v == h[i].dispatched + 1
           e == [h[i] EXCEPT !.dispatched = v]
           h2 == [h EXCEPT ![i] = e]
<1>1. \A j \in 1 .. Len(h) : h[j] \in History
  OBVIOUS
<1>2. i \in 1 .. Len(h) => v \in Nat
  <2>1. \A r \in History : r.dispatched \in Nat
    BY DEF History
  <2>2. QED
    BY <1>1, <2>1
<1> HIDE DEF v
<1>3. ASSUME i \in 1 .. Len(h)
      PROVE  /\ [h[i] EXCEPT !.dispatched = v] \in History
             /\ [h[i] EXCEPT !.dispatched = v].dispatched = v
             /\ [h[i] EXCEPT !.dispatched = v].dep = h[i].dep
             /\ [h[i] EXCEPT !.dispatched = v].lost = h[i].lost
             /\ [h[i] EXCEPT !.dispatched = v].collected = h[i].collected
             /\ [h[i] EXCEPT !.dispatched = v].classifiedOn = h[i].classifiedOn
             /\ [h[i] EXCEPT !.dispatched = v].quietFor = h[i].quietFor
             /\ [h[i] EXCEPT !.dispatched = v].outcome = h[i].outcome
  <2>1. h[i] \in History /\ v \in Nat
    BY <1>1, <1>2, <1>3
  <2>2. QED
    BY <2>1 DEF History
<1>4. /\ h2 \in Seq(History)
      /\ Len(h2) = Len(h)
      /\ \A j \in 1 .. Len(h) : h2[j] = IF j = i THEN e ELSE h[j]
  BY <1>3, HistoryExcept
<1>5. WithDispatch(h, i) = h2
  BY DEF WithDispatch, v
<1> HIDE DEF h2
<1>6. QED
  BY <1>3, <1>4, <1>5 DEF v

(* endAttempt keeps the types of the record and of the histories it writes. *)
LEMMA EndAttemptType ==
  ASSUME TypeOK, NEW d \in Deployments, NEW inc, NEW h \in Seq(History),
         NEW outcome \in TerminalOutcomes \union Results,
         endAttempt(d, inc, outcome, h)
  PROVE  /\ incidents' \in [Deployments -> Record]
         /\ hist' \in Seq(History)
         /\ Len(hist') = Len(h)
         /\ \A j \in 1 .. Len(h) : /\ hist'[j].dep = h[j].dep
                                   /\ hist'[j].dispatched = h[j].dispatched
                                   /\ hist'[j].collected = h[j].collected
                                   /\ hist'[j].classifiedOn = h[j].classifiedOn
                                   /\ hist'[j].lost = h[j].lost
         /\ Present(incidents[d]) /\ outcome \in TerminalOutcomes =>
              \A j \in 1 .. Len(h) :
                /\ hist'[j].quietFor = h[j].quietFor
                /\ hist'[j].outcome = IF j = incidents[d].id THEN outcome ELSE h[j].outcome
         /\ Present(incidents[d]) /\ outcome \notin TerminalOutcomes =>
              \A j \in 1 .. Len(h) :
                /\ hist'[j].outcome = h[j].outcome
                /\ hist'[j].quietFor = IF j = inc THEN 0 ELSE h[j].quietFor
<1>1. incidents[d] \in Record
  BY DEF TypeOK
<1>2. Released(incidents[d], outcome) \in Record
  BY <1>1, RecordOperators
<1>3. incidents' \in [Deployments -> Record]
  BY <1>2 DEF endAttempt, TypeOK
<1>4. CASE outcome \in TerminalOutcomes /\ Present(incidents[d])
  <2>1. hist' = [h EXCEPT ![incidents[d].id].outcome = outcome]
    BY <1>4 DEF endAttempt
  <2>2. hist' = WithOutcome(h, incidents[d].id, outcome)
    BY <2>1 DEF WithOutcome
  <2>3. QED
    BY <1>3, <1>4, <2>2, OutcomeNoted
<1>5. CASE outcome \notin TerminalOutcomes /\ Present(incidents[d])
  <2>1. hist' = [h EXCEPT ![inc].quietFor = 0]
    BY <1>5 DEF endAttempt
  <2>2. hist' = WithAttemptEnd(h, inc)
    BY <2>1 DEF WithAttemptEnd
  <2>3. QED
    BY <1>3, <1>5, <2>2, AttemptEndNoted
<1>6. CASE ~Present(incidents[d])
  BY <1>3, <1>6 DEF endAttempt
<1>7. QED
  BY <1>4, <1>5, <1>6

(* closeIncidentIfTerminal appends a line of a terminal record. *)
LEMMA CloseType ==
  ASSUME TypeOK, NEW d \in Deployments, closeIncidentIfTerminal(d)
  PROVE  audit' \in Seq(Line)
<1> DEFINE line == [incident |-> incidents[d].id, outcome |-> incidents[d].terminalOutcome,
                    attempts |-> incidents[d].attemptCount]
<1>1. incidents[d] \in Record
  BY DEF TypeOK
<1>2. Terminal(incidents[d]) => line \in Line
  BY <1>1 DEF Terminal, Record, Line
<1>3. audit' = audit \/ (Terminal(incidents[d]) /\ audit' = Append(audit, line))
  BY DEF closeIncidentIfTerminal
<1>4. audit \in Seq(Line)
  BY DEF TypeOK
<1>5. CASE Terminal(incidents[d]) /\ audit' = Append(audit, line)
  <2>1. Append(audit, line) \in Seq(Line)
    BY <1>2, <1>4, <1>5, AppendInSeq
  <2>2. QED
    BY <1>5, <2>1
<1>6. QED
  BY <1>3, <1>4, <1>5

(* Ids are issued in order: a record's id is one of hist, where its own     *)
(* Deployment is noted.                                                     *)
IdsIssued ==
  \A d \in Deployments :
    /\ incidents[d].id <= Len(hist)
    /\ Present(incidents[d]) => hist[incidents[d].id].dep = d

(* Classification adds the worker's bundle to its incident's history. *)
LEMMA ClassifiedFacts ==
  ASSUME TypeOK, NEW w \in Workers
  PROVE  /\ Classified(w) \in Seq(History)
         /\ Len(Classified(w)) = Len(hist)
         /\ \A j \in 1 .. Len(hist) :
              /\ Classified(w)[j].dep = hist[j].dep
              /\ Classified(w)[j].dispatched = hist[j].dispatched
              /\ Classified(w)[j].collected = hist[j].collected
              /\ Classified(w)[j].quietFor = hist[j].quietFor
              /\ Classified(w)[j].outcome = hist[j].outcome
              /\ Classified(w)[j].lost = hist[j].lost
              /\ Classified(w)[j].classifiedOn
                   = IF j = worker[w].incident
                     THEN hist[j].classifiedOn \union {worker[w].bundle}
                     ELSE hist[j].classifiedOn
<1> DEFINE i == worker[w].incident
           b == worker[w].bundle
           e == ClassifiedOn(hist[i], b)
<1>1. b \in Nat /\ hist \in Seq(History) /\ \A j \in 1 .. Len(hist) : hist[j] \in History
  BY DEF TypeOK, WorkerState
<1>2. i \in 1 .. Len(hist) =>
        /\ e \in History
        /\ e.dep = hist[i].dep /\ e.dispatched = hist[i].dispatched
        /\ e.collected = hist[i].collected /\ e.quietFor = hist[i].quietFor
        /\ e.outcome = hist[i].outcome /\ e.lost = hist[i].lost
        /\ e.classifiedOn = hist[i].classifiedOn \union {b}
  BY <1>1, ClassifiedOnFacts
<1>3. Classified(w) = [hist EXCEPT ![i] = e]
  BY DEF Classified
<1>a. i \in 1 .. Len(hist) => e \in History
  BY <1>2
<1> HIDE DEF e, i
<1>4. /\ Classified(w) \in Seq(History)
      /\ Len(Classified(w)) = Len(hist)
      /\ \A j \in 1 .. Len(hist) : Classified(w)[j] = IF j = i THEN e ELSE hist[j]
  BY <1>1, <1>a, <1>3, HistoryExcept
<1>5. QED
  BY <1>2, <1>4 DEF i

(* One step keeps every variable in its type.  CollectEvidence reads the    *)
(* history of the worker's incident, which exists because the claim keeps   *)
(* its incident.                                                            *)
LEMMA TypeNext ==
  ASSUME TypeOK, IdsIssued, ClaimKeepsIncident, [Next]_vars
  PROVE  TypeOK'
<1> USE DEF TypeOK
<1>a. \A i \in 1 .. Len(hist) : hist[i] \in History
  OBVIOUS
<1>b. Len(hist) \in Nat
  OBVIOUS
<1>0. IdleWorker \in WorkerState /\ IdleWorker.pc = "idle"
  BY DEF IdleWorker, WorkerState, WorkerPCs
<1>1. ASSUME NEW w \in Workers, NEW d \in Deployments, Observe(w, d)
      PROVE  TypeOK'
  <2>1. PICK g \in {cached[d], 0} :
          worker' = [worker EXCEPT ![w] =
                       [IdleWorker EXCEPT !.pc = "begin", !.dep = d, !.gen = g]]
    BY <1>1 DEF Observe
  <2>2. g \in Nat
    BY ConstantsAssumption
  <2>3. [IdleWorker EXCEPT !.pc = "begin", !.dep = d, !.gen = g] \in WorkerState
    BY <2>2 DEF IdleWorker, WorkerState, WorkerPCs
  <2>4. [IdleWorker EXCEPT !.pc = "begin", !.dep = d, !.gen = g].dep = d
    BY DEF IdleWorker
  <2>5. QED
    BY <1>1, <2>1, <2>3, <2>4 DEF Observe
<1>2. ASSUME NEW w \in Workers, BeginAttempt(w)
      PROVE  TypeOK'
  <2>1. worker[w].pc = "begin" /\ worker[w].dep \in Deployments
    BY <1>2 DEF BeginAttempt, SkipQuiet, SkipActive, Exhaust, Claim
  <2>2. Considered(w) \in Record /\ Opened(w) \in Seq(History)
    BY <2>1, ConsideredType
  <2>3. Decided(Considered(w)) \in Record /\ Considered(w).id \in Nat
    BY <2>2, RecordOperators DEF Record
  <2>4. CASE SkipQuiet(w)
    BY <2>4, <1>0 DEF SkipQuiet
  <2>5. CASE SkipActive(w)
    BY <2>5, <1>0, <2>1, <2>2, <2>3 DEF SkipActive
  <2>6. CASE Exhaust(w)
    <3>1. hist' \in Seq(History)
      <4>1. hist' = WithOutcome(Opened(w), Considered(w).id, "exhausted")
        BY <2>6 DEF Exhaust, WithOutcome
      <4>2. QED
        BY <2>2, <4>1, OutcomeNoted DEF TerminalOutcomes
    <3>2. QED
      BY <2>6, <3>1, <2>1, <2>3 DEF Exhaust, WorkerState, WorkerPCs
  <2>7. CASE Claim(w)
    BY <2>7, <2>1, <2>2, <2>3 DEF Claim, WorkerState, WorkerPCs
  <2>8. QED
    BY <1>2, <2>4, <2>5, <2>6, <2>7 DEF BeginAttempt
<1>3. ASSUME NEW w \in Workers, EscalateBlind(w)
      PROVE  TypeOK'
  <2>1. worker[w].dep \in Deployments
    BY <1>3 DEF EscalateBlind
  <2>2. incidents' \in [Deployments -> Record] /\ hist' \in Seq(History)
    BY <1>3, <2>1, EndAttemptType DEF EscalateBlind, TerminalOutcomes
  <2>3. QED
    BY <1>3, <2>1, <2>2 DEF EscalateBlind, WorkerState, WorkerPCs
<1>4. ASSUME NEW w \in Workers, ReuseEvidence(w)
      PROVE  TypeOK'
  <2>1. worker[w].dep \in Deployments
    BY <1>4 DEF ReuseEvidence
  <2>2. incidents[worker[w].dep].evidence \in Nat
    BY <2>1 DEF Record
  <2>3. QED
    BY <1>4, <2>1, <2>2 DEF ReuseEvidence, WorkerState, WorkerPCs
<1>5. ASSUME NEW w \in Workers, CollectEvidence(w)
      PROVE  TypeOK'
  <2>0. worker[w].incident \in 1 .. Len(hist)
    <3>1. worker[w].dep \in Deployments /\ worker[w].pc \in HoldingPCs
      BY <1>5 DEF CollectEvidence, HoldingPCs
    <3>2. /\ incidents[worker[w].dep].id = worker[w].incident
          /\ Present(incidents[worker[w].dep])
      BY <3>1 DEF ClaimKeepsIncident, Active
    <3>3. incidents[worker[w].dep].id \in Nat
      BY <3>1 DEF Record
    <3>4. QED
      BY <1>b, <3>1, <3>2, <3>3 DEF IdsIssued, Present
  <2>1. hist[worker[w].incident].collected + 1 \in Nat
    <3>1. hist[worker[w].incident] \in History
      BY <1>a, <2>0
    <3>2. \A r \in History : r.collected \in Nat
      BY DEF History
    <3>3. QED
      BY <3>1, <3>2
  <2>2. hist' \in Seq(History)
    <3>1. hist' = WithCollected(hist, worker[w].incident,
                                hist[worker[w].incident].collected + 1)
      BY <1>5 DEF CollectEvidence, WithCollected
    <3>2. QED
      BY <2>1, <3>1, CollectionNoted
  <2>3. QED
    BY <1>5, <2>1, <2>2 DEF CollectEvidence, WorkerState, WorkerPCs
<1>6. ASSUME NEW w \in Workers, FreezeEvidence(w)
      PROVE  TypeOK'
  <2>1. worker[w].dep \in Deployments /\ worker[w].bundle \in Nat
    BY <1>6 DEF FreezeEvidence, WorkerState
  <2>2. incidents' \in [Deployments -> Record]
    <3>1. [incidents[worker[w].dep] EXCEPT !.evidence = worker[w].bundle] \in Record
      BY <2>1 DEF Record
    <3>2. QED
      BY <1>6, <2>1, <3>1 DEF FreezeEvidence, freezeEvidence
  <2>3. QED
    BY <1>6, <2>1, <2>2 DEF FreezeEvidence, WorkerState, WorkerPCs
<1>7. ASSUME NEW w \in Workers, worker[w].pc = "classify"
      PROVE  worker[w].dep \in Deployments /\ Classified(w) \in Seq(History)
  BY <1>7, ClassifiedFacts
<1>8. ASSUME NEW w \in Workers, Escalate(w) \/ Reject(w)
      PROVE  TypeOK'
  <2>1. worker[w].dep \in Deployments /\ Classified(w) \in Seq(History)
    BY <1>7, <1>8 DEF Escalate, Reject
  <2>2. incidents' \in [Deployments -> Record] /\ hist' \in Seq(History)
    BY <1>8, <2>1, EndAttemptType DEF Escalate, Reject, TerminalOutcomes
  <2>3. QED
    BY <1>8, <2>1, <2>2 DEF Escalate, Reject, WorkerState, WorkerPCs
<1>9. ASSUME NEW w \in Workers, Dispatch(w)
      PROVE  TypeOK'
  <2> DEFINE d == worker[w].dep
             attempt == IF Present(incidents[d]) THEN incidents[d].attemptCount + 1 ELSE 0
  <2>1. d \in Deployments /\ Classified(w) \in Seq(History)
    BY <1>7, <1>9 DEF Dispatch
  <2>2. attempt \in Nat
    <3>1. \A r \in Record : r.attemptCount \in Nat
      BY DEF Record
    <3>2. QED
      BY <2>1, <3>1
  <2>3. incidents' \in [Deployments -> Record]
    <3>1. ASSUME NEW n \in Nat PROVE [incidents[d] EXCEPT !.attemptCount = n] \in Record
      BY <2>1 DEF Record
    <3>2. QED
      BY <1>9, <2>1, <2>2, <3>1 DEF Dispatch
  <2>4. hist' \in Seq(History)
    <3>1. hist' = WithDispatch(Classified(w), worker[w].incident)
      BY <1>9 DEF Dispatch, WithDispatch
    <3>2. QED
      BY <2>1, <3>1, DispatchNoted
  <2>5. [dep |-> d, incident |-> worker[w].incident, attempt |-> attempt,
         pc |-> "remediate", moves |-> 0] \in Goroutine
    BY <2>1, <2>2 DEF Goroutine, WorkerState
  <2>6. goroutines' \subseteq Goroutine
    BY <1>9, <2>5 DEF Dispatch
  <2>7. QED
    BY <1>0, <1>9, <2>3, <2>4, <2>6 DEF Dispatch
<1>10. ASSUME NEW w \in Workers, CloseInReconcile(w)
       PROVE  TypeOK'
  <2>1. worker[w].dep \in Deployments
    BY <1>10 DEF CloseInReconcile
  <2>2. audit' \in Seq(Line)
    BY <1>10, <2>1, CloseType DEF CloseInReconcile
  <2>3. QED
    BY <1>0, <1>10, <2>2 DEF CloseInReconcile
<1>11. ASSUME NEW g \in goroutines, MoveSpec(g)
       PROVE  TypeOK'
  <2>1. g \in Goroutine
    OBVIOUS
  <2>2. [g EXCEPT !.moves = g.moves + 1] \in Goroutine
    <3>1. \A r \in Goroutine : r.moves \in Nat
      BY DEF Goroutine
    <3>2. ASSUME NEW n \in Nat PROVE [g EXCEPT !.moves = n] \in Goroutine
      BY <2>1 DEF Goroutine
    <3>3. g.moves + 1 \in Nat
      BY <2>1, <3>1
    <3>4. QED
      BY <3>2, <3>3
  <2>3. goroutines' \subseteq Goroutine
    BY <1>11, <2>2 DEF MoveSpec
  <2>4. generation' \in [Deployments -> 1 .. MaxGeneration]
    <3>1. g.dep \in Deployments
      BY <2>1 DEF Goroutine
    <3>2. generation[g.dep] + 1 \in 1 .. MaxGeneration
      BY <1>11, <3>1, ConstantsAssumption DEF MoveSpec
    <3>3. QED
      BY <1>11, <3>2 DEF MoveSpec
  <2>5. QED
    BY <1>11, <2>3, <2>4 DEF MoveSpec
<1>12. ASSUME NEW g \in goroutines, NEW result \in Results, Finish(g, result)
       PROVE  TypeOK'
  <2>1. g \in Goroutine /\ g.dep \in Deployments
    BY DEF Goroutine
  <2>2. [g EXCEPT !.pc = "close"] \in Goroutine
    BY <2>1 DEF Goroutine
  <2>3. incidents' \in [Deployments -> Record] /\ hist' \in Seq(History)
    BY <1>12, <2>1, EndAttemptType DEF Finish
  <2>4. QED
    BY <1>12, <2>2, <2>3 DEF Finish
<1>13. ASSUME NEW g \in goroutines, CloseInGoroutine(g)
       PROVE  TypeOK'
  <2>1. g.dep \in Deployments
    BY DEF Goroutine
  <2>2. audit' \in Seq(Line)
    BY <1>13, <2>1, CloseType DEF CloseInGoroutine
  <2>3. QED
    BY <1>13, <2>2 DEF CloseInGoroutine
<1>14. ASSUME NEW d \in Deployments, HumanEdit(d)
       PROVE  TypeOK'
  <2>1. ASSUME NEW r \in History, NEW b \in BOOLEAN
        PROVE  [r EXCEPT !.edited = r.edited \/ b] \in History
    BY DEF History
  <2>2. hist' \in Seq(History)
    <3>1. hist' = [i \in 1 .. Len(hist) |->
                     [hist[i] EXCEPT !.edited = hist[i].edited \/ hist[i].dep = d]]
      BY <1>14 DEF HumanEdit
    <3>2. hist' \in [1 .. Len(hist) -> History]
      BY <1>a, <2>1, <3>1
    <3>3. QED
      BY <1>b, <3>2, FunctionIsSeq
  <2>3. generation' \in [Deployments -> 1 .. MaxGeneration]
    BY <1>14, ConstantsAssumption DEF HumanEdit
  <2>4. QED
    BY <1>14, <2>2, <2>3 DEF HumanEdit
<1>15. ASSUME NEW d \in Deployments, CacheSync(d)
       PROVE  TypeOK'
  <2>1. cached' \in [Deployments -> 1 .. MaxGeneration]
    BY <1>15, ConstantsAssumption DEF CacheSync
  <2>2. QED
    BY <1>15, <2>1 DEF CacheSync
<1>16. ASSUME Tick PROVE TypeOK'
  <2>1. \A d \in Deployments : Aged(incidents[d]) \in Record
    BY RecordOperators
  <2>2. \A i \in 1 .. Len(hist) : AgedHistory(i) \in History
    <3>1. ASSUME NEW i \in 1 .. Len(hist)
          PROVE  AgedHistory(i) \in History
      <4>1. hist[i] \in History /\ hist[i].quietFor \in Nat
        BY <1>a DEF History
      <4>2. Older(hist[i].quietFor) \in Nat
        BY <4>1, OlderIsNat
      <4>3. [hist[i] EXCEPT !.quietFor = Older(hist[i].quietFor)] \in History
        BY <4>1, <4>2 DEF History
      <4>4. QED
        BY <4>1, <4>3 DEF AgedHistory
    <3>2. QED
      BY <3>1
  <2>3. hist' \in Seq(History)
    BY <1>16, <1>b, <2>2, FunctionIsSeq DEF Tick
  <2>4. QED
    BY <1>16, <2>1, <2>3 DEF Tick
<1>17. ASSUME Restart PROVE TypeOK'
  <2>1. Missing \in Record
    BY NewRecordType DEF Missing
  <2>2. ASSUME NEW r \in History PROVE [r EXCEPT !.lost = TRUE] \in History
    BY DEF History
  <2>3. hist' \in Seq(History)
    <3>1. hist' = [i \in 1 .. Len(hist) |-> [hist[i] EXCEPT !.lost = TRUE]]
      BY <1>17 DEF Restart
    <3>2. hist' \in [1 .. Len(hist) -> History]
      BY <1>a, <2>2, <3>1
    <3>3. QED
      BY <1>b, <3>2, FunctionIsSeq
  <2>4. QED
    BY <1>0, <1>17, <2>1, <2>3, ConstantsAssumption DEF Restart
<1>18. CASE UNCHANGED vars
  BY <1>18 DEF vars
<1>19. QED
  BY <1>1, <1>2, <1>3, <1>4, <1>5, <1>6, <1>8, <1>9, <1>10, <1>11, <1>12, <1>13,
     <1>14, <1>15, <1>16, <1>17, <1>18
     DEF Next, ReconcileStep, Return

-----------------------------------------------------------------------------
(* The claim. *)

ClaimInv == TypeOK /\ IdsIssued /\ ClaimExclusive /\ ClaimKeepsIncident

(* A record in flight is active: somebody holds its claim. *)
LEMMA InFlightIsActive ==
  ASSUME ClaimInv, NEW d \in Deployments, incidents[d].inFlight
  PROVE  Active(incidents[d])
<1>1. CASE \E w \in Workers : WorkerHolds(w, d)
  BY <1>1 DEF ClaimInv, ClaimKeepsIncident, WorkerHolds
<1>2. CASE \E g \in goroutines : GoroutineHolds(g, d)
  BY <1>2 DEF ClaimInv, ClaimKeepsIncident, GoroutineHolds
<1>3. QED
  BY <1>1, <1>2 DEF ClaimInv, ClaimExclusive

(* beginAttempt, past the early return on a quiet record, decides on an     *)
(* active record: a new one, or the one it found with nothing but its       *)
(* generation changed.                                                      *)
LEMMA ConsideredFacts ==
  ASSUME TypeOK, NEW w \in Workers, worker[w].dep \in Deployments,
         ~Quiet(incidents[worker[w].dep], worker[w].gen)
  PROVE  LET old == incidents[worker[w].dep]
             new == Considered(w)
         IN  /\ Active(new)
             /\ \/ /\ ~Active(old)
                   /\ new.id = Len(hist) + 1 /\ ~new.inFlight
                   /\ new.attemptCount = 0 /\ new.evidence = 0
                   /\ Opened(w) = Append(hist, NewHistory(worker[w].dep,
                                         worker[w].gen # generation[worker[w].dep]))
                \/ /\ Active(old)
                   /\ new = [old EXCEPT !.generation = worker[w].gen]
                   /\ new.id = old.id /\ new.inFlight = old.inFlight
                   /\ new.attemptCount = old.attemptCount
                   /\ new.evidence = old.evidence
                   /\ new.sinceAttempt = old.sinceAttempt
                   /\ Opened(w) = hist
<1> DEFINE d == worker[w].dep
           g == worker[w].gen
           old == incidents[d]
           new == Considered(w)
<1>1. old \in Record /\ Len(hist) \in Nat
  BY DEF TypeOK
<1>2. CASE Opens(old, g)
  <2>1. ~Active(old)
    BY <1>2 DEF Opens, SpecChanged, Terminal, Active, Quiet
  <2>2. new = [NewRecord(Len(hist) + 1) EXCEPT !.generation = g]
    BY <1>2 DEF Considered
  <2>3. /\ new.id = Len(hist) + 1 /\ new.inFlight = FALSE /\ new.terminalOutcome = ""
        /\ new.attemptCount = 0 /\ new.evidence = 0
    BY <2>2 DEF NewRecord
  <2>4. Active(new)
    <3>1. Len(hist) + 1 # 0
      BY <1>1
    <3>2. QED
      BY <2>3, <3>1 DEF Active, Present
  <2>5. Opened(w) = Append(hist, NewHistory(d, g # generation[d]))
    BY <1>2 DEF Opened
  <2>6. QED
    BY <2>1, <2>3, <2>4, <2>5
<1>3. CASE ~Opens(old, g)
  <2>1. Active(old)
    BY <1>3 DEF Opens, Terminal, Active
  <2>2. new = [old EXCEPT !.generation = g] /\ Opened(w) = hist
    BY <1>3 DEF Considered, Opened
  <2>3. /\ new.id = old.id /\ new.inFlight = old.inFlight
        /\ new.terminalOutcome = old.terminalOutcome
        /\ new.attemptCount = old.attemptCount /\ new.evidence = old.evidence
        /\ new.sinceAttempt = old.sinceAttempt
    BY <1>1, <2>2 DEF Record
  <2>4. QED
    BY <2>1, <2>2, <2>3 DEF Active, Present
<1>4. QED
  BY <1>2, <1>3

(* What beginAttempt writes: the claim only when nobody had it. *)
LEMMA DecidedFacts ==
  ASSUME NEW record \in Record
  PROVE  /\ Decided(record).id = record.id
         /\ Decided(record).attemptCount = record.attemptCount
         /\ Decided(record).evidence = record.evidence
         /\ Decided(record).sinceAttempt = record.sinceAttempt
         /\ Decision(record) = "skip" => Decided(record) = record
         /\ Decision(record) = "exhausted" =>
              /\ ~record.inFlight /\ Decided(record).inFlight = record.inFlight
              /\ Decided(record).terminalOutcome = "exhausted"
         /\ Decision(record) = "proceed" =>
              /\ ~record.inFlight /\ Decided(record).inFlight = TRUE
              /\ Decided(record).terminalOutcome = record.terminalOutcome
              /\ record.attemptCount < MaxAttempts
              /\ ~BackingOff(record)
<1>1. Decision(record) \in {"skip", "exhausted", "proceed"}
  BY DEF Decision
<1>2. CASE Decision(record) = "skip"
  BY <1>2 DEF Decided
<1>3. CASE Decision(record) = "exhausted"
  <2>1. ~record.inFlight
    BY <1>3 DEF Decision
  <2>2. QED
    BY <1>3, <2>1 DEF Decided, Record
<1>4. CASE Decision(record) = "proceed"
  <2>1. ~record.inFlight /\ ~BackingOff(record) /\ ~(record.attemptCount >= MaxAttempts)
    BY <1>4 DEF Decision
  <2>2. record.attemptCount \in Nat
    BY DEF Record
  <2>3. record.attemptCount < MaxAttempts
    BY <2>1, <2>2, ConstantsAssumption
  <2>4. QED
    BY <1>4, <2>1, <2>3 DEF Decided, Record
<1>5. QED
  BY <1>1, <1>2, <1>3, <1>4

(* What endAttempt writes. *)
LEMMA ReleasedFacts ==
  ASSUME NEW record \in Record, NEW outcome \in TerminalOutcomes \union Results
  PROVE  /\ Released(record, outcome).id = record.id
         /\ Released(record, outcome).inFlight = FALSE
         /\ Released(record, outcome).attemptCount = record.attemptCount
         /\ Released(record, outcome).evidence = record.evidence
         /\ outcome \in TerminalOutcomes =>
              Released(record, outcome).terminalOutcome = outcome
         /\ outcome \notin TerminalOutcomes =>
              /\ Released(record, outcome).terminalOutcome = record.terminalOutcome
              /\ Released(record, outcome).sinceAttempt = 0
  BY DEF Released, Record, TerminalOutcomes, Results

(* Time changes nothing but ages. *)
LEMMA AgedFacts ==
  ASSUME NEW record \in Record
  PROVE  /\ Aged(record).id = record.id
         /\ Aged(record).inFlight = record.inFlight
         /\ Aged(record).terminalOutcome = record.terminalOutcome
         /\ Aged(record).attemptCount = record.attemptCount
         /\ Aged(record).evidence = record.evidence
  BY DEF Aged, Record

(* IdsIssued is kept: beginAttempt issues the next id, nothing else does.   *)
LEMMA IdsNext ==
  ASSUME ClaimInv, [Next]_vars
  PROVE  IdsIssued'
<1>a. TypeOK /\ IdsIssued /\ ClaimKeepsIncident
  BY DEF ClaimInv
<1>b. /\ hist \in Seq(History)
      /\ Len(hist) \in Nat
      /\ \A i \in 1 .. Len(hist) : hist[i] \in History
      /\ \A d \in Deployments : incidents[d] \in Record
  BY <1>a DEF TypeOK
<1>c. \A d \in Deployments : incidents[d].id \in Nat
  BY <1>b DEF Record
<1> DEFINE SameIds == \A d \in Deployments : incidents'[d].id = incidents[d].id
           SameDeps == /\ Len(hist') = Len(hist)
                       /\ \A i \in 1 .. Len(hist) : hist'[i].dep = hist[i].dep
<1>d. ASSUME SameIds, SameDeps PROVE IdsIssued'
  BY <1>a, <1>b, <1>c, <1>d DEF IdsIssued, Present
<1>e. ASSUME NEW d \in Deployments, NEW inc, NEW outcome \in TerminalOutcomes \union Results,
             NEW h \in Seq(History), Len(h) = Len(hist),
             \A i \in 1 .. Len(hist) : h[i].dep = hist[i].dep,
             endAttempt(d, inc, outcome, h)
      PROVE  IdsIssued'
  <2>1. SameDeps
    <3>1. TypeOK /\ endAttempt(d, inc, outcome, h)
      BY <1>a, <1>e
    <3>2. Len(hist') = Len(h) /\ \A j \in 1 .. Len(h) : hist'[j].dep = h[j].dep
      BY <3>1, EndAttemptType
    <3>3. QED
      BY <1>e, <3>2
  <2>2. Released(incidents[d], outcome).id = incidents[d].id
    BY <1>b, ReleasedFacts
  <2>3. SameIds
    BY <1>e, <1>a, <2>2 DEF endAttempt, TypeOK
  <2>4. QED
    BY <1>d, <2>1, <2>3
<1>1. ASSUME NEW w \in Workers, BeginAttempt(w)
      PROVE  IdsIssued'
  <2> DEFINE d == worker[w].dep
             new == Considered(w)
  <2>1. d \in Deployments
    BY <1>a, <1>1 DEF TypeOK, BeginAttempt, SkipQuiet, SkipActive, Exhaust, Claim
  <2>2. CASE SkipQuiet(w)
    BY <2>2, <1>d DEF SkipQuiet
  <2>3. CASE ~SkipQuiet(w)
    <3>1. /\ ~Quiet(incidents[d], worker[w].gen)
          /\ incidents' = [incidents EXCEPT ![d] = Decided(new)]
          /\ hist' = Opened(w) \/ hist' = [Opened(w) EXCEPT ![new.id].outcome = "exhausted"]
      BY <1>1, <2>3 DEF BeginAttempt, SkipActive, Exhaust, Claim
    <3>2. new \in Record /\ Opened(w) \in Seq(History)
      BY <1>a, <2>1, ConsideredType
    <3>3. Decided(new).id = new.id
      BY <3>2, DecidedFacts
    <3>4. /\ Len(hist') = Len(Opened(w))
          /\ \A i \in 1 .. Len(Opened(w)) : hist'[i].dep = Opened(w)[i].dep
      <4>1. CASE hist' = Opened(w)
        BY <4>1
      <4>2. CASE hist' = [Opened(w) EXCEPT ![new.id].outcome = "exhausted"]
        <5>1. hist' = WithOutcome(Opened(w), new.id, "exhausted")
          BY <4>2 DEF WithOutcome
        <5>2. QED
          BY <3>2, <5>1, OutcomeNoted DEF TerminalOutcomes
      <4>3. QED
        BY <3>1, <4>1, <4>2
    <3>5. incidents'[d].id = new.id /\ \A e \in Deployments \ {d} : incidents'[e] = incidents[e]
      BY <3>1, <3>3, <2>1, <1>a DEF TypeOK
    <3>6. CASE ~Active(incidents[d])
      <4> DEFINE fresh == NewHistory(d, worker[w].gen # generation[d])
      <4>1. new.id = Len(hist) + 1 /\ Opened(w) = Append(hist, fresh)
        BY <1>a, <2>1, <3>1, <3>6, ConsideredFacts
      <4>2. fresh \in History /\ fresh.dep = d
        BY <2>1 DEF NewHistory, History
      <4>3. /\ Len(Opened(w)) = Len(hist) + 1
            /\ \A i \in 1 .. Len(hist) : Opened(w)[i] = hist[i]
            /\ Opened(w)[Len(hist) + 1] = fresh
        <5> HIDE DEF fresh
        <5> QED
          BY <4>1, <4>2, <1>b, AppendInSeq
      <4> HIDE DEF fresh
      <4>4. /\ Len(hist') = Len(hist) + 1
            /\ \A i \in 1 .. Len(hist) : hist'[i].dep = hist[i].dep
            /\ hist'[Len(hist) + 1].dep = d
        BY <1>b, <3>4, <4>2, <4>3
      <4>5. ASSUME NEW e \in Deployments
            PROVE  /\ incidents'[e].id <= Len(hist')
                   /\ incidents'[e].id # 0 => hist'[incidents'[e].id].dep = e
        <5>1. CASE e = d
          BY <5>1, <1>b, <3>5, <4>1, <4>4
        <5>2. CASE e # d
          BY <5>2, <1>a, <1>b, <1>c, <3>5, <4>4 DEF IdsIssued, Present
        <5>3. QED
          BY <5>1, <5>2
      <4>6. QED
        BY <4>5 DEF IdsIssued, Present
    <3>7. CASE Active(incidents[d])
      <4>1. new.id = incidents[d].id /\ Opened(w) = hist
        BY <1>a, <2>1, <3>1, <3>7, ConsideredFacts
      <4>2. SameIds
        BY <3>5, <4>1
      <4>3. SameDeps
        BY <3>4, <4>1
      <4>4. QED
        BY <1>d, <4>2, <4>3
    <3>8. QED
      BY <3>6, <3>7
  <2>4. QED
    BY <2>2, <2>3
<1>2. ASSUME NEW w \in Workers, EscalateBlind(w)
      PROVE  IdsIssued'
  <2>1. worker[w].dep \in Deployments
    BY <1>a, <1>2 DEF TypeOK, EscalateBlind
  <2>2. QED
    BY <1>2, <1>b, <1>e, <2>1 DEF EscalateBlind, TerminalOutcomes
<1>3. ASSUME NEW w \in Workers, CollectEvidence(w)
      PROVE  IdsIssued'
  <2>0. worker[w].dep \in Deployments
    BY <1>a, <1>3 DEF CollectEvidence, TypeOK
  <2>1. worker[w].incident \in 1 .. Len(hist)
    <3>1. /\ incidents[worker[w].dep].id = worker[w].incident
          /\ Present(incidents[worker[w].dep])
      BY <1>a, <1>3 DEF ClaimKeepsIncident, Active, CollectEvidence, HoldingPCs
    <3>2. QED
      BY <1>a, <1>b, <1>c, <2>0, <3>1 DEF IdsIssued, Present
  <2>2. \A r \in History : r.collected \in Nat
    BY DEF History
  <2>3. hist[worker[w].incident].collected + 1 \in Nat
    BY <1>b, <2>1, <2>2
  <2>4. SameDeps
    <3>1. hist' = WithCollected(hist, worker[w].incident,
                                hist[worker[w].incident].collected + 1)
      BY <1>3 DEF CollectEvidence, WithCollected
    <3>2. QED
      BY <1>b, <2>3, <3>1, CollectionNoted
  <2>5. QED
    BY <1>3, <1>d, <2>4 DEF CollectEvidence
<1>4. ASSUME NEW w \in Workers, FreezeEvidence(w)
      PROVE  IdsIssued'
  <2>0. worker[w].dep \in Deployments
    BY <1>a, <1>4 DEF FreezeEvidence, TypeOK
  <2>1. [incidents[worker[w].dep] EXCEPT !.evidence = worker[w].bundle].id
          = incidents[worker[w].dep].id
    BY <1>b, <2>0 DEF Record
  <2>2. SameIds
    BY <1>4, <1>a, <2>0, <2>1 DEF FreezeEvidence, freezeEvidence, TypeOK
  <2>3. QED
    BY <1>4, <1>d, <2>2 DEF FreezeEvidence
<1>5. ASSUME NEW w \in Workers, worker[w].pc = "classify"
      PROVE  /\ worker[w].dep \in Deployments
             /\ Classified(w) \in Seq(History)
             /\ Len(Classified(w)) = Len(hist)
             /\ \A i \in 1 .. Len(hist) : Classified(w)[i].dep = hist[i].dep
  <2>1. worker[w].dep \in Deployments /\ worker[w].bundle \in Nat
    BY <1>a, <1>5 DEF TypeOK, WorkerState
  <2>2. QED
    BY <1>a, <2>1, ClassifiedFacts
<1>6. ASSUME NEW w \in Workers, Escalate(w) \/ Reject(w)
      PROVE  IdsIssued'
  <2>1. worker[w].pc = "classify"
    BY <1>6 DEF Escalate, Reject
  <2>2. \/ endAttempt(worker[w].dep, worker[w].incident, "escalated", Classified(w))
        \/ endAttempt(worker[w].dep, worker[w].incident, "rejected", Classified(w))
    BY <1>6 DEF Escalate, Reject
  <2>3. QED
    BY <1>5, <1>e, <2>1, <2>2 DEF TerminalOutcomes
<1>7. ASSUME NEW w \in Workers, Dispatch(w)
      PROVE  IdsIssued'
  <2> DEFINE d == worker[w].dep
  <2>1. /\ d \in Deployments /\ Classified(w) \in Seq(History)
        /\ Len(Classified(w)) = Len(hist)
        /\ \A i \in 1 .. Len(hist) : Classified(w)[i].dep = hist[i].dep
    BY <1>5, <1>7 DEF Dispatch
  <2>2. SameDeps
    <3>1. hist' = WithDispatch(Classified(w), worker[w].incident)
      BY <1>7 DEF Dispatch, WithDispatch
    <3>2. QED
      BY <2>1, <3>1, DispatchNoted
  <2>3. \A n : [incidents[d] EXCEPT !.attemptCount = n].id = incidents[d].id
    BY <1>b, <2>1 DEF Record
  <2>4. SameIds
    BY <1>7, <1>a, <2>1, <2>3 DEF Dispatch, TypeOK
  <2>5. QED
    BY <1>d, <2>2, <2>4
<1>8. ASSUME NEW g \in goroutines, NEW result \in Results, Finish(g, result)
      PROVE  IdsIssued'
  <2>1. g.dep \in Deployments
    BY <1>a DEF TypeOK, Goroutine
  <2>2. QED
    BY <1>8, <1>b, <1>e, <2>1 DEF Finish
<1>9. ASSUME NEW d \in Deployments, HumanEdit(d)
      PROVE  IdsIssued'
  <2>1. \A i \in 1 .. Len(hist) : \A b : [hist[i] EXCEPT !.edited = b].dep = hist[i].dep
    BY <1>b DEF History
  <2>2. hist' = [i \in 1 .. Len(hist) |->
                   [hist[i] EXCEPT !.edited = hist[i].edited \/ hist[i].dep = d]]
    BY <1>9 DEF HumanEdit
  <2>3. \A i \in 1 .. Len(hist) : hist'[i].dep = hist[i].dep
    BY <2>1, <2>2
  <2>4. Len(hist') = Len(hist)
    BY <1>b, <2>2
  <2>5. QED
    BY <1>9, <1>d, <2>3, <2>4 DEF HumanEdit
<1>10. ASSUME Tick PROVE IdsIssued'
  <2>1. SameIds
    BY <1>10, <1>b, AgedFacts DEF Tick
  <2>2. \A i \in 1 .. Len(hist) : AgedHistory(i).dep = hist[i].dep
    BY <1>b DEF AgedHistory, History
  <2>3. SameDeps
    BY <1>10, <1>b, <2>2 DEF Tick
  <2>4. QED
    BY <1>d, <2>1, <2>3
<1>11. ASSUME Restart PROVE IdsIssued'
  <2>1. \A d \in Deployments : incidents'[d].id = 0
    BY <1>11 DEF Restart, Missing, NewRecord
  <2>2. Len(hist') \in Nat
    BY <1>11, <1>b DEF Restart
  <2>3. QED
    BY <2>1, <2>2 DEF IdsIssued, Present
<1>12. ASSUME UNCHANGED <<incidents, hist>> PROVE IdsIssued'
  BY <1>12, <1>d
<1>13. ASSUME NEW w \in Workers, ReconcileStep(w) PROVE IdsIssued'
  <2>1. CASE ReuseEvidence(w) \/ CloseInReconcile(w)
    BY <1>12, <2>1 DEF ReuseEvidence, CloseInReconcile
  <2>2. QED
    BY <1>1, <1>2, <1>3, <1>4, <1>6, <1>7, <1>13, <2>1 DEF ReconcileStep
<1>14. ASSUME NEW g \in goroutines, MoveSpec(g) \/ Return(g) PROVE IdsIssued'
  <2>1. CASE MoveSpec(g) \/ CloseInGoroutine(g)
    BY <1>12, <2>1 DEF MoveSpec, CloseInGoroutine
  <2>2. QED
    BY <1>8, <1>14, <2>1 DEF Return
<1>15. ASSUME NEW w \in Workers, NEW d \in Deployments, Observe(w, d) PROVE IdsIssued'
  BY <1>12, <1>15 DEF Observe
<1>16. ASSUME NEW d \in Deployments, CacheSync(d) PROVE IdsIssued'
  BY <1>12, <1>16 DEF CacheSync
<1>17. CASE UNCHANGED vars
  BY <1>12, <1>17 DEF vars
<1>18. QED
  BY <1>9, <1>10, <1>11, <1>13, <1>14, <1>15, <1>16, <1>17 DEF Next

(* Who holds the claim on d finds the record in flight, and nobody else     *)
(* holds it.                                                                *)
LEMMA HolderFacts ==
  ASSUME ClaimInv
  PROVE  /\ \A w \in Workers : worker[w].pc \in HoldingPCs =>
              /\ worker[w].dep \in Deployments
              /\ incidents[worker[w].dep].inFlight
              /\ \A v \in Workers \ {w} : ~WorkerHolds(v, worker[w].dep)
              /\ \A g \in goroutines : ~GoroutineHolds(g, worker[w].dep)
         /\ \A g \in goroutines : g.pc = "remediate" =>
              /\ g.dep \in Deployments
              /\ incidents[g.dep].inFlight
              /\ \A w \in Workers : ~WorkerHolds(w, g.dep)
              /\ \A f \in goroutines \ {g} : ~GoroutineHolds(f, g.dep)
<1>1. ASSUME NEW w \in Workers, worker[w].pc \in HoldingPCs
      PROVE  /\ worker[w].dep \in Deployments
             /\ WorkerHolds(w, worker[w].dep)
  BY <1>1 DEF ClaimInv, TypeOK, HoldingPCs, WorkerHolds
<1>2. ASSUME NEW g \in goroutines, g.pc = "remediate"
      PROVE  g.dep \in Deployments /\ GoroutineHolds(g, g.dep)
  BY <1>2 DEF ClaimInv, TypeOK, Goroutine, GoroutineHolds
<1>3. QED
  BY <1>1, <1>2 DEF ClaimInv, ClaimExclusive

(* What a step of beginAttempt does to the record of its Deployment.  A     *)
(* record in flight keeps its id and stays active and in flight.            *)
LEMMA BeginFacts ==
  ASSUME ClaimInv, NEW w \in Workers, BeginAttempt(w), ~SkipQuiet(w)
  PROVE  LET d == worker[w].dep
         IN  /\ d \in Deployments
             /\ worker[w].pc = "begin"
             /\ incidents' = [incidents EXCEPT ![d] = Decided(Considered(w))]
             /\ incidents[d].inFlight =>
                  /\ incidents'[d].id = incidents[d].id
                  /\ incidents'[d].terminalOutcome = incidents[d].terminalOutcome
                  /\ incidents'[d].inFlight = incidents[d].inFlight
                  /\ SkipActive(w)
             /\ ~Claim(w) => incidents'[d].inFlight = incidents[d].inFlight
             /\ Claim(w) => /\ ~incidents[d].inFlight /\ incidents'[d].inFlight
                            /\ incidents'[d].id = Considered(w).id
                            /\ Active(incidents'[d])
<1> DEFINE d == worker[w].dep
           new == Considered(w)
<1>a. TypeOK
  BY DEF ClaimInv
<1>1. d \in Deployments /\ worker[w].pc = "begin"
  BY <1>a DEF TypeOK, BeginAttempt, SkipQuiet, SkipActive, Exhaust, Claim
<1>2. /\ ~Quiet(incidents[d], worker[w].gen)
      /\ incidents' = [incidents EXCEPT ![d] = Decided(new)]
  BY DEF BeginAttempt, SkipActive, Exhaust, Claim
<1>3. new \in Record /\ incidents[d] \in Record /\ incidents'[d] = Decided(new)
  BY <1>a, <1>1, <1>2, ConsideredType DEF TypeOK
<1>4. Active(new)
  BY <1>a, <1>1, <1>2, ConsideredFacts
<1>5. CASE incidents[d].inFlight
  <2>1. Active(incidents[d])
    BY <1>1, <1>5, InFlightIsActive
  <2>2. new = [incidents[d] EXCEPT !.generation = worker[w].gen] /\ new.id = incidents[d].id
        /\ new.inFlight = incidents[d].inFlight
    BY <1>a, <1>1, <1>2, <2>1, ConsideredFacts
  <2>3. Decision(new) = "skip"
    BY <1>5, <2>2 DEF Decision
  <2>4. SkipActive(w) /\ ~Claim(w)
    BY <2>3 DEF BeginAttempt, Exhaust, Claim
  <2>5. Decided(new) = new
    BY <1>3, <2>3, DecidedFacts
  <2>6. new.terminalOutcome = incidents[d].terminalOutcome
    BY <1>4, <2>1 DEF Active
  <2>7. QED
    BY <1>1, <1>2, <1>3, <1>5, <2>2, <2>4, <2>5, <2>6
<1>6. CASE ~incidents[d].inFlight
  <2>1. new.inFlight = FALSE
    <3>1. ~new.inFlight
      BY <1>a, <1>1, <1>2, <1>6, ConsideredFacts
    <3>2. new.inFlight \in BOOLEAN
      BY <1>3 DEF Record
    <3>3. QED
      BY <3>1, <3>2
  <2>2. incidents[d].inFlight = FALSE
    BY <1>3, <1>6 DEF Record
  <2>3. CASE Claim(w)
    <3>1. Decision(new) = "proceed"
      BY <2>3 DEF Claim
    <3>2. /\ Decided(new).inFlight = TRUE /\ Decided(new).id = new.id
          /\ Decided(new).terminalOutcome = new.terminalOutcome
      BY <1>3, <3>1, DecidedFacts
    <3>3. Active(Decided(new))
      BY <1>4, <3>2 DEF Active, Present
    <3>4. QED
      BY <1>1, <1>2, <1>3, <1>6, <2>3, <3>2, <3>3
  <2>4. CASE ~Claim(w)
    <3>1. Decision(new) \in {"skip", "exhausted"}
      BY <2>4 DEF BeginAttempt, SkipActive, Exhaust
    <3>2. Decided(new).inFlight = new.inFlight
      BY <1>3, <3>1, DecidedFacts
    <3>3. QED
      BY <1>1, <1>2, <1>3, <1>6, <2>1, <2>2, <2>4, <3>2
  <2>5. QED
    BY <2>3, <2>4
<1>7. QED
  BY <1>5, <1>6

(* endAttempt rewrites its own record, which no longer is in flight. *)
LEMMA EndAttemptFacts ==
  ASSUME TypeOK, NEW d \in Deployments, NEW inc, NEW h,
         NEW outcome \in TerminalOutcomes \union Results,
         Present(incidents[d]), endAttempt(d, inc, outcome, h)
  PROVE  /\ incidents' = [incidents EXCEPT ![d] = Released(incidents[d], outcome)]
         /\ incidents'[d].inFlight = FALSE
         /\ \A e \in Deployments \ {d} : incidents'[e] = incidents[e]
<1>1. incidents' = [incidents EXCEPT ![d] = Released(incidents[d], outcome)]
  BY DEF endAttempt
<1>2. incidents[d] \in Record
  BY DEF TypeOK
<1>3. Released(incidents[d], outcome).inFlight = FALSE
  BY <1>2, ReleasedFacts
<1>4. QED
  BY <1>1, <1>3 DEF TypeOK

(* The holder of a claim keeps finding its own, active incident. *)
LEMMA KeepsNext ==
  ASSUME ClaimInv, [Next]_vars
  PROVE  ClaimKeepsIncident'
<1>a. TypeOK /\ ClaimKeepsIncident
  BY DEF ClaimInv
<1>b. \A d \in Deployments : incidents[d] \in Record
  BY <1>a DEF TypeOK
<1> DEFINE Frame(e) == /\ incidents'[e].id = incidents[e].id
                       /\ incidents'[e].terminalOutcome = incidents[e].terminalOutcome
           WorkersKept ==
             \A v \in Workers : worker'[v].pc \in HoldingPCs =>
               /\ worker[v].pc \in HoldingPCs
               /\ worker'[v].dep = worker[v].dep /\ worker'[v].incident = worker[v].incident
               /\ Frame(worker[v].dep)
           GoroutinesKept ==
             \A f \in goroutines' : f.pc = "remediate" =>
               /\ \E f0 \in goroutines : /\ f0.pc = "remediate" /\ f0.dep = f.dep
                                         /\ f0.incident = f.incident
               /\ Frame(f.dep)
<1>h. ASSUME NEW e, Frame(e), Active(incidents[e])
      PROVE  incidents'[e].id = incidents[e].id /\ Active(incidents'[e])
  BY <1>h DEF Active, Present
<1>c. ASSUME WorkersKept PROVE
        \A v \in Workers : worker'[v].pc \in HoldingPCs =>
          /\ incidents'[worker'[v].dep].id = worker'[v].incident
          /\ Active(incidents'[worker'[v].dep])
  <2>1. ASSUME NEW v \in Workers, worker'[v].pc \in HoldingPCs
        PROVE  /\ incidents'[worker'[v].dep].id = worker'[v].incident
               /\ Active(incidents'[worker'[v].dep])
    <3>1. /\ worker[v].pc \in HoldingPCs /\ Frame(worker[v].dep)
          /\ worker'[v].dep = worker[v].dep /\ worker'[v].incident = worker[v].incident
      BY <1>c, <2>1
    <3>2. incidents[worker[v].dep].id = worker[v].incident /\ Active(incidents[worker[v].dep])
      BY <1>a, <3>1 DEF ClaimKeepsIncident
    <3>3. QED
      BY <1>h, <3>1, <3>2
  <2>2. QED
    BY <2>1
<1>d. ASSUME GoroutinesKept PROVE
        \A f \in goroutines' : f.pc = "remediate" =>
          incidents'[f.dep].id = f.incident /\ Active(incidents'[f.dep])
  <2>1. ASSUME NEW f \in goroutines', f.pc = "remediate"
        PROVE  incidents'[f.dep].id = f.incident /\ Active(incidents'[f.dep])
    <3>1. PICK f0 \in goroutines : /\ f0.pc = "remediate" /\ f0.dep = f.dep
                                   /\ f0.incident = f.incident
      BY <1>d, <2>1
    <3>2. Frame(f.dep)
      BY <1>d, <2>1
    <3>3. incidents[f.dep].id = f.incident /\ Active(incidents[f.dep])
      BY <1>a, <3>1 DEF ClaimKeepsIncident
    <3>4. QED
      BY <1>h, <3>2, <3>3
  <2>2. QED
    BY <2>1
<1>e. ASSUME WorkersKept, GoroutinesKept PROVE ClaimKeepsIncident'
  BY <1>c, <1>d, <1>e DEF ClaimKeepsIncident
<1>f. ASSUME UNCHANGED incidents, goroutines' \subseteq goroutines,
             \A v \in Workers : worker'[v].pc \in HoldingPCs =>
               /\ worker[v].pc \in HoldingPCs
               /\ worker'[v].dep = worker[v].dep /\ worker'[v].incident = worker[v].incident
      PROVE  ClaimKeepsIncident'
  <2>1. WorkersKept
    BY <1>f
  <2>2. GoroutinesKept
    BY <1>f
  <2>3. QED
    BY <1>e, <2>1, <2>2
<1>g. IdleWorker.pc \notin HoldingPCs
  BY DEF IdleWorker, HoldingPCs
<1>1. ASSUME NEW w \in Workers, NEW d \in Deployments, Observe(w, d)
      PROVE  ClaimKeepsIncident'
  <2>1. PICK g : worker' = [worker EXCEPT ![w] =
                       [IdleWorker EXCEPT !.pc = "begin", !.dep = d, !.gen = g]]
    BY <1>1 DEF Observe
  <2>2. [IdleWorker EXCEPT !.pc = "begin", !.dep = d, !.gen = g].pc \notin HoldingPCs
    BY DEF IdleWorker, HoldingPCs
  <2>3. \A v \in Workers : worker'[v].pc \in HoldingPCs => worker'[v] = worker[v]
    BY <1>a, <2>1, <2>2 DEF TypeOK
  <2>4. QED
    BY <1>1, <1>f, <2>3 DEF Observe
<1>2. ASSUME NEW w \in Workers, BeginAttempt(w)
      PROVE  ClaimKeepsIncident'
  <2> DEFINE d == worker[w].dep
  <2>1. CASE SkipQuiet(w)
    <3>1. \A v \in Workers : worker'[v].pc \in HoldingPCs => worker'[v] = worker[v]
      BY <1>a, <1>g, <2>1 DEF SkipQuiet, TypeOK
    <3>2. QED
      BY <1>f, <2>1, <3>1 DEF SkipQuiet
  <2>2. CASE ~SkipQuiet(w)
    <3>1. /\ d \in Deployments
          /\ worker[w].pc = "begin"
          /\ \A e \in Deployments \ {d} : incidents'[e] = incidents[e]
          /\ incidents[d].inFlight => Frame(d)
      BY <1>a, <1>2, <2>2, BeginFacts DEF TypeOK
    <3>2. \A e \in Deployments : incidents[e].inFlight => Frame(e)
      BY <3>1
    <3>3. \A v \in Workers \ {w} : worker'[v] = worker[v]
      BY <1>2, <1>a DEF TypeOK, BeginAttempt, SkipQuiet, SkipActive, Exhaust, Claim
    <3>4. \A v \in Workers : worker[v].pc \in HoldingPCs => Frame(worker[v].dep)
      BY <3>2, HolderFacts
    <3>5. goroutines' = goroutines
      BY <1>2 DEF BeginAttempt, SkipQuiet, SkipActive, Exhaust, Claim
    <3>6. GoroutinesKept
      BY <3>2, <3>5, HolderFacts
    <3>7. CASE Claim(w)
      <4>1. worker'[w].pc = "admitted" /\ worker'[w].dep = d /\ worker'[w].incident = Considered(w).id
        BY <3>7, <1>a DEF Claim, TypeOK, WorkerState
      <4>2. incidents'[d].id = Considered(w).id /\ Active(incidents'[d])
        BY <1>2, <2>2, <3>7, BeginFacts
      <4>3. \A v \in Workers \ {w} : worker'[v].pc \in HoldingPCs =>
              /\ incidents'[worker'[v].dep].id = worker'[v].incident
              /\ Active(incidents'[worker'[v].dep])
        <5>1. ASSUME NEW v \in Workers \ {w}, worker'[v].pc \in HoldingPCs
              PROVE  /\ incidents'[worker'[v].dep].id = worker'[v].incident
                     /\ Active(incidents'[worker'[v].dep])
          <6>1. worker'[v] = worker[v] /\ Frame(worker[v].dep)
            BY <3>3, <3>4, <5>1
          <6>2. /\ incidents[worker[v].dep].id = worker[v].incident
                /\ Active(incidents[worker[v].dep])
            BY <1>a, <5>1, <6>1 DEF ClaimKeepsIncident
          <6>3. QED
            BY <1>h, <6>1, <6>2
        <5>2. QED
          BY <5>1
      <4>4. QED
        BY <1>d, <3>6, <4>1, <4>2, <4>3 DEF ClaimKeepsIncident
    <3>8. CASE ~Claim(w)
      <4>1. worker'[w].pc \notin HoldingPCs
        BY <1>2, <1>a, <1>g, <2>2, <3>8
           DEF BeginAttempt, SkipActive, Exhaust, TypeOK, WorkerState, HoldingPCs
      <4>2. WorkersKept
        BY <3>3, <3>4, <4>1
      <4>3. QED
        BY <1>e, <3>6, <4>2
    <3>9. QED
      BY <3>7, <3>8
  <2>3. QED
    BY <2>1, <2>2
<1>3. ASSUME NEW w \in Workers, EscalateBlind(w) \/ Escalate(w) \/ Reject(w)
      PROVE  ClaimKeepsIncident'
  <2> DEFINE d == worker[w].dep
  <2>1. worker[w].pc \in HoldingPCs /\ d \in Deployments
    BY <1>3, <1>a DEF EscalateBlind, Escalate, Reject, HoldingPCs, TypeOK
  <2>2. Present(incidents[d])
    BY <1>a, <2>1 DEF ClaimKeepsIncident, Active
  <2>3. PICK outcome, h : /\ outcome \in TerminalOutcomes
                          /\ endAttempt(d, worker[w].incident, outcome, h)
    BY <1>3 DEF EscalateBlind, Escalate, Reject, TerminalOutcomes
  <2>4. \A e \in Deployments \ {d} : Frame(e)
    BY <1>a, <2>1, <2>2, <2>3, EndAttemptFacts
  <2>5. /\ worker'[w].pc \notin HoldingPCs
        /\ \A v \in Workers \ {w} : worker'[v] = worker[v]
    BY <1>3, <1>a DEF EscalateBlind, Escalate, Reject, TypeOK, WorkerState, HoldingPCs
  <2>6. \A v \in Workers \ {w} : worker[v].pc \in HoldingPCs => worker[v].dep \in Deployments \ {d}
    BY <2>1, HolderFacts DEF WorkerHolds
  <2>7. \A g \in goroutines : g.pc = "remediate" => g.dep \in Deployments \ {d}
    BY <2>1, HolderFacts DEF GoroutineHolds
  <2>8. WorkersKept
    BY <2>4, <2>5, <2>6
  <2>9. GoroutinesKept
    BY <1>3, <2>4, <2>7 DEF EscalateBlind, Escalate, Reject
  <2>10. QED
    BY <1>e, <2>8, <2>9
<1>4. ASSUME NEW w \in Workers, ReuseEvidence(w) \/ CollectEvidence(w)
      PROVE  ClaimKeepsIncident'
  <2>1. \A v \in Workers : worker'[v].pc \in HoldingPCs =>
          /\ worker[v].pc \in HoldingPCs
          /\ worker'[v].dep = worker[v].dep /\ worker'[v].incident = worker[v].incident
    <3>1. worker[w] \in WorkerState /\ worker[w].pc \in HoldingPCs
      BY <1>4, <1>a DEF ReuseEvidence, CollectEvidence, TypeOK, HoldingPCs
    <3>2. PICK pc, b : worker' = [worker EXCEPT ![w].pc = pc, ![w].bundle = b]
      BY <1>4 DEF ReuseEvidence, CollectEvidence
    <3>3. worker'[w].dep = worker[w].dep /\ worker'[w].incident = worker[w].incident
      BY <1>a, <3>1, <3>2 DEF TypeOK, WorkerState
    <3>4. \A v \in Workers \ {w} : worker'[v] = worker[v]
      BY <1>a, <3>2 DEF TypeOK
    <3>5. QED
      BY <3>1, <3>3, <3>4
  <2>2. QED
    BY <1>4, <1>f, <2>1 DEF ReuseEvidence, CollectEvidence
<1>5. ASSUME NEW w \in Workers, FreezeEvidence(w)
      PROVE  ClaimKeepsIncident'
  <2> DEFINE d == worker[w].dep
  <2>1. \A v \in Workers : worker'[v].pc \in HoldingPCs =>
          /\ worker[v].pc \in HoldingPCs
          /\ worker'[v].dep = worker[v].dep /\ worker'[v].incident = worker[v].incident
    BY <1>5, <1>a DEF FreezeEvidence, TypeOK, WorkerState, HoldingPCs
  <2>2. d \in Deployments
    BY <1>5, <1>a DEF FreezeEvidence, TypeOK
  <2> DEFINE frozen == [incidents[d] EXCEPT !.evidence = worker[w].bundle]
  <2>3. frozen.id = incidents[d].id /\ frozen.terminalOutcome = incidents[d].terminalOutcome
    BY <1>b, <2>2 DEF Record
  <2>4. \A e \in Deployments : Frame(e)
    <3>1. incidents' = incidents \/ incidents' = [incidents EXCEPT ![d] = frozen]
      BY <1>5 DEF FreezeEvidence, freezeEvidence
    <3> HIDE DEF frozen
    <3>2. QED
      BY <1>a, <2>2, <2>3, <3>1 DEF TypeOK
  <2>5. WorkersKept
    BY <2>1, <2>4, HolderFacts
  <2>6. GoroutinesKept
    BY <1>5, <2>4, HolderFacts DEF FreezeEvidence
  <2>7. QED
    BY <1>e, <2>5, <2>6
<1>6. ASSUME NEW w \in Workers, Dispatch(w)
      PROVE  ClaimKeepsIncident'
  <2> DEFINE d == worker[w].dep
  <2>1. worker[w].pc \in HoldingPCs /\ d \in Deployments
    BY <1>6, <1>a DEF Dispatch, TypeOK, HoldingPCs
  <2>2. /\ Active(incidents[d]) /\ incidents[d].id = worker[w].incident
    BY <1>a, <2>1 DEF ClaimKeepsIncident
  <2>3. \A n : LET r == [incidents[d] EXCEPT !.attemptCount = n]
               IN  r.id = incidents[d].id /\ r.terminalOutcome = incidents[d].terminalOutcome
    BY <1>b, <2>1 DEF Record
  <2>4. \A e \in Deployments : Frame(e)
    BY <1>6, <1>a, <2>1, <2>3 DEF Dispatch, TypeOK
  <2>5. \A v \in Workers : worker'[v].pc \in HoldingPCs => worker'[v] = worker[v]
    BY <1>6, <1>a, <1>g DEF Dispatch, TypeOK
  <2>6. WorkersKept
    BY <2>4, <2>5, HolderFacts
  <2>7. ASSUME NEW f \in goroutines', f.pc = "remediate"
        PROVE  incidents'[f.dep].id = f.incident /\ Active(incidents'[f.dep])
    <3>1. CASE f \in goroutines
      <4>1. /\ incidents[f.dep].id = f.incident /\ Active(incidents[f.dep])
            /\ f.dep \in Deployments
        BY <1>a, <2>7, <3>1, HolderFacts DEF ClaimKeepsIncident
      <4>2. QED
        BY <2>4, <4>1 DEF Active, Present
    <3>2. CASE f \notin goroutines
      <4>1. f.dep = d /\ f.incident = worker[w].incident
        BY <1>6, <3>2 DEF Dispatch
      <4>2. QED
        BY <2>1, <2>2, <2>4, <4>1 DEF Active, Present
    <3>3. QED
      BY <3>1, <3>2
  <2>8. QED
    BY <1>c, <2>6, <2>7 DEF ClaimKeepsIncident
<1>7. ASSUME NEW w \in Workers, CloseInReconcile(w)
      PROVE  ClaimKeepsIncident'
  <2>1. \A v \in Workers : worker'[v].pc \in HoldingPCs => worker'[v] = worker[v]
    BY <1>7, <1>a, <1>g DEF CloseInReconcile, TypeOK
  <2>2. QED
    BY <1>7, <1>f, <2>1 DEF CloseInReconcile
<1>8. ASSUME NEW g \in goroutines, MoveSpec(g)
      PROVE  ClaimKeepsIncident'
  <2>1. LET r == [g EXCEPT !.moves = g.moves + 1]
        IN  r.pc = g.pc /\ r.dep = g.dep /\ r.incident = g.incident
    BY <1>a DEF TypeOK, Goroutine
  <2>2. GoroutinesKept
    BY <1>8, <2>1 DEF MoveSpec
  <2>3. WorkersKept
    BY <1>8 DEF MoveSpec
  <2>4. QED
    BY <1>e, <2>2, <2>3
<1>9. ASSUME NEW g \in goroutines, NEW result \in Results, Finish(g, result)
      PROVE  ClaimKeepsIncident'
  <2>1. g.pc = "remediate" /\ g.dep \in Deployments /\ g \in Goroutine
    BY <1>9, <1>a DEF Finish, TypeOK, Goroutine
  <2>2. Present(incidents[g.dep])
    BY <1>a, <2>1 DEF ClaimKeepsIncident, Active
  <2>3. \A e \in Deployments \ {g.dep} : Frame(e)
    BY <1>9, <1>a, <2>1, <2>2, EndAttemptFacts DEF Finish
  <2>4. \A v \in Workers : worker[v].pc \in HoldingPCs => worker[v].dep \in Deployments \ {g.dep}
    BY <2>1, HolderFacts DEF WorkerHolds
  <2>5. \A f \in goroutines \ {g} : f.pc = "remediate" => f.dep \in Deployments \ {g.dep}
    BY <2>1, HolderFacts DEF GoroutineHolds
  <2>6. [g EXCEPT !.pc = "close"].pc # "remediate"
    BY <2>1 DEF Goroutine
  <2>7. GoroutinesKept
    BY <1>9, <2>3, <2>5, <2>6 DEF Finish
  <2>8. WorkersKept
    BY <1>9, <2>3, <2>4 DEF Finish
  <2>9. QED
    BY <1>e, <2>7, <2>8
<1>10. ASSUME NEW g \in goroutines, CloseInGoroutine(g)
       PROVE  ClaimKeepsIncident'
  BY <1>10, <1>f DEF CloseInGoroutine
<1>11. ASSUME NEW d \in Deployments, HumanEdit(d) \/ CacheSync(d)
       PROVE  ClaimKeepsIncident'
  BY <1>11, <1>f DEF HumanEdit, CacheSync
<1>12. ASSUME Tick PROVE ClaimKeepsIncident'
  <2>1. \A e \in Deployments : Frame(e)
    BY <1>12, <1>b, AgedFacts DEF Tick
  <2>2. WorkersKept
    BY <1>12, <2>1, HolderFacts DEF Tick
  <2>3. GoroutinesKept
    BY <1>12, <2>1, HolderFacts DEF Tick
  <2>4. QED
    BY <1>e, <2>2, <2>3
<1>13. ASSUME Restart PROVE ClaimKeepsIncident'
  BY <1>13, <1>g DEF Restart, ClaimKeepsIncident
<1>14. CASE UNCHANGED vars
  BY <1>14, <1>f DEF vars
<1>15. ASSUME NEW w \in Workers, ReconcileStep(w) PROVE ClaimKeepsIncident'
  BY <1>2, <1>3, <1>4, <1>5, <1>6, <1>7, <1>15 DEF ReconcileStep
<1>16. ASSUME NEW g \in goroutines, MoveSpec(g) \/ Return(g) PROVE ClaimKeepsIncident'
  BY <1>8, <1>9, <1>10, <1>16 DEF Return
<1>17. QED
  BY <1>1, <1>11, <1>12, <1>13, <1>14, <1>15, <1>16 DEF Next

(* At most one holder, and inFlight says whether there is one. *)
LEMMA ExclusiveNext ==
  ASSUME ClaimInv, [Next]_vars
  PROVE  ClaimExclusive'
<1>a. TypeOK /\ ClaimExclusive /\ ClaimKeepsIncident
  BY DEF ClaimInv
<1>b. \A d \in Deployments : incidents[d] \in Record
  BY <1>a DEF TypeOK
<1> DEFINE SameFlight(e) == incidents'[e].inFlight = incidents[e].inFlight
           SameWorkers == \A v \in Workers, e \in Deployments :
                            WorkerHolds(v, e)' <=> WorkerHolds(v, e)
           SameGoroutines == {f \in goroutines' : f.pc = "remediate"}
                               = {f \in goroutines : f.pc = "remediate"}
<1>c. ASSUME SameWorkers, SameGoroutines, \A e \in Deployments : SameFlight(e)
      PROVE  ClaimExclusive'
  <2>1. \A e, f : (f \in goroutines' /\ GoroutineHolds(f, e))
                  <=> (f \in goroutines /\ GoroutineHolds(f, e))
    BY <1>c DEF GoroutineHolds
  <2>2. QED
    BY <1>a, <1>c, <2>1 DEF ClaimExclusive
<1>d. ASSUME SameGoroutines, \A e \in Deployments : SameFlight(e),
             \A v \in Workers : \/ worker'[v] = worker[v]
                               \/ /\ worker[v].pc \notin HoldingPCs
                                  /\ worker'[v].pc \notin HoldingPCs
                               \/ /\ worker[v].pc \in HoldingPCs
                                  /\ worker'[v].pc \in HoldingPCs
                                  /\ worker'[v].dep = worker[v].dep
      PROVE  ClaimExclusive'
  <2>1. SameWorkers
    BY <1>d DEF WorkerHolds
  <2>2. QED
    BY <1>c, <1>d, <2>1
<1>g. IdleWorker.pc = "idle" /\ IdleWorker.pc \notin HoldingPCs
  BY DEF IdleWorker, HoldingPCs
<1>1. ASSUME NEW w \in Workers, NEW d \in Deployments, Observe(w, d)
      PROVE  ClaimExclusive'
  <2>1. PICK g : worker' = [worker EXCEPT ![w] =
                       [IdleWorker EXCEPT !.pc = "begin", !.dep = d, !.gen = g]]
    BY <1>1 DEF Observe
  <2>2. [IdleWorker EXCEPT !.pc = "begin", !.dep = d, !.gen = g].pc \notin HoldingPCs
    BY DEF IdleWorker, HoldingPCs
  <2>3. worker[w].pc \notin HoldingPCs
    BY <1>1 DEF Observe, HoldingPCs
  <2>4. /\ worker'[w].pc \notin HoldingPCs
        /\ \A v \in Workers \ {w} : worker'[v] = worker[v]
    BY <1>a, <2>1, <2>2 DEF TypeOK
  <2>5. QED
    BY <1>1, <1>d, <2>3, <2>4 DEF Observe
<1>2. ASSUME NEW w \in Workers, BeginAttempt(w)
      PROVE  ClaimExclusive'
  <2> DEFINE d == worker[w].dep
  <2>1. /\ worker[w].pc \notin HoldingPCs
        /\ \A v \in Workers \ {w} : worker'[v] = worker[v]
        /\ goroutines' = goroutines
    BY <1>2, <1>a DEF TypeOK, BeginAttempt, SkipQuiet, SkipActive, Exhaust, Claim, HoldingPCs
  <2>2. CASE SkipQuiet(w)
    <3>1. worker'[w].pc \notin HoldingPCs /\ incidents' = incidents
      BY <1>a, <1>g, <2>2 DEF SkipQuiet, TypeOK
    <3>2. QED
      BY <1>d, <2>1, <3>1
  <2>3. CASE ~SkipQuiet(w)
    <3>1. /\ d \in Deployments
          /\ \A e \in Deployments \ {d} : incidents'[e] = incidents[e]
          /\ ~Claim(w) => SameFlight(d)
          /\ Claim(w) => ~incidents[d].inFlight /\ incidents'[d].inFlight
      BY <1>a, <1>2, <2>3, BeginFacts DEF TypeOK
    <3>2. CASE ~Claim(w)
      <4>1. worker'[w].pc \notin HoldingPCs
        BY <1>2, <1>a, <1>g, <2>3, <3>2
           DEF BeginAttempt, SkipActive, Exhaust, TypeOK, WorkerState, HoldingPCs
      <4>2. QED
        BY <1>d, <2>1, <3>1, <3>2, <4>1
    <3>3. CASE Claim(w)
      <4>1. worker'[w].pc \in HoldingPCs /\ worker'[w].dep = d
        BY <3>3, <1>a DEF Claim, TypeOK, WorkerState, HoldingPCs
      <4>2. /\ \A v \in Workers : ~WorkerHolds(v, d)
            /\ \A g \in goroutines : ~GoroutineHolds(g, d)
        BY <1>a, <3>1, <3>3 DEF ClaimExclusive
      <4>3. \A v \in Workers, e \in Deployments :
              WorkerHolds(v, e)' <=> (v = w /\ e = d) \/ WorkerHolds(v, e)
        BY <2>1, <4>1 DEF WorkerHolds
      <4>4. \A e \in Deployments : incidents'[e].inFlight <=> (e = d \/ incidents[e].inFlight)
        BY <3>1, <3>3
      <4>5. \A g, e : GoroutineHolds(g, e)' <=> GoroutineHolds(g, e)
        BY DEF GoroutineHolds
      <4>6. QED
        BY <1>a, <2>1, <4>2, <4>3, <4>4, <4>5 DEF ClaimExclusive
    <3>4. QED
      BY <3>2, <3>3
  <2>4. QED
    BY <2>2, <2>3
<1>3. ASSUME NEW w \in Workers, EscalateBlind(w) \/ Escalate(w) \/ Reject(w)
      PROVE  ClaimExclusive'
  <2> DEFINE d == worker[w].dep
  <2>1. worker[w].pc \in HoldingPCs /\ d \in Deployments /\ goroutines' = goroutines
    BY <1>3, <1>a DEF EscalateBlind, Escalate, Reject, HoldingPCs, TypeOK
  <2>2. Present(incidents[d])
    BY <1>a, <2>1 DEF ClaimKeepsIncident, Active
  <2>3. PICK outcome, h : /\ outcome \in TerminalOutcomes
                          /\ endAttempt(d, worker[w].incident, outcome, h)
    BY <1>3 DEF EscalateBlind, Escalate, Reject, TerminalOutcomes
  <2>4. /\ incidents'[d].inFlight = FALSE
        /\ \A e \in Deployments \ {d} : incidents'[e] = incidents[e]
    BY <1>a, <2>1, <2>2, <2>3, EndAttemptFacts
  <2>5. /\ worker'[w].pc \notin HoldingPCs
        /\ \A v \in Workers \ {w} : worker'[v] = worker[v]
    BY <1>3, <1>a DEF EscalateBlind, Escalate, Reject, TypeOK, WorkerState, HoldingPCs
  <2>6. /\ \A v \in Workers \ {w} : ~WorkerHolds(v, d)
        /\ \A g \in goroutines : ~GoroutineHolds(g, d)
    BY <2>1, HolderFacts
  <2>7. \A v \in Workers, e \in Deployments :
          WorkerHolds(v, e)' <=> e # d /\ WorkerHolds(v, e)
    BY <2>5, <2>6 DEF WorkerHolds
  <2>8. \A g, e : GoroutineHolds(g, e)' <=> GoroutineHolds(g, e)
    BY DEF GoroutineHolds
  <2>9. \A e \in Deployments : incidents'[e].inFlight <=> (e # d /\ incidents[e].inFlight)
    BY <2>1, <2>4
  <2>10. QED
    BY <1>a, <2>1, <2>6, <2>7, <2>8, <2>9 DEF ClaimExclusive
<1>4. ASSUME NEW w \in Workers, ReuseEvidence(w) \/ CollectEvidence(w) \/ FreezeEvidence(w)
      PROVE  ClaimExclusive'
  <2>1. worker[w] \in WorkerState /\ worker[w].pc \in HoldingPCs /\ worker[w].dep \in Deployments
    BY <1>4, <1>a DEF ReuseEvidence, CollectEvidence, FreezeEvidence, TypeOK, HoldingPCs
  <2>2. PICK pc \in {"freeze", "classify"} :
          \E b : worker' = [worker EXCEPT ![w].pc = pc, ![w].bundle = b]
    <3>1. CASE FreezeEvidence(w)
      <4>1. worker' = [worker EXCEPT ![w].pc = "classify", ![w].bundle = worker[w].bundle]
        BY <1>a, <2>1, <3>1 DEF FreezeEvidence, TypeOK, WorkerState
      <4>2. QED
        BY <4>1
    <3>2. CASE ~FreezeEvidence(w)
      BY <1>4, <3>2 DEF ReuseEvidence, CollectEvidence
    <3>3. QED
      BY <3>1, <3>2
  <2>3. /\ worker'[w].dep = worker[w].dep /\ worker'[w].pc \in HoldingPCs
        /\ \A v \in Workers \ {w} : worker'[v] = worker[v]
    BY <1>a, <2>1, <2>2 DEF TypeOK, WorkerState, HoldingPCs
  <2> DEFINE frozen == [incidents[worker[w].dep] EXCEPT !.evidence = worker[w].bundle]
  <2>4. frozen.inFlight = incidents[worker[w].dep].inFlight
    BY <1>b, <2>1 DEF Record
  <2>5. incidents' = incidents \/ incidents' = [incidents EXCEPT ![worker[w].dep] = frozen]
    BY <1>4 DEF ReuseEvidence, CollectEvidence, FreezeEvidence, freezeEvidence
  <2> HIDE DEF frozen
  <2>6. \A e \in Deployments : SameFlight(e)
    BY <1>a, <2>1, <2>4, <2>5 DEF TypeOK
  <2>7. goroutines' = goroutines
    BY <1>4 DEF ReuseEvidence, CollectEvidence, FreezeEvidence
  <2>8. QED
    BY <1>d, <2>1, <2>3, <2>6, <2>7
<1>5. ASSUME NEW w \in Workers, Dispatch(w)
      PROVE  ClaimExclusive'
  <2> DEFINE d == worker[w].dep
  <2>1. worker[w].pc \in HoldingPCs /\ d \in Deployments
    BY <1>5, <1>a DEF Dispatch, TypeOK, HoldingPCs
  <2>2. \A e \in Deployments : SameFlight(e)
    <3>1. PICK n : incidents' = incidents
                    \/ incidents' = [incidents EXCEPT ![d] = [incidents[d] EXCEPT !.attemptCount = n]]
      BY <1>5 DEF Dispatch
    <3>2. [incidents[d] EXCEPT !.attemptCount = n].inFlight = incidents[d].inFlight
      BY <1>b, <2>1 DEF Record
    <3>3. QED
      BY <1>a, <2>1, <3>1, <3>2 DEF TypeOK
  <2>3. PICK n : goroutines' = goroutines \union
                   {[dep |-> d, incident |-> worker[w].incident, attempt |-> n,
                     pc |-> "remediate", moves |-> 0]}
    BY <1>5 DEF Dispatch
  <2> DEFINE new == [dep |-> d, incident |-> worker[w].incident, attempt |-> n,
                     pc |-> "remediate", moves |-> 0]
  <2>4. /\ \A v \in Workers \ {w} : ~WorkerHolds(v, d)
        /\ \A g \in goroutines : ~GoroutineHolds(g, d)
        /\ incidents[d].inFlight
    BY <2>1, HolderFacts
  <2>5. /\ worker'[w].pc \notin HoldingPCs
        /\ \A v \in Workers \ {w} : worker'[v] = worker[v]
    BY <1>5, <1>a, <1>g DEF Dispatch, TypeOK
  <2>6. \A v \in Workers, e \in Deployments :
          WorkerHolds(v, e)' <=> e # d /\ WorkerHolds(v, e)
    BY <2>4, <2>5 DEF WorkerHolds
  <2>7. /\ goroutines' = goroutines \union {new}
        /\ \A e : GoroutineHolds(new, e) <=> e = d
    BY <2>3 DEF GoroutineHolds
  <2>8. \A g, e : GoroutineHolds(g, e)' <=> GoroutineHolds(g, e)
    BY DEF GoroutineHolds
  <2> HIDE DEF new
  <2>9. QED
    BY <1>a, <2>1, <2>2, <2>4, <2>6, <2>7, <2>8 DEF ClaimExclusive
<1>6. ASSUME NEW w \in Workers, CloseInReconcile(w)
      PROVE  ClaimExclusive'
  <2>1. /\ worker[w].pc \notin HoldingPCs /\ worker'[w].pc \notin HoldingPCs
        /\ \A v \in Workers \ {w} : worker'[v] = worker[v]
    BY <1>6, <1>a, <1>g DEF CloseInReconcile, TypeOK, HoldingPCs
  <2>2. QED
    BY <1>6, <1>d, <2>1 DEF CloseInReconcile
<1>7. ASSUME NEW g \in goroutines, MoveSpec(g)
      PROVE  ClaimExclusive'
  <2> DEFINE new == [g EXCEPT !.moves = g.moves + 1]
  <2>1. \A e : GoroutineHolds(new, e) <=> GoroutineHolds(g, e)
    BY <1>a DEF TypeOK, Goroutine, GoroutineHolds
  <2>2. goroutines' = (goroutines \ {g}) \union {new}
    BY <1>7 DEF MoveSpec
  <2>3. worker' = worker /\ incidents' = incidents
    BY <1>7 DEF MoveSpec
  <2>4. \A v, e : WorkerHolds(v, e)' <=> WorkerHolds(v, e)
    BY <2>3 DEF WorkerHolds
  <2>5. \A f, e : GoroutineHolds(f, e)' <=> GoroutineHolds(f, e)
    BY DEF GoroutineHolds
  <2> HIDE DEF new
  <2>6. QED
    BY <1>a, <2>1, <2>2, <2>3, <2>4, <2>5 DEF ClaimExclusive
<1>8. ASSUME NEW g \in goroutines, NEW result \in Results, Finish(g, result)
      PROVE  ClaimExclusive'
  <2> DEFINE d == g.dep
             new == [g EXCEPT !.pc = "close"]
  <2>1. g.pc = "remediate" /\ d \in Deployments /\ g \in Goroutine
    BY <1>8, <1>a DEF Finish, TypeOK, Goroutine
  <2>2. Present(incidents[d])
    BY <1>a, <2>1 DEF ClaimKeepsIncident, Active
  <2>3. /\ incidents'[d].inFlight = FALSE
        /\ \A e \in Deployments \ {d} : incidents'[e] = incidents[e]
    BY <1>8, <1>a, <2>1, <2>2, EndAttemptFacts DEF Finish
  <2>4. /\ \A v \in Workers : ~WorkerHolds(v, d)
        /\ \A f \in goroutines \ {g} : ~GoroutineHolds(f, d)
    BY <2>1, HolderFacts
  <2>5. \A e : ~GoroutineHolds(new, e)
    BY <2>1 DEF Goroutine, GoroutineHolds
  <2>6. \A e : GoroutineHolds(g, e) <=> e = d
    BY <2>1 DEF GoroutineHolds
  <2>7. goroutines' = (goroutines \ {g}) \union {new} /\ worker' = worker
    BY <1>8 DEF Finish
  <2>8. \A v, e : WorkerHolds(v, e)' <=> WorkerHolds(v, e)
    BY <2>7 DEF WorkerHolds
  <2>9. \A f, e : GoroutineHolds(f, e)' <=> GoroutineHolds(f, e)
    BY DEF GoroutineHolds
  <2> HIDE DEF new
  <2>10. QED
    BY <1>a, <2>1, <2>3, <2>4, <2>5, <2>6, <2>7, <2>8, <2>9 DEF ClaimExclusive
<1>9. ASSUME NEW g \in goroutines, CloseInGoroutine(g)
      PROVE  ClaimExclusive'
  BY <1>9, <1>d DEF CloseInGoroutine
<1>10. ASSUME NEW d \in Deployments, HumanEdit(d) \/ CacheSync(d)
       PROVE  ClaimExclusive'
  BY <1>10, <1>d DEF HumanEdit, CacheSync
<1>11. ASSUME Tick PROVE ClaimExclusive'
  <2>1. \A e \in Deployments : SameFlight(e)
    BY <1>11, <1>b, AgedFacts DEF Tick
  <2>2. QED
    BY <1>11, <1>d, <2>1 DEF Tick
<1>12. ASSUME Restart PROVE ClaimExclusive'
  <2>1. /\ \A e \in Deployments : incidents'[e].inFlight = FALSE
        /\ \A v \in Workers : worker'[v].pc \notin HoldingPCs
        /\ goroutines' = {}
    BY <1>12, <1>g DEF Restart, Missing, NewRecord
  <2>2. QED
    BY <2>1 DEF ClaimExclusive, WorkerHolds
<1>13. CASE UNCHANGED vars
  BY <1>13, <1>d DEF vars
<1>14. ASSUME NEW w \in Workers, ReconcileStep(w) PROVE ClaimExclusive'
  BY <1>2, <1>3, <1>4, <1>5, <1>6, <1>14 DEF ReconcileStep
<1>15. ASSUME NEW g \in goroutines, MoveSpec(g) \/ Return(g) PROVE ClaimExclusive'
  BY <1>7, <1>8, <1>9, <1>15 DEF Return
<1>16. QED
  BY <1>1, <1>10, <1>11, <1>12, <1>13, <1>14, <1>15 DEF Next

(* The initial states satisfy the invariant: nothing is claimed. *)
LEMMA ClaimInit == Init => ClaimInv
<1> SUFFICES ASSUME Init PROVE ClaimInv
  OBVIOUS
<1>1. TypeOK
  BY TypeInit
<1>2. /\ \A d \in Deployments : incidents[d] = Missing
      /\ \A w \in Workers : worker[w] = IdleWorker
      /\ goroutines = {} /\ hist = <<>>
  BY DEF Init
<1>3. /\ Missing.id = 0 /\ Missing.inFlight = FALSE
      /\ IdleWorker.pc \notin HoldingPCs
  BY DEF Missing, NewRecord, IdleWorker, HoldingPCs
<1>4. IdsIssued
  <2>1. Len(hist) = 0 /\ Len(hist) \in Nat
    BY <1>2
  <2>2. \A d \in Deployments : incidents[d].id = 0
    BY <1>2, <1>3
  <2> SUFFICES ASSUME NEW d \in Deployments
               PROVE  /\ incidents[d].id <= Len(hist)
                      /\ Present(incidents[d]) => hist[incidents[d].id].dep = d
    BY DEF IdsIssued
  <2>3. incidents[d].id <= Len(hist)
    <3>1. 0 <= 0
      OBVIOUS
    <3>2. QED
      BY <2>1, <2>2, <3>1
  <2>4. ~Present(incidents[d])
    BY <2>2 DEF Present
  <2>5. QED
    BY <2>3, <2>4
<1>5. ClaimExclusive
  BY <1>2, <1>3 DEF ClaimExclusive, WorkerHolds
<1>6. ClaimKeepsIncident
  BY <1>2, <1>3 DEF ClaimKeepsIncident
<1>7. QED
  BY <1>1, <1>4, <1>5, <1>6 DEF ClaimInv

(* ... and every step keeps it, conjunct by conjunct. *)
LEMMA ClaimStep == ClaimInv /\ [Next]_vars => ClaimInv'
<1> SUFFICES ASSUME ClaimInv, [Next]_vars PROVE ClaimInv'
  OBVIOUS
<1>1. TypeOK'
  BY TypeNext DEF ClaimInv
<1>2. IdsIssued' /\ ClaimExclusive' /\ ClaimKeepsIncident'
  BY IdsNext, ExclusiveNext, KeepsNext
<1>3. QED
  BY <1>1, <1>2 DEF ClaimInv

(* The inductive invariant of the claim. *)
THEOREM ClaimInvariant == Spec => []ClaimInv
<1>1. Init => ClaimInv
  BY ClaimInit
<1>2. ClaimInv /\ [Next]_vars => ClaimInv'
  BY ClaimStep
<1>3. QED
  BY <1>1, <1>2, PTL DEF Spec

(* Type correctness of the incident manager. *)
THEOREM TypeCorrect == Spec => []TypeOK
<1>1. ClaimInv => TypeOK
  BY DEF ClaimInv
<1>2. QED
  BY <1>1, ClaimInvariant, PTL

(* No second remediation of a Deployment, whatever the number of concurrent *)
(* reconciles, edits, stale reads and restarts: the mutual exclusion        *)
(* beginAttempt and endAttempt promise.                                     *)
THEOREM ClaimIsExclusive == Spec => []ClaimExclusive
<1>1. ClaimInv => ClaimExclusive
  BY DEF ClaimInv
<1>2. QED
  BY <1>1, ClaimInvariant, PTL

(* The record a holder looks up again by key is the one it was admitted     *)
(* for: no generation change, cooldown or other reconcile replaces it.      *)
THEOREM ClaimKeepsItsIncident == Spec => []ClaimKeepsIncident
<1>1. ClaimInv => ClaimKeepsIncident
  BY DEF ClaimInv
<1>2. QED
  BY <1>1, ClaimInvariant, PTL

=============================================================================
