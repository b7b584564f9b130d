---------------------------- MODULE SystemProofs ----------------------------
(***************************************************************************)
(* Theorems about module System: Remediate runs under the claim of its own *)
(* incident, an incident that recovered has the lines that say so, and the *)
(* composition implements module Incident.                                 *)
(*                                                                         *)
(* The invariants of both components are those of IncidentHistoryProofs    *)
(* and RemediationProofs; what is proved here is how they fit together.    *)
(***************************************************************************)
EXTENDS System, FiniteSetTheorems, TLAPS

P == INSTANCE IncidentHistoryProofs WITH
       Deployments <- {Dep}, Workers <- {Worker}, MaxAttempts <- Budget,
       AuditMayFail <- "encode" \in Faults,
       MaxGeneration <- MaxVersions + 2 * MaxTries,
       generation <- Generation, cached <- Cached, audit <- terminal

S == INSTANCE RemediationProofs WITH MaxAttempts <- MaxTries, audit <- trails

-----------------------------------------------------------------------------
(* The inductive invariant. *)

(* The versions the current attempt may still write. *)
Left == IF pc \in S!BeforeUndo THEN 2 ELSE IF pc \in S!BeforeRestore THEN 1 ELSE 0

(* Others stop at MaxVersions, and every attempt adds two versions at most. *)
VersionsBounded == Len(versions) + Left <= MaxVersions + 2 * attempt

(* The goroutine has counted the changes its attempt made to the spec, and  *)
(* made at most one when it recovered.                                      *)
MovesCounted ==
  \A g \in goroutines : g.pc = "remediate" =>
    g.moves + Left <= 2 /\ (result = "recovered" => g.moves < 2)

AttemptsOrdered == attemptOf \in Seq(Nat) /\ Len(attemptOf) = attempt

(* Remediate runs in a goroutine, which is the one of the last attempt.     *)
RunsInGoroutine ==
  /\ pc # "idle" => \E g \in goroutines : g.pc = "remediate"
  /\ \A g \in goroutines : g.pc = "remediate" =>
       attempt > 0 /\ g.incident = attemptOf[attempt]

(* A result was logged before it was returned. *)
ResultIsLogged == result = "recovered" => attempt > 0 /\ EndsRecovered(attempt)

SystemInv ==
  /\ P!LifeInv /\ S!Base
  /\ VersionsBounded /\ MovesCounted
  /\ AttemptsOrdered /\ RunsInGoroutine
  /\ ResultIsLogged /\ RecoveredIsLogged

-----------------------------------------------------------------------------
(* The instances agree: module Incident read by System and by its proofs,   *)
(* and module Remediation likewise.                                         *)

LEMMA Assumptions ==
  P!ConstantsAssumption /\ P!AgeCapAssumption /\ S!ConstantsAssumption
<1>1. MaxVersions + 2 * MaxTries \in Nat \ {0}
  BY RemediationAssumption
<1>2. \A n : P!attemptBackoff(n) = I!attemptBackoff(n)
  BY DEF P!attemptBackoff, I!attemptBackoff
<1>3. P!ConstantsAssumption
  BY <1>1, IncidentAssumption DEF P!ConstantsAssumption
<1>4. P!AgeCapAssumption
  BY <1>2, IncidentAssumption DEF P!AgeCapAssumption
<1>5. S!AllFaults = R!AllFaults
  BY DEF S!AllFaults, R!AllFaults
<1>6. S!ConstantsAssumption
  BY <1>5, RemediationAssumption DEF S!ConstantsAssumption
<1>7. QED
  BY <1>3, <1>4, <1>6

LEMMA SameBegin ==
  ASSUME NEW w
  PROVE  /\ I!Observe(w, Dep) <=> P!Observe(w, Dep)
         /\ I!BeginAttempt(w) <=> P!BeginAttempt(w)
<1>1. /\ I!IdleWorker = P!IdleWorker
      /\ \A r : I!Present(r) <=> P!Present(r)
      /\ \A i : I!NewRecord(i) = P!NewRecord(i)
  BY DEF I!IdleWorker, P!IdleWorker, I!Present, P!Present, I!NewRecord, P!NewRecord
<1>2. \A r : I!Terminal(r) <=> P!Terminal(r)
  BY <1>1 DEF I!Terminal, P!Terminal
<1>3. \A r, g : I!SpecChanged(r, g) <=> P!SpecChanged(r, g)
  BY <1>2 DEF I!SpecChanged, P!SpecChanged
<1>4. \A r, g : I!Quiet(r, g) <=> P!Quiet(r, g)
  BY <1>2, <1>3 DEF I!Quiet, P!Quiet
<1>5. \A r, g : I!Opens(r, g) <=> P!Opens(r, g)
  BY <1>1, <1>2, <1>3, <1>4 DEF I!Opens, P!Opens
<1>6. \A r : I!BackingOff(r) <=> P!BackingOff(r)
  BY DEF I!BackingOff, P!BackingOff, I!attemptBackoff, P!attemptBackoff
<1>7. \A r : I!Decision(r) = P!Decision(r)
  BY <1>6 DEF I!Decision, P!Decision
<1>8. \A r : I!Decided(r) = P!Decided(r)
  BY <1>7 DEF I!Decided, P!Decided
<1>9. I!Considered(w) = P!Considered(w) /\ I!Opened(w) = P!Opened(w)
  BY <1>1, <1>5 DEF I!Considered, P!Considered, I!Opened, P!Opened, I!NewHistory, P!NewHistory
<1>10. I!Observe(w, Dep) <=> P!Observe(w, Dep)
  BY <1>1 DEF I!Observe, P!Observe
<1>11. (I!SkipQuiet(w) <=> P!SkipQuiet(w)) /\ (I!SkipActive(w) <=> P!SkipActive(w))
  BY <1>1, <1>4, <1>7, <1>8, <1>9 DEF I!SkipQuiet, P!SkipQuiet, I!SkipActive, P!SkipActive
<1>12. (I!Exhaust(w) <=> P!Exhaust(w)) /\ (I!Claim(w) <=> P!Claim(w))
  BY <1>4, <1>7, <1>8, <1>9 DEF I!Exhaust, P!Exhaust, I!Claim, P!Claim
<1>13. QED
  BY <1>10, <1>11, <1>12 DEF I!BeginAttempt, P!BeginAttempt

LEMMA SameEnd ==
  ASSUME NEW d, NEW inc, NEW outcome, NEW h
  PROVE  /\ I!endAttempt(d, inc, outcome, h) <=> P!endAttempt(d, inc, outcome, h)
         /\ I!closeIncidentIfTerminal(d) <=> P!closeIncidentIfTerminal(d)
<1>1. \A r : (I!Present(r) <=> P!Present(r)) /\ (I!Terminal(r) <=> P!Terminal(r))
  BY DEF I!Present, P!Present, I!Terminal, P!Terminal
<1>2. \A r, o : I!Released(r, o) = P!Released(r, o)
  BY DEF I!Released, P!Released
<1>3. I!TerminalOutcomes = P!TerminalOutcomes
  BY DEF I!TerminalOutcomes, P!TerminalOutcomes
<1>4. I!endAttempt(d, inc, outcome, h) <=> P!endAttempt(d, inc, outcome, h)
  BY <1>1, <1>2, <1>3 DEF I!endAttempt, P!endAttempt
<1>5. I!closeIncidentIfTerminal(d) <=> P!closeIncidentIfTerminal(d)
  BY <1>1 DEF I!closeIncidentIfTerminal, P!closeIncidentIfTerminal
<1>6. QED
  BY <1>4, <1>5

LEMMA SameDispatch ==
  ASSUME NEW w
  PROVE  I!Dispatch(w) <=> P!Dispatch(w)
<1>1. /\ I!IdleWorker = P!IdleWorker
      /\ \A r : I!Present(r) <=> P!Present(r)
  BY DEF I!IdleWorker, P!IdleWorker, I!Present, P!Present
<1>2. I!Classified(w) = P!Classified(w)
  BY DEF I!Classified, P!Classified, I!ClassifiedOn, P!ClassifiedOn
<1>3. QED
  BY <1>1, <1>2 DEF I!Dispatch, P!Dispatch

LEMMA SameReconcile ==
  ASSUME NEW w
  PROVE  I!ReconcileStep(w) <=> P!ReconcileStep(w)
<1>1. /\ I!IdleWorker = P!IdleWorker
      /\ \A r : I!Present(r) <=> P!Present(r)
  BY DEF I!IdleWorker, P!IdleWorker, I!Present, P!Present
<1>2. I!Classified(w) = P!Classified(w)
  BY DEF I!Classified, P!Classified, I!ClassifiedOn, P!ClassifiedOn
<1>3. I!EscalateBlind(w) <=> P!EscalateBlind(w)
  BY SameEnd DEF I!EscalateBlind, P!EscalateBlind
<1>4. I!ReuseEvidence(w) <=> P!ReuseEvidence(w)
  BY DEF I!ReuseEvidence, P!ReuseEvidence
<1>5. I!CollectEvidence(w) <=> P!CollectEvidence(w)
  BY DEF I!CollectEvidence, P!CollectEvidence
<1>6. I!FreezeEvidence(w) <=> P!FreezeEvidence(w)
  BY <1>1 DEF I!FreezeEvidence, P!FreezeEvidence, I!freezeEvidence, P!freezeEvidence
<1>7. (I!Escalate(w) <=> P!Escalate(w)) /\ (I!Reject(w) <=> P!Reject(w))
  BY <1>2, SameEnd DEF I!Escalate, P!Escalate, I!Reject, P!Reject
<1>8. I!Dispatch(w) <=> P!Dispatch(w)
  BY SameDispatch
<1>9. I!CloseInReconcile(w) <=> P!CloseInReconcile(w)
  BY <1>1, SameEnd DEF I!CloseInReconcile, P!CloseInReconcile
<1>10. I!BeginAttempt(w) <=> P!BeginAttempt(w)
  BY SameBegin
<1>11. QED
  BY <1>3, <1>4, <1>5, <1>6, <1>7, <1>8, <1>9, <1>10 DEF I!ReconcileStep, P!ReconcileStep

(* ... the goroutines, the cluster and the process. *)
LEMMA SameSteps ==
  /\ \A g : I!MoveSpec(g) <=> P!MoveSpec(g)
  /\ \A g, r : I!Finish(g, r) <=> P!Finish(g, r)
  /\ \A g : I!CloseInGoroutine(g) <=> P!CloseInGoroutine(g)
  /\ \A d \in {Dep} : (I!HumanEdit(d) <=> P!HumanEdit(d)) /\ (I!CacheSync(d) <=> P!CacheSync(d))
  /\ I!Tick <=> P!Tick
  /\ I!Restart <=> P!Restart
<1>1. \A g : I!MoveSpec(g) <=> P!MoveSpec(g)
  BY DEF I!MoveSpec, P!MoveSpec, I!MaxMoves, P!MaxMoves
<1>2. \A g, r : I!Finish(g, r) <=> P!Finish(g, r)
  BY SameEnd DEF I!Finish, P!Finish, I!MaxMoves, P!MaxMoves
<1>3. \A g : I!CloseInGoroutine(g) <=> P!CloseInGoroutine(g)
  BY SameEnd DEF I!CloseInGoroutine, P!CloseInGoroutine
<1>4. \A d \in {Dep} : (I!HumanEdit(d) <=> P!HumanEdit(d)) /\ (I!CacheSync(d) <=> P!CacheSync(d))
  BY DEF I!HumanEdit, P!HumanEdit, I!CacheSync, P!CacheSync
<1>5. I!Tick <=> P!Tick
  BY DEF I!Tick, P!Tick, I!Aged, P!Aged, I!Older, P!Older, I!AgedHistory, P!AgedHistory,
       I!Terminal, P!Terminal, I!Active, P!Active, I!Present, P!Present
<1>6. I!Restart <=> P!Restart
  BY DEF I!Restart, P!Restart, I!Missing, P!Missing, I!NewRecord, P!NewRecord, I!IdleWorker,
       P!IdleWorker
<1>7. QED
  BY <1>1, <1>2, <1>3, <1>4, <1>5, <1>6

(* Module Incident is the same in both instances. *)
LEMMA SameIncident ==
  /\ I!Init <=> P!Init
  /\ [I!Next]_(I!vars) <=> [P!Next]_(P!vars)
<1>1. I!Init <=> P!Init
  BY DEF I!Init, P!Init, I!Missing, P!Missing, I!NewRecord, P!NewRecord, I!IdleWorker,
       P!IdleWorker
<1>2. \A w \in {Worker}, d \in {Dep} : I!Observe(w, d) <=> P!Observe(w, d)
  BY SameBegin
<1>3. \A w \in {Worker} : I!ReconcileStep(w) <=> P!ReconcileStep(w)
  BY SameReconcile
<1>4. \A g : I!Return(g) <=> P!Return(g)
  BY SameSteps DEF I!Return, P!Return, I!Results, P!Results
<1>5. I!Next <=> P!Next
  BY <1>2, <1>3, <1>4, SameSteps DEF I!Next, P!Next
<1>6. I!vars' = I!vars <=> P!vars' = P!vars
  BY DEF I!vars, P!vars
<1>7. QED
  BY <1>1, <1>5, <1>6

(* Module Remediation is the same in both instances. *)
LEMMA SameRemediation ==
  /\ R!Init <=> S!Init
  /\ R!Step <=> S!Step
  /\ R!Start <=> S!Start
  /\ R!Crash <=> S!Crash
  /\ R!HumanEdit <=> S!HumanEdit
  /\ R!DeploymentController <=> S!DeploymentController
<1>1. /\ R!locals = S!locals /\ R!cluster = S!cluster
      /\ R!locals' = S!locals' /\ R!cluster' = S!cluster'
      /\ R!live = S!live
      /\ \A v : R!Reads(v) = S!Reads(v)
  BY DEF R!locals, S!locals, R!cluster, S!cluster, R!live, S!live, R!Reads, S!Reads
<1>2. R!Fail <=> S!Fail
  BY DEF R!Fail, S!Fail
<1>3. \A s, t : R!record(s, t) <=> S!record(s, t)
  BY DEF R!record, S!record
<1>4. R!L!allowedTransitions = S!L!allowedTransitions
  BY DEF R!L!allowedTransitions, S!L!allowedTransitions
<1>5. \A f, n, t : R!transition(f, n, t) <=> S!transition(f, n, t)
  BY <1>1, <1>2, <1>3, <1>4 DEF R!transition, S!transition
<1>6. \A t : R!Updated(t) = S!Updated(t)
  BY <1>1 DEF R!Updated, S!Updated
<1>7. \A v : /\ R!UpdateSucceeds(v) <=> S!UpdateSucceeds(v)
             /\ R!UpdateFails(v) <=> S!UpdateFails(v)
             /\ R!UpdateIsLost(v) <=> S!UpdateIsLost(v)
  BY DEF R!UpdateSucceeds, S!UpdateSucceeds, R!UpdateFails, S!UpdateFails, R!UpdateIsLost,
       S!UpdateIsLost
<1>8. R!Init <=> S!Init
  BY DEF R!Init, S!Init, R!InitialVersion, S!InitialVersion
<1>9. /\ R!Start <=> S!Start
      /\ R!Crash <=> S!Crash
      /\ R!HumanEdit <=> S!HumanEdit
  BY <1>1 DEF R!Start, S!Start, R!Crash, S!Crash, R!HumanEdit, S!HumanEdit
<1>10. R!DeploymentController <=> S!DeploymentController
  BY <1>1 DEF R!DeploymentController, S!DeploymentController
<1>11. /\ R!LogDetected <=> S!LogDetected
       /\ R!LogSnapshotted <=> S!LogSnapshotted
       /\ R!LogRemediating <=> S!LogRemediating
       /\ R!LogVerifying <=> S!LogVerifying
       /\ R!LogRecovered <=> S!LogRecovered
       /\ R!LogRollingBack <=> S!LogRollingBack
       /\ R!LogRolledBack <=> S!LogRolledBack
       /\ R!LogLogged <=> S!LogLogged
  BY <1>1, <1>3, <1>5 DEF R!LogDetected, S!LogDetected, R!LogSnapshotted, S!LogSnapshotted,
       R!LogRemediating, S!LogRemediating, R!LogVerifying, S!LogVerifying, R!LogRecovered,
       S!LogRecovered, R!LogRollingBack, S!LogRollingBack, R!LogRolledBack, S!LogRolledBack,
       R!LogLogged, S!LogLogged
<1>12. /\ R!Capture <=> S!Capture
       /\ R!CapturePods <=> S!CapturePods
       /\ R!RestartPod <=> S!RestartPod
       /\ R!Verify <=> S!Verify
       /\ R!ReturnOutcome <=> S!ReturnOutcome
  BY <1>1, <1>2 DEF R!Capture, S!Capture, R!CapturePods, S!CapturePods, R!RestartPod,
       S!RestartPod, R!Verify, S!Verify, R!ReturnOutcome, S!ReturnOutcome
<1>13. R!UndoRead <=> S!UndoRead
  BY <1>1, <1>2 DEF R!UndoRead, S!UndoRead
<1>14. R!RestoreRead <=> S!RestoreRead
  BY <1>1, <1>2 DEF R!RestoreRead, S!RestoreRead
<1>15. (R!UndoWrite <=> S!UndoWrite) /\ (R!RestoreWrite <=> S!RestoreWrite)
  BY <1>1, <1>2, <1>6, <1>7 DEF R!UndoWrite, S!UndoWrite, R!RestoreWrite, S!RestoreWrite
<1>16. R!Step <=> S!Step
  BY <1>11, <1>12, <1>13, <1>14, <1>15 DEF R!Step, S!Step
<1>17. QED
  BY <1>8, <1>9, <1>10, <1>16

-----------------------------------------------------------------------------
(* Generations. *)

(* The changes of the template among the first v of these versions. *)
Changes(vs, v) == {i \in 2 .. v : vs[i].template # vs[i - 1].template}

LEMMA ChangesFacts ==
  ASSUME NEW vs, NEW v \in Nat \ {0}
  PROVE  /\ IsFiniteSet(Changes(vs, v))
         /\ Cardinality(Changes(vs, v)) \in 0 .. v - 1
<1>1. IsFiniteSet(2 .. v) /\ Cardinality(2 .. v) = v - 1
  BY FS_Interval
<1>2. Changes(vs, v) \subseteq 2 .. v
  BY DEF Changes
<1>3. /\ IsFiniteSet(Changes(vs, v))
      /\ Cardinality(Changes(vs, v)) <= Cardinality(2 .. v)
  BY <1>1, <1>2, FS_Subset
<1>4. Cardinality(Changes(vs, v)) \in Nat
  BY <1>3, FS_CardinalityType
<1>5. QED
  BY <1>1, <1>3, <1>4

(* A newer version has not a smaller generation. *)
LEMMA ChangesGrow ==
  ASSUME NEW vs, NEW v \in Nat \ {0}, NEW w \in Nat, v <= w
  PROVE  Cardinality(Changes(vs, v)) <= Cardinality(Changes(vs, w))
<1>1. Changes(vs, v) \subseteq Changes(vs, w)
  BY DEF Changes
<1>2. IsFiniteSet(Changes(vs, w))
  BY ChangesFacts
<1>3. QED
  BY <1>1, <1>2, FS_Subset

(* One version more: the generation moves exactly when the template does. *)
LEMMA ChangesStep ==
  ASSUME NEW vs, NEW ws, NEW n \in Nat \ {0}, \A i \in 1 .. n : ws[i] = vs[i]
  PROVE  /\ \A v \in 1 .. n : Changes(ws, v) = Changes(vs, v)
         /\ ws[n + 1].template = vs[n].template =>
              Cardinality(Changes(ws, n + 1)) = Cardinality(Changes(vs, n))
         /\ ws[n + 1].template # vs[n].template =>
              Cardinality(Changes(ws, n + 1)) = Cardinality(Changes(vs, n)) + 1
<1>1. ASSUME NEW v \in 1 .. n
      PROVE  Changes(ws, v) = Changes(vs, v)
  <2>1. \A i \in 2 .. v : i \in 1 .. n /\ i - 1 \in 1 .. n
    OBVIOUS
  <2>2. QED
    BY <2>1 DEF Changes
<1>2. \A i : i \in 2 .. n + 1 <=> i \in 2 .. n \/ i = n + 1
  OBVIOUS
<1>3. (n + 1) - 1 = n /\ n \in 1 .. n /\ ws[n] = vs[n] /\ n + 1 \notin 2 .. n
  OBVIOUS
<1>4. CASE ws[n + 1].template = vs[n].template
  <2>1. Changes(ws, n + 1) = Changes(ws, n)
    BY <1>2, <1>3, <1>4 DEF Changes
  <2>2. QED
    BY <1>1, <1>3, <1>4, <2>1
<1>5. CASE ws[n + 1].template # vs[n].template
  <2>1. Changes(ws, n + 1) = Changes(ws, n) \union {n + 1} /\ n + 1 \notin Changes(ws, n)
    BY <1>2, <1>3, <1>5 DEF Changes
  <2>2. IsFiniteSet(Changes(ws, n))
    BY ChangesFacts
  <2>3. Cardinality(Changes(ws, n + 1)) = Cardinality(Changes(ws, n)) + 1
    BY <2>1, <2>2, FS_AddElement
  <2>4. QED
    BY <1>1, <1>3, <1>5, <2>3
<1>6. QED
  BY <1>1, <1>4, <1>5

-----------------------------------------------------------------------------
(* The remediation service inside the system. *)

(* What a step does to the service. *)
LEMMA ServiceCases ==
  ASSUME [Next]_vars
  PROVE  \/ UNCHANGED service
         \/ Dispatch /\ S!Start
         \/ Remediate /\ S!Step
         \/ HumanEdit /\ S!HumanEdit
         \/ DeploymentController /\ S!DeploymentController
         \/ CacheSync
         \/ Crash /\ S!Crash
<1>1. CASE UNCHANGED vars
  BY <1>1 DEF vars
<1>2. CASE Next
  <2>1. \/ UNCHANGED service
        \/ Dispatch \/ Remediate \/ HumanEdit \/ DeploymentController \/ CacheSync \/ Crash
    BY <1>2 DEF Next, Observe, Reconcile, Finish, endAttempt, CloseInGoroutine, Tick, service
  <2>2. QED
    BY <2>1, SameRemediation DEF Dispatch, Remediate, HumanEdit, DeploymentController, Crash
<1>3. QED
  BY <1>1, <1>2

(* The invariant of the service does not mind that Reconcile reads from the *)
(* same cache.                                                              *)
LEMMA BaseNext ==
  ASSUME S!Base, [Next]_vars
  PROVE  S!Base'
<1>1. CASE CacheSync
  <2>1. /\ seen' \in seen + 1 .. Len(versions)
        /\ UNCHANGED <<versions, seenSets, attempt, pc, machine, snapshot, read, target,
                       result, cancelled, restoredAt, trails>>
    BY <1>1 DEF CacheSync
  <2>2. S!TypeOK /\ seen \in 1 .. Len(versions) /\ Len(versions) \in Nat
    BY Assumptions, S!LiveFacts DEF S!Base, S!TypeOK
  <2>3. seen' \in 1 .. Len(versions)
    BY <2>1, <2>2
  <2>4. S!TypeOK'
    BY <2>1, <2>2, <2>3 DEF S!TypeOK
  <2>5. S!OnTrail' /\ S!FutureIsBlank' /\ S!Numbered' /\ S!NumbersGrow'
    BY <2>1 DEF S!Base, S!OnTrail, S!FutureIsBlank, S!Numbered, S!NumbersGrow
  <2>6. S!Chosen' /\ S!RestoredLate'
    BY <2>1 DEF S!Base, S!Chosen, S!RestoredLate
  <2>7. QED
    BY <2>4, <2>5, <2>6 DEF S!Base
<1>2. CASE ~CacheSync
  <2>1. [S!Next]_(S!vars)
    BY <1>2, ServiceCases DEF S!Next, service, S!vars
  <2>2. QED
    BY <2>1, Assumptions, S!BaseStep
<1>3. QED
  BY <1>1, <1>2

LEMMA ServiceFacts ==
  ASSUME S!Base
  PROVE  /\ Len(versions) \in Nat \ {0} /\ attempt \in 0 .. MaxTries /\ attempt \in Nat
         /\ seen \in 1 .. Len(versions) /\ versions \in Seq(S!Version)
         /\ Left \in 0 .. 2
<1>1. S!TypeOK
  BY DEF S!Base
<1>2. Len(versions) \in Nat \ {0}
  BY <1>1, Assumptions, S!LiveFacts
<1>3. attempt \in Nat
  <2>1. attempt \in 0 .. MaxTries /\ MaxTries \in Nat
    BY <1>1, RemediationAssumption DEF S!TypeOK
  <2>2. QED
    BY <2>1
<1>4. Left \in 0 .. 2
  BY DEF Left
<1>5. QED
  BY <1>1, <1>2, <1>3, <1>4 DEF S!TypeOK

(* An update changes the template, or makes no new version. *)
LEMMA UpdatedTemplate ==
  ASSUME S!Base, NEW t \in Templates, versions' = S!Updated(t)
  PROVE  \/ versions' = versions
         \/ /\ Len(versions') = Len(versions) + 1
            /\ \A i \in 1 .. Len(versions) : versions'[i] = versions[i]
            /\ versions'[Len(versions) + 1].template # versions[Len(versions)].template
<1>1. /\ versions \in Seq(S!Version) /\ Len(versions) \in Nat \ {0}
      /\ S!live = versions[Len(versions)]
  BY ServiceFacts DEF S!live
<1>2. S!live \in S!Version
  BY <1>1
<1>3. CASE S!live.template = t
  BY <1>3 DEF S!Updated
<1>4. CASE S!live.template # t
  <2>1. PICK v : v = [S!live EXCEPT !.template = t, !.by = attempt]
    OBVIOUS
  <2>2. versions' = Append(versions, v)
    BY <1>4, <2>1 DEF S!Updated
  <2>3. v.template = t
    BY <1>2, <2>1 DEF S!Version
  <2>4. /\ Len(versions') = Len(versions) + 1
        /\ \A i \in 1 .. Len(versions) : versions'[i] = versions[i]
        /\ versions'[Len(versions) + 1] = v
    BY <1>1, <2>2
  <2>5. QED
    BY <1>1, <1>4, <2>3, <2>4
<1>5. QED
  BY <1>3, <1>4

(* A step of Remediate writes at most one version, which uses up one of the *)
(* writes that are left.                                                    *)
LEMMA StepWrites ==
  ASSUME S!Base, S!Step
  PROVE  /\ attempt' = attempt /\ pc # "idle"
         /\ seen' \in seen .. Len(versions)
         /\ \/ versions' = versions /\ Left' <= Left
            \/ /\ seen' = seen /\ Left' + 1 <= Left
               /\ Len(versions') = Len(versions) + 1
               /\ \A i \in 1 .. Len(versions) : versions'[i] = versions[i]
               /\ versions'[Len(versions) + 1].template # versions[Len(versions)].template
<1>1. S!TypeOK /\ S!Chosen /\ [S!Next]_(S!vars)
  BY DEF S!Base, S!Next
<1>2. /\ Len(versions) \in Nat \ {0} /\ attempt \in Nat
      /\ seen \in 1 .. Len(versions) /\ seen \in Nat
  BY ServiceFacts
<1>3. attempt' = attempt /\ pc # "idle"
  BY DEF S!Step, S!LogDetected, S!Capture, S!LogSnapshotted, S!LogRemediating,
       S!CapturePods, S!RestartPod, S!UndoRead, S!UndoWrite, S!LogVerifying, S!Verify,
       S!LogRecovered, S!LogRollingBack, S!RestoreRead, S!RestoreWrite, S!LogRolledBack,
       S!LogLogged, S!ReturnOutcome, S!transition
<1>4. /\ pc' \in S!BeforeUndo => pc \in S!BeforeUndo
      /\ pc' \in S!BeforeRestore => pc \in S!BeforeUndo \union S!BeforeRestore
  <2>1. attempt' # attempt + 1
    BY <1>2, <1>3
  <2>2. QED
    BY <1>1, <2>1, Assumptions, S!Forward
<1>5. Left' <= Left
  BY <1>4 DEF Left
<1>6. CASE S!UndoWrite \/ S!RestoreWrite
  <2>1. seen' = seen
    BY <1>6 DEF S!UndoWrite, S!RestoreWrite
  <2>2. \/ versions' = versions
        \/ /\ pc = "undo" /\ pc' \in {"verifying", "idle"} /\ versions' = S!Updated(target)
        \/ /\ pc = "restoring" /\ pc' \in {"rolled_back", "idle"}
           /\ versions' = S!Updated(snapshot)
    BY <1>6 DEF S!UndoWrite, S!RestoreWrite, S!Fail
  <2>3. CASE versions' = versions
    BY <1>2, <1>3, <1>5, <2>1, <2>3
  <2>4. CASE versions' # versions
    <3>1. Left' + 1 <= Left
      <4>1. \/ pc = "undo" /\ pc' \in {"verifying", "idle"}
            \/ pc = "restoring" /\ pc' \in {"rolled_back", "idle"}
        BY <2>2, <2>4
      <4>2. \/ Left = 2 /\ Left' \in {0, 1}
            \/ Left = 1 /\ Left' = 0
        BY <4>1 DEF Left, S!BeforeUndo, S!BeforeRestore
      <4>3. QED
        BY <4>2
    <3>2. \E t \in Templates : versions' = S!Updated(t)
      BY <1>1, <2>2, <2>4 DEF S!Chosen
    <3>3. QED
      BY <1>2, <1>3, <2>1, <2>4, <3>1, <3>2, UpdatedTemplate
  <2>5. QED
    BY <2>3, <2>4
<1>7. CASE ~S!UndoWrite /\ ~S!RestoreWrite
  <2>1. versions' = versions
    BY <1>7 DEF S!Step, S!LogDetected, S!Capture, S!LogSnapshotted, S!LogRemediating,
       S!CapturePods, S!RestartPod, S!UndoRead, S!LogVerifying, S!Verify,
       S!LogRecovered, S!LogRollingBack, S!RestoreRead, S!LogRolledBack,
       S!LogLogged, S!ReturnOutcome, S!transition, S!cluster
  <2>2. seen' = seen \/ seen' \in S!Reads(seen)
    BY <1>7 DEF S!Step, S!LogDetected, S!Capture, S!LogSnapshotted, S!LogRemediating,
       S!CapturePods, S!RestartPod, S!UndoRead, S!LogVerifying, S!Verify,
       S!LogRecovered, S!LogRollingBack, S!RestoreRead, S!LogRolledBack,
       S!LogLogged, S!ReturnOutcome, S!transition, S!cluster
  <2>3. S!Reads(seen) \subseteq seen .. Len(versions)
    BY <1>2 DEF S!Reads
  <2>4. QED
    BY <1>2, <1>3, <1>5, <2>1, <2>2, <2>3
<1>8. QED
  BY <1>6, <1>7

-----------------------------------------------------------------------------
(* The composition implements module Incident, step by step. *)

LEMMA GenerationIs ==
  /\ Generation = [d \in {Dep} |-> 1 + Cardinality(Changes(versions, Len(versions)))]
  /\ Cached = [d \in {Dep} |-> 1 + Cardinality(Changes(versions, seen))]
  /\ Generation' = [d \in {Dep} |-> 1 + Cardinality(Changes(versions', Len(versions')))]
  /\ Cached' = [d \in {Dep} |-> 1 + Cardinality(Changes(versions', seen'))]
  /\ GenerationAt(Len(versions)) = 1 + Cardinality(Changes(versions, Len(versions)))
  /\ GenerationAt(Len(versions))' = 1 + Cardinality(Changes(versions', Len(versions')))
BY DEF Generation, Cached, GenerationAt, Changes

(* The cache catches up: the generation it shows stays or grows. *)
LEMMA CacheMoves ==
  ASSUME S!Base, versions' = versions, seen' \in seen .. Len(versions)
  PROVE  /\ Generation' = Generation
         /\ GenerationAt(Len(versions))' = GenerationAt(Len(versions))
         /\ \/ Cached' = Cached
            \/ \E g \in Cached[Dep] + 1 .. Generation[Dep] : Cached' = [Cached EXCEPT ![Dep] = g]
<1>1. /\ Generation' = Generation
      /\ GenerationAt(Len(versions))' = GenerationAt(Len(versions))
  BY GenerationIs
<1> DEFINE c(v) == Cardinality(Changes(versions, v))
<1>2. /\ Generation[Dep] = 1 + c(Len(versions))
      /\ Cached[Dep] = 1 + c(seen)
      /\ Cached' = [Cached EXCEPT ![Dep] = 1 + c(seen')]
  BY GenerationIs
<1>3. /\ seen \in Nat \ {0} /\ seen' \in Nat \ {0} /\ Len(versions) \in Nat
      /\ seen <= seen' /\ seen' <= Len(versions)
  BY ServiceFacts
<1>4. c(seen) \in Nat /\ c(seen') \in Nat /\ c(Len(versions)) \in Nat
  <2>1. /\ c(seen) \in 0 .. seen - 1 /\ c(seen') \in 0 .. seen' - 1
        /\ c(Len(versions)) \in 0 .. Len(versions) - 1
    BY <1>3, ChangesFacts
  <2>2. QED
    BY <1>3, <2>1
<1>5. c(seen) <= c(seen') /\ c(seen') <= c(Len(versions))
  BY <1>3, ChangesGrow
<1> HIDE DEF c
<1>6. CASE c(seen') = c(seen)
  <2>1. Cached' = Cached
    BY <1>2, <1>6, GenerationIs
  <2>2. QED
    BY <1>1, <2>1
<1>7. CASE c(seen') # c(seen)
  <2>1. 1 + c(seen') \in Cached[Dep] + 1 .. Generation[Dep]
    BY <1>2, <1>4, <1>5, <1>7
  <2>2. QED
    BY <1>1, <1>2, <2>1
<1>8. QED
  BY <1>6, <1>7

(* One version more. *)
LEMMA GenerationMoves ==
  ASSUME S!Base, seen' = seen, Len(versions') = Len(versions) + 1,
         \A i \in 1 .. Len(versions) : versions'[i] = versions[i]
  PROVE  /\ Cached' = Cached
         /\ Generation[Dep] \in 1 .. Len(versions)
         /\ versions'[Len(versions) + 1].template = versions[Len(versions)].template
              => Generation' = Generation
         /\ versions'[Len(versions) + 1].template # versions[Len(versions)].template
              => /\ Generation' = [Generation EXCEPT ![Dep] = @ + 1]
                 /\ GenerationAt(Len(versions))' # GenerationAt(Len(versions))
<1> DEFINE n == Len(versions)
           c == Cardinality(Changes(versions, n))
           e == Cardinality(Changes(versions', n + 1))
<1>1. n \in Nat \ {0} /\ seen \in 1 .. n
  BY ServiceFacts
<1>2. c \in 0 .. n - 1
  BY <1>1, ChangesFacts
<1>3. /\ \A v \in 1 .. n : Changes(versions', v) = Changes(versions, v)
      /\ versions'[n + 1].template = versions[n].template => e = c
      /\ versions'[n + 1].template # versions[n].template => e = c + 1
  BY <1>1, ChangesStep
<1>4. /\ Generation = [d \in {Dep} |-> 1 + c]
      /\ Generation' = [d \in {Dep} |-> 1 + e]
      /\ GenerationAt(Len(versions)) = 1 + c
      /\ GenerationAt(Len(versions))' = 1 + e
  BY GenerationIs
<1>5. Cached' = Cached
  BY <1>1, <1>3, GenerationIs
<1> HIDE DEF c, e
<1>6. Generation[Dep] \in 1 .. n
  BY <1>1, <1>2, <1>4
<1>7. ASSUME e = c
      PROVE  Generation' = Generation
  BY <1>4, <1>7
<1>8. ASSUME e = c + 1
      PROVE  /\ Generation' = [Generation EXCEPT ![Dep] = @ + 1]
             /\ GenerationAt(Len(versions))' # GenerationAt(Len(versions))
  <2>1. 1 + e # 1 + c /\ 1 + e = (1 + c) + 1
    BY <1>1, <1>2, <1>8
  <2>2. QED
    BY <1>4, <2>1
<1>9. QED
  BY <1>3, <1>5, <1>6, <1>7, <1>8

(* The generation of the cache and the API server while nobody touches the  *)
(* Deployment.                                                              *)
LEMMA GenerationsSame ==
  ASSUME versions' = versions, seen' = seen
  PROVE  Generation' = Generation /\ Cached' = Cached
BY GenerationIs

LEMMA GoroutineFacts ==
  ASSUME P!LifeInv, NEW g \in goroutines
  PROVE  g.dep = Dep /\ g.moves \in Nat /\ g.incident \in Nat /\ g \in P!Goroutine
<1>1. g \in P!Goroutine
  BY DEF P!LifeInv, P!ClaimInv, P!TypeOK
<1>2. QED
  BY <1>1 DEF P!Goroutine

(* A step of Remediate is a step of the goroutine, of the cache or none.    *)
LEMMA RemediateIsMove ==
  ASSUME P!LifeInv, S!Base, VersionsBounded, MovesCounted, Remediate
  PROVE  [I!Next]_(I!vars)
<1>1. S!Step /\ UNCHANGED <<incidents, worker, classifier, restarts, hist, terminal>>
  BY SameRemediation DEF Remediate
<1>2. /\ Len(versions) \in Nat \ {0} /\ attempt \in 0 .. MaxTries /\ attempt \in Nat
      /\ Left \in 0 .. 2 /\ Left' \in 0 .. 2
  <2>1. Left' \in 0 .. 2
    BY DEF Left
  <2>2. QED
    BY <2>1, ServiceFacts
<1>3. CASE versions' = versions
  <2>1. seen' \in seen .. Len(versions)
    BY <1>1, StepWrites
  <2>2. /\ Generation' = Generation
        /\ GenerationAt(Len(versions))' = GenerationAt(Len(versions))
        /\ \/ Cached' = Cached
           \/ \E g \in Cached[Dep] + 1 .. Generation[Dep] : Cached' = [Cached EXCEPT ![Dep] = g]
    BY <1>3, <2>1, CacheMoves
  <2>3. goroutines' = goroutines
    BY <2>2 DEF Remediate
  <2>4. CASE Cached' = Cached
    BY <1>1, <2>2, <2>3, <2>4 DEF I!vars
  <2>5. CASE Cached' # Cached
    <3>1. I!CacheSync(Dep)
      BY <1>1, <2>2, <2>3, <2>5 DEF I!CacheSync
    <3>2. QED
      BY <3>1 DEF I!Next
  <2>6. QED
    BY <2>4, <2>5
<1>4. CASE versions' # versions
  <2>1. /\ seen' = seen /\ Left' + 1 <= Left
        /\ Len(versions') = Len(versions) + 1
        /\ \A i \in 1 .. Len(versions) : versions'[i] = versions[i]
        /\ versions'[Len(versions) + 1].template # versions[Len(versions)].template
    BY <1>1, <1>4, StepWrites
  <2>2. /\ Cached' = Cached
        /\ Generation[Dep] \in 1 .. Len(versions)
        /\ Generation' = [Generation EXCEPT ![Dep] = @ + 1]
        /\ GenerationAt(Len(versions))' # GenerationAt(Len(versions))
    BY <2>1, GenerationMoves
  <2>3. PICK g \in goroutines :
          g.pc = "remediate" /\ Becomes(g, [g EXCEPT !.moves = @ + 1])
    BY <2>2 DEF Remediate
  <2>4. g.dep = Dep /\ g.moves \in Nat
    BY GoroutineFacts
  <2>5. g.moves + Left <= 2
    BY <2>3 DEF MovesCounted
  <2>6. g.moves < 2 /\ Left \in {1, 2}
    <3>1. ASSUME NEW l \in 0 .. 2, NEW k \in 0 .. 2, k + 1 <= l
          PROVE  l \in {1, 2}
      BY <3>1
    <3>2. Left \in {1, 2}
      BY <1>2, <2>1, <3>1
    <3>3. QED
      BY <2>4, <2>5, <3>2
  <2>7. Generation[Dep] < MaxVersions + 2 * MaxTries
    <3>1. Len(versions) + Left <= MaxVersions + 2 * attempt
      BY DEF VersionsBounded
    <3>2. MaxVersions \in Nat /\ MaxTries \in Nat
      BY RemediationAssumption
    <3>3. attempt <= MaxTries
      BY <1>2, <3>2
    <3>4. Len(versions) < MaxVersions + 2 * MaxTries
      BY <1>2, <2>6, <3>1, <3>2, <3>3
    <3>5. QED
      BY <1>2, <2>2, <3>2, <3>4
  <2>8. I!MoveSpec(g)
    BY <1>1, <2>2, <2>3, <2>4, <2>6, <2>7 DEF I!MoveSpec, I!MaxMoves, Becomes
  <2>9. QED
    BY <2>8 DEF I!Next
<1>5. QED
  BY <1>3, <1>4

(* endAttempt with the result Remediate returned. *)
LEMMA FinishIsFinish ==
  ASSUME S!Base, MovesCounted, Finish
  PROVE  pc = "idle" /\ \E g \in goroutines : I!Finish(g, result) /\ result \in I!Results
<1>1. PICK g \in goroutines : endAttempt(g, result)
  BY DEF Finish
<1>2. UNCHANGED service /\ pc = "idle"
  BY <1>1 DEF endAttempt, Finish
<1>3. Generation' = Generation /\ Cached' = Cached
  BY <1>2, GenerationsSame DEF service
<1>4. result \in I!Results
  BY DEF S!Base, S!TypeOK, I!Results
<1>5. result = "recovered" => g.moves < 2
  BY <1>1 DEF MovesCounted, endAttempt
<1>6. I!Finish(g, result)
  BY <1>1, <1>3, <1>5 DEF endAttempt, I!Finish, I!MaxMoves, Becomes
<1>7. QED
  BY <1>2, <1>4, <1>6

(* The Deployment controller numbers revisions and leaves the template.     *)
LEMMA ControllerIsSilent ==
  ASSUME S!Base, DeploymentController
  PROVE  /\ Generation' = Generation /\ Cached' = Cached
         /\ Len(versions') = Len(versions) + 1 /\ Len(versions) < MaxVersions
<1>1. /\ versions \in Seq(S!Version) /\ Len(versions) \in Nat \ {0}
      /\ S!live = versions[Len(versions)] /\ S!live \in S!Version
  BY ServiceFacts DEF S!live
<1>2. S!DeploymentController
  BY SameRemediation DEF DeploymentController
<1>3. PICK n, s : /\ Len(versions) < MaxVersions /\ seen' = seen
                  /\ versions' = Append(versions, [S!live EXCEPT !.revision = n,
                                                   !.sets = s, !.by = 0])
  BY <1>2 DEF S!DeploymentController
<1>4. PICK v : v = [S!live EXCEPT !.revision = n, !.sets = s, !.by = 0]
  OBVIOUS
<1>5. v.template = S!live.template
  BY <1>1, <1>4 DEF S!Version
<1>6. /\ Len(versions') = Len(versions) + 1
      /\ \A i \in 1 .. Len(versions) : versions'[i] = versions[i]
      /\ versions'[Len(versions) + 1] = v
  BY <1>1, <1>3, <1>4
<1>7. versions'[Len(versions) + 1].template = versions[Len(versions)].template
  BY <1>1, <1>5, <1>6
<1>8. Generation' = Generation /\ Cached' = Cached
  BY <1>3, <1>6, <1>7, GenerationMoves
<1>9. QED
  BY <1>3, <1>6, <1>8

(* Every step of the composition is one of module Incident. *)
LEMMA StepIsIncidentStep ==
  ASSUME P!LifeInv, S!Base, VersionsBounded, MovesCounted, [Next]_vars
  PROVE  [I!Next]_(I!vars)
<1>1. CASE Observe
  BY <1>1 DEF Observe, I!Next
<1>2. CASE Reconcile \/ Dispatch
  <2>1. I!ReconcileStep(Worker)
    BY <1>2 DEF Reconcile, Dispatch, I!ReconcileStep
  <2>2. QED
    BY <2>1 DEF I!Next
<1>3. CASE Remediate
  BY <1>3, RemediateIsMove
<1>4. CASE Finish
  <2>1. \E g \in goroutines : I!Return(g)
    BY <1>4, FinishIsFinish DEF I!Return
  <2>2. QED
    BY <2>1 DEF I!Next
<1>5. CASE CloseInGoroutine
  <2>1. \E g \in goroutines : I!Return(g)
    BY <1>5 DEF CloseInGoroutine, I!Return
  <2>2. QED
    BY <2>1 DEF I!Next
<1>6. CASE HumanEdit
  BY <1>6 DEF HumanEdit, I!Next
<1>7. CASE DeploymentController
  <2>1. Generation' = Generation /\ Cached' = Cached
    BY <1>7, ControllerIsSilent
  <2>2. UNCHANGED manager
    BY <1>7 DEF DeploymentController
  <2>3. QED
    BY <2>1, <2>2 DEF manager, I!vars
<1>8. CASE CacheSync
  <2>1. UNCHANGED manager /\ versions' = versions /\ seen' \in seen + 1 .. Len(versions)
    BY <1>8 DEF CacheSync
  <2>2. seen' \in seen .. Len(versions)
    BY <2>1, ServiceFacts
  <2>3. /\ Generation' = Generation
        /\ \/ Cached' = Cached
           \/ \E g \in Cached[Dep] + 1 .. Generation[Dep] : Cached' = [Cached EXCEPT ![Dep] = g]
    BY <2>1, <2>2, CacheMoves
  <2>4. CASE Cached' = Cached
    BY <2>1, <2>3, <2>4 DEF manager, I!vars
  <2>5. CASE Cached' # Cached
    <3>1. I!CacheSync(Dep)
      BY <2>1, <2>3, <2>5 DEF I!CacheSync, manager
    <3>2. QED
      BY <3>1 DEF I!Next
  <2>6. QED
    BY <2>4, <2>5
<1>9. CASE Tick
  BY <1>9 DEF Tick, I!Next
<1>10. CASE Crash
  BY <1>10 DEF Crash, I!Next
<1>11. CASE UNCHANGED vars
  <2>1. UNCHANGED manager /\ versions' = versions /\ seen' = seen
    BY <1>11 DEF vars, service
  <2>2. Generation' = Generation /\ Cached' = Cached
    BY <2>1, GenerationsSame
  <2>3. QED
    BY <2>1, <2>2 DEF manager, I!vars
<1>12. QED
  BY <1>1, <1>2, <1>3, <1>4, <1>5, <1>6, <1>7, <1>8, <1>9, <1>10, <1>11 DEF Next

-----------------------------------------------------------------------------
(* The composition, conjunct by conjunct. *)

(* Others add a version only below MaxVersions, an attempt at most two.     *)
LEMMA BoundedNext ==
  ASSUME S!Base, VersionsBounded, [Next]_vars
  PROVE  VersionsBounded'
<1>1. /\ Len(versions) \in Nat /\ attempt \in Nat /\ MaxVersions \in Nat
      /\ Left \in 0 .. 2 /\ Len(versions) + Left <= MaxVersions + 2 * attempt
  BY ServiceFacts, RemediationAssumption DEF VersionsBounded
<1>2. Left <= 2 * attempt
  <2>1. pc = "idle" => Left = 0
    BY DEF Left, S!BeforeUndo, S!BeforeRestore
  <2>2. pc # "idle" => attempt > 0
    BY DEF S!Base, S!TypeOK
  <2>3. QED
    BY <1>1, <2>1, <2>2
<1>3. ASSUME versions' = versions, pc' = pc, attempt' = attempt
      PROVE  VersionsBounded'
  BY <1>1, <1>3 DEF VersionsBounded, Left
<1>4. ASSUME Len(versions) < MaxVersions, Len(versions') = Len(versions) + 1, pc' = pc,
             attempt' = attempt
      PROVE  VersionsBounded'
  <2>1. Left' = Left
    BY <1>4 DEF Left
  <2>2. Len(versions) + 1 + Left <= MaxVersions + 2 * attempt
    BY <1>1, <1>2, <1>4
  <2>3. QED
    BY <1>4, <2>1, <2>2 DEF VersionsBounded
<1>5. CASE UNCHANGED service
  BY <1>3, <1>5 DEF service
<1>6. CASE S!Start
  <2>1. versions' = versions /\ attempt' = attempt + 1 /\ pc = "idle" /\ pc' = "detect"
    BY <1>6 DEF S!Start, S!cluster
  <2>2. Left = 0 /\ Left' = 2
    BY <2>1 DEF Left, S!BeforeUndo, S!BeforeRestore
  <2>3. Len(versions) + 2 <= MaxVersions + 2 * (attempt + 1)
    BY <1>1, <2>2
  <2>4. QED
    BY <2>1, <2>2, <2>3 DEF VersionsBounded
<1>7. CASE S!Step
  <2>1. /\ attempt' = attempt
        /\ \/ versions' = versions /\ Left' <= Left
           \/ Left' + 1 <= Left /\ Len(versions') = Len(versions) + 1
    BY <1>7, StepWrites
  <2>2. Left' \in 0 .. 2
    BY DEF Left
  <2>3. ASSUME NEW l \in 0 .. 2, NEW n,
               \/ n = Len(versions) /\ l <= Left
               \/ n = Len(versions) + 1 /\ l + 1 <= Left
        PROVE  n + l <= MaxVersions + 2 * attempt
    BY <1>1, <2>3
  <2>4. Len(versions') + Left' <= MaxVersions + 2 * attempt
    BY <2>1, <2>2, <2>3
  <2>5. QED
    BY <2>1, <2>4 DEF VersionsBounded
<1>8. CASE S!HumanEdit
  <2>1. /\ Len(versions) < MaxVersions /\ pc' = pc /\ attempt' = attempt
        /\ \E v : versions' = Append(versions, v)
    BY <1>8 DEF S!HumanEdit
  <2>2. Len(versions') = Len(versions) + 1
    BY <2>1, ServiceFacts
  <2>3. QED
    BY <1>4, <2>1, <2>2
<1>9. CASE DeploymentController
  <2>1. pc' = pc /\ attempt' = attempt
    BY <1>9, SameRemediation DEF DeploymentController, S!DeploymentController
  <2>2. QED
    BY <1>4, <1>9, <2>1, ControllerIsSilent
<1>10. CASE CacheSync
  BY <1>3, <1>10 DEF CacheSync
<1>11. CASE S!Crash
  <2>1. versions' = versions /\ attempt' = attempt /\ pc' = "idle"
    BY <1>11 DEF S!Crash
  <2>2. Left' = 0
    BY <2>1 DEF Left, S!BeforeUndo, S!BeforeRestore
  <2>3. QED
    BY <1>1, <2>1, <2>2 DEF VersionsBounded
<1>12. QED
  BY <1>5, <1>6, <1>7, <1>8, <1>9, <1>10, <1>11, ServiceCases

(* The goroutines inside Remediate after a step: those before it, one that  *)
(* was just dispatched while there was none, or one that has just written.  *)
Kept(f) ==
  /\ f \in goroutines /\ ~Dispatch
  /\ attempt' = attempt /\ attemptOf' = attemptOf

Started(f) ==
  /\ Dispatch /\ f.moves = 0 /\ f.incident = worker[Worker].incident

Moved(f) ==
  /\ Remediate /\ versions' # versions /\ attempt' = attempt /\ attemptOf' = attemptOf
  /\ \E g \in goroutines : /\ g.pc = "remediate" /\ f.moves = g.moves + 1
                           /\ f.incident = g.incident

LEMMA RunningCases ==
  ASSUME P!LifeInv, S!Base, [Next]_vars, NEW f \in goroutines', f.pc = "remediate"
  PROVE  Kept(f) \/ Started(f) \/ Moved(f)
<1>0. ASSUME attempt' = attempt
      PROVE  ~Dispatch
  <2>1. Dispatch => attempt' = attempt + 1
    BY DEF Dispatch, R!Start
  <2>2. attempt \in Nat
    BY ServiceFacts
  <2>3. QED
    BY <1>0, <2>1, <2>2
<1>1. ASSUME Dispatch
      PROVE  Started(f)
  <2>1. P!ClaimInv /\ P!Dispatch(Worker)
    BY <1>1, SameDispatch DEF Dispatch, P!LifeInv
  <2>2. /\ worker[Worker].pc = "classify"
        /\ goroutines' = goroutines \union
             {[dep |-> worker[Worker].dep, incident |-> worker[Worker].incident,
               attempt |-> incidents[worker[Worker].dep].attemptCount + 1,
               pc |-> "remediate", moves |-> 0]}
    BY <2>1, Assumptions, P!DispatchEffect
  <2>3. worker[Worker].dep = Dep /\ \A g \in goroutines : ~P!GoroutineHolds(g, Dep)
    BY <2>1, <2>2, Assumptions, P!WorkerHolding DEF P!HoldingPCs
  <2>4. f \notin goroutines
    BY <2>3, GoroutineFacts DEF P!GoroutineHolds
  <2>5. QED
    BY <1>1, <2>2, <2>4 DEF Started
<1>2. ASSUME Remediate
      PROVE  Kept(f) \/ Moved(f)
  <2>1. attempt' = attempt /\ attemptOf' = attemptOf /\ ~Dispatch
    <3>1. S!Step
      BY <1>2, SameRemediation DEF Remediate
    <3>2. attempt' = attempt
      BY <3>1, StepWrites
    <3>3. QED
      BY <1>0, <1>2, <3>2 DEF Remediate
  <2>2. CASE f \in goroutines
    BY <2>1, <2>2 DEF Kept
  <2>3. CASE f \notin goroutines
    <3>1. PICK g \in goroutines : /\ g.pc = "remediate"
                                  /\ Becomes(g, [g EXCEPT !.moves = @ + 1])
      BY <1>2, <2>3 DEF Remediate
    <3>2. f = [g EXCEPT !.moves = @ + 1]
      BY <2>3, <3>1 DEF Becomes
    <3>3. f.moves = g.moves + 1 /\ f.incident = g.incident
      BY <3>2, GoroutineFacts DEF P!Goroutine
    <3>4. versions' # versions
      <4>1. GenerationAt(Len(versions))' # GenerationAt(Len(versions))
        BY <1>2, <2>3 DEF Remediate
      <4>2. QED
        BY <4>1, GenerationIs
    <3>5. QED
      BY <1>2, <2>1, <3>1, <3>3, <3>4 DEF Moved
  <2>4. QED
    BY <2>2, <2>3
<1>3. ASSUME Finish
      PROVE  Kept(f)
  <2>1. PICK g \in goroutines : endAttempt(g, result)
    BY <1>3 DEF Finish
  <2>2. attempt' = attempt /\ attemptOf' = attemptOf
    BY <2>1 DEF endAttempt, service
  <2>3. f \in goroutines
    <3>1. [g EXCEPT !.pc = "close"].pc = "close"
      BY GoroutineFacts DEF P!Goroutine
    <3>2. QED
      BY <2>1, <3>1 DEF endAttempt, Becomes
  <2>4. ~Dispatch
    BY <1>0, <2>2
  <2>5. QED
    BY <2>2, <2>3, <2>4 DEF Kept
<1>4. ASSUME Crash
      PROVE  FALSE
  BY <1>4 DEF Crash, I!Restart
<1>5. ASSUME Observe \/ Reconcile \/ CloseInGoroutine \/ HumanEdit \/ DeploymentController
             \/ CacheSync \/ Tick \/ UNCHANGED vars
      PROVE  Kept(f)
  <2>1. attempt' = attempt /\ attemptOf' = attemptOf
    BY <1>5, SameRemediation DEF Observe, Reconcile, CloseInGoroutine, HumanEdit,
       DeploymentController, CacheSync, Tick, vars, service, S!HumanEdit,
       S!DeploymentController
  <2>2. goroutines' \subseteq goroutines
    <3>1. CASE Reconcile
      BY <3>1 DEF Reconcile, I!BeginAttempt, I!SkipQuiet, I!SkipActive, I!Exhaust, I!Claim,
         I!EscalateBlind, I!ReuseEvidence, I!CollectEvidence, I!FreezeEvidence, I!Escalate,
         I!Reject, I!CloseInReconcile
    <3>2. CASE Observe \/ CloseInGoroutine \/ HumanEdit \/ DeploymentController
             \/ CacheSync \/ Tick \/ UNCHANGED vars
      BY <3>2 DEF Observe, CloseInGoroutine, HumanEdit, DeploymentController, CacheSync, Tick,
         vars, manager, I!Observe, I!CloseInGoroutine, I!HumanEdit, I!Tick
    <3>3. QED
      BY <1>5, <3>1, <3>2
  <2>3. ~Dispatch
    BY <1>0, <2>1
  <2>4. QED
    BY <2>1, <2>2, <2>3 DEF Kept
<1>6. QED
  BY <1>1, <1>2, <1>3, <1>4, <1>5 DEF Next

(* Remediate returns recovered from one place only. *)
LEMMA ResultCases ==
  ASSUME S!Base, [Next]_vars, result' = "recovered"
  PROVE  /\ attempt' = attempt /\ trails' = trails
         /\ \/ result = "recovered" /\ ~Remediate
            \/ Remediate /\ pc = "return_recovered" /\ versions' = versions
<1>1. ASSUME Remediate
      PROVE  /\ attempt' = attempt /\ trails' = trails
             /\ pc = "return_recovered" /\ versions' = versions
  <2>1. S!Step
    BY <1>1, SameRemediation DEF Remediate
  <2>2. pc # "idle" /\ attempt' = attempt
    BY <2>1, StepWrites
  <2>3. result = ""
    BY <2>2 DEF S!Base, S!OnTrail
  <2>4. S!ReturnOutcome
    BY <2>1, <2>3 DEF S!Step, S!LogDetected, S!Capture, S!LogSnapshotted, S!LogRemediating,
       S!CapturePods, S!RestartPod, S!UndoRead, S!UndoWrite, S!LogVerifying, S!Verify,
       S!LogRecovered, S!LogRollingBack, S!RestoreRead, S!RestoreWrite, S!LogRolledBack,
       S!LogLogged, S!transition, S!Fail
  <2>5. QED
    BY <2>2, <2>4 DEF S!ReturnOutcome, S!cluster
<1>2. ASSUME ~Remediate
      PROVE  /\ attempt' = attempt /\ trails' = trails
             /\ result = "recovered"
  <2>1. ~S!Start
    BY DEF S!Start
  <2>2. QED
    BY <1>2, <2>1, ServiceCases DEF service, S!HumanEdit, S!DeploymentController, CacheSync,
       S!Crash
<1>3. QED
  BY <1>1, <1>2

(* What is left to write grows only with a new attempt. *)
LEMMA LeftShrinks ==
  ASSUME S!Base, [Next]_vars, ~Dispatch
  PROVE  Left' <= Left
<1>1. Left \in 0 .. 2 /\ Left' \in 0 .. 2
  BY DEF Left
<1>2. ASSUME pc' = pc
      PROVE  Left' <= Left
  <2>1. Left' = Left
    BY <1>2 DEF Left
  <2>2. QED
    BY <1>1, <2>1
<1>3. CASE Remediate /\ S!Step
  <2>1. Left' <= Left \/ Left' + 1 <= Left
    BY <1>3, StepWrites
  <2>2. ASSUME NEW l \in 0 .. 2, NEW k \in 0 .. 2, k <= l \/ k + 1 <= l
        PROVE  k <= l
    BY <2>2
  <2>3. QED
    BY <1>1, <2>1, <2>2
<1>4. CASE S!Crash
  <2>1. Left' = 0
    BY <1>4 DEF S!Crash, Left, S!BeforeUndo, S!BeforeRestore
  <2>2. QED
    BY <1>1, <2>1
<1>5. QED
  BY <1>2, <1>3, <1>4, ServiceCases DEF service, S!HumanEdit, S!DeploymentController, CacheSync

LEMMA MovesNext ==
  ASSUME P!LifeInv, S!Base, MovesCounted, [Next]_vars
  PROVE  MovesCounted'
<1> SUFFICES ASSUME NEW f \in goroutines', f.pc = "remediate"
             PROVE  f.moves + Left' <= 2 /\ (result' = "recovered" => f.moves < 2)
  BY DEF MovesCounted
<1>1. Left \in 0 .. 2 /\ Left' \in 0 .. 2
  BY DEF Left
<1>2. \A g \in goroutines : g.moves \in Nat
  BY GoroutineFacts
<1>3. ASSUME NEW g \in goroutines, g.pc = "remediate"
      PROVE  g.moves + Left <= 2 /\ (result = "recovered" => g.moves < 2)
  BY <1>3 DEF MovesCounted
<1>4. CASE Kept(f)
  <2>1. f \in goroutines /\ f.moves \in Nat /\ Left' <= Left
    BY <1>2, <1>4, LeftShrinks DEF Kept
  <2>2. f.moves + Left <= 2 /\ (result = "recovered" => f.moves < 2)
    BY <1>3, <2>1
  <2>3. ASSUME NEW m \in Nat, NEW l \in 0 .. 2, NEW k \in 0 .. 2, k <= l, m + l <= 2
        PROVE  m + k <= 2
    BY <2>3
  <2>4. f.moves + Left' <= 2
    BY <1>1, <2>1, <2>2, <2>3
  <2>5. ASSUME pc = "return_recovered"
        PROVE  f.moves < 2
    <3>1. Left = 1
      BY <2>5 DEF Left, S!BeforeUndo, S!BeforeRestore
    <3>2. QED
      BY <2>1, <2>2, <3>1
  <2>6. QED
    BY <2>2, <2>4, <2>5, ResultCases
<1>5. CASE Started(f)
  <2>1. f.moves = 0
    BY <1>5 DEF Started
  <2>2. ASSUME NEW k \in 0 .. 2
        PROVE  0 + k <= 2 /\ 0 < 2
    OBVIOUS
  <2>3. QED
    BY <1>1, <2>1, <2>2
<1>6. CASE Moved(f)
  <2>1. PICK g \in goroutines : g.pc = "remediate" /\ f.moves = g.moves + 1
    BY <1>6 DEF Moved
  <2>2. g.moves \in Nat /\ g.moves + Left <= 2
    BY <1>2, <1>3, <2>1
  <2>3. Left' + 1 <= Left
    BY <1>6, SameRemediation, StepWrites DEF Moved, Remediate
  <2>4. ASSUME NEW m \in Nat, NEW l \in 0 .. 2, NEW k \in 0 .. 2, k + 1 <= l, m + l <= 2
        PROVE  m + 1 + k <= 2
    BY <2>4
  <2>5. f.moves + Left' <= 2
    BY <1>1, <2>1, <2>2, <2>3, <2>4
  <2>6. result' # "recovered"
    BY <1>6, ResultCases DEF Moved
  <2>7. QED
    BY <2>5, <2>6
<1>7. QED
  BY <1>4, <1>5, <1>6, RunningCases

(* Attempts are counted as they are dispatched. *)
LEMMA AttemptsNext ==
  ASSUME P!LifeInv, S!Base, AttemptsOrdered, [Next]_vars
  PROVE  /\ AttemptsOrdered'
         /\ Dispatch => /\ attempt' = attempt + 1
                        /\ attemptOf' = Append(attemptOf, worker[Worker].incident)
         /\ ~Dispatch => attempt' = attempt /\ attemptOf' = attemptOf
<1>1. attempt \in Nat
  BY ServiceFacts
<1>2. worker[Worker].incident \in Nat
  BY DEF P!LifeInv, P!ClaimInv, P!TypeOK, P!WorkerState
<1>3. ASSUME Dispatch
      PROVE  attempt' = attempt + 1 /\ attemptOf' = Append(attemptOf, worker[Worker].incident)
  BY <1>3 DEF Dispatch, R!Start
<1>4. ASSUME ~Dispatch
      PROVE  attempt' = attempt /\ attemptOf' = attemptOf
  <2>1. CASE Remediate
    <3>1. attemptOf' = attemptOf
      BY <2>1 DEF Remediate
    <3>2. S!Step
      BY <2>1, SameRemediation DEF Remediate
    <3>3. attempt' = attempt
      BY <3>2, StepWrites
    <3>4. QED
      BY <3>1, <3>3
  <2>2. CASE HumanEdit \/ DeploymentController \/ CacheSync \/ Crash
    BY <2>2, SameRemediation DEF HumanEdit, DeploymentController, CacheSync, Crash,
       S!HumanEdit, S!DeploymentController, S!Crash
  <2>3. CASE Observe \/ Reconcile \/ Finish \/ CloseInGoroutine \/ Tick \/ UNCHANGED vars
    BY <2>3 DEF Observe, Reconcile, Finish, endAttempt, CloseInGoroutine, Tick, vars, service
  <2>4. QED
    BY <1>4, <2>1, <2>2, <2>3 DEF Next
<1>5. AttemptsOrdered'
  <2>1. CASE Dispatch
    BY <1>1, <1>2, <1>3, <2>1 DEF AttemptsOrdered
  <2>2. CASE ~Dispatch
    BY <1>4, <2>2 DEF AttemptsOrdered
  <2>3. QED
    BY <2>1, <2>2
<1>6. QED
  BY <1>3, <1>4, <1>5

(* Remediate and its goroutine start together; the goroutine goes on to     *)
(* endAttempt only when Remediate has returned.                             *)
LEMMA RunsNext ==
  ASSUME P!LifeInv, S!Base, AttemptsOrdered, RunsInGoroutine, [Next]_vars
  PROVE  RunsInGoroutine'
<1>1. attempt \in Nat /\ attemptOf \in Seq(Nat) /\ Len(attemptOf) = attempt
  BY ServiceFacts DEF AttemptsOrdered
<1>2. worker[Worker].incident \in Nat
  BY DEF P!LifeInv, P!ClaimInv, P!TypeOK, P!WorkerState
<1>3. ASSUME NEW f \in goroutines', f.pc = "remediate"
      PROVE  attempt' > 0 /\ f.incident = attemptOf'[attempt']
  <2>1. CASE Kept(f)
    BY <1>3, <2>1 DEF Kept, RunsInGoroutine
  <2>2. CASE Started(f)
    <3>1. /\ attempt' = attempt + 1 /\ f.incident = worker[Worker].incident
          /\ attemptOf' = Append(attemptOf, worker[Worker].incident)
      BY <2>2, AttemptsNext DEF Started
    <3>2. QED
      BY <1>1, <1>2, <3>1
  <2>3. CASE Moved(f)
    BY <2>3 DEF Moved, RunsInGoroutine
  <2>4. QED
    BY <1>3, <2>1, <2>2, <2>3, RunningCases
<1>4. ASSUME pc' # "idle"
      PROVE  \E f \in goroutines' : f.pc = "remediate"
  <2>1. CASE Dispatch
    <3>1. \E n, i : [dep |-> worker[Worker].dep, incident |-> i, attempt |-> n,
                     pc |-> "remediate", moves |-> 0] \in goroutines'
      BY <2>1 DEF Dispatch, I!Dispatch
    <3>2. QED
      BY <3>1
  <2>2. CASE Remediate
    <3>1. S!Step
      BY <2>2, SameRemediation DEF Remediate
    <3>2. pc # "idle"
      BY <3>1, StepWrites
    <3>3. PICK h \in goroutines : h.pc = "remediate"
      BY <3>2 DEF RunsInGoroutine
    <3>4. CASE goroutines' = goroutines
      BY <3>3, <3>4
    <3>5. CASE goroutines' # goroutines
      <4>1. PICK g \in goroutines : /\ g.pc = "remediate"
                                    /\ Becomes(g, [g EXCEPT !.moves = @ + 1])
        BY <2>2, <3>5 DEF Remediate
      <4>2. [g EXCEPT !.moves = @ + 1].pc = "remediate"
        BY <4>1, GoroutineFacts DEF P!Goroutine
      <4>3. QED
        BY <4>1, <4>2 DEF Becomes
    <3>6. QED
      BY <3>4, <3>5
  <2>3. CASE Finish
    BY <1>4, <2>3 DEF Finish, endAttempt, service
  <2>4. CASE CloseInGoroutine
    <3>1. pc' = pc
      BY <2>4 DEF CloseInGoroutine, service
    <3>2. PICK h \in goroutines : h.pc = "remediate"
      BY <1>4, <3>1 DEF RunsInGoroutine
    <3>3. PICK g \in goroutines : g.pc = "close" /\ goroutines' = goroutines \ {g}
      BY <2>4 DEF CloseInGoroutine, I!CloseInGoroutine
    <3>4. QED
      BY <3>2, <3>3
  <2>5. CASE Crash
    BY <1>4, <2>5 DEF Crash, R!Crash
  <2>6. CASE Observe \/ Reconcile \/ HumanEdit \/ DeploymentController \/ CacheSync \/ Tick
             \/ UNCHANGED vars
    <3>1. pc' = pc
      BY <2>6, SameRemediation DEF Observe, Reconcile, HumanEdit, DeploymentController,
         CacheSync, Tick, vars, service, S!HumanEdit, S!DeploymentController
    <3>2. goroutines' = goroutines
      <4>1. CASE Reconcile
        BY <4>1 DEF Reconcile, I!BeginAttempt, I!SkipQuiet, I!SkipActive, I!Exhaust, I!Claim,
           I!EscalateBlind, I!ReuseEvidence, I!CollectEvidence, I!FreezeEvidence, I!Escalate,
           I!Reject, I!CloseInReconcile
      <4>2. CASE ~Reconcile
        BY <2>6, <4>2 DEF Observe, HumanEdit, DeploymentController, CacheSync, Tick,
           vars, manager, I!Observe, I!HumanEdit, I!Tick
      <4>3. QED
        BY <4>1, <4>2
    <3>3. QED
      BY <1>4, <3>1, <3>2 DEF RunsInGoroutine
  <2>7. QED
    BY <2>1, <2>2, <2>3, <2>4, <2>5, <2>6 DEF Next
<1>5. QED
  BY <1>3, <1>4 DEF RunsInGoroutine

(* The lines of a recovery are complete when Remediate returns it. *)
LEMMA LoggedNext ==
  ASSUME S!Base, ResultIsLogged, [Next]_vars
  PROVE  ResultIsLogged'
<1> SUFFICES ASSUME result' = "recovered"
             PROVE  attempt' > 0 /\ EndsRecovered(attempt)'
  BY DEF ResultIsLogged
<1>1. attempt' = attempt /\ trails' = trails
  BY ResultCases
<1>2. CASE result = "recovered"
  BY <1>1, <1>2 DEF ResultIsLogged, EndsRecovered
<1>3. CASE pc = "return_recovered"
  <2>1. attempt > 0
    BY <1>3 DEF S!Base, S!TypeOK
  <2>2. trails[attempt] = <<"DETECTED", "SNAPSHOTTED", "REMEDIATING", "VERIFYING", "RECOVERED",
                            "LOGGED">>
    BY <1>3 DEF S!Base, S!OnTrail, S!TrailAt
  <2>3. Len(trails[attempt]) = 6 /\ trails[attempt][6] = "LOGGED" /\ trails[attempt][5] = "RECOVERED"
    BY <2>2
  <2>4. QED
    BY <1>1, <2>1, <2>3 DEF EndsRecovered
<1>4. QED
  BY <1>2, <1>3, ResultCases

(* The lines of an attempt that has returned stay as they are. *)
LEMMA TrailsKept ==
  ASSUME S!Base, [Next]_vars, NEW n \in 1 .. MaxTries, n # attempt \/ pc = "idle"
  PROVE  trails'[n] = trails[n]
<1>1. CASE Remediate /\ S!Step
  <2>1. S!TypeOK /\ [S!Next]_(S!vars)
    BY <1>1 DEF S!Base, S!Next
  <2>2. n # attempt
    BY <1>1, StepWrites
  <2>3. QED
    BY <2>1, <2>2, Assumptions, S!AuditGrows
<1>2. CASE ~(Remediate /\ S!Step)
  <2>1. trails' = trails
    BY <1>2, ServiceCases DEF service, S!Start, S!HumanEdit, S!DeploymentController, CacheSync,
       S!Crash
  <2>2. QED
    BY <2>1
<1>3. QED
  BY <1>1, <1>2

(* Reconcile never says recovered. *)
LEMMA ReconcileOutcome ==
  ASSUME P!ClaimInv, P!ReconcileStep(Worker), NEW i \in 1 .. Len(hist'),
         hist'[i].outcome = "recovered"
  PROVE  i \in 1 .. Len(hist) /\ hist[i].outcome = "recovered"
<1> DEFINE Before == i \in 1 .. Len(hist) /\ hist[i].outcome = "recovered"
           d == worker[Worker].dep
           k == incidents[d].id
<1>1. Len(hist) \in Nat
  BY Assumptions, P!Types
<1>2. ASSUME Len(hist') = Len(hist), \A j \in (1 .. Len(hist)) \ {k} : P!SameHistory(j),
             hist'[k].outcome = hist[k].outcome \/ hist'[k].outcome # "recovered"
      PROVE  Before
  BY <1>2 DEF P!SameHistory
<1>3. CASE P!SkipQuiet(Worker) \/ P!ReuseEvidence(Worker) \/ P!CloseInReconcile(Worker)
  <2>1. hist' = hist
    BY <1>3 DEF P!SkipQuiet, P!ReuseEvidence, P!CloseInReconcile
  <2>2. QED
    BY <2>1
<1>4. CASE P!BeginAttempt(Worker) /\ ~P!SkipQuiet(Worker)
  <2>1. CASE P!Active(incidents[d])
    <3>1. /\ Len(hist') = Len(hist)
          /\ \A j \in (1 .. Len(hist)) \ {k} : P!SameHistory(j)
          /\ hist'[k].outcome = hist[k].outcome \/ hist'[k].outcome = "exhausted"
      BY <1>4, <2>1, Assumptions, P!ResumeEffect DEF P!HistoriesSame, P!SameHistory
    <3>2. QED
      BY <1>2, <3>1
  <2>2. CASE ~P!Active(incidents[d])
    <3>1. /\ Len(hist') = Len(hist) + 1
          /\ \A j \in 1 .. Len(hist) : P!SameHistory(j)
          /\ hist'[Len(hist) + 1].outcome = ""
      BY <1>4, <2>2, Assumptions, P!OpenEffect
    <3>2. i # Len(hist) + 1
      BY <3>1
    <3>3. i \in 1 .. Len(hist)
      <4>1. i \in 1 .. Len(hist) + 1
        BY <3>1
      <4>2. QED
        BY <1>1, <3>2, <4>1
    <3>4. QED
      BY <3>1, <3>3 DEF P!SameHistory
  <2>3. QED
    BY <2>1, <2>2
<1>5. CASE P!EscalateBlind(Worker) \/ P!Escalate(Worker) \/ P!Reject(Worker)
  <2>1. P!WorkerEnds(Worker)
    BY <1>5 DEF P!WorkerEnds
  <2>2. PICK o \in {"escalated", "rejected"}, b \in {hist[k].classifiedOn,
                hist[k].classifiedOn \union {worker[Worker].bundle}} : P!EndsWith(d, o, b)
    BY <2>1, Assumptions, P!WorkerEndEffect
  <2>3. /\ Len(hist') = Len(hist)
        /\ \A j \in (1 .. Len(hist)) \ {k} : P!SameHistory(j)
    BY <2>2 DEF P!EndsWith, P!Local
  <2>4. hist'[k].outcome = o
    BY <2>2 DEF P!EndsWith, P!TerminalOutcomes
  <2>5. QED
    BY <1>2, <2>3, <2>4
<1>6. CASE P!CollectEvidence(Worker)
  <2>1. P!Local(d) /\ hist'[k].outcome = hist[k].outcome
    BY <1>6, Assumptions, P!CollectEffect
  <2>2. QED
    BY <1>2, <2>1 DEF P!Local
<1>7. CASE P!FreezeEvidence(Worker)
  BY <1>7 DEF P!FreezeEvidence
<1>8. CASE P!Dispatch(Worker)
  <2>1. P!Local(d) /\ hist'[k].outcome = hist[k].outcome
    BY <1>8, Assumptions, P!DispatchEffect
  <2>2. QED
    BY <1>2, <2>1 DEF P!Local
<1>9. QED
  BY <1>3, <1>4, <1>5, <1>6, <1>7, <1>8 DEF P!ReconcileStep, P!BeginAttempt

(* An incident recovers when its goroutine passes that result on.           *)
LEMMA RecoveryCases ==
  ASSUME P!LifeInv, S!Base, MovesCounted, [Next]_vars,
         NEW i \in 1 .. Len(hist'), hist'[i].outcome = "recovered"
  PROVE  \/ i \in 1 .. Len(hist) /\ hist[i].outcome = "recovered"
         \/ /\ Finish /\ result = "recovered"
            /\ \E g \in goroutines : g.pc = "remediate" /\ g.incident = i
<1> DEFINE Before == i \in 1 .. Len(hist) /\ hist[i].outcome = "recovered"
<1>1. P!ClaimInv
  BY DEF P!LifeInv
<1>2. CASE Reconcile \/ Dispatch
  <2>1. I!ReconcileStep(Worker)
    BY <1>2 DEF Reconcile, Dispatch, I!ReconcileStep
  <2>2. P!ReconcileStep(Worker)
    BY <2>1, SameReconcile
  <2>3. QED
    BY <1>1, <2>2, ReconcileOutcome
<1>3. CASE Finish
  <2>1. PICK g \in goroutines : P!Finish(g, result) /\ result \in P!Results
    BY <1>3, FinishIsFinish, SameSteps DEF I!Results, P!Results
  <2>2. PICK b : /\ g.pc = "remediate" /\ g.incident = incidents[g.dep].id
                 /\ P!EndsWith(g.dep, result, b)
    BY <1>1, <2>1, Assumptions, P!FinishEffect
  <2>3. /\ Len(hist') = Len(hist) /\ g.incident \in 1 .. Len(hist)
        /\ \A j \in (1 .. Len(hist)) \ {g.incident} : P!SameHistory(j)
        /\ result = "recovered" \/ hist'[g.incident].outcome = hist[g.incident].outcome
    BY <2>1, <2>2 DEF P!EndsWith, P!Local, P!TerminalOutcomes, P!Results
  <2>4. CASE i = g.incident /\ result = "recovered"
    BY <1>3, <2>2, <2>4
  <2>5. CASE i # g.incident \/ result # "recovered"
    <3>1. Before
      BY <2>3, <2>5 DEF P!SameHistory
    <3>2. QED
      BY <3>1
  <2>6. QED
    BY <2>4, <2>5
<1>4. CASE HumanEdit
  <2>1. P!HumanEdit(Dep)
    BY <1>4, SameSteps DEF HumanEdit
  <2>2. P!QuietStep
    BY <2>1 DEF P!QuietStep
  <2>3. P!AllSame
    BY <1>1, <2>2, Assumptions, P!QuietEffect
  <2>4. QED
    BY <2>3 DEF P!AllSame, P!HistoriesSame, P!SameHistory
<1>5. CASE Tick
  <2>1. P!Tick
    BY <1>5, SameSteps DEF Tick
  <2>2. QED
    BY <1>1, <2>1, Assumptions, P!TickEffect
<1>6. CASE Crash
  <2>1. P!Restart
    BY <1>6, SameSteps DEF Crash
  <2>2. QED
    BY <1>1, <2>1, Assumptions, P!RestartEffect
<1>7. CASE Observe \/ Remediate \/ CloseInGoroutine \/ DeploymentController \/ CacheSync
           \/ UNCHANGED vars
  <2>1. hist' = hist
    BY <1>7 DEF Observe, Remediate, CloseInGoroutine, DeploymentController, CacheSync, vars,
       manager, I!Observe, I!CloseInGoroutine
  <2>2. QED
    BY <2>1
<1>8. QED
  BY <1>2, <1>3, <1>4, <1>5, <1>6, <1>7 DEF Next

(* An incident that ended is not the one Remediate runs for, nor the one a  *)
(* worker is about to dispatch it for.                                      *)
LEMMA EndedIsIdle ==
  ASSUME P!LifeInv, RunsInGoroutine, NEW i \in 1 .. Len(hist), hist[i].outcome # ""
  PROVE  /\ pc # "idle" => attemptOf[attempt] # i
         /\ Dispatch => worker[Worker].incident # i
<1>1. P!ClaimInv /\ P!AllLinked
  BY DEF P!LifeInv, P!RecordInv
<1>2. ASSUME P!Active(incidents[Dep])
      PROVE  hist[incidents[Dep].id].outcome = ""
  BY <1>1, <1>2 DEF P!AllLinked, P!Linked, P!Active
<1>3. ASSUME pc # "idle"
      PROVE  attemptOf[attempt] # i
  <2>1. PICK g \in goroutines : g.pc = "remediate" /\ g.incident = attemptOf[attempt]
    BY <1>3 DEF RunsInGoroutine
  <2>2. g.dep = Dep
    BY GoroutineFacts
  <2>3. g.incident = incidents[Dep].id /\ P!Active(incidents[Dep])
    BY <1>1, <2>1, <2>2, Assumptions, P!GoroutineHolding
  <2>4. QED
    BY <1>2, <2>1, <2>3
<1>4. ASSUME Dispatch
      PROVE  worker[Worker].incident # i
  <2>1. worker[Worker].pc \in P!HoldingPCs
    BY <1>4 DEF Dispatch, I!Dispatch, P!HoldingPCs
  <2>2. /\ worker[Worker].dep = Dep /\ worker[Worker].incident = incidents[Dep].id
        /\ P!Active(incidents[Dep])
    BY <1>1, <2>1, Assumptions, P!WorkerHolding
  <2>3. QED
    BY <1>2, <2>2
<1>5. QED
  BY <1>3, <1>4

LEMMA RecoveredNext ==
  ASSUME SystemInv, [Next]_vars
  PROVE  RecoveredIsLogged'
<1> SUFFICES ASSUME NEW i \in 1 .. Len(hist'), hist'[i].outcome = "recovered"
             PROVE  \E n \in AttemptsOf(i)' :
                      EndsRecovered(n)' /\ \A m \in AttemptsOf(i)' : m <= n
  BY DEF RecoveredIsLogged
<1>1. /\ P!LifeInv /\ S!Base /\ MovesCounted /\ AttemptsOrdered /\ RunsInGoroutine
      /\ ResultIsLogged
  BY DEF SystemInv
<1>2. /\ attempt \in Nat /\ attempt \in 0 .. MaxTries /\ MaxTries \in Nat
      /\ attemptOf \in Seq(Nat) /\ Len(attemptOf) = attempt
  BY <1>1, ServiceFacts, RemediationAssumption DEF AttemptsOrdered
<1>3. ASSUME i \in 1 .. Len(hist), hist[i].outcome = "recovered"
      PROVE  \E n \in AttemptsOf(i)' :
               EndsRecovered(n)' /\ \A m \in AttemptsOf(i)' : m <= n
  <2>1. PICK n \in AttemptsOf(i) : EndsRecovered(n) /\ \A m \in AttemptsOf(i) : m <= n
    BY <1>3 DEF SystemInv, RecoveredIsLogged
  <2>2. /\ pc # "idle" => attemptOf[attempt] # i
        /\ Dispatch => worker[Worker].incident # i
    BY <1>1, <1>3, EndedIsIdle
  <2>3. AttemptsOf(i)' = AttemptsOf(i)
    <3>1. CASE Dispatch
      <4>1. attemptOf' = Append(attemptOf, worker[Worker].incident)
        BY <1>1, <3>1, AttemptsNext
      <4>2. worker[Worker].incident \in Nat
        BY <1>1 DEF P!LifeInv, P!ClaimInv, P!TypeOK, P!WorkerState
      <4>3. /\ Len(attemptOf') = attempt + 1
            /\ \A m \in 1 .. attempt : attemptOf'[m] = attemptOf[m]
            /\ attemptOf'[attempt + 1] # i
        BY <1>2, <2>2, <3>1, <4>1, <4>2
      <4>4. \A m : m \in 1 .. attempt + 1 <=> m \in 1 .. attempt \/ m = attempt + 1
        BY <1>2
      <4>5. QED
        BY <1>2, <4>3, <4>4 DEF AttemptsOf
    <3>2. CASE ~Dispatch
      <4>1. attemptOf' = attemptOf
        BY <1>1, <3>2, AttemptsNext
      <4>2. QED
        BY <4>1 DEF AttemptsOf
    <3>3. QED
      BY <3>1, <3>2
  <2>4. n \in 1 .. attempt /\ attemptOf[n] = i
    BY <1>2, <2>1 DEF AttemptsOf
  <2>5. n \in 1 .. MaxTries
    BY <1>2, <2>4
  <2>6. trails'[n] = trails[n]
    BY <1>1, <2>2, <2>4, <2>5, TrailsKept
  <2>7. EndsRecovered(n)'
    BY <2>1, <2>6 DEF EndsRecovered
  <2>8. QED
    BY <2>1, <2>3, <2>7
<1>4. ASSUME Finish, result = "recovered",
             NEW g \in goroutines, g.pc = "remediate", g.incident = i
      PROVE  \E n \in AttemptsOf(i)' :
               EndsRecovered(n)' /\ \A m \in AttemptsOf(i)' : m <= n
  <2>1. attempt > 0 /\ attemptOf[attempt] = i /\ EndsRecovered(attempt)
    BY <1>1, <1>4 DEF RunsInGoroutine, ResultIsLogged
  <2>2. attemptOf' = attemptOf /\ trails' = trails /\ attempt' = attempt
    BY <1>4 DEF Finish, endAttempt, service
  <2>3. attempt \in AttemptsOf(i)' /\ \A m \in AttemptsOf(i)' : m <= attempt
    BY <1>2, <2>1, <2>2 DEF AttemptsOf
  <2>4. PICK n : n = attempt
    OBVIOUS
  <2>5. EndsRecovered(n)'
    BY <2>1, <2>2, <2>4 DEF EndsRecovered
  <2>6. QED
    BY <2>3, <2>4, <2>5
<1>5. QED
  BY <1>1, <1>3, <1>4, RecoveryCases

-----------------------------------------------------------------------------
(* The theorems. *)

LEMMA SystemInit == Init => SystemInv /\ I!Init
<1> SUFFICES ASSUME Init PROVE SystemInv /\ I!Init
  OBVIOUS
<1>1. I!Init /\ P!Init /\ S!Init /\ attemptOf = <<>>
  BY SameIncident, SameRemediation DEF Init
<1>2. P!LifeInv
  BY <1>1, Assumptions, P!LifeInit
<1>3. S!Base
  BY <1>1, Assumptions, S!BaseInit
<1>4. /\ goroutines = {} /\ hist = <<>> /\ pc = "idle" /\ result = "" /\ attempt = 0
      /\ Len(versions) = 1
  BY <1>1 DEF P!Init, S!Init
<1>5. VersionsBounded
  <2>1. Left = 0
    BY <1>4 DEF Left, S!BeforeUndo, S!BeforeRestore
  <2>2. MaxVersions \in Nat \ {0}
    BY RemediationAssumption
  <2>3. 1 + 0 <= MaxVersions + 2 * 0
    BY <2>2
  <2>4. QED
    BY <1>4, <2>1, <2>3 DEF VersionsBounded
<1>6. MovesCounted /\ RunsInGoroutine /\ ResultIsLogged
  BY <1>4 DEF MovesCounted, RunsInGoroutine, ResultIsLogged
<1>7. AttemptsOrdered
  <2>1. <<>> \in Seq(Nat) /\ Len(<<>>) = 0
    OBVIOUS
  <2>2. QED
    BY <1>1, <1>4, <2>1 DEF AttemptsOrdered
<1>8. RecoveredIsLogged
  <2>1. Len(hist) = 0
    <3>1. Len(<<>>) = 0
      OBVIOUS
    <3>2. QED
      BY <1>4, <3>1
  <2>2. \A i : i \notin 1 .. 0
    OBVIOUS
  <2>3. QED
    BY <2>1, <2>2 DEF RecoveredIsLogged
<1>9. QED
  BY <1>1, <1>2, <1>3, <1>5, <1>6, <1>7, <1>8 DEF SystemInv

LEMMA SystemStep == SystemInv /\ [Next]_vars => SystemInv' /\ [I!Next]_(I!vars)
<1> SUFFICES ASSUME SystemInv, [Next]_vars PROVE SystemInv' /\ [I!Next]_(I!vars)
  OBVIOUS
<1>1. /\ P!LifeInv /\ S!Base /\ VersionsBounded /\ MovesCounted /\ AttemptsOrdered
      /\ RunsInGoroutine /\ ResultIsLogged
  BY DEF SystemInv
<1>2. [I!Next]_(I!vars)
  BY <1>1, StepIsIncidentStep
<1>3. P!LifeInv'
  BY <1>1, <1>2, SameIncident, Assumptions, P!LifeStep
<1>4. S!Base' /\ VersionsBounded' /\ MovesCounted'
  BY <1>1, BaseNext, BoundedNext, MovesNext
<1>5. AttemptsOrdered' /\ RunsInGoroutine' /\ ResultIsLogged'
  BY <1>1, AttemptsNext, RunsNext, LoggedNext
<1>6. RecoveredIsLogged'
  BY RecoveredNext
<1>7. QED
  BY <1>2, <1>3, <1>4, <1>5, <1>6 DEF SystemInv

(* The two components keep their own invariants when they are put together *)
(* and share one Deployment and one cache: every claim is held by the one   *)
(* worker or the one goroutine, Remediate runs in that goroutine, and the   *)
(* versions it may still write are bounded by what the goroutine counted.   *)
THEOREM SystemInvariant == Spec => []SystemInv
<1>1. Init => SystemInv
  BY SystemInit
<1>2. SystemInv /\ [Next]_vars => SystemInv'
  BY SystemStep
<1>3. QED
  BY <1>1, <1>2, PTL DEF Spec

(* While Service.Remediate runs, whatever reconciles, restarts and edits    *)
(* happen beside it, its incident is open, claimed and the one on record.   *)
THEOREM ClaimCovers == Spec => []ClaimCoversRemediation
<1>1. ASSUME SystemInv
      PROVE  ClaimCoversRemediation
  <2>1. SUFFICES ASSUME pc # "idle"
                 PROVE  /\ I!Active(incidents[Dep]) /\ incidents[Dep].inFlight
                        /\ incidents[Dep].id = attemptOf[attempt]
    BY DEF ClaimCoversRemediation
  <2>2. P!LifeInv /\ P!ClaimInv /\ RunsInGoroutine
    BY <1>1 DEF SystemInv, P!LifeInv
  <2>3. PICK g \in goroutines : g.pc = "remediate" /\ g.incident = attemptOf[attempt]
    BY <2>1, <2>2 DEF RunsInGoroutine
  <2>4. g.dep = Dep
    BY <2>2, GoroutineFacts
  <2>5. /\ incidents[Dep].inFlight /\ g.incident = incidents[Dep].id
        /\ P!Active(incidents[Dep])
    BY <2>2, <2>3, <2>4, Assumptions, P!GoroutineHolding
  <2>6. I!Active(incidents[Dep])
    BY <2>5 DEF I!Active, P!Active, I!Present, P!Present
  <2>7. QED
    BY <2>3, <2>5, <2>6
<1>2. QED
  BY <1>1, SystemInvariant, PTL

(* An incident ends recovered only when the audit file says so: its last    *)
(* attempt wrote RECOVERED and LOGGED, also when the goroutine or the       *)
(* process was interrupted around it.                                       *)
THEOREM RecoveryIsLogged == Spec => []RecoveredIsLogged
<1>1. SystemInv => RecoveredIsLogged
  BY DEF SystemInv
<1>2. QED
  BY <1>1, SystemInvariant, PTL

(* The goroutine of module Incident, which moves the generation now and     *)
(* then and returns anything, is a sound abstraction of Service.Remediate:  *)
(* what is proved of Incident holds of the controller with the real one.    *)
THEOREM IncidentIsImplemented == Spec => ImplementsIncident
<1>1. Init => I!Init
  BY SystemInit
<1>2. SystemInv /\ [Next]_vars => [I!Next]_(I!vars)
  BY SystemStep
<1>3. QED
  BY <1>1, <1>2, SystemInvariant, PTL DEF Spec, ImplementsIncident, I!Spec

(* What the incident manager promises of an incident - one at a time for a  *)
(* Deployment, its actions one after the other within the budget, one end   *)
(* and nothing after it - is kept by the controller with the remediation    *)
(* service in it.                                                           *)
THEOREM SystemKeepsPromise == Spec => P!ImplementsPromise
<1>1. Init => P!Init
  BY SystemInit, SameIncident
<1>2. SystemInv /\ [Next]_vars => [P!Next]_(P!vars)
  BY SystemStep, SameIncident
<1>3. Spec => P!Spec
  BY <1>1, <1>2, SystemInvariant, PTL DEF Spec, P!Spec
<1>4. P!Spec => P!ImplementsPromise
  BY Assumptions, P!PromiseIsKept
<1>5. QED
  BY <1>3, <1>4

=============================================================================
