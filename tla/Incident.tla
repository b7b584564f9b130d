------------------------------ MODULE Incident ------------------------------
(***************************************************************************)
(* The incident manager of the Pod controller: internal/controller/        *)
(* incident.go together with the Reconcile handler of pod_controller.go    *)
(* that drives it.                                                         *)
(*                                                                         *)
(* A reconcile worker (controller-runtime runs one unless told otherwise)  *)
(* observes a Pod in CrashLoopBackOff, reads the Deployment's generation   *)
(* from the informer cache, asks beginAttempt for the claim, collects and  *)
(* freezes the evidence, classifies, and dispatches a goroutine that runs  *)
(* Service.Remediate, releases the claim and writes the terminal audit     *)
(* line.  Every step between two acquisitions of PodReconciler.mu is an    *)
(* action of its own, so workers, goroutines, human edits, cache updates   *)
(* and restarts of the process interleave as they do in the program.       *)
(*                                                                         *)
(* Time.  The code compares now.Sub(t) with a threshold and nothing else,  *)
(* so a record keeps the ages now - lastAttemptAt and now - terminalAt     *)
(* instead of the timestamps; Tick ages every record, saturating at        *)
(* AgeCap, which is beyond every threshold.                                *)
(***************************************************************************)
EXTENDS Integers, Sequences

CONSTANTS
  Deployments,   \* keys of the incidents map ("namespace/OwnerDeployment")
  Workers,       \* concurrent reconciles (MaxConcurrentReconciles)
  NoDeployment,  \* the zero value of a worker's locals
  MaxAttempts,   \* attempt budget of an incident
  BackoffBase,   \* AttemptBackoffBase, in ticks
  Cooldown,      \* CooldownPeriod, in ticks
  AgeCap,        \* ages saturate here
  AuditMayFail,  \* whether AuditWriter.Append may return an error
  MaxIncidents,  \* bound: Pods are observed until this many incidents exist
  MaxGeneration, \* bound on metadata.generation
  MaxRestarts    \* bound on restarts of the controller process

(* attemptBackoff: BackoffBase << (completedAttempts - 1). *)
attemptBackoff(completedAttempts) == BackoffBase * 2 ^ (completedAttempts - 1)

ASSUME ConstantsAssumption ==
  /\ NoDeployment \notin Deployments
  /\ MaxAttempts \in Nat \ {0}
  /\ BackoffBase \in Nat
  /\ Cooldown \in Nat
  /\ AgeCap \in Nat
  /\ AuditMayFail \in BOOLEAN
  /\ MaxIncidents \in Nat
  /\ MaxGeneration \in Nat \ {0}
  /\ MaxRestarts \in Nat

(* Saturating the ages at AgeCap changes no comparison: beginAttempt asks   *)
(* for the backoff of an incident only while budget is left.                *)
ASSUME AgeCapAssumption ==
  /\ AgeCap >= Cooldown
  /\ \A n \in 1 .. MaxAttempts - 1 : attemptBackoff(n) \in 0 .. AgeCap

VARIABLES
  incidents,   \* PodReconciler.incidents; the record with id 0 is a missing key
  worker,      \* the reconcile workers' control state and locals
  goroutines,  \* the dispatched remediations that have not returned
  classifier,  \* whether PodReconciler.Classifier is configured
  generation,  \* the Deployments' metadata.generation at the API server
  cached,      \* the generation the informer cache holds
  audit,       \* the terminal lines auditIncidentClosed has appended
  restarts,    \* how often the process has been restarted
  hist         \* history of each incident, indexed by its id

vars == <<incidents, worker, goroutines, classifier, generation, cached,
          audit, restarts, hist>>

-----------------------------------------------------------------------------
(* The incident record and the decisions taken on it under the lock. *)

TerminalOutcomes == {"recovered", "exhausted", "escalated", "rejected"}

(* What Service.Remediate leaves in result; "" when it returned an error. *)
Results == {"recovered", "rolled_back", ""}

NewRecord(id) ==
  [id |-> id, attemptCount |-> 0, sinceAttempt |-> 0, terminalOutcome |-> "",
   sinceTerminal |-> 0, generation |-> 0, inFlight |-> FALSE, evidence |-> 0]

Missing == NewRecord(0)

Present(record) == record.id # 0

Terminal(record) == Present(record) /\ record.terminalOutcome # ""

Active(record) == Present(record) /\ record.terminalOutcome = ""

(* The generation check of beginAttempt: it runs on terminal records only. *)
SpecChangedMutAnyRecord(record, g) == Present(record) /\ g # record.generation

SpecChanged(record, g) == Terminal(record) /\ g # record.generation

(* Exhausted is sticky, every other terminal outcome lasts for Cooldown. *)
QuietMutExhaustedExpires(record, g) ==
  /\ Terminal(record)
  /\ ~SpecChanged(record, g)
  /\ record.sinceTerminal < Cooldown

Quiet(record, g) ==
  /\ Terminal(record)
  /\ ~SpecChanged(record, g)
  /\ \/ record.terminalOutcome = "exhausted"
     \/ record.sinceTerminal < Cooldown

(* A record is replaced when there is none or the terminal one was dropped. *)
Opens(record, g) ==
  \/ ~Present(record)
  \/ SpecChanged(record, g)
  \/ Terminal(record) /\ ~Quiet(record, g)

BackingOff(record) ==
  /\ record.attemptCount > 0
  /\ record.sinceAttempt < attemptBackoff(record.attemptCount)

(* The order of beginAttempt's early returns on an active record. *)
DecisionMutNoInFlightCheck(record) ==
  IF record.attemptCount >= MaxAttempts THEN "exhausted"
  ELSE IF BackingOff(record) THEN "skip"
  ELSE "proceed"

DecisionMutOffByOne(record) ==
  IF record.inFlight THEN "skip"
  ELSE IF record.attemptCount > MaxAttempts THEN "exhausted"
  ELSE IF BackingOff(record) THEN "skip"
  ELSE "proceed"

DecisionMutNeverExhausts(record) ==
  IF record.inFlight \/ record.attemptCount >= MaxAttempts THEN "skip"
  ELSE IF BackingOff(record) THEN "skip"
  ELSE "proceed"

Decision(record) ==
  IF record.inFlight THEN "skip"
  ELSE IF record.attemptCount >= MaxAttempts THEN "exhausted"
  ELSE IF BackingOff(record) THEN "skip"
  ELSE "proceed"

(* What beginAttempt writes into the record it decided on. *)
Decided(record) ==
  CASE Decision(record) = "skip"      -> record
    [] Decision(record) = "exhausted" -> [record EXCEPT !.terminalOutcome = "exhausted",
                                                        !.sinceTerminal = 0]
    [] Decision(record) = "proceed"   -> [record EXCEPT !.inFlight = TRUE]

(* endAttempt: releases the claim; "" and rolled_back leave it active. *)
ReleasedMutErrorKeepsOldTime(record, outcome) ==
  IF outcome \in {"", "rolled_back"}
  THEN [record EXCEPT !.inFlight = FALSE,
                      !.sinceAttempt = IF outcome = "" THEN @ ELSE 0]
  ELSE [record EXCEPT !.inFlight = FALSE,
                      !.terminalOutcome = outcome, !.sinceTerminal = 0]

ReleasedMutRollbackIsTerminal(record, outcome) ==
  IF outcome = ""
  THEN [record EXCEPT !.inFlight = FALSE, !.sinceAttempt = 0]
  ELSE [record EXCEPT !.inFlight = FALSE,
                      !.terminalOutcome = outcome, !.sinceTerminal = 0]

Released(record, outcome) ==
  IF outcome \in {"", "rolled_back"}
  THEN [record EXCEPT !.inFlight = FALSE, !.sinceAttempt = 0]
  ELSE [record EXCEPT !.inFlight = FALSE,
                      !.terminalOutcome = outcome, !.sinceTerminal = 0]

-----------------------------------------------------------------------------
(* Locals of the reconcile workers, the goroutines and the histories. *)

WorkerPCs == {"idle", "begin", "admitted", "freeze", "classify", "close"}

IdleWorker ==
  [pc |-> "idle", dep |-> NoDeployment, gen |-> 0, incident |-> 0, bundle |-> 0]

(* Service.Remediate writes the Deployment at most twice: rollout_undo and  *)
(* the snapshot restore.                                                    *)
MaxMoves == 2

(* History of one incident, for the properties only: its Deployment, the   *)
(* actions dispatched, the evidence bundles collected and classified on,   *)
(* the age of its last attempt's end, its outcome, whether a change of the *)
(* Deployment by somebody else fell into it (or an older change was still  *)
(* unseen when it was opened), and whether a restart forgot it.            *)
NewHistory(d, unseen) ==
  [dep |-> d, dispatched |-> 0, collected |-> 0, classifiedOn |-> {},
   quietFor |-> 0, outcome |-> "", edited |-> unseen, lost |-> FALSE]

Init ==
  /\ incidents = [d \in Deployments |-> Missing]
  /\ worker = [w \in Workers |-> IdleWorker]
  /\ goroutines = {}
  /\ classifier \in BOOLEAN
  /\ generation = [d \in Deployments |-> 1]
  /\ cached = [d \in Deployments |-> 1]
  /\ audit = <<>>
  /\ restarts = 0
  /\ hist = <<>>

-----------------------------------------------------------------------------
(* Reconcile up to the admission decision. *)

(* The Pod is in CrashLoopBackOff and owned by d; the generation comes from *)
(* the cache, or is 0 because deploymentGeneration returned an error.       *)
Observe(w, d) ==
  /\ worker[w].pc = "idle"
  /\ Len(hist) < MaxIncidents
  /\ \E g \in {cached[d], 0} :
       worker' = [worker EXCEPT ![w] =
                    [IdleWorker EXCEPT !.pc = "begin", !.dep = d, !.gen = g]]
  /\ UNCHANGED <<incidents, goroutines, classifier, generation, cached, audit,
                 restarts, hist>>

(* The record beginAttempt decides on, its generation refreshed. *)
Considered(w) ==
  LET d == worker[w].dep
      g == worker[w].gen
      record == IF Opens(incidents[d], g) THEN NewRecord(Len(hist) + 1)
                                          ELSE incidents[d]
  IN  [record EXCEPT !.generation = g]

(* The histories once beginAttempt has opened an incident, if it does. *)
Opened(w) ==
  LET d == worker[w].dep
      g == worker[w].gen
  IN  IF Opens(incidents[d], g) THEN Append(hist, NewHistory(d, g # generation[d]))
                                ELSE hist

(* Terminal and neither changed nor cooled down: admitSkip, nothing written. *)
SkipQuiet(w) ==
  /\ worker[w].pc = "begin"
  /\ Quiet(incidents[worker[w].dep], worker[w].gen)
  /\ worker' = [worker EXCEPT ![w] = IdleWorker]
  /\ UNCHANGED <<incidents, goroutines, classifier, generation, cached, audit,
                 restarts, hist>>

(* In flight or backing off: admitSkip, only the generation is refreshed. *)
SkipActive(w) ==
  /\ worker[w].pc = "begin"
  /\ ~Quiet(incidents[worker[w].dep], worker[w].gen)
  /\ Decision(Considered(w)) = "skip"
  /\ incidents' = [incidents EXCEPT ![worker[w].dep] = Decided(Considered(w))]
  /\ worker' = [worker EXCEPT ![w] = IdleWorker]
  /\ hist' = Opened(w)
  /\ UNCHANGED <<goroutines, classifier, generation, cached, audit, restarts>>

(* The budget is spent: the incident ends here, its line is still to write. *)
Exhaust(w) ==
  /\ worker[w].pc = "begin"
  /\ ~Quiet(incidents[worker[w].dep], worker[w].gen)
  /\ Decision(Considered(w)) = "exhausted"
  /\ incidents' = [incidents EXCEPT ![worker[w].dep] = Decided(Considered(w))]
  /\ worker' = [worker EXCEPT ![w].pc = "close", ![w].incident = Considered(w).id]
  /\ hist' = [Opened(w) EXCEPT ![Considered(w).id].outcome = "exhausted"]
  /\ UNCHANGED <<goroutines, classifier, generation, cached, audit, restarts>>

(* admitProceed: the claim is taken. *)
Claim(w) ==
  /\ worker[w].pc = "begin"
  /\ ~Quiet(incidents[worker[w].dep], worker[w].gen)
  /\ Decision(Considered(w)) = "proceed"
  /\ incidents' = [incidents EXCEPT ![worker[w].dep] = Decided(Considered(w))]
  /\ worker' = [worker EXCEPT ![w].pc = "admitted", ![w].incident = Considered(w).id]
  /\ hist' = Opened(w)
  /\ UNCHANGED <<goroutines, classifier, generation, cached, audit, restarts>>

BeginAttempt(w) == SkipQuiet(w) \/ SkipActive(w) \/ Exhaust(w) \/ Claim(w)

-----------------------------------------------------------------------------
(* endAttempt and the terminal line, for workers and goroutines alike. *)

(* endAttempt(d, outcome) by an attempt of incident inc, whose histories    *)
(* are h once the attempt's own step is recorded in them.                   *)
endAttempt(d, inc, outcome, h) ==
  LET record == incidents[d]
  IN  IF ~Present(record)
      THEN /\ UNCHANGED incidents
           /\ hist' = h
      ELSE /\ incidents' = [incidents EXCEPT ![d] = Released(record, outcome)]
           /\ hist' = IF outcome \in TerminalOutcomes
                      THEN [h EXCEPT ![record.id].outcome = outcome]
                      ELSE [h EXCEPT ![inc].quietFor = 0]

(* closeIncidentIfTerminal: whatever record the key holds by now. *)
closeIncidentIfTerminalMutAnyOutcome(d) ==
  LET record == incidents[d]
  IN  IF Terminal(record)
      THEN audit' = Append(audit, [incident |-> record.id,
                                   outcome  |-> record.terminalOutcome,
                                   attempts |-> record.attemptCount])
      ELSE UNCHANGED audit

closeIncidentIfTerminalMutSkipsRejected(d) ==
  LET record == incidents[d]
  IN  IF Terminal(record) /\ record.terminalOutcome \in {"exhausted", "escalated"}
      THEN audit' = Append(audit, [incident |-> record.id,
                                   outcome  |-> record.terminalOutcome,
                                   attempts |-> record.attemptCount])
      ELSE UNCHANGED audit

closeIncidentIfTerminal(d) ==
  LET record == incidents[d]
  IN  IF Terminal(record) /\ record.terminalOutcome # "recovered"
      THEN \/ audit' = Append(audit, [incident |-> record.id,
                                      outcome  |-> record.terminalOutcome,
                                      attempts |-> record.attemptCount])
           \/ AuditMayFail /\ UNCHANGED audit
      ELSE UNCHANGED audit

-----------------------------------------------------------------------------
(* Reconcile after admission, while the worker holds the claim. *)

(* Classifier is nil: escalate rather than automate blind. *)
EscalateBlindMutWaits(w) == worker[w].pc = "admitted" /\ ~classifier /\ UNCHANGED vars

EscalateBlind(w) ==
  /\ worker[w].pc = "admitted"
  /\ ~classifier
  /\ endAttempt(worker[w].dep, worker[w].incident, "escalated", hist)
  /\ worker' = [worker EXCEPT ![w].pc = "close"]
  /\ UNCHANGED <<goroutines, classifier, generation, cached, audit, restarts>>

(* incidentEvidence finds the frozen bundle of an earlier attempt. *)
ReuseEvidence(w) ==
  /\ worker[w].pc = "admitted"
  /\ classifier
  /\ incidents[worker[w].dep].evidence # 0
  /\ worker' = [worker EXCEPT ![w].pc = "classify",
                              ![w].bundle = incidents[worker[w].dep].evidence]
  /\ UNCHANGED <<incidents, goroutines, classifier, generation, cached, audit,
                 restarts, hist>>

(* No bundle yet: Collect, outside the lock.  A bundle is known by its      *)
(* number among the incident's collections.                                 *)
CollectEvidence(w) ==
  LET n == hist[worker[w].incident].collected + 1
  IN  /\ worker[w].pc = "admitted"
      /\ classifier
      /\ incidents[worker[w].dep].evidence = 0
      /\ worker' = [worker EXCEPT ![w].pc = "freeze", ![w].bundle = n]
      /\ hist' = [hist EXCEPT ![worker[w].incident].collected = n]
      /\ UNCHANGED <<incidents, goroutines, classifier, generation, cached, audit,
                     restarts>>

freezeEvidenceMutNotCaptured(d, bundle) == UNCHANGED incidents

freezeEvidence(d, bundle) ==
  IF Present(incidents[d])
  THEN incidents' = [incidents EXCEPT ![d].evidence = bundle]
  ELSE UNCHANGED incidents

FreezeEvidence(w) ==
  /\ worker[w].pc = "freeze"
  /\ freezeEvidence(worker[w].dep, worker[w].bundle)
  /\ worker' = [worker EXCEPT ![w].pc = "classify"]
  /\ UNCHANGED <<goroutines, classifier, generation, cached, audit, restarts, hist>>

(* The histories once the incident is classified on the worker's bundle. *)
ClassifiedOn(h, bundle) == [h EXCEPT !.classifiedOn = @ \union {bundle}]

Classified(w) ==
  [hist EXCEPT ![worker[w].incident] = ClassifiedOn(@, worker[w].bundle)]

(* The proposal is not safe for automation. *)
Escalate(w) ==
  /\ worker[w].pc = "classify"
  /\ endAttempt(worker[w].dep, worker[w].incident, "escalated", Classified(w))
  /\ worker' = [worker EXCEPT ![w].pc = "close"]
  /\ UNCHANGED <<goroutines, classifier, generation, cached, audit, restarts>>

(* The proposal names an action that is not registered. *)
Reject(w) ==
  /\ worker[w].pc = "classify"
  /\ endAttempt(worker[w].dep, worker[w].incident, "rejected", Classified(w))
  /\ worker' = [worker EXCEPT ![w].pc = "close"]
  /\ UNCHANGED <<goroutines, classifier, generation, cached, audit, restarts>>

(* recordAttempt and the go statement; Reconcile returns. *)
Dispatch(w) ==
  LET d == worker[w].dep
      record == incidents[d]
      attempt == IF Present(record) THEN record.attemptCount + 1 ELSE 0
  IN  /\ worker[w].pc = "classify"
      /\ incidents' = IF Present(record)
                      THEN [incidents EXCEPT ![d].attemptCount = attempt]
                      ELSE incidents
      /\ goroutines' = goroutines \union
           {[dep |-> d, incident |-> worker[w].incident, attempt |-> attempt,
             pc |-> "remediate", moves |-> 0]}
      /\ hist' = [Classified(w) EXCEPT ![worker[w].incident].dispatched = @ + 1]
      /\ worker' = [worker EXCEPT ![w] = IdleWorker]
      /\ UNCHANGED <<classifier, generation, cached, audit, restarts>>

(* The line of an incident that ended in Reconcile. *)
CloseInReconcile(w) ==
  /\ worker[w].pc = "close"
  /\ closeIncidentIfTerminal(worker[w].dep)
  /\ worker' = [worker EXCEPT ![w] = IdleWorker]
  /\ UNCHANGED <<incidents, goroutines, classifier, generation, cached, restarts, hist>>

-----------------------------------------------------------------------------
(* The dispatched goroutine. *)

(* The action or the restore updates the Deployment's template. *)
MoveSpec(g) ==
  /\ g.pc = "remediate"
  /\ g.moves < MaxMoves
  /\ generation[g.dep] < MaxGeneration
  /\ generation' = [generation EXCEPT ![g.dep] = @ + 1]
  /\ goroutines' = (goroutines \ {g}) \union {[g EXCEPT !.moves = @ + 1]}
  /\ UNCHANGED <<incidents, worker, classifier, cached, audit, restarts, hist>>

(* Remediate has returned; the deferred function calls endAttempt. *)
Finish(g, result) ==
  /\ g.pc = "remediate"
  /\ result = "recovered" => g.moves < MaxMoves    \* nothing was restored
  /\ endAttempt(g.dep, g.incident, result, hist)
  /\ goroutines' = (goroutines \ {g}) \union {[g EXCEPT !.pc = "close"]}
  /\ UNCHANGED <<worker, classifier, generation, cached, audit, restarts>>

(* ... and then closeIncidentIfTerminal, a second acquisition of the lock. *)
CloseInGoroutine(g) ==
  /\ g.pc = "close"
  /\ closeIncidentIfTerminal(g.dep)
  /\ goroutines' = goroutines \ {g}
  /\ UNCHANGED <<incidents, worker, classifier, generation, cached, restarts, hist>>

-----------------------------------------------------------------------------
(* The environment. *)

(* Somebody other than the controller changes the Deployment's spec. *)
HumanEdit(d) ==
  /\ generation[d] < MaxGeneration
  /\ generation' = [generation EXCEPT ![d] = @ + 1]
  /\ hist' = [i \in 1 .. Len(hist) |->
                 [hist[i] EXCEPT !.edited = @ \/ hist[i].dep = d]]
  /\ UNCHANGED <<incidents, worker, goroutines, classifier, cached, audit, restarts>>

(* The informer receives a newer version of the Deployment, maybe not the   *)
(* next one.                                                                *)
CacheSync(d) ==
  /\ \E g \in cached[d] + 1 .. generation[d] : cached' = [cached EXCEPT ![d] = g]
  /\ UNCHANGED <<incidents, worker, goroutines, classifier, generation, audit,
                 restarts, hist>>

Older(age) == IF age < AgeCap THEN age + 1 ELSE age

(* An age moves only while beginAttempt would read it: now - lastAttemptAt  *)
(* between two attempts, now - terminalAt once the record is terminal.      *)
Aged(record) ==
  IF Terminal(record) THEN [record EXCEPT !.sinceTerminal = Older(@)]
  ELSE IF Active(record) /\ record.attemptCount > 0 /\ ~record.inFlight
       THEN [record EXCEPT !.sinceAttempt = Older(@)]
  ELSE record

(* The time since an attempt of incident i ended, while none is running. *)
AgedHistory(i) ==
  LET h == hist[i]
      between == /\ h.outcome = "" /\ ~h.lost /\ h.dispatched > 0
                 /\ ~incidents[h.dep].inFlight
  IN  IF between THEN [h EXCEPT !.quietFor = Older(@)] ELSE h

Tick ==
  /\ incidents' = [d \in Deployments |-> Aged(incidents[d])]
  /\ hist' = [i \in 1 .. Len(hist) |-> AgedHistory(i)]
  /\ UNCHANGED <<worker, goroutines, classifier, generation, cached, audit, restarts>>

(* The process dies at any point and starts again: the incidents map lives  *)
(* in memory only, the audit file survives.                                 *)
Restart ==
  /\ restarts < MaxRestarts
  /\ restarts' = restarts + 1
  /\ incidents' = [d \in Deployments |-> Missing]
  /\ worker' = [w \in Workers |-> IdleWorker]
  /\ goroutines' = {}
  /\ cached' = generation
  /\ hist' = [i \in 1 .. Len(hist) |-> [hist[i] EXCEPT !.lost = TRUE]]
  /\ UNCHANGED <<classifier, generation, audit>>

-----------------------------------------------------------------------------
(* The steps of a Reconcile that has observed its Pod. *)
ReconcileStep(w) ==
  \/ BeginAttempt(w)
  \/ EscalateBlind(w) \/ ReuseEvidence(w) \/ CollectEvidence(w)
  \/ FreezeEvidence(w)
  \/ Escalate(w) \/ Reject(w) \/ Dispatch(w)
  \/ CloseInReconcile(w)

Return(g) == \/ \E result \in Results : Finish(g, result)
             \/ CloseInGoroutine(g)

Next ==
  \/ \E w \in Workers : \/ \E d \in Deployments : Observe(w, d)
                        \/ ReconcileStep(w)
  \/ \E g \in goroutines : MoveSpec(g) \/ Return(g)
  \/ \E d \in Deployments : HumanEdit(d) \/ CacheSync(d)
  \/ Tick
  \/ Restart

Spec == Init /\ [][Next]_vars

(* Reconcile and Remediate are bounded (30s classification timeout, 90s of  *)
(* verification), time passes, and a container that keeps crashing keeps    *)
(* changing its Pod's status, so its Deployment is observed again and again *)
(* whenever a worker is free.                                               *)
Fairness ==
  /\ \A w \in Workers : WF_vars(ReconcileStep(w))
  /\ \A d \in Deployments :
       /\ WF_vars(\E g \in goroutines : g.dep = d /\ Return(g))
       /\ SF_vars(\E w \in Workers : Observe(w, d))
  /\ WF_vars(Tick)

FairSpec == Spec /\ Fairness

-----------------------------------------------------------------------------
(* Properties. *)

Record ==
  [id : Nat, attemptCount : Nat, sinceAttempt : Nat,
   terminalOutcome : TerminalOutcomes \union {""}, sinceTerminal : Nat,
   generation : Nat, inFlight : BOOLEAN, evidence : Nat]

WorkerState ==
  [pc : WorkerPCs, dep : Deployments \union {NoDeployment}, gen : Nat,
   incident : Nat, bundle : Nat]

Goroutine ==
  [dep : Deployments, incident : Nat, attempt : Nat,
   pc : {"remediate", "close"}, moves : Nat]

History ==
  [dep : Deployments, dispatched : Nat, collected : Nat, classifiedOn : SUBSET Nat,
   quietFor : Nat, outcome : TerminalOutcomes \union {""},
   edited : BOOLEAN, lost : BOOLEAN]

Line == [incident : Nat, outcome : TerminalOutcomes, attempts : Nat]

(* Every variable holds a value of its type, and a busy worker knows the    *)
(* Deployment it works for.                                                 *)
TypeOK ==
  /\ incidents \in [Deployments -> Record]
  /\ worker \in [Workers -> WorkerState]
  /\ \A w \in Workers : worker[w].pc # "idle" => worker[w].dep \in Deployments
  /\ goroutines \subseteq Goroutine
  /\ classifier \in BOOLEAN
  /\ generation \in [Deployments -> 1 .. MaxGeneration]
  /\ cached \in [Deployments -> 1 .. MaxGeneration]
  /\ audit \in Seq(Line)
  /\ restarts \in 0 .. MaxRestarts
  /\ hist \in Seq(History)

(* The claims on d: workers between admission and dispatch, and goroutines  *)
(* inside Service.Remediate.                                                *)
HoldingPCs == {"admitted", "freeze", "classify"}

WorkerHolds(w, d) == worker[w].pc \in HoldingPCs /\ worker[w].dep = d

GoroutineHolds(g, d) == g.pc = "remediate" /\ g.dep = d

(* beginAttempt "claims the incident so no concurrent reconcile can start a *)
(* second one": a Deployment is worked on by at most one reconcile or       *)
(* remediation, and exactly while its record says inFlight.                 *)
ClaimExclusive ==
  \A d \in Deployments :
    /\ \A w1, w2 \in Workers : WorkerHolds(w1, d) /\ WorkerHolds(w2, d) => w1 = w2
    /\ \A g1, g2 \in goroutines :
         GoroutineHolds(g1, d) /\ GoroutineHolds(g2, d) => g1 = g2
    /\ \A w \in Workers, g \in goroutines : ~(WorkerHolds(w, d) /\ GoroutineHolds(g, d))
    /\ incidents[d].inFlight <=> \/ \E w \in Workers : WorkerHolds(w, d)
                                \/ \E g \in goroutines : GoroutineHolds(g, d)

(* endAttempt, recordAttempt and freezeEvidence look the record up by key   *)
(* again: whoever holds the claim finds there the incident it was admitted  *)
(* for, still active, whatever edits, cooldowns and other reconciles did.   *)
ClaimKeepsIncident ==
  /\ \A w \in Workers : worker[w].pc \in HoldingPCs =>
       /\ incidents[worker[w].dep].id = worker[w].incident
       /\ Active(incidents[worker[w].dep])
  /\ \A g \in goroutines : g.pc = "remediate" =>
       /\ incidents[g.dep].id = g.incident
       /\ Active(incidents[g.dep])

(* The attempt budget: no incident ever gets more than MaxAttempts actions, *)
(* and the counter on its record is the number dispatched.                  *)
BudgetHolds ==
  /\ \A i \in 1 .. Len(hist) : hist[i].dispatched <= MaxAttempts
  /\ \A d \in Deployments : Present(incidents[d]) =>
       incidents[d].attemptCount = hist[incidents[d].id].dispatched

(* Evidence is collected once, before the incident's first action, and      *)
(* every attempt of the incident is classified on that bundle.              *)
EvidenceFrozen ==
  \A i \in 1 .. Len(hist) :
    /\ hist[i].classifiedOn \subseteq {1}
    /\ hist[i].dispatched > 0 => hist[i].classifiedOn = {1}

(* A terminal line says how its incident really ended, with the number of   *)
(* actions it really took; recovered is left to Service.Remediate.          *)
AuditTruthful ==
  \A n \in 1 .. Len(audit) :
    LET line == audit[n]
    IN  /\ line.incident \in 1 .. Len(hist)
        /\ line.outcome = hist[line.incident].outcome
        /\ line.outcome # "recovered"
        /\ line.attempts = hist[line.incident].dispatched

(* With one reconcile worker and an audit file that accepts writes, an      *)
(* incident that ended exhausted, escalated or rejected has its LOGGED line *)
(* or the worker is about to write it, unless the process died in between.  *)
EndedIsLogged ==
  \A i \in 1 .. Len(hist) :
    hist[i].outcome \in TerminalOutcomes \ {"recovered"} /\ ~hist[i].lost =>
      \/ \E n \in 1 .. Len(audit) : audit[n].incident = i
      \/ \E w \in Workers : worker[w].pc = "close" /\ worker[w].incident = i

(* "30s after attempt 1" means after it completes: a claim on an incident   *)
(* that already acted is taken only when the backoff has elapsed since its  *)
(* last attempt ended, however it ended.                                    *)
BackoffRespected ==
  [][\A d \in Deployments :
       LET i == incidents[d].id
       IN  /\ ~incidents[d].inFlight /\ incidents'[d].inFlight
           /\ Present(incidents[d]) /\ incidents'[d].id = i
           /\ hist[i].dispatched > 0
           => hist[i].quietFor >= attemptBackoff(hist[i].dispatched)]_vars

(* Exhausted is sticky: the passage of time never re-arms a Deployment the  *)
(* controller gave up on.  The record goes away with the process, or when a *)
(* reconcile has read a generation other than the one stored.               *)
ExhaustedSticky ==
  [][\A d \in Deployments :
       /\ incidents[d].terminalOutcome = "exhausted"
       /\ incidents'[d].id # incidents[d].id
       => \/ restarts' # restarts
          \/ \E w \in Workers : /\ worker[w].pc = "begin" /\ worker[w].dep = d
                               /\ worker[w].gen # incidents[d].generation]_vars

(* The life of incident i, as module IncidentPromise has it. *)
Acting(i) == \E g \in goroutines : g.incident = i /\ g.pc = "remediate"

LifeOf(i) ==
  [dep |-> hist[i].dep, acts |-> hist[i].dispatched, acting |-> Acting(i),
   outcome |-> hist[i].outcome, lost |-> hist[i].lost]

Lives == [i \in 1 .. Len(hist) |-> LifeOf(i)]

(* What the manager promises of an incident as a whole, whatever the order  *)
(* of reconciles, remediations, edits, stale or failed reads and restarts:  *)
(* one at a time for a Deployment, its actions one after the other within   *)
(* the budget, one end, exhausted exactly when the budget is spent, and no  *)
(* action after it.                                                         *)
Promise == INSTANCE IncidentPromise WITH life <- Lives

ImplementsPromise == Promise!Spec

(* A claim is always released: no Deployment stays in flight for ever.      *)
ClaimReleased == \A d \in Deployments : incidents[d].inFlight ~> ~incidents[d].inFlight

(* A Deployment that keeps crashing does not stay in an open incident for   *)
(* ever: the budget runs out or another outcome ends it (up to the bound on *)
(* incidents, where Pods are no longer observed).                           *)
IncidentEnds ==
  \A d \in Deployments :
    Active(incidents[d]) ~> (~Active(incidents[d]) \/ Len(hist) >= MaxIncidents)

=============================================================================
