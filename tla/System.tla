------------------------------- MODULE System -------------------------------
(***************************************************************************)
(* The controller as cmd/main.go puts it together, for one Deployment and  *)
(* the one reconcile worker controller-runtime runs: the incident manager  *)
(* (module Incident) dispatches the remediation service (Remediation), and *)
(* both look at the same Deployment through the same informer cache.       *)
(*                                                                         *)
(* Module Incident abstracts Service.Remediate to a goroutine that moves   *)
(* the Deployment's generation now and then and returns any result; here   *)
(* the goroutine takes Remediation's steps, and Incident's generation and  *)
(* cached are computed from the versions of the Deployment.  That the      *)
(* abstraction is sound is the refinement ImplementsIncident.              *)
(*                                                                         *)
(* The window between SIGTERM and the end of the process is left to module *)
(* Remediation; here the process just dies.                                *)
(***************************************************************************)
EXTENDS Naturals, Sequences, FiniteSets

CONSTANTS
  Dep, Worker, NoDeployment,            \* the Deployment and the worker
  Budget,                               \* MaxAttempts of the incident manager
  BackoffBase, Cooldown, AgeCap,
  MaxIncidents, MaxRestarts,            \* bounds of Incident
  Templates, NoTemplate, Faults,
  MaxTries,                             \* bound: attempts over all incidents
  MaxVersions                           \* bound of Remediation

VARIABLES
  incidents, worker, goroutines, classifier, restarts, hist,
  terminal,   \* the terminal lines, variable audit of Incident
  versions, seen, seenSets, attempt, pc, machine, snapshot, read, target, result,
  cancelled, restoredAt,
  trails,     \* the lines of each attempt, variable audit of Remediation
  attemptOf   \* history: the incident of each attempt

manager == <<incidents, worker, goroutines, classifier, restarts, hist, terminal>>
service == <<versions, seen, seenSets, attempt, pc, machine, snapshot, read, target,
             result, cancelled, restoredAt, trails>>
vars == <<manager, service, attemptOf>>

(* metadata.generation of version v: it counts the changes of the spec, not *)
(* those of the revision annotation.                                        *)
GenerationAt(v) ==
  1 + Cardinality({i \in 2 .. v : versions[i].template # versions[i - 1].template})

(* ... of the live version, and of the one in the informer cache. *)
Generation == [d \in {Dep} |-> GenerationAt(Len(versions))]

Cached == [d \in {Dep} |-> GenerationAt(seen)]

I == INSTANCE Incident WITH
       Deployments <- {Dep}, Workers <- {Worker}, MaxAttempts <- Budget,
       AuditMayFail <- "encode" \in Faults,
       MaxGeneration <- MaxVersions + 2 * MaxTries,
       generation <- Generation, cached <- Cached, audit <- terminal

R == INSTANCE Remediation WITH MaxAttempts <- MaxTries, audit <- trails

(* The assumptions of both modules, on the constants they are given here. *)
ASSUME IncidentAssumption ==
  /\ Dep # NoDeployment
  /\ Budget \in Nat \ {0} /\ BackoffBase \in Nat /\ Cooldown \in Nat /\ AgeCap \in Nat
  /\ MaxIncidents \in Nat /\ MaxRestarts \in Nat
  /\ AgeCap >= Cooldown
  /\ \A n \in 1 .. Budget - 1 : I!attemptBackoff(n) \in 0 .. AgeCap

ASSUME RemediationAssumption ==
  /\ NoTemplate \notin Templates
  /\ Faults \subseteq R!AllFaults
  /\ MaxTries \in Nat
  /\ MaxVersions \in Nat \ {0}

Init == R!Init /\ I!Init /\ attemptOf = <<>>

-----------------------------------------------------------------------------
(* The reconcile worker. *)

Observe == UNCHANGED <<service, attemptOf>> /\ I!Observe(Worker, Dep)

(* Everything Reconcile does without touching the Deployment. *)
Reconcile ==
  /\ UNCHANGED <<service, attemptOf>>
  /\ \/ I!BeginAttempt(Worker)
     \/ I!EscalateBlind(Worker)
     \/ I!ReuseEvidence(Worker) \/ I!CollectEvidence(Worker) \/ I!FreezeEvidence(Worker)
     \/ I!Escalate(Worker) \/ I!Reject(Worker)
     \/ I!CloseInReconcile(Worker)

(* recordAttempt, and the go statement that starts Service.Remediate. *)
DispatchMutNotCounted ==
  /\ R!Start
  /\ attemptOf' = Append(attemptOf, worker[Worker].incident)
  /\ worker[Worker].pc = "classify"
  /\ goroutines' = goroutines \union
       {[dep |-> Dep, incident |-> worker[Worker].incident,
         attempt |-> incidents[Dep].attemptCount, pc |-> "remediate", moves |-> 0]}
  /\ hist' = [I!Classified(Worker) EXCEPT ![worker[Worker].incident].dispatched = @ + 1]
  /\ worker' = [worker EXCEPT ![Worker] = I!IdleWorker]
  /\ UNCHANGED <<incidents, classifier, terminal, restarts>>

Dispatch ==
  /\ R!Start
  /\ attemptOf' = Append(attemptOf, worker[Worker].incident)
  /\ I!Dispatch(Worker)

-----------------------------------------------------------------------------
(* The dispatched goroutine. *)

(* The goroutine inside Service.Remediate becomes next. *)
Becomes(g, next) == goroutines' = (goroutines \ {g}) \union {next}

(* A step of Service.Remediate; its changes of the spec are counted. *)
Remediate ==
  /\ R!Step
  /\ IF GenerationAt(Len(versions))' # GenerationAt(Len(versions))
     THEN \E g \in goroutines : g.pc = "remediate" /\ Becomes(g, [g EXCEPT !.moves = @ + 1])
     ELSE UNCHANGED goroutines
  /\ UNCHANGED <<incidents, worker, classifier, restarts, hist, terminal, attemptOf>>

(* Remediate has returned: endAttempt with its result, "" for an error. *)
endAttempt(g, outcome) ==
  /\ g.pc = "remediate"
  /\ I!endAttempt(g.dep, g.incident, outcome, hist)
  /\ Becomes(g, [g EXCEPT !.pc = "close"])
  /\ UNCHANGED <<worker, classifier, restarts, terminal, service, attemptOf>>

FinishMutErrorIsRecovered ==
  /\ pc = "idle"
  /\ \E g \in goroutines : endAttempt(g, IF result = "" THEN "recovered" ELSE result)

FinishMutEarly == \E g \in goroutines : endAttempt(g, result)

Finish == pc = "idle" /\ \E g \in goroutines : endAttempt(g, result)

CloseInGoroutine ==
  /\ UNCHANGED <<service, attemptOf>>
  /\ \E g \in goroutines : I!CloseInGoroutine(g)

-----------------------------------------------------------------------------
(* The cluster and the process. *)

HumanEdit == R!HumanEdit /\ UNCHANGED attemptOf /\ I!HumanEdit(Dep)

DeploymentController == R!DeploymentController /\ UNCHANGED <<manager, attemptOf>>

(* The informer catches up with some version of the Deployment. *)
CacheSync ==
  /\ "lag" \in Faults
  /\ seen' \in seen + 1 .. Len(versions)
  /\ UNCHANGED <<manager, attemptOf, versions, seenSets, attempt, pc, machine, snapshot,
                 read, target, result, cancelled, restoredAt, trails>>

Tick == UNCHANGED <<service, attemptOf>> /\ I!Tick

(* Both components live in the process that dies. *)
Crash == R!Crash /\ UNCHANGED attemptOf /\ I!Restart

Next ==
  \/ Observe \/ Reconcile \/ Dispatch
  \/ Remediate \/ Finish \/ CloseInGoroutine
  \/ HumanEdit \/ DeploymentController \/ CacheSync
  \/ Tick \/ Crash

Spec == Init /\ [][Next]_vars

-----------------------------------------------------------------------------
(* Properties. *)

(* The remediation service behaves as module Incident says a dispatched     *)
(* goroutine does, so what is checked and proved there holds here.          *)
ImplementsIncident == I!Spec

(* While Service.Remediate runs - and so whenever it writes the Deployment  *)
(* or an audit line - the incident it was dispatched for is open, claimed,  *)
(* and the one the Deployment's record holds.                               *)
ClaimCoversRemediation ==
  pc # "idle" =>
    /\ I!Active(incidents[Dep]) /\ incidents[Dep].inFlight
    /\ incidents[Dep].id = attemptOf[attempt]

(* The attempts of incident i. *)
AttemptsOf(i) == {n \in 1 .. Len(attemptOf) : attemptOf[n] = i}

EndsRecovered(n) ==
  /\ Len(trails[n]) > 1
  /\ trails[n][Len(trails[n])] = "LOGGED"
  /\ trails[n][Len(trails[n]) - 1] = "RECOVERED"

(* The record of an incident and the audit file agree: an incident ends     *)
(* recovered only when its last attempt logged so, and it was the last.     *)
RecoveredIsLogged ==
  \A i \in 1 .. Len(hist) :
    hist[i].outcome = "recovered" =>
      \E n \in AttemptsOf(i) : EndsRecovered(n) /\ \A m \in AttemptsOf(i) : m <= n

=============================================================================
