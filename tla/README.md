# A TLA+ verification of the self-healing controller

The controller watches Pods, and when one enters `CrashLoopBackOff` it opens an
incident for the owning Deployment, collects evidence, asks a classifier for an
action, and runs the action as an attempt: snapshot, act, verify, and restore
when verification fails. This directory holds a model of that logic, translated
from the Go source, the TLC runs that check it on small instances, and TLAPS
proofs of its central properties for every instance.

## The system

| component | state it keeps | operations | interacts with |
|---|---|---|---|
| incident manager (`internal/controller/incident.go`) | a map from Deployment to its incident record, under `PodReconciler.mu` | `beginAttempt`, `recordAttempt`, `endAttempt`, `incidentEvidence`, `freezeEvidence`, `closeIncidentIfTerminal` | called by Reconcile and by the goroutine of every remediation |
| Pod controller (`pod_controller.go`, `escalation.go`) | none of its own | `Reconcile`, one call per Pod event | reads the informer cache, calls the classifier, starts goroutines |
| evidence collector (`evidence.go`) | none between calls | `Collect`: two log requests, one Event list per object | reads logs and Events from the API server while both change |
| classification (`internal/classifier`) | none between calls | `ClassifyAndValidate`, `ValidateProposal`, the mock, the clients of two language models | a goroutine per call that races with a timeout; HTTP |
| remediation service (`internal/safety/service.go`, `state_machine.go`) | the lifecycle state of one attempt | `Remediate` | snapshot store, actions, verifier, audit |
| snapshot store (`snapshot.go`) | none; returns a snapshot | `Capture`, `Restore` | cached reads, updates with a resource version |
| actions (`internal/actions`) | none | `RestartPod`, `RolloutUndo` | Pods, Deployment, ReplicaSets |
| verifier and resolver (`verifier.go`, `pod_resolver.go`) | the locked Pod, its restart count, two deadlines | `CapturePreActionPodUIDs`, `Verify` | polls Pods, waits on a clock, ends with the context |
| audit writer (`audit.go`) | an append-only file | `Append` | called by Remediate and by the incident manager |

What is hard here, and what correctness means:

* *Concurrency.* The claim on an incident is taken by a reconcile and released
  minutes later by another goroutine, which finds the record by key again. The
  claim must be exclusive, must be released, and must still be the same
  incident. Several operations that belong together take the lock twice.
* *Stale reads.* Everything but Events and logs comes from an informer cache.
  The generation of a Deployment, the Pods, and what Restore compares with the
  snapshot may all be out of date.
* *Failure.* Any audit append, read or write of an attempt may fail, be lost, or
  be the last thing the process does. The audit trail must stay a path of the
  lifecycle, and must announce every write of the Deployment.
* *Time.* Budget, backoff, cooldown, readiness timeout, stability window and
  classification timeout.
* *An unreliable adviser.* A language model may answer anything, late or never;
  no answer may cause an action the evidence does not support.

`PROJECT.json` lists every component, every hazard at its line with the
properties that would catch it, and the source lines of every definition.

## Modules

**Incident** models `incident.go` and Reconcile. `incidents` is the map (the
record with id 0 is a missing key), `worker` the local state of each concurrent
Reconcile, `goroutines` the dispatched remediations, `generation` and `cached`
the Deployment's generation at the API server and in the cache, `audit` the
terminal lines. Each step between two acquisitions of the lock is an action:
`Observe` (detect, and read the generation or fail to), `BeginAttempt` with its
four outcomes, `EscalateBlind`, `ReuseEvidence`, `CollectEvidence`,
`FreezeEvidence`, `Escalate`, `Reject`, `Dispatch` (`recordAttempt` and `go`),
`CloseInReconcile`, and in the goroutine `MoveSpec`, `Finish`,
`CloseInGoroutine`. The environment edits Deployments, updates the cache, ticks,
and restarts the process, which loses the map. Timestamps are kept as ages,
because the code only ever compares `now.Sub(t)` with a threshold; ages saturate
at `AgeCap`, which the assumption `AgeCapAssumption` puts beyond every
threshold. `hist` is a history variable indexed by incident id; it records
what the properties speak of (actions dispatched, bundles classified on, how
the incident ended) and no action's guard reads it apart from the bound on
incidents, the fresh id and the number of the next bundle. What
`Service.Remediate` returns is chosen freely; `MovesBounded` of module
Remediation justifies that it moves the generation at most twice, and a second
time only after its ROLLING_BACK line.

**IncidentPromise** is the abstract specification of an incident, without map,
lock, generations and clock: a Deployment has one at a time, its actions follow
each other within the budget, it ends once (recovered by an action, exhausted
exactly when the budget is spent, escalated or rejected in between), and does
nothing after its end. `ImplementsPromise` instantiates it with the histories of
module Incident.

**Lifecycle** is the abstract specification of one attempt: the audit trail
grows along the transitions of `state_machine.go`, and a result is reported only
for a complete trail and is the one the trail ends in.

**Remediation** models `Remediate` with the snapshot store, both actions and the
audit writer. A Deployment is the sequence of its versions; a read returns any
version not older than the last one read (or the last, without `"lag"`), an
update carries the version it is based on and conflicts unless that is still the
last. Each call of Remediate is an action with its error return; the read and
the write of `RolloutUndo` and of `Restore` are separate. `Faults` selects what
may go wrong. Restarted attempts follow each other, as the claim guarantees.
`LifecycleHolds` instantiates Lifecycle with the lines of the current attempt.

**Verifier** models the capture of the Pod UIDs, the action, and both phases of
`Verify`. Pods are records that the environment creates, makes ready, restarts
and deletes at any moment, also under a name that has become free. One iteration
of a polling loop is one action; time passes while `Verify` waits, and a timer
may be `MaxLate` ticks late. `view` is what a lagging reader has seen.

**Evidence** models `Collect` request by request. `container` is the
crash-looping container as its kubelet sees it (waiting in its back-off, running
again, terminated), `recorded` the Events at the API server with their four
timestamps and the time their series was last observed, and both change between
the requests: `ReadPrevious`, `ReadCurrent`, `BeginEvents`, one `ListEvents` or
`ListFails` per name, `FinishEvents`. An Event that happens again is not recorded
a second time: the recorder of core/v1 moves `lastTimestamp` (`Repeat`), the one of
events.k8s.io `series.lastObservedTime` with `eventTime` fixed and `lastTimestamp`
zero (`RepeatSeries`). `eventTime` reads no series; `LastHappened`, which the
properties speak of, does. Of a log
its instance and its size are kept, and evidence is an interval of its bytes,
which is what the read ceiling of `Tail` and `truncateTail` act on (the marker of
18 bytes that `truncateTail` puts in front is left out). `Fresh`,
`Stale`, `eventTime` and `Newest` are the window, the de-duplication, the choice
of the timestamp and the sort with its cut.

**ModelClient** models what the two clients of language models do with an incident
and with a response: which inputs they refuse, and how status, body, content
blocks (Claude: the first text block that is not blank) or choices (Mistral: the
first) and their text become a proposal or an error.

**Classification** extends it with the classifier call, its goroutine, buffered
channel and context, the validator check by check, the fallback, the mock and the
gate of Reconcile. Logs and Events are the set of *indicators* in them; an
indicator stands for the phrases no check tells apart. `TrimSpace` acts through
the constant `Padded`. A server gives any member of `Responses`, breaks the
connection, or never answers; the request ends with its context. An outcome carries
the reason code of the refused proposal a fallback stands in for, as
`FallbackReasonCode` does.

**System** composes Incident and Remediation the way `cmd/main.go` and the go
statement of Reconcile do, for one Deployment and one worker. It has the variables
of both but for `generation` and `cached`, which are computed from the versions of
the Deployment (`GenerationAt`): the goroutine that Incident lets move the
generation and return anything takes the steps of Remediation here, and its result
is what Remediate returned. `ImplementsIncident` states that every behaviour of
the composition is one of module Incident, so what is checked and proved of
Incident for a free goroutine holds for the real one. A dead process takes both
components with it.

The `MC...` modules hold the instances and the statements quoted from documents
and comments. The theorems are in **IncidentProofs** (the claim),
**IncidentHistoryProofs** (the life of an incident, on top of it),
**RemediationProofs**, **VerifierProofs**, **EvidenceProofs**,
**ClassificationProofs** and **SystemProofs**; **Extrema** has the lemmas on finite sets of numbers that
the verifier's and the collector's orders need.
Operators named `...Mut...` are deliberately wrong variants of the operator after
them, the kind of slip the code could contain; replacing the operator by its
variant makes the property they are listed with fail.

## Runs

| run | checks | instance |
|---|---|---|
| `incident` | claim, budget, frozen evidence, audit lines, backoff, sticky exhaustion, refinement of IncidentPromise | one worker, as deployed; three attempts, two incidents, one restart |
| `incident_live` | claims are released, incidents end | two workers, two attempts, failing audit appends, fairness |
| `remediation` | refinement of Lifecycle, write-ahead, restore, bounded writes, the choice of the revision, no lost update, termination | every fault, two attempts, fairness |
| `verifier` | a recovered verdict is earned | the original and two other Pods of every kind |
| `verifier_live` | the same, and Verify returns in time | a lagging reader, failing reads, late timers, cancellation, fairness |
| `classification` | evidence, target, decidedness and what becomes of refused proposals, blind incidents, the mock against the guard; Reconcile is not held up, calls end | every shape of a response, proposals with one wrong field, up to three indicators, four providers, fairness |
| `evidence` | recent and newest Events, the log of the crash and its end | two objects, two Events repeated by both recorders, two container instances, five kinds of timestamps, failing requests |
| `system` | the claim covers the remediation, recovered is logged, refinement of Incident | two incidents, two attempts, edits, a lagging cache, one crash |

Four further runs are expected to fail, each on a statement quoted from the
repository that the code does not keep (`findings` in `PROJECT.json`):

* `failed_read`: a failed generation read drops the record it should leave alone.
* `own_update`: the controller's own update of the Deployment drops the record of
  the incident it ended. `rollout_undo` runs after the generation was stored, so
  the cooldown of a recovered incident is cut short with no staleness at all;
  through a stale cache an exhausted incident is forgotten in the same way.
* `unrestored`: Restore trusts a cached read and may report a rollback that did
  nothing. Other instances of `Faults` break the same sentence: with `"encode"`, a
  failed audit append after the action returns without a rollback.
* `log_tail`: the read ceiling keeps the beginning of the last hundred lines, so
  of lines longer than 16 KiB the end, with the cause of the crash, is lost.

More differences were met while modelling and have no run of their own. The first
two come with a configuration that shows the trace, for
`tlc -config <file> <module>`:

* A proposal the validator refuses does not make the incident `rejected`
  (`docs/measurement-definitions.md:31`: "The validator refused the proposed
  action … No action was taken."; `docs/final-week/diagrams.md:107` draws the same,
  and `README.md:29` of the repository says "Fail → escalate").
  `ClassifyAndValidate` puts the fallback in its place, so the incident escalates
  or, with transient evidence, restarts the Pod: `RefusedTakesNoAction`,
  `MCClassificationRefused.cfg` with `MCClassification`. `NeverRejected` states what
  the code does instead: `rejected` is unreachable, and a refused proposal ends in
  the action of the fallback.
* An Event of the events.k8s.io recorder is dropped while it is recent: that
  recorder repeats an Event by moving `series.lastObservedTime`, which `eventTime`
  (`evidence.go:209`) does not read, so the Event is as old as its first occurrence
  (`evidence.go:206-208`: "the newer events.k8s.io path populates EventTime and
  leaves LastTimestamp zero. Both kinds arrive here, so both have to be handled"):
  `BothRecordersHandled`, `MCEvidenceSeries.cfg` with `MCEvidence`.
  `RecentEventKept` says that nothing else is lost: an Event counts there without
  its series (`Unrepeated`). A rollout recorded by controllers that use core/v1 is
  not concerned.

* `endAttempt` and `closeIncidentIfTerminal` of the goroutine take the lock
  separately; when the last attempt rolled back, a reconcile in between exhausts
  the incident and writes its line, and the goroutine writes it again
  (`pod_controller.go:157`: "Logged exactly once").
* When the sync of the LOGGED line fails after a recovery, the line is in the file,
  Remediate returns an error, and the incident goes on and may end exhausted: its
  lines carry two verdicts (`docs/measurement-definitions.md:22`: "exactly one of
  these"). `RecoveredIsLogged` of module System holds in the direction it states.
* An incident can escalate after attempts that acted, so its terminal line carries
  an attempt number above 0 (`docs/measurement-definitions.md:33` describes an
  escalation with attempt 0).
* The classification fallback may be `restart_pod` (`pod_controller.go:223` speaks
  of escalation).
* A Pod created between the capture of the UIDs and the action (`service.go:100`)
  counts as new, although it is older than the action (`pod_resolver.go:67`).
* `RolloutUndo` may pick the live template as its own predecessor when the cached
  ReplicaSets are older than the cached Deployment, or when the Deployment
  controller has not numbered the live template yet; the update then undoes
  nothing. It still bumps the generation, because the copied template carries the
  ReplicaSet's `pod-template-hash` label (`actions.go:91`); the model leaves labels
  out and counts such an update as no change of the template. `UndoLeavesTemplate` says that these are the only cases.

### Bounds, and why they are enough

* `MaxIncidents` stops observation once that many incidents exist. Two incidents
  of a Deployment are what replacing a record needs; the first one is explored to
  its end. `MaxGeneration` 3 allows an edit, an undo and a restore to interleave;
  `MaxRestarts` 1 loses the map at every possible point.
* `BackoffBase` 1, `Cooldown` 3 and three attempts give backoffs of 1 and 2 ticks
  below the cooldown, as in the code (30s and 60s below 5min), and `AgeCap` 4
  lies beyond all of them.
* `incident_live` has two attempts, a generation that only failed reads make
  differ, backoff and cooldown of one tick and no restart, so that two workers,
  failing appends and fairness fit; what depends on time, edits and restarts is
  checked by `incident`.
* `MaxVersions` 5 bounds what others write to a Deployment; the attempt itself is
  never stopped by it. Two templates tell a restored Deployment from an undone
  one, two attempts let one snapshot what the other left behind.
* The verifier's window of two ticks is polled every tick in `verifier` and once
  in `verifier_live`, where the readiness timeout of one tick is shorter than the
  interval, so that the wait is cut to the deadline. One restart, two replacement
  Pods and three names produce the
  replacement under the same name and the tie in the resolver's order.
* Three indicators at a time are the most the mock and a check look at together
  (a deployment failure, a rollout, and one that is tried before). A model's
  answer is judged on single indicators and on pairs with a rollout, since the
  guard asks for no more and more evidence never turns its answer back. A field of
  a proposal is right, wrong, missing or padded, and one of them at a time differs
  from a proposal that could pass; a response has up to two blocks of every kind.
* `evidence`: two Events and a bundle of one reach the cut; a window of one tick
  and a clock of three let an Event become stale before and during the collection;
  log sizes 0, 3 and 5 against a bound of 1 and a ceiling of 4 are blank, cut by
  `truncateTail`, and cut by the ceiling. One name listed twice stands for an owner
  that shares the name of the Deployment. Logs and Events share no state, so their
  cases are explored separately, and together from one initial Pod.
* `system` has the faults `"crash"` and `"lag"`, which touch both components; the
  others stay inside one attempt and are explored by `remediation`. Two incidents
  and two attempts in all let one incident be retried or followed by another.

Symmetry is used for the replacement Pods in `verifier`, which has no temporal
property.

### Fairness

* Reconcile and the goroutine of a remediation keep running (weak fairness of
  their steps): the classification has a timeout, Verify two deadlines, and each
  is shown to return (`Answered`, `VerifyReturns`, `AttemptEnds`).
* A crashing Deployment is observed again and again (strong fairness of
  `Observe`): its container changes the Pod's status at every restart, at most
  five minutes apart, and the work queue serves its keys in order. The code
  itself requeues nothing, so this is an assumption on the kubelet;
  `docs/measurement-definitions.md` section 5 makes it too.
* Time passes, the deadline of a classifier call fires, and `net/http` gives up a
  request whose context is done. The server of a model is given no fairness: it
  may never answer.
* `Collect` is taken to return. Its requests carry the context of the reconcile,
  which has no timeout, so a log stream that stalls would hold the only worker;
  nothing in the code excludes it, and the fairness of Reconcile assumes it away.
* Edits, restarts and failures are never assumed to happen or to stop, but for
  their bounds.

## Proofs

Everything here is proved for every value of the constants that the named
assumptions allow; the bounds of the runs play no part. Each component has one
inductive invariant, proved with one step per action and under it one per
conjunct the action can disturb.

*The claim* (`IncidentProofs`). `ClaimExclusive` and `ClaimKeepsIncident` are
proved from `ConstantsAssumption`. Neither is inductive: that a second reconcile
cannot claim a record depends on the record in flight being active (a terminal
one would be replaced), which is the other property; and a fresh record must not
carry the id of one that is held. The inductive invariant is

    ClaimInv == TypeOK /\ IdsIssued /\ ClaimExclusive /\ ClaimKeepsIncident

where `IdsIssued` says that ids are indices of `hist` and lead back to the
record's Deployment. `TypeOK` is part of it because `CollectEvidence` reads the
history of the incident the worker holds, whose existence is a consequence of
the claim. The lemmas follow the code: what `beginAttempt` decides on and
writes (`ConsideredFacts`, `DecidedFacts`, `BeginFacts`), what `endAttempt`
writes (`ReleasedFacts`, `EndAttemptFacts`), and one step per action for each
conjunct (`TypeNext`, `IdsNext`, `KeepsNext`, `ExclusiveNext`).

*The life of an incident* (`IncidentHistoryProofs`). The properties of the runs
speak of histories, the code decides on records, so the invariant ties the two:

    LifeInv == ClaimInv /\ RecordInv /\ WorkerBudget /\ AuditTruthful

`RecordInv` says that a missing record carries no outcome (`MissingIsOpen`), that a
record agrees with its history in attempts, outcome and, between attempts, the
age of the last one (`AllLinked`), that an incident neither ended nor forgotten is
the one in the map (`RunningIsCurrent`), and that the histories keep the budget.
`WorkerBudget` is what makes the budget inductive: it is checked in
`beginAttempt`, spent two critical sections later in `recordAttempt`, and holds in
between because the claim keeps everybody else away. From `LifeInv` follow
`BudgetHolds` and `AuditTruthful`, and with `AgeCapAssumption` (no threshold lies
beyond the age at which the model's clocks saturate) `BackoffRespected`;
`ExhaustedSticky` needs the claim only.

* `EvidenceFrozen` is the safety of the two-step `freezeEvidence`: the bundle is
  collected outside the lock, so `EvidenceInv` also says what the record holds
  while a worker is between the two (`EvidenceNoted`, `WorkerBundle`).
* `PromiseIsKept` shows the refinement of IncidentPromise under the mapping
  `Lives` (dispatched actions, whether a goroutine is inside Remediate, outcome,
  lost). `BeginAttempt` is `Open`, `GiveUp` or a stutter, `Dispatch` is `Act`,
  `Finish` is `ActReturns`, the escalations and rejections are `GiveUp`, `Restart`
  is `Forget`, and every other step leaves every life alone. `RunningIsCurrent` is
  what makes `Open` legal, `WorkerBudget` what makes `Act` legal.
* `EndIsLogged` holds where `EndedIsLogged` does: with one worker (`OneWorker`) and
  `~AuditMayFail`, the two hypotheses of the theorem and the deployed
  configuration. Its invariant `CloseKeeps` says that the record a worker is about
  to log has not been replaced meanwhile.

*Remediation* (`RemediationProofs`). `IInv` ties the control state of Remediate to
the trail it has written and to the state machine (`OnTrail`, by the functions
`TrailAt` and `MachineAt`), says what an update may write (`Chosen`) and that it is
based on the last version read (`ReadIsLast`), how many versions an attempt has written at each point
(`MovesSoFar`), and how the Deployment controller numbers ReplicaSets (`Numbered`,
`NumbersGrow`: a revision never decreases, so reads that are apart can be
compared). From it follow `WriteAhead`, `MovesBounded`, `RolledBackIsRestored`,
`UndoLeavesTemplate`, the action property `NoLostUpdate`, and
`ImplementsLifecycle`: every step appends a line along a transition, reports the
result of a complete trail, starts or aborts an attempt, or changes nothing that
Lifecycle sees. The set of faults is arbitrary. `Base` is the part of the
invariant that does not mind other readers of the same cache; it is proved on its
own for the composition.

*Verifier* (`VerifierProofs`). For any Pods, names and timings,
`RecoveredWasStable` rests on `Locked` (every poll of the window saw the locked
Pod Ready with the restart count of the lock), `Covered` (the polls begin with the
window and follow each other within an interval and a late timer) and
`PodHistory` (kind and name of a Pod never change, restarts never decrease, and a
lagging view is one of its past states): without the last, an up-to-date poll
would say nothing of the restarts between polls. `VerifyBounded` rests on
`OnTime`, which bounds the clock phase by phase; lateness does not add up because
every timer is cut to its deadline. That the resolver finds a first candidate in
its order needs finitely many names, which `ConstantsAssumption` states.

*Evidence* (`EvidenceProofs`). `IInv == EventInv /\ LogInv`; the two halves share
only the control state. Events: recorders stamp in order (`Stamped`), a repeated
Event keeps its uid and does not grow older (`Tracked`), and each successful list has
added what was recent (`KeptSoFar`). A series leaves the time the collector takes
where it was, so the theorem on kept Events is about the Event without it
(`UnrepeatedFacts`). That the cut keeps the newest is proved from the
definition of `Newest` with the lemmas of `Extrema` (a nonempty finite set of
numbers has a least and a greatest element). Logs: the last terminated instance is
older than a running one (`Instances`), and the current log is read only after
the previous one was blank or failed (`ReadSoFar`).

*Classification* (`ClassificationProofs`). For any inputs, any set of responses and
any padding that leaves the package's own values and the incident's names alone
(`PaddedAssumption`, `InputsAssumption`), `ActionSupported`, `TargetIsIncident`
and `NeverRejected` follow from `DecisionInv`: a decided outcome carries a
proposal that passes every check against this incident. Its core is
`FallbackIsValid`: the fallback passes the validator for every incident, so the
path that nothing else guards is closed; with `RefusedIsReplaced` it also says how an
incident with a refused proposal ends. `TypeOK`, `MockAgreesWithGuard` and
`BlindEscalates` follow from

    CallInv == DecisionInv /\ TypeOK /\ CallOrder /\ NotAsked /\ MockAgreesWithGuard

where `CallOrder` says what the buffered channel may hold at each point of the race
between the call and its deadline, and `NotAsked` that no model is sent an
incident without evidence. `NoResultAssumption` says that an empty channel differs
from every result.

*System* (`SystemProofs`). The proof modules of both components are instantiated
with the mappings of System, so that their invariants and lemmas are cited rather
than proved again; `Same...` lemmas identify the two instances, and
`IncidentAssumption` and `RemediationAssumption` give the components' assumptions
their meaning here. The invariant

    SystemInv == P!LifeInv /\ S!Base /\ VersionsBounded /\ MovesCounted
                 /\ AttemptsOrdered /\ RunsInGoroutine
                 /\ ResultIsLogged /\ RecoveredIsLogged

adds what ties them: Remediate runs in a goroutine that holds the claim, and its
attempt is the last of `attemptOf` (`RunsInGoroutine`, `AttemptsOrdered`); what the
goroutine has counted and what the attempt may still write make at most two
(`MovesCounted`), and all writes together stay below the bound Incident has on
generations (`VersionsBounded`); a result was logged before it was returned
(`ResultIsLogged`). From it follow `ClaimCoversRemediation` and
`RecoveredIsLogged`. For `ImplementsIncident` a generation is one more than the
number of changes of the template (`Changes`), so a step of Remediate is
`MoveSpec` when it writes another template, `CacheSync` when its read shows a newer
generation, and a stutter otherwise; the Deployment controller's numbering is a
stutter, and `Finish` passes on a result `Incident!Finish` allows.
`SystemKeepsPromise` composes this refinement with that of IncidentPromise.

Only model-checked: liveness (`ClaimReleased`, `IncidentEnds`, `AttemptEnds`,
`VerifyReturns`, `Answered`), which is beyond the prover.

## Not modelled

Prompts, prices, token counts, the JSON schema and the configuration of the
language models (their server is arbitrary here); the text of Events and logs (a
bundle is a number in Incident, a choice of Events and bytes in Evidence, a set of
indicators in Classification; which phrases a text contains is not modelled); flags, metrics and probes of
`cmd/main.go`; leader election (one process at a time); Pods without an owning
Deployment and system namespaces, which never become incidents; wording and
layout of logs and audit lines; the offline scripts under `hack/`. Their reader
of the audit file, `hack/experiment/results.py`, looks for a state `CLOSED` which
the Go code does not write (it writes `LOGGED`); that is noted here and not
modelled. Of a Deployment spec only the pod template is
kept: `RolloutUndo` writes nothing else. `Restore` compares and writes the whole
spec (`snapshot.go:72-76`), so what the model shows of the template, an edit that
Restore has read and overwrites included, happens to the replica count and the
other fields in the same way.

## Plan

Done: Incident and its abstract specification, Lifecycle and Remediation, Verifier,
Evidence, ModelClient and Classification, the composition System, with their runs;
the proofs of every safety invariant, action property and refinement that a run
checks.

Next: the composition takes the evidence and the classification as chosen freely,
as Incident does; composing Classification's gate with Reconcile would carry
`ActionSupported` to the dispatched action. Incident and Remediation assume that
Verify and Collect return; the bounds proved of the verifier could be composed in
the same way.
