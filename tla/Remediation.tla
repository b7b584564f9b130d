----------------------------- MODULE Remediation -----------------------------
(***************************************************************************)
(* Service.Remediate (internal/safety/service.go) on one Deployment:       *)
(* snapshot, act, verify, and restore when verification fails, with an     *)
(* audit line per transition.  The claim of module Incident makes the      *)
(* attempts on a Deployment sequential; what runs beside an attempt is the *)
(* rest of the cluster: people editing the Deployment, the Deployment      *)
(* controller numbering its revisions, the informer cache lagging behind   *)
(* the API server, and the shutdown or the death of the process.           *)
(*                                                                         *)
(* The Deployment is the sequence of its versions at the API server; an    *)
(* index is a resourceVersion.  Reads come from the cache and return any   *)
(* version that is not older than the last one read, writes carry the      *)
(* version they were read from and conflict when it is no longer the last. *)
(***************************************************************************)
EXTENDS Naturals, Sequences

CONSTANTS
  Templates,    \* pod templates a Deployment may have
  NoTemplate,   \* the zero snapshot
  Faults,       \* the failures of this instance, a subset of AllFaults
  MaxAttempts,  \* bound: attempts made on the Deployment
  MaxVersions   \* bound: others write the Deployment up to this version

AllFaults ==
  {"encode",   \* the audit line is not written
   "sync",     \* the audit line is written, File.Sync fails
   "read",     \* a read of the API fails
   "write",    \* a write is not applied and returns an error
   "lost",     \* a write is applied, its answer is lost
   "cancel",   \* ManagerCtx is cancelled by SIGTERM
   "crash",    \* the process dies
   "lag"}      \* the informer cache is behind the API server

ASSUME ConstantsAssumption ==
  /\ NoTemplate \notin Templates
  /\ Faults \subseteq AllFaults
  /\ MaxAttempts \in Nat
  /\ MaxVersions \in Nat \ {0}

VARIABLES
  versions,    \* the Deployment's versions, the last one is live
  seen,        \* the last version of the Deployment read from the cache
  seenSets,    \* the same for the list of its ReplicaSets
  attempt,     \* number of the current attempt, 0 before the first
  pc,          \* where Remediate is
  machine,     \* StateMachine.current
  audit,       \* the states logged by each attempt
  snapshot,    \* the captured template
  read,        \* version held between a read and the update based on it
  target,      \* template RolloutUndo has chosen
  result,      \* Outcome.Result; "" while running and when it failed
  cancelled,   \* whether ManagerCtx is done
  restoredAt   \* history: the live version when Restore returned nil

vars == <<versions, seen, seenSets, attempt, pc, machine, audit, snapshot, read,
          target, result, cancelled, restoredAt>>

cluster == <<versions, seen, seenSets>>
locals == <<snapshot, read, target, restoredAt>>

L == INSTANCE Lifecycle WITH
       trail <- IF attempt = 0 THEN <<>> ELSE audit[attempt]

-----------------------------------------------------------------------------
(* The Deployment and its ReplicaSets. *)

(* One version: the template, the revision annotation, the revisions of the *)
(* ReplicaSets at that time (0: there is none), and the attempt that wrote  *)
(* it (0: somebody else).                                                   *)
live == versions[Len(versions)]

InitialVersion(t) ==
  [template |-> t, revision |-> 1,
   sets |-> [u \in Templates |-> IF u = t THEN 1 ELSE 0], by |-> 0]

(* What a read of the cache may return. *)
Reads(last) == IF "lag" \in Faults THEN last .. Len(versions) ELSE {Len(versions)}

(* The versions once the template is t: writing what is there already makes *)
(* no new one.                                                              *)
Updated(t) ==
  IF live.template = t THEN versions
  ELSE Append(versions, [live EXCEPT !.template = t, !.by = attempt])

(* A client.Update based on version v is applied; it is refused (a conflict, *)
(* a done context, a fault); or it is applied and the caller sees an error.  *)
UpdateSucceedsMutNoConflict(v) == ~cancelled

UpdateSucceeds(v) == v = Len(versions) /\ ~cancelled

UpdateFails(v) == v # Len(versions) \/ cancelled \/ "write" \in Faults

UpdateIsLost(v) == v = Len(versions) /\ (cancelled \/ "lost" \in Faults)

HumanEdit ==
  /\ Len(versions) < MaxVersions
  /\ \E t \in Templates \ {live.template} :
       versions' = Append(versions, [live EXCEPT !.template = t, !.by = 0])
  /\ UNCHANGED <<seen, seenSets, attempt, pc, machine, audit, result, cancelled>>
  /\ UNCHANGED locals

(* The Deployment controller makes the ReplicaSet of the live template the  *)
(* newest revision and copies its number to the Deployment's annotation.    *)
DeploymentController ==
  LET t == live.template
      newest == \A u \in Templates \ {t} : live.sets[u] < live.sets[t]
      next == CHOOSE n \in 1 .. Len(versions) + 1 :
                /\ \A u \in Templates : live.sets[u] < n
                /\ \E u \in Templates : live.sets[u] = n - 1
      number == IF newest THEN live.sets[t] ELSE next
  IN  /\ Len(versions) < MaxVersions
      /\ live.revision # number
      /\ versions' = Append(versions, [live EXCEPT !.revision = number,
                                                   !.sets[t] = number, !.by = 0])
      /\ UNCHANGED <<seen, seenSets, attempt, pc, machine, audit, result, cancelled>>
      /\ UNCHANGED locals

Init ==
  /\ \E t \in Templates : versions = <<InitialVersion(t)>>
  /\ seen = 1 /\ seenSets = 1
  /\ attempt = 0
  /\ pc = "idle"
  /\ machine = "DETECTED"
  /\ audit = [n \in 1 .. MaxAttempts |-> <<>>]
  /\ snapshot = NoTemplate
  /\ read = 0
  /\ target = NoTemplate
  /\ result = ""
  /\ cancelled = FALSE
  /\ restoredAt = 0

-----------------------------------------------------------------------------
(* The steps of Remediate. *)

(* Remediate is called with a valid event: a new machine, no result. *)
Start ==
  /\ pc = "idle"
  /\ attempt < MaxAttempts
  /\ attempt' = attempt + 1
  /\ pc' = "detect"
  /\ machine' = "DETECTED"
  /\ snapshot' = NoTemplate /\ read' = 0 /\ target' = NoTemplate
  /\ result' = "" /\ restoredAt' = 0
  /\ UNCHANGED <<audit, cancelled>>
  /\ UNCHANGED cluster

(* Remediate returns an empty Outcome and an error. *)
Fail == pc' = "idle" /\ UNCHANGED <<machine, audit, result>>

(* record: Append one line.  It is on disk when Encode succeeded, whether   *)
(* or not the Sync after it does; every error ends the attempt.             *)
recordMutKeepsGoing(state, then) ==
  \/ /\ audit' = [audit EXCEPT ![attempt] = Append(@, state)]
     /\ pc' = then
  \/ /\ "encode" \in Faults
     /\ pc' = then /\ UNCHANGED audit
  \/ /\ "sync" \in Faults
     /\ audit' = [audit EXCEPT ![attempt] = Append(@, state)]
     /\ pc' = "idle"

record(state, then) ==
  \/ /\ audit' = [audit EXCEPT ![attempt] = Append(@, state)]
     /\ pc' = then
  \/ /\ "encode" \in Faults
     /\ pc' = "idle" /\ UNCHANGED audit
  \/ /\ "sync" \in Faults
     /\ audit' = [audit EXCEPT ![attempt] = Append(@, state)]
     /\ pc' = "idle"

(* transition: the machine moves first, then the line is written. *)
transition(from, next, then) ==
  /\ pc = from
  /\ IF <<machine, next>> \in L!allowedTransitions
     THEN machine' = next /\ record(next, then) /\ UNCHANGED result
     ELSE Fail
  /\ UNCHANGED <<attempt, cancelled>>
  /\ UNCHANGED locals
  /\ UNCHANGED cluster

LogDetected ==
  /\ pc = "detect"
  /\ record("DETECTED", "capture")
  /\ UNCHANGED <<attempt, machine, result, cancelled>>
  /\ UNCHANGED locals
  /\ UNCHANGED cluster

(* Snapshots.Capture: one cached read. *)
CaptureMutIgnoresError ==
  /\ pc = "capture"
  /\ pc' = "snapshotted"
  /\ \/ \E v \in Reads(seen) : seen' = v /\ snapshot' = versions[v].template
     \/ "read" \in Faults /\ UNCHANGED <<seen, snapshot>>
  /\ UNCHANGED <<versions, seenSets, attempt, machine, audit, read, target, result,
                 cancelled, restoredAt>>

Capture ==
  /\ pc = "capture"
  /\ \/ \E v \in Reads(seen) : /\ seen' = v
                               /\ snapshot' = versions[v].template
                               /\ pc' = "snapshotted"
                               /\ UNCHANGED <<machine, audit, result>>
     \/ "read" \in Faults /\ Fail /\ UNCHANGED <<seen, snapshot>>
  /\ UNCHANGED <<versions, seenSets, attempt, read, target, cancelled, restoredAt>>

LogSnapshottedMutNotAnnounced == transition("snapshotted", "SNAPSHOTTED", "pods")

LogSnapshotted == transition("snapshotted", "SNAPSHOTTED", "remediating")

LogRemediating == transition("remediating", "REMEDIATING", "pods")

(* Verifier.CapturePreActionPodUIDs, modelled in module Verifier. *)
CapturePods ==
  /\ pc = "pods"
  /\ \/ pc' = "execute" /\ UNCHANGED <<machine, audit, result>>
     \/ "read" \in Faults /\ Fail
  /\ UNCHANGED <<attempt, cancelled>>
  /\ UNCHANGED locals
  /\ UNCHANGED cluster

(* RestartPod: the Deployment is not touched; a Pod that is gone is fine. *)
RestartPod ==
  /\ pc = "execute"
  /\ \/ pc' = "verifying" /\ UNCHANGED <<machine, audit, result>>
     \/ (cancelled \/ Faults \intersect {"read", "write", "lost"} # {}) /\ Fail
  /\ UNCHANGED <<attempt, cancelled>>
  /\ UNCHANGED locals
  /\ UNCHANGED cluster

(* RolloutUndo reads the Deployment and the ReplicaSets it controls, and    *)
(* picks the newest revision below the Deployment's own.                    *)
UndoReadMutOffByOne ==
  \E v \in Reads(seen), s \in Reads(seenSets) :
    LET sets == versions[s].sets
        prior == {t \in Templates : sets[t] > 0 /\ sets[t] <= versions[v].revision}
    IN  /\ pc = "execute"
        /\ \/ /\ prior # {}
              /\ target' = CHOOSE t \in prior : \A u \in prior : sets[u] <= sets[t]
              /\ read' = v
              /\ pc' = "undo"
              /\ UNCHANGED <<machine, audit, result>>
           \/ /\ prior = {} \/ "read" \in Faults
              /\ Fail /\ UNCHANGED <<target, read>>
        /\ seen' = v /\ seenSets' = s
        /\ UNCHANGED <<versions, attempt, snapshot, cancelled, restoredAt>>

UndoRead ==
  \E v \in Reads(seen), s \in Reads(seenSets) :
    LET sets == versions[s].sets
        prior == {t \in Templates : sets[t] > 0 /\ sets[t] < versions[v].revision}
    IN  /\ pc = "execute"
        /\ \/ /\ prior # {}
              /\ target' = CHOOSE t \in prior : \A u \in prior : sets[u] <= sets[t]
              /\ read' = v
              /\ pc' = "undo"
              /\ UNCHANGED <<machine, audit, result>>
           \/ /\ prior = {} \/ "read" \in Faults
              /\ Fail /\ UNCHANGED <<target, read>>
        /\ seen' = v /\ seenSets' = s
        /\ UNCHANGED <<versions, attempt, snapshot, cancelled, restoredAt>>

(* ... and updates the template.  It copies the ReplicaSet's one with the   *)
(* label pod-template-hash, which is left out here: an undo to the live     *)
(* template adds that label and nothing else.                               *)
UndoWriteMutRetries ==
  /\ pc = "undo"
  /\ \/ /\ UpdateSucceeds(read)
        /\ versions' = Updated(target)
        /\ pc' = "verifying"
     \/ UpdateFails(read) /\ pc' = "idle" /\ UNCHANGED versions
     \/ UpdateIsLost(read) /\ versions' = Updated(target) /\ pc' = "execute"
  /\ UNCHANGED <<seen, seenSets, attempt, machine, audit, result, cancelled>>
  /\ UNCHANGED locals

UndoWrite ==
  /\ pc = "undo"
  /\ \/ /\ UpdateSucceeds(read)
        /\ versions' = Updated(target)
        /\ pc' = "verifying" /\ UNCHANGED <<machine, audit, result>>
     \/ UpdateFails(read) /\ Fail /\ UNCHANGED versions
     \/ UpdateIsLost(read) /\ versions' = Updated(target) /\ Fail
  /\ UNCHANGED <<seen, seenSets, attempt, cancelled>>
  /\ UNCHANGED locals

LogVerifying == transition("verifying", "VERIFYING", "verify")

(* Verifier.Verify returns; a done context or a failed read is an error. *)
Verify ==
  /\ pc = "verify"
  /\ \/ pc' \in {"recovered", "rolling_back"} /\ UNCHANGED <<machine, audit, result>>
     \/ (cancelled \/ "read" \in Faults) /\ Fail
  /\ UNCHANGED <<attempt, cancelled>>
  /\ UNCHANGED locals
  /\ UNCHANGED cluster

LogRecovered == transition("recovered", "RECOVERED", "log_recovered")

LogRollingBack == transition("rolling_back", "ROLLING_BACK", "restore")

(* Snapshots.Restore: a cached read; nothing to do when it equals the       *)
(* snapshot ...                                                             *)
RestoreRead ==
  /\ pc = "restore"
  /\ \/ \E v \in Reads(seen) :
          /\ seen' = v
          /\ IF versions[v].template = snapshot
             THEN /\ pc' = "rolled_back" /\ restoredAt' = Len(versions)
                  /\ UNCHANGED read
             ELSE pc' = "restoring" /\ read' = v /\ UNCHANGED restoredAt
          /\ UNCHANGED <<machine, audit, result>>
     \/ "read" \in Faults /\ Fail /\ UNCHANGED <<seen, read, restoredAt>>
  /\ UNCHANGED <<versions, seenSets, attempt, snapshot, target, cancelled>>

(* ... else the captured spec is written back. *)
RestoreWriteMutWritesWhatItRead ==
  /\ pc = "restoring"
  /\ UpdateSucceeds(read)
  /\ versions' = Updated(versions[read].template)
  /\ restoredAt' = Len(versions')
  /\ pc' = "rolled_back"
  /\ UNCHANGED <<seen, seenSets, attempt, machine, audit, snapshot, read, target,
                 result, cancelled>>

RestoreWriteMutRetriesForever ==
  /\ pc = "restoring"
  /\ \/ /\ UpdateSucceeds(read)
        /\ versions' = Updated(snapshot)
        /\ restoredAt' = Len(versions')
        /\ pc' = "rolled_back"
     \/ UpdateFails(read) /\ pc' = "restore" /\ UNCHANGED <<versions, restoredAt>>
  /\ UNCHANGED <<seen, seenSets, attempt, machine, audit, snapshot, read, target,
                 result, cancelled>>

RestoreWrite ==
  /\ pc = "restoring"
  /\ \/ /\ UpdateSucceeds(read)
        /\ versions' = Updated(snapshot)
        /\ restoredAt' = Len(versions')
        /\ pc' = "rolled_back" /\ UNCHANGED <<machine, audit, result>>
     \/ UpdateFails(read) /\ Fail /\ UNCHANGED <<versions, restoredAt>>
     \/ UpdateIsLost(read) /\ versions' = Updated(snapshot) /\ Fail
        /\ UNCHANGED restoredAt
  /\ UNCHANGED <<seen, seenSets, attempt, snapshot, read, target, cancelled>>

LogRolledBack == transition("rolled_back", "ROLLED_BACK", "log_rolled_back")

LogLogged == \/ transition("log_recovered", "LOGGED", "return_recovered")
             \/ transition("log_rolled_back", "LOGGED", "return_rolled_back")

(* The Outcome of the branch taken. *)
ReturnOutcome ==
  /\ \/ pc = "return_recovered" /\ result' = "recovered"
     \/ pc = "return_rolled_back" /\ result' = "rolled_back"
  /\ pc' = "idle"
  /\ UNCHANGED <<attempt, machine, audit, cancelled>>
  /\ UNCHANGED locals
  /\ UNCHANGED cluster

(* SIGTERM: ManagerCtx is done, what is running notices when it waits or    *)
(* writes.                                                                  *)
Cancel ==
  /\ "cancel" \in Faults /\ ~cancelled
  /\ cancelled' = TRUE
  /\ UNCHANGED <<attempt, pc, machine, audit, result>>
  /\ UNCHANGED locals
  /\ UNCHANGED cluster

(* The process dies and another one starts with a fresh cache; the audit    *)
(* file and the cluster stay as they are.                                   *)
Crash ==
  /\ cancelled \/ "crash" \in Faults
  /\ pc' = "idle" /\ cancelled' = FALSE
  /\ seen' = Len(versions) /\ seenSets' = Len(versions)
  /\ UNCHANGED <<versions, attempt, machine, audit, result>>
  /\ UNCHANGED locals

Step ==
  \/ LogDetected \/ Capture \/ LogSnapshotted \/ LogRemediating \/ CapturePods
  \/ RestartPod \/ UndoRead \/ UndoWrite \/ LogVerifying \/ Verify
  \/ LogRecovered \/ LogRollingBack \/ RestoreRead \/ RestoreWrite
  \/ LogRolledBack \/ LogLogged \/ ReturnOutcome

(* When every attempt has been made and nobody else acts, nothing happens.  *)
Done == pc = "idle" /\ attempt = MaxAttempts /\ UNCHANGED vars

Next == Start \/ Step \/ Cancel \/ Crash \/ HumanEdit \/ DeploymentController \/ Done

Spec == Init /\ [][Next]_vars

(* Every call Remediate makes returns: cached reads and appends at once,    *)
(* writes at the client's timeout, Verify within its two deadlines.         *)
FairSpec == Spec /\ WF_vars(Step)

-----------------------------------------------------------------------------
(* Properties. *)

PCs == {"idle", "detect", "capture", "snapshotted", "remediating", "pods", "execute",
        "undo", "verifying", "verify", "recovered", "rolling_back", "restore",
        "restoring", "rolled_back", "log_recovered", "log_rolled_back",
        "return_recovered", "return_rolled_back"}

Version ==
  [template : Templates, revision : Nat, sets : [Templates -> Nat], by : 0 .. MaxAttempts]

(* Every variable holds a value of its type; reads are of existing versions. *)
TypeOK ==
  /\ versions \in Seq(Version) /\ versions # <<>>
  /\ seen \in 1 .. Len(versions) /\ seenSets \in 1 .. Len(versions)
  /\ attempt \in 0 .. MaxAttempts
  /\ pc \in PCs /\ (pc # "idle" => attempt > 0)
  /\ machine \in L!States
  /\ audit \in [1 .. MaxAttempts -> Seq(L!States)]
  /\ snapshot \in Templates \union {NoTemplate}
  /\ read \in 0 .. Len(versions)
  /\ target \in Templates \union {NoTemplate}
  /\ result \in {"", "recovered", "rolled_back"}
  /\ cancelled \in BOOLEAN
  /\ restoredAt \in 0 .. Len(versions)

Logged(n, state) == \E i \in 1 .. Len(audit[n]) : audit[n][i] = state

(* Whatever audit appends fail or processes die, the lines of an attempt    *)
(* are a path of the frozen lifecycle and its result is the one they end in. *)
LifecycleHolds == L!Spec

(* The audit log is ahead of the cluster: every version of the Deployment   *)
(* an attempt has written, also one whose answer was lost or that the       *)
(* process did not survive, is announced by its REMEDIATING line.           *)
WriteAhead ==
  \A i \in 1 .. Len(versions) :
    versions[i].by # 0 => Logged(versions[i].by, "REMEDIATING")

(* Module Incident lets an attempt move the Deployment's generation at most *)
(* twice, and only once when it recovers: a second version of an attempt    *)
(* comes after its ROLLING_BACK line, and there is no third.                *)
MovesBounded ==
  \A n \in 1 .. attempt :
    LET moves == {i \in 1 .. Len(versions) : versions[i].by = n}
    IN  /\ \A i, j, k \in moves : i = j \/ j = k \/ i = k
        /\ \A i, j \in moves : i # j => Logged(n, "ROLLING_BACK")

(* "Restore is the sole rollback mechanism. It reapplies the exact captured *)
(* spec", and sends no update "when the live spec already matches": when    *)
(* Restore returned nil the live template was the snapshot, or the older    *)
(* version the cache showed it had that template.                           *)
RolledBackIsRestored ==
  restoredAt # 0 /\ pc # "idle" =>
    \/ versions[restoredAt].template = snapshot
    \/ seen < restoredAt /\ versions[seen].template = snapshot

(* rollout_undo does not "undo" to the template that is failing: it picks   *)
(* another one, unless the ReplicaSets it read are older than the           *)
(* Deployment it read, or the Deployment controller had not numbered that   *)
(* template yet.                                                            *)
UndoLeavesTemplate ==
  pc = "undo" =>
    LET deployment == versions[read]
    IN  \/ target # deployment.template
        \/ seenSets < read
        \/ deployment.revision # deployment.sets[deployment.template]

(* No attempt overwrites a change it has not read: between the version an   *)
(* update was based on and the one it made, nobody else changed the         *)
(* Deployment.                                                              *)
NoLostUpdate ==
  [][\A i \in 1 .. Len(versions') :
       i > Len(versions) /\ versions'[i].by # 0 => seen = i - 1]_vars

(* Remediate always returns, and so the claim of its incident is released.  *)
AttemptEnds == pc # "idle" ~> pc = "idle"

=============================================================================
