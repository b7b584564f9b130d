-------------------------- MODULE RemediationProofs --------------------------
(***************************************************************************)
(* Proofs about Remediation, for any set of templates, any set of faults   *)
(* and any number of attempts and versions: its safety properties, and     *)
(* that it implements Lifecycle.                                           *)
(***************************************************************************)
EXTENDS Remediation, Extrema, TLAPS

-----------------------------------------------------------------------------
(* The inductive invariant. *)

(* The audit lines of the current attempt and the state of its machine are  *)
(* a function of where Remediate is.                                        *)
TrailAt(p) ==
  CASE p = "detect" -> <<>>
    [] p \in {"capture", "snapshotted"} -> <<"DETECTED">>
    [] p = "remediating" -> <<"DETECTED", "SNAPSHOTTED">>
    [] p \in {"pods", "execute", "undo", "verifying"} ->
         <<"DETECTED", "SNAPSHOTTED", "REMEDIATING">>
    [] p \in {"verify", "recovered", "rolling_back"} ->
         <<"DETECTED", "SNAPSHOTTED", "REMEDIATING", "VERIFYING">>
    [] p = "log_recovered" ->
         <<"DETECTED", "SNAPSHOTTED", "REMEDIATING", "VERIFYING", "RECOVERED">>
    [] p = "return_recovered" ->
         <<"DETECTED", "SNAPSHOTTED", "REMEDIATING", "VERIFYING", "RECOVERED",
           "LOGGED">>
    [] p \in {"restore", "restoring", "rolled_back"} ->
         <<"DETECTED", "SNAPSHOTTED", "REMEDIATING", "VERIFYING", "ROLLING_BACK">>
    [] p = "log_rolled_back" ->
         <<"DETECTED", "SNAPSHOTTED", "REMEDIATING", "VERIFYING", "ROLLING_BACK",
           "ROLLED_BACK">>
    [] OTHER ->
         <<"DETECTED", "SNAPSHOTTED", "REMEDIATING", "VERIFYING", "ROLLING_BACK",
           "ROLLED_BACK", "LOGGED">>

MachineAt(p) ==
  CASE p \in {"detect", "capture", "snapshotted"} -> "DETECTED"
    [] p = "remediating" -> "SNAPSHOTTED"
    [] p \in {"pods", "execute", "undo", "verifying"} -> "REMEDIATING"
    [] p \in {"verify", "recovered", "rolling_back"} -> "VERIFYING"
    [] p = "log_recovered" -> "RECOVERED"
    [] p \in {"restore", "restoring", "rolled_back"} -> "ROLLING_BACK"
    [] p = "log_rolled_back" -> "ROLLED_BACK"
    [] OTHER -> "LOGGED"

OnTrail == pc # "idle" => /\ audit[attempt] = TrailAt(pc)
                          /\ machine = MachineAt(pc)
                          /\ result = ""

FutureIsBlank == \A n \in 1 .. MaxAttempts : n > attempt => audit[n] = <<>>

(* Some ReplicaSet has the greatest revision, which is at most the number   *)
(* of versions: the Deployment controller finds its next one.               *)
Numbered ==
  \A i \in 1 .. Len(versions) :
    \E u \in Templates :
      /\ versions[i].sets[u] <= i
      /\ \A w \in Templates : versions[i].sets[w] <= versions[i].sets[u]

(* The revision of a ReplicaSet never decreases. *)
NumbersGrow ==
  \A i, j \in 1 .. Len(versions) :
    i <= j => \A u \in Templates : versions[i].sets[u] <= versions[j].sets[u]

(* What an update writes is a template.                                     *)
Chosen ==
  /\ pc = "undo" => target \in Templates
  /\ pc \notin {"idle", "detect", "capture"} => snapshot \in Templates

(* An update is based on the last version that was read.                    *)
ReadIsLast == pc \in {"undo", "restoring"} => read = seen

(* Before its first update an attempt has written nothing, before its       *)
(* second one at most one version.                                          *)
BeforeUndo == {"detect", "capture", "snapshotted", "remediating", "pods", "execute", "undo"}

BeforeRestore == {"verifying", "verify", "recovered", "rolling_back", "log_recovered",
                  "return_recovered", "restore", "restoring"}

MovesSoFar ==
  /\ \A i \in 1 .. Len(versions) : versions[i].by <= attempt
  /\ pc \in BeforeUndo => \A i \in 1 .. Len(versions) : versions[i].by # attempt
  /\ pc \in BeforeRestore =>
       \A i, j \in 1 .. Len(versions) :
         versions[i].by = attempt /\ versions[j].by = attempt => i = j

RestoredPCs == {"idle", "rolled_back", "log_rolled_back", "return_rolled_back"}

RestoredLate == restoredAt # 0 => pc \in RestoredPCs

(* What holds even when somebody else reads from the cache in between, as   *)
(* Reconcile does: nothing here depends on which version was read last.     *)
Base ==
  /\ TypeOK
  /\ OnTrail /\ FutureIsBlank
  /\ Numbered /\ NumbersGrow
  /\ Chosen /\ RestoredLate

IInv ==
  /\ TypeOK
  /\ OnTrail /\ FutureIsBlank
  /\ Numbered /\ NumbersGrow
  /\ Chosen /\ ReadIsLast
  /\ MovesSoFar /\ RestoredLate
  /\ WriteAhead /\ MovesBounded
  /\ RolledBackIsRestored /\ UndoLeavesTemplate

-----------------------------------------------------------------------------
(* Lemmas about the operators. *)

(* Appending to a sequence of S. *)
LEMMA AppendInSeq ==
  ASSUME NEW S, NEW s \in Seq(S), NEW e \in S
  PROVE  /\ Append(s, e) \in Seq(S)
         /\ Len(Append(s, e)) = Len(s) + 1
         /\ \A i \in 1 .. Len(s) : Append(s, e)[i] = s[i]
         /\ Append(s, e)[Len(s) + 1] = e
  OBVIOUS

(* What it takes to be the result of Append. *)
LEMMA AppendIs ==
  ASSUME NEW S, NEW s \in Seq(S), NEW e \in S, NEW t \in Seq(S),
         Len(t) = Len(s) + 1, t[Len(t)] = e, \A i \in 1 .. Len(s) : t[i] = s[i]
  PROVE  Append(s, e) = t
  OBVIOUS

(* A trail is a sequence of states. *)
LEMMA TrailType ==
  ASSUME NEW p \in PCs
  PROVE  TrailAt(p) \in Seq(L!States) /\ MachineAt(p) \in L!States
<1>1. MachineAt(p) \in L!States
  BY DEF MachineAt, PCs, L!States
<1>2. TrailAt(p) \in Seq(L!States)
  <2>1. CASE p = "detect"
    BY <2>1 DEF TrailAt, L!States
  <2>2. CASE p \in {"capture", "snapshotted"}
    <3>1. TrailAt(p) = <<"DETECTED">>
      BY <2>2 DEF TrailAt
    <3>2. QED
      BY <3>1 DEF L!States
  <2>3. CASE p = "remediating"
    BY <2>3 DEF TrailAt, L!States
  <2>4. CASE p \in {"pods", "execute", "undo", "verifying"}
    <3>1. TrailAt(p) = <<"DETECTED", "SNAPSHOTTED", "REMEDIATING">>
      BY <2>4 DEF TrailAt
    <3>2. QED
      BY <3>1 DEF L!States
  <2>5. CASE p \in {"verify", "recovered", "rolling_back"}
    <3>1. TrailAt(p) = <<"DETECTED", "SNAPSHOTTED", "REMEDIATING", "VERIFYING">>
      BY <2>5 DEF TrailAt
    <3>2. QED
      BY <3>1 DEF L!States
  <2>6. CASE p = "log_recovered"
    BY <2>6 DEF TrailAt, L!States
  <2>7. CASE p = "return_recovered"
    BY <2>7 DEF TrailAt, L!States
  <2>8. CASE p \in {"restore", "restoring", "rolled_back"}
    <3>1. TrailAt(p) = <<"DETECTED", "SNAPSHOTTED", "REMEDIATING", "VERIFYING", "ROLLING_BACK">>
      BY <2>8 DEF TrailAt
    <3>2. QED
      BY <3>1 DEF L!States
  <2>9. CASE p = "log_rolled_back"
    BY <2>9 DEF TrailAt, L!States
  <2>10. CASE p \in {"idle", "return_rolled_back"}
    <3>1. TrailAt(p) = <<"DETECTED", "SNAPSHOTTED", "REMEDIATING", "VERIFYING", "ROLLING_BACK",
                        "ROLLED_BACK", "LOGGED">>
      BY <2>10 DEF TrailAt
    <3>2. QED
      BY <3>1 DEF L!States
  <2>11. QED
    BY <2>1, <2>2, <2>3, <2>4, <2>5, <2>6, <2>7, <2>8, <2>9, <2>10 DEF PCs
<1>3. QED
  BY <1>1, <1>2

(* A line takes Remediate from p to q. *)
Lines ==
  {<<"detect", "DETECTED", "capture">>,
   <<"snapshotted", "SNAPSHOTTED", "remediating">>,
   <<"remediating", "REMEDIATING", "pods">>,
   <<"verifying", "VERIFYING", "verify">>,
   <<"recovered", "RECOVERED", "log_recovered">>,
   <<"rolling_back", "ROLLING_BACK", "restore">>,
   <<"rolled_back", "ROLLED_BACK", "log_rolled_back">>,
   <<"log_recovered", "LOGGED", "return_recovered">>,
   <<"log_rolled_back", "LOGGED", "return_rolled_back">>}

(* Where each audit line takes the trail and the machine. *)
LEMMA TrailSteps ==
  ASSUME NEW p, NEW e, NEW q, <<p, e, q>> \in Lines
  PROVE  /\ p \in PCs \ {"idle"} /\ e \in L!States /\ q \in PCs \ {"idle"}
         /\ Append(TrailAt(p), e) = TrailAt(q)
         /\ MachineAt(q) = e
<1>1. /\ p \in PCs \ {"idle"} /\ e \in L!States /\ q \in PCs \ {"idle"}
      /\ MachineAt(q) = e
  BY DEF Lines, PCs, L!States, MachineAt
<1>2. TrailAt(p) \in Seq(L!States) /\ TrailAt(q) \in Seq(L!States)
  BY <1>1, TrailType
<1>3. /\ Len(TrailAt(q)) = Len(TrailAt(p)) + 1
      /\ TrailAt(q)[Len(TrailAt(q))] = e
  BY DEF Lines, TrailAt
<1>4. \A i \in 1 .. Len(TrailAt(p)) : TrailAt(q)[i] = TrailAt(p)[i]
  BY DEF Lines, TrailAt
<1>5. QED
  BY <1>1, <1>2, <1>3, <1>4, AppendIs

(* The machine is in the state that was logged last. *)
LEMMA TrailEnds ==
  ASSUME NEW p \in PCs \ {"idle", "detect"}
  PROVE  /\ TrailAt(p) # <<>>
         /\ TrailAt(p)[Len(TrailAt(p))] = MachineAt(p)
  BY DEF TrailAt, MachineAt, PCs

(* From REMEDIATING on that line is in the trail, and so is ROLLING_BACK in *)
(* the branch that restores.                                                *)
LEMMA TrailHas ==
  ASSUME NEW p \in PCs
  PROVE  /\ p \in {"undo", "verifying", "restoring"} =>
              3 \in 1 .. Len(TrailAt(p)) /\ TrailAt(p)[3] = "REMEDIATING"
         /\ p \in {"restoring"} =>
              5 \in 1 .. Len(TrailAt(p)) /\ TrailAt(p)[5] = "ROLLING_BACK"
  BY DEF TrailAt, PCs

-----------------------------------------------------------------------------
(* What a step does to the Deployment and to the audit log. *)

(* v is a legal next version: no ReplicaSet loses its number, one of them   *)
(* has the greatest, and it is written by others or by an attempt that has  *)
(* read the last version.                                                   *)
Successor(v) ==
  /\ v \in Version
  /\ \A u \in Templates : live.sets[u] <= v.sets[u]
  /\ \E u \in Templates : /\ v.sets[u] <= Len(versions) + 1
                          /\ \A w \in Templates : v.sets[w] <= v.sets[u]
  /\ \/ v.by = 0
     \/ v.by = attempt /\ pc \in {"undo", "restoring"} /\ read = Len(versions)

LEMMA AttemptFacts ==
  ASSUME TypeOK, pc # "idle"
  PROVE  attempt \in 1 .. MaxAttempts /\ attempt # 0
<1>1. attempt \in 0 .. MaxAttempts /\ attempt > 0
  BY DEF TypeOK
<1>2. QED
  BY <1>1, ConstantsAssumption

LEMMA LiveFacts ==
  ASSUME TypeOK
  PROVE  /\ Len(versions) \in Nat \ {0}
         /\ live \in Version
<1>1. versions \in Seq(Version) /\ versions # <<>>
  BY DEF TypeOK
<1>2. Len(versions) \in Nat \ {0}
  BY <1>1
<1>3. QED
  BY <1>1, <1>2 DEF live

(* What an update makes of the versions. *)
LEMMA UpdatedFacts ==
  ASSUME TypeOK, Numbered, NEW t \in Templates,
         pc \in {"undo", "restoring"}, read = Len(versions)
  PROVE  \/ Updated(t) = versions /\ live.template = t
         \/ \E v : /\ Updated(t) = Append(versions, v)
                   /\ Successor(v) /\ v.template = t /\ v.by = attempt
<1>1. Len(versions) \in Nat \ {0} /\ live \in Version
  BY LiveFacts
<1>2. CASE live.template = t
  BY <1>2 DEF Updated
<1>3. CASE live.template # t
  <2> DEFINE v == [live EXCEPT !.template = t, !.by = attempt]
  <2>1. Updated(t) = Append(versions, v)
    BY <1>3 DEF Updated
  <2>2. attempt \in 0 .. MaxAttempts
    BY DEF TypeOK
  <2>3. v \in Version /\ v.sets = live.sets /\ v.by = attempt /\ v.template = t
    BY <1>1, <2>2 DEF Version
  <2>4. \E u \in Templates : /\ live.sets[u] <= Len(versions)
                            /\ \A w \in Templates : live.sets[w] <= live.sets[u]
    BY <1>1 DEF Numbered, live
  <2>5. \A u \in Templates : live.sets[u] \in Nat
    BY <1>1 DEF Version
  <2> HIDE DEF v
  <2>6. Successor(v)
    BY <1>1, <2>3, <2>4, <2>5 DEF Successor
  <2>7. QED
    BY <2>1, <2>3, <2>6
<1>4. QED
  BY <1>2, <1>3

(* The Deployment controller always finds a number. *)
LEMMA ControllerFacts ==
  ASSUME TypeOK, Numbered, DeploymentController
  PROVE  \E v : versions' = Append(versions, v) /\ Successor(v) /\ v.by = 0
<1> DEFINE t == live.template
<1> DEFINE next == CHOOSE n \in 1 .. Len(versions) + 1 :
                /\ \A u \in Templates : live.sets[u] < n
                /\ \E u \in Templates : live.sets[u] = n - 1
<1> DEFINE newest == \A u \in Templates \ {t} : live.sets[u] < live.sets[t]
<1> DEFINE number == IF newest THEN live.sets[t] ELSE next
<1> DEFINE v == [live EXCEPT !.revision = number, !.sets[t] = number, !.by = 0]
<1>1. Len(versions) \in Nat \ {0} /\ live \in Version
  BY LiveFacts
<1>2. t \in Templates /\ \A u \in Templates : live.sets[u] \in Nat
  BY <1>1 DEF Version
<1>3. PICK m \in Templates : /\ live.sets[m] <= Len(versions)
                             /\ \A w \in Templates : live.sets[w] <= live.sets[m]
  BY <1>1 DEF Numbered, live
<1>4. /\ next \in 1 .. Len(versions) + 1
      /\ \A u \in Templates : live.sets[u] < next
  <2>1. /\ live.sets[m] + 1 \in 1 .. Len(versions) + 1
        /\ \A u \in Templates : live.sets[u] < live.sets[m] + 1
        /\ \E u \in Templates : live.sets[u] = (live.sets[m] + 1) - 1
    BY <1>1, <1>2, <1>3
  <2>2. QED
    BY <2>1
<1> HIDE DEF next
<1>5. number \in Nat /\ live.sets[t] <= number /\ number <= Len(versions) + 1
  BY <1>1, <1>2, <1>3, <1>4
<1>6. \A w \in Templates \ {t} : live.sets[w] <= number
  BY <1>2, <1>4
<1> HIDE DEF number
<1>7. v = [live EXCEPT !.revision = number, !.sets[t] = number, !.by = 0]
  OBVIOUS
<1>8. versions' = Append(versions, v)
  BY DEF DeploymentController, next, number
<1> HIDE DEF v
<1>9. v \in Version /\ v.by = 0 /\ v.sets = [live.sets EXCEPT ![t] = number]
  <2>1. /\ [live.sets EXCEPT ![t] = number] \in [Templates -> Nat]
        /\ 0 \in 0 .. MaxAttempts
    BY <1>1, <1>5, ConstantsAssumption DEF Version
  <2>2. v = [template |-> t, revision |-> number,
             sets |-> [live.sets EXCEPT ![t] = number], by |-> 0]
    BY <1>1, <1>7 DEF Version
  <2>3. QED
    BY <1>2, <1>5, <2>1, <2>2 DEF Version
<1>10. \A u \in Templates : v.sets[u] = IF u = t THEN number ELSE live.sets[u]
  BY <1>1, <1>9 DEF Version
<1>11. Successor(v)
  BY <1>1, <1>2, <1>5, <1>6, <1>9, <1>10 DEF Successor
<1>12. QED
  BY <1>8, <1>9, <1>11

LEMMA EditFacts ==
  ASSUME TypeOK, Numbered, HumanEdit
  PROVE  \E v : versions' = Append(versions, v) /\ Successor(v) /\ v.by = 0
<1>1. Len(versions) \in Nat \ {0} /\ live \in Version
  BY LiveFacts
<1>2. PICK t \in Templates \ {live.template} :
        versions' = Append(versions, [live EXCEPT !.template = t, !.by = 0])
  BY DEF HumanEdit
<1> DEFINE v == [live EXCEPT !.template = t, !.by = 0]
<1>3. v \in Version /\ v.sets = live.sets /\ v.by = 0
  <2>1. 0 \in 0 .. MaxAttempts
    BY ConstantsAssumption
  <2>2. QED
    BY <1>1, <2>1 DEF Version
<1>4. \E u \in Templates : /\ live.sets[u] <= Len(versions)
                          /\ \A w \in Templates : live.sets[w] <= live.sets[u]
  BY <1>1 DEF Numbered, live
<1>5. \A u \in Templates : live.sets[u] \in Nat
  BY <1>1 DEF Version
<1>6. versions' = Append(versions, v)
  BY <1>2
<1> HIDE DEF v
<1>7. Successor(v)
  BY <1>1, <1>3, <1>4, <1>5 DEF Successor
<1>8. QED
  BY <1>3, <1>6, <1>7

(* Every step leaves the versions alone or adds a legal one. *)
LEMMA VersionsStep ==
  ASSUME TypeOK, Numbered, Chosen, [Next]_vars
  PROVE  versions' = versions \/ \E v : versions' = Append(versions, v) /\ Successor(v)
<1>1. CASE HumanEdit
  BY <1>1, EditFacts
<1>2. CASE DeploymentController
  BY <1>2, ControllerFacts
<1>3. CASE UndoWrite
  <2>1. pc = "undo" /\ target \in Templates
    BY <1>3 DEF UndoWrite, Chosen
  <2>2. \/ versions' = versions
        \/ read = Len(versions) /\ versions' = Updated(target)
    BY <1>3 DEF UndoWrite, UpdateSucceeds, UpdateIsLost
  <2>3. QED
    BY <2>1, <2>2, UpdatedFacts
<1>4. CASE RestoreWrite
  <2>1. pc = "restoring" /\ snapshot \in Templates
    BY <1>4 DEF RestoreWrite, Chosen
  <2>2. \/ versions' = versions
        \/ read = Len(versions) /\ versions' = Updated(snapshot)
    BY <1>4 DEF RestoreWrite, UpdateSucceeds, UpdateIsLost
  <2>3. QED
    BY <2>1, <2>2, UpdatedFacts
<1>5. CASE Start \/ Cancel \/ Crash \/ Done \/ UNCHANGED vars
  BY <1>5 DEF Start, Cancel, Crash, Done, vars, cluster
<1>6. CASE LogDetected \/ LogSnapshotted \/ LogRemediating \/ LogVerifying
           \/ LogRecovered \/ LogRollingBack \/ LogRolledBack \/ LogLogged
  BY <1>6 DEF LogDetected, LogSnapshotted, LogRemediating, LogVerifying, LogRecovered,
       LogRollingBack, LogRolledBack, LogLogged, transition, cluster
<1>7. CASE Capture \/ CapturePods \/ RestartPod \/ UndoRead \/ Verify \/ RestoreRead
           \/ ReturnOutcome
  BY <1>7 DEF Capture, CapturePods, RestartPod, UndoRead, Verify, RestoreRead,
       ReturnOutcome, cluster
<1>8. QED
  BY <1>1, <1>2, <1>3, <1>4, <1>5, <1>6, <1>7 DEF Next, Step

LEMMA TransitionAudit ==
  ASSUME NEW from, NEW next \in L!States, NEW then, transition(from, next, then)
  PROVE  \/ audit' = audit
         \/ \E s \in L!States : audit' = [audit EXCEPT ![attempt] = Append(@, s)]
  BY DEF transition, record, Fail

(* Every step leaves the audit log alone or adds a line to the trail of the *)
(* attempt that is running.                                                 *)
LEMMA AuditStep ==
  ASSUME TypeOK, [Next]_vars
  PROVE  \/ audit' = audit
         \/ /\ attempt \in 1 .. MaxAttempts
            /\ attempt' = attempt
            /\ \E s \in L!States : audit' = [audit EXCEPT ![attempt] = Append(@, s)]
<1>1. CASE HumanEdit \/ DeploymentController \/ UndoWrite \/ RestoreWrite
  BY <1>1 DEF HumanEdit, DeploymentController, UndoWrite, RestoreWrite, Fail
<1>2. CASE Start \/ Cancel \/ Crash \/ Done \/ UNCHANGED vars
  BY <1>2 DEF Start, Cancel, Crash, Done, vars
<1>3. CASE LogDetected \/ LogSnapshotted \/ LogRemediating \/ LogVerifying
           \/ LogRecovered \/ LogRollingBack \/ LogRolledBack \/ LogLogged
  <2>1. attempt \in 1 .. MaxAttempts
    <3>1. pc # "idle"
      BY <1>3 DEF LogDetected, LogSnapshotted, LogRemediating, LogVerifying, LogRecovered,
           LogRollingBack, LogRolledBack, LogLogged, transition
    <3>2. QED
      BY <3>1, AttemptFacts
  <2>2. attempt' = attempt
    BY <1>3 DEF LogDetected, LogSnapshotted, LogRemediating, LogVerifying,
         LogRecovered, LogRollingBack, LogRolledBack, LogLogged, transition
  <2>3. \/ audit' = audit
        \/ \E s \in L!States : audit' = [audit EXCEPT ![attempt] = Append(@, s)]
    <3>1. CASE LogDetected
      BY <3>1 DEF LogDetected, record, L!States
    <3>2. CASE LogSnapshotted
      BY <3>2, TransitionAudit DEF LogSnapshotted, L!States
    <3>3. CASE LogRemediating
      BY <3>3, TransitionAudit DEF LogRemediating, L!States
    <3>4. CASE LogVerifying
      BY <3>4, TransitionAudit DEF LogVerifying, L!States
    <3>5. CASE LogRecovered
      BY <3>5, TransitionAudit DEF LogRecovered, L!States
    <3>6. CASE LogRollingBack
      BY <3>6, TransitionAudit DEF LogRollingBack, L!States
    <3>7. CASE LogRolledBack
      BY <3>7, TransitionAudit DEF LogRolledBack, L!States
    <3>8. CASE LogLogged
      BY <3>8, TransitionAudit DEF LogLogged, L!States
    <3>9. QED
      BY <1>3, <3>1, <3>2, <3>3, <3>4, <3>5, <3>6, <3>7, <3>8
  <2>4. QED
    BY <2>1, <2>2, <2>3
<1>4. CASE Capture \/ CapturePods \/ RestartPod \/ UndoRead \/ Verify \/ RestoreRead
           \/ ReturnOutcome
  BY <1>4 DEF Capture, CapturePods, RestartPod, UndoRead, Verify, RestoreRead,
       ReturnOutcome, Fail
<1>5. QED
  BY <1>1, <1>2, <1>3, <1>4 DEF Next, Step

(* The versions stay as they are and at most one is added. *)
LEMMA VersionsGrow ==
  ASSUME TypeOK, Numbered, Chosen, [Next]_vars
  PROVE  /\ versions' \in Seq(Version) /\ versions' # <<>>
         /\ Len(versions') \in Nat /\ Len(versions') >= Len(versions)
         /\ \A i \in 1 .. Len(versions) : versions'[i] = versions[i]
         /\ \A i \in 1 .. Len(versions') :
              i > Len(versions) => i = Len(versions) + 1 /\ Successor(versions'[i])
<1>1. /\ versions \in Seq(Version) /\ versions # <<>>
      /\ Len(versions) \in Nat \ {0}
  BY LiveFacts DEF TypeOK
<1>2. CASE versions' = versions
  BY <1>1, <1>2
<1>3. ASSUME NEW v, versions' = Append(versions, v), Successor(v)
      PROVE  /\ versions' \in Seq(Version) /\ versions' # <<>>
             /\ Len(versions') \in Nat /\ Len(versions') >= Len(versions)
             /\ \A i \in 1 .. Len(versions) : versions'[i] = versions[i]
             /\ \A i \in 1 .. Len(versions') :
                  i > Len(versions) => i = Len(versions) + 1 /\ Successor(versions'[i])
  <2>1. v \in Version
    BY <1>3 DEF Successor
  <2>2. /\ versions' \in Seq(Version) /\ Len(versions') = Len(versions) + 1
        /\ \A i \in 1 .. Len(versions) : versions'[i] = versions[i]
        /\ versions'[Len(versions) + 1] = v
    BY <1>1, <1>3, <2>1, AppendInSeq
  <2>3. \A i \in 1 .. Len(versions') :
           i > Len(versions) => i = Len(versions) + 1 /\ versions'[i] = v
    BY <1>1, <2>2
  <2>4. versions' # <<>>
    BY <1>1, <2>2
  <2>5. QED
    BY <1>1, <1>3, <2>2, <2>3, <2>4
<1>4. QED
  BY <1>2, <1>3, VersionsStep

(* The numbers of the ReplicaSets go on growing. *)
LEMMA NumbersStep ==
  ASSUME TypeOK, Numbered, NumbersGrow, Chosen, [Next]_vars
  PROVE  Numbered' /\ NumbersGrow'
<1> DEFINE n == Len(versions)
<1>1. /\ n \in Nat \ {0}
      /\ \A i \in 1 .. n : versions[i] \in Version
      /\ live = versions[n]
  <2>1. versions \in Seq(Version) /\ n \in Nat \ {0}
    BY LiveFacts DEF TypeOK
  <2>2. QED
    BY <2>1 DEF live
<1>2. /\ Len(versions') \in Nat /\ Len(versions') >= n
      /\ \A i \in 1 .. n : versions'[i] = versions[i]
      /\ \A i \in 1 .. Len(versions') :
           i > n => i = n + 1 /\ Successor(versions'[i])
      /\ \A i \in 1 .. Len(versions') : versions'[i] \in Version
  BY VersionsGrow
<1> HIDE DEF n
<1>3. ASSUME NEW i \in 1 .. Len(versions')
      PROVE  \E u \in Templates :
               /\ versions'[i].sets[u] <= i
               /\ \A w \in Templates : versions'[i].sets[w] <= versions'[i].sets[u]
  <2>1. CASE i <= n
    BY <1>1, <1>2, <2>1 DEF Numbered, n
  <2>2. CASE i > n
    BY <1>1, <1>2, <2>2 DEF Successor, n
  <2>3. QED
    BY <1>1, <2>1, <2>2
<1>4. ASSUME NEW i \in 1 .. Len(versions'), NEW j \in 1 .. Len(versions'), i <= j,
             NEW u \in Templates
      PROVE  versions'[i].sets[u] <= versions'[j].sets[u]
  <2>1. \A k \in 1 .. Len(versions') : versions'[k].sets[u] \in Nat
    BY <1>2 DEF Version
  <2>2. CASE j <= n
    BY <1>1, <1>2, <1>4, <2>2 DEF NumbersGrow, n
  <2>3. CASE j > n
    <3>1. j = n + 1 /\ live.sets[u] <= versions'[j].sets[u]
      BY <1>2, <2>3 DEF Successor
    <3>2. CASE i = j
      BY <2>1, <3>2
    <3>3. CASE i # j
      <4>1. i \in 1 .. n /\ n \in 1 .. n /\ i <= n /\ versions'[n] = versions[n]
        BY <1>1, <1>2, <1>4, <3>1, <3>3
      <4>2. versions[i].sets[u] <= live.sets[u]
        BY <1>1, <4>1 DEF NumbersGrow, n
      <4>3. n \in 1 .. Len(versions') /\ versions'[i] = versions[i]
        BY <1>1, <1>2, <4>1
      <4>4. QED
        BY <1>1, <2>1, <3>1, <4>1, <4>2, <4>3
    <3>4. QED
      BY <3>2, <3>3
  <2>4. QED
    BY <1>1, <2>2, <2>3
<1>5. QED
  BY <1>3, <1>4 DEF Numbered, NumbersGrow

(* The trails only grow, and only the one of the running attempt. *)
LEMMA AuditGrows ==
  ASSUME TypeOK, [Next]_vars
  PROVE  /\ audit' \in [1 .. MaxAttempts -> Seq(L!States)]
         /\ \A n \in 1 .. MaxAttempts :
              n # attempt \/ attempt' # attempt => audit'[n] = audit[n]
         /\ \A n \in 1 .. MaxAttempts : \A s : Logged(n, s) => Logged(n, s)'
<1>1. audit \in [1 .. MaxAttempts -> Seq(L!States)]
  BY DEF TypeOK
<1>2. CASE audit' = audit
  BY <1>1, <1>2 DEF Logged
<1>3. ASSUME attempt \in 1 .. MaxAttempts, attempt' = attempt,
             NEW s \in L!States, audit' = [audit EXCEPT ![attempt] = Append(@, s)]
      PROVE  /\ audit' \in [1 .. MaxAttempts -> Seq(L!States)]
             /\ \A n \in 1 .. MaxAttempts :
                  n # attempt \/ attempt' # attempt => audit'[n] = audit[n]
             /\ \A n \in 1 .. MaxAttempts : \A t : Logged(n, t) => Logged(n, t)'
  <2>1. audit[attempt] \in Seq(L!States)
    BY <1>1, <1>3
  <2>2. /\ Append(audit[attempt], s) \in Seq(L!States)
        /\ Len(Append(audit[attempt], s)) = Len(audit[attempt]) + 1
        /\ \A i \in 1 .. Len(audit[attempt]) :
             Append(audit[attempt], s)[i] = audit[attempt][i]
    BY <2>1, AppendInSeq
  <2>3. /\ audit' \in [1 .. MaxAttempts -> Seq(L!States)]
        /\ \A n \in 1 .. MaxAttempts : n # attempt => audit'[n] = audit[n]
        /\ audit'[attempt] = Append(audit[attempt], s)
    BY <1>1, <1>3, <2>2
  <2>4. ASSUME NEW n \in 1 .. MaxAttempts, NEW t, Logged(n, t)
        PROVE  Logged(n, t)'
    <3>1. PICK i \in 1 .. Len(audit[n]) : audit[n][i] = t
      BY <2>4 DEF Logged
    <3>2. Len(audit[n]) \in Nat
      BY <1>1
    <3>3. i \in 1 .. Len(audit'[n]) /\ audit'[n][i] = t
      BY <2>2, <2>3, <3>1, <3>2
    <3>4. QED
      BY <3>3 DEF Logged
  <2>5. QED
    BY <1>3, <2>3, <2>4
<1>4. QED
  BY <1>2, <1>3, AuditStep

-----------------------------------------------------------------------------
(* Where Remediate is, and what it holds there. *)

LocalsOK ==
  /\ seen \in 1 .. Len(versions) /\ seenSets \in 1 .. Len(versions)
  /\ attempt \in 0 .. MaxAttempts
  /\ pc \in PCs /\ (pc # "idle" => attempt > 0)
  /\ machine \in L!States
  /\ snapshot \in Templates \union {NoTemplate}
  /\ read \in 0 .. Len(versions)
  /\ target \in Templates \union {NoTemplate}
  /\ result \in {"", "recovered", "rolled_back"}
  /\ cancelled \in BOOLEAN
  /\ restoredAt \in 0 .. Len(versions)

Control == LocalsOK /\ OnTrail /\ Chosen /\ RestoredLate

(* A line is written: the trail and the machine move on together, or the    *)
(* attempt ends.                                                            *)
LEMMA LineStep ==
  ASSUME TypeOK, Control, NEW p, NEW e, NEW q, <<p, e, q>> \in Lines, pc = p,
         \/ /\ record(e, q) /\ UNCHANGED result
            /\ machine' = e
         \/ Fail,
         UNCHANGED <<attempt, cancelled, snapshot, read, target, restoredAt,
                     versions, seen, seenSets>>
  PROVE  Control'
<1>1. /\ p \in PCs \ {"idle"} /\ e \in L!States /\ q \in PCs \ {"idle"}
      /\ Append(TrailAt(p), e) = TrailAt(q)
      /\ MachineAt(q) = e
  BY TrailSteps
<1>2. /\ pc' \in {"idle", q} /\ machine' \in {machine, e} /\ result' = result
      /\ pc' = q => machine' = e /\ audit' = [audit EXCEPT ![attempt] = Append(@, e)]
  BY <1>1 DEF record, Fail
<1>3. LocalsOK'
  BY <1>1, <1>2 DEF Control, LocalsOK, PCs
<1>4. OnTrail'
  <2>1. SUFFICES ASSUME pc' = q
                 PROVE  audit'[attempt] = TrailAt(q) /\ machine' = MachineAt(q)
                        /\ result' = ""
    BY <1>2 DEF OnTrail
  <2>2. attempt \in 1 .. MaxAttempts
    BY <1>1, AttemptFacts
  <2>3. audit[attempt] = TrailAt(p) /\ result = ""
    BY <1>1 DEF Control, OnTrail
  <2>4. audit \in [1 .. MaxAttempts -> Seq(L!States)]
    BY DEF TypeOK
  <2>5. audit'[attempt] = Append(audit[attempt], e)
    BY <1>2, <2>1, <2>2, <2>4
  <2>6. QED
    BY <1>1, <1>2, <2>1, <2>3, <2>5
<1>5. Chosen'
  <2>1. q \notin {"undo", "restoring"} /\ (p = "detect" => q = "capture")
        /\ p # "capture" /\ p # "idle"
    BY DEF Lines
  <2>2. QED
    BY <1>2, <2>1 DEF Chosen, Control
<1>6. RestoredLate'
  <2>1. p \in RestoredPCs => q \in RestoredPCs
    BY DEF Lines, RestoredPCs
  <2>2. "idle" \in RestoredPCs
    BY DEF RestoredPCs
  <2>3. QED
    BY <1>2, <2>1, <2>2 DEF RestoredLate, Control
<1>7. QED
  BY <1>3, <1>4, <1>5, <1>6 DEF Control

(* The condition of transition always holds, or the attempt ends. *)
LEMMA TransitionStep ==
  ASSUME TypeOK, Control, NEW p, NEW e, NEW q, <<p, e, q>> \in Lines,
         transition(p, e, q)
  PROVE  Control'
<1>1. \/ record(e, q) /\ UNCHANGED result /\ machine' = e
      \/ Fail
  BY DEF transition
<1>2. /\ pc = p
      /\ UNCHANGED <<attempt, cancelled, snapshot, read, target, restoredAt,
                     versions, seen, seenSets>>
  BY DEF transition, locals, cluster
<1>3. QED
  BY <1>1, <1>2, LineStep

(* A read of the cache returns a version. *)
LEMMA ReadsFacts ==
  ASSUME TypeOK
  PROVE  /\ Reads(seen) \subseteq 1 .. Len(versions)
         /\ Reads(seenSets) \subseteq 1 .. Len(versions)
         /\ \A v \in 1 .. Len(versions) : versions[v] \in Version
         /\ \A v \in Reads(seen) : versions[v].template \in Templates
<1>1. /\ versions \in Seq(Version) /\ Len(versions) \in Nat \ {0}
      /\ seen \in 1 .. Len(versions) /\ seenSets \in 1 .. Len(versions)
  BY LiveFacts DEF TypeOK
<1>2. /\ Reads(seen) \subseteq 1 .. Len(versions)
      /\ Reads(seenSets) \subseteq 1 .. Len(versions)
  BY <1>1 DEF Reads
<1>3. \A v \in 1 .. Len(versions) : versions[v] \in Version
  BY <1>1
<1>4. QED
  BY <1>2, <1>3 DEF Version

(* RolloutUndo finds a newest one among the revisions it may return to. *)
LEMMA PriorHasNewest ==
  ASSUME TypeOK, Numbered, NEW s \in 1 .. Len(versions), NEW r
  PROVE  LET sets == versions[s].sets
             prior == {t \in Templates : sets[t] > 0 /\ sets[t] < r}
             picked == CHOOSE t \in prior : \A u \in prior : sets[u] <= sets[t]
         IN  prior # {} => picked \in prior /\ picked \in Templates
<1> DEFINE sets == versions[s].sets
           prior == {t \in Templates : sets[t] > 0 /\ sets[t] < r}
<1>1. versions[s] \in Version /\ s \in Nat
  BY ReadsFacts, LiveFacts
<1>2. \A t \in Templates : sets[t] \in Nat
  BY <1>1 DEF Version
<1>3. PICK m \in Templates : sets[m] <= s /\ \A w \in Templates : sets[w] <= sets[m]
  BY DEF Numbered
<1>4. ASSUME NEW t \in Templates
      PROVE  sets[t] <= s
  <2>1. sets[t] \in Nat /\ sets[m] \in Nat
    BY <1>2
  <2>2. sets[t] <= sets[m] /\ sets[m] <= s
    BY <1>3
  <2> HIDE DEF sets
  <2>3. QED
    BY <1>1, <2>1, <2>2
<1>5. \A t \in prior : sets[t] \in Nat /\ sets[t] <= s
  BY <1>2, <1>4
<1> HIDE DEF sets
<1>6. prior # {} => \E t \in prior : \A u \in prior : sets[u] <= sets[t]
  <2> HIDE DEF prior
  <2>1. QED
    BY <1>1, <1>5, MaxExists
<1>7. QED
  BY <1>6 DEF sets

(* The steps that write no line and do not change the Deployment. *)
LEMMA QuietStep ==
  ASSUME TypeOK, Numbered, Control,
         Capture \/ CapturePods \/ RestartPod \/ UndoRead \/ Verify \/ RestoreRead
         \/ ReturnOutcome
  PROVE  Control'
<1>1. /\ versions' = versions /\ audit' = audit /\ attempt' = attempt /\ machine' = machine
      /\ cancelled' = cancelled /\ seenSets \in 1 .. Len(versions)
      /\ Len(versions) \in Nat \ {0}
  BY LiveFacts DEF Capture, CapturePods, RestartPod, UndoRead, Verify, RestoreRead,
       ReturnOutcome, Fail, cluster, Control, LocalsOK
<1>2. /\ Reads(seen) \subseteq 1 .. Len(versions)
      /\ Reads(seenSets) \subseteq 1 .. Len(versions)
  BY ReadsFacts
<1>3. CASE Capture
  <2>1. \/ \E v \in Reads(seen) : /\ seen' = v /\ pc' = "snapshotted"
                                  /\ snapshot' = versions[v].template
        \/ pc' = "idle" /\ seen' = seen /\ snapshot' = snapshot
    BY <1>3 DEF Capture, Fail
  <2>2. pc = "capture" /\ UNCHANGED <<seenSets, read, target, restoredAt, result>>
    BY <1>3 DEF Capture, Fail
  <2>3. \A v \in Reads(seen) : versions[v].template \in Templates
    BY ReadsFacts
  <2>4. LocalsOK'
    BY <1>1, <1>2, <2>1, <2>2, <2>3 DEF Control, LocalsOK, PCs
  <2>5. OnTrail'
    BY <1>1, <2>1, <2>2 DEF Control, OnTrail, TrailAt, MachineAt
  <2>6. Chosen' /\ RestoredLate'
    BY <2>1, <2>2, <2>3 DEF Control, Chosen, RestoredLate, RestoredPCs
  <2>7. QED
    BY <2>4, <2>5, <2>6 DEF Control
<1>4. CASE CapturePods \/ RestartPod \/ Verify
  <2>1. /\ UNCHANGED <<seen, seenSets, snapshot, read, target, restoredAt, result>>
        /\ \/ pc' = "idle"
           \/ pc = "pods" /\ pc' = "execute"
           \/ pc = "execute" /\ pc' = "verifying"
           \/ pc = "verify" /\ pc' \in {"recovered", "rolling_back"}
    BY <1>4 DEF CapturePods, RestartPod, Verify, Fail, locals, cluster
  <2>2. LocalsOK'
    BY <1>1, <2>1 DEF Control, LocalsOK, PCs
  <2>3. OnTrail'
    BY <1>1, <2>1 DEF Control, OnTrail, TrailAt, MachineAt
  <2>4. Chosen' /\ RestoredLate'
    BY <2>1 DEF Control, Chosen, RestoredLate, RestoredPCs
  <2>5. QED
    BY <2>2, <2>3, <2>4 DEF Control
<1>5. CASE UndoRead
  <2>1. PICK v \in Reads(seen), s \in Reads(seenSets) :
          LET sets == versions[s].sets
              prior == {t \in Templates : sets[t] > 0 /\ sets[t] < versions[v].revision}
          IN  /\ \/ /\ prior # {}
                    /\ target' = CHOOSE t \in prior : \A u \in prior : sets[u] <= sets[t]
                    /\ read' = v
                    /\ pc' = "undo"
                 \/ pc' = "idle" /\ UNCHANGED <<target, read>>
              /\ seen' = v /\ seenSets' = s
    BY <1>5 DEF UndoRead, Fail
  <2>2. pc = "execute" /\ UNCHANGED <<snapshot, restoredAt, result>>
    BY <1>5 DEF UndoRead, Fail
  <2> DEFINE sets == versions[s].sets
             prior == {t \in Templates : sets[t] > 0 /\ sets[t] < versions[v].revision}
             picked == CHOOSE t \in prior : \A u \in prior : sets[u] <= sets[t]
  <2>3. /\ seen' = v /\ seenSets' = s
        /\ \/ pc' = "idle" /\ UNCHANGED <<target, read>>
           \/ pc' = "undo" /\ read' = v /\ target' = picked /\ prior # {}
    BY <2>1
  <2>4. prior # {} => picked \in Templates
    <3>1. s \in 1 .. Len(versions)
      BY <1>2
    <3>2. QED
      BY <3>1, PriorHasNewest
  <2> HIDE DEF prior, picked
  <2>5. v \in 1 .. Len(versions) /\ s \in 1 .. Len(versions)
    BY <1>2
  <2>6. LocalsOK'
    <3>1. /\ seen' \in 1 .. Len(versions) /\ seenSets' \in 1 .. Len(versions)
          /\ read \in 0 .. Len(versions) /\ target \in Templates \union {NoTemplate}
      BY <2>3, <2>5 DEF Control, LocalsOK
    <3>2. read' \in 0 .. Len(versions) /\ target' \in Templates \union {NoTemplate}
      BY <1>1, <2>3, <2>4, <2>5, <3>1
    <3>3. pc' \in PCs /\ attempt > 0
      BY <2>2, <2>3 DEF Control, LocalsOK, PCs
    <3>4. QED
      BY <1>1, <2>2, <3>1, <3>2, <3>3 DEF Control, LocalsOK
  <2>7. OnTrail'
    BY <1>1, <2>2, <2>3 DEF Control, OnTrail, TrailAt, MachineAt
  <2>8. Chosen' /\ RestoredLate'
    BY <2>2, <2>3, <2>4 DEF Control, Chosen, RestoredLate, RestoredPCs
  <2>9. QED
    BY <2>6, <2>7, <2>8 DEF Control
<1>6. CASE RestoreRead
  <2>1. /\ pc = "restore" /\ UNCHANGED <<seenSets, snapshot, target, result>>
        /\ \/ pc' = "idle" /\ UNCHANGED <<seen, read, restoredAt>>
           \/ \E v \in Reads(seen) :
                /\ seen' = v
                /\ \/ pc' = "rolled_back" /\ restoredAt' = Len(versions) /\ read' = read
                   \/ pc' = "restoring" /\ read' = v /\ restoredAt' = restoredAt
    BY <1>6 DEF RestoreRead, Fail
  <2>2. seen' \in 1 .. Len(versions) /\ read' \in 0 .. Len(versions)
        /\ restoredAt' \in 0 .. Len(versions)
    <3>1. seen \in 1 .. Len(versions) /\ read \in 0 .. Len(versions)
          /\ restoredAt \in 0 .. Len(versions)
      BY DEF Control, LocalsOK
    <3>2. QED
      BY <1>1, <1>2, <2>1, <3>1
  <2>3. LocalsOK'
    BY <1>1, <2>1, <2>2 DEF Control, LocalsOK, PCs
  <2>4. OnTrail'
    BY <1>1, <2>1 DEF Control, OnTrail, TrailAt, MachineAt
  <2>5. Chosen' /\ RestoredLate'
    BY <2>1 DEF Control, Chosen, RestoredLate, RestoredPCs
  <2>6. QED
    BY <2>3, <2>4, <2>5 DEF Control
<1>7. CASE ReturnOutcome
  <2>1. /\ pc' = "idle" /\ result' \in {"recovered", "rolled_back"}
        /\ UNCHANGED <<seen, seenSets, snapshot, read, target, restoredAt>>
    BY <1>7 DEF ReturnOutcome, locals, cluster
  <2>2. LocalsOK'
    BY <1>1, <2>1 DEF Control, LocalsOK, PCs
  <2>3. OnTrail' /\ Chosen' /\ RestoredLate'
    BY <2>1 DEF OnTrail, Chosen, RestoredLate, RestoredPCs
  <2>4. QED
    BY <2>2, <2>3 DEF Control
<1>8. QED
  BY <1>3, <1>4, <1>5, <1>6, <1>7

(* The steps that may change the Deployment. *)
LEMMA WriteStep ==
  ASSUME TypeOK, Control, Len(versions') \in Nat, Len(versions') >= Len(versions),
         UndoWrite \/ RestoreWrite \/ HumanEdit \/ DeploymentController
  PROVE  Control'
<1>1. /\ UNCHANGED <<seen, seenSets, attempt, machine, audit, snapshot, read, target,
                     result, cancelled>>
      /\ \/ pc' = "idle" /\ restoredAt' = restoredAt
         \/ pc = "undo" /\ pc' = "verifying" /\ restoredAt' = restoredAt
         \/ pc = "restoring" /\ pc' = "rolled_back" /\ restoredAt' = Len(versions')
         \/ pc' = pc /\ restoredAt' = restoredAt
  BY DEF UndoWrite, RestoreWrite, HumanEdit, DeploymentController, Fail, locals
<1>2. Len(versions) \in Nat \ {0}
  BY LiveFacts
<1>3. LocalsOK'
  <2>1. /\ seen \in 1 .. Len(versions) /\ seenSets \in 1 .. Len(versions)
        /\ read \in 0 .. Len(versions) /\ restoredAt \in 0 .. Len(versions)
    BY DEF Control, LocalsOK
  <2>2. /\ seen' \in 1 .. Len(versions') /\ seenSets' \in 1 .. Len(versions')
        /\ read' \in 0 .. Len(versions') /\ restoredAt' \in 0 .. Len(versions')
    BY <1>1, <1>2, <2>1
  <2>3. pc' \in PCs /\ (pc' # "idle" => attempt > 0)
    BY <1>1 DEF Control, LocalsOK, PCs
  <2>4. QED
    BY <1>1, <2>2, <2>3 DEF Control, LocalsOK
<1>4. OnTrail'
  BY <1>1 DEF Control, OnTrail, TrailAt, MachineAt
<1>5. Chosen'
  BY <1>1 DEF Control, Chosen
<1>6. RestoredLate'
  BY <1>1 DEF Control, RestoredLate, RestoredPCs
<1>7. QED
  BY <1>3, <1>4, <1>5, <1>6 DEF Control

(* Every step keeps the control state consistent. *)
LEMMA ControlStep ==
  ASSUME TypeOK, Numbered, Control, FutureIsBlank, [Next]_vars
  PROVE  Control'
<1>1. Len(versions') \in Nat /\ Len(versions') >= Len(versions)
  BY VersionsGrow DEF Control
<1>2. CASE UndoWrite \/ RestoreWrite \/ HumanEdit \/ DeploymentController
  BY <1>1, <1>2, WriteStep
<1>3. CASE Start
  <2>1. /\ attempt' = attempt + 1 /\ attempt < MaxAttempts
        /\ pc' = "detect" /\ machine' = "DETECTED"
        /\ snapshot' = NoTemplate /\ read' = 0 /\ target' = NoTemplate
        /\ result' = "" /\ restoredAt' = 0
        /\ UNCHANGED <<audit, cancelled, versions, seen, seenSets>>
    BY <1>3 DEF Start, cluster
  <2>2. attempt' \in 1 .. MaxAttempts /\ attempt' > attempt
    <3>1. /\ attempt \in 0 .. MaxAttempts /\ MaxAttempts \in Nat
          /\ attempt' = attempt + 1 /\ attempt < MaxAttempts
      BY <2>1, ConstantsAssumption DEF TypeOK
    <3>2. QED
      BY <3>1
  <2>3. audit'[attempt'] = <<>>
    BY <2>1, <2>2 DEF FutureIsBlank
  <2>4. LocalsOK'
    <3>1. attempt' \in 0 .. MaxAttempts /\ attempt' > 0
      BY <2>2, ConstantsAssumption
    <3>2. Len(versions) \in Nat \ {0}
      BY LiveFacts
    <3>3. read' \in 0 .. Len(versions) /\ restoredAt' \in 0 .. Len(versions)
      <4>1. 0 \in 0 .. Len(versions)
        BY <3>2
      <4>2. QED
        BY <2>1, <4>1
    <3>4. pc' \in PCs /\ machine' \in L!States
      BY <2>1 DEF PCs, L!States
    <3>5. QED
      BY <2>1, <3>1, <3>3, <3>4 DEF Control, LocalsOK
  <2>5. OnTrail'
    BY <2>1, <2>3 DEF OnTrail, TrailAt, MachineAt
  <2>6. Chosen' /\ RestoredLate'
    BY <2>1 DEF Chosen, RestoredLate
  <2>7. QED
    BY <2>4, <2>5, <2>6 DEF Control
<1>4. CASE Cancel
  <2>1. /\ cancelled' = TRUE
        /\ UNCHANGED <<versions, seen, seenSets, attempt, pc, machine, audit, snapshot,
                       read, target, result, restoredAt>>
    BY <1>4 DEF Cancel, locals, cluster
  <2>2. QED
    BY <2>1 DEF Control, LocalsOK, OnTrail, Chosen, RestoredLate
<1>5. CASE Crash
  <2>1. /\ pc' = "idle" /\ cancelled' = FALSE
        /\ seen' = Len(versions) /\ seenSets' = Len(versions)
        /\ UNCHANGED <<versions, attempt, machine, audit, result, snapshot, read, target,
                       restoredAt>>
    BY <1>5 DEF Crash, locals
  <2>2. Len(versions) \in Nat \ {0}
    BY LiveFacts
  <2>3. seen' \in 1 .. Len(versions) /\ seenSets' \in 1 .. Len(versions) /\ pc' \in PCs
    BY <2>1, <2>2 DEF PCs
  <2>4. LocalsOK'
    BY <2>1, <2>3 DEF Control, LocalsOK
  <2>5. OnTrail' /\ Chosen' /\ RestoredLate'
    BY <2>1 DEF OnTrail, Chosen, RestoredLate, RestoredPCs
  <2>6. QED
    BY <2>4, <2>5 DEF Control
<1>6. CASE Done \/ UNCHANGED vars
  BY <1>6 DEF Done, vars, Control, LocalsOK, OnTrail, Chosen, RestoredLate
<1>7. CASE LogDetected
  <2>1. <<"detect", "DETECTED", "capture">> \in Lines
    BY DEF Lines
  <2>2. /\ pc = "detect" /\ record("DETECTED", "capture")
        /\ UNCHANGED <<attempt, machine, result, cancelled, snapshot, read, target,
                       restoredAt, versions, seen, seenSets>>
    BY <1>7 DEF LogDetected, locals, cluster
  <2>3. machine' = "DETECTED"
    BY <2>2 DEF Control, OnTrail, MachineAt
  <2>4. QED
    BY <2>1, <2>2, <2>3, LineStep
<1>8. CASE LogSnapshotted \/ LogRemediating \/ LogVerifying \/ LogRecovered
           \/ LogRollingBack \/ LogRolledBack \/ LogLogged
  <2>1. \E line \in Lines : transition(line[1], line[2], line[3])
    BY <1>8 DEF LogSnapshotted, LogRemediating, LogVerifying, LogRecovered, LogRollingBack,
         LogRolledBack, LogLogged, Lines
  <2>2. QED
    BY <2>1, TransitionStep DEF Lines
<1>9. CASE Capture \/ CapturePods \/ RestartPod \/ UndoRead \/ Verify \/ RestoreRead
           \/ ReturnOutcome
  BY <1>9, QuietStep
<1>10. QED
  BY <1>2, <1>3, <1>4, <1>5, <1>6, <1>7, <1>8, <1>9 DEF Next, Step

-----------------------------------------------------------------------------
(* Who writes the Deployment, and when. *)

(* The attempt goes forward: it does not come back to before its first      *)
(* update, nor from the restore to before it.                               *)
LEMMA Forward ==
  ASSUME TypeOK, [Next]_vars
  PROVE  \/ attempt' = attempt + 1 /\ pc' = "detect"
         \/ /\ attempt' = attempt
            /\ pc' \in BeforeUndo => pc \in BeforeUndo
            /\ pc' \in BeforeRestore => pc \in BeforeUndo \union BeforeRestore
<1> USE DEF BeforeUndo, BeforeRestore
<1>1. CASE Start \/ Cancel \/ Crash \/ Done \/ UNCHANGED vars
  BY <1>1 DEF Start, Cancel, Crash, Done, vars
<1>2. CASE HumanEdit \/ DeploymentController
  BY <1>2 DEF HumanEdit, DeploymentController
<1>3. CASE LogDetected \/ LogSnapshotted \/ LogRemediating \/ LogVerifying
  BY <1>3 DEF LogDetected, LogSnapshotted, LogRemediating, LogVerifying, transition,
       record, Fail
<1>4. CASE LogRecovered \/ LogRollingBack \/ LogRolledBack \/ LogLogged
  BY <1>4 DEF LogRecovered, LogRollingBack, LogRolledBack, LogLogged, transition, record,
       Fail
<1>5. CASE Capture \/ CapturePods \/ RestartPod \/ UndoRead
  BY <1>5 DEF Capture, CapturePods, RestartPod, UndoRead, Fail
<1>6. CASE Verify \/ RestoreRead \/ ReturnOutcome \/ UndoWrite \/ RestoreWrite
  BY <1>6 DEF Verify, RestoreRead, ReturnOutcome, UndoWrite, RestoreWrite, Fail
<1>7. QED
  BY <1>1, <1>2, <1>3, <1>4, <1>5, <1>6 DEF Next, Step

(* A version is written by an attempt only in its two updates, each of      *)
(* which it leaves.                                                         *)
LEMMA Writers ==
  ASSUME TypeOK, Numbered, Chosen, [Next]_vars
  PROVE  \/ \A i \in 1 .. Len(versions') : i > Len(versions) => versions'[i].by = 0
         \/ /\ attempt' = attempt /\ audit' = audit
            /\ \/ pc = "undo" /\ pc' \in {"verifying", "idle"}
               \/ pc = "restoring" /\ pc' \in {"rolled_back", "idle"}
<1>1. Len(versions) \in Nat \ {0}
  BY LiveFacts
<1>2. CASE UndoWrite \/ RestoreWrite
  BY <1>2 DEF UndoWrite, RestoreWrite, Fail
<1>3. CASE versions' = versions
  BY <1>1, <1>3
<1>4. CASE HumanEdit \/ DeploymentController
  <2>1. PICK v : versions' = Append(versions, v) /\ Successor(v) /\ v.by = 0
    BY <1>4, EditFacts, ControllerFacts
  <2>2. v \in Version /\ versions \in Seq(Version)
    BY <2>1 DEF Successor, TypeOK
  <2>3. Len(versions') = Len(versions) + 1 /\ versions'[Len(versions) + 1] = v
    BY <2>1, <2>2, AppendInSeq
  <2>4. QED
    BY <1>1, <2>1, <2>3
<1>5. CASE Start \/ Cancel \/ Crash \/ Done \/ UNCHANGED vars
  BY <1>3, <1>5 DEF Start, Cancel, Crash, Done, vars, cluster
<1>6. CASE LogDetected \/ LogSnapshotted \/ LogRemediating \/ LogVerifying
           \/ LogRecovered \/ LogRollingBack \/ LogRolledBack \/ LogLogged
  BY <1>3, <1>6 DEF LogDetected, LogSnapshotted, LogRemediating, LogVerifying,
       LogRecovered, LogRollingBack, LogRolledBack, LogLogged, transition, cluster
<1>7. CASE Capture \/ CapturePods \/ RestartPod \/ UndoRead \/ Verify \/ RestoreRead
           \/ ReturnOutcome
  BY <1>3, <1>7 DEF Capture, CapturePods, RestartPod, UndoRead, Verify, RestoreRead,
       ReturnOutcome, cluster
<1>8. QED
  BY <1>2, <1>4, <1>5, <1>6, <1>7 DEF Next, Step

(* What is known of the versions after a step. *)
LEMMA MovesStep ==
  ASSUME IInv, [Next]_vars
  PROVE  WriteAhead' /\ MovesSoFar' /\ MovesBounded'
<1> DEFINE n == Len(versions)
<1> DEFINE By(i) == versions[i].by
<1> USE DEF IInv
<1>1. /\ n \in Nat \ {0} /\ Len(versions') \in Nat /\ Len(versions') >= n
      /\ \A i \in 1 .. n : versions'[i] = versions[i]
      /\ \A i \in 1 .. Len(versions') : i > n => i = n + 1 /\ Successor(versions'[i])
  BY VersionsGrow, LiveFacts
<1>2. /\ \A i \in 1 .. n : By(i) \in 0 .. MaxAttempts
      /\ attempt \in 0 .. MaxAttempts /\ MaxAttempts \in Nat
  <2>1. \A i \in 1 .. n : versions[i] \in Version
    BY ReadsFacts
  <2>2. QED
    BY <2>1, ConstantsAssumption DEF Version, TypeOK
<1>3. \A i \in 1 .. Len(versions') :
         \/ i \in 1 .. n /\ versions'[i].by = By(i)
         \/ i = n + 1 /\ versions'[i].by \in {0, attempt}
  BY <1>1 DEF Successor
<1>4. \A i \in 1 .. n : By(i) <= attempt
  BY DEF MovesSoFar
<1>5. \A m \in 1 .. MaxAttempts : \A s : Logged(m, s) => Logged(m, s)'
  BY AuditGrows
<1>6. /\ pc \in {"undo", "restoring"} => attempt \in 1 .. MaxAttempts
                                          /\ Logged(attempt, "REMEDIATING")
      /\ pc = "restoring" => Logged(attempt, "ROLLING_BACK")
  <2>1. pc # "idle" => attempt \in 1 .. MaxAttempts /\ audit[attempt] = TrailAt(pc)
    BY AttemptFacts DEF OnTrail
  <2>2. pc \in PCs
    BY DEF TypeOK
  <2>3. QED
    BY <2>1, <2>2, TrailHas DEF Logged
<1>7. pc # "idle" => attempt \in 1 .. MaxAttempts
  BY AttemptFacts
<1>8. WriteAhead /\ MovesSoFar /\ MovesBounded
  OBVIOUS
<1>9. \/ attempt' = attempt + 1 /\ pc' = "detect"
      \/ /\ attempt' = attempt
         /\ pc' \in BeforeUndo => pc \in BeforeUndo
         /\ pc' \in BeforeRestore => pc \in BeforeUndo \union BeforeRestore
  BY Forward
<1>10. \/ \A i \in 1 .. Len(versions') : i > n => versions'[i].by = 0
       \/ /\ attempt' = attempt /\ audit' = audit
          /\ \/ pc = "undo" /\ pc' \in {"verifying", "idle"}
             \/ pc = "restoring" /\ pc' \in {"rolled_back", "idle"}
  BY Writers
<1> HIDE DEF IInv
<1>11. WriteAhead'
  <2>1. ASSUME NEW i \in 1 .. Len(versions'), NEW m, m = versions'[i].by, m # 0
        PROVE  Logged(m, "REMEDIATING")'
    <3>1. m \in 1 .. MaxAttempts /\ Logged(m, "REMEDIATING")
      <4>1. CASE i \in 1 .. n /\ m = By(i)
        BY <1>2, <1>8, <2>1, <4>1 DEF WriteAhead
      <4>2. CASE i = n + 1
        <5>1. Successor(versions'[i])
          BY <1>1, <4>2
        <5>2. m = attempt /\ pc \in {"undo", "restoring"}
          BY <2>1, <5>1 DEF Successor
        <5>3. QED
          BY <1>6, <5>2
      <4>3. QED
        BY <1>3, <2>1, <4>1, <4>2
    <3>2. QED
      BY <1>5, <3>1
  <2>2. QED
    BY <2>1 DEF WriteAhead, Logged
<1>12. MovesSoFar'
  <2>1. \A i \in 1 .. Len(versions') : versions'[i].by <= attempt /\ versions'[i].by \in Nat
    BY <1>2, <1>3, <1>4
  <2>2. CASE attempt' = attempt + 1 /\ pc' = "detect"
    BY <1>2, <2>1, <2>2 DEF MovesSoFar, BeforeRestore
  <2>3. CASE /\ attempt' = attempt
             /\ pc' \in BeforeUndo => pc \in BeforeUndo
             /\ pc' \in BeforeRestore => pc \in BeforeUndo \union BeforeRestore
    <3>1. ASSUME pc' \in BeforeUndo, NEW i \in 1 .. Len(versions')
          PROVE  versions'[i].by # attempt
      <4>1. pc \in BeforeUndo /\ attempt # 0
        BY <1>7, <2>3, <3>1 DEF BeforeUndo
      <4>2. CASE i \in 1 .. n /\ versions'[i].by = By(i)
        BY <1>8, <4>1, <4>2 DEF MovesSoFar
      <4>3. CASE i = n + 1
        BY <1>1, <1>10, <3>1, <4>1, <4>3 DEF BeforeUndo
      <4>4. QED
        BY <1>3, <4>2, <4>3
    <3>2. ASSUME pc' \in BeforeRestore,
                 NEW i \in 1 .. Len(versions'), NEW j \in 1 .. Len(versions'),
                 versions'[i].by = attempt, versions'[j].by = attempt
          PROVE  i = j
      <4>1. attempt # 0
        BY <1>7, <2>3, <3>2 DEF BeforeUndo, BeforeRestore
      <4>2. CASE pc \in BeforeUndo
        <5>1. \A k \in 1 .. n : By(k) # attempt
          BY <1>8, <4>2 DEF MovesSoFar
        <5>2. QED
          BY <1>3, <3>2, <5>1
      <4>3. CASE pc \in BeforeRestore
        <5>1. \A k \in 1 .. Len(versions') : k > n => versions'[k].by = 0
          BY <1>10, <3>2, <4>3 DEF BeforeRestore
        <5>2. i \in 1 .. n /\ j \in 1 .. n /\ By(i) = attempt /\ By(j) = attempt
          BY <1>1, <1>3, <3>2, <4>1, <5>1
        <5>3. QED
          BY <1>8, <4>3, <5>2 DEF MovesSoFar
      <4>4. QED
        BY <2>3, <3>2, <4>2, <4>3
    <3>3. QED
      BY <2>1, <2>3, <3>1, <3>2 DEF MovesSoFar
  <2>4. QED
    BY <1>9, <2>2, <2>3
<1>13. MovesBounded'
  <2>1. SUFFICES ASSUME NEW m \in 1 .. attempt'
                 PROVE  LET moves == {i \in 1 .. Len(versions') : versions'[i].by = m}
                        IN  /\ \A i, j, k \in moves : i = j \/ j = k \/ i = k
                            /\ \A i, j \in moves : i # j => Logged(m, "ROLLING_BACK")'
    BY DEF MovesBounded, Logged
  <2> DEFINE moves == {i \in 1 .. Len(versions') : versions'[i].by = m}
  <2> DEFINE before == {i \in 1 .. n : By(i) = m}
  <2>2. CASE m > attempt
    <3>1. moves = {}
      BY <1>2, <1>3, <1>4, <2>2
    <3>2. QED
      BY <3>1
  <2>3. CASE m <= attempt
    <3>1. m \in 1 .. MaxAttempts /\ m \in 1 .. attempt
      BY <1>2, <1>9, <2>3
    <3>2. /\ \A i, j, k \in before : i = j \/ j = k \/ i = k
          /\ \A i, j \in before : i # j => Logged(m, "ROLLING_BACK")
      BY <1>8, <3>1 DEF MovesBounded
    <3>3. moves \subseteq before \union {n + 1}
      BY <1>3
    <3>4. n + 1 \in moves /\ m # attempt => FALSE
      BY <1>1, <1>3, <3>1
    <3>5. CASE n + 1 \notin moves
      BY <1>5, <3>1, <3>2, <3>3, <3>5
    <3>6. CASE n + 1 \in moves
      <4>1. m = attempt /\ versions'[n + 1].by # 0
        BY <3>1, <3>4, <3>6
      <4>2. CASE pc = "undo"
        <5>1. before = {}
          BY <1>8, <4>1, <4>2 DEF MovesSoFar, BeforeUndo
        <5>2. QED
          BY <3>3, <5>1
      <4>3. CASE pc = "restoring"
        <5>1. \A i, j \in before : i = j
          BY <1>8, <4>1, <4>3 DEF MovesSoFar, BeforeRestore
        <5>2. Logged(m, "ROLLING_BACK")'
          BY <1>5, <1>6, <3>1, <4>1, <4>3
        <5>3. QED
          BY <3>3, <5>1, <5>2
      <4>4. QED
        BY <1>1, <1>10, <3>6, <4>1, <4>2, <4>3
    <3>7. QED
      BY <3>5, <3>6
  <2>4. QED
    BY <1>2, <1>9, <2>2, <2>3
<1>14. QED
  BY <1>11, <1>12, <1>13

-----------------------------------------------------------------------------
(* What Restore and RolloutUndo have read and written. *)

LEMMA RestoredStep ==
  ASSUME IInv, [Next]_vars
  PROVE  RolledBackIsRestored'
<1> USE DEF IInv
<1>1. /\ Len(versions) \in Nat \ {0} /\ Len(versions') \in Nat
      /\ \A i \in 1 .. Len(versions) : versions'[i] = versions[i]
  BY VersionsGrow, LiveFacts
<1>2. seen \in 1 .. Len(versions) /\ restoredAt \in 0 .. Len(versions)
  BY DEF TypeOK
<1>3. RolledBackIsRestored /\ RestoredLate
  OBVIOUS
<1>4. ASSUME UNCHANGED <<seen, snapshot, restoredAt>>, pc' # "idle" => pc # "idle"
      PROVE  RolledBackIsRestored'
  <2>1. ASSUME restoredAt # 0
        PROVE  versions'[restoredAt] = versions[restoredAt] /\ versions'[seen] = versions[seen]
    BY <1>1, <1>2, <2>1
  <2>2. QED
    BY <1>3, <1>4, <2>1 DEF RolledBackIsRestored
<1>5. ASSUME pc \notin RestoredPCs, restoredAt' = restoredAt
      PROVE  RolledBackIsRestored'
  BY <1>3, <1>5 DEF RestoredLate, RolledBackIsRestored
<1>6. ASSUME restoredAt' = 0
      PROVE  RolledBackIsRestored'
  BY <1>6 DEF RolledBackIsRestored
<1>7. CASE RestoreRead
  <2>1. \/ pc' = "idle"
        \/ restoredAt' = restoredAt /\ pc = "restore"
        \/ \E v \in Reads(seen) :
             /\ seen' = v /\ versions[v].template = snapshot
             /\ restoredAt' = Len(versions) /\ snapshot' = snapshot /\ versions' = versions
    BY <1>7 DEF RestoreRead, Fail
  <2>2. ASSUME NEW v \in Reads(seen), seen' = v, versions[v].template = snapshot,
               restoredAt' = Len(versions), snapshot' = snapshot, versions' = versions
        PROVE  RolledBackIsRestored'
    <3>1. v \in 1 .. Len(versions)
      BY ReadsFacts
    <3>2. v = Len(versions) \/ v < Len(versions)
      BY <1>1, <3>1
    <3>3. QED
      BY <2>2, <3>2 DEF RolledBackIsRestored
  <2>3. QED
    BY <1>5, <2>1, <2>2 DEF RolledBackIsRestored, RestoredPCs
<1>8. CASE RestoreWrite
  <2>1. \/ pc' = "idle"
        \/ /\ versions' = Updated(snapshot) /\ restoredAt' = Len(versions')
           /\ snapshot' = snapshot /\ read = Len(versions) /\ pc = "restoring"
    BY <1>8 DEF RestoreWrite, Fail, UpdateSucceeds
  <2>2. ASSUME versions' = Updated(snapshot), restoredAt' = Len(versions'),
               snapshot' = snapshot, read = Len(versions), pc = "restoring"
        PROVE  versions'[restoredAt'].template = snapshot'
    <3>1. snapshot \in Templates /\ versions \in Seq(Version)
      BY <2>2 DEF Chosen, TypeOK
    <3>2. CASE versions' = versions /\ live.template = snapshot
      BY <2>2, <3>2 DEF live
    <3>3. ASSUME NEW v, versions' = Append(versions, v), Successor(v), v.template = snapshot
          PROVE  versions'[restoredAt'].template = snapshot'
      <4>1. v \in Version
        BY <3>3 DEF Successor
      <4>2. Len(versions') = Len(versions) + 1 /\ versions'[Len(versions) + 1] = v
        BY <3>1, <3>3, <4>1, AppendInSeq
      <4>3. QED
        BY <2>2, <3>3, <4>2
    <3>4. QED
      BY <2>2, <3>1, <3>2, <3>3, UpdatedFacts
  <2>3. QED
    BY <2>1, <2>2 DEF RolledBackIsRestored
<1>9. CASE Start
  BY <1>6, <1>9 DEF Start
<1>10. CASE Capture \/ UndoRead
  BY <1>5, <1>10 DEF Capture, UndoRead, RestoredPCs
<1>11. CASE Crash
  BY <1>11 DEF Crash, RolledBackIsRestored
<1>12. CASE Cancel \/ Done \/ UNCHANGED vars \/ HumanEdit \/ DeploymentController
            \/ UndoWrite
  BY <1>4, <1>12 DEF Cancel, Done, vars, HumanEdit, DeploymentController, UndoWrite,
       locals, cluster
<1>13. CASE LogDetected \/ LogSnapshotted \/ LogRemediating \/ LogVerifying
            \/ LogRecovered \/ LogRollingBack \/ LogRolledBack \/ LogLogged
  BY <1>4, <1>13 DEF LogDetected, LogSnapshotted, LogRemediating, LogVerifying,
       LogRecovered, LogRollingBack, LogRolledBack, LogLogged, transition, cluster, locals
<1>14. CASE CapturePods \/ RestartPod \/ Verify \/ ReturnOutcome
  BY <1>4, <1>14 DEF CapturePods, RestartPod, Verify, ReturnOutcome, locals, cluster
<1>15. QED
  BY <1>7, <1>8, <1>9, <1>10, <1>11, <1>12, <1>13, <1>14 DEF Next, Step

(* The numbers of the ReplicaSets only grow, so a list at least as new as   *)
(* the Deployment shows the template of the Deployment with a number that   *)
(* is not below the revision.                                               *)
LEMMA UndoStep ==
  ASSUME IInv, [Next]_vars
  PROVE  UndoLeavesTemplate'
<1> USE DEF IInv
<1>1. /\ Len(versions) \in Nat \ {0} /\ Len(versions') \in Nat
      /\ \A i \in 1 .. Len(versions) : versions'[i] = versions[i]
      /\ \A i \in 1 .. Len(versions) : versions[i] \in Version
  BY VersionsGrow, LiveFacts, ReadsFacts
<1>2. ASSUME UNCHANGED <<seenSets, read, target, pc>>
      PROVE  UndoLeavesTemplate'
  <2>1. pc = "undo" => read \in 1 .. Len(versions)
    BY DEF ReadIsLast, TypeOK
  <2>2. QED
    BY <1>1, <1>2, <2>1 DEF UndoLeavesTemplate
<1>3. CASE UndoRead
  <2>1. PICK v \in Reads(seen), s \in Reads(seenSets) :
          LET sets == versions[s].sets
              prior == {t \in Templates : sets[t] > 0 /\ sets[t] < versions[v].revision}
          IN  /\ \/ /\ prior # {}
                    /\ target' = CHOOSE t \in prior : \A u \in prior : sets[u] <= sets[t]
                    /\ read' = v
                 \/ pc' = "idle"
              /\ seen' = v /\ seenSets' = s
    BY <1>3 DEF UndoRead, Fail
  <2> DEFINE sets == versions[s].sets
             prior == {t \in Templates : sets[t] > 0 /\ sets[t] < versions[v].revision}
             picked == CHOOSE t \in prior : \A u \in prior : sets[u] <= sets[t]
  <2>2. v \in 1 .. Len(versions) /\ s \in 1 .. Len(versions) /\ versions' = versions
    BY <1>3, ReadsFacts DEF UndoRead
  <2>3. pc' = "undo" => read' = v /\ target' = picked /\ prior # {} /\ seenSets' = s
    BY <2>1
  <2>4. prior # {} => picked \in prior
    BY PriorHasNewest, <2>2
  <2> HIDE DEF prior, picked
  <2>5. ASSUME pc' = "undo", target' = versions[v].template, s >= v,
               versions[v].revision = versions[v].sets[versions[v].template]
        PROVE  FALSE
    <3> DEFINE t == versions[v].template
    <3>1. t \in Templates /\ sets[t] < versions[v].revision
      BY <2>3, <2>4, <2>5 DEF prior
    <3>2. versions[v].sets[t] <= sets[t]
      BY <2>2, <2>5, <3>1 DEF NumbersGrow
    <3>3. versions[v].sets[t] \in Nat /\ sets[t] \in Nat
      BY <1>1, <2>2, <3>1 DEF Version
    <3> HIDE DEF t, sets
    <3>4. versions[v].revision = versions[v].sets[t]
      BY <2>5 DEF t
    <3>5. QED
      BY <3>1, <3>2, <3>3, <3>4
  <2>6. s >= v \/ s < v
    BY <1>1, <2>2
  <2>7. QED
    BY <2>2, <2>3, <2>5, <2>6 DEF UndoLeavesTemplate
<1>4. CASE pc' # "undo"
  BY <1>4 DEF UndoLeavesTemplate
<1>5. CASE Cancel \/ Done \/ UNCHANGED vars \/ HumanEdit \/ DeploymentController
  BY <1>2, <1>5 DEF Cancel, Done, vars, HumanEdit, DeploymentController, locals, cluster
<1>6. CASE LogDetected \/ LogSnapshotted \/ LogRemediating \/ LogVerifying
           \/ LogRecovered \/ LogRollingBack \/ LogRolledBack \/ LogLogged
  BY <1>4, <1>6 DEF LogDetected, LogSnapshotted, LogRemediating, LogVerifying,
       LogRecovered, LogRollingBack, LogRolledBack, LogLogged, transition, record, Fail
<1>7. CASE Start \/ Crash \/ Capture \/ CapturePods \/ RestartPod \/ UndoWrite
           \/ Verify \/ RestoreRead \/ RestoreWrite \/ ReturnOutcome
  BY <1>4, <1>7 DEF Start, Crash, Capture, CapturePods, RestartPod, UndoWrite,
       Verify, RestoreRead, RestoreWrite, ReturnOutcome, Fail
<1>8. QED
  BY <1>3, <1>5, <1>6, <1>7 DEF Next, Step

-----------------------------------------------------------------------------
(* The theorems. *)

LEMMA InitHolds ==
  ASSUME Init
  PROVE  IInv
<1>1. PICK t \in Templates : versions = <<InitialVersion(t)>>
  BY DEF Init
<1>2. MaxAttempts \in Nat /\ NoTemplate \notin Templates
  BY ConstantsAssumption
<1>3. InitialVersion(t) \in Version
  <2>1. 0 \in 0 .. MaxAttempts
    BY <1>2
  <2>2. [u \in Templates |-> IF u = t THEN 1 ELSE 0] \in [Templates -> Nat]
    OBVIOUS
  <2>3. QED
    BY <2>1, <2>2 DEF InitialVersion, Version
<1>4. /\ versions \in Seq(Version) /\ Len(versions) = 1 /\ versions # <<>>
      /\ versions[1] = InitialVersion(t)
  BY <1>1, <1>3
<1>5. /\ \A u \in Templates : versions[1].sets[u] \in {0, 1}
      /\ versions[1].sets[t] = 1 /\ versions[1].by = 0
  BY <1>4 DEF InitialVersion
<1>6. /\ seen = 1 /\ seenSets = 1 /\ attempt = 0 /\ pc = "idle" /\ machine = "DETECTED"
      /\ audit = [n \in 1 .. MaxAttempts |-> <<>>] /\ snapshot = NoTemplate /\ read = 0
      /\ target = NoTemplate /\ result = "" /\ cancelled = FALSE /\ restoredAt = 0
  BY DEF Init
<1>7. TypeOK
  <2>1. /\ seen \in 1 .. Len(versions) /\ seenSets \in 1 .. Len(versions)
        /\ read \in 0 .. Len(versions) /\ restoredAt \in 0 .. Len(versions)
        /\ attempt \in 0 .. MaxAttempts
    <3>1. 1 \in 1 .. 1 /\ 0 \in 0 .. 1 /\ 0 \in 0 .. MaxAttempts
      BY <1>2
    <3>2. QED
      BY <1>4, <1>6, <3>1
  <2>2. audit \in [1 .. MaxAttempts -> Seq(L!States)]
    <3>1. <<>> \in Seq(L!States)
      OBVIOUS
    <3>2. QED
      BY <1>6, <3>1
  <2>3. machine \in L!States /\ pc \in PCs
    BY <1>6 DEF L!States, PCs
  <2>4. QED
    BY <1>4, <1>6, <2>1, <2>2, <2>3 DEF TypeOK
<1>8. OnTrail /\ FutureIsBlank /\ Chosen /\ ReadIsLast /\ RestoredLate
  BY <1>6 DEF OnTrail, FutureIsBlank, Chosen, ReadIsLast, RestoredLate
<1>9. Numbered /\ NumbersGrow
  <2>1. \A i \in 1 .. Len(versions) : i = 1
    BY <1>4
  <2>2. Numbered
    BY <1>5, <2>1 DEF Numbered
  <2>3. NumbersGrow
    <3>1. ASSUME NEW u \in Templates
          PROVE  versions[1].sets[u] <= versions[1].sets[u]
      <4>1. versions[1].sets[u] = 0 \/ versions[1].sets[u] = 1
        BY <1>5
      <4>2. QED
        BY <4>1
    <3>2. QED
      BY <2>1, <3>1 DEF NumbersGrow
  <2>4. QED
    BY <2>2, <2>3
<1>10. MovesSoFar /\ WriteAhead /\ MovesBounded
  <2>1. \A i \in 1 .. Len(versions) : i = 1
    BY <1>4
  <2>2. attempt = 0
    BY <1>6
  <2>3. \A m \in 1 .. attempt : FALSE
    BY <2>2
  <2>4. WriteAhead /\ MovesBounded
    BY <1>5, <2>1, <2>3 DEF WriteAhead, MovesBounded
  <2>5. MovesSoFar
    <3>1. pc \notin BeforeUndo /\ pc \notin BeforeRestore
      BY <1>6 DEF BeforeUndo, BeforeRestore
    <3>2. \A i \in 1 .. Len(versions) : versions[i].by <= attempt
      BY <1>5, <2>2, <2>1
    <3>3. QED
      BY <3>1, <3>2 DEF MovesSoFar
  <2>6. QED
    BY <2>4, <2>5
<1>11. RolledBackIsRestored /\ UndoLeavesTemplate
  BY <1>6 DEF RolledBackIsRestored, UndoLeavesTemplate
<1>12. QED
  BY <1>7, <1>8, <1>9, <1>10, <1>11 DEF IInv

LEMMA BaseInit ==
  ASSUME Init
  PROVE  Base
BY InitHolds DEF IInv, Base

(* The control state, the trail, the versions and their numbers. *)
LEMMA BaseStep ==
  ASSUME Base, [Next]_vars
  PROVE  Base'
<1>1. /\ TypeOK /\ OnTrail /\ FutureIsBlank /\ Numbered /\ NumbersGrow /\ Chosen
      /\ RestoredLate
  BY DEF Base
<1>2. Control
  BY <1>1 DEF TypeOK, Control, LocalsOK
<1>3. Control'
  BY <1>1, <1>2, ControlStep
<1>4. Numbered' /\ NumbersGrow'
  BY <1>1, NumbersStep
<1>5. versions' \in Seq(Version) /\ versions' # <<>>
  BY <1>1, VersionsGrow
<1>6. /\ audit' \in [1 .. MaxAttempts -> Seq(L!States)]
      /\ \A n \in 1 .. MaxAttempts :
           n # attempt \/ attempt' # attempt => audit'[n] = audit[n]
  BY <1>1, AuditGrows
<1>7. TypeOK'
  BY <1>3, <1>5, <1>6 DEF Control, LocalsOK, TypeOK
<1>8. FutureIsBlank'
  <2>1. attempt \in Nat /\ attempt' \in {attempt, attempt + 1}
    <3>1. attempt \in 0 .. MaxAttempts
      BY <1>1 DEF TypeOK
    <3>2. QED
      BY <1>1, <3>1, Forward, ConstantsAssumption
  <2>2. ASSUME NEW n \in 1 .. MaxAttempts, n > attempt'
        PROVE  audit'[n] = <<>>
    <3>1. n > attempt /\ n # attempt
      BY <2>1, <2>2
    <3>2. QED
      BY <1>1, <1>6, <3>1 DEF FutureIsBlank
  <2>3. QED
    BY <2>2 DEF FutureIsBlank
<1>9. QED
  BY <1>3, <1>4, <1>7, <1>8 DEF Base, Control

(* Updates follow their reads: nothing else moves what was seen.            *)
LEMMA ReadStep ==
  ASSUME TypeOK, ReadIsLast, [Next]_vars
  PROVE  ReadIsLast'
<1>1. SUFFICES ASSUME pc' \in {"undo", "restoring"}
               PROVE  read' = seen'
  BY DEF ReadIsLast
<1>2. \/ UndoRead \/ RestoreRead
      \/ pc' = pc /\ read' = read /\ seen' = seen
  BY <1>1 DEF Next, Step, vars, Start, LogDetected, Capture, LogSnapshotted, LogRemediating,
       CapturePods, RestartPod, UndoWrite, LogVerifying, Verify, LogRecovered,
       LogRollingBack, RestoreWrite, LogRolledBack, LogLogged, ReturnOutcome, Cancel, Crash,
       HumanEdit, DeploymentController, Done, transition, record, Fail, cluster, locals
<1>3. CASE UndoRead
  BY <1>1, <1>3 DEF UndoRead, Fail
<1>4. CASE RestoreRead
  BY <1>1, <1>4 DEF RestoreRead, Fail
<1>5. QED
  BY <1>1, <1>2, <1>3, <1>4 DEF ReadIsLast

LEMMA StepHolds ==
  ASSUME IInv, [Next]_vars
  PROVE  IInv'
<1>1. Base /\ ReadIsLast /\ TypeOK
  BY DEF IInv, Base
<1>2. Base' /\ ReadIsLast'
  BY <1>1, BaseStep, ReadStep
<1>3. WriteAhead' /\ MovesSoFar' /\ MovesBounded'
  BY MovesStep
<1>4. RolledBackIsRestored' /\ UndoLeavesTemplate'
  BY RestoredStep, UndoStep
<1>5. QED
  BY <1>2, <1>3, <1>4 DEF IInv, Base

(* The invariant of Remediate on one Deployment, among people who edit it   *)
(* and a controller that numbers it.                                        *)
THEOREM RemediationInvariant == Spec => []IInv
<1>1. IInv /\ [Next]_vars => IInv'
  BY StepHolds
<1>2. QED
  BY <1>1, InitHolds, PTL DEF Spec

(* Types are kept by every step of Remediate and of the cluster. *)
THEOREM TypeCorrect == Spec => []TypeOK
<1>1. IInv => TypeOK
  BY DEF IInv
<1>2. QED
  BY <1>1, RemediationInvariant, PTL

(* Whatever fails, every version of the Deployment an attempt wrote was     *)
(* announced in the audit log before.                                       *)
THEOREM AuditIsAhead == Spec => []WriteAhead
<1>1. IInv => WriteAhead
  BY DEF IInv
<1>2. QED
  BY <1>1, RemediationInvariant, PTL

(* An attempt changes the Deployment at most twice, the second time only    *)
(* to roll back.                                                            *)
THEOREM AttemptsMoveTwice == Spec => []MovesBounded
<1>1. IInv => MovesBounded
  BY DEF IInv
<1>2. QED
  BY <1>1, RemediationInvariant, PTL

(* When Restore succeeded, the live template was the snapshot, or the cache *)
(* showed a version that had it.                                            *)
THEOREM RestoreRestores == Spec => []RolledBackIsRestored
<1>1. IInv => RolledBackIsRestored
  BY DEF IInv
<1>2. QED
  BY <1>1, RemediationInvariant, PTL

(* rollout_undo leaves the failing template, unless what it read was behind *)
(* or not yet numbered.                                                     *)
THEOREM UndoLeaves == Spec => []UndoLeavesTemplate
<1>1. IInv => UndoLeavesTemplate
  BY DEF IInv
<1>2. QED
  BY <1>1, RemediationInvariant, PTL

(* No update of an attempt overwrites a version it has not read. *)
THEOREM UpdatesAreNotLost == Spec => NoLostUpdate
<1>1. ASSUME IInv, [Next]_vars
      PROVE  \A i \in 1 .. Len(versions') :
               i > Len(versions) /\ versions'[i].by # 0 => seen = i - 1
  <2>1. TypeOK /\ Numbered /\ Chosen /\ ReadIsLast /\ Len(versions) \in Nat
    BY <1>1, LiveFacts DEF IInv
  <2>2. SUFFICES ASSUME NEW i \in 1 .. Len(versions'), i > Len(versions),
                        versions'[i].by # 0
                 PROVE  seen = i - 1
    OBVIOUS
  <2>3. i = Len(versions) + 1 /\ Successor(versions'[i])
    BY <1>1, <2>1, <2>2, VersionsGrow
  <2>4. pc \in {"undo", "restoring"} /\ read = Len(versions)
    BY <2>2, <2>3 DEF Successor
  <2>5. QED
    BY <2>1, <2>3, <2>4 DEF ReadIsLast
<1>2. IInv /\ [Next]_vars
        => [\A i \in 1 .. Len(versions') :
              i > Len(versions) /\ versions'[i].by # 0 => seen = i - 1]_vars
  BY <1>1
<1>3. QED
  BY <1>2, RemediationInvariant, PTL DEF Spec, NoLostUpdate

-----------------------------------------------------------------------------
(* Remediation implements Lifecycle. *)

(* A line of a transition is a transition of Lifecycle. *)
LEMMA LineIsTransition ==
  ASSUME IInv, NEW p, NEW e, NEW q, <<p, e, q>> \in Lines, p # "detect",
         transition(p, e, q)
  PROVE  L!Transition(e) \/ UNCHANGED L!vars
<1>1. /\ p \in PCs \ {"idle"} /\ pc = p /\ attempt' = attempt /\ result' = result
      /\ \/ audit' = audit
         \/ /\ <<machine, e>> \in L!allowedTransitions
            /\ audit' = [audit EXCEPT ![attempt] = Append(@, e)]
  BY TrailSteps DEF transition, record, Fail
<1>2. /\ attempt \in 1 .. MaxAttempts /\ audit[attempt] = TrailAt(p)
      /\ machine = MachineAt(p) /\ result = ""
  BY <1>1, AttemptFacts DEF IInv, OnTrail
<1>3. attempt # 0
  BY <1>1, AttemptFacts DEF IInv
<1>4. TrailAt(p) # <<>> /\ TrailAt(p)[Len(TrailAt(p))] = MachineAt(p)
  BY <1>1, TrailEnds
<1>5. CASE audit' = audit
  BY <1>1, <1>5 DEF L!vars
<1>6. CASE /\ <<machine, e>> \in L!allowedTransitions
           /\ audit' = [audit EXCEPT ![attempt] = Append(@, e)]
  <2>1. audit \in [1 .. MaxAttempts -> Seq(L!States)]
    BY DEF IInv, TypeOK
  <2>2. audit'[attempt] = Append(audit[attempt], e)
    BY <1>2, <1>6, <2>1
  <2>3. QED
    BY <1>1, <1>2, <1>3, <1>4, <1>6, <2>2 DEF L!Transition
<1>7. QED
  BY <1>1, <1>5, <1>6

LEMMA StepIsLifecycleStep ==
  ASSUME IInv, [Next]_vars
  PROVE  [L!Next]_(L!vars)
<1>1. TypeOK /\ OnTrail /\ FutureIsBlank
  BY DEF IInv
<1>2. ASSUME UNCHANGED <<attempt, audit, result>>
      PROVE  UNCHANGED L!vars
  BY <1>2 DEF L!vars
<1>3. CASE Start
  <2>1. /\ attempt' = attempt + 1 /\ attempt < MaxAttempts /\ result' = ""
        /\ audit' = audit /\ attempt \in 0 .. MaxAttempts
    BY <1>1, <1>3 DEF Start, TypeOK
  <2>2. attempt' \in 1 .. MaxAttempts /\ attempt' > attempt /\ attempt' # 0
    <3>1. /\ attempt' = attempt + 1 /\ attempt < MaxAttempts
          /\ attempt \in 0 .. MaxAttempts /\ MaxAttempts \in Nat
      BY <2>1, ConstantsAssumption
    <3>2. QED
      BY <3>1
  <2>3. audit'[attempt'] = <<>>
    BY <1>1, <2>1, <2>2 DEF FutureIsBlank
  <2>4. L!NextAttempt
    BY <2>1, <2>2, <2>3 DEF L!NextAttempt
  <2>5. QED
    BY <2>4 DEF L!Next
<1>4. CASE LogDetected
  <2>1. /\ pc = "detect" /\ attempt' = attempt /\ result' = result
        /\ \/ audit' = audit
           \/ audit' = [audit EXCEPT ![attempt] = Append(@, "DETECTED")]
    BY <1>4 DEF LogDetected, record
  <2>2. attempt \in 1 .. MaxAttempts /\ audit[attempt] = <<>>
    BY <1>1, <2>1, AttemptFacts DEF OnTrail, TrailAt
  <2>3. CASE audit' = audit
    BY <1>2, <2>1, <2>3
  <2>4. CASE audit' = [audit EXCEPT ![attempt] = Append(@, "DETECTED")]
    <3>1. audit \in [1 .. MaxAttempts -> Seq(L!States)]
      BY <1>1 DEF TypeOK
    <3>2. audit'[attempt] = Append(<<>>, "DETECTED")
      BY <2>2, <2>4, <3>1
    <3>3. Append(<<>>, "DETECTED") = <<"DETECTED">>
      OBVIOUS
    <3>4. attempt # 0
      BY <2>2
    <3>5. L!Detect
      BY <2>1, <2>2, <3>2, <3>3, <3>4 DEF L!Detect
    <3>6. QED
      BY <3>5 DEF L!Next
  <2>5. QED
    BY <2>1, <2>3, <2>4
<1>5. CASE LogSnapshotted \/ LogRemediating \/ LogVerifying \/ LogRecovered
           \/ LogRollingBack \/ LogRolledBack \/ LogLogged
  <2>1. \E line \in Lines : line[1] # "detect" /\ transition(line[1], line[2], line[3])
    BY <1>5 DEF LogSnapshotted, LogRemediating, LogVerifying, LogRecovered, LogRollingBack,
         LogRolledBack, LogLogged, Lines
  <2>2. PICK e : e \in L!States /\ (L!Transition(e) \/ UNCHANGED L!vars)
    <3>1. PICK line \in Lines : line[1] # "detect" /\ transition(line[1], line[2], line[3])
      BY <2>1
    <3>2. <<line[1], line[2], line[3]>> \in Lines /\ line[2] \in L!States
      BY DEF Lines, L!States
    <3>3. L!Transition(line[2]) \/ UNCHANGED L!vars
      BY <3>1, <3>2, LineIsTransition
    <3>4. QED
      BY <3>2, <3>3
  <2>3. QED
    BY <2>2 DEF L!Next
<1>6. CASE ReturnOutcome
  <2>1. /\ attempt' = attempt /\ audit' = audit
        /\ \/ pc = "return_recovered" /\ result' = "recovered"
           \/ pc = "return_rolled_back" /\ result' = "rolled_back"
    BY <1>6 DEF ReturnOutcome
  <2>2. attempt \in 1 .. MaxAttempts /\ audit[attempt] = TrailAt(pc) /\ result = ""
    BY <1>1, <2>1, AttemptFacts DEF OnTrail
  <2>3. attempt # 0
    BY <1>1, <2>1, AttemptFacts
  <2>4. /\ TrailAt(pc) # <<>> /\ TrailAt(pc)[Len(TrailAt(pc))] = "LOGGED"
        /\ result' = L!ResultOf(TrailAt(pc))
    <3>1. CASE pc = "return_recovered"
      BY <2>1, <3>1 DEF TrailAt, L!ResultOf
    <3>2. CASE pc = "return_rolled_back"
      BY <2>1, <3>2 DEF TrailAt, L!ResultOf
    <3>3. QED
      BY <2>1, <3>1, <3>2
  <2>5. audit[attempt] # <<>> /\ audit[attempt][Len(audit[attempt])] = "LOGGED"
    BY <2>2, <2>4
  <2>6. result' = L!ResultOf(audit[attempt])
    BY <2>2, <2>4
  <2>7. L!Return
    BY <2>1, <2>2, <2>3, <2>5, <2>6 DEF L!Return
  <2>8. QED
    BY <2>7 DEF L!Next
<1>7. CASE Cancel \/ Crash \/ Done \/ UNCHANGED vars \/ HumanEdit \/ DeploymentController
  BY <1>2, <1>7 DEF Cancel, Crash, Done, vars, HumanEdit, DeploymentController
<1>8. CASE Capture \/ CapturePods \/ RestartPod \/ UndoRead \/ UndoWrite \/ Verify
           \/ RestoreRead \/ RestoreWrite
  BY <1>2, <1>8 DEF Capture, CapturePods, RestartPod, UndoRead, UndoWrite, Verify,
       RestoreRead, RestoreWrite, Fail
<1>9. QED
  BY <1>3, <1>4, <1>5, <1>6, <1>7, <1>8 DEF Next, Step

(* What an attempt has logged is a path of the frozen lifecycle that starts *)
(* at DETECTED, and its result is the one the path ends in.                 *)
THEOREM ImplementsLifecycle == Spec => LifecycleHolds
<1>1. Init => L!Init
  BY DEF Init, L!Init
<1>2. IInv /\ [Next]_vars => [L!Next]_(L!vars)
  BY StepIsLifecycleStep
<1>3. QED
  BY <1>1, <1>2, RemediationInvariant, PTL DEF Spec, LifecycleHolds, L!Spec

=============================================================================
