--------------------------- MODULE VerifierProofs ---------------------------
(***************************************************************************)
(* Proofs about Verifier, for any Pods, names, durations, lateness of      *)
(* timers and any reader: what a recovered verdict means, and how long     *)
(* Verify may take.                                                        *)
(***************************************************************************)
EXTENDS Verifier, Extrema, TLAPS

-----------------------------------------------------------------------------
(* The inductive invariant. *)

(* What is known of every Pod: it was created in the past, under one of the *)
(* names; its name and its owner never change and its restart count only    *)
(* grows, so what a lagging reader knows of a Pod is true but may be old.   *)
Later(p, q) ==
  /\ q.phase # "unborn"
  /\ q.kind = p.kind /\ q.name = p.name
  /\ p.restarts <= q.restarts

PodHistory ==
  \A u \in UIDs :
    /\ pods[u].created <= now /\ view[u].created <= now
    /\ Exists(pods[u]) => pods[u].name \in Names
    /\ Exists(view[u]) => view[u].name \in Names
    /\ view[u].phase # "unborn" => Later(view[u], pods[u])

Watching == {"stable_wait", "poll"}

(* During the stability window the locked Pod is one the resolver may       *)
(* choose, and every poll has seen it Ready with the restart count of the   *)
(* lock.                                                                    *)
Locked ==
  pc \in Watching =>
    /\ stable \in UIDs \ pre
    /\ observed[stable].phase # "unborn" /\ observed[stable].kind = "owned"
    /\ observed[stable].name # OriginalName
    /\ observed[stable].restarts >= baseline
    /\ \A p \in polls : p.uid = stable /\ p.ready /\ p.restarts = baseline

(* The polls start with the window and follow each other closely; the last  *)
(* one set the timer.                                                       *)
Follows(p, q) == q.at > p.at /\ q.at - p.at <= PollInterval + MaxLate

Covered ==
  pc \in Watching =>
    /\ \E p \in polls : p.at + Window = deadline
    /\ \E last \in polls :
         /\ last.at < wakeAt /\ wakeAt <= last.at + PollInterval
         /\ \A p \in polls : p.at = last.at \/ \E q \in polls : Follows(p, q)

(* Where the clock may be in each phase. *)
OnTime ==
  /\ pc \in {"capture", "act"} => now = 0
  /\ pc \in {"resolve", "ready_wait"} => deadline = ReadinessTimeout
  /\ pc = "resolve" => now <= ReadinessTimeout + MaxLate
  /\ pc \in Watching => deadline <= ReadinessTimeout + MaxLate + Window
  /\ pc \in Watching \union {"ready_wait"} => wakeAt <= deadline /\ now <= wakeAt + MaxLate
  /\ pc = "poll" => now >= wakeAt

IInv ==
  /\ TypeOK
  /\ PodHistory
  /\ Locked /\ Covered
  /\ OnTime /\ VerifyBounded
  /\ verdict # "" => pc = "done"
  /\ RecoveredWasStable

-----------------------------------------------------------------------------
(* Pods. *)

LEMMA RestartsAreNumbers == \A n \in 0 .. MaxRestarts : n \in Nat
  OBVIOUS

LEMMA AtLeast == \A a, b, c \in Nat : a >= b /\ a <= c => c >= b
  OBVIOUS

LEMMA Slack == \A a, b, c \in Nat : a < b => a <= b + c
  OBVIOUS

LEMMA ObservedFacts ==
  ASSUME TypeOK
  PROVE  /\ observed \in [UIDs -> Pod]
         /\ \A u \in UIDs : /\ observed[u].created \in Nat /\ observed[u].name \in Nat
                           /\ observed[u].restarts \in 0 .. MaxRestarts
<1>1. observed \in [UIDs -> Pod]
  BY DEF TypeOK, observed
<1>2. QED
  BY <1>1 DEF Pod

(* The sort of Resolve has a first element: what it returns is a candidate. *)
LEMMA ResolveFacts ==
  ASSUME TypeOK, PodHistory, ResolvedReady
  PROVE  /\ Resolve \in UIDs /\ eligibleDeploymentPod(Resolve)
         /\ podReady(observed[Resolve])
<1> DEFINE C == {u \in UIDs : eligibleDeploymentPod(u)}
           created == [u \in UIDs |-> observed[u].created]
           name == [u \in UIDs |-> observed[u].name]
           first == CHOOSE u \in C : \A v \in C : Precedes(observed[u], observed[v])
<1>1. Resolve \in UIDs /\ podReady(observed[Resolve]) /\ NoUID \notin UIDs
  BY ConstantsAssumption DEF ResolvedReady
<1>2. C # {} /\ Resolve = first
  BY <1>1 DEF Resolve
<1>3. /\ \A u \in UIDs : created[u] \in Nat /\ name[u] \in Nat
      /\ \A u \in C : created[u] \in Nat /\ created[u] <= now /\ name[u] \in Names
  <2>1. \A u \in UIDs : observed[u].created <= now
    BY DEF PodHistory, observed
  <2>2. \A u \in C : observed[u].name \in Names
    BY DEF PodHistory, observed, eligibleDeploymentPod, Exists
  <2>3. QED
    BY <2>1, <2>2, ObservedFacts
<1>4. PICK b \in Nat : \A n \in Names : n <= b
  BY ConstantsAssumption, FiniteIsBounded
<1>5. now \in Nat
  BY DEF TypeOK
<1>6. \A u \in C : u \in UIDs
  OBVIOUS
<1> HIDE DEF C, created, name
<1>7. PICK t \in C : \A u \in C : created[u] <= created[t]
  BY <1>2, <1>3, <1>5, <1>6, MaxExists
<1> DEFINE D == {u \in C : created[u] = created[t]}
<1>8. D # {} /\ \A u \in D : u \in UIDs /\ u \in C /\ created[u] = created[t]
  BY <1>6, <1>7
<1>9. \A u \in D : name[u] \in Nat /\ name[u] <= b
  <2>1. ASSUME NEW u \in D
        PROVE  name[u] \in Nat /\ name[u] <= b
    <3>1. u \in UIDs /\ u \in C
      BY <1>8
    <3>2. name[u] \in Names /\ name[u] \in Nat
      BY <1>3, <3>1
    <3>3. QED
      BY <1>4, <3>2
  <2>2. QED
    BY <2>1
<1>10. PICK m \in D : \A u \in D : name[u] <= name[m]
  <2> HIDE DEF D
  <2>1. QED
    BY <1>8, <1>9, MaxExists
<1>11. ASSUME NEW v \in C
       PROVE  Precedes(observed[m], observed[v])
  <2>1. /\ m \in UIDs /\ v \in UIDs /\ m \in C /\ created[m] = created[t]
        /\ created[v] <= created[m]
    BY <1>6, <1>7, <1>8, <1>10
  <2>2. /\ created[v] \in Nat /\ created[m] \in Nat /\ name[v] \in Nat /\ name[m] \in Nat
    BY <1>3, <2>1
  <2>3. created[v] = created[m] => name[v] <= name[m]
    BY <1>10, <2>1
  <2>4. \/ created[m] > created[v]
        \/ created[m] = created[v] /\ name[m] >= name[v]
    BY <2>1, <2>2, <2>3
  <2>5. QED
    BY <2>1, <2>4 DEF Precedes, created, name
<1>12. first \in C
  BY <1>8, <1>10, <1>11
<1>13. QED
  BY <1>1, <1>2, <1>12 DEF C

(* A Pod is replaced by a later state of itself. *)
LEMMA PodUpdate ==
  ASSUME TypeOK, PodHistory, NEW u \in UIDs, NEW p \in Pod,
         pods' = [pods EXCEPT ![u] = p],
         p.created <= now, Exists(p) => p.name \in Names,
         pods[u].phase # "unborn" => Later(pods[u], p)
  PROVE  /\ pods' \in [UIDs -> Pod]
         /\ \A w \in UIDs :
              /\ pods'[w].created <= now
              /\ Exists(pods'[w]) => pods'[w].name \in Names
              /\ pods[w].phase # "unborn" => Later(pods[w], pods'[w])
<1>1. pods \in [UIDs -> Pod]
  BY DEF TypeOK
<1>2. /\ pods' \in [UIDs -> Pod] /\ pods'[u] = p
      /\ \A w \in UIDs \ {u} : pods'[w] = pods[w]
  BY <1>1
<1>3. \A w \in UIDs : pods[w].restarts <= pods[w].restarts
  BY <1>1 DEF Pod
<1>4. \A w \in UIDs : pods[w].phase # "unborn" => Later(pods[w], pods[w])
  BY <1>3 DEF Later
<1>5. QED
  BY <1>2, <1>4 DEF PodHistory

(* Every step leaves the Pods alone or replaces some by a later state.      *)
LEMMA PodsStep ==
  ASSUME TypeOK, PodHistory, [Next]_vars
  PROVE  /\ pods' \in [UIDs -> Pod]
         /\ \A w \in UIDs :
              /\ pods'[w].created <= now
              /\ Exists(pods'[w]) => pods'[w].name \in Names
              /\ pods[w].phase # "unborn" => Later(pods[w], pods'[w])
<1> USE DEF PodHistory
<1>1. pods \in [UIDs -> Pod] /\ now \in Nat
  BY DEF TypeOK
<1>2. CASE pods' = pods
  <2>1. \A w \in UIDs : pods[w].restarts <= pods[w].restarts
    BY <1>1 DEF Pod
  <2>2. \A w \in UIDs : pods[w].phase # "unborn" => Later(pods[w], pods[w])
    BY <2>1 DEF Later
  <2>3. QED
    BY <1>1, <1>2, <2>2
<1>3. ASSUME NEW u \in UIDs, CreatePod(u)
      PROVE  \E p \in Pod : /\ pods' = [pods EXCEPT ![u] = p]
                            /\ p.created <= now
                            /\ Exists(p) => p.name \in Names
                            /\ pods[u].phase # "unborn" => Later(pods[u], p)
  <2>1. PICK n \in Names, k \in Kinds :
          pods' = [pods EXCEPT ![u] = [Unborn EXCEPT !.phase = "live", !.name = n,
                                                     !.kind = k, !.created = now]]
    BY <1>3 DEF CreatePod
  <2> DEFINE p == [Unborn EXCEPT !.phase = "live", !.name = n, !.kind = k, !.created = now]
  <2>2. n \in Nat /\ n \in Names /\ k \in AllKinds /\ 0 \in 0 .. MaxRestarts
    BY ConstantsAssumption
  <2>3. Unborn \in Pod
    BY <2>2 DEF Unborn, Pod, AllKinds
  <2>4. p \in Pod /\ p.created = now /\ p.name = n
    BY <1>1, <2>2, <2>3 DEF Pod
  <2>5. pods[u].phase = "unborn" /\ now <= now
    BY <1>1, <1>3 DEF CreatePod
  <2> HIDE DEF p
  <2>6. p.created <= now /\ p.name \in Names
    BY <2>2, <2>4, <2>5
  <2>7. pods' = [pods EXCEPT ![u] = p]
    BY <2>1 DEF p
  <2>8. QED
    BY <2>4, <2>5, <2>6, <2>7
<1>4. ASSUME NEW u \in UIDs, ReportStatus(u)
      PROVE  \E p \in Pod : /\ pods' = [pods EXCEPT ![u] = p]
                            /\ p.created <= now
                            /\ Exists(p) => p.name \in Names
                            /\ pods[u].phase # "unborn" => Later(pods[u], p)
  <2>1. PICK s \in {"ready", "not_ready"} : pods' = [pods EXCEPT ![u].status = s]
    BY <1>4 DEF ReportStatus
  <2> DEFINE p == [pods[u] EXCEPT !.status = s]
  <2>2. /\ p \in Pod /\ p.created = pods[u].created /\ p.name = pods[u].name
        /\ p.phase = pods[u].phase /\ p.kind = pods[u].kind /\ p.restarts = pods[u].restarts
    BY <1>1 DEF Pod
  <2>3. pods' = [pods EXCEPT ![u] = p]
    BY <1>1, <2>1
  <2>4. pods[u].restarts \in Nat
    BY <1>1 DEF Pod
  <2> HIDE DEF p
  <2>5. Later(pods[u], p) \/ pods[u].phase = "unborn"
    BY <2>2, <2>4 DEF Later
  <2>6. p.created <= now /\ (Exists(p) => p.name \in Names)
    BY <2>2 DEF Exists
  <2>7. QED
    BY <2>2, <2>3, <2>5, <2>6
<1>5. ASSUME NEW u \in UIDs, RestartContainer(u)
      PROVE  \E p \in Pod : /\ pods' = [pods EXCEPT ![u] = p]
                            /\ p.created <= now
                            /\ Exists(p) => p.name \in Names
                            /\ pods[u].phase # "unborn" => Later(pods[u], p)
  <2>1. /\ pods' = [pods EXCEPT ![u].restarts = @ + 1, ![u].status = "not_ready"]
        /\ pods[u].restarts < MaxRestarts
    BY <1>5 DEF RestartContainer
  <2> DEFINE p == [pods[u] EXCEPT !.restarts = pods[u].restarts + 1, !.status = "not_ready"]
  <2>2. pods[u].restarts \in 0 .. MaxRestarts /\ MaxRestarts \in Nat
    BY <1>1, ConstantsAssumption DEF Pod
  <2>3. /\ pods[u].restarts + 1 \in 0 .. MaxRestarts
        /\ pods[u].restarts <= pods[u].restarts + 1
    BY <2>1, <2>2
  <2>4. /\ p \in Pod /\ p.created = pods[u].created /\ p.name = pods[u].name
        /\ p.phase = pods[u].phase /\ p.kind = pods[u].kind
        /\ p.restarts = pods[u].restarts + 1
    BY <1>1, <2>3 DEF Pod
  <2>5. pods' = [pods EXCEPT ![u] = p]
    BY <1>1, <2>1 DEF Pod
  <2> HIDE DEF p
  <2>6. QED
    BY <2>3, <2>4, <2>5 DEF Later, Exists
<1>6. ASSUME NEW u \in UIDs, NEW ph \in {"deleting", "gone"}, Exists(pods[u]),
             pods' = [pods EXCEPT ![u].phase = ph]
      PROVE  \E p \in Pod : /\ pods' = [pods EXCEPT ![u] = p]
                            /\ p.created <= now
                            /\ Exists(p) => p.name \in Names
                            /\ pods[u].phase # "unborn" => Later(pods[u], p)
  <2> DEFINE p == [pods[u] EXCEPT !.phase = ph]
  <2>1. /\ p \in Pod /\ p.created = pods[u].created /\ p.name = pods[u].name
        /\ p.phase = ph /\ p.kind = pods[u].kind /\ p.restarts = pods[u].restarts
    BY <1>1 DEF Pod
  <2>2. pods' = [pods EXCEPT ![u] = p]
    BY <1>1, <1>6
  <2>3. pods[u].restarts \in Nat
    BY <1>1 DEF Pod
  <2> HIDE DEF p
  <2>4. Later(pods[u], p)
    BY <1>6, <2>1, <2>3 DEF Later
  <2>5. p.created <= now /\ p.name \in Names
    BY <1>6, <2>1
  <2>6. QED
    BY <2>1, <2>2, <2>4, <2>5
<1>7. \/ pods' = pods
      \/ \E u \in UIDs : CreatePod(u) \/ ReportStatus(u) \/ RestartContainer(u)
      \/ \E u \in UIDs, ph \in {"deleting", "gone"} :
           Exists(pods[u]) /\ pods' = [pods EXCEPT ![u].phase = ph]
  <2>1. CASE VerifyStep
    BY <2>1 DEF VerifyStep, CapturePreActionPodUIDs, Execute, LockPod, NotReadyYet,
         ReadError, Unstable, StillStable, Wake, WaitCancelled, Exists
  <2>2. CASE Tick \/ Cancel \/ Deliver \/ Done \/ UNCHANGED vars
    BY <2>2 DEF Tick, Cancel, Deliver, Done, vars
  <2>3. CASE \E u \in UIDs : PodStep(u)
    BY <2>3 DEF PodStep, DeletePod
  <2>4. QED
    BY <2>1, <2>2, <2>3 DEF Next
<1>8. QED
  BY <1>2, <1>3, <1>4, <1>5, <1>6, <1>7, PodUpdate

(* The reader sees later and later states of a Pod. *)
LEMMA HistoryStep ==
  ASSUME TypeOK, PodHistory, [Next]_vars
  PROVE  /\ pods' \in [UIDs -> Pod] /\ view' \in [UIDs -> Pod]
         /\ PodHistory'
         /\ \A u \in UIDs : observed[u].phase # "unborn" => Later(observed[u], observed'[u])
<1>1. pods \in [UIDs -> Pod] /\ view \in [UIDs -> Pod] /\ now \in Nat
  BY DEF TypeOK
<1>2. /\ pods' \in [UIDs -> Pod]
      /\ \A u \in UIDs :
           /\ pods'[u].created <= now
           /\ Exists(pods'[u]) => pods'[u].name \in Names
           /\ pods[u].phase # "unborn" => Later(pods[u], pods'[u])
  BY PodsStep
<1>3. \/ view' = view
      \/ view' = pods /\ pods' = pods
  <2>1. CASE VerifyStep
    BY <2>1 DEF VerifyStep, CapturePreActionPodUIDs, Execute, LockPod, NotReadyYet,
         ReadError, Unstable, StillStable, Wake, WaitCancelled
  <2>2. CASE Tick \/ Cancel \/ Deliver \/ Done \/ UNCHANGED vars
    BY <2>2 DEF Tick, Cancel, Deliver, Done, vars
  <2>3. CASE \E u \in UIDs : PodStep(u)
    BY <2>3 DEF PodStep, CreatePod, ReportStatus, RestartContainer, DeletePod
  <2>4. QED
    BY <2>1, <2>2, <2>3 DEF Next
<1>4. now' = now \/ now' = now + 1
  <2>1. CASE VerifyStep
    BY <2>1 DEF VerifyStep, CapturePreActionPodUIDs, Execute, LockPod, NotReadyYet,
         ReadError, Unstable, StillStable, Wake, WaitCancelled, timing
  <2>2. CASE Tick \/ Cancel \/ Deliver \/ Done \/ UNCHANGED vars
    BY <2>2 DEF Tick, Cancel, Deliver, Done, vars, unchangedVerify, timing
  <2>3. CASE \E u \in UIDs : PodStep(u)
    BY <2>3 DEF PodStep, CreatePod, ReportStatus, RestartContainer, DeletePod,
         unchangedVerify, timing
  <2>4. QED
    BY <2>1, <2>2, <2>3 DEF Next
<1>5. view' \in [UIDs -> Pod]
  BY <1>1, <1>3
<1>6. ASSUME NEW u \in UIDs
      PROVE  /\ pods[u].created \in Nat /\ pods'[u].created \in Nat /\ view[u].created \in Nat
             /\ pods[u].restarts \in Nat /\ pods'[u].restarts \in Nat
             /\ view[u].restarts \in Nat
  BY <1>1, <1>2 DEF Pod
<1>7. ASSUME NEW u \in UIDs, view[u].phase # "unborn"
      PROVE  Later(view[u], view'[u]) /\ Later(view[u], pods'[u])
  <2>1. Later(view[u], pods[u])
    BY <1>7 DEF PodHistory
  <2>2. Later(pods[u], pods'[u])
    BY <1>2, <2>1 DEF Later
  <2>3. Later(view[u], pods'[u])
    <3>1. view[u].restarts <= pods[u].restarts /\ pods[u].restarts <= pods'[u].restarts
      BY <2>1, <2>2 DEF Later
    <3>2. view[u].restarts <= pods'[u].restarts
      BY <1>6, <3>1
    <3>3. QED
      BY <2>1, <2>2, <3>2 DEF Later
  <2>4. Later(view[u], view[u])
    BY <1>6, <1>7 DEF Later
  <2>5. QED
    BY <1>3, <2>1, <2>3, <2>4
<1>8. PodHistory'
  <2>1. ASSUME NEW u \in UIDs
        PROVE  /\ pods'[u].created <= now' /\ view'[u].created <= now'
               /\ Exists(pods'[u]) => pods'[u].name \in Names
               /\ Exists(view'[u]) => view'[u].name \in Names
               /\ view'[u].phase # "unborn" => Later(view'[u], pods'[u])
    <3>1. pods'[u].created <= now /\ view[u].created <= now /\ pods[u].created <= now
      BY <1>2 DEF PodHistory
    <3>2. /\ pods'[u].created <= now' /\ view[u].created <= now' /\ pods[u].created <= now'
      BY <1>1, <1>4, <1>6, <3>1
    <3>3. /\ Exists(pods'[u]) => pods'[u].name \in Names
          /\ Exists(view'[u]) => view'[u].name \in Names
      BY <1>2, <1>3 DEF PodHistory
    <3>4. view'[u].phase # "unborn" => Later(view'[u], pods'[u])
      BY <1>2, <1>3, <1>7
    <3>5. QED
      BY <1>3, <3>2, <3>3, <3>4
  <2>2. QED
    BY <2>1 DEF PodHistory, Exists, Later
<1>9. QED
  BY <1>2, <1>5, <1>7, <1>8 DEF observed

-----------------------------------------------------------------------------
(* The steps. *)

(* The Pods, the watch and the cancellation leave what Verify holds alone.  *)
LEMMA OutsideStep ==
  ASSUME IInv, [Next]_vars,
         UNCHANGED <<pc, pre, now, wakeAt, deadline, stable, baseline, verdict, polls>>,
         cancelled' \in BOOLEAN, pc # "done"
  PROVE  IInv'
<1> USE DEF IInv
<1>1. /\ pods' \in [UIDs -> Pod] /\ view' \in [UIDs -> Pod] /\ PodHistory'
      /\ \A u \in UIDs : observed[u].phase # "unborn" => Later(observed[u], observed'[u])
  BY HistoryStep
<1>2. TypeOK'
  BY <1>1 DEF TypeOK
<1>3. verdict = "" /\ (verdict' # "" => pc' = "done")
  OBVIOUS
<1>4. RecoveredWasStable'
  BY <1>3 DEF RecoveredWasStable
<1>5. OnTime' /\ VerifyBounded'
  BY DEF OnTime, VerifyBounded
<1>6. Covered'
  BY DEF Covered, Follows
<1>7. Locked'
  <2>1. SUFFICES ASSUME pc \in Watching
                 PROVE  /\ observed'[stable].phase # "unborn"
                        /\ observed'[stable].kind = "owned"
                        /\ observed'[stable].name # OriginalName
                        /\ observed'[stable].restarts >= baseline
    BY DEF Locked
  <2>2. stable \in UIDs /\ Later(observed[stable], observed'[stable])
    BY <1>1, <2>1 DEF Locked
  <2>3. /\ observed[stable].restarts \in Nat /\ observed'[stable].restarts \in Nat
        /\ baseline \in Nat
    <3>1. observed'[stable] \in Pod /\ baseline \in 0 .. MaxRestarts
      BY <1>1, <2>2 DEF observed, TypeOK
    <3>2. /\ observed'[stable].restarts \in 0 .. MaxRestarts
          /\ observed[stable].restarts \in 0 .. MaxRestarts
      BY <2>2, <3>1, ObservedFacts DEF Pod
    <3>3. QED
      BY <3>1, <3>2, RestartsAreNumbers
  <2>4. /\ observed[stable].restarts >= baseline
        /\ observed[stable].restarts <= observed'[stable].restarts
    BY <2>1, <2>2 DEF Locked, Later
  <2>5. observed'[stable].restarts >= baseline
    BY <2>3, <2>4, AtLeast
  <2>6. QED
    BY <2>1, <2>2, <2>5 DEF Locked, Later
<1>8. QED
  BY <1>1, <1>2, <1>3, <1>4, <1>5, <1>6, <1>7

(* Verify gives up. *)
LEMMA FinishStep ==
  ASSUME IInv, [Next]_vars,
         UNCHANGED <<pre, now, wakeAt, deadline, stable, baseline, cancelled, polls>>,
         pc' = "done", verdict' \in {"failed", "error"}
  PROVE  IInv'
<1>1. pods' \in [UIDs -> Pod] /\ view' \in [UIDs -> Pod] /\ PodHistory'
  BY HistoryStep DEF IInv
<1>2. TypeOK'
  BY <1>1 DEF IInv, TypeOK
<1>3. VerifyBounded'
  BY DEF IInv, VerifyBounded
<1>4. Locked' /\ Covered' /\ OnTime' /\ RecoveredWasStable'
  BY DEF Locked, Covered, OnTime, RecoveredWasStable, Watching
<1>5. QED
  BY <1>1, <1>2, <1>3, <1>4 DEF IInv

(* Before a Pod is locked only the clock and the timer matter. *)
LEMMA EarlyStep ==
  ASSUME IInv, [Next]_vars,
         UNCHANGED <<stable, baseline, verdict, cancelled, polls>>,
         pc \in {"capture", "act", "resolve", "ready_wait"},
         pc' \in {"act", "resolve", "ready_wait"},
         pre' \subseteq UIDs, now' \in Nat, wakeAt' \in Nat, deadline' \in Nat,
         OnTime', VerifyBounded'
  PROVE  IInv'
<1>1. pods' \in [UIDs -> Pod] /\ view' \in [UIDs -> Pod] /\ PodHistory'
  BY HistoryStep DEF IInv
<1>2. TypeOK'
  BY <1>1 DEF IInv, TypeOK
<1>3. verdict = ""
  BY DEF IInv
<1>4. Locked' /\ Covered' /\ RecoveredWasStable'
  BY <1>3 DEF Locked, Covered, RecoveredWasStable, Watching
<1>5. QED
  BY <1>1, <1>2, <1>3, <1>4 DEF IInv

LEMMA Durations ==
  /\ ReadinessTimeout \in Nat \ {0} /\ Window \in Nat \ {0} /\ PollInterval \in Nat \ {0}
  /\ MaxLate \in Nat
  BY ConstantsAssumption

(* The timer is set to a moment after now that is neither after the end of  *)
(* the phase nor more than an interval away.                                *)
LEMMA WaitFacts ==
  ASSUME NEW t \in Nat, NEW until \in Nat, t < until
  PROVE  LET w == t + minDuration(PollInterval, until - t)
         IN  w \in Nat /\ t < w /\ w <= until /\ w <= t + PollInterval
<1>1. CASE PollInterval < until - t
  BY <1>1, Durations DEF minDuration
<1>2. CASE ~(PollInterval < until - t)
  BY <1>2, Durations DEF minDuration
<1>3. QED
  BY <1>1, <1>2

LEMMA ReadinessStep ==
  ASSUME IInv, [Next]_vars,
         CapturePreActionPodUIDs \/ Execute \/ NotReadyYet
  PROVE  IInv'
<1>1. now \in Nat /\ wakeAt \in Nat /\ deadline \in Nat /\ pre \subseteq UIDs
  BY DEF IInv, TypeOK
<1>2. OnTime /\ VerifyBounded
  BY DEF IInv
<1>3. CASE CapturePreActionPodUIDs
  <2>1. /\ pc = "capture" /\ pc' = "act" /\ pre' \subseteq UIDs
        /\ UNCHANGED <<stable, baseline, verdict, cancelled, polls, now, wakeAt, deadline>>
    BY <1>3 DEF CapturePreActionPodUIDs, timing
  <2>2. OnTime' /\ VerifyBounded'
    BY <1>2, <2>1 DEF OnTime, VerifyBounded, Watching
  <2>3. QED
    BY <1>1, <2>1, <2>2, EarlyStep
<1>4. CASE Execute
  <2>1. /\ pc = "act" /\ pc' = "resolve" /\ deadline' = now + ReadinessTimeout
        /\ UNCHANGED <<pre, stable, baseline, verdict, cancelled, polls, now, wakeAt>>
    BY <1>4 DEF Execute
  <2>2. now = 0
    BY <1>2, <2>1 DEF OnTime
  <2>3. /\ deadline' = ReadinessTimeout /\ deadline' \in Nat
        /\ now' <= ReadinessTimeout + MaxLate
    BY <2>1, <2>2, Durations
  <2>4. OnTime' /\ VerifyBounded'
    BY <1>2, <2>1, <2>3 DEF OnTime, VerifyBounded, Watching
  <2>5. QED
    BY <1>1, <2>1, <2>3, <2>4, EarlyStep
<1>5. CASE NotReadyYet
  <2>1. /\ pc = "resolve"
        /\ UNCHANGED <<pre, stable, baseline, cancelled, polls, now, deadline>>
        /\ \/ pc' = "done" /\ verdict' = "failed" /\ wakeAt' = wakeAt
           \/ /\ pc' = "ready_wait" /\ verdict' = verdict /\ ~(now >= deadline)
              /\ wakeAt' = now + minDuration(PollInterval, deadline - now)
    BY <1>5 DEF NotReadyYet, Finish, Wait, locals
  <2>2. CASE pc' = "done" /\ verdict' = "failed" /\ wakeAt' = wakeAt
    BY <2>1, <2>2, FinishStep
  <2>3. CASE /\ pc' = "ready_wait" /\ verdict' = verdict /\ ~(now >= deadline)
             /\ wakeAt' = now + minDuration(PollInterval, deadline - now)
    <3>1. now < deadline
      BY <1>1, <2>3
    <3>2. wakeAt' \in Nat /\ now < wakeAt' /\ wakeAt' <= deadline
      BY <1>1, <2>3, <3>1, WaitFacts
    <3>3. now' <= wakeAt' + MaxLate
      <4>1. now \in Nat /\ now' = now /\ wakeAt' \in Nat /\ now < wakeAt'
        BY <1>1, <2>1, <3>2
      <4>2. MaxLate \in Nat
        BY Durations
      <4>3. QED
        BY <4>1, <4>2, Slack
    <3>4. OnTime' /\ VerifyBounded'
      BY <1>2, <2>1, <2>3, <3>2, <3>3 DEF OnTime, VerifyBounded, Watching
    <3>5. QED
      BY <1>1, <2>1, <2>3, <3>2, <3>4, EarlyStep
  <2>4. QED
    BY <2>1, <2>2, <2>3
<1>6. QED
  BY <1>3, <1>4, <1>5

(* A Pod is locked and the window starts. *)
LEMMA LockStep ==
  ASSUME IInv, [Next]_vars, LockPod
  PROVE  IInv'
<1>now. now \in Nat
  BY DEF IInv, TypeOK
<1>1. /\ TypeOK /\ PodHistory /\ OnTime /\ VerifyBounded
      /\ verdict # "" => pc = "done"
  BY DEF IInv
<1>2. /\ pc = "resolve" /\ stable' = Resolve /\ baseline' = observed[Resolve].restarts
      /\ deadline' = now + Window /\ polls' = {Saw(Resolve)} /\ pc' = "stable_wait"
      /\ UNCHANGED <<pods, view, pre, now, verdict, cancelled>>
  BY DEF LockPod, Wait
<1>3. /\ Resolve \in UIDs /\ eligibleDeploymentPod(Resolve)
      /\ podReady(observed[Resolve])
  BY <1>1, ResolveFacts DEF LockPod
<1>4. /\ now + Window \in Nat /\ now < now + Window
  BY <1>now, Durations
<1>5. /\ wakeAt' \in Nat /\ now < wakeAt' /\ wakeAt' <= deadline'
      /\ wakeAt' <= now + PollInterval
  <2> DEFINE until == now + Window
  <2>1. wakeAt' = now + minDuration(PollInterval, until - now)
    BY DEF LockPod, Wait
  <2>2. until \in Nat /\ now < until /\ deadline' = until
    BY <1>2, <1>4
  <2> HIDE DEF until
  <2>3. QED
    BY <1>now, <2>1, <2>2, WaitFacts
<1>6. PodHistory' /\ pods' \in [UIDs -> Pod] /\ view' \in [UIDs -> Pod]
  BY <1>1, HistoryStep
<1>7. observed[Resolve].restarts \in 0 .. MaxRestarts
  BY <1>1, <1>3, ObservedFacts
<1>8. Saw(Resolve) = [at |-> now, uid |-> Resolve, ready |-> TRUE,
                      restarts |-> observed[Resolve].restarts]
  BY <1>3 DEF Saw, podReady
<1> HIDE DEF Saw
<1>9. TypeOK'
  <2>1. polls' \subseteq [at : Nat, uid : UIDs, ready : BOOLEAN, restarts : 0 .. MaxRestarts]
    <3>1. Saw(Resolve) \in [at : Nat, uid : UIDs, ready : BOOLEAN, restarts : 0 .. MaxRestarts]
      BY <1>now, <1>3, <1>7, <1>8
    <3>2. QED
      BY <1>2, <3>1
  <2>2. deadline' \in Nat
    BY <1>2, <1>4
  <2>3. QED
    BY <1>1, <1>2, <1>3, <1>5, <1>6, <1>7, <2>1, <2>2 DEF TypeOK
<1>10. Locked'
  <2>1. observed' = observed
    BY <1>2 DEF observed
  <2>2. observed[Resolve].restarts >= observed[Resolve].restarts
    BY <1>7
  <2>3. \A p \in polls' : p.uid = Resolve /\ p.ready /\ p.restarts = baseline'
    BY <1>2, <1>8
  <2>4. QED
    BY <1>2, <1>3, <2>1, <2>2, <2>3 DEF Locked, eligibleDeploymentPod
<1>11. Covered'
  <2>1. \A p \in polls' : p.at = now
    BY <1>2, <1>8
  <2>2. Saw(Resolve) \in polls' /\ Saw(Resolve).at = now
    BY <1>2, <2>1
  <2>3. QED
    BY <1>2, <1>5, <2>1, <2>2 DEF Covered
<1>12. OnTime' /\ VerifyBounded'
  <2>1. now <= ReadinessTimeout + MaxLate
    BY <1>1, <1>2 DEF OnTime
  <2>2. deadline' <= ReadinessTimeout + MaxLate + Window /\ now <= wakeAt' + MaxLate
    <3>1. deadline' = now + Window /\ wakeAt' \in Nat /\ now < wakeAt'
      BY <1>2, <1>5
    <3>2. ReadinessTimeout \in Nat /\ Window \in Nat /\ MaxLate \in Nat
      BY Durations
    <3>3. now <= wakeAt' + MaxLate
      BY <1>now, <3>1, <3>2, Slack
    <3>4. now + Window <= ReadinessTimeout + MaxLate + Window
      BY <1>now, <2>1, <3>2
    <3>5. QED
      BY <3>1, <3>3, <3>4
  <2>3. QED
    BY <1>1, <1>2, <1>5, <2>2 DEF OnTime, VerifyBounded, Watching
<1>13. verdict' = ""
  BY <1>1, <1>2
<1>14. RecoveredWasStable'
  BY <1>13 DEF RecoveredWasStable
<1>15. QED
  BY <1>6, <1>9, <1>10, <1>11, <1>12, <1>13, <1>14 DEF IInv

(* A poll closes the gap to the one before it. *)
LEMMA Gap ==
  ASSUME NEW last \in Nat, NEW wake \in Nat, NEW t \in Nat,
         last < wake, wake <= last + PollInterval, wake <= t, t <= wake + MaxLate
  PROVE  t > last /\ t - last <= PollInterval + MaxLate
  BY Durations

LEMMA PollTimes ==
  ASSUME TypeOK
  PROVE  \A p \in polls : p.at \in Nat
  BY DEF TypeOK

(* A healthy poll: another one follows, or the whole window is covered. *)
LEMMA StableStep ==
  ASSUME IInv, [Next]_vars, StillStable
  PROVE  IInv'
<1>1. /\ TypeOK /\ PodHistory /\ OnTime /\ VerifyBounded /\ Locked /\ Covered
      /\ verdict # "" => pc = "done"
  BY DEF IInv
<1>2. now \in Nat /\ wakeAt \in Nat /\ deadline \in Nat /\ baseline \in 0 .. MaxRestarts
  BY <1>1 DEF TypeOK
<1>3. /\ pc = "poll" /\ pc \in Watching
      /\ UNCHANGED <<pods, view, now, deadline, cancelled, pre, stable, baseline>>
      /\ \E u \in Gotten : Healthy(u) /\ polls' = polls \union {Saw(u)}
      /\ \/ now >= deadline /\ pc' = "done" /\ verdict' = "recovered" /\ wakeAt' = wakeAt
         \/ /\ ~(now >= deadline) /\ pc' = "stable_wait" /\ verdict' = verdict
            /\ wakeAt' = now + minDuration(PollInterval, deadline - now)
  BY DEF StillStable, WindowOver, Finish, Wait, locals, Watching
<1>4. /\ stable \in Gotten /\ Healthy(stable) /\ polls' = polls \union {Saw(stable)}
  BY <1>3 DEF Healthy
<1>5. /\ stable \in UIDs \ pre
      /\ observed[stable].phase # "unborn" /\ observed[stable].kind = "owned"
      /\ observed[stable].name # OriginalName
      /\ observed[stable].restarts >= baseline
      /\ \A p \in polls : p.uid = stable /\ p.ready /\ p.restarts = baseline
  BY <1>1, <1>3 DEF Locked
<1>6. observed[stable].restarts = baseline
  <2>1. observed[stable].restarts \in Nat /\ baseline \in Nat
    BY <1>1, <1>2, <1>5, ObservedFacts, RestartsAreNumbers
  <2>2. observed[stable].restarts <= baseline /\ observed[stable].restarts >= baseline
    BY <1>4, <1>5 DEF Healthy
  <2>3. QED
    BY <2>1, <2>2
<1>7. Saw(stable) = [at |-> now, uid |-> stable, ready |-> TRUE, restarts |-> baseline]
  BY <1>4, <1>6 DEF Saw, Healthy, podReady
<1> DEFINE seen == Saw(stable)
<1>8. /\ seen.at = now /\ seen.uid = stable /\ seen.ready = TRUE /\ seen.restarts = baseline
      /\ seen \in [at : Nat, uid : UIDs, ready : BOOLEAN, restarts : 0 .. MaxRestarts]
      /\ polls' = polls \union {seen}
  BY <1>2, <1>4, <1>5, <1>7
<1> HIDE DEF seen
<1>9. PodHistory' /\ pods' \in [UIDs -> Pod] /\ view' \in [UIDs -> Pod]
  BY <1>1, HistoryStep
<1>10. \A p \in polls' : p.uid = stable /\ p.ready /\ p.restarts = baseline
  BY <1>5, <1>8
<1>11. PICK first \in polls : first.at + Window = deadline
  BY <1>1, <1>3 DEF Covered
<1>12. \A p \in polls' : p.at = now \/ \E q \in polls' : Follows(p, q)
  <2>1. PICK last \in polls :
           /\ last.at < wakeAt /\ wakeAt <= last.at + PollInterval
           /\ \A p \in polls : p.at = last.at \/ \E q \in polls : Follows(p, q)
    BY <1>1, <1>3 DEF Covered
  <2>2. last.at \in Nat
    BY <1>1, PollTimes
  <2>3. wakeAt <= now /\ now <= wakeAt + MaxLate
    <3>1. now >= wakeAt /\ now <= wakeAt + MaxLate
      BY <1>1, <1>3 DEF OnTime
    <3>2. QED
      BY <1>2, <3>1
  <2>4. now > last.at /\ now - last.at <= PollInterval + MaxLate
    BY <1>2, <2>1, <2>2, <2>3, Gap
  <2>5. ASSUME NEW p \in polls
        PROVE  \E q \in polls' : Follows(p, q)
    <3>1. CASE p.at = last.at
      BY <1>8, <2>4, <3>1 DEF Follows
    <3>2. CASE \E q \in polls : Follows(p, q)
      BY <1>8, <3>2
    <3>3. QED
      BY <2>1, <3>1, <3>2
  <2>6. QED
    BY <1>8, <2>5
<1>13. TypeOK' \/ wakeAt' \notin Nat
  BY <1>1, <1>3, <1>8, <1>9 DEF TypeOK
<1>14. CASE ~(now >= deadline)
  <2>1. /\ pc' = "stable_wait" /\ verdict' = verdict
        /\ wakeAt' = now + minDuration(PollInterval, deadline - now)
    BY <1>3, <1>14
  <2>2. now < deadline
    BY <1>2, <1>14
  <2>3. /\ wakeAt' \in Nat /\ now < wakeAt' /\ wakeAt' <= deadline
        /\ wakeAt' <= now + PollInterval
    BY <1>2, <2>1, <2>2, WaitFacts
  <2>4. Covered'
    <3>1. \E p \in polls' : p.at + Window = deadline'
      BY <1>3, <1>8, <1>11
    <3>2. \E last \in polls' :
            /\ last.at < wakeAt' /\ wakeAt' <= last.at + PollInterval
            /\ \A p \in polls' : p.at = last.at \/ \E q \in polls' : Follows(p, q)
      BY <1>8, <1>12, <2>3
    <3>3. QED
      BY <3>1, <3>2 DEF Covered, Follows
  <2>5. Locked'
    <3>1. observed' = observed
      BY <1>3 DEF observed
    <3>2. QED
      BY <1>3, <1>5, <1>10, <3>1 DEF Locked
  <2>6. OnTime' /\ VerifyBounded'
    <3>1. now <= wakeAt' + MaxLate
      BY <1>2, <2>3, Slack, Durations
    <3>2. deadline <= ReadinessTimeout + MaxLate + Window
      BY <1>1, <1>3 DEF OnTime
    <3>3. QED
      BY <1>1, <1>3, <2>1, <2>3, <3>1, <3>2 DEF OnTime, VerifyBounded, Watching
  <2>7. verdict' = ""
    BY <1>1, <1>3, <2>1
  <2>8. RecoveredWasStable'
    BY <2>7 DEF RecoveredWasStable
  <2>9. QED
    BY <1>9, <1>13, <2>3, <2>4, <2>5, <2>6, <2>7, <2>8 DEF IInv
<1>15. CASE now >= deadline
  <2>1. pc' = "done" /\ verdict' = "recovered" /\ wakeAt' = wakeAt
    BY <1>3, <1>15
  <2>2. Locked' /\ Covered' /\ OnTime'
    BY <2>1 DEF Locked, Covered, OnTime, Watching
  <2>3. VerifyBounded'
    BY <1>1, <1>3 DEF VerifyBounded
  <2>4. pods[stable].kind = "owned" /\ pods[stable].name # OriginalName
    <3>1. CASE Lag
      <4>1. Later(view[stable], pods[stable])
        BY <1>1, <1>5, <3>1 DEF PodHistory, observed
      <4>2. QED
        BY <1>5, <3>1, <4>1 DEF Later, observed
    <3>2. CASE ~Lag
      BY <1>5, <3>2 DEF observed
    <3>3. QED
      BY <3>1, <3>2
  <2>5. \E p, q \in polls' : q.at - p.at >= Window
    <3>1. first.at \in Nat /\ first \in polls' /\ seen \in polls'
      BY <1>1, <1>8, PollTimes
    <3>2. \A a, t \in Nat : t >= a + Window => t - a >= Window
      BY Durations
    <3>3. now >= first.at + Window
      BY <1>11, <1>15
    <3>4. now - first.at >= Window
      BY <1>2, <3>1, <3>2, <3>3
    <3>5. QED
      BY <1>8, <3>1, <3>4
  <2>6. ~Lag => /\ Exists(pods[stable]) /\ podReady(pods[stable])
                /\ pods[stable].restarts = baseline
    BY <1>4, <1>6 DEF Gotten, Healthy, observed
  <2>7. RecoveredWasStable'
    BY <1>3, <1>5, <1>10, <1>12, <2>4, <2>5, <2>6 DEF RecoveredWasStable, Follows
  <2>8. QED
    BY <1>2, <1>9, <1>13, <2>1, <2>2, <2>3, <2>7 DEF IInv
<1>16. QED
  BY <1>14, <1>15

(* The wait ends. *)
LEMMA WakeStep ==
  ASSUME IInv, [Next]_vars, Wake
  PROVE  IInv'
<1>1. /\ pc \in {"ready_wait", "stable_wait"} /\ now >= wakeAt
      /\ pc' = IF pc = "ready_wait" THEN "resolve" ELSE "poll"
      /\ UNCHANGED <<pods, view, verdict, cancelled, polls, pre, stable, baseline, now, wakeAt,
                     deadline>>
  BY DEF Wake, locals, timing
<1>2. /\ TypeOK /\ OnTime /\ VerifyBounded /\ Locked /\ Covered
      /\ verdict # "" => pc = "done"
  BY DEF IInv
<1>3. now \in Nat /\ wakeAt \in Nat /\ deadline \in Nat /\ pre \subseteq UIDs
  BY <1>2 DEF TypeOK
<1>4. OnTime' /\ VerifyBounded'
  <2>1. pc = "ready_wait" => now <= ReadinessTimeout + MaxLate
    <3>1. pc = "ready_wait" =>
            wakeAt <= ReadinessTimeout /\ now <= wakeAt + MaxLate
      BY <1>2 DEF OnTime
    <3>2. \A t, w \in Nat : w <= ReadinessTimeout /\ t <= w + MaxLate
                            => t <= ReadinessTimeout + MaxLate
      BY Durations
    <3>3. QED
      BY <1>3, <3>1, <3>2
  <2>2. QED
    BY <1>1, <1>2, <2>1 DEF OnTime, VerifyBounded, Watching
<1>5. CASE pc = "ready_wait"
  BY <1>1, <1>3, <1>4, <1>5, EarlyStep
<1>6. CASE pc = "stable_wait"
  <2>1. TypeOK'
    BY <1>1, <1>2, <1>6 DEF TypeOK
  <2>2. observed' = observed
    BY <1>1 DEF observed
  <2>3. Locked' /\ Covered'
    BY <1>1, <1>2, <1>6, <2>2 DEF Locked, Covered, Watching
  <2>4. verdict' = ""
    BY <1>1, <1>2
  <2>5. RecoveredWasStable'
    BY <2>4 DEF RecoveredWasStable
  <2>6. PodHistory'
    BY HistoryStep DEF IInv
  <2>7. QED
    BY <1>4, <2>1, <2>3, <2>4, <2>5, <2>6 DEF IInv
<1>7. QED
  BY <1>1, <1>5, <1>6

(* Time passes while Verify waits. *)
LEMMA TickStep ==
  ASSUME IInv, [Next]_vars, Tick
  PROVE  IInv'
<1>1. /\ pc \in {"ready_wait", "stable_wait"} /\ now < wakeAt + MaxLate /\ now' = now + 1
      /\ UNCHANGED <<pods, view, pc, wakeAt, deadline, verdict, cancelled, polls, pre, stable,
                     baseline>>
  BY DEF Tick, locals
<1>2. /\ TypeOK /\ OnTime /\ VerifyBounded /\ Locked /\ Covered
      /\ verdict # "" => pc = "done"
  BY DEF IInv
<1>3. now \in Nat /\ wakeAt \in Nat /\ deadline \in Nat /\ pre \subseteq UIDs
  BY <1>2 DEF TypeOK
<1>4. now' \in Nat /\ now' <= wakeAt + MaxLate
  <2>1. \A t, w \in Nat : t < w + MaxLate => t + 1 \in Nat /\ t + 1 <= w + MaxLate
    BY Durations
  <2>2. QED
    BY <1>1, <1>3, <2>1
<1>5. now' <= ReadinessTimeout + Window + 2 * MaxLate
  <2>1. wakeAt <= deadline /\ deadline <= ReadinessTimeout + MaxLate + Window
    <3>1. CASE pc = "ready_wait"
      <4>1. wakeAt <= deadline /\ deadline = ReadinessTimeout
        BY <1>2, <3>1 DEF OnTime
      <4>2. ReadinessTimeout <= ReadinessTimeout + MaxLate + Window
        BY Durations
      <4>3. QED
        BY <4>1, <4>2
    <3>2. CASE pc = "stable_wait"
      BY <1>2, <3>2 DEF OnTime, Watching
    <3>3. QED
      BY <1>1, <3>1, <3>2
  <2>2. \A t, w, d \in Nat :
          w <= d /\ d <= ReadinessTimeout + MaxLate + Window /\ t <= w + MaxLate
            => t <= ReadinessTimeout + Window + 2 * MaxLate
    BY Durations
  <2>3. QED
    BY <1>3, <1>4, <2>1, <2>2
<1>6. OnTime' /\ VerifyBounded'
  BY <1>1, <1>2, <1>4, <1>5 DEF OnTime, VerifyBounded, Watching
<1>7. CASE pc = "ready_wait"
  BY <1>1, <1>3, <1>4, <1>6, <1>7, EarlyStep
<1>8. CASE pc = "stable_wait"
  <2>1. TypeOK'
    BY <1>1, <1>2, <1>4 DEF TypeOK
  <2>2. observed' = observed
    BY <1>1 DEF observed
  <2>3. Locked' /\ Covered'
    BY <1>1, <1>2, <1>8, <2>2 DEF Locked, Covered, Watching
  <2>4. verdict' = ""
    BY <1>1, <1>2, <1>8
  <2>5. RecoveredWasStable'
    BY <2>4 DEF RecoveredWasStable
  <2>6. PodHistory'
    BY HistoryStep DEF IInv
  <2>7. QED
    BY <1>6, <2>1, <2>3, <2>4, <2>5, <2>6 DEF IInv
<1>9. QED
  BY <1>1, <1>7, <1>8

LEMMA StepHolds ==
  ASSUME IInv, [Next]_vars
  PROVE  IInv'
<1>1. cancelled \in BOOLEAN
  BY DEF IInv, TypeOK
<1>2. CASE CapturePreActionPodUIDs \/ Execute \/ NotReadyYet
  BY <1>2, ReadinessStep
<1>3. CASE LockPod
  BY <1>3, LockStep
<1>4. CASE ReadError \/ Unstable \/ WaitCancelled
  <2>1. /\ UNCHANGED <<pre, now, wakeAt, deadline, stable, baseline, cancelled, polls>>
        /\ pc' = "done" /\ verdict' \in {"failed", "error"}
    BY <1>4 DEF ReadError, Unstable, WaitCancelled, Finish, locals, timing
  <2>2. QED
    BY <2>1, FinishStep
<1>5. CASE StillStable
  BY <1>5, StableStep
<1>6. CASE Wake
  BY <1>6, WakeStep
<1>7. CASE Tick
  BY <1>7, TickStep
<1>8. CASE Cancel \/ Deliver \/ \E u \in UIDs : PodStep(u)
  <2>1. /\ UNCHANGED <<pc, pre, now, wakeAt, deadline, stable, baseline, verdict, polls>>
        /\ cancelled' \in BOOLEAN /\ pc # "done"
    <3>1. CASE Cancel \/ Deliver
      BY <1>1, <3>1 DEF Cancel, Deliver, unchangedVerify, locals, timing
    <3>2. CASE \E u \in UIDs : PodStep(u)
      BY <1>1, <3>2 DEF PodStep, CreatePod, ReportStatus, RestartContainer, DeletePod,
           unchangedVerify, locals, timing
    <3>3. QED
      BY <1>8, <3>1, <3>2
  <2>2. QED
    BY <2>1, OutsideStep
<1>9. CASE Done \/ UNCHANGED vars
  <2>1. UNCHANGED vars
    BY <1>9 DEF Done
  <2>2. observed' = observed
    BY <2>1 DEF observed, vars
  <2>3. TypeOK' /\ PodHistory' /\ OnTime' /\ VerifyBounded' /\ RecoveredWasStable'
    BY <2>1 DEF IInv, TypeOK, PodHistory, OnTime, VerifyBounded, RecoveredWasStable, vars
  <2>4. Locked' /\ Covered' /\ (verdict' # "" => pc' = "done")
    BY <2>1, <2>2 DEF IInv, Locked, Covered, vars
  <2>5. QED
    BY <2>3, <2>4 DEF IInv
<1>10. QED
  BY <1>2, <1>3, <1>4, <1>5, <1>6, <1>7, <1>8, <1>9 DEF Next, VerifyStep

LEMMA InitHolds ==
  ASSUME Init
  PROVE  IInv
<1>1. /\ pc = "capture" /\ pre = {} /\ now = 0 /\ wakeAt = 0 /\ deadline = 0
      /\ stable = NoUID /\ baseline = 0 /\ verdict = "" /\ cancelled = FALSE /\ polls = {}
      /\ view = pods
  BY DEF Init
<1> DEFINE original == [Unborn EXCEPT !.phase = "live", !.name = OriginalName,
                                      !.status = "not_ready"]
<1>2. pods = [u \in UIDs |-> IF u = OriginalUID THEN original ELSE Unborn]
  BY DEF Init
<1>3. OriginalName \in Nat /\ OriginalName \in Names /\ 0 \in 0 .. MaxRestarts
  BY ConstantsAssumption
<1>4. /\ Unborn \in Pod /\ Unborn.created = 0 /\ Unborn.phase = "unborn"
  BY <1>3 DEF Unborn, Pod, AllKinds
<1>5. /\ original \in Pod /\ original.created = 0 /\ original.name \in Names
      /\ original.phase = "live"
  <2>1. original.created = Unborn.created /\ original.name = OriginalName
        /\ original \in Pod /\ original.phase = "live"
    BY <1>3, <1>4 DEF Pod
  <2>2. QED
    BY <1>3, <1>4, <2>1
<1> HIDE DEF original
<1>6. /\ pods \in [UIDs -> Pod]
      /\ \A u \in UIDs : pods[u].created = 0 /\ (Exists(pods[u]) => pods[u].name \in Names)
  BY <1>2, <1>4, <1>5 DEF Exists
<1>7. TypeOK
  BY <1>1, <1>3, <1>6 DEF TypeOK
<1>8. PodHistory
  <2>1. \A u \in UIDs : pods[u].restarts <= pods[u].restarts
    BY <1>6 DEF Pod
  <2>2. \A u \in UIDs : pods[u].created <= now
    <3>1. now = 0
      BY <1>1
    <3>2. QED
      BY <1>6, <3>1
  <2>3. QED
    BY <1>1, <1>6, <2>1, <2>2 DEF PodHistory, Later
<1>9. VerifyBounded
  <2>1. 0 <= ReadinessTimeout + Window + 2 * MaxLate
    BY Durations
  <2>2. now = 0
    BY <1>1
  <2>3. QED
    BY <2>1, <2>2 DEF VerifyBounded
<1>10. Locked /\ Covered /\ OnTime /\ RecoveredWasStable
  BY <1>1 DEF Locked, Covered, OnTime, RecoveredWasStable, Watching
<1>11. QED
  BY <1>1, <1>7, <1>8, <1>9, <1>10 DEF IInv

-----------------------------------------------------------------------------
(* The theorems. *)

(* The invariant of one verification. *)
THEOREM VerifierInvariant == Spec => []IInv
<1>1. IInv /\ [Next]_vars => IInv'
  BY StepHolds
<1>2. QED
  BY <1>1, InitHolds, PTL DEF Spec

(* Types are kept, and the window is watched with a Pod locked. *)
THEOREM TypeCorrect == Spec => []TypeOK
<1>1. IInv => TypeOK
  BY DEF IInv
<1>2. QED
  BY <1>1, VerifierInvariant, PTL

(* recovered is earned: one exact new Pod of the Deployment was Ready with  *)
(* an unchanged restart count at polls that cover the whole window.         *)
THEOREM RecoveredIsEarned == Spec => []RecoveredWasStable
<1>1. IInv => RecoveredWasStable
  BY DEF IInv
<1>2. QED
  BY <1>1, VerifierInvariant, PTL

(* Verify does not outlast its two phases by more than two late timers.     *)
THEOREM VerifyIsBounded == Spec => []VerifyBounded
<1>1. IInv => VerifyBounded
  BY DEF IInv
<1>2. QED
  BY <1>1, VerifierInvariant, PTL

=============================================================================
