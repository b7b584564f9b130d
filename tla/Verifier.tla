------------------------------ MODULE Verifier ------------------------------
(***************************************************************************)
(* The verification of one remediation attempt: CapturePreActionPodUIDs,   *)
(* the action, and Verify (internal/safety/verifier.go) with the           *)
(* Deployment -> ReplicaSet -> Pod resolver of pod_resolver.go, against    *)
(* Pods that are created, become ready, restart and go away at any moment, *)
(* and a reader that may lag behind the API server.                        *)
(*                                                                         *)
(* Time counts ticks from the start of Verify and passes while Verify      *)
(* waits; a timer may fire up to MaxLate ticks late.  One iteration of a   *)
(* polling loop, between two waits, is one action.                         *)
(***************************************************************************)
EXTENDS Naturals, FiniteSets

CONSTANTS
  UIDs,              \* identities of Pods
  Names,             \* names of Pods, ordered: a set of numbers
  OriginalUID,       \* the Pod of the DetectionEvent
  OriginalName,      \* its name
  NoUID,             \* no Pod
  ReadinessTimeout, Window, PollInterval,  \* of the Verifier, in ticks
  MaxLate,           \* how late a timer may fire
  MaxRestarts,       \* bound on a container's restart count
  Kinds,             \* kinds of Pods that may appear, a subset of AllKinds
  MayCancel,         \* whether the process may be told to stop
  Lag,               \* whether the reader may lag behind the API server
  ReadsFail          \* whether a read may return an error

AllKinds == {"owned", "foreign", "renamed"}

(* validate refuses durations that are not positive. *)
ASSUME ConstantsAssumption ==
  /\ OriginalUID \in UIDs /\ OriginalName \in Names
  /\ NoUID \notin UIDs
  /\ Names \subseteq Nat /\ IsFiniteSet(Names)
  /\ ReadinessTimeout \in Nat \ {0}
  /\ Window \in Nat \ {0}
  /\ PollInterval \in Nat \ {0}
  /\ MaxLate \in Nat /\ MaxRestarts \in Nat
  /\ Kinds \subseteq AllKinds
  /\ MayCancel \in BOOLEAN /\ Lag \in BOOLEAN /\ ReadsFail \in BOOLEAN

VARIABLES
  pods,       \* the Pods at the API server
  view,       \* what the reader has seen of them
  pc,         \* where Verify is
  pre,        \* target.PreActionPodUIDs
  now,        \* the clock
  wakeAt,     \* when the timer of wait fires
  deadline,   \* end of the readiness phase, then of the stability window
  stable,     \* the Pod that was locked
  baseline,   \* its restart count then
  verdict,    \* what Verify returned
  cancelled,  \* whether the context is done
  polls       \* history: what the polls of the stability window saw

vars == <<pods, view, pc, pre, now, wakeAt, deadline, stable, baseline, verdict,
          cancelled, polls>>

locals == <<pre, stable, baseline>>
timing == <<now, wakeAt, deadline>>

-----------------------------------------------------------------------------
(* Pods. *)

(* phase: whether the object exists and has a deletionTimestamp.  kind:     *)
(* controlled by one of the Deployment's ReplicaSets, by somebody else, or  *)
(* by the Deployment but without the container of the event.  status:       *)
(* whether container statuses are reported and the Ready condition holds.   *)
Unborn == [phase |-> "unborn", name |-> 0, kind |-> "owned", created |-> 0,
           status |-> "pending", restarts |-> 0]

Exists(pod) == pod.phase \in {"live", "deleting"}

podReady(pod) == pod.status = "ready"

containerFound(pod) == pod.status # "pending"

NameFree(n) == \A u \in UIDs : Exists(pods[u]) => pods[u].name # n

observed == IF Lag THEN view ELSE pods

unchangedVerify == UNCHANGED <<pc, verdict, cancelled, polls>>
                   /\ UNCHANGED locals /\ UNCHANGED timing

CreatePod(u) ==
  /\ pc # "done"
  /\ pods[u].phase = "unborn"
  /\ \E n \in Names, k \in Kinds :
       /\ NameFree(n)
       /\ pods' = [pods EXCEPT ![u] = [Unborn EXCEPT !.phase = "live", !.name = n,
                                                     !.kind = k, !.created = now]]
  /\ UNCHANGED view /\ unchangedVerify

(* The kubelet reports readiness. *)
ReportStatus(u) ==
  /\ pc # "done"
  /\ Exists(pods[u])
  /\ \E s \in {"ready", "not_ready"} \ {pods[u].status} :
       pods' = [pods EXCEPT ![u].status = s]
  /\ UNCHANGED view /\ unchangedVerify

(* The container exits and is started again. *)
RestartContainer(u) ==
  /\ pc # "done"
  /\ Exists(pods[u]) /\ pods[u].restarts < MaxRestarts
  /\ pods' = [pods EXCEPT ![u].restarts = @ + 1, ![u].status = "not_ready"]
  /\ UNCHANGED view /\ unchangedVerify

DeletePod(u) ==
  /\ pc # "done"
  /\ Exists(pods[u])
  /\ \E p \in {"deleting", "gone"} \ {pods[u].phase} :
       pods' = [pods EXCEPT ![u].phase = p]
  /\ UNCHANGED view /\ unchangedVerify

(* The watch delivers what happened in the meantime. *)
Deliver ==
  /\ Lag /\ pc # "done"
  /\ view' = pods
  /\ UNCHANGED pods /\ unchangedVerify

-----------------------------------------------------------------------------
(* The resolver. *)

(* eligibleDeploymentPod on an object the reader knows. *)
eligibleDeploymentPodMutNoUIDs(u) ==
  /\ observed[u].phase = "live"
  /\ observed[u].kind = "owned"
  /\ observed[u].name # OriginalName

eligibleDeploymentPod(u) ==
  /\ observed[u].phase = "live"
  /\ observed[u].kind = "owned"
  /\ observed[u].name # OriginalName
  /\ u \notin pre

(* The order of Resolve's sort: newest first, then the greater name. *)
Precedes(p, q) == \/ p.created > q.created
                  \/ p.created = q.created /\ p.name >= q.name

(* Resolve: its first candidate, or NoUID for ErrDeploymentPodNotFound. *)
Resolve ==
  LET candidates == {u \in UIDs : eligibleDeploymentPod(u)}
  IN  IF candidates = {} THEN NoUID
      ELSE CHOOSE u \in candidates :
             \A v \in candidates : Precedes(observed[u], observed[v])

minDurationMutLeft(left, right) == left

minDurationMutZero(left, right) == 0

minDuration(left, right) == IF left < right THEN left ELSE right

-----------------------------------------------------------------------------
Init ==
  /\ pods = [u \in UIDs |->
               IF u = OriginalUID
               THEN [Unborn EXCEPT !.phase = "live", !.name = OriginalName,
                                   !.status = "not_ready"]
               ELSE Unborn]
  /\ view = pods
  /\ pc = "capture"
  /\ pre = {}
  /\ now = 0 /\ wakeAt = 0 /\ deadline = 0
  /\ stable = NoUID /\ baseline = 0
  /\ verdict = ""
  /\ cancelled = FALSE
  /\ polls = {}

(* CapturePreActionPodUIDs: every Pod controlled by the Deployment. *)
CapturePreActionPodUIDs ==
  /\ pc = "capture"
  /\ pre' = {u \in UIDs : Exists(observed[u]) /\ observed[u].kind # "foreign"}
  /\ pc' = "act"
  /\ UNCHANGED <<pods, view, stable, baseline, verdict, cancelled, polls>>
  /\ UNCHANGED timing

(* The injected action: restart_pod deletes the Pod of the original name    *)
(* (RestartPod gets and deletes by name), rollout_undo leaves the Pods to   *)
(* the Deployment controller.  Verify starts its clock.                     *)
Execute ==
  /\ pc = "act"
  /\ \/ UNCHANGED pods
     \/ \E u \in UIDs :
          /\ pods[u].phase = "live" /\ pods[u].name = OriginalName
          /\ pods' = [pods EXCEPT ![u].phase = "deleting"]
  /\ deadline' = now + ReadinessTimeout
  /\ pc' = "resolve"
  /\ UNCHANGED <<view, pre, now, wakeAt, stable, baseline, verdict, cancelled, polls>>

(* Resolve found a Pod that is Ready and reports the container. *)
ResolvedReady ==
  LET u == Resolve
  IN  u \in UIDs /\ podReady(observed[u]) /\ containerFound(observed[u])

Finish(v) == pc' = "done" /\ verdict' = v

(* wait(min(PollInterval, deadline - now)). *)
Wait(at, until) == pc' = at /\ wakeAt' = now + minDuration(PollInterval, until - now)

Saw(u) == [at |-> now, uid |-> u, ready |-> podReady(observed[u]),
           restarts |-> observed[u].restarts]

(* The first Ready candidate is locked and the window starts. *)
LockPodMutNoCandidate ==
  /\ pc = "resolve"
  /\ stable' = Resolve
  /\ Resolve # NoUID => podReady(observed[Resolve])
  /\ baseline' = IF Resolve = NoUID THEN NoUID ELSE observed[Resolve].restarts
  /\ deadline' = now + Window
  /\ Wait("stable_wait", now + Window)
  /\ UNCHANGED <<pods, view, pre, now, verdict, cancelled, polls>>

LockPod ==
  /\ pc = "resolve"
  /\ ResolvedReady
  /\ stable' = Resolve
  /\ baseline' = observed[Resolve].restarts
  /\ deadline' = now + Window
  /\ polls' = {Saw(Resolve)}
  /\ Wait("stable_wait", now + Window)
  /\ UNCHANGED <<pods, view, pre, now, verdict, cancelled>>

(* No candidate, or not ready: fail at the deadline, else poll again. *)
NotReadyYet ==
  /\ pc = "resolve"
  /\ ~ResolvedReady
  /\ IF now >= deadline
     THEN Finish("failed") /\ UNCHANGED wakeAt
     ELSE Wait("ready_wait", deadline) /\ UNCHANGED verdict
  /\ UNCHANGED <<pods, view, now, deadline, cancelled, polls>>
  /\ UNCHANGED locals

(* Resolve fails other than by finding no Pod, at any of its reads; so may  *)
(* the reads of CapturePreActionPodUIDs.                                    *)
ReadError ==
  /\ pc \in {"capture", "resolve"}
  /\ ReadsFail
  /\ Finish("error")
  /\ UNCHANGED <<pods, view, cancelled, polls>>
  /\ UNCHANGED locals /\ UNCHANGED timing

(* The objects Reader.Get of the locked name may return. *)
Gotten == {u \in UIDs : Exists(observed[u]) /\ observed[u].name = observed[stable].name}

(* The conditions of the stability loop on the Pod it has read. *)
HealthyMutNoRestarts(u) ==
  /\ containerFound(observed[u])
  /\ u = stable
  /\ podReady(observed[u])

Healthy(u) ==
  /\ containerFound(observed[u])
  /\ u = stable
  /\ podReady(observed[u])
  /\ observed[u].restarts <= baseline

(* Any error of Get, or an unhealthy Pod, fails the verification. *)
Unstable ==
  /\ pc = "poll"
  /\ Gotten = {} \/ ReadsFail \/ (\E u \in Gotten : ~Healthy(u))
  /\ Finish("failed")
  /\ UNCHANGED <<pods, view, cancelled, polls>>
  /\ UNCHANGED locals /\ UNCHANGED timing

(* Healthy: recovered once the window is over, else another poll. *)
WindowOver == now >= deadline

StillStable ==
  /\ pc = "poll"
  /\ \E u \in Gotten : Healthy(u) /\ polls' = polls \union {Saw(u)}
  /\ IF WindowOver
     THEN Finish("recovered") /\ UNCHANGED wakeAt
     ELSE Wait("stable_wait", deadline) /\ UNCHANGED verdict
  /\ UNCHANGED <<pods, view, now, deadline, cancelled>>
  /\ UNCHANGED locals

(* The timer of wait fires. *)
Wake ==
  /\ pc \in {"ready_wait", "stable_wait"}
  /\ now >= wakeAt
  /\ pc' = IF pc = "ready_wait" THEN "resolve" ELSE "poll"
  /\ UNCHANGED <<pods, view, verdict, cancelled, polls>>
  /\ UNCHANGED locals /\ UNCHANGED timing

(* The other branch of its select: the context is done. *)
WaitCancelled ==
  /\ pc \in {"ready_wait", "stable_wait"}
  /\ cancelled
  /\ Finish("error")
  /\ UNCHANGED <<pods, view, cancelled, polls>>
  /\ UNCHANGED locals /\ UNCHANGED timing

Cancel ==
  /\ MayCancel /\ ~cancelled /\ pc # "done"
  /\ cancelled' = TRUE
  /\ UNCHANGED <<pods, view, pc, verdict, polls>>
  /\ UNCHANGED locals /\ UNCHANGED timing

Tick ==
  /\ pc \in {"ready_wait", "stable_wait"}
  /\ now < wakeAt + MaxLate
  /\ now' = now + 1
  /\ UNCHANGED <<pods, view, pc, wakeAt, deadline, verdict, cancelled, polls>>
  /\ UNCHANGED locals

VerifyStep ==
  \/ CapturePreActionPodUIDs \/ Execute \/ LockPod \/ NotReadyYet \/ ReadError
  \/ Unstable \/ StillStable \/ Wake \/ WaitCancelled

PodStep(u) == CreatePod(u) \/ ReportStatus(u) \/ RestartContainer(u) \/ DeletePod(u)

Done == pc = "done" /\ UNCHANGED vars

Next == \/ VerifyStep \/ Tick \/ Cancel \/ Deliver \/ Done
        \/ \E u \in UIDs : PodStep(u)

Spec == Init /\ [][Next]_vars

(* Verify runs when it can and time passes while it waits. *)
FairSpec == Spec /\ WF_vars(VerifyStep) /\ WF_vars(Tick)

-----------------------------------------------------------------------------
(* Properties. *)

Pod == [phase : {"unborn", "live", "deleting", "gone"}, name : Nat,
        kind : AllKinds, created : Nat,
        status : {"pending", "ready", "not_ready"}, restarts : 0 .. MaxRestarts]

(* Every variable holds a value of its type, and the window is watched with *)
(* a Pod locked.                                                            *)
TypeOK ==
  /\ pods \in [UIDs -> Pod] /\ view \in [UIDs -> Pod]
  /\ pc \in {"capture", "act", "resolve", "ready_wait", "stable_wait", "poll", "done"}
  /\ pc \in {"stable_wait", "poll"} => stable \in UIDs
  /\ pre \subseteq UIDs
  /\ now \in Nat /\ wakeAt \in Nat /\ deadline \in Nat
  /\ stable \in UIDs \union {NoUID}
  /\ baseline \in 0 .. MaxRestarts
  /\ verdict \in {"", "recovered", "failed", "error"}
  /\ cancelled \in BOOLEAN
  /\ polls \subseteq [at : Nat, uid : UIDs, ready : BOOLEAN, restarts : 0 .. MaxRestarts]

(* recovered says that one exact Pod, controlled by the Deployment, not the *)
(* original one and none of those captured before the action, was Ready     *)
(* with the same restart count at every poll, and that the polls covered    *)
(* the whole window with no gap longer than an interval and a late timer.   *)
(* Restart counts only grow, so polling misses no restart: with a reader    *)
(* that is up to date, that Pod still exists, is Ready and has not          *)
(* restarted since it was locked.                                           *)
RecoveredWasStable ==
  verdict = "recovered" =>
    /\ stable \notin pre /\ pods[stable].kind = "owned"
    /\ pods[stable].name # OriginalName
    /\ \A p \in polls : p.uid = stable /\ p.ready /\ p.restarts = baseline
    /\ \E p, q \in polls : q.at - p.at >= Window
    /\ \A p \in polls : \/ p.at = now
                        \/ \E q \in polls : /\ q.at > p.at
                                            /\ q.at - p.at <= PollInterval + MaxLate
    /\ ~Lag => /\ Exists(pods[stable]) /\ podReady(pods[stable])
               /\ pods[stable].restarts = baseline

(* "Remediate() can run up to ~90s (30s readiness + 60s stability window)": *)
(* Verify is over when both phases are, and lateness does not accumulate    *)
(* over the polls.                                                          *)
VerifyBounded == now <= ReadinessTimeout + Window + 2 * MaxLate

(* Verify always returns.                                                   *)
VerifyReturns == pc = "resolve" ~> pc = "done"

=============================================================================
