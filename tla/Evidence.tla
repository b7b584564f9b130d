------------------------------ MODULE Evidence ------------------------------
(***************************************************************************)
(* EvidenceCollector.Collect of internal/controller/evidence.go: the log   *)
(* tail and the recent Events an incident is classified on.                *)
(*                                                                         *)
(* Collect makes up to two log requests and one Event list per object, one *)
(* after the other, while the cluster goes on: the container leaves its    *)
(* back-off, crashes again, and Events are recorded, repeated and listed   *)
(* in whatever version they have by then.  Every request may fail.         *)
(*                                                                         *)
(* Of a log only its instance and its size matter, a blank one having size *)
(* 0; of an Event, where it was recorded, its four timestamps and the time *)
(* its series was last observed, of which 0 is the zero time.              *)
(***************************************************************************)
EXTENDS Integers, Sequences, FiniteSets

CONSTANTS
  Objects,     \* names Events are recorded against, in the Pod's namespace
  Queries,     \* the name lists Collect may have to go through
  Window,      \* evidenceEventWindow, in ticks
  MaxEvents,   \* evidenceMaxEvents
  MaxBytes,    \* evidenceLogMaxBytes
  Sizes,       \* sizes of the last evidenceLogTailLines lines of a log
  Stamps,      \* which timestamps a recorder sets, see Record
  Skew,        \* how far the clock of a node may be ahead
  NoLog,       \* no log, or an instance whose log is gone
  MaxClock,    \* bound on the clock
  MaxRecorded, \* bound on the Events recorded
  MaxInstances \* bound on the container's instances

ASSUME EvidenceAssumption ==
  /\ Queries \subseteq Seq(Objects)
  /\ Window \in Nat /\ MaxEvents \in Nat /\ MaxBytes \in Nat /\ Skew \in Nat
  /\ Sizes \subseteq Nat
  /\ MaxClock \in Nat \ {0} /\ MaxRecorded \in Nat /\ MaxInstances \in Nat \ {0}

VARIABLES
  clock,      \* the time
  recorded,   \* the Events at the API server
  container,  \* the crash-looping container, as its kubelet sees it
  wired,      \* which of the collector's Logs and Events are not nil
  names,      \* the Pod, its ReplicaSets and its Deployment
  pc,         \* where Collect is
  firstRead,  \* how the request for the previous instance ended
  logs,       \* the log evidence
  now,        \* c.now() of collectEvents
  unlisted,   \* the names still to list
  collected,  \* the Events collected so far
  events,     \* the Event evidence
  listed,     \* history: the names whose list succeeded
  atStart     \* history: the Events that were recorded when Collect began

cluster == <<clock, recorded, container>>
collector == <<wired, names, pc, firstRead, logs, now, unlisted, collected,
               events, listed, atStart>>
vars == <<cluster, collector>>

-----------------------------------------------------------------------------
(* Logs. *)

evidenceLogReadCeiling == 4 * MaxBytes

Least(m, n) == IF m <= n THEN m ELSE n

(* The bytes of a log evidence holds: of instance, (from, to] of its size;  *)
(* the marker truncateTail puts in front of them is left out.               *)
(* Tail reads the last lines from their beginning, up to the ceiling.       *)
Tail_(log) ==
  [instance |-> log.instance, size |-> log.size, from |-> 0,
   to |-> Least(log.size, evidenceLogReadCeiling)]

truncateTailMutKeepsHead(out) == [out EXCEPT !.to = Least(@, MaxBytes)]

truncateTailMutNoLengthCheck(out) == [out EXCEPT !.from = out.to - MaxBytes]

truncateTail(out) ==
  [out EXCEPT !.from = IF out.to - out.from <= MaxBytes THEN @ ELSE out.to - MaxBytes]

(* The log the kubelet serves: of the last terminated instance, or of the   *)
(* current one, which in its back-off is the last terminated one again.     *)
ServedLog(previous) ==
  IF previous \/ container.state = "waiting" THEN container.last
                                            ELSE container.current

-----------------------------------------------------------------------------
(* Events. *)

(* The time the collector takes for an Event.  It does not look at series.  *)
eventTime(e) ==
  IF e.last # 0 THEN e.last
  ELSE IF e.time # 0 THEN e.time
  ELSE IF e.first # 0 THEN e.first
  ELSE e.created

Stale(e) == now > eventTime(e) + Window

ListFor(name) == {e \in recorded : e.object = name}

UIDs(S) == {e.uid : e \in S}

(* What the Events of one list add: none whose UID was seen, none stale.    *)
(* One list has one Event per UID.                                          *)
FreshMutNoWindow(items) == {e \in items : e.uid \notin UIDs(collected)}

Fresh(items) == {e \in items : e.uid \notin UIDs(collected) /\ ~Stale(e)}

(* The sort and the cut: the newest MaxEvents, ties in any order. *)
Newest(S) ==
  {K \in SUBSET S : /\ Cardinality(K) = Least(Cardinality(S), MaxEvents)
                    /\ \A k \in K, e \in S \ K : eventTime(k) >= eventTime(e)}

-----------------------------------------------------------------------------
(* Reconcile has seen the container in CrashLoopBackOff: its last instance  *)
(* has terminated, with its log or without.                                 *)

Logs(n) == [instance : {n}, size : Sizes]

Init ==
  /\ clock = 1
  /\ recorded = {}
  /\ container \in [state : {"waiting"}, instances : {1}, current : {NoLog},
                    last : Logs(1) \union {NoLog}]
  /\ wired \in SUBSET {"logs", "events"}
  /\ names \in Queries
  /\ pc = "start"
  /\ firstRead = ""
  /\ logs = NoLog
  /\ now = 0
  /\ unlisted = <<>>
  /\ collected = {}
  /\ events = {}
  /\ listed = {}
  /\ atStart = {}

-----------------------------------------------------------------------------
(* Collect. *)

(* Without a fetcher there are no logs, without a lister no Events; a nil   *)
(* collector has neither.                                                   *)
Start ==
  /\ pc = "start"
  /\ pc' = IF "logs" \in wired THEN "previous" ELSE "events"
  /\ atStart' = recorded
  /\ UNCHANGED <<cluster, wired, names, firstRead, logs, now, unlisted, collected,
                 events, listed>>

(* collectLogs asks for the previous instance first, and is content with a  *)
(* log that is not blank.                                                   *)
FirstLogMutCurrent == ServedLog(FALSE)

FirstLog == ServedLog(TRUE)

ReadPrevious ==
  /\ pc = "previous"
  /\ \/ /\ FirstLog # NoLog /\ FirstLog.size > 0
        /\ logs' = truncateTail(Tail_(FirstLog))
        /\ firstRead' = "text"
        /\ pc' = "events"
     \/ /\ \/ firstRead' = "failed"
           \/ FirstLog # NoLog /\ FirstLog.size = 0 /\ firstRead' = "blank"
        /\ pc' = "current"
        /\ UNCHANGED logs
  /\ UNCHANGED <<cluster, wired, names, now, unlisted, collected, events, listed, atStart>>

(* ... then for the current one, whatever it says. *)
ReadCurrent ==
  /\ pc = "current"
  /\ \/ /\ ServedLog(FALSE) # NoLog
        /\ logs' = truncateTail(Tail_(ServedLog(FALSE)))
     \/ UNCHANGED logs
  /\ pc' = "events"
  /\ UNCHANGED <<cluster, wired, names, firstRead, now, unlisted, collected, events,
                 listed, atStart>>

(* collectEvents takes the time before its first list. *)
BeginEvents ==
  /\ pc = "events"
  /\ IF "events" \in wired
     THEN now' = clock /\ unlisted' = names /\ pc' = "list"
     ELSE pc' = "done" /\ UNCHANGED <<now, unlisted>>
  /\ UNCHANGED <<cluster, wired, names, firstRead, logs, collected, events, listed, atStart>>

ListEvents ==
  /\ pc = "list" /\ unlisted # <<>>
  /\ collected' = collected \union Fresh(ListFor(Head(unlisted)))
  /\ listed' = listed \union {Head(unlisted)}
  /\ unlisted' = Tail(unlisted)
  /\ UNCHANGED <<cluster, wired, names, pc, firstRead, logs, now, events, atStart>>

(* A list that fails is logged and left out. *)
ListFailsMutReturns ==
  /\ pc = "list" /\ unlisted # <<>>
  /\ pc' = "done"
  /\ UNCHANGED <<cluster, wired, names, unlisted, firstRead, logs, now, collected, events,
                 listed, atStart>>

ListFails ==
  /\ pc = "list" /\ unlisted # <<>>
  /\ unlisted' = Tail(unlisted)
  /\ UNCHANGED <<cluster, wired, names, pc, firstRead, logs, now, collected, events,
                 listed, atStart>>

FinishEvents ==
  /\ pc = "list" /\ unlisted = <<>>
  /\ events' \in Newest(collected)
  /\ pc' = "done"
  /\ UNCHANGED <<cluster, wired, names, firstRead, logs, now, unlisted, collected, listed,
                 atStart>>

Collect == \/ Start \/ ReadPrevious \/ ReadCurrent
           \/ BeginEvents \/ ListEvents \/ ListFails \/ FinishEvents

-----------------------------------------------------------------------------
(* The cluster.  It never rests, but what Collect does not look at in a     *)
(* phase may as well happen after it: the container changes while its logs  *)
(* are read, Events and the clock before and after that.                    *)

LogsPending == pc \in {"previous", "current"}

EventsPending == "events" \in wired /\ pc \in {"start", "events", "list"}

(* A recorder creates an Event: the legacy one stamps lastTimestamp and     *)
(* firstTimestamp, events.k8s.io eventTime, some only the first or nothing. *)
Record(o, stamps) ==
  LET t == clock + IF stamps = "ahead" THEN Skew ELSE 0
  IN  /\ EventsPending /\ Cardinality(recorded) < MaxRecorded
      /\ recorded' = recorded \union
           {[uid |-> Cardinality(recorded) + 1, object |-> o, created |-> clock,
             last  |-> IF stamps \in {"legacy", "ahead"} THEN t ELSE 0,
             first |-> IF stamps \in {"legacy", "ahead", "first"} THEN t ELSE 0,
             time  |-> IF stamps = "event" THEN t ELSE 0, series |-> 0]}
      /\ UNCHANGED <<clock, container, collector>>

(* The same thing happens again, and is not recorded a second time: the     *)
(* legacy recorder moves lastTimestamp, ...                                 *)
HappensAgain(e, again) ==
  /\ EventsPending
  /\ recorded' = (recorded \ {e}) \union {again}
  /\ UNCHANGED <<clock, container, collector>>

Repeat(e) ==
  /\ e.last # 0 /\ e.last < clock
  /\ HappensAgain(e, [e EXCEPT !.last = clock])

(* ... the one of events.k8s.io moves series.lastObservedTime, and leaves   *)
(* eventTime as it was and lastTimestamp zero.                              *)
RepeatSeries(e) ==
  /\ e.last = 0 /\ e.time # 0 /\ e.time < clock /\ e.series < clock
  /\ HappensAgain(e, [e EXCEPT !.series = clock])

(* The container runs again, with some output already or none yet. *)
ContainerStarts ==
  /\ LogsPending /\ container.state = "waiting" /\ container.instances < MaxInstances
  /\ \E log \in Logs(container.instances + 1) :
       container' = [container EXCEPT !.state = "running", !.current = log,
                                      !.instances = @ + 1]
  /\ UNCHANGED <<clock, recorded, collector>>

(* It crashes: its status is terminated, lastState is still the one before. *)
ContainerCrashes ==
  /\ LogsPending /\ container.state = "running"
  /\ container' = [container EXCEPT !.state = "terminated"]
  /\ UNCHANGED <<clock, recorded, collector>>

(* The kubelet backs off and moves the terminated instance to lastState. *)
BackOff ==
  /\ LogsPending /\ container.state = "terminated"
  /\ container' = [container EXCEPT !.state = "waiting", !.last = container.current,
                                    !.current = NoLog]
  /\ UNCHANGED <<clock, recorded, collector>>

Tick ==
  /\ EventsPending /\ clock < MaxClock
  /\ clock' = clock + 1
  /\ UNCHANGED <<recorded, container, collector>>

Cluster ==
  \/ \E o \in Objects, stamps \in Stamps : Record(o, stamps)
  \/ \E e \in recorded : Repeat(e) \/ RepeatSeries(e)
  \/ ContainerStarts \/ ContainerCrashes \/ BackOff
  \/ Tick

Done == pc = "done" /\ UNCHANGED vars

Next == Collect \/ Cluster \/ Done

Spec == Init /\ [][Next]_vars

-----------------------------------------------------------------------------
(* Properties. *)

Event ==
  [uid : Nat, object : Objects, created : Nat, last : Nat, first : Nat, time : Nat,
   series : Nat]

Log == [instance : Nat, size : Nat]

LogEvidence == [instance : Nat, size : Nat, from : Nat, to : Nat]

(* Every variable holds a value of its type. *)
TypeOK ==
  /\ clock \in 1 .. MaxClock
  /\ recorded \subseteq Event
  /\ container \in [state : {"waiting", "running", "terminated"}, instances : Nat,
                    current : Log \union {NoLog}, last : Log \union {NoLog}]
  /\ wired \in SUBSET {"logs", "events"}
  /\ names \in Queries
  /\ pc \in {"start", "previous", "current", "events", "list", "done"}
  /\ firstRead \in {"", "text", "blank", "failed"}
  /\ logs \in LogEvidence \union {NoLog}
  /\ now \in 0 .. MaxClock
  /\ unlisted \in Seq(Objects)
  /\ collected \subseteq Event /\ events \subseteq Event
  /\ listed \subseteq Objects
  /\ atStart \subseteq Event

(* When an Event last happened: the newest time it carries. *)
LastHappened(e) ==
  LET stamps == {e.last, e.time, e.first, e.created, e.series}
  IN  CHOOSE t \in stamps : \A u \in stamps : t >= u

(* "Recency has to be enforced here": no Event of the bundle is older than  *)
(* the window at the moment collection began to list, so an old rollout     *)
(* cannot pass for a recent one, whichever timestamps its recorder set and  *)
(* however the lists interleave with repetitions.                           *)
EventsRecent ==
  \A e \in events : LastHappened(e) + Window >= now

(* An Event recorded when Collect began is not lost: if the list of its     *)
(* object succeeded and it happened within the window, it is in the bundle  *)
(* or the bundle is full of Events that happened no earlier.                *)
Kept(e) ==
  e.object \in listed /\ LastHappened(e) + Window >= now =>
    \/ e.uid \in UIDs(events)
    \/ /\ Cardinality(events) = MaxEvents
       /\ \A f \in events : LastHappened(f) >= LastHappened(e)

Unrepeated(e) == [e EXCEPT !.series = 0]

(* Best effort loses nothing it could have had, whichever other requests    *)
(* failed and whatever is recorded or repeated between the lists: every     *)
(* Event is kept, where one that was repeated as a series counts with its   *)
(* first time only.  That this loses recent ones is BothRecordersHandled.   *)
RecentEventKept == pc = "done" => \A e \in atStart : Kept(Unrepeated(e))

(* evidence.go:205-208, "Events written by the legacy core/v1 recorder      *)
(* populate LastTimestamp; the newer events.k8s.io path populates EventTime *)
(* and leaves LastTimestamp zero. Both kinds arrive here, so both have to   *)
(* be handled": a recent Event is kept whichever recorder repeated it.      *)
BothRecordersHandled == pc = "done" => \A e \in atStart : Kept(e)

(* "The logs that explain the crash belong to the terminated instance": a   *)
(* log is evidence of an instance that has terminated, even when the        *)
(* container restarts while Collect runs; only after the previous log was   *)
(* blank or unreadable can it be the one of an instance still running.      *)
LogsExplainCrash ==
  logs # NoLog =>
    \/ logs.instance < container.instances
    \/ container.state # "running"
    \/ firstRead \in {"blank", "failed"}

(* The last words of the process are kept as long as the requested lines    *)
(* fit under the read ceiling, and the log evidence has its bound.          *)
LastWordsKept ==
  logs # NoLog =>
    /\ logs.to - logs.from <= MaxBytes
    /\ logs.size <= evidenceLogReadCeiling => logs.to = logs.size

(* evidence.go:222-224, "The tail is kept rather than the head because a    *)
(* crash's cause - the panic, the connection error, the exit message - is   *)
(* written immediately before the process dies": the evidence holds the end *)
(* of the log, however long its lines are.                                  *)
LogEndKept == logs # NoLog => logs.to = logs.size

=============================================================================
