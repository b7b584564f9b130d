--------------------------- MODULE EvidenceProofs ---------------------------
(***************************************************************************)
(* Proofs about Evidence, for any objects, windows, sizes and recorders:   *)
(* what the bundle of one Collect holds, whatever the cluster does and     *)
(* whichever requests fail while it is put together.                       *)
(***************************************************************************)
EXTENDS Evidence, Extrema, TLAPS

-----------------------------------------------------------------------------
(* The inductive invariant: its part on Events ... *)

(* Recorders stamp an Event so that the timestamp the collector looks at    *)
(* first is the newest one.                                                 *)
Stamped(e) ==
  /\ e.last # 0 => e.last >= e.time /\ e.last >= e.first /\ e.last >= e.created
  /\ e.last = 0 /\ e.time # 0 => e.time >= e.first /\ e.time >= e.created
  /\ e.last = 0 /\ e.time = 0 /\ e.first # 0 => e.first >= e.created

(* The Events at the API server: finitely many, numbered, each once. *)
Numbered ==
  /\ IsFiniteSet(recorded)
  /\ \A e \in recorded : Stamped(e) /\ e.created <= clock
  /\ \A e \in recorded : e.uid \in 1 .. Cardinality(recorded)
  /\ \A e, f \in recorded : e.uid = f.uid => e = f

(* An Event is still recorded when it has happened again. *)
Again(e, f) == f.uid = e.uid /\ f.object = e.object /\ eventTime(f) >= eventTime(e)

Tracked == \A e \in atStart : Stamped(e) /\ \E f \in recorded : Again(e, f)

(* What is collected is recent and not older than what was there at the     *)
(* start, and every list that succeeded has added what was recent.          *)
KeptSoFar ==
  /\ IsFiniteSet(collected)
  /\ \A c \in collected : Stamped(c) /\ ~Stale(c)
  /\ \A c \in collected : \A e \in atStart : c.uid = e.uid => eventTime(c) >= eventTime(e)
  /\ pc = "list" =>
       \A e \in atStart :
         e.object \in listed /\ ~Stale(e) => e.uid \in UIDs(collected)

(* Nothing is collected before the lists, nothing is evidence before the    *)
(* end.                                                                     *)
NotYet ==
  /\ pc \notin {"list", "done"} => listed = {} /\ collected = {}
  /\ pc # "done" => events = {}
  /\ pc = "start" => atStart = {}

EventTypes ==
  /\ clock \in 1 .. MaxClock /\ now \in 0 .. MaxClock
  /\ recorded \subseteq Event /\ atStart \subseteq Event
  /\ collected \subseteq Event /\ events \subseteq Event
  /\ wired \in SUBSET {"logs", "events"}
  /\ names \in Queries
  /\ pc \in {"start", "previous", "current", "events", "list", "done"}
  /\ unlisted \in Seq(Objects) /\ listed \subseteq Objects

EventInv ==
  /\ EventTypes
  /\ Numbered /\ Tracked /\ KeptSoFar /\ NotYet
  /\ EventsRecent /\ RecentEventKept

(* ... and on logs. *)

(* The log of the last terminated instance is not the one of an instance    *)
(* that runs.                                                               *)
Instances ==
  /\ container.last # NoLog =>
       /\ container.last.instance <= container.instances
       /\ container.state # "waiting" => container.last.instance < container.instances
  /\ container.current # NoLog => container.current.instance <= container.instances

ReadSoFar ==
  /\ logs # NoLog => pc \in {"events", "list", "done"}
  /\ pc = "current" => firstRead \in {"blank", "failed"}

LogTypes ==
  /\ container \in [state : {"waiting", "running", "terminated"}, instances : Nat,
                    current : Log \union {NoLog}, last : Log \union {NoLog}]
  /\ firstRead \in {"", "text", "blank", "failed"}
  /\ logs \in LogEvidence \union {NoLog}

LogInv ==
  /\ LogTypes
  /\ Instances /\ ReadSoFar
  /\ LogsExplainCrash /\ LastWordsKept

IInv == EventInv /\ LogInv

-----------------------------------------------------------------------------
(* Timestamps. *)

(* The time the collector takes for an Event is one of its timestamps, and  *)
(* the newest when recorders stamp as they do and there is no series.       *)
LEMMA EventTimeFacts ==
  ASSUME NEW e \in Event
  PROVE  /\ eventTime(e) \in Nat /\ LastHappened(e) \in Nat
         /\ eventTime(e) <= LastHappened(e)
         /\ Stamped(e) /\ e.series = 0 => eventTime(e) = LastHappened(e)
<1> DEFINE stamps == {e.last, e.time, e.first, e.created, e.series}
           n == e.last + e.time + e.first + e.created + e.series
           id == [t \in stamps |-> t]
<1>1. /\ e.last \in Nat /\ e.time \in Nat /\ e.first \in Nat /\ e.created \in Nat
      /\ e.series \in Nat
  BY DEF Event
<1>2. eventTime(e) \in stamps /\ eventTime(e) \in Nat
  BY <1>1 DEF eventTime
<1>3. stamps # {} /\ n \in Nat /\ \A t \in stamps : t \in Nat /\ t <= n /\ id[t] = t
  BY <1>1
<1> HIDE DEF stamps, n, id
<1>4. \E t \in stamps : \A u \in stamps : id[u] <= id[t]
  <2>1. (\A t \in stamps : id[t] \in Nat) /\ (\A t \in stamps : id[t] <= n)
    BY <1>3
  <2>2. stamps # {} /\ n \in Nat
    BY <1>3
  <2>3. QED
    BY <2>1, <2>2, MaxExists, Zenon
<1>5. \E t \in stamps : \A u \in stamps : t >= u
  BY <1>3, <1>4
<1>6. LastHappened(e) \in stamps /\ \A u \in stamps : LastHappened(e) >= u
  BY <1>5 DEF LastHappened, stamps
<1>7. LastHappened(e) \in Nat
  BY <1>3, <1>6
<1>8. eventTime(e) <= LastHappened(e)
  BY <1>2, <1>6, <1>7
<1>9. ASSUME Stamped(e), e.series = 0
      PROVE  eventTime(e) = LastHappened(e)
  <2>1. \A u \in stamps : eventTime(e) >= u
    BY <1>1, <1>9 DEF Stamped, eventTime, stamps
  <2>2. eventTime(e) >= LastHappened(e)
    BY <1>6, <2>1
  <2>3. QED
    BY <1>2, <1>7, <1>8, <2>2
<1>10. QED
  BY <1>2, <1>7, <1>8, <1>9

(* Without its series an Event is the same to the collector, which then     *)
(* takes the time it last happened.                                         *)
LEMMA UnrepeatedFacts ==
  ASSUME NEW e \in Event, Stamped(e)
  PROVE  /\ Unrepeated(e) \in Event
         /\ Unrepeated(e).uid = e.uid /\ Unrepeated(e).object = e.object
         /\ LastHappened(Unrepeated(e)) = eventTime(e)
<1>1. PICK d : d = Unrepeated(e)
  OBVIOUS
<1>2. /\ d \in Event /\ d.uid = e.uid /\ d.object = e.object /\ d.series = 0
      /\ d.last = e.last /\ d.time = e.time /\ d.first = e.first /\ d.created = e.created
  BY <1>1 DEF Unrepeated, Event
<1>3. Stamped(d) /\ eventTime(d) = eventTime(e)
  BY <1>2 DEF Stamped, eventTime
<1>4. LastHappened(d) = eventTime(d)
  BY <1>2, <1>3, EventTimeFacts
<1>5. QED
  BY <1>1, <1>2, <1>3, <1>4

LEMMA Bounds ==
  /\ Window \in Nat /\ MaxEvents \in Nat /\ MaxBytes \in Nat /\ Skew \in Nat
  /\ MaxClock \in Nat \ {0} /\ Queries \subseteq Seq(Objects) /\ Sizes \subseteq Nat
  BY EvidenceAssumption

-----------------------------------------------------------------------------
(* The Events. *)

(* Steps that Events have no part in. *)
LEMMA EventsQuiet ==
  ASSUME EventInv,
         UNCHANGED <<clock, recorded, now, unlisted, collected, events, listed, atStart,
                     wired, names>>,
         \/ pc' = pc
         \/ pc \in {"previous", "current"} /\ pc' \in {"current", "events"}
  PROVE  EventInv'
<1>1. EventTypes'
  BY DEF EventInv, EventTypes
<1>2. Numbered'
  BY DEF EventInv, Numbered
<1>3. Tracked' /\ EventsRecent'
  BY DEF EventInv, Tracked, EventsRecent
<1>4. KeptSoFar' /\ NotYet'
  BY DEF EventInv, KeptSoFar, NotYet, Stale
<1>5. RecentEventKept'
  BY DEF EventInv, RecentEventKept, Kept
<1>6. QED
  BY <1>1, <1>2, <1>3, <1>4, <1>5 DEF EventInv

LEMMA StartStep ==
  ASSUME EventInv, Start
  PROVE  EventInv'
<1>1. /\ pc = "start" /\ pc' \in {"previous", "events"} /\ atStart' = recorded
      /\ UNCHANGED <<clock, recorded, wired, names, now, unlisted, collected, events, listed>>
  BY DEF Start, cluster
<1>2. EventTypes'
  BY <1>1 DEF EventInv, EventTypes
<1>3. listed = {} /\ collected = {} /\ events = {}
  BY <1>1 DEF EventInv, NotYet
<1>4. Numbered' /\ EventsRecent' /\ NotYet'
  BY <1>1, <1>3 DEF EventInv, Numbered, EventsRecent, NotYet
<1>5. KeptSoFar' /\ RecentEventKept'
  BY <1>1, <1>3 DEF EventInv, KeptSoFar, RecentEventKept, Kept
<1>6. Tracked'
  <2>1. \A e \in recorded : eventTime(e) \in Nat
    BY EventTimeFacts DEF EventInv, EventTypes
  <2>2. \A e \in recorded : Stamped(e) /\ Again(e, e)
    BY <2>1 DEF EventInv, Numbered, Again
  <2>3. QED
    BY <1>1, <2>2 DEF Tracked
<1>7. QED
  BY <1>2, <1>4, <1>5, <1>6 DEF EventInv

LEMMA BeginStep ==
  ASSUME EventInv, BeginEvents
  PROVE  EventInv'
<1>1. /\ pc = "events" /\ pc' \in {"list", "done"}
      /\ \/ now' = clock /\ unlisted' = names
         \/ UNCHANGED <<now, unlisted>>
      /\ UNCHANGED <<clock, recorded, wired, names, collected, events, listed, atStart>>
  BY DEF BeginEvents, cluster
<1>2. listed = {} /\ collected = {} /\ events = {}
  BY <1>1 DEF EventInv, NotYet
<1>3. EventTypes'
  <2>1. clock \in 1 .. MaxClock /\ now \in 0 .. MaxClock
    BY DEF EventInv, EventTypes
  <2>2. clock \in 0 .. MaxClock
    BY <2>1, Bounds
  <2>3. now' \in 0 .. MaxClock /\ unlisted' \in Seq(Objects)
    BY <1>1, <2>1, <2>2, Bounds DEF EventInv, EventTypes
  <2>4. QED
    BY <1>1, <2>3 DEF EventInv, EventTypes
<1>4. Numbered' /\ Tracked' /\ NotYet' /\ EventsRecent'
  BY <1>1, <1>2 DEF EventInv, Numbered, Tracked, NotYet, EventsRecent
<1>5. KeptSoFar' /\ RecentEventKept'
  BY <1>1, <1>2 DEF EventInv, KeptSoFar, RecentEventKept, Kept
<1>6. QED
  BY <1>3, <1>4, <1>5 DEF EventInv

LEMMA SubsetIsFinite ==
  ASSUME NEW S, IsFiniteSet(S), NEW T, T \subseteq S
  PROVE  IsFiniteSet(T)
  BY FS_Subset

LEMMA ListStep ==
  ASSUME EventInv, ListEvents
  PROVE  EventInv'
<1> DEFINE name == Head(unlisted)
           fresh == Fresh(ListFor(name))
<1>1. /\ pc = "list" /\ unlisted # <<>> /\ collected' = collected \union fresh
      /\ listed' = listed \union {name} /\ unlisted' = Tail(unlisted)
      /\ UNCHANGED <<clock, recorded, wired, names, pc, now, events, atStart>>
  BY DEF ListEvents, cluster
<1>2. unlisted \in Seq(Objects) /\ recorded \subseteq Event /\ collected \subseteq Event
  BY DEF EventInv, EventTypes
<1>3. name \in Objects /\ unlisted' \in Seq(Objects)
  BY <1>1, <1>2
<1>4. fresh \subseteq recorded /\ \A c \in fresh : ~Stale(c)
  BY DEF Fresh, ListFor
<1>5. EventTypes'
  BY <1>1, <1>2, <1>3, <1>4 DEF EventInv, EventTypes
<1>6. Numbered' /\ Tracked' /\ NotYet' /\ EventsRecent' /\ RecentEventKept'
  BY <1>1 DEF EventInv, Numbered, Tracked, NotYet, EventsRecent, RecentEventKept, Kept
<1>7. ASSUME NEW f \in recorded, NEW e \in atStart, f.uid = e.uid
      PROVE  Again(e, f)
  <2>1. PICK g \in recorded : Again(e, g)
    BY DEF EventInv, Tracked
  <2>2. g = f
    BY <1>7, <2>1 DEF Again, EventInv, Numbered
  <2>3. QED
    BY <2>1, <2>2
<1>8. KeptSoFar'
  <2>1. IsFiniteSet(collected')
    <3>1. IsFiniteSet(fresh) /\ IsFiniteSet(collected)
      BY <1>4, SubsetIsFinite DEF EventInv, Numbered, KeptSoFar
    <3>2. QED
      BY <1>1, <3>1, FS_Union
  <2>2. \A c \in collected' : Stamped(c) /\ ~Stale(c)
    BY <1>1, <1>4 DEF EventInv, Numbered, KeptSoFar
  <2>3. \A c \in collected' : \A e \in atStart : c.uid = e.uid => eventTime(c) >= eventTime(e)
    BY <1>1, <1>4, <1>7 DEF EventInv, KeptSoFar, Again
  <2>4. ASSUME NEW e \in atStart, e.object \in listed', ~Stale(e)
        PROVE  e.uid \in UIDs(collected')
    <3>1. CASE e.object \in listed
      BY <1>1, <2>4, <3>1 DEF EventInv, KeptSoFar, UIDs
    <3>2. CASE e.object = name
      <4>1. PICK f \in recorded : Again(e, f)
        BY DEF EventInv, Tracked
      <4>2. f.uid = e.uid /\ f \in ListFor(name) /\ eventTime(f) >= eventTime(e)
        BY <3>2, <4>1 DEF Again, ListFor
      <4>3. ~Stale(f)
        <5>1. /\ eventTime(f) \in Nat /\ eventTime(e) \in Nat /\ now \in Nat
              /\ ~(now > eventTime(e) + Window)
          <6>1. e \in Event /\ f \in Event /\ now \in 0 .. MaxClock
            BY <1>2 DEF EventInv, EventTypes
          <6>2. QED
            BY <2>4, <6>1, EventTimeFacts DEF Stale
        <5>2. ~(now > eventTime(f) + Window)
          BY <4>2, <5>1, Bounds
        <5>3. QED
          BY <5>2 DEF Stale
      <4>4. f.uid \in UIDs(collected) \/ f \in fresh
        BY <4>2, <4>3 DEF Fresh
      <4>5. QED
        BY <1>1, <4>2, <4>4 DEF UIDs
    <3>3. QED
      BY <1>1, <2>4, <3>1, <3>2
  <2>5. QED
    BY <1>1, <2>1, <2>2, <2>3, <2>4 DEF KeptSoFar, Stale
<1>9. QED
  BY <1>5, <1>6, <1>8 DEF EventInv

LEMMA ListFailsStep ==
  ASSUME EventInv, ListFails
  PROVE  EventInv'
<1>1. /\ pc = "list" /\ unlisted # <<>> /\ unlisted' = Tail(unlisted)
      /\ UNCHANGED <<clock, recorded, wired, names, pc, now, collected, events, listed, atStart>>
  BY DEF ListFails, cluster
<1>2. unlisted' \in Seq(Objects)
  BY <1>1 DEF EventInv, EventTypes
<1>3. EventTypes'
  BY <1>1, <1>2 DEF EventInv, EventTypes
<1>4. Numbered' /\ Tracked' /\ NotYet' /\ EventsRecent' /\ RecentEventKept'
  BY <1>1 DEF EventInv, Numbered, Tracked, NotYet, EventsRecent, RecentEventKept, Kept
<1>5. KeptSoFar'
  BY <1>1 DEF EventInv, KeptSoFar, Stale
<1>6. QED
  BY <1>3, <1>4, <1>5 DEF EventInv

(* The cut leaves an Event out only for newer ones. *)
LEMMA FinishStep ==
  ASSUME EventInv, FinishEvents
  PROVE  EventInv'
<1>1. /\ pc = "list" /\ pc' = "done" /\ events' \in Newest(collected)
      /\ UNCHANGED <<clock, recorded, wired, names, now, unlisted, collected, listed, atStart>>
  BY DEF FinishEvents, cluster
<1>2. /\ events' \subseteq collected
      /\ Cardinality(events') = Least(Cardinality(collected), MaxEvents)
      /\ \A k \in events' : \A e \in collected \ events' : eventTime(k) >= eventTime(e)
  BY <1>1 DEF Newest
<1>3. collected \subseteq Event /\ atStart \subseteq Event /\ now \in 0 .. MaxClock
  BY DEF EventInv, EventTypes
<1>4. EventTypes'
  BY <1>1, <1>2, <1>3 DEF EventInv, EventTypes
<1>5. Numbered' /\ Tracked' /\ NotYet'
  BY <1>1 DEF EventInv, Numbered, Tracked, NotYet
<1>6. KeptSoFar'
  BY <1>1 DEF EventInv, KeptSoFar, Stale
<1>7. EventsRecent'
  <2>1. ASSUME NEW e \in events'
        PROVE  LastHappened(e) + Window >= now
    <3>1. e \in Event /\ e \in collected
      BY <1>2, <1>3
    <3>2. /\ eventTime(e) \in Nat /\ LastHappened(e) \in Nat
          /\ eventTime(e) <= LastHappened(e)
      BY <3>1, EventTimeFacts
    <3>3. ~(now > eventTime(e) + Window)
      BY <3>1 DEF EventInv, KeptSoFar, Stale
    <3>4. now \in Nat
      BY <1>3
    <3>5. QED
      BY <3>2, <3>3, <3>4, Bounds
  <2>2. QED
    BY <1>1, <2>1 DEF EventsRecent
<1>8. RecentEventKept'
  <2>1. ASSUME NEW e \in atStart, NEW d, d = Unrepeated(e), d.object \in listed,
               LastHappened(d) + Window >= now, d.uid \notin UIDs(events')
        PROVE  /\ Cardinality(events') = MaxEvents
               /\ \A f \in events' : LastHappened(f) >= LastHappened(d)
    <3>1. e \in Event /\ Stamped(e)
      BY <1>3 DEF EventInv, Tracked
    <3>2. /\ eventTime(e) = LastHappened(d) /\ eventTime(e) \in Nat
          /\ d.uid = e.uid /\ d.object = e.object
      BY <2>1, <3>1, EventTimeFacts, UnrepeatedFacts
    <3>3. ~Stale(e)
      <4>1. now \in Nat /\ eventTime(e) + Window >= now
        BY <1>3, <2>1, <3>2
      <4>2. QED
        BY <3>2, <4>1, Bounds DEF Stale
    <3>4. PICK c \in collected : c.uid = e.uid
      BY <1>1, <2>1, <3>2, <3>3 DEF EventInv, KeptSoFar, UIDs
    <3>5. c \notin events' /\ eventTime(c) >= eventTime(e)
      BY <2>1, <3>2, <3>4 DEF EventInv, KeptSoFar, UIDs
    <3>6. Cardinality(events') < Cardinality(collected)
          /\ Cardinality(events') \in Nat /\ Cardinality(collected) \in Nat
      <4>1. IsFiniteSet(collected)
        BY DEF EventInv, KeptSoFar
      <4>2. events' # collected
        BY <3>5
      <4>3. QED
        BY <1>2, <4>1, <4>2, FS_Subset, FS_CardinalityType
    <3>7. Cardinality(events') = MaxEvents
      BY <1>2, <3>6, Bounds DEF Least
    <3>8. ASSUME NEW f \in events'
          PROVE  LastHappened(f) >= LastHappened(d)
      <4>1. f \in Event /\ c \in Event
        BY <1>2, <1>3
      <4>2. /\ eventTime(f) \in Nat /\ LastHappened(f) \in Nat /\ eventTime(c) \in Nat
            /\ eventTime(f) <= LastHappened(f)
        BY <4>1, EventTimeFacts
      <4>3. eventTime(f) >= eventTime(c)
        BY <1>2, <3>5
      <4>4. QED
        BY <3>2, <3>5, <4>2, <4>3
    <3>9. QED
      BY <3>7, <3>8
  <2>2. QED
    BY <1>1, <2>1 DEF RecentEventKept, Kept, UIDs
<1>9. QED
  BY <1>4, <1>5, <1>6, <1>7, <1>8 DEF EventInv

(* The API server records an Event, or that one happened again. *)
LEMMA RecordedStep ==
  ASSUME EventInv, recorded' \subseteq Event, Numbered',
         \A f \in recorded : \E g \in recorded' : Again(f, g),
         UNCHANGED <<clock, now, unlisted, collected, events, listed, atStart, wired, names,
                     pc>>
  PROVE  EventInv'
<1>1. EventTypes'
  BY DEF EventInv, EventTypes
<1>2. KeptSoFar' /\ NotYet' /\ EventsRecent' /\ RecentEventKept'
  BY DEF EventInv, KeptSoFar, Stale, NotYet, EventsRecent, RecentEventKept, Kept
<1>3. Tracked'
  <2>1. ASSUME NEW e \in atStart
        PROVE  Stamped(e) /\ \E g \in recorded' : Again(e, g)
    <3>1. PICK f \in recorded : Again(e, f)
      BY DEF EventInv, Tracked
    <3>2. PICK g \in recorded' : Again(f, g)
      OBVIOUS
    <3>3. e \in Event /\ f \in Event /\ g \in Event
      BY DEF EventInv, EventTypes
    <3>4. eventTime(e) \in Nat /\ eventTime(f) \in Nat /\ eventTime(g) \in Nat
      BY <3>3, EventTimeFacts
    <3>5. eventTime(f) >= eventTime(e) /\ eventTime(g) >= eventTime(f)
      BY <3>1, <3>2 DEF Again
    <3>6. eventTime(g) >= eventTime(e)
      BY <3>4, <3>5
    <3>7. QED
      BY <3>1, <3>2, <3>6 DEF Again, EventInv, Tracked
  <2>2. QED
    BY <2>1 DEF Tracked
<1>4. QED
  BY <1>1, <1>2, <1>3 DEF EventInv

LEMMA RecordStep ==
  ASSUME EventInv, NEW o \in Objects, NEW stamps, Record(o, stamps)
  PROVE  EventInv'
<1> DEFINE t == clock + IF stamps = "ahead" THEN Skew ELSE 0
           n == Cardinality(recorded)
           e == [uid |-> n + 1, object |-> o, created |-> clock,
                 last  |-> IF stamps \in {"legacy", "ahead"} THEN t ELSE 0,
                 first |-> IF stamps \in {"legacy", "ahead", "first"} THEN t ELSE 0,
                 time  |-> IF stamps = "event" THEN t ELSE 0, series |-> 0]
<1>1. /\ recorded' = recorded \union {e}
      /\ UNCHANGED <<clock, now, unlisted, collected, events, listed, atStart, wired, names,
                     pc>>
  BY DEF Record, collector
<1>2. recorded \subseteq Event /\ clock \in 1 .. MaxClock
  BY DEF EventInv, EventTypes
<1>3. IsFiniteSet(recorded) /\ n \in Nat
  BY FS_CardinalityType DEF EventInv, Numbered
<1>4. clock \in Nat /\ t \in Nat /\ t >= clock /\ clock # 0
  BY <1>2, Bounds
<1> HIDE DEF t, n
<1>5. /\ e.uid = n + 1 /\ e.object = o /\ e.created = clock
      /\ e.last = (IF stamps \in {"legacy", "ahead"} THEN t ELSE 0)
      /\ e.first = (IF stamps \in {"legacy", "ahead", "first"} THEN t ELSE 0)
      /\ e.time = (IF stamps = "event" THEN t ELSE 0) /\ e.series = 0
  OBVIOUS
<1>6. e \in Event
  BY <1>3, <1>4 DEF Event
<1> HIDE DEF e
<1>7. Stamped(e) /\ e.created <= clock
  BY <1>4, <1>5 DEF Stamped
<1>8. \A f \in recorded : f.uid \in 1 .. n
  BY DEF EventInv, Numbered, n
<1>9. e \notin recorded
  BY <1>3, <1>5, <1>8
<1>10. IsFiniteSet(recorded') /\ Cardinality(recorded') = n + 1
  BY <1>1, <1>3, <1>9, FS_AddElement DEF n
<1>11. Numbered'
  <2>1. \A f \in recorded' : Stamped(f) /\ f.created <= clock
    BY <1>1, <1>7 DEF EventInv, Numbered
  <2>2. \A f \in recorded' : f.uid \in 1 .. n + 1
    BY <1>1, <1>3, <1>5, <1>8
  <2>3. \A f, g \in recorded' : f.uid = g.uid => f = g
    <3>1. \A f, g \in recorded : f.uid = g.uid => f = g
      BY DEF EventInv, Numbered
    <3>2. \A f \in recorded : f.uid # e.uid
      BY <1>3, <1>5, <1>8
    <3>3. QED
      BY <1>1, <3>1, <3>2
  <2>4. QED
    BY <1>1, <1>10, <2>1, <2>2, <2>3 DEF Numbered
<1>12. \A f \in recorded : \E g \in recorded' : Again(f, g)
  <2>1. \A f \in recorded : eventTime(f) \in Nat
    BY <1>2, EventTimeFacts
  <2>2. \A f \in recorded : Again(f, f) /\ f \in recorded'
    BY <1>1, <2>1 DEF Again
  <2>3. QED
    BY <2>2
<1>13. recorded' \subseteq Event
  BY <1>1, <1>2, <1>6
<1>14. QED
  BY <1>1, <1>11, <1>12, <1>13, RecordedStep

(* An Event is replaced by itself, happened again. *)
LEMMA AgainStep ==
  ASSUME EventInv, NEW e \in recorded, NEW again \in Event, HappensAgain(e, again),
         Again(e, again), Stamped(again), again.created = e.created
  PROVE  EventInv'
<1> DEFINE rest == recorded \ {e}
<1>1. /\ recorded' = rest \union {again}
      /\ UNCHANGED <<clock, now, unlisted, collected, events, listed, atStart, wired, names,
                     pc>>
  BY DEF HappensAgain, collector
<1> HIDE DEF rest
<1>2. recorded \subseteq Event
  BY DEF EventInv, EventTypes
<1>3. again.uid = e.uid /\ again.created <= clock
  BY DEF Again, EventInv, Numbered
<1>4. \A f, g \in recorded : f.uid = g.uid => f = g
  BY DEF EventInv, Numbered
<1>5. again \notin rest
  BY <1>3, <1>4 DEF rest
<1>6. IsFiniteSet(recorded') /\ Cardinality(recorded') = Cardinality(recorded)
  <2>1. IsFiniteSet(recorded) /\ Cardinality(recorded) \in Nat
    BY FS_CardinalityType DEF EventInv, Numbered
  <2>2. IsFiniteSet(rest) /\ Cardinality(rest) = Cardinality(recorded) - 1
    BY <2>1, FS_RemoveElement DEF rest
  <2>3. IsFiniteSet(recorded') /\ Cardinality(recorded') = Cardinality(rest) + 1
    BY <1>1, <1>5, <2>2, FS_AddElement
  <2>4. QED
    BY <2>1, <2>2, <2>3
<1>7. Numbered'
  <2>1. \A f \in rest : f \in recorded /\ f # e
    BY DEF rest
  <2>2. \A f \in recorded' : Stamped(f) /\ f.created <= clock
    BY <1>1, <1>3, <2>1 DEF EventInv, Numbered
  <2>3. \A f \in recorded' : f.uid \in 1 .. Cardinality(recorded)
    BY <1>1, <1>3, <2>1 DEF EventInv, Numbered
  <2>4. \A f \in rest : f.uid # again.uid
    BY <1>3, <1>4, <2>1
  <2>5. \A f, g \in recorded' : f.uid = g.uid => f = g
    BY <1>1, <1>4, <2>1, <2>4
  <2>6. QED
    BY <1>1, <1>6, <2>2, <2>3, <2>5 DEF Numbered
<1>8. \A f \in recorded : \E g \in recorded' : Again(f, g)
  <2>1. \A f \in recorded : eventTime(f) \in Nat
    BY <1>2, EventTimeFacts
  <2>2. \A f \in recorded : Again(f, f)
    BY <2>1 DEF Again
  <2>3. \A f \in recorded : f = e \/ f \in recorded'
    BY <1>1 DEF rest
  <2>4. again \in recorded'
    BY <1>1
  <2>5. QED
    BY <2>2, <2>3, <2>4
<1>9. recorded' \subseteq Event
  BY <1>1, <1>2 DEF rest
<1>10. QED
  BY <1>1, <1>7, <1>8, <1>9, RecordedStep

(* The legacy recorder makes an Event newer, a series leaves it as old as   *)
(* it was to the collector.                                                 *)
LEMMA RepeatStep ==
  ASSUME EventInv, NEW e \in recorded, Repeat(e) \/ RepeatSeries(e)
  PROVE  EventInv'
<1>1. recorded \subseteq Event /\ clock \in 1 .. MaxClock
  BY DEF EventInv, EventTypes
<1>2. clock \in Nat /\ clock # 0 /\ e \in Event
  BY <1>1, Bounds
<1>3. /\ e.last \in Nat /\ e.time \in Nat /\ e.first \in Nat /\ e.created \in Nat
  BY <1>2 DEF Event
<1>4. Stamped(e) /\ e.created <= clock
  BY DEF EventInv, Numbered
<1>5. CASE Repeat(e)
  <2>1. PICK again : again = [e EXCEPT !.last = clock]
    OBVIOUS
  <2>2. e.last # 0 /\ e.last < clock /\ HappensAgain(e, again)
    BY <1>5, <2>1 DEF Repeat
  <2>3. /\ again \in Event /\ again.uid = e.uid /\ again.object = e.object
        /\ again.created = e.created /\ again.last = clock /\ again.first = e.first
        /\ again.time = e.time
    BY <1>2, <2>1 DEF Event
  <2>4. Stamped(again)
    <3>1. e.last >= e.time /\ e.last >= e.first
      BY <1>4, <2>2 DEF Stamped
    <3>2. clock >= e.time /\ clock >= e.first /\ clock >= e.created
      BY <1>2, <1>3, <1>4, <2>2, <3>1
    <3>3. QED
      BY <1>2, <2>3, <3>2 DEF Stamped
  <2>5. eventTime(again) = clock /\ eventTime(e) = e.last
    BY <1>2, <2>2, <2>3 DEF eventTime
  <2>6. Again(e, again)
    BY <1>2, <1>3, <2>2, <2>3, <2>5 DEF Again
  <2>7. QED
    BY <2>2, <2>3, <2>4, <2>6, AgainStep
<1>6. CASE RepeatSeries(e)
  <2>1. PICK again : again = [e EXCEPT !.series = clock]
    OBVIOUS
  <2>2. HappensAgain(e, again)
    BY <1>6, <2>1 DEF RepeatSeries
  <2>3. /\ again \in Event /\ again.uid = e.uid /\ again.object = e.object
        /\ again.created = e.created /\ again.last = e.last /\ again.first = e.first
        /\ again.time = e.time
    BY <1>2, <2>1 DEF Event
  <2>4. Stamped(again) /\ eventTime(again) = eventTime(e)
    BY <1>4, <2>3 DEF Stamped, eventTime
  <2>5. eventTime(e) \in Nat
    BY <1>2, EventTimeFacts
  <2>6. Again(e, again)
    BY <2>3, <2>4, <2>5 DEF Again
  <2>7. QED
    BY <2>2, <2>3, <2>4, <2>6, AgainStep
<1>7. QED
  BY <1>5, <1>6

LEMMA TickStep ==
  ASSUME EventInv, Tick
  PROVE  EventInv'
<1>1. /\ clock' = clock + 1 /\ clock < MaxClock
      /\ UNCHANGED <<recorded, now, unlisted, collected, events, listed, atStart, wired, names,
                     pc>>
  BY DEF Tick, collector
<1>2. clock \in 1 .. MaxClock /\ recorded \subseteq Event
  BY DEF EventInv, EventTypes
<1>3. clock' \in 1 .. MaxClock
  BY <1>1, <1>2, Bounds
<1>4. EventTypes'
  BY <1>1, <1>3 DEF EventInv, EventTypes
<1>5. \A e \in recorded : e.created <= clock'
  <2>1. ASSUME NEW e \in recorded
        PROVE  e.created <= clock + 1
    <3>1. e.created \in Nat /\ e.created <= clock /\ clock \in Nat
      BY <1>2 DEF Event, EventInv, Numbered
    <3>2. QED
      BY <3>1
  <2>2. QED
    BY <1>1, <2>1
<1>6. Numbered'
  BY <1>1, <1>5 DEF EventInv, Numbered
<1>7. Tracked' /\ NotYet' /\ EventsRecent' /\ RecentEventKept'
  BY <1>1 DEF EventInv, Tracked, NotYet, EventsRecent, RecentEventKept, Kept
<1>8. KeptSoFar'
  BY <1>1 DEF EventInv, KeptSoFar, Stale
<1>9. QED
  BY <1>4, <1>6, <1>7, <1>8 DEF EventInv

-----------------------------------------------------------------------------
(* The logs. *)

(* Steps that logs have no part in. *)
LEMMA LogsQuiet ==
  ASSUME LogInv, UNCHANGED <<container, firstRead, logs>>,
         \/ pc' = pc
         \/ pc = "start" /\ pc' \in {"previous", "events"}
         \/ pc' \in {"list", "done"}
  PROVE  LogInv'
<1>1. LogTypes' /\ Instances'
  BY DEF LogInv, LogTypes, Instances
<1>2. ReadSoFar'
  BY DEF LogInv, ReadSoFar
<1>3. LogsExplainCrash' /\ LastWordsKept'
  BY DEF LogInv, LogsExplainCrash, LastWordsKept
<1>4. QED
  BY <1>1, <1>2, <1>3 DEF LogInv

(* What the two truncations leave of a log: its end, up to the bound, as    *)
(* long as the first one has not cut the end off.                           *)
LEMMA TailFacts ==
  ASSUME NEW log \in Log
  PROVE  LET kept == truncateTail(Tail_(log))
         IN  /\ kept \in LogEvidence /\ kept.instance = log.instance
             /\ kept.to - kept.from <= MaxBytes
             /\ kept.size <= evidenceLogReadCeiling => kept.to = kept.size
<1> DEFINE read == Least(log.size, evidenceLogReadCeiling)
           from == IF read - 0 <= MaxBytes THEN 0 ELSE read - MaxBytes
           kept == [instance |-> log.instance, size |-> log.size, from |-> from, to |-> read]
<1>1. log.instance \in Nat /\ log.size \in Nat /\ MaxBytes \in Nat
  BY Bounds DEF Log
<1>2. evidenceLogReadCeiling \in Nat
  BY <1>1 DEF evidenceLogReadCeiling
<1>3. read \in Nat /\ (log.size <= evidenceLogReadCeiling => read = log.size)
  BY <1>1, <1>2 DEF Least
<1> HIDE DEF read
<1>4. from \in Nat /\ read - from <= MaxBytes
  BY <1>1, <1>3
<1>5. truncateTail(Tail_(log)) = kept
  BY DEF truncateTail, Tail_, read
<1> HIDE DEF from
<1>6. kept \in LogEvidence
  BY <1>1, <1>3, <1>4 DEF LogEvidence
<1>7. QED
  BY <1>3, <1>4, <1>5, <1>6

LEMMA ServedFacts ==
  ASSUME LogInv
  PROVE  /\ container.last \in Log \union {NoLog} /\ container.current \in Log \union {NoLog}
         /\ container.instances \in Nat
         /\ container.state \in {"waiting", "running", "terminated"}
         /\ FirstLog = container.last
         /\ ServedLog(FALSE) \in Log \union {NoLog}
<1>1. /\ container.last \in Log \union {NoLog} /\ container.current \in Log \union {NoLog}
      /\ container.instances \in Nat
      /\ container.state \in {"waiting", "running", "terminated"}
  BY DEF LogInv, LogTypes
<1>2. QED
  BY <1>1 DEF FirstLog, ServedLog

LEMMA PreviousStep ==
  ASSUME LogInv, ReadPrevious
  PROVE  LogInv'
<1>1. /\ pc = "previous" /\ container' = container
      /\ \/ /\ FirstLog # NoLog /\ logs' = truncateTail(Tail_(FirstLog))
            /\ firstRead' = "text" /\ pc' = "events"
         \/ firstRead' \in {"blank", "failed"} /\ pc' = "current" /\ logs' = logs
  BY DEF ReadPrevious, cluster
<1>2. Instances'
  BY <1>1 DEF LogInv, Instances
<1>3. CASE firstRead' \in {"blank", "failed"} /\ pc' = "current" /\ logs' = logs
  <2>1. logs = NoLog
    BY <1>1 DEF LogInv, ReadSoFar
  <2>2. LogTypes'
    BY <1>1, <1>3 DEF LogInv, LogTypes
  <2>3. ReadSoFar' /\ LogsExplainCrash' /\ LastWordsKept'
    BY <1>3, <2>1 DEF ReadSoFar, LogsExplainCrash, LastWordsKept
  <2>4. QED
    BY <1>2, <2>2, <2>3 DEF LogInv
<1>4. CASE /\ FirstLog # NoLog /\ logs' = truncateTail(Tail_(FirstLog))
           /\ firstRead' = "text" /\ pc' = "events"
  <2>1. FirstLog \in Log /\ FirstLog = container.last
    BY <1>4, ServedFacts
  <2>2. /\ logs' \in LogEvidence /\ logs'.instance = container.last.instance
        /\ logs'.to - logs'.from <= MaxBytes
        /\ logs'.size <= evidenceLogReadCeiling => logs'.to = logs'.size
    BY <1>4, <2>1, TailFacts
  <2>3. LogTypes'
    BY <1>1, <1>4, <2>2 DEF LogInv, LogTypes
  <2>4. ReadSoFar' /\ LastWordsKept'
    BY <1>4, <2>2 DEF ReadSoFar, LastWordsKept, evidenceLogReadCeiling
  <2>5. container.state = "running" => container.last.instance < container.instances
    BY <1>4, <2>1 DEF LogInv, Instances
  <2>6. LogsExplainCrash'
    BY <1>1, <2>2, <2>5 DEF LogsExplainCrash
  <2>7. QED
    BY <1>2, <2>3, <2>4, <2>6 DEF LogInv
<1>5. QED
  BY <1>1, <1>3, <1>4

LEMMA CurrentStep ==
  ASSUME LogInv, ReadCurrent
  PROVE  LogInv'
<1>1. /\ pc = "current" /\ pc' = "events" /\ UNCHANGED <<container, firstRead>>
      /\ \/ /\ ServedLog(FALSE) # NoLog
            /\ logs' = truncateTail(Tail_(ServedLog(FALSE)))
         \/ logs' = logs
  BY DEF ReadCurrent, cluster
<1>2. firstRead' \in {"blank", "failed"} /\ logs = NoLog
  BY <1>1 DEF LogInv, ReadSoFar
<1>3. \/ logs' = NoLog
      \/ /\ logs' \in LogEvidence
         /\ logs'.to - logs'.from <= MaxBytes
         /\ logs'.size <= evidenceLogReadCeiling => logs'.to = logs'.size
  <2>1. CASE logs' = logs
    BY <1>2, <2>1
  <2>2. CASE ServedLog(FALSE) # NoLog /\ logs' = truncateTail(Tail_(ServedLog(FALSE)))
    <3>1. ServedLog(FALSE) \in Log
      BY <2>2, ServedFacts
    <3>2. QED
      BY <2>2, <3>1, TailFacts
  <2>3. QED
    BY <1>1, <2>1, <2>2
<1>4. LogTypes' /\ Instances'
  BY <1>1, <1>3 DEF LogInv, LogTypes, Instances
<1>5. ReadSoFar' /\ LogsExplainCrash'
  BY <1>1, <1>2 DEF ReadSoFar, LogsExplainCrash
<1>6. LastWordsKept'
  BY <1>3 DEF LastWordsKept, evidenceLogReadCeiling
<1>7. QED
  BY <1>4, <1>5, <1>6 DEF LogInv

(* While its logs are read the container starts, crashes and backs off.     *)
LEMMA ContainerStep ==
  ASSUME LogInv, ContainerStarts \/ ContainerCrashes \/ BackOff
  PROVE  LogInv'
<1>1. pc \in {"previous", "current"} /\ UNCHANGED <<pc, firstRead, logs>>
  BY DEF ContainerStarts, ContainerCrashes, BackOff, LogsPending, collector
<1>2. logs = NoLog
  BY <1>1 DEF LogInv, ReadSoFar
<1>3. ReadSoFar' /\ LogsExplainCrash' /\ LastWordsKept'
  BY <1>1, <1>2 DEF LogInv, ReadSoFar, LogsExplainCrash, LastWordsKept
<1> DEFINE C == [state : {"waiting", "running", "terminated"}, instances : Nat,
                 current : Log \union {NoLog}, last : Log \union {NoLog}]
<1>4. container \in C /\ Instances
  BY DEF LogInv, LogTypes
<1>5. container' \in C /\ Instances'
  <2>1. CASE ContainerStarts
    <3>1. PICK log \in Logs(container.instances + 1) :
            container' = [container EXCEPT !.state = "running", !.current = log,
                                           !.instances = container.instances + 1]
      BY <2>1 DEF ContainerStarts
    <3>2. container.state = "waiting"
      BY <2>1 DEF ContainerStarts
    <3>3. container.instances \in Nat /\ log.instance = container.instances + 1
          /\ log.size \in Nat
      BY <1>4, Bounds DEF Logs
    <3>4. log \in Log
      BY <3>3 DEF Log, Logs
    <3>5. /\ container' \in C /\ container'.state = "running" /\ container'.current = log
          /\ container'.instances = container.instances + 1
          /\ container'.last = container.last
      <4>1. container.instances + 1 \in Nat
        BY <3>3
      <4>2. \A n \in Nat :
              LET d == [container EXCEPT !.state = "running", !.current = log,
                                         !.instances = n]
              IN  /\ d \in C /\ d.state = "running" /\ d.current = log
                  /\ d.instances = n /\ d.last = container.last
        BY <1>4, <3>4
      <4>3. QED
        BY <3>1, <4>1, <4>2
    <3>6. container.last # NoLog =>
            container.last.instance \in Nat /\ container.last.instance <= container.instances
      BY <1>4 DEF Instances, Log
    <3>7. container.last # NoLog =>
            /\ container.last.instance <= container.instances + 1
            /\ container.last.instance < container.instances + 1
      BY <3>3, <3>6
    <3>8. log.instance <= container.instances + 1
      BY <3>3
    <3>9. QED
      BY <3>5, <3>7, <3>8 DEF Instances
  <2>2. CASE ContainerCrashes
    <3>1. container' = [container EXCEPT !.state = "terminated"] /\ container.state = "running"
      BY <2>2 DEF ContainerCrashes
    <3>2. /\ container' \in C /\ container'.state = "terminated"
          /\ container'.current = container.current /\ container'.last = container.last
          /\ container'.instances = container.instances
      BY <1>4, <3>1
    <3>3. QED
      BY <1>4, <3>1, <3>2 DEF Instances
  <2>3. CASE BackOff
    <3>1. container' = [container EXCEPT !.state = "waiting", !.last = container.current,
                                         !.current = NoLog]
      BY <2>3 DEF BackOff
    <3>2. /\ container' \in C /\ container'.state = "waiting"
          /\ container'.last = container.current /\ container'.current = NoLog
          /\ container'.instances = container.instances
      BY <1>4, <3>1
    <3>3. QED
      BY <1>4, <3>2 DEF Instances
  <2>4. QED
    BY <2>1, <2>2, <2>3
<1>6. LogTypes'
  BY <1>1, <1>5 DEF LogInv, LogTypes
<1>7. QED
  BY <1>3, <1>5, <1>6 DEF LogInv

-----------------------------------------------------------------------------
(* The theorems. *)

LEMMA InitHolds ==
  ASSUME Init
  PROVE  IInv
<1>1. /\ clock = 1 /\ recorded = {} /\ wired \in SUBSET {"logs", "events"}
      /\ names \in Queries /\ pc = "start" /\ firstRead = "" /\ logs = NoLog /\ now = 0
      /\ unlisted = <<>> /\ collected = {} /\ events = {} /\ listed = {} /\ atStart = {}
  BY DEF Init
<1>2. container \in [state : {"waiting"}, instances : {1}, current : {NoLog},
                    last : Logs(1) \union {NoLog}]
  BY DEF Init
<1>3. EventTypes
  <2>1. 1 \in 1 .. MaxClock /\ 0 \in 0 .. MaxClock
    BY Bounds
  <2>2. <<>> \in Seq(Objects)
    OBVIOUS
  <2>3. QED
    BY <1>1, <2>1, <2>2 DEF EventTypes
<1>4. IsFiniteSet({}) /\ Numbered /\ Tracked
  BY <1>1, FS_EmptySet DEF Numbered, Tracked
<1>5. KeptSoFar /\ NotYet /\ EventsRecent /\ RecentEventKept
  BY <1>1, <1>4 DEF KeptSoFar, NotYet, EventsRecent, RecentEventKept, Kept
<1>6. /\ container.state = "waiting" /\ container.instances = 1
      /\ container.current = NoLog /\ container.last \in Logs(1) \union {NoLog}
  BY <1>2
<1>7. ASSUME NEW log \in Logs(1)
      PROVE  log \in Log /\ log.instance = 1
  <2>1. /\ log = [instance |-> log.instance, size |-> log.size]
        /\ log.instance = 1 /\ log.size \in Sizes
    BY DEF Logs
  <2>2. log.size \in Nat /\ log.instance \in Nat
    BY <2>1, Bounds
  <2>3. QED
    BY <2>1, <2>2 DEF Log
<1>8. LogTypes
  <2>1. container.last \in Log \union {NoLog}
    BY <1>6, <1>7
  <2>2. container = [state |-> container.state, instances |-> container.instances,
                     current |-> container.current, last |-> container.last]
    BY <1>2
  <2>3. container \in [state : {"waiting", "running", "terminated"}, instances : Nat,
                       current : Log \union {NoLog}, last : Log \union {NoLog}]
    BY <1>6, <2>1, <2>2
  <2>4. QED
    BY <1>1, <2>3 DEF LogTypes
<1>9. Instances
  BY <1>6, <1>7 DEF Instances
<1>10. ReadSoFar /\ LogsExplainCrash /\ LastWordsKept
  BY <1>1 DEF ReadSoFar, LogsExplainCrash, LastWordsKept
<1>11. QED
  BY <1>3, <1>4, <1>5, <1>8, <1>9, <1>10 DEF IInv, EventInv, LogInv

LEMMA StepHolds ==
  ASSUME IInv, [Next]_vars
  PROVE  IInv'
<1>1. EventInv /\ LogInv
  BY DEF IInv
<1>2. CASE Start
  <2>1. UNCHANGED <<container, firstRead, logs>> /\ pc = "start" /\ pc' \in {"previous", "events"}
    BY <1>2 DEF Start, cluster
  <2>2. QED
    BY <1>1, <1>2, <2>1, StartStep, LogsQuiet DEF IInv
<1>3. CASE ReadPrevious \/ ReadCurrent
  <2>1. /\ UNCHANGED <<clock, recorded, now, unlisted, collected, events, listed, atStart, wired,
                       names>>
        /\ pc \in {"previous", "current"} /\ pc' \in {"current", "events"}
    BY <1>3 DEF ReadPrevious, ReadCurrent, cluster
  <2>2. QED
    BY <1>1, <1>3, <2>1, PreviousStep, CurrentStep, EventsQuiet DEF IInv
<1>4. CASE BeginEvents \/ ListEvents \/ ListFails \/ FinishEvents
  <2>1. UNCHANGED <<container, firstRead, logs>> /\ pc' \in {"list", "done"}
    BY <1>4 DEF BeginEvents, ListEvents, ListFails, FinishEvents, cluster
  <2>2. QED
    BY <1>1, <1>4, <2>1, BeginStep, ListStep, ListFailsStep, FinishStep, LogsQuiet DEF IInv
<1>5. CASE \/ \E o \in Objects, stamps \in Stamps : Record(o, stamps)
           \/ \E e \in recorded : Repeat(e) \/ RepeatSeries(e)
           \/ Tick
  <2>1. UNCHANGED <<container, firstRead, logs, pc>>
    BY <1>5 DEF Record, Repeat, RepeatSeries, HappensAgain, Tick, collector
  <2>2. LogInv'
    BY <1>1, <2>1, LogsQuiet
  <2>3. EventInv'
    BY <1>1, <1>5, RecordStep, RepeatStep, TickStep
  <2>4. QED
    BY <2>2, <2>3 DEF IInv
<1>6. CASE ContainerStarts \/ ContainerCrashes \/ BackOff
  <2>1. UNCHANGED <<clock, recorded, now, unlisted, collected, events, listed, atStart, wired,
                    names, pc>>
    BY <1>6 DEF ContainerStarts, ContainerCrashes, BackOff, collector
  <2>2. QED
    BY <1>1, <1>6, <2>1, ContainerStep, EventsQuiet DEF IInv
<1>7. CASE Done \/ UNCHANGED vars
  <2>1. UNCHANGED <<clock, recorded, now, unlisted, collected, events, listed, atStart, wired,
                    names, pc, container, firstRead, logs>>
    BY <1>7 DEF Done, vars, cluster, collector
  <2>2. QED
    BY <1>1, <2>1, EventsQuiet, LogsQuiet DEF IInv
<1>8. QED
  BY <1>2, <1>3, <1>4, <1>5, <1>6, <1>7 DEF Next, Collect, Cluster

(* The invariant of one Collect. *)
THEOREM EvidenceInvariant == Spec => []IInv
<1>1. IInv /\ [Next]_vars => IInv'
  BY StepHolds
<1>2. QED
  BY <1>1, InitHolds, PTL DEF Spec

(* Types are kept. *)
THEOREM TypeCorrect == Spec => []TypeOK
<1>1. IInv => TypeOK
  BY DEF IInv, EventInv, EventTypes, LogInv, LogTypes, TypeOK
<1>2. QED
  BY <1>1, EvidenceInvariant, PTL

(* No Event of the bundle is older than the window. *)
THEOREM BundleIsRecent == Spec => []EventsRecent
<1>1. IInv => EventsRecent
  BY DEF IInv, EventInv
<1>2. QED
  BY <1>1, EvidenceInvariant, PTL

(* An Event that was recent, its series left aside, and whose list          *)
(* succeeded is in the bundle, unless the bundle is full of Events that     *)
(* happened no earlier.                                                     *)
THEOREM RecentIsKept == Spec => []RecentEventKept
<1>1. IInv => RecentEventKept
  BY DEF IInv, EventInv
<1>2. QED
  BY <1>1, EvidenceInvariant, PTL

(* The log evidence is of an instance that has terminated, unless the       *)
(* previous log was blank or unreadable.                                    *)
THEOREM LogsAreOfTheCrash == Spec => []LogsExplainCrash
<1>1. IInv => LogsExplainCrash
  BY DEF IInv, LogInv
<1>2. QED
  BY <1>1, EvidenceInvariant, PTL

(* The end of the log is kept as long as its last lines fit under the read  *)
(* ceiling.                                                                 *)
THEOREM LogEndIsKept == Spec => []LastWordsKept
<1>1. IInv => LastWordsKept
  BY DEF IInv, LogInv
<1>2. QED
  BY <1>1, EvidenceInvariant, PTL

=============================================================================
