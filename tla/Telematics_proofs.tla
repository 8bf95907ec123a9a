-------------------------- MODULE Telematics_proofs -------------------------
(***************************************************************************)
(* Proofs about Telemetry and RouteJobs, for any number of handlers,       *)
(* devices, samples, windows and jobs and any thresholds.                  *)
(*                                                                         *)
(* A batch carries the rows it has derived until it has saved them: what   *)
(* its entity knows of a trip is covered by the rows stored together with  *)
(* those it carries, and, once these are stored, by the rows stored alone. *)
(*                                                                         *)
(* A job that says running is in the hands of the handler that has saved   *)
(* it so, whatever else is in flight.  That the attempts stay within the   *)
(* limit needs more: that no tick has overlapped another, so that the rows *)
(* listed are still the rows of the table when their turn comes.           *)
(***************************************************************************)
EXTENDS Telematics, TLAPS

-----------------------------------------------------------------------------
(* Telemetry *)

Started(es, t) == \E e \in es : e.type = "TripStart" /\ e.trip = t

\* The trip of motion m is among the rows es, or there is none.
Covered(m, es) == m.trip = NoTrip \/ Started(es, m.trip)
EndsCovered(ends, es) == \A e \in ends : e.type = "TripEnd" => Started(es, e.trip)

(* Handler h is sound by the stored rows ev. *)
Sound(h, ev) ==
  /\ h.pc \in {"first", "sample", "events", "device"} =>
       /\ Covered(h.device.motion, ev[h.id] \union h.out)
       /\ EndsCovered(h.out, ev[h.id] \union h.out)
  /\ h.pc \in {"device", "save"} => Covered(h.device.motion, ev[h.id])
  /\ h.pc = "others" => \A d \in DeviceId : Covered(h.others[d].motion, ev[d])
  /\ h.pc \in {"first", "sample", "events", "device", "save"} => h.id \in DeviceId
  /\ h.pc \in {"save", "insert", "log"} => h.kind \in {"grant", "revoke", "enroll"}

IInv ==
  /\ TypeOK
  /\ \A d \in DeviceId : Covered(devices[d].motion, events[d]) /\ EndsCovered(events[d], events[d])
  /\ \A r \in Request : Sound(req[r], events)

-----------------------------------------------------------------------------
(* One sample *)

LEMMA MotionTyped ==
  ASSUME NEW m \in Motion, NEW v \in Speed, NEW t \in Nat, NEW f \in Trip
  PROVE  /\ After(m, v, t, f) \in Motion /\ Derived(m, v, t, f) \subseteq Event
         /\ Moving(v) => After(m, v, t, f).trip = TripNow(m, v, f)
         /\ ~ Moving(v) => After(m, v, t, f).trip = NoTrip
<1>1. NoTrip \in Trip
  BY DEF NoTrip, Trip
<1>2. Cleared(m) \in Motion /\ Cleared(m).trip = m.trip
  BY DEF Cleared, Motion
<1>3. Resting(m) \in Motion /\ Resting(m).trip = NoTrip
  <2>1. CASE m.trip = NoTrip
    BY <2>1 DEF Resting
  <2>2. CASE m.trip # NoTrip
    <3> DEFINE n == [m EXCEPT !.trip = NoTrip]
    <3>1. n \in Motion /\ n.trip = NoTrip
      BY <1>1 DEF Motion
    <3> HIDE DEF n
    <3>2. Cleared(n) \in Motion /\ Cleared(n).trip = NoTrip
      BY <3>1 DEF Cleared, Motion
    <3> QED
      BY <2>2, <3>2 DEF Resting, n
  <2> QED
    BY <2>1, <2>2
<1>4. TripNow(m, v, f) \in Trip
  BY DEF TripNow, Motion
<1>5. Derived(m, v, t, f) \subseteq Event
  <2>1. \A y \in EventType : TripFor(y, m, v, f) \in Trip
    BY <1>1, <1>4 DEF TripFor
  <2> QED
    BY <2>1 DEF Derived, Event
<1>6. CASE Moving(v)
  <2>1. After(m, v, t, f) = AfterMoving(m, v, t, f)
    BY <1>6 DEF After, Moving
  <2>2. AfterMoving(m, v, t, f) \in Motion /\ AfterMoving(m, v, t, f).trip = TripNow(m, v, f)
    <3> DEFINE n == Cleared(m)
    <3>1. n \in Motion
      BY <1>2
    <3> HIDE DEF n
    <3>2. PICK x \in Nat : AfterMoving(m, v, t, f) = [n EXCEPT !.trip = TripNow(m, v, f), !.lastExceeded = x]
      <4> DEFINE x == IF Exceeds(m, v, t) THEN t ELSE n.lastExceeded
      <4>1. x \in Nat
        BY <3>1 DEF Motion
      <4>2. AfterMoving(m, v, t, f) = [n EXCEPT !.trip = TripNow(m, v, f), !.lastExceeded = x]
        BY DEF AfterMoving, n
      <4> QED
        BY <4>1, <4>2
    <3> QED
      BY <1>4, <3>1, <3>2 DEF Motion
  <2> QED
    BY <1>6, <1>5, <2>1, <2>2
<1>7. CASE v = "creeping"
  <2>1. After(m, v, t, f) = Cleared(Resting(m))
    BY <1>7 DEF After, Moving
  <2>2. Cleared(Resting(m)) \in Motion /\ Cleared(Resting(m)).trip = NoTrip
    BY <1>3 DEF Cleared, Motion
  <2> QED
    BY <1>7, <1>5, <2>1, <2>2 DEF Moving
<1>8. CASE v = "stopped"
  <2> DEFINE n == Resting(m)
  <2>1. After(m, v, t, f) = AfterStopped(n, t)
    BY <1>8 DEF After, Moving
  <2>2. n \in Motion /\ n.trip = NoTrip
    BY <1>3
  <2> HIDE DEF n
  <2>3. Since(n, t) \in Nat
    BY <2>2 DEF Since, Motion
  <2>4. PICK a, b \in BOOLEAN :
          AfterStopped(n, t) = [n EXCEPT !.stopSince = Since(n, t), !.idle = a, !.engineIdle = b]
    <3> DEFINE a == n.idle \/ LongEnough(n, t, IdleAfter, n.idle)
               b == n.engineIdle \/ LongEnough(n, t, EngineAfter, n.engineIdle)
    <3>1. a \in BOOLEAN /\ b \in BOOLEAN
      OBVIOUS
    <3>2. AfterStopped(n, t) = [n EXCEPT !.stopSince = Since(n, t), !.idle = a, !.engineIdle = b]
      BY DEF AfterStopped
    <3> HIDE DEF a, b
    <3> QED
      BY <3>1, <3>2
  <2>5. AfterStopped(n, t) \in Motion /\ AfterStopped(n, t).trip = NoTrip
    BY <2>2, <2>3, <2>4 DEF Motion
  <2> QED
    BY <1>8, <1>5, <2>1, <2>5 DEF Moving
<1> QED
  BY <1>6, <1>7, <1>8, <1>5 DEF Speed, Moving

\* What the rows es covered before the sample, they cover with its rows after it.
LEMMA OneSample ==
  ASSUME NEW m \in Motion, NEW v \in Speed, NEW t \in Nat, NEW f \in Trip, NEW es, Covered(m, es)
  PROVE  LET ds == Derived(m, v, t, f)
         IN  Covered(After(m, v, t, f), es \union ds) /\ EndsCovered(ds, es \union ds)
<1> DEFINE ds == Derived(m, v, t, f)
<1>1. StartsTrip(m, v) => Started(ds, f)
  <2> SUFFICES ASSUME StartsTrip(m, v) PROVE Started(ds, f)
    OBVIOUS
  <2> DEFINE e == [type |-> "TripStart", at |-> t, trip |-> TripFor("TripStart", m, v, f)]
  <2>1. Happens("TripStart", m, v, t)
    BY DEF Happens
  <2>2. e \in ds
    BY <2>1 DEF Derived, EventType
  <2>3. e.type = "TripStart" /\ e.trip = f
    BY DEF TripFor, TripNow
  <2> QED
    BY <2>2, <2>3 DEF Started
<1>2. Covered(After(m, v, t, f), es \union ds)
  <2>1. CASE Moving(v)
    <3>1. After(m, v, t, f).trip = TripNow(m, v, f)
      BY <2>1, MotionTyped
    <3> QED
      BY <1>1, <3>1 DEF Covered, Started, TripNow
  <2>2. CASE ~ Moving(v)
    BY <2>2, MotionTyped DEF Covered
  <2> QED
    BY <2>1, <2>2
<1>3. ASSUME NEW e \in ds, e.type = "TripEnd" PROVE Started(es, e.trip)
  <2>1. PICK y \in EventType : /\ Happens(y, m, v, t)
                               /\ e = [type |-> y, at |-> t, trip |-> TripFor(y, m, v, f)]
    BY <1>3 DEF Derived
  <2>2. y = "TripEnd"
    BY <1>3, <2>1
  <2>3. EndsTrip(m, v)
    BY <2>1, <2>2 DEF Happens
  <2>4. e.trip = m.trip /\ m.trip # NoTrip
    BY <2>1, <2>2, <2>3 DEF TripFor, TripNow, EndsTrip, StartsTrip
  <2> QED
    BY <2>4 DEF Covered
<1>4. EndsCovered(ds, es \union ds)
  BY <1>3 DEF EndsCovered, Started
<1> QED
  BY <1>2, <1>4

-----------------------------------------------------------------------------
(* Handlers *)

Grows(ev, fw) == \A d \in DeviceId : ev[d] \subseteq fw[d]

LEMMA SoundStays ==
  ASSUME NEW h \in Handler, NEW ev, NEW fw, Sound(h, ev), Grows(ev, fw)
  PROVE  Sound(h, fw)
<1>1. ASSUME NEW m, NEW es, NEW fs, es \subseteq fs, Covered(m, es) PROVE Covered(m, fs)
  BY <1>1 DEF Covered, Started
<1>2. ASSUME NEW ends, NEW es, NEW fs, es \subseteq fs, EndsCovered(ends, es) PROVE EndsCovered(ends, fs)
  BY <1>2 DEF EndsCovered, Started
<1>3. h.id \in DeviceId => /\ ev[h.id] \subseteq fw[h.id]
                           /\ ev[h.id] \union h.out \subseteq fw[h.id] \union h.out
  BY DEF Grows
<1>4. h.pc \in {"first", "sample", "events", "device"} =>
        /\ Covered(h.device.motion, fw[h.id] \union h.out)
        /\ EndsCovered(h.out, fw[h.id] \union h.out)
  BY <1>1, <1>2, <1>3 DEF Sound
<1>5. h.pc \in {"device", "save"} => Covered(h.device.motion, fw[h.id])
  BY <1>1, <1>3 DEF Sound
<1>6. h.pc = "others" => \A d \in DeviceId : Covered(h.others[d].motion, fw[d])
  BY <1>1 DEF Sound, Grows
<1> QED
  BY <1>4, <1>5, <1>6 DEF Sound

LEMMA IdleSound ==
  /\ Still \in Motion /\ NoDevice \in Device /\ NewDevice \in Device /\ Idle \in Handler
  /\ NoDevice.motion.trip = NoTrip /\ NewDevice.motion.trip = NoTrip
  /\ NoDevices \in [DeviceId -> Device] /\ \A ev : Sound(Idle, ev)
<1>1. Still \in Motion /\ Still.trip = NoTrip
  BY DEF Still, Motion, NoTrip, Trip
<1>2. NoDevice \in Device /\ NoDevice.motion = Still
  BY <1>1 DEF NoDevice, Device
<1>3. NewDevice \in Device /\ NewDevice.motion = Still
  BY <1>2 DEF NewDevice, Device
<1>4. NoDevices \in [DeviceId -> Device]
  BY <1>2 DEF NoDevices
<1>5. Idle \in Handler
  BY <1>2, <1>4 DEF Idle, Handler
<1>6. \A ev : Sound(Idle, ev)
  BY DEF Idle, Sound
<1> QED
  BY <1>1, <1>2, <1>3, <1>4, <1>5, <1>6

LEMMA OneMoves ==
  ASSUME IInv, NEW r \in Request, NEW h \in Handler, Become(r, h), Sound(h, events'),
         devices' \in [DeviceId -> Device], events' \in [DeviceId -> SUBSET Event],
         Grows(events, events'),
         \A d \in DeviceId : /\ Covered(devices'[d].motion, events'[d])
                             /\ EndsCovered(events'[d], events'[d]),
         consent' \in {"ENROLL", "GRANT", "REVOKE"}, drive' \in [DeviceId -> Seq(Sample)],
         limit' = limit, spent' \in Counters
  PROVE  IInv'
<1>1. req' \in [Request -> Handler] /\ req'[r] = h /\ \A q \in Request \ {r} : req'[q] = req[q]
  BY DEF IInv, TypeOK, Become
<1>2. ASSUME NEW q \in Request PROVE Sound(req'[q], events')
  <2>1. CASE q = r
    BY <1>1, <2>1
  <2>2. CASE q # r
    <3>1. req[q] \in Handler /\ Sound(req[q], events) /\ req'[q] = req[q]
      BY <1>1, <2>2 DEF IInv, TypeOK
    <3> QED
      BY <3>1, SoundStays
  <2> QED
    BY <2>1, <2>2
<1>3. TypeOK'
  BY <1>1 DEF IInv, TypeOK
<1> QED
  BY <1>2, <1>3 DEF IInv

\* Only the handler moves, or it writes the consent log or counts.
LEMMA MovesOnly ==
  ASSUME IInv, NEW r \in Request, NEW h \in Handler, Become(r, h), Sound(h, events),
         UNCHANGED <<devices, events, limit>>,
         consent' \in {"ENROLL", "GRANT", "REVOKE"}, drive' \in [DeviceId -> Seq(Sample)],
         spent' \in Counters
  PROVE  IInv'
<1>1. Grows(events, events)
  BY DEF Grows
<1> QED
  BY <1>1, OneMoves DEF IInv, TypeOK

\* The devices are written.
LEMMA DevicesMove ==
  ASSUME IInv, NEW r \in Request, NEW h \in Handler, Become(r, h), Sound(h, events),
         devices' \in [DeviceId -> Device],
         \A d \in DeviceId : Covered(devices'[d].motion, events[d]),
         UNCHANGED <<events, consent, drive, limit, spent>>
  PROVE  IInv'
<1>1. Grows(events, events)
  BY DEF Grows
<1> QED
  BY <1>1, OneMoves DEF IInv, TypeOK

LEMMA Facts ==
  ASSUME IInv, NEW r \in Request
  PROVE  /\ req[r] \in Handler /\ Sound(req[r], events)
         /\ \A d \in DeviceId : devices[d] \in Device /\ Covered(devices[d].motion, events[d])
         /\ \A d \in DeviceId : events[d] \subseteq Event /\ drive[d] \in Seq(Sample)
  BY DEF IInv, TypeOK

LEMMA Starts ==
  ASSUME IInv, NEW r \in Request, NEW h \in Handler, NEW call \in BOOLEAN, Begin(r, h, call),
         Sound(h, events)
  PROVE  IInv'
<1>1. Become(r, h) /\ UNCHANGED <<devices, events, consent, drive, limit>>
  BY DEF Begin
<1>2. spent \in Counters
  BY DEF IInv, TypeOK
<1>3. PICK o, c, b \in Nat : spent' = [spent EXCEPT !.overlaps = o, !.calls = c, !.batches = b]
  <2>1. /\ (IF Overlaps(r) THEN spent.overlaps + 1 ELSE spent.overlaps) \in Nat
        /\ (IF call THEN spent.calls + 1 ELSE spent.calls) \in Nat
        /\ (IF call THEN spent.batches ELSE spent.batches + 1) \in Nat
    BY <1>2 DEF Counters
  <2>2. spent' = [spent EXCEPT !.overlaps = IF Overlaps(r) THEN @ + 1 ELSE @,
                               !.calls = IF call THEN @ + 1 ELSE @,
                               !.batches = IF call THEN @ ELSE @ + 1]
    BY DEF Begin
  <2> QED
    BY <2>1, <2>2
<1>4. spent' \in Counters
  BY <1>2, <1>3 DEF Counters
<1> QED
  BY <1>1, <1>4, MovesOnly DEF IInv, TypeOK

-----------------------------------------------------------------------------
(* What begins *)

LEMMA IngestKeeps ==
  ASSUME IInv, NEW r \in Request, NEW d \in DeviceId, Ingest(r, d)
  PROVE  IInv'
<1> DEFINE h == [Idle EXCEPT !.kind = "ingest", !.pc = "first", !.id = d, !.device = devices[d],
                             !.batch = spent.batches + 1]
<1>1. spent.batches + 1 \in Nat /\ devices[d] \in Device /\ Covered(devices[d].motion, events[d])
  BY Facts DEF IInv, TypeOK, Counters
<1>2. Idle \in Handler /\ Idle.out = {}
  BY IdleSound DEF Idle
<1>3. /\ h \in Handler /\ h.kind = "ingest" /\ h.pc = "first" /\ h.id = d
      /\ h.device = devices[d] /\ h.out = {}
  BY <1>1, <1>2 DEF Handler
<1>4. Begin(r, h, FALSE)
  BY DEF Ingest
<1> HIDE DEF h
<1>5. Sound(h, events)
  BY <1>1, <1>3 DEF Sound, Covered, EndsCovered, Started
<1> QED
  BY <1>3, <1>4, <1>5, Starts

LEMMA ConsentKeeps ==
  ASSUME IInv, NEW r \in Request, NEW kind \in {"grant", "revoke"}, NEW d \in DeviceId,
         NEW status \in {"on", "off"}, Consent(r, kind, d, status)
  PROVE  IInv'
<1> DEFINE e == [devices[d] EXCEPT !.status = status]
           h == [Idle EXCEPT !.kind = kind, !.pc = "save", !.id = d, !.device = e]
<1>1. devices[d] \in Device /\ Covered(devices[d].motion, events[d])
  BY Facts
<1>2. e \in Device /\ e.motion = devices[d].motion
  BY <1>1 DEF Device
<1>3. Begin(r, h, TRUE)
  BY DEF Consent
<1> HIDE DEF e
<1>4. h \in Handler /\ h.kind = kind /\ h.pc = "save" /\ h.id = d /\ h.device = e
  BY <1>2, IdleSound DEF Handler
<1> HIDE DEF h
<1>5. Sound(h, events)
  BY <1>1, <1>2, <1>4 DEF Sound
<1> QED
  BY <1>3, <1>4, <1>5, Starts

LEMMA GrantRevokeKeep ==
  ASSUME IInv, NEW r \in Request, Grant(r) \/ Revoke(r)
  PROVE  IInv'
<1>1. ASSUME NoPrimary, Begin(r, [Idle EXCEPT !.kind = "grant", !.pc = "log"], TRUE) PROVE IInv'
  <2> DEFINE h == [Idle EXCEPT !.kind = "grant", !.pc = "log"]
  <2>1. h \in Handler /\ h.kind = "grant" /\ h.pc = "log"
    BY IdleSound DEF Handler
  <2>2. Begin(r, h, TRUE)
    BY <1>1
  <2> HIDE DEF h
  <2>3. Sound(h, events)
    BY <2>1 DEF Sound
  <2> QED
    BY <2>1, <2>2, <2>3, Starts
<1>2. ASSUME NEW d \in DeviceId, Consent(r, "grant", d, "on") \/ Consent(r, "revoke", d, "off")
      PROVE  IInv'
  BY <1>2, ConsentKeeps
<1> QED
  BY <1>1, <1>2 DEF Grant, Revoke

LEMMA EnrollKeeps ==
  ASSUME IInv, NEW r \in Request, Enroll(r)
  PROVE  IInv'
<1> DEFINE l == [d \in DeviceId |-> SwitchedOff(devices[d])]
           h == [Idle EXCEPT !.kind = "enroll", !.pc = "others", !.others = l]
<1>1. \A d \in DeviceId : SwitchedOff(devices[d]) \in Device
                          /\ SwitchedOff(devices[d]).motion = devices[d].motion
  BY Facts DEF SwitchedOff, Device
<1>2. l \in [DeviceId -> Device] /\ \A d \in DeviceId : Covered(l[d].motion, events[d])
  BY <1>1, Facts
<1>3. Begin(r, h, TRUE)
  BY DEF Enroll
<1> HIDE DEF l
<1>4. h \in Handler /\ h.kind = "enroll" /\ h.pc = "others" /\ h.others = l
  BY <1>2, IdleSound DEF Handler
<1> HIDE DEF h
<1>5. Sound(h, events)
  BY <1>2, <1>4 DEF Sound
<1> QED
  BY <1>3, <1>4, <1>5, Starts

-----------------------------------------------------------------------------
(* Steps *)

LEMMA InterpretKeeps ==
  ASSUME IInv, NEW r \in Request, NEW g \in Gap, NEW v \in Speed, Interpret(r, g, v)
  PROVE  IInv'
<1> DEFINE o == req[r]
           m == o.device.motion
           t == LastAt(o.id) + g
           f == <<o.batch, t>>
           ds == Derived(m, v, t, f)
           n == After(m, v, t, f)
           h == [o EXCEPT !.pc = "sample", !.device.motion = n, !.out = @ \union ds]
           ev == events[o.id]
<1>1. /\ o \in Handler /\ o.id \in DeviceId /\ m \in Motion /\ o.out \subseteq Event
      /\ Covered(m, ev \union o.out) /\ EndsCovered(o.out, ev \union o.out)
  BY Facts DEF Interpret, At, Sound, Handler, Device
<1>2. t \in Nat
  <2>1. drive[o.id] \in Seq(Sample) /\ g \in Nat
    BY <1>1, Facts, BoundAssumption
  <2>2. LastAt(o.id) \in Nat
    <3>1. CASE drive[o.id] = <<>>
      BY <3>1 DEF LastAt
    <3>2. CASE drive[o.id] # <<>>
      <4>1. drive[o.id][Len(drive[o.id])] \in Sample
        BY <2>1, <3>2
      <4> QED
        BY <3>2, <4>1 DEF LastAt, Sample
    <3> QED
      BY <3>1, <3>2
  <2> QED
    BY <2>1, <2>2
<1>3. f \in Trip
  BY <1>1, <1>2 DEF Trip, Handler
<1>4. /\ drive' = [drive EXCEPT ![o.id] = Append(@, [at |-> t, speed |-> v])]
      /\ Become(r, h) /\ UNCHANGED <<devices, events, consent, limit, spent>>
  BY DEF Interpret
<1>5. drive' \in [DeviceId -> Seq(Sample)]
  <2>1. [at |-> t, speed |-> v] \in Sample
    BY <1>2 DEF Sample
  <2> HIDE DEF t
  <2>2. drive \in [DeviceId -> Seq(Sample)] /\ drive[o.id] \in Seq(Sample)
    BY <1>1, Facts DEF IInv, TypeOK
  <2>3. Append(drive[o.id], [at |-> t, speed |-> v]) \in Seq(Sample)
    BY <2>1, <2>2
  <2> QED
    BY <1>4, <2>2, <2>3
<1> HIDE DEF t, f
<1>6. n \in Motion /\ ds \subseteq Event
  BY <1>1, <1>2, <1>3, MotionTyped
<1>7. Covered(n, (ev \union o.out) \union ds) /\ EndsCovered(ds, (ev \union o.out) \union ds)
  BY <1>1, <1>2, <1>3, OneSample
<1> HIDE DEF n, ds, m
<1>8. /\ h \in Handler /\ h.pc = "sample" /\ h.kind = o.kind /\ h.id = o.id
      /\ h.device.motion = n /\ h.out = o.out \union ds
  BY <1>1, <1>6 DEF Handler, Device
<1> HIDE DEF h
<1>9. Covered(n, ev \union (o.out \union ds)) /\ EndsCovered(o.out \union ds, ev \union (o.out \union ds))
  BY <1>1, <1>7 DEF Covered, EndsCovered, Started
<1>10. Sound(h, events)
  BY <1>1, <1>8, <1>9 DEF Sound
<1> QED
  BY <1>4, <1>5, <1>8, <1>10, MovesOnly DEF IInv, TypeOK

LEMMA BatchEnds ==
  /\ Following("sample") = "events" /\ Following("events") = "device"
  /\ Following("device") = "idle"
  BY DEF Following, Order

LEMMA InterpretedKeeps ==
  ASSUME IInv, NEW r \in Request, Interpreted(r)
  PROVE  IInv'
<1> DEFINE h == [req[r] EXCEPT !.pc = "events"]
<1>1. req[r] \in Handler /\ Sound(req[r], events) /\ req[r].pc = "sample"
  BY Facts DEF Interpreted, At
<1>2. Become(r, h)
  BY <1>1, BatchEnds DEF Interpreted, GoOn
<1>3. /\ h \in Handler /\ h.pc = "events" /\ h.kind = req[r].kind /\ h.id = req[r].id
      /\ h.device = req[r].device /\ h.out = req[r].out
  BY <1>1 DEF Handler
<1> HIDE DEF h
<1>4. Sound(h, events)
  BY <1>1, <1>3 DEF Sound
<1> QED
  BY <1>2, <1>3, <1>4, MovesOnly DEF Interpreted, IInv, TypeOK

LEMMA SaveEventsKeeps ==
  ASSUME IInv, NEW r \in Request, SaveEvents(r)
  PROVE  IInv'
<1> DEFINE h == [req[r] EXCEPT !.pc = "device"]
           i == req[r].id
<1>1. /\ req[r] \in Handler /\ Sound(req[r], events) /\ req[r].pc = "events"
      /\ i \in DeviceId /\ req[r].out \subseteq Event
  BY Facts DEF SaveEvents, At, Sound, Handler
<1>2. Become(r, h) /\ events' = [events EXCEPT ![i] = @ \union req[r].out]
      /\ UNCHANGED <<devices, consent, drive, limit, spent>>
  BY <1>1, BatchEnds DEF SaveEvents, GoOn
<1>3. /\ events' \in [DeviceId -> SUBSET Event] /\ events'[i] = events[i] \union req[r].out
      /\ \A d \in DeviceId \ {i} : events'[d] = events[d]
  BY <1>1, <1>2 DEF IInv, TypeOK
<1>4. /\ h \in Handler /\ h.pc = "device" /\ h.kind = req[r].kind /\ h.id = i
      /\ h.device = req[r].device /\ h.out = req[r].out
  BY <1>1 DEF Handler
<1> HIDE DEF h
<1>5. Grows(events, events')
  BY <1>3 DEF Grows
<1>6. /\ Covered(req[r].device.motion, events'[i])
      /\ EndsCovered(req[r].out, events'[i])
      /\ events'[i] \union req[r].out = events'[i]
  BY <1>1, <1>3 DEF Sound
<1>7. Sound(h, events')
  BY <1>1, <1>4, <1>6 DEF Sound
<1>8. ASSUME NEW d \in DeviceId
      PROVE  Covered(devices'[d].motion, events'[d]) /\ EndsCovered(events'[d], events'[d])
  <2>1. /\ Covered(devices[d].motion, events[d]) /\ EndsCovered(events[d], events[d])
        /\ events[d] \subseteq events'[d] /\ devices' = devices
    BY <1>2, <1>5 DEF IInv, Grows
  <2>2. Covered(devices'[d].motion, events'[d])
    BY <2>1 DEF Covered, Started
  <2>3. EndsCovered(events'[d], events'[d])
    <3>1. CASE d = i
      BY <1>3, <1>6, <2>1, <3>1 DEF EndsCovered, Started
    <3>2. CASE d # i
      BY <1>3, <2>1, <3>2
    <3> QED
      BY <3>1, <3>2
  <2> QED
    BY <2>2, <2>3
<1> HIDE DEF i
<1> QED
  BY <1>2, <1>3, <1>4, <1>5, <1>7, <1>8, OneMoves DEF IInv, TypeOK

\* One device is written.
LEMMA OneDevice ==
  ASSUME IInv, NEW r \in Request, NEW h \in Handler, Become(r, h), Sound(h, events),
         NEW d \in DeviceId, NEW e \in Device, Covered(e.motion, events[d]),
         devices' = [devices EXCEPT ![d] = e],
         UNCHANGED <<events, consent, drive, limit, spent>>
  PROVE  IInv'
<1>1. devices' \in [DeviceId -> Device] /\ \A x \in DeviceId : Covered(devices'[x].motion, events[x])
  BY DEF IInv, TypeOK
<1> QED
  BY <1>1, DevicesMove

LEMMA SaveDeviceKeeps ==
  ASSUME IInv, NEW r \in Request, SaveDevice(r)
  PROVE  IInv'
<1>1. /\ req[r].id \in DeviceId /\ req[r].device \in Device
      /\ Covered(req[r].device.motion, events[req[r].id])
  BY Facts DEF SaveDevice, At, Sound, Handler
<1>2. Become(r, Idle)
  BY BatchEnds DEF SaveDevice, At, GoOn
<1>3. /\ devices' = [devices EXCEPT ![req[r].id] = req[r].device]
      /\ UNCHANGED <<events, consent, drive, limit, spent>>
  BY DEF SaveDevice, Kept
<1> QED
  BY <1>1, <1>2, <1>3, IdleSound, OneDevice

\* Only the next step is another.
LEMMA StepTo ==
  ASSUME NEW h \in Handler, NEW pc \in {"insert", "log"}, h.kind \in {"grant", "revoke", "enroll"},
         NEW ev
  PROVE  /\ [h EXCEPT !.pc = pc] \in Handler /\ Sound([h EXCEPT !.pc = pc], ev)
<1> DEFINE g == [h EXCEPT !.pc = pc]
<1>1. g \in Handler /\ g.pc = pc /\ g.kind = h.kind
  BY DEF Handler
<1> HIDE DEF g
<1>2. Sound(g, ev)
  BY <1>1 DEF Sound
<1> QED
  BY <1>1, <1>2 DEF g

LEMMA SaveConsentKeeps ==
  ASSUME IInv, NEW r \in Request, SaveConsent(r)
  PROVE  IInv'
<1>1. /\ req[r] \in Handler /\ req[r].id \in DeviceId /\ req[r].device \in Device
      /\ req[r].kind \in {"grant", "revoke", "enroll"}
      /\ Covered(req[r].device.motion, events[req[r].id])
  BY Facts DEF SaveConsent, At, Sound, Handler
<1>2. /\ Become(r, [req[r] EXCEPT !.pc = "log"])
      /\ devices' = [devices EXCEPT ![req[r].id] = req[r].device]
      /\ UNCHANGED <<events, consent, drive, limit, spent>>
  BY DEF SaveConsent
<1>3. [req[r] EXCEPT !.pc = "log"] \in Handler /\ Sound([req[r] EXCEPT !.pc = "log"], events)
  BY <1>1, StepTo
<1> QED
  BY <1>1, <1>2, <1>3, OneDevice

LEMMA SaveOthersKeeps ==
  ASSUME IInv, NEW r \in Request, SaveOthers(r)
  PROVE  IInv'
<1> DEFINE h == [Idle EXCEPT !.kind = "enroll", !.pc = "insert"]
           l == req[r].others
<1>1. /\ l \in [DeviceId -> Device] /\ \A d \in DeviceId : Covered(l[d].motion, events[d])
  BY Facts DEF SaveOthers, At, Sound, Handler
<1>2. h \in Handler /\ h.pc = "insert" /\ h.kind = "enroll"
  BY IdleSound DEF Handler
<1>3. /\ Become(r, h) /\ devices' = [d \in DeviceId |-> IF l[d] = NoDevice THEN devices[d] ELSE l[d]]
      /\ UNCHANGED <<events, consent, drive, limit, spent>>
  BY DEF SaveOthers
<1> HIDE DEF h, l
<1>4. Sound(h, events)
  BY <1>2 DEF Sound
<1>5. devices' \in [DeviceId -> Device] /\ \A d \in DeviceId : Covered(devices'[d].motion, events[d])
  BY <1>1, <1>3, Facts
<1> QED
  BY <1>2, <1>3, <1>4, <1>5, DevicesMove

LEMMA InsertKeeps ==
  ASSUME IInv, NEW r \in Request, Insert(r)
  PROVE  IInv'
<1>1. req[r] \in Handler /\ req[r].kind \in {"grant", "revoke", "enroll"}
  BY Facts DEF Insert, At, Sound
<1>2. PICK d \in DeviceId : devices' = [devices EXCEPT ![d] = NewDevice]
  BY DEF Insert
<1>3. NewDevice \in Device /\ Covered(NewDevice.motion, events[d])
  BY IdleSound DEF Covered
<1>4. Become(r, [req[r] EXCEPT !.pc = "log"]) /\ UNCHANGED <<events, consent, drive, limit, spent>>
  BY DEF Insert
<1>5. [req[r] EXCEPT !.pc = "log"] \in Handler /\ Sound([req[r] EXCEPT !.pc = "log"], events)
  BY <1>1, StepTo
<1> QED
  BY <1>2, <1>3, <1>4, <1>5, OneDevice

LEMMA LogKeeps ==
  ASSUME IInv, NEW r \in Request, Log(r)
  PROVE  IInv'
<1>1. req[r].kind \in {"grant", "revoke", "enroll"}
  BY Facts DEF Log, At, Sound
<1>2. consent' \in {"ENROLL", "GRANT", "REVOKE"}
  BY <1>1 DEF Log
<1>3. Become(r, Idle) /\ UNCHANGED <<devices, events, drive, limit, spent>>
  BY DEF Log
<1> QED
  BY <1>2, <1>3, IdleSound, MovesOnly DEF IInv, TypeOK

LEMMA FailKeeps ==
  ASSUME IInv, NEW rs \in SUBSET Request, Fail(rs)
  PROVE  IInv'
<1>1. /\ spent' = [spent EXCEPT !.failures = @ + 1]
      /\ req' = [r \in Request |-> IF r \in rs THEN Idle ELSE req[r]]
      /\ UNCHANGED <<devices, events, consent, drive, limit>>
  BY DEF Fail
<1>2. spent \in Counters
  BY DEF IInv, TypeOK
<1>3. spent' \in Counters
  BY <1>1, <1>2 DEF Counters
<1>4. \A r \in Request : req'[r] \in Handler /\ Sound(req'[r], events')
  BY <1>1, Facts, IdleSound
<1>5. TypeOK'
  BY <1>1, <1>3, <1>4 DEF IInv, TypeOK
<1> QED
  BY <1>1, <1>4, <1>5 DEF IInv

-----------------------------------------------------------------------------
(* Theorems *)

LEMMA InitIInv ==
  ASSUME Init
  PROVE  IInv
<1>1. devices \in [DeviceId -> Device] /\ \A d \in DeviceId : devices[d].motion.trip = NoTrip
  BY IdleSound DEF Init
<1>2. /\ events \in [DeviceId -> SUBSET Event] /\ drive \in [DeviceId -> Seq(Sample)]
      /\ \A d \in DeviceId : events[d] = {}
  BY DEF Init
<1>3. \A r \in Request : req[r] \in Handler /\ Sound(req[r], events)
  BY IdleSound DEF Init
<1>4. spent \in Counters
  BY DEF Init, Counters
<1>5. TypeOK
  BY <1>1, <1>2, <1>3, <1>4 DEF Init, TypeOK
<1> QED
  BY <1>1, <1>2, <1>3, <1>5 DEF IInv, Covered, EndsCovered

LEMMA Inductive ==
  ASSUME IInv, [Next]_vars
  PROVE  IInv'
<1>1. ASSUME NEW r \in Request, Start(r) PROVE IInv'
  BY <1>1, IngestKeeps, GrantRevokeKeep, EnrollKeeps DEF Start
<1>2. ASSUME NEW r \in Request, Step(r) PROVE IInv'
  BY <1>2, InterpretKeeps, InterpretedKeeps, SaveEventsKeeps, SaveDeviceKeeps, SaveConsentKeeps,
     SaveOthersKeeps, InsertKeeps, LogKeeps DEF Step
<1>3. ASSUME NEW r \in Request, CallThrows(r) PROVE IInv'
  BY <1>3, FailKeeps DEF CallThrows
<1>4. ASSUME Crash PROVE IInv'
  BY <1>4, FailKeeps DEF Crash
<1>5. CASE UNCHANGED vars
  BY <1>5 DEF vars, IInv, TypeOK
<1> QED
  BY <1>1, <1>2, <1>3, <1>4, <1>5 DEF Next
-----------------------------------------------------------------------------
(* RouteJobs *)

Working == {"work", "finish", "giveBack"}
Works(h, i) == h.id = i /\ h.pc \in Working

\* Whatever overlaps.
Shaped(h) ==
  /\ h.pc \in Working => h.id \in Jobs!JobId
  /\ h.pc \in {"finish", "giveBack"} => h.job.status # "running"

\* As long as nothing has overlapped: what the handler has read is what there is.
Exact(h, js, ts) ==
  /\ \A i \in Jobs!JobId : h.list[i] # Jobs!NoJob => h.list[i] = js[i] /\ js[i].status = "pending"
  /\ h.pc \in Working => h.list[h.id] = Jobs!NoJob /\ h.job.attemptCount = ts[h.id]
  /\ h.pc = "giveBack" /\ h.job.status = "pending" => h.job.attemptCount < MaxAttempts
  /\ h.pc = "finish" => h.job.status = "done"
  /\ h.pc = "giveBack" => h.job.status # "none"
  /\ h.pc \in {"find", "insert", "list"} => h.list = Jobs!NoJobs

Counts(js, ts) ==
  \A i \in Jobs!JobId :
    /\ js[i].attemptCount = ts[i] /\ ts[i] <= MaxAttempts
    /\ js[i].status = "pending" => ts[i] < MaxAttempts
    /\ js[i].status = "none" => ts[i] = 0

Apart == used.overlaps = 0 /\ used.failures = 0

JobsInv ==
  /\ Jobs!TypeOK
  /\ \A r \in Request : Shaped(matching[r])
  /\ used.failures = 0 =>
       \A i \in Jobs!JobId : jobs[i].status = "running" => \E r \in Request : Works(matching[r], i)
  /\ Apart => /\ Counts(jobs, tries)
              /\ \A r \in Request : Exact(matching[r], jobs, tries)
              /\ \A r, q \in Request : matching[r] # Jobs!Idle /\ matching[q] # Jobs!Idle => r = q

-----------------------------------------------------------------------------
(* Handlers *)

LEMMA Kinds ==
  /\ Jobs!NoJob \in Jobs!Job /\ Jobs!NoJobs \in [Jobs!JobId -> Jobs!Job] /\ Jobs!Idle \in Jobs!Handler
  /\ Shaped(Jobs!Idle) /\ \A js, ts : Exact(Jobs!Idle, js, ts)
  /\ \A i : ~ Works(Jobs!Idle, i)
  /\ Jobs!Idle.pc = "idle" /\ Jobs!Idle.list = Jobs!NoJobs
<1>1. Jobs!NoJob \in Jobs!Job
  BY DEF Jobs!NoJob, Jobs!Job
<1>2. Jobs!NoJobs \in [Jobs!JobId -> Jobs!Job] /\ \A i \in Jobs!JobId : Jobs!NoJobs[i] = Jobs!NoJob
  BY <1>1 DEF Jobs!NoJobs
<1>3. Jobs!Idle \in Jobs!Handler /\ Jobs!Idle.pc = "idle" /\ Jobs!Idle.list = Jobs!NoJobs
  BY <1>1, <1>2 DEF Jobs!Idle, Jobs!Handler
<1> QED
  BY <1>1, <1>2, <1>3 DEF Shaped, Exact, Works, Working

LEMMA JobsOneMoves ==
  ASSUME JobsInv, NEW r \in Request, NEW h \in Jobs!Handler, Jobs!Become(r, h), Shaped(h),
         queue' \subseteq Window, jobs' \in [Jobs!JobId -> Jobs!Job], tries' \in [Jobs!JobId -> Nat],
         used' \in Jobs!Counters, used'.failures = 0 => used.failures = 0,
         used'.overlaps = 0 => used.overlaps = 0,
         \A i \in Jobs!JobId : jobs'[i].status = "running" =>
            Works(h, i) \/ (jobs[i].status = "running" /\ ~ Works(matching[r], i)),
         Apart' => /\ \A q \in Request \ {r} : matching[q] = Jobs!Idle
                   /\ Counts(jobs', tries') /\ Exact(h, jobs', tries')
  PROVE  JobsInv'
<1>1. matching' \in [Request -> Jobs!Handler] /\ matching'[r] = h /\ \A q \in Request \ {r} : matching'[q] = matching[q]
  BY DEF JobsInv, Jobs!TypeOK, Jobs!Become
<1>2. Jobs!TypeOK'
  BY <1>1 DEF JobsInv, Jobs!TypeOK
<1>3. \A q \in Request : Shaped(matching'[q])
  BY <1>1 DEF JobsInv
<1>4. ASSUME used'.failures = 0, NEW i \in Jobs!JobId, jobs'[i].status = "running"
      PROVE  \E q \in Request : Works(matching'[q], i)
  <2>1. CASE Works(h, i)
    BY <1>1, <2>1
  <2>2. CASE jobs[i].status = "running" /\ ~ Works(matching[r], i)
    <3>1. PICK q \in Request : Works(matching[q], i)
      BY <1>4, <2>2 DEF JobsInv
    <3> QED
      BY <1>1, <2>2, <3>1
  <2> QED
    BY <1>4, <2>1, <2>2
<1>5. ASSUME Apart'
      PROVE  /\ Counts(jobs', tries')
             /\ \A q \in Request : Exact(matching'[q], jobs', tries')
             /\ \A p, q \in Request : matching'[p] # Jobs!Idle /\ matching'[q] # Jobs!Idle => p = q
  BY <1>1, <1>5, Kinds
<1> QED
  BY <1>2, <1>3, <1>4, <1>5 DEF JobsInv

LEMMA JobsFacts ==
  ASSUME JobsInv, NEW r \in Request
  PROVE  /\ matching[r] \in Jobs!Handler /\ Shaped(matching[r]) /\ used \in Jobs!Counters
         /\ jobs \in [Jobs!JobId -> Jobs!Job] /\ tries \in [Jobs!JobId -> Nat] /\ queue \subseteq Window
         /\ Apart => Counts(jobs, tries) /\ Exact(matching[r], jobs, tries)
         /\ Apart /\ matching[r].pc # "idle" => \A q \in Request \ {r} : matching[q] = Jobs!Idle
  BY Kinds DEF JobsInv, Jobs!TypeOK

\* Only the handler moves.
LEMMA JobsMovesOnly ==
  ASSUME JobsInv, NEW r \in Request, matching[r].pc # "idle", NEW h \in Jobs!Handler, Jobs!Become(r, h), Shaped(h),
         UNCHANGED <<queue, jobs, tries>>,
         used' \in Jobs!Counters, used'.failures = used.failures, used'.overlaps = used.overlaps,
         \A i \in Jobs!JobId : Works(matching[r], i) => Works(h, i),
         Apart => Exact(h, jobs, tries)
  PROVE  JobsInv'
<1>1. Apart' => Apart
  BY DEF Apart
<1> QED
  BY <1>1, JobsFacts, JobsOneMoves

\* A handler begins.
LEMMA Begins ==
  ASSUME JobsInv, NEW r \in Request, NEW h \in Jobs!Handler, Jobs!Begin(r, h), Shaped(h),
         Apart => Exact(h, jobs, tries), queue' \subseteq Window, UNCHANGED <<jobs, tries>>,
         NEW x \in Nat, used' = [used EXCEPT !.wishes = x, !.overlaps = @ + Jobs!Counted(r)]
  PROVE  JobsInv'
<1>1. Jobs!Counted(r) \in {0, 1} /\ (Jobs!Counted(r) = 0 => \A q \in Request \ {r} : matching[q] = Jobs!Idle)
  BY DEF Jobs!Counted, Jobs!Overlaps
<1>2. used \in Jobs!Counters
  BY JobsFacts
<1>3. /\ used' \in Jobs!Counters /\ used'.failures = used.failures
      /\ used'.overlaps = used.overlaps + Jobs!Counted(r)
  <2> DEFINE n == used.overlaps + Jobs!Counted(r)
  <2>1. n \in Nat
    BY <1>1, <1>2 DEF Jobs!Counters
  <2>2. used' = [used EXCEPT !.wishes = x, !.overlaps = n]
    OBVIOUS
  <2> HIDE DEF n
  <2>3. used' \in Jobs!Counters /\ used'.failures = used.failures /\ used'.overlaps = n
    BY <1>2, <2>1, <2>2 DEF Jobs!Counters
  <2> QED
    BY <2>3 DEF n
<1>4. used.overlaps \in Nat
  BY <1>2 DEF Jobs!Counters
<1>5. used'.overlaps = 0 => used.overlaps = 0 /\ Jobs!Counted(r) = 0
  BY <1>1, <1>3, <1>4
<1>6. Apart' => Apart /\ \A q \in Request \ {r} : matching[q] = Jobs!Idle
  BY <1>1, <1>3, <1>5 DEF Apart
<1>7. matching[r] = Jobs!Idle /\ Jobs!Become(r, h)
  BY DEF Jobs!Begin
<1> QED
  BY <1>3, <1>5, <1>6, <1>7, JobsFacts, Kinds, JobsOneMoves

\* What a handler goes on to when it looks for windows or lists jobs.
LEMMA GoesOn ==
  ASSUME NEW g \in Jobs!Handler
  PROVE  /\ Jobs!NextWish(g) \in Jobs!Handler /\ Shaped(Jobs!NextWish(g)) /\ \A js, ts : Exact(Jobs!NextWish(g), js, ts)
         /\ Jobs!Returned(g) \in Jobs!Handler /\ Shaped(Jobs!Returned(g)) /\ \A js, ts : Exact(Jobs!Returned(g), js, ts)
         /\ Jobs!NextJob(g) \in Jobs!Handler /\ Shaped(Jobs!NextJob(g))
         /\ \A js, ts : (\A i \in Jobs!JobId : g.list[i] # Jobs!NoJob =>
                           g.list[i] = js[i] /\ js[i].status = "pending")
                          => Exact(Jobs!NextJob(g), js, ts)
<1>1. Jobs!NextWish(g) \in Jobs!Handler /\ Shaped(Jobs!NextWish(g)) /\ \A js, ts : Exact(Jobs!NextWish(g), js, ts)
  <2> DEFINE h == Jobs!NextWish(g)
  <2>1. PICK pc \in {"list", "find"} : h = [Jobs!Idle EXCEPT !.kind = "tick", !.wishes = g.wishes, !.pc = pc]
    BY DEF Jobs!NextWish
  <2> HIDE DEF h
  <2>2. h \in Jobs!Handler /\ h.pc = pc /\ h.list = Jobs!NoJobs
    BY <2>1, Kinds DEF Jobs!Handler
  <2>3. \A i \in Jobs!JobId : h.list[i] = Jobs!NoJob
    BY <2>2 DEF Jobs!NoJobs
  <2>4. Shaped(h) /\ \A js, ts : Exact(h, js, ts)
    BY <2>2, <2>3 DEF Shaped, Exact, Working
  <2> QED
    BY <2>2, <2>4 DEF h
<1>2. Jobs!Returned(g) = Jobs!Idle \/ Jobs!Returned(g) = Jobs!NextWish(g)
  BY DEF Jobs!Returned
<1>3. /\ Jobs!NextJob(g) \in Jobs!Handler /\ Shaped(Jobs!NextJob(g))
      /\ \A js, ts : (\A i \in Jobs!JobId : g.list[i] # Jobs!NoJob =>
                        g.list[i] = js[i] /\ js[i].status = "pending")
                       => Exact(Jobs!NextJob(g), js, ts)
  <2>1. CASE Jobs!NextJob(g) = Jobs!Idle
    BY <2>1, Kinds
  <2>2. CASE Jobs!NextJob(g) # Jobs!Idle
    <3> DEFINE h == Jobs!NextJob(g)
    <3>1. h = [Jobs!Idle EXCEPT !.kind = "tick", !.pc = "take", !.list = g.list]
      BY <2>2 DEF Jobs!NextJob
    <3> HIDE DEF h
    <3>2. h \in Jobs!Handler /\ h.pc = "take" /\ h.list = g.list
      BY <3>1, Kinds DEF Jobs!Handler
    <3>3. /\ Shaped(h)
          /\ \A js, ts : (\A i \in Jobs!JobId : g.list[i] # Jobs!NoJob =>
                            g.list[i] = js[i] /\ js[i].status = "pending") => Exact(h, js, ts)
      BY <3>2 DEF Shaped, Exact, Working
    <3> QED
      BY <3>2, <3>3 DEF h
  <2> QED
    BY <2>1, <2>2
<1> QED
  BY <1>1, <1>2, <1>3, Kinds

-----------------------------------------------------------------------------
(* Steps *)

LEMMA CallKeeps ==
  ASSUME JobsInv, NEW r \in Request, NEW w \in Window, Jobs!Call(r, w)
  PROVE  JobsInv'
<1> DEFINE h == [Jobs!Idle EXCEPT !.kind = "call", !.pc = "find", !.window = w]
<1>1. h \in Jobs!Handler /\ h.pc = "find" /\ h.list = Jobs!NoJobs
  BY Kinds DEF Jobs!Handler
<1>2. Jobs!Begin(r, h) /\ UNCHANGED <<queue, jobs, tries>>
  BY DEF Jobs!Call
<1>3. used.wishes + 1 \in Nat
  BY JobsFacts DEF Jobs!Counters
<1>4. used' = [used EXCEPT !.wishes = used.wishes + 1, !.overlaps = @ + Jobs!Counted(r)]
  BY DEF Jobs!Call
<1> HIDE DEF h
<1>5. \A i \in Jobs!JobId : h.list[i] = Jobs!NoJob
  BY <1>1 DEF Jobs!NoJobs
<1>6. Shaped(h) /\ Exact(h, jobs, tries)
  BY <1>1, <1>5 DEF Shaped, Exact, Working
<1> QED
  BY <1>1, <1>2, <1>3, <1>4, <1>6, JobsFacts, Begins

LEMMA TickKeeps ==
  ASSUME JobsInv, NEW r \in Request, Jobs!Tick(r)
  PROVE  JobsInv'
<1> DEFINE g == [Jobs!Idle EXCEPT !.wishes = queue]
<1>1. g \in Jobs!Handler
  BY JobsFacts, Kinds DEF Jobs!Handler
<1>2. Jobs!Begin(r, Jobs!NextWish(g)) /\ queue' \subseteq Window /\ UNCHANGED <<jobs, tries>>
  BY DEF Jobs!Tick
<1>3. used \in Jobs!Counters
  BY JobsFacts
<1>4. used' = [used EXCEPT !.overlaps = @ + Jobs!Counted(r)]
  BY DEF Jobs!Tick
<1>5. used.wishes \in Nat /\ used' = [used EXCEPT !.wishes = used.wishes, !.overlaps = @ + Jobs!Counted(r)]
  BY <1>3, <1>4 DEF Jobs!Counters
<1> HIDE DEF g
<1> QED
  BY <1>1, <1>2, <1>5, GoesOn, Begins

LEMMA FindKeeps ==
  ASSUME JobsInv, NEW r \in Request, Jobs!Find(r)
  PROVE  JobsInv'
<1>1. PICK w \in Window :
        LET h == [matching[r] EXCEPT !.window = w, !.wishes = @ \ {w}]
        IN  Jobs!Become(r, IF Jobs!Waiting(w) THEN Jobs!Returned(h) ELSE [h EXCEPT !.pc = "insert"])
  BY DEF Jobs!Find
<1> DEFINE g == [matching[r] EXCEPT !.window = w, !.wishes = @ \ {w}]
           f == [g EXCEPT !.pc = "insert"]
<1>2. matching[r] \in Jobs!Handler /\ matching[r].pc = "find" /\ (Apart => Exact(matching[r], jobs, tries))
  BY JobsFacts DEF Jobs!Find, Jobs!At
<1>3. g \in Jobs!Handler /\ g.list = matching[r].list
  BY <1>2 DEF Jobs!Handler
<1>4. PICK h \in {Jobs!Returned(g), f} : Jobs!Become(r, h)
  BY <1>1
<1> HIDE DEF g
<1>5. f \in Jobs!Handler /\ f.pc = "insert" /\ f.list = matching[r].list
  BY <1>3 DEF Jobs!Handler
<1> HIDE DEF f
<1>6. Shaped(f) /\ (Apart => Exact(f, jobs, tries))
  BY <1>2, <1>5 DEF Shaped, Exact, Working
<1>7. h \in Jobs!Handler /\ Shaped(h) /\ (Apart => Exact(h, jobs, tries))
  BY <1>3, <1>4, <1>5, <1>6, GoesOn
<1>8. UNCHANGED <<queue, jobs, tries>> /\ used' = used
  BY DEF Jobs!Find
<1>9. matching[r].pc # "idle" /\ \A i : ~ Works(matching[r], i)
  BY <1>2 DEF Works, Working
<1> QED
  BY <1>4, <1>7, <1>8, <1>9, JobsFacts, JobsMovesOnly

LEMMA JobsInsertKeeps ==
  ASSUME JobsInv, NEW r \in Request, Jobs!Insert(r)
  PROVE  JobsInv'
<1>1. PICK i \in Jobs!JobId : jobs[i].status = "none" /\ jobs' = [jobs EXCEPT ![i] = Jobs!NewJob(matching[r].window)]
  BY DEF Jobs!Insert, Jobs!Has, Jobs!Save
<1> DEFINE e == Jobs!NewJob(matching[r].window)
<1>2. /\ matching[r] \in Jobs!Handler /\ matching[r].pc = "insert"
      /\ jobs \in [Jobs!JobId -> Jobs!Job] /\ (Apart => Counts(jobs, tries))
  BY JobsFacts DEF Jobs!Insert, Jobs!At
<1>3. e \in Jobs!Job /\ e.status = "pending" /\ e.attemptCount = 0
  BY <1>2, Kinds DEF Jobs!NewJob, Jobs!NoJob, Jobs!Job, Jobs!Handler
<1> HIDE DEF e
<1>4. /\ jobs' \in [Jobs!JobId -> Jobs!Job] /\ jobs'[i] = e
      /\ \A j \in Jobs!JobId \ {i} : jobs'[j] = jobs[j]
  BY <1>1, <1>2, <1>3 DEF e
<1>5. Jobs!Become(r, Jobs!Returned(matching[r])) /\ UNCHANGED <<queue, tries, used>>
  BY DEF Jobs!Insert
<1>6. /\ Jobs!Returned(matching[r]) \in Jobs!Handler /\ Shaped(Jobs!Returned(matching[r]))
      /\ Exact(Jobs!Returned(matching[r]), jobs', tries')
  BY <1>2, GoesOn
<1>7. Apart' => Counts(jobs', tries')
  BY <1>1, <1>2, <1>3, <1>4, <1>5, LimitAssumption DEF Apart, Counts
<1>8. Apart' => \A q \in Request \ {r} : matching[q] = Jobs!Idle
  BY <1>2, <1>5, JobsFacts DEF Apart
<1>9. \A j \in Jobs!JobId : jobs'[j].status = "running" => jobs[j].status = "running" /\ ~ Works(matching[r], j)
  BY <1>2, <1>3, <1>4 DEF Works, Working
<1> QED
  BY <1>4, <1>5, <1>6, <1>7, <1>8, <1>9, JobsFacts, JobsOneMoves

LEMMA ListKeeps ==
  ASSUME JobsInv, NEW r \in Request, Jobs!List(r)
  PROVE  JobsInv'
<1> DEFINE l == [i \in Jobs!JobId |-> IF Jobs!Listed(i) THEN jobs[i] ELSE Jobs!NoJob]
           g == [matching[r] EXCEPT !.list = l]
<1>1. matching[r] \in Jobs!Handler /\ matching[r].pc = "list" /\ jobs \in [Jobs!JobId -> Jobs!Job]
  BY JobsFacts DEF Jobs!List, Jobs!At
<1>2. /\ l \in [Jobs!JobId -> Jobs!Job]
      /\ \A i \in Jobs!JobId : l[i] # Jobs!NoJob => l[i] = jobs[i] /\ jobs[i].status = "pending"
  BY <1>1, Kinds DEF Jobs!Listed, Jobs!Has
<1>3. Jobs!Become(r, Jobs!NextJob(g)) /\ UNCHANGED <<queue, jobs, tries>> /\ used' = used
  BY DEF Jobs!List
<1> HIDE DEF l
<1>4. g \in Jobs!Handler /\ g.list = l
  BY <1>1, <1>2 DEF Jobs!Handler
<1> HIDE DEF g
<1>5. Jobs!NextJob(g) \in Jobs!Handler /\ Shaped(Jobs!NextJob(g)) /\ Exact(Jobs!NextJob(g), jobs, tries)
  BY <1>2, <1>4, GoesOn
<1>6. matching[r].pc # "idle" /\ \A i : ~ Works(matching[r], i)
  BY <1>1 DEF Works, Working
<1> QED
  BY <1>3, <1>5, <1>6, JobsFacts, JobsMovesOnly

LEMMA TakeKeeps ==
  ASSUME JobsInv, NEW r \in Request, Jobs!Take(r)
  PROVE  JobsInv'
<1>1. PICK i \in Jobs!Left(matching[r]) :
        LET e == Jobs!Taken(matching[r].list[i])
        IN  /\ jobs' = [jobs EXCEPT ![i] = e]
            /\ tries' = [tries EXCEPT ![i] = @ + 1]
            /\ Jobs!Become(r, [matching[r] EXCEPT !.pc = "work", !.id = i, !.job = e, !.list[i] = Jobs!NoJob])
  BY DEF Jobs!Take, Jobs!Save
<1> DEFINE o == matching[r].list[i]
           e == Jobs!Taken(o)
           h == [matching[r] EXCEPT !.pc = "work", !.id = i, !.job = e, !.list[i] = Jobs!NoJob]
<1>2. /\ matching[r] \in Jobs!Handler /\ matching[r].pc = "take" /\ used \in Jobs!Counters
      /\ jobs \in [Jobs!JobId -> Jobs!Job] /\ tries \in [Jobs!JobId -> Nat] /\ queue \subseteq Window
      /\ (Apart => Counts(jobs, tries) /\ Exact(matching[r], jobs, tries))
  BY JobsFacts DEF Jobs!Take, Jobs!At
<1>3. i \in Jobs!JobId /\ o # Jobs!NoJob /\ o \in Jobs!Job
  BY <1>2 DEF Jobs!Left, Jobs!Handler
<1>4. e \in Jobs!Job /\ e.status = "running" /\ e.attemptCount = o.attemptCount + 1
  <2> DEFINE n == o.attemptCount + 1
  <2>1. n \in Nat
    BY <1>3 DEF Jobs!Job
  <2>2. e = [o EXCEPT !.status = "running", !.attemptCount = n]
    BY DEF Jobs!Taken
  <2> HIDE DEF n, e, o
  <2>3. e \in Jobs!Job /\ e.status = "running" /\ e.attemptCount = n
    BY <1>3, <2>1, <2>2 DEF Jobs!Job
  <2> QED
    BY <2>3 DEF n
<1>5. /\ jobs' = [jobs EXCEPT ![i] = e] /\ tries' = [tries EXCEPT ![i] = @ + 1] /\ Jobs!Become(r, h)
      /\ UNCHANGED <<queue, used>>
  BY <1>1 DEF Jobs!Take
<1> HIDE DEF o, e
<1>6. /\ h \in Jobs!Handler /\ h.pc = "work" /\ h.id = i /\ h.job = e /\ h.list[i] = Jobs!NoJob
      /\ \A j \in Jobs!JobId \ {i} : h.list[j] = matching[r].list[j]
  BY <1>2, <1>3, <1>4, Kinds DEF Jobs!Handler
<1> HIDE DEF h
<1>7. /\ jobs' \in [Jobs!JobId -> Jobs!Job] /\ jobs'[i] = e /\ tries' \in [Jobs!JobId -> Nat]
      /\ tries'[i] = tries[i] + 1
      /\ \A j \in Jobs!JobId \ {i} : jobs'[j] = jobs[j] /\ tries'[j] = tries[j]
  BY <1>2, <1>3, <1>4, <1>5
<1>8. Shaped(h) /\ Works(h, i) /\ \A j : ~ Works(matching[r], j)
  BY <1>2, <1>3, <1>6 DEF Shaped, Works, Working
<1>9. ASSUME Apart'
      PROVE  /\ \A q \in Request \ {r} : matching[q] = Jobs!Idle
             /\ Counts(jobs', tries') /\ Exact(h, jobs', tries')
  <2>1. Apart
    BY <1>5, <1>9 DEF Apart
  <2>2. o = jobs[i] /\ jobs[i].status = "pending"
    BY <1>2, <1>3, <2>1 DEF Exact, o
  <2>3. e.attemptCount = tries'[i] /\ tries'[i] <= MaxAttempts
    BY <1>2, <1>3, <1>4, <1>7, <2>1, <2>2, LimitAssumption DEF Counts
  <2>4. Counts(jobs', tries')
    BY <1>2, <1>4, <1>7, <2>1, <2>3 DEF Counts
  <2>5. Exact(h, jobs', tries')
    BY <1>2, <1>3, <1>6, <1>7, <2>1, <2>3 DEF Exact, Working
  <2> QED
    BY <1>2, <2>1, <2>4, <2>5, JobsFacts
<1>10. \A j \in Jobs!JobId : jobs'[j].status = "running" =>
         Works(h, j) \/ (jobs[j].status = "running" /\ ~ Works(matching[r], j))
  BY <1>7, <1>8
<1> QED
  BY <1>2, <1>5, <1>6, <1>7, <1>8, <1>9, <1>10, JobsOneMoves

LEMMA AttemptKeeps ==
  ASSUME JobsInv, NEW r \in Request, Jobs!Work(r) \/ Jobs!WorkThrows(r)
  PROVE  JobsInv'
<1>1. matching[r] \in Jobs!Handler /\ Shaped(matching[r]) /\ used \in Jobs!Counters /\ (Apart => Exact(matching[r], jobs, tries))
      /\ (Apart => Counts(jobs, tries))
      /\ matching[r].pc \in {"work", "finish"}
  BY JobsFacts DEF Jobs!Work, Jobs!WorkThrows, Jobs!At
<1>2. PICK pc \in {"finish", "giveBack"}, s \in {"done", "failed", "pending"} :
        /\ Jobs!Become(r, [matching[r] EXCEPT !.pc = pc, !.job = [@ EXCEPT !.status = s]])
        /\ pc = "finish" => s = "done"
        /\ pc = "giveBack" => (s = "pending" => ~ (matching[r].job.attemptCount >= MaxAttempts))
  <2>1. CASE Jobs!Work(r)
    BY <2>1 DEF Jobs!Work
  <2>2. CASE Jobs!WorkThrows(r)
    BY <2>2 DEF Jobs!WorkThrows, Jobs!AfterError
  <2> QED
    BY <2>1, <2>2
<1> DEFINE e == [matching[r].job EXCEPT !.status = s]
           h == [matching[r] EXCEPT !.pc = pc, !.job = e]
<1>3. e \in Jobs!Job /\ e.status = s /\ e.attemptCount = matching[r].job.attemptCount
  BY <1>1 DEF Jobs!Handler, Jobs!Job
<1>4. Jobs!Become(r, h)
  BY <1>2
<1> HIDE DEF e
<1>5. h \in Jobs!Handler /\ h.pc = pc /\ h.id = matching[r].id /\ h.job = e /\ h.list = matching[r].list
  BY <1>1, <1>3 DEF Jobs!Handler
<1> HIDE DEF h
<1>6. Shaped(h) /\ \A i \in Jobs!JobId : Works(matching[r], i) => Works(h, i)
  BY <1>1, <1>3, <1>5 DEF Shaped, Works, Working
<1>7. ASSUME Apart PROVE Exact(h, jobs, tries)
  <2>1. h.pc \in Working => h.list[h.id] = Jobs!NoJob /\ h.job.attemptCount = tries[h.id]
    BY <1>1, <1>3, <1>5, <1>7 DEF Exact, Working
  <2>2. h.pc = "giveBack" /\ h.job.status = "pending" => h.job.attemptCount < MaxAttempts
    <3>1. e.attemptCount \in Nat
      BY <1>3 DEF Jobs!Job
    <3> QED
      BY <1>2, <1>3, <1>5, <3>1, LimitAssumption
  <2> QED
    BY <1>1, <1>2, <1>3, <1>5, <1>7, <2>1, <2>2 DEF Exact
<1>8. used' \in Jobs!Counters /\ used'.failures = used.failures /\ used'.overlaps = used.overlaps
  BY <1>1 DEF Jobs!Work, Jobs!WorkThrows, Jobs!Counters
<1>9. UNCHANGED <<queue, jobs, tries>>
  BY DEF Jobs!Work, Jobs!WorkThrows
<1> QED
  BY <1>1, <1>4, <1>5, <1>6, <1>7, <1>8, <1>9, JobsMovesOnly

LEMMA FinishKeeps ==
  ASSUME JobsInv, NEW r \in Request, Jobs!Finish(r)
  PROVE  JobsInv'
<1> DEFINE i == matching[r].id
           e == matching[r].job
<1>1. /\ matching[r] \in Jobs!Handler /\ Shaped(matching[r]) /\ used \in Jobs!Counters
      /\ jobs \in [Jobs!JobId -> Jobs!Job] /\ tries \in [Jobs!JobId -> Nat] /\ queue \subseteq Window
      /\ (Apart => Counts(jobs, tries) /\ Exact(matching[r], jobs, tries))
      /\ matching[r].pc \in {"finish", "giveBack"}
  BY JobsFacts DEF Jobs!Finish, Jobs!At
<1>2. i \in Jobs!JobId /\ e \in Jobs!Job /\ e.status # "running"
  BY <1>1 DEF Shaped, Jobs!Handler, Working
<1>3. jobs' = [jobs EXCEPT ![i] = e] /\ Jobs!Become(r, Jobs!NextJob(matching[r])) /\ UNCHANGED <<queue, tries, used>>
  BY DEF Jobs!Finish, Jobs!Save
<1>4. jobs' \in [Jobs!JobId -> Jobs!Job] /\ jobs'[i] = e /\ \A j \in Jobs!JobId \ {i} : jobs'[j] = jobs[j]
  BY <1>1, <1>2, <1>3
<1>5. Jobs!NextJob(matching[r]) \in Jobs!Handler /\ Shaped(Jobs!NextJob(matching[r]))
  BY <1>1, GoesOn
<1>6. ASSUME Apart'
      PROVE  /\ \A q \in Request \ {r} : matching[q] = Jobs!Idle
             /\ Counts(jobs', tries') /\ Exact(Jobs!NextJob(matching[r]), jobs', tries')
  <2>1. Apart
    BY <1>3, <1>6 DEF Apart
  <2>2. /\ e.attemptCount = tries[i] /\ matching[r].list[i] = Jobs!NoJob /\ e.status # "none"
    BY <1>1, <2>1 DEF Exact, Working
  <2>3. e.status = "pending" => e.attemptCount < MaxAttempts
    BY <1>1, <2>1 DEF Exact
  <2>4. Counts(jobs', tries')
    BY <1>1, <1>3, <1>4, <2>1, <2>2, <2>3 DEF Counts
  <2>5. \A j \in Jobs!JobId : matching[r].list[j] # Jobs!NoJob =>
          matching[r].list[j] = jobs'[j] /\ jobs'[j].status = "pending"
    BY <1>1, <1>4, <2>1, <2>2 DEF Exact
  <2>6. Exact(Jobs!NextJob(matching[r]), jobs', tries')
    BY <1>1, <2>5, GoesOn
  <2> QED
    BY <1>1, <2>1, <2>4, <2>6, JobsFacts
<1>7. \A j \in Jobs!JobId : jobs'[j].status = "running" => jobs[j].status = "running" /\ ~ Works(matching[r], j)
  BY <1>1, <1>2, <1>4 DEF Works
<1> HIDE DEF i, e
<1> QED
  BY <1>1, <1>3, <1>4, <1>5, <1>6, <1>7, JobsOneMoves

LEMMA JobsFailKeeps ==
  ASSUME JobsInv, NEW rs \in SUBSET Request, Jobs!Fail(rs), queue' \subseteq Window
  PROVE  JobsInv'
<1>1. /\ used' = [used EXCEPT !.failures = @ + 1]
      /\ matching' = [r \in Request |-> IF r \in rs THEN Jobs!Idle ELSE matching[r]]
      /\ UNCHANGED <<jobs, tries>>
  BY DEF Jobs!Fail
<1>2. used \in Jobs!Counters
  BY DEF JobsInv, Jobs!TypeOK
<1>3. used' \in Jobs!Counters /\ used'.failures # 0
  BY <1>1, <1>2 DEF Jobs!Counters
<1>4. \A r \in Request : matching'[r] \in Jobs!Handler /\ Shaped(matching'[r])
  BY <1>1, Kinds, JobsFacts
<1>5. Jobs!TypeOK'
  BY <1>1, <1>3, <1>4 DEF JobsInv, Jobs!TypeOK
<1> QED
  BY <1>3, <1>4, <1>5 DEF JobsInv, Apart

-----------------------------------------------------------------------------
(* Theorems *)

LEMMA JobsInitIInv ==
  ASSUME Jobs!Init
  PROVE  JobsInv
<1>1. /\ jobs = Jobs!NoJobs /\ \A i \in Jobs!JobId : jobs[i] = Jobs!NoJob /\ tries[i] = 0
      /\ \A r \in Request : matching[r] = Jobs!Idle
  BY DEF Jobs!Init, Jobs!NoJobs
<1>2. used \in Jobs!Counters
  BY DEF Jobs!Init, Jobs!Counters
<1>3. Jobs!TypeOK
  BY <1>1, <1>2, Kinds DEF Jobs!Init, Jobs!TypeOK
<1>4. Jobs!NoJob.status = "none" /\ Jobs!NoJob.attemptCount = 0
  BY DEF Jobs!NoJob
<1>5. Counts(jobs, tries)
  BY <1>1, <1>4, LimitAssumption DEF Counts
<1> QED
  BY <1>1, <1>3, <1>4, <1>5, Kinds DEF JobsInv

LEMMA JobsInductive ==
  ASSUME JobsInv, [Jobs!Next]_(Jobs!vars)
  PROVE  JobsInv'
<1>1. ASSUME NEW w \in Window, Jobs!Wish(w) PROVE JobsInv'
  <2>1. used \in Jobs!Counters /\ used' = [used EXCEPT !.wishes = @ + 1]
    BY <1>1 DEF Jobs!Wish, JobsInv, Jobs!TypeOK
  <2>2. /\ used' \in Jobs!Counters /\ used'.failures = used.failures
        /\ used'.overlaps = used.overlaps
    BY <2>1 DEF Jobs!Counters
  <2>3. queue' \in SUBSET Window /\ UNCHANGED <<jobs, tries, matching>>
    BY <1>1 DEF Jobs!Wish, JobsInv, Jobs!TypeOK
  <2> QED
    BY <2>2, <2>3 DEF JobsInv, Jobs!TypeOK, Apart
<1>2. ASSUME NEW r \in Request, Jobs!Step(r) PROVE JobsInv'
  BY <1>2, FindKeeps, JobsInsertKeeps, ListKeeps, TakeKeeps, AttemptKeeps, FinishKeeps DEF Jobs!Step
<1>3. ASSUME NEW r \in Request, Jobs!CallThrows(r) PROVE JobsInv'
  BY <1>3, JobsFailKeeps DEF Jobs!CallThrows, JobsInv, Jobs!TypeOK
<1>4. ASSUME Jobs!Crash PROVE JobsInv'
  BY <1>4, JobsFailKeeps DEF Jobs!Crash
<1>5. CASE UNCHANGED Jobs!vars
  BY <1>5 DEF Jobs!vars, JobsInv, Jobs!TypeOK, Apart
<1> QED
  BY <1>1, <1>2, <1>3, <1>4, <1>5, CallKeeps, TickKeeps DEF Jobs!Next
-----------------------------------------------------------------------------
(* Side by side *)

LEMMA BothInductive ==
  /\ BothInit => IInv /\ JobsInv
  /\ (IInv /\ JobsInv) /\ [BothNext]_bothVars => (IInv /\ JobsInv)'
<1>1. BothInit => IInv /\ JobsInv
  BY InitIInv, JobsInitIInv DEF BothInit
<1>2. ASSUME IInv, JobsInv, [BothNext]_bothVars PROVE IInv' /\ JobsInv'
  <2>1. [Next]_vars /\ [Jobs!Next]_(Jobs!vars)
    BY <1>2 DEF BothNext, bothVars, jobVars, Jobs!vars
  <2> QED
    BY <1>2, <2>1, Inductive, JobsInductive
<1> QED
  BY <1>1, <1>2

(* Devices, rows, samples, the queue, the jobs and all handlers keep their types. *)
THEOREM TypeCorrect == BothSpec => []BothTypeOK
<1>1. IInv /\ JobsInv => BothTypeOK
  BY DEF IInv, JobsInv, BothTypeOK
<1> QED
  BY <1>1, BothInductive, PTL DEF BothSpec

(* The trip a device is on, and the trip a row says has ended, have their     *)
(* TripStart among the rows: however batches, consents and enrolments overlap *)
(* and wherever the process ends.                                             *)
THEOREM TripsStarted == BothSpec => []TripsWereStarted
<1>1. IInv => TripsWereStarted
  BY DEF IInv, TripsWereStarted, Covered, EndsCovered, Started
<1> QED
  BY <1>1, BothInductive, PTL DEF BothSpec

(* As long as the process lives, a job that says running is being worked on, *)
(* and no job is begun more often than the limit unless ticks overlap.       *)
THEOREM AttemptsComeToAnEnd == BothSpec => []AttemptsEnd
<1>1. JobsInv => AttemptsEnd
  BY DEF JobsInv, AttemptsEnd, Jobs!AttemptsEnd, Apart, Counts, Works, Working, Jobs!Holds,
         Jobs!Has, Jobs!At
<1> QED
  BY <1>1, BothInductive, PTL DEF BothSpec
=============================================================================
