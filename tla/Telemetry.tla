------------------------------ MODULE Telemetry -----------------------------
(***************************************************************************)
(* Telematics of one driver (apps/api/src/modules/fleet/telematics:        *)
(* TelemetryDeviceGuard, TelemetryApplicationService,                      *)
(* TelemetryMotionInterpreter): his devices, his consent, and the trips,   *)
(* stops, idling and speeding derived from the samples a device sends.     *)
(*                                                                         *)
(* The guard reads the device; the interpreter works on that entity in     *)
(* memory, one sample after the other; the events it has derived are       *)
(* saved, and then the whole entity, trip, timers and consent flags        *)
(* together.  Every await is a step; a sample of the loop is one too, but  *)
(* touches only the handler.                                               *)
(***************************************************************************)
EXTENDS Naturals, Sequences, FiniteSets

CONSTANTS
  Request,      \* handlers that may be in flight at once
  Gap,          \* time between two samples of a device
  IdleAfter,    \* TELEMETRY_IDLE_START_SECONDS
  EngineAfter,  \* TELEMETRY_ENGINE_IDLE_SUSPECT_SECONDS
  Cooldown,     \* TELEMETRY_SPEED_EXCEEDED_COOLDOWN_MS
  MaxDevices,   \* bound of the enrolments
  Limits        \* bounds of the samples of a device, the batches, the driver's calls, the
                \* failures and the handlers begun while another is in flight

ASSUME BoundAssumption ==
  /\ Gap \subseteq Nat /\ MaxDevices \in Nat \ {0}
  /\ {IdleAfter, EngineAfter, Cooldown} \subseteq Nat

VARIABLES
  devices,   \* rows of fleet_telemetry_devices
  events,    \* derived rows of fleet_telemetry_events, by device
  consent,   \* action of the latest row of fleet_telemetry_consent_log
  drive,     \* history: the samples a device has sent
  req,       \* the handlers in flight and what they hold in memory
  limit,     \* the bounds of this behaviour, one of Limits
  spent      \* how much of them is used up

vars == <<devices, events, consent, drive, req, limit, spent>>

-----------------------------------------------------------------------------
(* Samples, events and devices *)

DeviceId == 1 .. MaxDevices

\* Up to 5, up to 8 km/h, more, and more than the limit.
Speed == {"stopped", "creeping", "moving", "speeding"}
Moving(v) == v \in {"moving", "speeding"}
Sample == [at : Nat, speed : Speed]

\* A trip is numbered by the batch and the sample that have started it.
Trip == Nat \X Nat
NoTrip == <<0, 0>>

EventType == {"TripStart", "TripEnd", "StopDetected", "IdleStart", "IdleEnd",
              "EngineIdleSuspected", "SpeedExceeded"}
Event == [type : EventType, at : Nat, trip : Trip]

\* activeTripCorrelationId and interpreterStateJson.  engineIdleSinceMs is set
\* and cleared with stopSinceMs.
Motion == [trip : Trip, stopSince : Nat, idle : BOOLEAN, engineIdle : BOOLEAN, lastExceeded : Nat]

Still == [trip |-> NoTrip, stopSince |-> 0, idle |-> FALSE, engineIdle |-> FALSE, lastExceeded |-> 0]

Device == [status : {"none", "on", "off"},   \* on: trackingEnabled and not consentRevokedAt
           motion : Motion]

NoDevice == [status |-> "none", motion |-> Still]
NewDevice == [NoDevice EXCEPT !.status = "on"]

Handler == [kind : {"none", "ingest", "grant", "revoke", "enroll"},
            pc : {"idle", "first", "sample", "events", "device", "save", "others", "insert", "log"},
            id : DeviceId \union {0},         \* the device
            device : Device,                  \* its entity
            others : [DeviceId -> Device],    \* the entities an enrolment switches off
            batch : Nat,                      \* the number of the batch
            out : SUBSET Event]               \* the rows derived so far

NoDevices == [d \in DeviceId |-> NoDevice]
Idle == [kind |-> "none", pc |-> "idle", id |-> 0, device |-> NoDevice, others |-> NoDevices,
         batch |-> 0, out |-> {}]

Counters == [batches : Nat, calls : Nat, failures : Nat, overlaps : Nat]

TypeOK ==
  /\ devices \in [DeviceId -> Device]
  /\ events \in [DeviceId -> SUBSET Event]
  /\ consent \in {"ENROLL", "GRANT", "REVOKE"}
  /\ drive \in [DeviceId -> Seq(Sample)]
  /\ req \in [Request -> Handler]
  /\ limit \in Limits
  /\ spent \in Counters

\* The driver has enrolled his first device.
Init ==
  /\ devices = [d \in DeviceId |-> IF d = 1 THEN NewDevice ELSE NoDevice]
  /\ events = [d \in DeviceId |-> {}]
  /\ consent = "ENROLL"
  /\ drive = [d \in DeviceId |-> <<>>]
  /\ req = [r \in Request |-> Idle]
  /\ limit \in Limits
  /\ spent = [batches |-> 0, calls |-> 0, failures |-> 0, overlaps |-> 0]

At(r, pc) == req[r].pc = pc
Become(r, h) == req' = [req EXCEPT ![r] = h]
On(d) == devices[d].status = "on"

Overlaps(r) == \E q \in Request \ {r} : req[q] # Idle

Begin(r, h, call) ==
  /\ req[r] = Idle
  /\ Become(r, h)
  /\ Overlaps(r) => spent.overlaps < limit.overlaps
  /\ IF call THEN spent.calls < limit.calls ELSE spent.batches < limit.batches
  /\ spent' = [spent EXCEPT !.overlaps = IF Overlaps(r) THEN @ + 1 ELSE @,
                            !.calls = IF call THEN @ + 1 ELSE @,
                            !.batches = IF call THEN @ ELSE @ + 1]
  /\ UNCHANGED <<devices, events, consent, drive, limit>>

-----------------------------------------------------------------------------
(* TelemetryMotionInterpreter.interpretBatch, for one sample v at time t that *)
(* finds motion m; f numbers a trip that starts with it.                      *)

Cleared(m) == [m EXCEPT !.stopSince = 0, !.idle = FALSE, !.engineIdle = FALSE]

\* What trackIdleAndEngine goes by: the timers are cleared when the trip ends.
Resting(m) == IF m.trip = NoTrip THEN m ELSE Cleared([m EXCEPT !.trip = NoTrip])
Since(m, t) == IF m.stopSince = 0 THEN t ELSE m.stopSince

StartsTrip(m, v) == Moving(v) /\ m.trip = NoTrip
EndsTrip(m, v) == ~ Moving(v) /\ m.trip # NoTrip

LongEnough(m, t, n, noted) == ~ noted /\ t - Since(m, t) >= n

Exceeds(m, v, t) == v = "speeding" /\ (m.lastExceeded = 0 \/ t - m.lastExceeded >= Cooldown)

Happens(type, m, v, t) ==
  LET rest == Resting(m)
  IN  CASE type = "TripStart" -> StartsTrip(m, v)
        [] type \in {"TripEnd", "StopDetected"} -> EndsTrip(m, v)
        [] type = "IdleStart" -> v = "stopped" /\ LongEnough(rest, t, IdleAfter, rest.idle)
        [] type = "IdleEnd" -> v = "creeping" /\ rest.idle
        [] type = "EngineIdleSuspected" ->
             v = "stopped" /\ LongEnough(rest, t, EngineAfter, rest.engineIdle)
        [] type = "SpeedExceeded" -> Exceeds(m, v, t)

TripNow(m, v, f) == IF StartsTrip(m, v) THEN f ELSE m.trip

\* The trip a row is noted with; that of a row about idling has ended.
TripFor(type, m, v, f) ==
  IF type \in {"IdleStart", "IdleEnd", "EngineIdleSuspected"} THEN NoTrip ELSE TripNow(m, v, f)

Derived(m, v, t, f) ==
  {[type |-> y, at |-> t, trip |-> TripFor(y, m, v, f)] :
     y \in {x \in EventType : Happens(x, m, v, t)}}

AfterMoving(m, v, t, f) ==
  [Cleared(m) EXCEPT !.trip = TripNow(m, v, f),
                     !.lastExceeded = IF Exceeds(m, v, t) THEN t ELSE @]

AfterStopped(rest, t) ==
  [rest EXCEPT !.stopSince = Since(rest, t),
               !.idle = @ \/ LongEnough(rest, t, IdleAfter, @),
               !.engineIdle = @ \/ LongEnough(rest, t, EngineAfter, @)]

After(m, v, t, f) ==
  CASE Moving(v) -> AfterMoving(m, v, t, f)
    [] v = "creeping" -> Cleared(Resting(m))
    [] v = "stopped" -> AfterStopped(Resting(m), t)

-----------------------------------------------------------------------------
(* The guard and ingestBatch *)

Ingest(r, d) ==
  /\ On(d) /\ Len(drive[d]) < limit.samples
  /\ Begin(r, [Idle EXCEPT !.kind = "ingest", !.pc = "first", !.id = d, !.device = devices[d],
                           !.batch = spent.batches + 1], FALSE)

LastAt(d) == IF drive[d] = <<>> THEN 0 ELSE drive[d][Len(drive[d])].at

\* The next sample of the batch, which has one at least.
Interpret(r, g, v) ==
  /\ (At(r, "first") \/ At(r, "sample")) /\ Len(drive[req[r].id]) < limit.samples
  /\ LET h == req[r]
         m == h.device.motion
         t == LastAt(h.id) + g
         f == <<h.batch, t>>
     IN  /\ drive' = [drive EXCEPT ![h.id] = Append(@, [at |-> t, speed |-> v])]
         /\ Become(r, [h EXCEPT !.pc = "sample", !.device.motion = After(m, v, t, f),
                                !.out = @ \union Derived(m, v, t, f)])
  /\ UNCHANGED <<devices, events, consent, limit, spent>>

\* First the device, then the events.
Order_DeviceFirst == <<"device", "events">>
Order == <<"events", "device">>

Following(pc) ==
  IF pc = Order[2] THEN "idle" ELSE IF pc = Order[1] THEN Order[2] ELSE Order[1]
GoOn(r) == Become(r, IF Following(req[r].pc) = "idle" THEN Idle ELSE [req[r] EXCEPT !.pc = Following(@)])

\* The batch is at its end.
Interpreted(r) ==
  /\ At(r, "sample")
  /\ GoOn(r)
  /\ UNCHANGED <<devices, events, consent, drive, limit, spent>>

SaveEvents(r) ==
  /\ At(r, "events")
  /\ events' = [events EXCEPT ![req[r].id] = @ \union req[r].out]
  /\ GoOn(r)
  /\ UNCHANGED <<devices, consent, drive, limit, spent>>

\* The timers are left out of the save, all but the trip; the motion is saved
\* with a field too few.
Kept_Trip(e) == [e EXCEPT !.motion = [Still EXCEPT !.trip = e.motion.trip]]
Kept_Bare(e) == [e EXCEPT !.motion = [trip |-> e.motion.trip]]
Kept(e) == e

SaveDevice(r) ==
  /\ At(r, "device")
  /\ devices' = [devices EXCEPT ![req[r].id] = Kept(req[r].device)]
  /\ GoOn(r)
  /\ UNCHANGED <<events, consent, drive, limit, spent>>

-----------------------------------------------------------------------------
(* grantConsent, revokeConsent, enrollDevice *)

\* findPrimaryDevice: of several devices that are on, the one seen last; which
\* one that is is left open.
Primary(d) == On(d)
NoPrimary == \A d \in DeviceId : ~ On(d)

Consent(r, kind, d, status) ==
  /\ Primary(d)
  /\ Begin(r, [Idle EXCEPT !.kind = kind, !.pc = "save", !.id = d,
                           !.device = [devices[d] EXCEPT !.status = status]], TRUE)

\* Without a device that is on, only the log is written.
Grant(r) ==
  \/ \E d \in DeviceId : Consent(r, "grant", d, "on")
  \/ NoPrimary /\ Begin(r, [Idle EXCEPT !.kind = "grant", !.pc = "log"], TRUE)

\* Without a device that is on there is nothing to revoke: the call is refused.
Revoke(r) == \E d \in DeviceId : Consent(r, "revoke", d, "off")

SaveConsent(r) ==
  /\ At(r, "save")
  /\ devices' = [devices EXCEPT ![req[r].id] = req[r].device]
  /\ Become(r, [req[r] EXCEPT !.pc = "log"])
  /\ UNCHANGED <<events, consent, drive, limit, spent>>

Known(d) == devices[d].status # "none"
NextDevice(d) == ~ Known(d) /\ \A e \in DeviceId : e < d => Known(e)

\* The devices there are stay on.
SwitchedOff_Not(e) == e
SwitchedOff(e) == IF e.status = "none" THEN e ELSE [e EXCEPT !.status = "off"]

Enroll(r) ==
  /\ \E d \in DeviceId : ~ Known(d)
  /\ Begin(r, [Idle EXCEPT !.kind = "enroll", !.pc = "others",
                           !.others = [d \in DeviceId |-> SwitchedOff(devices[d])]], TRUE)

\* One save of all that were found.
SaveOthers(r) ==
  /\ At(r, "others")
  /\ devices' = [d \in DeviceId |-> IF req[r].others[d] = NoDevice THEN devices[d] ELSE req[r].others[d]]
  /\ Become(r, [Idle EXCEPT !.kind = "enroll", !.pc = "insert"])
  /\ UNCHANGED <<events, consent, drive, limit, spent>>

Insert(r) ==
  /\ At(r, "insert")
  /\ \E d \in DeviceId :
       NextDevice(d) /\ devices' = [devices EXCEPT ![d] = NewDevice]
  /\ Become(r, [req[r] EXCEPT !.pc = "log"])
  /\ UNCHANGED <<events, consent, drive, limit, spent>>

Log(r) ==
  /\ At(r, "log")
  /\ consent' = CASE req[r].kind = "grant" -> "GRANT"
                  [] req[r].kind = "revoke" -> "REVOKE"
                  [] req[r].kind = "enroll" -> "ENROLL"
  /\ Become(r, Idle)
  /\ UNCHANGED <<devices, events, drive, limit, spent>>

-----------------------------------------------------------------------------
(* A call throws, or the process ends: a handler is gone, or all are, and     *)
(* what they have saved stays.                                                *)

Fail(rs) ==
  /\ \E r \in rs : req[r] # Idle
  /\ spent.failures < limit.failures
  /\ spent' = [spent EXCEPT !.failures = @ + 1]
  /\ req' = [r \in Request |-> IF r \in rs THEN Idle ELSE req[r]]
  /\ UNCHANGED <<devices, events, consent, drive, limit>>

CallThrows(r) == Fail({r})
Crash == Fail(Request)

-----------------------------------------------------------------------------
Start(r) ==
  \/ \E d \in DeviceId : Ingest(r, d)
  \/ Grant(r) \/ Revoke(r) \/ Enroll(r)

Step(r) ==
  \/ \E g \in Gap, v \in Speed : Interpret(r, g, v)
  \/ Interpreted(r) \/ SaveEvents(r) \/ SaveDevice(r)
  \/ SaveConsent(r) \/ SaveOthers(r) \/ Insert(r) \/ Log(r)

Next ==
  \/ \E r \in Request : Start(r) \/ Step(r) \/ CallThrows(r)
  \/ Crash

Spec == Init /\ [][Next]_vars

-----------------------------------------------------------------------------
(* Properties *)

Quiet == \A r \in Request : req[r] = Idle
Undisturbed == Quiet /\ spent.overlaps = 0 /\ spent.failures = 0

\* What the samples of a whole drive mean, without a state and without batches.
Stopped(d, k) == drive[d][k].speed = "stopped"
MovingAt(d, k) == k > 0 /\ Moving(drive[d][k].speed)

\* The sample the rest that includes sample k began with.
RestBegan(d, k) ==
  CHOOSE j \in 1 .. k : /\ \A i \in j .. k : Stopped(d, i)
                        /\ j = 1 \/ ~ Stopped(d, j - 1)

RestedFor(d, k, n) ==
  Stopped(d, k) /\ drive[d][k].at - drive[d][RestBegan(d, k)].at >= n
RestReaches(d, k, n) == RestedFor(d, k, n) /\ (k = 1 \/ ~ RestedFor(d, k - 1, n))

Noted(d, k, type) == \E e \in events[d] : e.at = drive[d][k].at /\ e.type = type

\* However a drive is cut into batches, the rows noted of it are those of the
\* whole: a trip between the first moving sample and the first that is not, the
\* first sample of a rest that is long enough, the end of such a rest, and
\* speeding but for the cooldown.
DriveIsNoted ==
  Undisturbed =>
    \A d \in DeviceId : \A k \in DOMAIN drive[d] :
      /\ Noted(d, k, "TripStart") <=> MovingAt(d, k) /\ ~ MovingAt(d, k - 1)
      /\ Noted(d, k, "TripEnd") <=> ~ MovingAt(d, k) /\ MovingAt(d, k - 1)
      /\ Noted(d, k, "StopDetected") <=> Noted(d, k, "TripEnd")
      /\ Noted(d, k, "IdleStart") <=> RestReaches(d, k, IdleAfter)
      /\ Noted(d, k, "EngineIdleSuspected") <=> RestReaches(d, k, EngineAfter)
      /\ Noted(d, k, "IdleEnd") <=>
           /\ drive[d][k].speed = "creeping"
           /\ k > 1 /\ RestedFor(d, k - 1, IdleAfter)
      /\ Noted(d, k, "SpeedExceeded") <=>
           /\ drive[d][k].speed = "speeding"
           /\ \A j \in 1 .. (k - 1) :
                Noted(d, j, "SpeedExceeded") => drive[d][k].at - drive[d][j].at >= Cooldown

\* A trip is started before it is anything else: the trip a device is on, or a
\* row says has ended, has its TripStart among the rows, whatever overlaps and
\* wherever the process ends, for rows are saved before the device.
TripsWereStarted ==
  \A d \in DeviceId :
    LET started == {e.trip : e \in {x \in events[d] : x.type = "TripStart"}}
    IN  /\ devices[d].motion.trip \in started \union {NoTrip}
        /\ \A e \in events[d] : e.type = "TripEnd" => e.trip \in started

\* After a revocation no device of the driver is on, enrolled how often before.
RevokedIsKept ==
  Undisturbed /\ consent = "REVOKE" => \A d \in DeviceId : ~ On(d)

\* docs/TELEMATICS_ARCHITECTURE.md: consent revoked, trackingEnabled is false
\* and ingest is rejected.  The save of a batch in flight brings both flags
\* back.
RevokedStaysOff ==
  Quiet /\ spent.failures = 0 /\ consent = "REVOKE" => \A d \in DeviceId : ~ On(d)
=============================================================================
