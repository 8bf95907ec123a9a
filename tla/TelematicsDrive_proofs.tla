----------------------- MODULE TelematicsDrive_proofs -----------------------
(***************************************************************************)
(* However a drive is cut into batches, the rows noted of it are those of  *)
(* the whole; and a revocation is kept: for calls that neither overlap nor *)
(* fail, with any number of devices, samples and calls and any thresholds. *)
(*                                                                         *)
(* The motion a device is saved with sums up what matters of the drive so  *)
(* far: whether it moves, when the rest it is in began, whether that rest  *)
(* has already been noted, when speeding was noted last.  One lemma says   *)
(* that the interpreter keeps this summary, and the rows true, over one    *)
(* sample; the rest is that a handler alone in flight holds the summary    *)
(* that is stored.                                                         *)
(***************************************************************************)
EXTENDS Telematics_proofs

\* Two samples of a device are never of the same time.
Distinct == Gap \subseteq Nat \ {0}

-----------------------------------------------------------------------------
(* A drive s and the rows es derived from it: what Stopped, MovingAt,      *)
(* RestBegan and their kin say of drive[d].                                *)

StoppedAt(s, k) == s[k].speed = "stopped"
MovesAt(s, k) == k > 0 /\ Moving(s[k].speed)
Rest(s, j, k) == /\ \A i \in j .. k : StoppedAt(s, i)
                 /\ j = 1 \/ ~ StoppedAt(s, j - 1)
Began(s, k) == CHOOSE j \in 1 .. k : Rest(s, j, k)
Rested(s, k, n) == StoppedAt(s, k) /\ s[k].at - s[Began(s, k)].at >= n
Reaches(s, k, n) == Rested(s, k, n) /\ (k = 1 \/ ~ Rested(s, k - 1, n))
Says(es, t, type) == \E e \in es : e.at = t /\ e.type = type

\* The rows es say of sample k of drive s what it means.
TrueOf(s, es, k) ==
  /\ Says(es, s[k].at, "TripStart") <=> MovesAt(s, k) /\ ~ MovesAt(s, k - 1)
  /\ Says(es, s[k].at, "TripEnd") <=> ~ MovesAt(s, k) /\ MovesAt(s, k - 1)
  /\ Says(es, s[k].at, "StopDetected") <=> Says(es, s[k].at, "TripEnd")
  /\ Says(es, s[k].at, "IdleStart") <=> Reaches(s, k, IdleAfter)
  /\ Says(es, s[k].at, "EngineIdleSuspected") <=> Reaches(s, k, EngineAfter)
  /\ Says(es, s[k].at, "IdleEnd") <=>
       s[k].speed = "creeping" /\ k > 1 /\ Rested(s, k - 1, IdleAfter)
  /\ Says(es, s[k].at, "SpeedExceeded") <=>
       /\ s[k].speed = "speeding"
       /\ \A j \in 1 .. (k - 1) :
            Says(es, s[j].at, "SpeedExceeded") => s[k].at - s[j].at >= Cooldown

EndOf(s) == IF s = <<>> THEN 0 ELSE s[Len(s)].at

\* Samples come one after the other, rows after none that is not there.
Sorted(s, es) ==
  /\ \A j \in 1 .. Len(s) : 0 < s[j].at /\ s[j].at <= EndOf(s)
  /\ \A e \in es : e.at <= EndOf(s)
  /\ \A k \in 1 .. Len(s) : StoppedAt(s, k) => \E j \in 1 .. k : Rest(s, j, k)

Rests(s) == Len(s) > 0 /\ StoppedAt(s, Len(s))

\* Motion m is what is to be known of drive s for what comes next.
Knows(m, s) ==
  /\ m.trip # NoTrip <=> MovesAt(s, Len(s))
  /\ m.stopSince = IF Rests(s) THEN s[Began(s, Len(s))].at ELSE 0
  /\ m.idle <=> Rests(s) /\ Rested(s, Len(s), IdleAfter)
  /\ m.engineIdle <=> Rests(s) /\ Rested(s, Len(s), EngineAfter)

\* The last row about speeding is that of m.
KnowsSpeeding(m, s, es) ==
  /\ m.lastExceeded <= EndOf(s)
  /\ m.lastExceeded # 0 =>
       \E j \in 1 .. Len(s) : s[j].at = m.lastExceeded /\ Says(es, s[j].at, "SpeedExceeded")
  /\ \A j \in 1 .. Len(s) : Says(es, s[j].at, "SpeedExceeded") => s[j].at <= m.lastExceeded

Tells(s, m, es) ==
  /\ Sorted(s, es) /\ Knows(m, s) /\ KnowsSpeeding(m, s, es)
  /\ \A k \in 1 .. Len(s) : TrueOf(s, es, k)

-----------------------------------------------------------------------------
(* Lemmas about drives *)

LEMMA BeganIs ==
  ASSUME NEW s \in Seq(Sample), NEW k \in 1 .. Len(s), NEW j \in 1 .. k, Rest(s, j, k)
  PROVE  Began(s, k) = j
<1> DEFINE b == Began(s, k)
<1>1. b \in 1 .. k /\ Rest(s, b, k)
  BY DEF Began
<1> HIDE DEF b
<1>2. ~ (b < j)
  <2> SUFFICES ASSUME b < j PROVE FALSE
    OBVIOUS
  <2>1. j - 1 \in b .. k /\ j # 1
    BY <1>1
  <2> QED
    BY <1>1, <2>1 DEF Rest
<1>3. ~ (j < b)
  <2> SUFFICES ASSUME j < b PROVE FALSE
    OBVIOUS
  <2>1. b - 1 \in j .. k /\ b # 1
    BY <1>1
  <2> QED
    BY <1>1, <2>1 DEF Rest
<1>4. b = j
  BY <1>1, <1>2, <1>3
<1> QED
  BY <1>4 DEF b

LEMMA AppendFacts ==
  ASSUME NEW s \in Seq(Sample), NEW x \in Sample
  PROVE  /\ Append(s, x) \in Seq(Sample) /\ Len(s) \in Nat /\ Len(Append(s, x)) = Len(s) + 1
         /\ Append(s, x)[Len(s) + 1] = x /\ \A k \in 1 .. Len(s) : Append(s, x)[k] = s[k] /\ s[k] \in Sample
         /\ \A k \in 1 .. Len(s) : s[k].at \in Nat
         /\ EndOf(s) \in Nat /\ EndOf(Append(s, x)) = x.at
<1>1. Append(s, x) \in Seq(Sample) /\ Len(s) \in Nat /\ Len(Append(s, x)) = Len(s) + 1
  OBVIOUS
<1>2. Append(s, x)[Len(s) + 1] = x /\ \A k \in 1 .. Len(s) : Append(s, x)[k] = s[k] /\ s[k] \in Sample
  OBVIOUS
<1>3. Append(s, x) # <<>>
  BY <1>1
<1>4. EndOf(Append(s, x)) = x.at
  BY <1>1, <1>2, <1>3 DEF EndOf
<1>5. s # <<>> => Len(s) \in 1 .. Len(s)
  BY <1>1
<1>6. EndOf(s) \in Nat
  BY <1>2, <1>5 DEF EndOf, Sample
<1>7. \A k \in 1 .. Len(s) : s[k].at \in Nat
  BY <1>2 DEF Sample
<1> QED
  BY <1>1, <1>2, <1>4, <1>6, <1>7

\* One sample more changes nothing about those before it.
LEMMA Prefix ==
  ASSUME NEW s \in Seq(Sample), NEW x \in Sample, NEW es, Sorted(s, es), NEW k \in 1 .. Len(s)
  PROVE  LET u == Append(s, x)
         IN  /\ StoppedAt(u, k) <=> StoppedAt(s, k)
             /\ MovesAt(u, k) <=> MovesAt(s, k)
             /\ \A j \in 1 .. k : Rest(u, j, k) <=> Rest(s, j, k)
             /\ \A n \in Nat : Rested(u, k, n) <=> Rested(s, k, n)
<1> DEFINE u == Append(s, x)
<1>1. /\ u \in Seq(Sample) /\ Len(s) \in Nat /\ Len(u) = Len(s) + 1
      /\ \A i \in 1 .. Len(s) : u[i] = s[i]
  BY AppendFacts
<1> HIDE DEF u
<1>2. \A i \in 1 .. k : StoppedAt(u, i) <=> StoppedAt(s, i)
  BY <1>1 DEF StoppedAt
<1>3. \A j \in 1 .. k : Rest(u, j, k) <=> Rest(s, j, k)
  <2> TAKE j \in 1 .. k
  <2>1. \A i \in j .. k : i \in 1 .. k
    OBVIOUS
  <2>2. j # 1 => j - 1 \in 1 .. k
    OBVIOUS
  <2> QED
    BY <1>2, <2>1, <2>2 DEF Rest
<1>4. ASSUME NEW n \in Nat PROVE Rested(u, k, n) <=> Rested(s, k, n)
  <2>1. CASE ~ StoppedAt(s, k)
    BY <1>2, <2>1 DEF Rested
  <2>2. CASE StoppedAt(s, k)
    <3>1. PICK j \in 1 .. k : Rest(s, j, k)
      BY <2>2 DEF Sorted
    <3>2. Began(s, k) = j
      BY <3>1, BeganIs
    <3>3. Began(u, k) = j
      <4>1. k \in 1 .. Len(u) /\ Rest(u, j, k)
        BY <1>1, <1>3, <3>1
      <4> QED
        BY <1>1, <4>1, BeganIs
    <3>4. u[k] = s[k] /\ u[j] = s[j]
      BY <1>1
    <3> QED
      BY <1>2, <3>2, <3>3, <3>4 DEF Rested
  <2> QED
    BY <2>1, <2>2
<1>5. MovesAt(u, k) <=> MovesAt(s, k)
  BY <1>1 DEF MovesAt
<1>6. StoppedAt(u, k) <=> StoppedAt(s, k)
  BY <1>2
<1> QED
  BY <1>3, <1>4, <1>5, <1>6 DEF u

\* A rest goes on, or begins.
LEMMA RestGoesOn ==
  ASSUME NEW s \in Seq(Sample), NEW x \in Sample, NEW es, Sorted(s, es), x.speed = "stopped"
  PROVE  LET u == Append(s, x)
             b == IF Rests(s) THEN Began(s, Len(s)) ELSE Len(s) + 1
         IN  /\ b \in 1 .. Len(u) /\ Rest(u, b, Len(u)) /\ Began(u, Len(u)) = b
             /\ Rests(s) => b \in 1 .. Len(s)
<1> DEFINE u == Append(s, x)
           n == Len(s)
           b == IF Rests(s) THEN Began(s, n) ELSE n + 1
<1>1. /\ u \in Seq(Sample) /\ n \in Nat /\ Len(u) = n + 1 /\ u[n + 1] = x
      /\ \A i \in 1 .. n : u[i] = s[i]
  BY AppendFacts
<1>2. b \in 1 .. (n + 1) /\ Rest(u, b, n + 1) /\ (Rests(s) => b \in 1 .. n)
  <2>1. CASE Rests(s)
    <3>1. n \in 1 .. n /\ StoppedAt(s, n)
      BY <1>1, <2>1 DEF Rests
    <3>2. PICK j \in 1 .. n : Rest(s, j, n)
      BY <3>1 DEF Sorted
    <3>3. b = j
      BY <2>1, <3>1, <3>2, BeganIs
    <3>4. Rest(u, j, n)
      BY <3>1, <3>2, Prefix
    <3> HIDE DEF b, u, n
    <3>5. \A i \in j .. (n + 1) : StoppedAt(u, i)
      <4> TAKE i \in j .. (n + 1)
      <4>1. i \in j .. n \/ i = n + 1
        BY <1>1, <3>2
      <4>2. StoppedAt(u, n + 1)
        BY <1>1 DEF StoppedAt
      <4> QED
        BY <3>4, <4>1, <4>2 DEF Rest
    <3>6. Rest(u, j, n + 1)
      BY <3>4, <3>5 DEF Rest
    <3> QED
      BY <1>1, <3>2, <3>3, <3>6
  <2>2. CASE ~ Rests(s)
    <3>1. b = n + 1
      BY <2>2
    <3>2. StoppedAt(u, n + 1)
      BY <1>1 DEF StoppedAt
    <3>3. n + 1 = 1 \/ ~ StoppedAt(u, (n + 1) - 1)
      <4>1. CASE n = 0
        BY <4>1
      <4>2. CASE n > 0
        <5>1. ~ StoppedAt(s, n) /\ u[n] = s[n] /\ (n + 1) - 1 = n
          BY <1>1, <2>2, <4>2 DEF Rests
        <5> HIDE DEF u, n
        <5> QED
          BY <5>1 DEF StoppedAt
      <4> QED
        BY <1>1, <4>1, <4>2
    <3> HIDE DEF b, u, n
    <3>4. Rest(u, n + 1, n + 1)
      <4>1. \A i \in (n + 1) .. (n + 1) : i = n + 1
        BY <1>1
      <4> QED
        BY <3>2, <3>3, <4>1 DEF Rest
    <3> QED
      BY <1>1, <2>2, <3>1, <3>4
  <2> QED
    BY <2>1, <2>2
<1> HIDE DEF u, n, b
<1>3. Began(u, n + 1) = b
  <2>1. n + 1 \in 1 .. Len(u)
    BY <1>1
  <2> QED
    BY <1>1, <1>2, <2>1, BeganIs
<1> QED
  BY <1>1, <1>2, <1>3 DEF u, n, b

-----------------------------------------------------------------------------
(* One sample *)

\* What the timers of a trip would have to be cleared of is not there.
LEMMA RestingKnows ==
  ASSUME NEW m \in Motion, NEW s \in Seq(Sample), Knows(m, s)
  PROVE  LET n == Resting(m)
         IN  /\ n \in Motion /\ n.trip = NoTrip /\ n.lastExceeded = m.lastExceeded
             /\ n.stopSince = m.stopSince /\ n.idle = m.idle /\ n.engineIdle = m.engineIdle
<1>1. CASE m.trip = NoTrip
  BY <1>1 DEF Resting
<1>2. CASE m.trip # NoTrip
  <2>1. Moving(s[Len(s)].speed)
    BY <1>2 DEF Knows, MovesAt
  <2>2. ~ Rests(s)
    BY <2>1 DEF Rests, StoppedAt, Moving
  <2>3. m.stopSince = 0 /\ ~ m.idle /\ ~ m.engineIdle
    BY <2>2 DEF Knows
  <2> DEFINE k == [m EXCEPT !.trip = NoTrip]
  <2>4. NoTrip \in Trip
    BY DEF NoTrip, Trip
  <2>5. /\ k \in Motion /\ k.trip = NoTrip /\ k.lastExceeded = m.lastExceeded
        /\ k.stopSince = 0 /\ k.idle = FALSE /\ k.engineIdle = FALSE
    BY <2>3, <2>4 DEF Motion
  <2> HIDE DEF k
  <2>6. /\ Cleared(k) \in Motion /\ Cleared(k).trip = k.trip /\ Cleared(k).lastExceeded = k.lastExceeded
        /\ Cleared(k).stopSince = 0 /\ Cleared(k).idle = FALSE /\ Cleared(k).engineIdle = FALSE
    BY <2>5 DEF Cleared, Motion
  <2>7. Resting(m) = Cleared(k)
    BY <1>2 DEF Resting, k
  <2>8. m.idle = FALSE /\ m.engineIdle = FALSE
    BY <2>3 DEF Motion
  <2> QED
    BY <2>3, <2>5, <2>6, <2>7, <2>8
<1> QED
  BY <1>1, <1>2

\* The motion after a sample, field by field.
LEMMA AfterFields ==
  ASSUME NEW m \in Motion, NEW v \in Speed, NEW t \in Nat, NEW f \in Trip
  PROVE  LET a == After(m, v, t, f)
             rest == Resting(m)
         IN  /\ Moving(v) =>
                  /\ a.trip = TripNow(m, v, f) /\ a.stopSince = 0 /\ ~ a.idle /\ ~ a.engineIdle
                  /\ a.lastExceeded = IF Exceeds(m, v, t) THEN t ELSE m.lastExceeded
             /\ v = "creeping" =>
                  /\ a.trip = rest.trip /\ a.stopSince = 0 /\ ~ a.idle /\ ~ a.engineIdle
                  /\ a.lastExceeded = rest.lastExceeded
             /\ v = "stopped" =>
                  /\ a.trip = rest.trip /\ a.stopSince = Since(rest, t)
                  /\ a.idle <=> rest.idle \/ LongEnough(rest, t, IdleAfter, rest.idle)
                  /\ a.engineIdle <=> rest.engineIdle \/ LongEnough(rest, t, EngineAfter, rest.engineIdle)
                  /\ a.lastExceeded = rest.lastExceeded
<1>1. ASSUME NEW n \in Motion
      PROVE  /\ Cleared(n) \in Motion /\ Cleared(n).trip = n.trip /\ Cleared(n).stopSince = 0
             /\ Cleared(n).idle = FALSE /\ Cleared(n).engineIdle = FALSE
             /\ Cleared(n).lastExceeded = n.lastExceeded
  BY DEF Cleared, Motion
<1>2. Resting(m) \in Motion
  <2>1. NoTrip \in Trip
    BY DEF NoTrip, Trip
  <2>2. [m EXCEPT !.trip = NoTrip] \in Motion
    BY <2>1 DEF Motion
  <2> QED
    BY <1>1, <2>2 DEF Resting
<1>3. CASE Moving(v)
  <2> DEFINE n == Cleared(m)
             x == IF Exceeds(m, v, t) THEN t ELSE m.lastExceeded
             y == TripNow(m, v, f)
  <2>1. After(m, v, t, f) = [n EXCEPT !.trip = y, !.lastExceeded = x]
    BY <1>1, <1>3 DEF After, AfterMoving, Moving
  <2>2. n \in Motion /\ n.stopSince = 0 /\ n.idle = FALSE /\ n.engineIdle = FALSE
    BY <1>1
  <2> HIDE DEF n, x, y
  <2>3. LET a == [n EXCEPT !.trip = y, !.lastExceeded = x]
        IN  a.trip = y /\ a.stopSince = 0 /\ ~ a.idle /\ ~ a.engineIdle /\ a.lastExceeded = x
    BY <2>2 DEF Motion
  <2> QED
    BY <1>3, <2>1, <2>3 DEF x, y, Moving
<1>4. CASE v = "creeping"
  <2>1. After(m, v, t, f) = Cleared(Resting(m))
    BY <1>4 DEF After, Moving
  <2> QED
    BY <1>1, <1>2, <1>4, <2>1 DEF Moving
<1>5. CASE v = "stopped"
  <2> DEFINE n == Resting(m)
             x == Since(n, t)
             y == n.idle \/ LongEnough(n, t, IdleAfter, n.idle)
             z == n.engineIdle \/ LongEnough(n, t, EngineAfter, n.engineIdle)
  <2>1. After(m, v, t, f) = [n EXCEPT !.stopSince = x, !.idle = y, !.engineIdle = z]
    BY <1>5 DEF After, AfterStopped, Moving
  <2>2. n \in Motion
    BY <1>2
  <2> HIDE DEF n, x, y, z
  <2>3. LET a == [n EXCEPT !.stopSince = x, !.idle = y, !.engineIdle = z]
        IN  /\ a.trip = n.trip /\ a.stopSince = x /\ a.idle = y /\ a.engineIdle = z
            /\ a.lastExceeded = n.lastExceeded
    BY <2>2 DEF Motion
  <2> QED
    BY <1>5, <2>1, <2>3 DEF n, x, y, z, Moving
<1> QED
  BY <1>3, <1>4, <1>5 DEF Moving

\* The rows of a sample are those of its time.
LEMMA SaysOf ==
  ASSUME NEW s, NEW es, NEW m, NEW v, NEW t \in Nat, NEW f, NEW type \in EventType,
         NEW u, Sorted(s, es), EndOf(s) \in Nat, \A e \in es : e.at \in Nat, t > EndOf(s)
  PROVE  LET ds == Derived(m, v, t, f)
         IN  /\ Says(es \union ds, t, type) <=> Happens(type, m, v, t)
             /\ u # t => (Says(es \union ds, u, type) <=> Says(es, u, type))
<1> DEFINE ds == Derived(m, v, t, f)
<1>1. \A e \in ds : e.at = t
  BY DEF Derived
<1>2. \A e \in es : e.at # t
  BY DEF Sorted
<1>3. Says(ds, t, type) <=> Happens(type, m, v, t)
  <2>1. ASSUME Happens(type, m, v, t) PROVE Says(ds, t, type)
    <3> DEFINE e == [type |-> type, at |-> t, trip |-> TripFor(type, m, v, f)]
    <3>1. e \in ds /\ e.at = t /\ e.type = type
      BY <2>1 DEF Derived
    <3> QED
      BY <3>1 DEF Says
  <2>2. ASSUME NEW e \in ds, e.type = type PROVE Happens(type, m, v, t)
    <3>1. PICK y \in EventType : /\ Happens(y, m, v, t)
                                 /\ e = [type |-> y, at |-> t, trip |-> TripFor(y, m, v, f)]
      BY DEF Derived
    <3> QED
      BY <2>2, <3>1
  <2> QED
    BY <2>1, <2>2 DEF Says
<1> HIDE DEF ds
<1>4. Says(es \union ds, t, type) <=> Says(ds, t, type)
  BY <1>2 DEF Says
<1>5. u # t => (Says(es \union ds, u, type) <=> Says(es, u, type))
  BY <1>1 DEF Says
<1> QED
  BY <1>3, <1>4, <1>5 DEF ds

\* The timer of the interpreter is the length of the rest.
LEMMA TimerTells ==
  ASSUME NEW s \in Seq(Sample), NEW m \in Motion, NEW es, Sorted(s, es), Knows(m, s),
         NEW t \in Nat, t > EndOf(s), NEW x \in Nat
  PROVE  LET u == Append(s, [at |-> t, speed |-> "stopped"])
         IN  /\ u[Began(u, Len(u))].at = Since(Resting(m), t)
             /\ Rested(u, Len(u), x) <=> t - Since(Resting(m), t) >= x
             /\ Rests(s) /\ Rested(s, Len(s), x) => Rested(u, Len(u), x)
<1> DEFINE y == [at |-> t, speed |-> "stopped"]
           u == Append(s, y)
           n == Len(s)
           b == IF Rests(s) THEN Began(s, n) ELSE n + 1
<1>1. y \in Sample /\ y.speed = "stopped" /\ y.at = t
  BY DEF Sample, Speed
<1> HIDE DEF y
<1>2. /\ Len(u) = n + 1 /\ n \in Nat /\ u[n + 1] = y
      /\ \A k \in 1 .. n : u[k] = s[k] /\ s[k].at \in Nat
      /\ EndOf(s) \in Nat
  BY <1>1, AppendFacts
<1>3. b \in 1 .. (n + 1) /\ Began(u, n + 1) = b /\ (Rests(s) => b \in 1 .. n)
  BY <1>1, <1>2, RestGoesOn
<1>4. Resting(m).stopSince = m.stopSince
  BY RestingKnows
<1>5. \A j \in 1 .. n : 0 < s[j].at /\ s[j].at <= EndOf(s)
  BY DEF Sorted
<1> HIDE DEF u, n
<1>6. u[b].at = Since(Resting(m), t)
  <2>1. CASE Rests(s)
    <3>1. m.stopSince = s[b].at
      BY <2>1 DEF Knows, n
    <3>2. b \in 1 .. n
      BY <1>3, <2>1
    <3> HIDE DEF b
    <3>3. m.stopSince # 0 /\ u[b] = s[b]
      BY <1>2, <1>5, <3>1, <3>2
    <3> QED
      BY <1>4, <3>1, <3>3 DEF Since
  <2>2. CASE ~ Rests(s)
    <3>1. m.stopSince = 0 /\ b = n + 1
      BY <2>2 DEF Knows
    <3> QED
      BY <1>1, <1>2, <1>4, <3>1 DEF Since
  <2> QED
    BY <2>1, <2>2
<1>7. u[n + 1].speed = "stopped" /\ u[n + 1].at = t
  BY <1>1, <1>2
<1>8. Rested(u, n + 1, x) <=> t - Since(Resting(m), t) >= x
  BY <1>3, <1>6, <1>7 DEF Rested, StoppedAt
<1>9. ASSUME Rests(s), Rested(s, n, x) PROVE Rested(u, n + 1, x)
  <2>1. b \in 1 .. n /\ b = Began(s, n) /\ n \in 1 .. n
    BY <1>2, <1>3, <1>9
  <2> HIDE DEF b
  <2>2. s[n].at - s[b].at >= x /\ u[b] = s[b] /\ s[n].at <= EndOf(s)
    BY <1>2, <1>5, <1>9, <2>1 DEF Rested
  <2>3. s[n].at \in Nat /\ s[b].at \in Nat /\ EndOf(s) \in Nat
    BY <1>2, <2>1
  <2>4. t - u[b].at >= x
    BY <2>2, <2>3
  <2> QED
    BY <1>6, <1>8, <2>4 DEF b
<1> QED
  BY <1>2, <1>3, <1>6, <1>8, <1>9 DEF u, n, y

LEMMA SortedStays ==
  ASSUME NEW s \in Seq(Sample), NEW es, NEW m, Sorted(s, es),
         NEW v \in Speed, NEW t \in Nat, NEW f, t > EndOf(s), \A e \in es : e.at \in Nat
  PROVE  Sorted(Append(s, [at |-> t, speed |-> v]), es \union Derived(m, v, t, f))
<1> DEFINE x == [at |-> t, speed |-> v]
           u == Append(s, x)
           n == Len(s)
<1>1. x \in Sample /\ x.speed = v /\ x.at = t
  BY DEF Sample
<1> HIDE DEF x
<1>2. /\ Len(u) = n + 1 /\ n \in Nat /\ u[n + 1] = x
      /\ \A k \in 1 .. n : u[k] = s[k] /\ s[k].at \in Nat
      /\ EndOf(s) \in Nat /\ EndOf(u) = t
  BY <1>1, AppendFacts
<1>3. \A k \in 1 .. n : StoppedAt(u, k) => \E j \in 1 .. k : Rest(u, j, k)
  <2> SUFFICES ASSUME NEW k \in 1 .. n, StoppedAt(u, k) PROVE \E j \in 1 .. k : Rest(u, j, k)
    OBVIOUS
  <2>1. StoppedAt(s, k)
    BY <1>1, Prefix
  <2>2. PICK j \in 1 .. k : Rest(s, j, k)
    BY <2>1 DEF Sorted
  <2>3. Rest(u, j, k)
    BY <1>1, <2>2, Prefix
  <2> QED
    BY <2>3
<1>4. StoppedAt(u, n + 1) => \E j \in 1 .. (n + 1) : Rest(u, j, n + 1)
  <2> SUFFICES ASSUME StoppedAt(u, n + 1) PROVE \E j \in 1 .. (n + 1) : Rest(u, j, n + 1)
    OBVIOUS
  <2>1. x.speed = "stopped"
    BY <1>2 DEF StoppedAt
  <2> QED
    BY <1>1, <1>2, <2>1, RestGoesOn
<1>5. \A j \in 1 .. n : 0 < s[j].at /\ s[j].at <= EndOf(s)
  BY DEF Sorted
<1> HIDE DEF u, n
<1>6. \A j \in 1 .. (n + 1) : 0 < u[j].at /\ u[j].at <= t
  <2> TAKE j \in 1 .. (n + 1)
  <2>1. j \in 1 .. n \/ j = n + 1
    BY <1>2
  <2> QED
    BY <1>1, <1>2, <1>5, <2>1
<1>7. \A e \in es \union Derived(m, v, t, f) : e.at <= t
  <2>1. \A e \in Derived(m, v, t, f) : e.at = t
    BY DEF Derived
  <2>2. \A e \in es : e.at <= EndOf(s)
    BY DEF Sorted
  <2> QED
    BY <1>2, <2>1, <2>2
<1>8. \A k \in 1 .. (n + 1) : k \in 1 .. n \/ k = n + 1
  BY <1>2
<1>9. \A k \in 1 .. (n + 1) : StoppedAt(u, k) => \E j \in 1 .. k : Rest(u, j, k)
  BY <1>3, <1>4, <1>8
<1> QED
  BY <1>2, <1>6, <1>7, <1>9 DEF Sorted, u, x

LEMMA KnowsStays ==
  ASSUME NEW s \in Seq(Sample), NEW es, NEW m \in Motion, Sorted(s, es), Knows(m, s),
         NEW v \in Speed, NEW t \in Nat, NEW f \in Trip, f # NoTrip, t > EndOf(s)
  PROVE  Knows(After(m, v, t, f), Append(s, [at |-> t, speed |-> v]))
<1> DEFINE x == [at |-> t, speed |-> v]
           u == Append(s, x)
           a == After(m, v, t, f)
           rest == Resting(m)
<1>1. x \in Sample /\ x.speed = v
  BY DEF Sample
<1> HIDE DEF x
<1>2. Len(u) = Len(s) + 1 /\ Len(s) \in Nat /\ u[Len(u)] = x
  BY <1>1, AppendFacts
<1>3. IdleAfter \in Nat /\ EngineAfter \in Nat
  BY BoundAssumption
<1>4. rest.trip = NoTrip /\ rest.idle = m.idle /\ rest.engineIdle = m.engineIdle
  BY RestingKnows
<1> HIDE DEF u, a, rest
<1>5. MovesAt(u, Len(u)) <=> Moving(v)
  BY <1>1, <1>2 DEF MovesAt
<1>6. Rests(u) <=> v = "stopped"
  BY <1>1, <1>2 DEF Rests, StoppedAt
<1>7. CASE Moving(v)
  <2>1. a.trip = TripNow(m, v, f) /\ a.stopSince = 0 /\ ~ a.idle /\ ~ a.engineIdle
    BY <1>7, AfterFields DEF a
  <2>2. a.trip # NoTrip
    BY <1>7, <2>1 DEF TripNow, StartsTrip
  <2>3. ~ Rests(u)
    BY <1>6, <1>7 DEF Moving
  <2> QED
    BY <1>5, <1>7, <2>1, <2>2, <2>3 DEF Knows, a, u, x
<1>8. CASE v = "creeping"
  <2>1. a.trip = NoTrip /\ a.stopSince = 0 /\ ~ a.idle /\ ~ a.engineIdle
    BY <1>4, <1>8, AfterFields DEF a, rest
  <2>2. ~ Rests(u) /\ ~ Moving(v)
    BY <1>6, <1>8 DEF Moving
  <2> QED
    BY <1>5, <2>1, <2>2 DEF Knows, a, u, x
<1>9. CASE v = "stopped"
  <2>1. /\ a.trip = NoTrip /\ a.stopSince = Since(rest, t)
        /\ a.idle <=> rest.idle \/ LongEnough(rest, t, IdleAfter, rest.idle)
        /\ a.engineIdle <=> rest.engineIdle \/ LongEnough(rest, t, EngineAfter, rest.engineIdle)
    BY <1>4, <1>9, AfterFields DEF a, rest
  <2>2. Rests(u) /\ ~ Moving(v)
    BY <1>6, <1>9 DEF Moving
  <2>3. u[Began(u, Len(u))].at = Since(rest, t)
    BY <1>3, <1>9, TimerTells DEF u, x, rest
  <2>4. \A n \in Nat : /\ Rested(u, Len(u), n) <=> t - Since(rest, t) >= n
                       /\ Rests(s) /\ Rested(s, Len(s), n) => Rested(u, Len(u), n)
    BY <1>9, TimerTells DEF u, x, rest
  <2>5. m.idle <=> Rests(s) /\ Rested(s, Len(s), IdleAfter)
    BY DEF Knows
  <2>6. m.engineIdle <=> Rests(s) /\ Rested(s, Len(s), EngineAfter)
    BY DEF Knows
  <2>7. a.idle <=> Rested(u, Len(u), IdleAfter)
    BY <1>3, <1>4, <2>1, <2>4, <2>5 DEF LongEnough
  <2>8. a.engineIdle <=> Rested(u, Len(u), EngineAfter)
    BY <1>3, <1>4, <2>1, <2>4, <2>6 DEF LongEnough
  <2>9. Knows(a, u)
    BY <1>5, <2>1, <2>2, <2>3, <2>7, <2>8 DEF Knows
  <2> QED
    BY <2>9 DEF a, u, x
<1> QED
  BY <1>7, <1>8, <1>9 DEF Speed, Moving

LEMMA KnowsSpeedingStays ==
  ASSUME NEW s \in Seq(Sample), NEW es, NEW m \in Motion, Sorted(s, es), Knows(m, s),
         KnowsSpeeding(m, s, es), \A e \in es : e.at \in Nat,
         NEW v \in Speed, NEW t \in Nat, NEW f \in Trip, t > EndOf(s)
  PROVE  KnowsSpeeding(After(m, v, t, f), Append(s, [at |-> t, speed |-> v]),
                       es \union Derived(m, v, t, f))
<1> DEFINE x == [at |-> t, speed |-> v]
           u == Append(s, x)
           n == Len(s)
           a == After(m, v, t, f)
           fs == es \union Derived(m, v, t, f)
           SE(k) == Says(fs, k, "SpeedExceeded")
<1>1. x \in Sample /\ x.speed = v /\ x.at = t
  BY DEF Sample
<1> HIDE DEF x
<1>2. /\ Len(u) = n + 1 /\ n \in Nat /\ u[n + 1] = x /\ EndOf(u) = t /\ EndOf(s) \in Nat
      /\ \A k \in 1 .. n : u[k] = s[k] /\ s[k].at \in Nat
  BY <1>1, AppendFacts
<1>3. a.lastExceeded = IF Exceeds(m, v, t) THEN t ELSE m.lastExceeded
  <2>1. CASE Moving(v)
    BY <2>1, AfterFields
  <2>2. CASE ~ Moving(v)
    <3>1. v \in {"creeping", "stopped"} /\ ~ Exceeds(m, v, t)
      BY <2>2 DEF Speed, Moving, Exceeds
    <3>2. a.lastExceeded = Resting(m).lastExceeded
      BY <3>1, AfterFields
    <3> QED
      BY <3>1, <3>2, RestingKnows
  <2> QED
    BY <2>1, <2>2
<1>4. SE(t) <=> Exceeds(m, v, t)
  <2>1. "SpeedExceeded" \in EventType
    BY DEF EventType
  <2>2. SE(t) <=> Happens("SpeedExceeded", m, v, t)
    BY <1>2, <2>1, SaysOf
  <2> QED
    BY <2>2 DEF Happens
<1>5. \A k \in 1 .. n : s[k].at # t /\ (SE(s[k].at) <=> Says(es, s[k].at, "SpeedExceeded"))
  <2> TAKE k \in 1 .. n
  <2>1. s[k].at # t
    BY <1>2 DEF Sorted
  <2>2. "SpeedExceeded" \in EventType
    BY DEF EventType
  <2>3. \A z : z # t => (SE(z) <=> Says(es, z, "SpeedExceeded"))
    BY <1>2, <2>2, SaysOf
  <2> QED
    BY <2>1, <2>3
<1>6. /\ m.lastExceeded <= EndOf(s) /\ m.lastExceeded \in Nat
      /\ m.lastExceeded # 0 => \E j \in 1 .. n : s[j].at = m.lastExceeded /\ SE(s[j].at)
      /\ \A j \in 1 .. n : SE(s[j].at) => s[j].at <= m.lastExceeded
  BY <1>5 DEF KnowsSpeeding, Motion
<1> HIDE DEF u, n, a, fs, SE
<1>7. \A k \in 1 .. (n + 1) : k \in 1 .. n \/ k = n + 1
  BY <1>2
<1>8. a.lastExceeded <= t
  BY <1>2, <1>3, <1>6
<1>9. a.lastExceeded # 0 => \E j \in 1 .. (n + 1) : u[j].at = a.lastExceeded /\ SE(u[j].at)
  <2>1. CASE Exceeds(m, v, t)
    <3>1. n + 1 \in 1 .. (n + 1) /\ u[n + 1].at = a.lastExceeded /\ SE(u[n + 1].at)
      BY <1>1, <1>2, <1>3, <1>4, <2>1
    <3> QED
      BY <3>1
  <2>2. CASE ~ Exceeds(m, v, t)
    <3>1. \A j \in 1 .. n : j \in 1 .. (n + 1)
      BY <1>2
    <3> QED
      BY <1>2, <1>3, <1>6, <2>2, <3>1
  <2> QED
    BY <2>1, <2>2
<1>10. ASSUME NEW j \in 1 .. (n + 1), SE(u[j].at) PROVE u[j].at <= a.lastExceeded
  <2>1. CASE j \in 1 .. n
    BY <1>2, <1>3, <1>6, <1>10, <2>1
  <2>2. CASE j = n + 1
    BY <1>1, <1>2, <1>3, <1>4, <1>10, <2>2
  <2> QED
    BY <1>7, <2>1, <2>2
<1> QED
  BY <1>2, <1>8, <1>9, <1>10 DEF KnowsSpeeding, a, u, fs, x, SE

\* The rows are true of the new sample,
LEMMA NewIsTrue ==
  ASSUME NEW s \in Seq(Sample), NEW es, NEW m \in Motion, Sorted(s, es), Knows(m, s),
         KnowsSpeeding(m, s, es), \A e \in es : e.at \in Nat,
         NEW v \in Speed, NEW t \in Nat, NEW f \in Trip, t > EndOf(s)
  PROVE  TrueOf(Append(s, [at |-> t, speed |-> v]), es \union Derived(m, v, t, f), Len(s) + 1)
<1> DEFINE x == [at |-> t, speed |-> v]
           u == Append(s, x)
           n == Len(s)
           fs == es \union Derived(m, v, t, f)
           rest == Resting(m)
<1>1. x \in Sample /\ x.speed = v /\ x.at = t
  BY DEF Sample
<1>2. /\ Len(u) = n + 1 /\ n \in Nat /\ u[n + 1] = x /\ EndOf(s) \in Nat
      /\ \A k \in 1 .. n : u[k] = s[k] /\ s[k].at \in Nat
  BY <1>1, AppendFacts
<1>3. \A y \in EventType : Says(fs, t, y) <=> Happens(y, m, v, t)
  BY <1>2, SaysOf
<1>4. \A k \in 1 .. n : Says(fs, s[k].at, "SpeedExceeded") <=> Says(es, s[k].at, "SpeedExceeded")
  <2> TAKE k \in 1 .. n
  <2>1. s[k].at # t
    BY <1>2 DEF Sorted
  <2>2. "SpeedExceeded" \in EventType
    BY DEF EventType
  <2>3. \A z : z # t => (Says(fs, z, "SpeedExceeded") <=> Says(es, z, "SpeedExceeded"))
    BY <1>2, <2>2, SaysOf
  <2> QED
    BY <2>1, <2>3
<1>5. u[n + 1].at = t /\ u[n + 1].speed = v
  BY <1>1, <1>2
<1>6. IdleAfter \in Nat /\ EngineAfter \in Nat /\ Cooldown \in Nat
  BY BoundAssumption
<1>7. rest.idle = m.idle /\ rest.engineIdle = m.engineIdle
  BY RestingKnows
<1>8. n = 0 \/ n \in 1 .. n
  BY <1>2
<1>9. MovesAt(u, n) <=> MovesAt(s, n)
  <2>1. CASE n = 0
    BY <2>1 DEF MovesAt
  <2>2. CASE n \in 1 .. n
    BY <1>1, <2>2, Prefix
  <2> QED
    BY <1>8, <2>1, <2>2
<1>10. \A k \in Nat : n > 0 => (Rested(u, n, k) <=> Rests(s) /\ Rested(s, n, k))
  <2> SUFFICES ASSUME NEW k \in Nat, n > 0 PROVE Rested(u, n, k) <=> Rests(s) /\ Rested(s, n, k)
    OBVIOUS
  <2>1. n \in 1 .. n
    BY <1>8
  <2>2. Rested(u, n, k) <=> Rested(s, n, k)
    BY <1>1, <2>1, Prefix
  <2>3. Rested(s, n, k) => Rests(s)
    BY DEF Rested, Rests
  <2> QED
    BY <2>2, <2>3
<1>11. m.idle <=> n > 0 /\ Rested(u, n, IdleAfter)
  BY <1>6, <1>10 DEF Knows, Rests
<1>12. m.engineIdle <=> n > 0 /\ Rested(u, n, EngineAfter)
  BY <1>6, <1>10 DEF Knows, Rests
<1>13. m.trip # NoTrip <=> MovesAt(u, n)
  BY <1>9 DEF Knows
<1>14. \A k \in Nat : v = "stopped" => (Rested(u, n + 1, k) <=> t - Since(rest, t) >= k)
  BY <1>2, TimerTells
<1>15. \A k : Rested(u, n + 1, k) => v = "stopped"
  BY <1>5 DEF Rested, StoppedAt
<1>16. (n + 1) - 1 = n /\ n + 1 > 0 /\ (n + 1 = 1 <=> n = 0) /\ (n + 1 > 1 <=> n > 0)
  BY <1>2
<1> HIDE DEF x, u, n, fs, rest
<1>17. MovesAt(u, n + 1) <=> Moving(v)
  BY <1>5, <1>16 DEF MovesAt
<1>18. Says(fs, t, "TripStart") <=> MovesAt(u, n + 1) /\ ~ MovesAt(u, n)
  BY <1>3, <1>13, <1>17 DEF Happens, EventType, StartsTrip
<1>19. /\ Says(fs, t, "TripEnd") <=> ~ MovesAt(u, n + 1) /\ MovesAt(u, n)
       /\ Says(fs, t, "StopDetected") <=> Says(fs, t, "TripEnd")
  BY <1>3, <1>13, <1>17 DEF Happens, EventType, EndsTrip
<1>20. Says(fs, t, "IdleStart") <=> Reaches(u, n + 1, IdleAfter)
  <2>1. Says(fs, t, "IdleStart") <=> v = "stopped" /\ ~ m.idle /\ t - Since(rest, t) >= IdleAfter
    BY <1>3, <1>7 DEF Happens, EventType, LongEnough, rest
  <2>2. Reaches(u, n + 1, IdleAfter) <=> Rested(u, n + 1, IdleAfter) /\ (n = 0 \/ ~ Rested(u, n, IdleAfter))
    BY <1>16 DEF Reaches
  <2>3. n = 0 \/ n > 0
    BY <1>2
  <2> QED
    BY <1>2, <1>6, <1>11, <1>14, <1>15, <2>1, <2>2, <2>3
<1>21. Says(fs, t, "EngineIdleSuspected") <=> Reaches(u, n + 1, EngineAfter)
  <2>1. Says(fs, t, "EngineIdleSuspected") <=>
          v = "stopped" /\ ~ m.engineIdle /\ t - Since(rest, t) >= EngineAfter
    BY <1>3, <1>7 DEF Happens, EventType, LongEnough, rest
  <2>2. Reaches(u, n + 1, EngineAfter) <=>
          Rested(u, n + 1, EngineAfter) /\ (n = 0 \/ ~ Rested(u, n, EngineAfter))
    BY <1>16 DEF Reaches
  <2>3. n = 0 \/ n > 0
    BY <1>2
  <2> QED
    BY <1>2, <1>6, <1>12, <1>14, <1>15, <2>1, <2>2, <2>3
<1>22. Says(fs, t, "IdleEnd") <=> v = "creeping" /\ n + 1 > 1 /\ Rested(u, n, IdleAfter)
  <2>1. Says(fs, t, "IdleEnd") <=> v = "creeping" /\ m.idle
    BY <1>3, <1>7 DEF Happens, EventType, rest
  <2> QED
    BY <1>11, <1>16, <2>1
<1>23. Says(fs, t, "SpeedExceeded") <=>
         /\ v = "speeding"
         /\ \A j \in 1 .. n : Says(fs, u[j].at, "SpeedExceeded") => t - u[j].at >= Cooldown
  <2>1. Says(fs, t, "SpeedExceeded") <=>
          v = "speeding" /\ (m.lastExceeded = 0 \/ t - m.lastExceeded >= Cooldown)
    BY <1>3 DEF Happens, EventType, Exceeds
  <2>2. /\ m.lastExceeded \in Nat
        /\ m.lastExceeded # 0 =>
             \E j \in 1 .. n : u[j].at = m.lastExceeded /\ Says(fs, u[j].at, "SpeedExceeded")
        /\ \A j \in 1 .. n : Says(fs, u[j].at, "SpeedExceeded") => u[j].at <= m.lastExceeded
    BY <1>2, <1>4 DEF KnowsSpeeding, Motion, n
  <2>3. \A j \in 1 .. n : u[j].at \in Nat /\ u[j].at > 0
    BY <1>2 DEF Sorted, n
  <2>4. (m.lastExceeded = 0 \/ t - m.lastExceeded >= Cooldown) <=>
          \A j \in 1 .. n : Says(fs, u[j].at, "SpeedExceeded") => t - u[j].at >= Cooldown
    <3>1. CASE m.lastExceeded = 0
      BY <2>2, <2>3, <3>1
    <3>2. CASE m.lastExceeded # 0
      <4>1. PICK j \in 1 .. n : u[j].at = m.lastExceeded /\ Says(fs, u[j].at, "SpeedExceeded")
        BY <2>2, <3>2
      <4>2. \A i \in 1 .. n : Says(fs, u[i].at, "SpeedExceeded") /\ t - m.lastExceeded >= Cooldown =>
                                t - u[i].at >= Cooldown
        BY <1>6, <2>2, <2>3
      <4> QED
        BY <3>2, <4>1, <4>2
    <3> QED
      BY <3>1, <3>2
  <2> QED
    BY <2>1, <2>4
<1>24. TrueOf(u, fs, n + 1)
  BY <1>5, <1>16, <1>18, <1>19, <1>20, <1>21, <1>22, <1>23 DEF TrueOf
<1> QED
  BY <1>24 DEF u, fs, n, x

\* and of those before it they stay true.
LEMMA OldIsTrue ==
  ASSUME NEW s \in Seq(Sample), NEW es, NEW m \in Motion, Sorted(s, es),
         \A e \in es : e.at \in Nat, NEW v \in Speed, NEW t \in Nat, NEW f \in Trip, t > EndOf(s),
         NEW k \in 1 .. Len(s), TrueOf(s, es, k)
  PROVE  TrueOf(Append(s, [at |-> t, speed |-> v]), es \union Derived(m, v, t, f), k)
<1> DEFINE x == [at |-> t, speed |-> v]
           u == Append(s, x)
           fs == es \union Derived(m, v, t, f)
<1>1. x \in Sample
  BY DEF Sample
<1>2. EndOf(s) \in Nat /\ \A i \in 1 .. Len(s) : u[i] = s[i] /\ s[i].at \in Nat
  BY <1>1, AppendFacts
<1>3. \A i \in 1 .. k : i \in 1 .. Len(s)
  OBVIOUS
<1>4. \A i \in 1 .. k : \A y \in EventType : Says(fs, u[i].at, y) <=> Says(es, s[i].at, y)
  <2> TAKE i \in 1 .. k
  <2> TAKE y \in EventType
  <2>1. u[i] = s[i] /\ s[i].at # t
    BY <1>2, <1>3 DEF Sorted
  <2>2. \A z : z # t => (Says(fs, z, y) <=> Says(es, z, y))
    BY <1>2, SaysOf
  <2> QED
    BY <2>1, <2>2
<1>5. u[k] = s[k] /\ k \in 1 .. k /\ \A j \in 1 .. (k - 1) : u[j] = s[j] /\ j \in 1 .. k
  BY <1>2, <1>3
<1>6. k = 1 \/ k - 1 \in 1 .. Len(s)
  OBVIOUS
<1>7. MovesAt(u, k) <=> MovesAt(s, k)
  BY <1>1, Prefix
<1>8. MovesAt(u, k - 1) <=> MovesAt(s, k - 1)
  <2>1. CASE k = 1
    BY <2>1 DEF MovesAt
  <2>2. CASE k - 1 \in 1 .. Len(s)
    BY <1>1, <2>2, Prefix
  <2> QED
    BY <1>6, <2>1, <2>2
<1>9. \A n \in Nat : Rested(u, k, n) <=> Rested(s, k, n)
  BY <1>1, Prefix
<1>10. \A n \in Nat : k - 1 \in 1 .. Len(s) => (Rested(u, k - 1, n) <=> Rested(s, k - 1, n))
  BY <1>1, Prefix
<1>11. IdleAfter \in Nat /\ EngineAfter \in Nat /\ k \in Nat
  BY BoundAssumption
<1> HIDE DEF x, u, fs
<1>12. \A n \in Nat : Reaches(u, k, n) <=> Reaches(s, k, n)
  BY <1>6, <1>9, <1>10 DEF Reaches
<1>13. k > 1 => (Rested(u, k - 1, IdleAfter) <=> Rested(s, k - 1, IdleAfter))
  BY <1>6, <1>10, <1>11
<1>14. \A y \in EventType : Says(fs, u[k].at, y) <=> Says(es, s[k].at, y)
  BY <1>4, <1>5
<1>15. \A j \in 1 .. (k - 1) : Says(fs, u[j].at, "SpeedExceeded") <=> Says(es, s[j].at, "SpeedExceeded")
  BY <1>4, <1>5 DEF EventType
<1>16. TrueOf(u, fs, k)
  <2>1. /\ Says(fs, u[k].at, "TripStart") <=> Says(es, s[k].at, "TripStart")
        /\ Says(fs, u[k].at, "TripEnd") <=> Says(es, s[k].at, "TripEnd")
        /\ Says(fs, u[k].at, "StopDetected") <=> Says(es, s[k].at, "StopDetected")
        /\ Says(fs, u[k].at, "IdleStart") <=> Says(es, s[k].at, "IdleStart")
        /\ Says(fs, u[k].at, "IdleEnd") <=> Says(es, s[k].at, "IdleEnd")
        /\ Says(fs, u[k].at, "EngineIdleSuspected") <=> Says(es, s[k].at, "EngineIdleSuspected")
        /\ Says(fs, u[k].at, "SpeedExceeded") <=> Says(es, s[k].at, "SpeedExceeded")
    BY <1>14 DEF EventType
  <2>2. Says(fs, u[k].at, "IdleEnd") <=>
          u[k].speed = "creeping" /\ k > 1 /\ Rested(u, k - 1, IdleAfter)
    BY <1>5, <1>13, <2>1 DEF TrueOf
  <2>3. Says(fs, u[k].at, "SpeedExceeded") <=>
          /\ u[k].speed = "speeding"
          /\ \A j \in 1 .. (k - 1) :
               Says(fs, u[j].at, "SpeedExceeded") => u[k].at - u[j].at >= Cooldown
    BY <1>5, <1>15, <2>1 DEF TrueOf
  <2>4. /\ Says(fs, u[k].at, "TripStart") <=> MovesAt(u, k) /\ ~ MovesAt(u, k - 1)
        /\ Says(fs, u[k].at, "TripEnd") <=> ~ MovesAt(u, k) /\ MovesAt(u, k - 1)
        /\ Says(fs, u[k].at, "StopDetected") <=> Says(fs, u[k].at, "TripEnd")
    BY <1>7, <1>8, <2>1 DEF TrueOf
  <2>5. /\ Says(fs, u[k].at, "IdleStart") <=> Reaches(u, k, IdleAfter)
        /\ Says(fs, u[k].at, "EngineIdleSuspected") <=> Reaches(u, k, EngineAfter)
    BY <1>11, <1>12, <2>1 DEF TrueOf
  <2> QED
    BY <2>2, <2>3, <2>4, <2>5 DEF TrueOf
<1> QED
  BY <1>16 DEF u, fs, x

\* One sample keeps the motion's account of the drive.
LEMMA OneSampleTells ==
  ASSUME NEW s \in Seq(Sample), NEW es, NEW m \in Motion, Tells(s, m, es),
         es \subseteq Event, NEW v \in Speed, NEW t \in Nat, NEW f \in Trip, f # NoTrip, t > EndOf(s)
  PROVE  Tells(Append(s, [at |-> t, speed |-> v]), After(m, v, t, f), es \union Derived(m, v, t, f))
<1> DEFINE x == [at |-> t, speed |-> v]
           u == Append(s, x)
           a == After(m, v, t, f)
           fs == es \union Derived(m, v, t, f)
<1>1. x \in Sample
  BY DEF Sample
<1>2. Len(u) = Len(s) + 1 /\ Len(s) \in Nat
  BY <1>1, AppendFacts
<1>3. \A e \in es : e.at \in Nat
  BY DEF Event
<1>4. /\ Sorted(s, es) /\ Knows(m, s) /\ KnowsSpeeding(m, s, es)
      /\ \A k \in 1 .. Len(s) : TrueOf(s, es, k)
  BY DEF Tells
<1>5. Sorted(u, fs)
  BY <1>3, <1>4, SortedStays
<1>6. Knows(a, u)
  BY <1>4, KnowsStays
<1>7. KnowsSpeeding(a, u, fs)
  BY <1>3, <1>4, KnowsSpeedingStays
<1>8. TrueOf(u, fs, Len(s) + 1)
  BY <1>3, <1>4, NewIsTrue
<1>9. \A k \in 1 .. Len(s) : TrueOf(u, fs, k)
  BY <1>3, <1>4, OldIsTrue
<1> HIDE DEF x, u, a, fs
<1>10. \A k \in 1 .. Len(u) : TrueOf(u, fs, k)
  <2> TAKE k \in 1 .. Len(u)
  <2>1. k \in 1 .. Len(s) \/ k = Len(s) + 1
    BY <1>2
  <2> QED
    BY <1>8, <1>9, <2>1
<1>11. Tells(u, a, fs)
  BY <1>5, <1>6, <1>7, <1>10 DEF Tells
<1> QED
  BY <1>11 DEF u, a, fs, x

-----------------------------------------------------------------------------
(* Handlers that neither overlap nor fail *)

Calm == spent.overlaps = 0 /\ spent.failures = 0

Ingesting(h) == h.pc \in {"first", "sample", "events", "device"}

\* What handler h holds is what there is, but for its batch.
Fits(h) ==
  /\ Ingesting(h) => /\ On(h.id) /\ h.device.status = "on"
                     /\ Tells(drive[h.id], h.device.motion, events[h.id] \union h.out)
  /\ h.pc = "device" => h.out \subseteq events[h.id]
  /\ h.pc = "save" => /\ On(h.id) /\ h.device.motion = devices[h.id].motion
                      /\ h.device.status # "none"
                      /\ (h.kind = "revoke" => h.device.status = "off")
  /\ h.pc = "others" => \A d \in DeviceId : h.others[d] = SwitchedOff(devices[d])
  /\ h.pc \in {"others", "insert"} => h.kind = "enroll"
  /\ h.pc = "insert" => NoPrimary
  /\ h.pc = "log" /\ h.kind = "revoke" => NoPrimary

Enrolled(h) == h.pc = "log" /\ h.kind = "enroll"

DInv ==
  /\ \A r, q \in Request : req[r] # Idle /\ req[q] # Idle => r = q
  /\ \A r \in Request : Fits(req[r])
  /\ \A d \in DeviceId :
       (\A r \in Request : ~ (Ingesting(req[r]) /\ req[r].id = d)) =>
         Tells(drive[d], devices[d].motion, events[d])
  /\ \A d \in DeviceId : devices[d].status = "none" => devices[d].motion = Still
  /\ \A d, e \in DeviceId : On(d) /\ On(e) => d = e
  /\ consent = "REVOKE" => NoPrimary \/ \E r \in Request : Enrolled(req[r])

Alone(r) == \A q \in Request \ {r} : req[q] = Idle

\* Only r is in flight, and h is what becomes of it.
LEMMA OnlyOne ==
  ASSUME IInv, NEW r \in Request, Alone(r), NEW h \in Handler, Become(r, h), Fits(h)',
         \A d \in DeviceId : ~ (Ingesting(h) /\ h.id = d) =>
                               Tells(drive'[d], devices'[d].motion, events'[d]),
         \A d \in DeviceId : devices'[d].status = "none" => devices'[d].motion = Still,
         \A d, e \in DeviceId : On(d)' /\ On(e)' => d = e,
         consent' = "REVOKE" => NoPrimary' \/ Enrolled(h)
  PROVE  DInv'
<1>1. req \in [Request -> Handler]
  BY DEF IInv, TypeOK
<1>2. req'[r] = h /\ \A q \in Request \ {r} : req'[q] = Idle
  BY <1>1 DEF Become, Alone
<1>3. \A q \in Request : Fits(req[q])'
  <2> TAKE q \in Request
  <2>1. CASE q = r
    BY <1>2, <2>1 DEF Fits, Ingesting
  <2>2. CASE q # r
    <3>1. req'[q] = Idle
      BY <1>2, <2>2
    <3> QED
      BY <3>1 DEF Fits, Idle, Ingesting
  <2> QED
    BY <2>1, <2>2
<1>4. \A p, q \in Request : req'[p] # Idle /\ req'[q] # Idle => p = q
  BY <1>2
<1>5. \A d \in DeviceId :
        (\A q \in Request : ~ (Ingesting(req'[q]) /\ req'[q].id = d)) =>
          Tells(drive'[d], devices'[d].motion, events'[d])
  BY <1>2
<1>6. consent' = "REVOKE" => NoPrimary' \/ \E q \in Request : Enrolled(req'[q])
  BY <1>2
<1> QED
  BY <1>3, <1>4, <1>5, <1>6 DEF DInv, Ingesting, Enrolled, On

LEMMA Before ==
  ASSUME IInv, DInv, NEW r \in Request, req[r] # Idle
  PROVE  /\ Alone(r) /\ req[r] \in Handler /\ Fits(req[r]) /\ Sound(req[r], events)
         /\ \A d \in DeviceId : ~ (Ingesting(req[r]) /\ req[r].id = d) =>
                                  Tells(drive[d], devices[d].motion, events[d])
         /\ \A d \in DeviceId : devices[d].status = "none" => devices[d].motion = Still
         /\ \A d, e \in DeviceId : On(d) /\ On(e) => d = e
         /\ consent = "REVOKE" => NoPrimary \/ Enrolled(req[r])
<1>1. Alone(r)
  BY DEF DInv, Alone
<1>2. \A q \in Request \ {r} : ~ Ingesting(req[q]) /\ ~ Enrolled(req[q])
  BY <1>1 DEF Alone, Ingesting, Enrolled, Idle
<1>3. req[r] \in Handler /\ Sound(req[r], events)
  BY DEF IInv, TypeOK
<1>4. /\ Fits(req[r])
      /\ \A d \in DeviceId : ~ (Ingesting(req[r]) /\ req[r].id = d) =>
                               Tells(drive[d], devices[d].motion, events[d])
      /\ consent = "REVOKE" => NoPrimary \/ Enrolled(req[r])
  BY <1>2 DEF DInv
<1> QED
  BY <1>1, <1>3, <1>4 DEF DInv

LEMMA Nobody ==
  ASSUME IInv, Calm => DInv, NEW r \in Request, NEW h, NEW call \in BOOLEAN, Begin(r, h, call), Calm'
  PROVE  /\ Alone(r) /\ Become(r, h) /\ UNCHANGED <<devices, events, consent, drive>>
         /\ \A d \in DeviceId : Tells(drive[d], devices[d].motion, events[d])
         /\ \A d \in DeviceId : devices[d].status = "none" => devices[d].motion = Still
         /\ \A d, e \in DeviceId : On(d) /\ On(e) => d = e
         /\ consent = "REVOKE" => NoPrimary
<1>1. spent \in Counters /\ spent.overlaps \in Nat
  BY DEF IInv, TypeOK, Counters
<1>2. /\ spent'.overlaps = IF Overlaps(r) THEN spent.overlaps + 1 ELSE spent.overlaps
      /\ spent'.failures = spent.failures
  BY <1>1 DEF Begin, Counters
<1>3. Calm /\ ~ Overlaps(r)
  BY <1>1, <1>2 DEF Calm
<1>4. \A q \in Request : req[q] = Idle
  BY <1>3 DEF Begin, Overlaps
<1>5. \A q \in Request : ~ Ingesting(req[q]) /\ ~ Enrolled(req[q])
  BY <1>4 DEF Ingesting, Enrolled, Idle
<1>6. Alone(r)
  BY <1>4 DEF Alone
<1> QED
  BY <1>3, <1>5, <1>6 DEF DInv, Begin

\* What begins finds the devices as they are.
LEMMA BeginFits ==
  ASSUME IInv, Calm => DInv, NEW r \in Request, NEW h \in Handler, NEW call \in BOOLEAN,
         Begin(r, h, call), Calm', Fits(h)
  PROVE  DInv'
<1>1. /\ Alone(r) /\ Become(r, h) /\ UNCHANGED <<devices, events, consent, drive>>
      /\ \A d \in DeviceId : Tells(drive[d], devices[d].motion, events[d])
      /\ \A d \in DeviceId : devices[d].status = "none" => devices[d].motion = Still
      /\ \A d, e \in DeviceId : On(d) /\ On(e) => d = e
      /\ consent = "REVOKE" => NoPrimary
  BY Nobody
<1>2. Fits(h)'
  BY <1>1 DEF Fits, On, NoPrimary
<1>3. \A d \in DeviceId : Tells(drive'[d], devices'[d].motion, events'[d])
  BY <1>1
<1>4. \A d \in DeviceId : devices'[d].status = "none" => devices'[d].motion = Still
  BY <1>1
<1>5. \A d, e \in DeviceId : On(d)' /\ On(e)' => d = e
  BY <1>1 DEF On
<1>6. consent' = "REVOKE" => NoPrimary'
  BY <1>1 DEF NoPrimary, On
<1> QED
  BY <1>1, <1>2, <1>3, <1>4, <1>5, <1>6, OnlyOne

LEMMA IngestFits ==
  ASSUME IInv, Calm => DInv, NEW r \in Request, NEW d \in DeviceId, Ingest(r, d), Calm'
  PROVE  DInv'
<1>1. PICK h : h = [Idle EXCEPT !.kind = "ingest", !.pc = "first", !.id = d, !.device = devices[d],
                                !.batch = spent.batches + 1]
  OBVIOUS
<1>2. Begin(r, h, FALSE) /\ On(d)
  BY <1>1 DEF Ingest
<1>3. devices[d] \in Device /\ spent.batches + 1 \in Nat
  BY DEF IInv, TypeOK, Counters
<1>4. Idle \in Handler /\ Idle.out = {}
  BY IdleSound DEF Idle
<1>5. h \in Handler /\ h.kind = "ingest" /\ h.pc = "first" /\ h.id = d /\ h.device = devices[d] /\ h.out = {}
  BY <1>1, <1>3, <1>4 DEF Handler
<1>6. Tells(drive[d], devices[d].motion, events[d] \union {})
  <2>1. Tells(drive[d], devices[d].motion, events[d])
    BY <1>2, Nobody
  <2>2. events[d] \union {} = events[d]
    OBVIOUS
  <2> QED
    BY <2>1, <2>2
<1>7. Fits(h)
  BY <1>2, <1>5, <1>6 DEF Fits, Ingesting, On
<1> QED
  BY <1>2, <1>5, <1>7, BeginFits

LEMMA ConsentFits ==
  ASSUME IInv, Calm => DInv, NEW r \in Request, Calm',
         NEW kind \in {"grant", "revoke"}, NEW d \in DeviceId, NEW status \in {"on", "off"},
         kind = "revoke" => status = "off", Consent(r, kind, d, status)
  PROVE  DInv'
<1>1. PICK e : e = [devices[d] EXCEPT !.status = status]
  OBVIOUS
<1>2. devices[d] \in Device
  BY DEF IInv, TypeOK
<1>3. e \in Device /\ e.motion = devices[d].motion /\ e.status = status
  BY <1>1, <1>2 DEF Device
<1>4. PICK h : h = [Idle EXCEPT !.kind = kind, !.pc = "save", !.id = d, !.device = e]
  OBVIOUS
<1>5. Idle \in Handler
  BY IdleSound
<1>6. h \in Handler /\ h.kind = kind /\ h.pc = "save" /\ h.id = d /\ h.device = e
  BY <1>3, <1>4, <1>5 DEF Handler
<1>7. Begin(r, h, TRUE) /\ On(d)
  BY <1>1, <1>4 DEF Consent, Primary
<1>8. Fits(h)
  BY <1>3, <1>6, <1>7 DEF Fits, Ingesting
<1> QED
  BY <1>6, <1>7, <1>8, BeginFits

LEMMA GrantRevokeFit ==
  ASSUME IInv, Calm => DInv, NEW r \in Request, Calm', Grant(r) \/ Revoke(r)
  PROVE  DInv'
<1>1. ASSUME NEW d \in DeviceId, Consent(r, "grant", d, "on") PROVE DInv'
  BY <1>1, ConsentFits
<1>2. ASSUME NEW d \in DeviceId, Consent(r, "revoke", d, "off") PROVE DInv'
  BY <1>2, ConsentFits
<1>3. ASSUME Begin(r, [Idle EXCEPT !.kind = "grant", !.pc = "log"], TRUE) PROVE DInv'
  <2>1. PICK h : h = [Idle EXCEPT !.kind = "grant", !.pc = "log"]
    OBVIOUS
  <2>2. Idle \in Handler
    BY IdleSound
  <2>3. h \in Handler /\ h.kind = "grant" /\ h.pc = "log"
    BY <2>1, <2>2 DEF Handler
  <2>4. Fits(h)
    BY <2>3 DEF Fits, Ingesting
  <2> QED
    BY <1>3, <2>1, <2>3, <2>4, BeginFits
<1> QED
  BY <1>1, <1>2, <1>3 DEF Grant, Revoke

LEMMA EnrollFits ==
  ASSUME IInv, Calm => DInv, NEW r \in Request, Calm', Enroll(r)
  PROVE  DInv'
<1>1. PICK o : o = [d \in DeviceId |-> SwitchedOff(devices[d])]
  OBVIOUS
<1>2. \A d \in DeviceId : SwitchedOff(devices[d]) \in Device
  BY DEF SwitchedOff, IInv, TypeOK, Device
<1>3. o \in [DeviceId -> Device] /\ \A d \in DeviceId : o[d] = SwitchedOff(devices[d])
  BY <1>1, <1>2
<1>4. PICK h : h = [Idle EXCEPT !.kind = "enroll", !.pc = "others", !.others = o]
  OBVIOUS
<1>5. Idle \in Handler
  BY IdleSound
<1>6. h \in Handler /\ h.kind = "enroll" /\ h.pc = "others" /\ h.others = o
  BY <1>3, <1>4, <1>5 DEF Handler
<1>7. Begin(r, h, TRUE)
  BY <1>1, <1>4 DEF Enroll
<1>8. Fits(h)
  BY <1>3, <1>6 DEF Fits, Ingesting
<1> QED
  BY <1>6, <1>7, <1>8, BeginFits

LEMMA InterpretFits ==
  ASSUME Distinct, IInv, DInv, NEW r \in Request, NEW g \in Gap, NEW v \in Speed,
         Interpret(r, g, v)
  PROVE  DInv'
<1>1. At(r, "first") \/ At(r, "sample")
  BY DEF Interpret
<1>2. req[r] # Idle /\ Ingesting(req[r])
  BY <1>1 DEF At, Idle, Ingesting
<1>3. PICK o : o = req[r]
  OBVIOUS
<1>4. /\ o \in Handler /\ Fits(o) /\ o.id \in DeviceId /\ Alone(r)
      /\ consent = "REVOKE" => NoPrimary
  BY <1>1, <1>2, <1>3, Before DEF Sound, At, Enrolled
<1>5. PICK s, m, t, f, es :
        /\ s = drive[o.id] /\ m = o.device.motion /\ t = LastAt(o.id) + g
        /\ f = <<o.batch, t>> /\ es = events[o.id] \union o.out
  OBVIOUS
<1>6. /\ s \in Seq(Sample) /\ m \in Motion /\ es \subseteq Event /\ o.batch \in Nat
      /\ o.device \in Device /\ o.out \subseteq Event
  BY <1>4, <1>5, Facts DEF Handler, Device
<1>7. EndOf(s) \in Nat /\ LastAt(o.id) = EndOf(s)
  <2>1. LastAt(o.id) = EndOf(s)
    BY <1>5 DEF LastAt, EndOf
  <2>2. [at |-> 0, speed |-> v] \in Sample
    BY DEF Sample
  <2> QED
    BY <1>6, <2>1, <2>2, AppendFacts
<1>8. t \in Nat /\ t > EndOf(s) /\ f \in Trip /\ f # NoTrip
  <2>1. g \in Nat /\ g > 0
    BY DEF Distinct
  <2>2. t \in Nat /\ t > EndOf(s) /\ t # 0
    BY <1>5, <1>7, <2>1
  <2> QED
    BY <1>5, <1>6, <2>2 DEF Trip, NoTrip
<1>9. PICK a, ds, u : /\ a = After(m, v, t, f) /\ ds = Derived(m, v, t, f)
                      /\ u = Append(s, [at |-> t, speed |-> v])
  OBVIOUS
<1>10. Tells(u, a, es \union ds)
  <2>1. Tells(s, m, es)
    BY <1>2, <1>3, <1>4, <1>5 DEF Fits
  <2> QED
    BY <1>6, <1>8, <1>9, <2>1, OneSampleTells
<1>11. a \in Motion /\ ds \subseteq Event
  BY <1>6, <1>8, <1>9, MotionTyped
<1>12. PICK h : h = [o EXCEPT !.pc = "sample", !.device.motion = a, !.out = @ \union ds]
  OBVIOUS
<1>13. /\ drive' = [drive EXCEPT ![o.id] = u] /\ Become(r, h)
       /\ UNCHANGED <<devices, events, consent, limit, spent>>
  BY <1>3, <1>5, <1>9, <1>12 DEF Interpret
<1>14. PICK e : e = [o.device EXCEPT !.motion = a]
  OBVIOUS
<1>15. e \in Device /\ e.motion = a /\ e.status = o.device.status
  BY <1>6, <1>11, <1>14 DEF Device
<1>16. PICK x : x = o.out \union ds
  OBVIOUS
<1>17. x \subseteq Event
  BY <1>6, <1>11, <1>16
<1>18. h = [o EXCEPT !.pc = "sample", !.device = e, !.out = x]
  BY <1>4, <1>12, <1>14, <1>16 DEF Handler
<1>19. /\ h \in Handler /\ h.pc = "sample" /\ h.id = o.id /\ h.device = e /\ h.kind = o.kind
       /\ h.out = x
  BY <1>4, <1>15, <1>17, <1>18 DEF Handler
<1>20. drive'[o.id] = u /\ \A d \in DeviceId \ {o.id} : drive'[d] = drive[d]
  BY <1>4, <1>13 DEF IInv, TypeOK
<1>21. events[o.id] \union x = es \union ds
  BY <1>5, <1>16
<1>22. On(o.id) /\ o.device.status = "on"
  BY <1>2, <1>3, <1>4 DEF Fits
<1>23. Fits(h)'
  <2>1. Tells(drive'[h.id], h.device.motion, events'[h.id] \union h.out)
    BY <1>10, <1>13, <1>15, <1>19, <1>20, <1>21
  <2>2. On(h.id)' /\ h.device.status = "on"
    BY <1>13, <1>15, <1>19, <1>22 DEF On
  <2> QED
    BY <1>19, <2>1, <2>2 DEF Fits
<1>24. Ingesting(h)
  BY <1>19 DEF Ingesting
<1>25. \A d \in DeviceId : ~ (Ingesting(h) /\ h.id = d) =>
                             Tells(drive'[d], devices'[d].motion, events'[d])
  BY <1>2, <1>3, <1>13, <1>19, <1>20, <1>24, Before
<1>26. /\ \A d \in DeviceId : devices'[d].status = "none" => devices'[d].motion = Still
       /\ \A d, e1 \in DeviceId : On(d)' /\ On(e1)' => d = e1
       /\ consent' = "REVOKE" => NoPrimary'
  BY <1>2, <1>4, <1>13, Before DEF On, NoPrimary
<1> QED
  BY <1>4, <1>13, <1>19, <1>23, <1>25, <1>26, OnlyOne

\* The next step of a batch, from its samples to its rows and to its device.
LEMMA Goes ==
  ASSUME NEW r \in Request, At(r, "sample") \/ At(r, "events") \/ At(r, "device"), GoOn(r)
  PROVE  /\ At(r, "sample") => Become(r, [req[r] EXCEPT !.pc = "events"])
         /\ At(r, "events") => Become(r, [req[r] EXCEPT !.pc = "device"])
         /\ At(r, "device") => Become(r, Idle)
  BY DEF GoOn, Following, Order, At

LEMMA InterpretedFits ==
  ASSUME IInv, DInv, NEW r \in Request, Interpreted(r)
  PROVE  DInv'
<1>1. At(r, "sample") /\ GoOn(r) /\ UNCHANGED <<devices, events, consent, drive, limit, spent>>
  BY DEF Interpreted
<1>2. req[r] # Idle /\ Ingesting(req[r]) /\ ~ Enrolled(req[r])
  BY <1>1 DEF At, Idle, Ingesting, Enrolled
<1>3. PICK o : o = req[r]
  OBVIOUS
<1>4. o \in Handler /\ Fits(o) /\ Alone(r) /\ Ingesting(o)
  BY <1>2, <1>3, Before
<1>5. PICK h : h = [o EXCEPT !.pc = "events"]
  OBVIOUS
<1>6. Become(r, h)
  BY <1>1, <1>3, <1>5, Goes
<1>7. /\ h \in Handler /\ h.pc = "events" /\ h.id = o.id /\ h.device = o.device /\ h.out = o.out
      /\ h.kind = o.kind /\ Ingesting(h)
  BY <1>4, <1>5 DEF Handler, Ingesting
<1>8. Fits(h)'
  BY <1>1, <1>4, <1>7 DEF Fits, On
<1>9. \A d \in DeviceId : ~ (Ingesting(h) /\ h.id = d) =>
                            Tells(drive'[d], devices'[d].motion, events'[d])
  BY <1>1, <1>2, <1>3, <1>7, Before
<1>10. /\ \A d \in DeviceId : devices'[d].status = "none" => devices'[d].motion = Still
       /\ \A d, e \in DeviceId : On(d)' /\ On(e)' => d = e
       /\ consent' = "REVOKE" => NoPrimary'
  BY <1>1, <1>2, Before DEF On, NoPrimary
<1> QED
  BY <1>4, <1>6, <1>7, <1>8, <1>9, <1>10, OnlyOne

LEMMA SaveEventsFits ==
  ASSUME IInv, DInv, NEW r \in Request, SaveEvents(r)
  PROVE  DInv'
<1>1. /\ At(r, "events") /\ GoOn(r) /\ UNCHANGED <<devices, consent, drive, limit, spent>>
      /\ events' = [events EXCEPT ![req[r].id] = events[req[r].id] \union req[r].out]
  BY DEF SaveEvents
<1>2. req[r] # Idle /\ Ingesting(req[r]) /\ ~ Enrolled(req[r])
  BY <1>1 DEF At, Idle, Ingesting, Enrolled
<1>3. PICK o : o = req[r]
  OBVIOUS
<1>4. o \in Handler /\ Fits(o) /\ Alone(r) /\ Ingesting(o) /\ o.id \in DeviceId
  BY <1>1, <1>2, <1>3, Before DEF Sound, At
<1>5. PICK h : h = [o EXCEPT !.pc = "device"]
  OBVIOUS
<1>6. Become(r, h)
  BY <1>1, <1>3, <1>5, Goes
<1>7. /\ h \in Handler /\ h.pc = "device" /\ h.id = o.id /\ h.device = o.device /\ h.out = o.out
      /\ h.kind = o.kind /\ Ingesting(h)
  BY <1>4, <1>5 DEF Handler, Ingesting
<1>8. /\ events'[o.id] = events[o.id] \union o.out
      /\ \A d \in DeviceId \ {o.id} : events'[d] = events[d]
  BY <1>1, <1>3, <1>4 DEF IInv, TypeOK
<1>9. events'[o.id] \union o.out = events[o.id] \union o.out
  BY <1>8
<1>10. Fits(h)'
  <2>1. Tells(drive'[h.id], h.device.motion, events'[h.id] \union h.out)
    BY <1>1, <1>4, <1>7, <1>9 DEF Fits
  <2>2. On(h.id)' /\ h.device.status = "on"
    BY <1>1, <1>4, <1>7 DEF Fits, On
  <2>3. h.out \subseteq events'[h.id]
    BY <1>7, <1>8
  <2> QED
    BY <1>7, <2>1, <2>2, <2>3 DEF Fits
<1>11. \A d \in DeviceId : ~ (Ingesting(h) /\ h.id = d) =>
                             Tells(drive'[d], devices'[d].motion, events'[d])
  BY <1>1, <1>2, <1>3, <1>7, <1>8, Before
<1>12. /\ \A d \in DeviceId : devices'[d].status = "none" => devices'[d].motion = Still
       /\ \A d, e \in DeviceId : On(d)' /\ On(e)' => d = e
       /\ consent' = "REVOKE" => NoPrimary'
  BY <1>1, <1>2, Before DEF On, NoPrimary
<1> QED
  BY <1>4, <1>6, <1>7, <1>10, <1>11, <1>12, OnlyOne

\* The device saved is the one that is on, and knows what its rows say.
LEMMA SaveDeviceFits ==
  ASSUME IInv, DInv, NEW r \in Request, SaveDevice(r)
  PROVE  DInv'
<1>1. /\ At(r, "device") /\ GoOn(r) /\ UNCHANGED <<events, consent, drive, limit, spent>>
      /\ devices' = [devices EXCEPT ![req[r].id] = req[r].device]
  BY DEF SaveDevice, Kept
<1>2. req[r] # Idle /\ Ingesting(req[r]) /\ ~ Enrolled(req[r])
  BY <1>1 DEF At, Idle, Ingesting, Enrolled
<1>3. PICK o : o = req[r]
  OBVIOUS
<1>4. /\ o \in Handler /\ Fits(o) /\ Alone(r) /\ Ingesting(o) /\ o.id \in DeviceId
      /\ o.pc = "device"
  BY <1>1, <1>2, <1>3, Before DEF Sound, At
<1>5. Become(r, Idle)
  BY <1>1, Goes
<1>6. /\ devices'[o.id] = o.device /\ \A d \in DeviceId \ {o.id} : devices'[d] = devices[d]
  BY <1>1, <1>3, <1>4 DEF IInv, TypeOK
<1>7. o.device.status = "on" /\ On(o.id)
  BY <1>4 DEF Fits
<1>8. events[o.id] \union o.out = events[o.id]
  BY <1>4 DEF Fits
<1>9. Tells(drive[o.id], o.device.motion, events[o.id])
  BY <1>4, <1>8 DEF Fits
<1>10. \A d \in DeviceId : Tells(drive'[d], devices'[d].motion, events'[d])
  BY <1>1, <1>2, <1>3, <1>6, <1>9, Before
<1>11. \A d \in DeviceId : On(d)' <=> On(d)
  BY <1>6, <1>7 DEF On
<1>12. /\ \A d \in DeviceId : devices'[d].status = "none" => devices'[d].motion = Still
       /\ \A d, e \in DeviceId : On(d)' /\ On(e)' => d = e
       /\ consent' = "REVOKE" => NoPrimary'
  BY <1>1, <1>2, <1>6, <1>7, <1>11, Before DEF NoPrimary
<1>13. Idle \in Handler /\ Fits(Idle)'
  BY IdleSound DEF Fits, Ingesting, Idle
<1> QED
  BY <1>4, <1>5, <1>10, <1>12, <1>13, OnlyOne

LEMMA SaveConsentFits ==
  ASSUME IInv, DInv, NEW r \in Request, SaveConsent(r)
  PROVE  DInv'
<1>1. /\ At(r, "save") /\ UNCHANGED <<events, consent, drive, limit, spent>>
      /\ devices' = [devices EXCEPT ![req[r].id] = req[r].device]
      /\ Become(r, [req[r] EXCEPT !.pc = "log"])
  BY DEF SaveConsent
<1>2. req[r] # Idle /\ ~ Ingesting(req[r]) /\ ~ Enrolled(req[r])
  BY <1>1 DEF At, Idle, Ingesting, Enrolled
<1>3. PICK o : o = req[r]
  OBVIOUS
<1>4. o \in Handler /\ Fits(o) /\ Alone(r) /\ o.id \in DeviceId /\ o.pc = "save"
  BY <1>1, <1>2, <1>3, Before DEF Sound, At
<1>5. PICK h : h = [o EXCEPT !.pc = "log"]
  OBVIOUS
<1>6. h \in Handler /\ h.pc = "log" /\ h.kind = o.kind
  BY <1>4, <1>5 DEF Handler
<1>7. /\ devices'[o.id] = o.device /\ \A d \in DeviceId \ {o.id} : devices'[d] = devices[d]
  BY <1>1, <1>3, <1>4 DEF IInv, TypeOK
<1>8. /\ On(o.id) /\ o.device.motion = devices[o.id].motion /\ o.device.status # "none"
      /\ (o.kind = "revoke" => o.device.status = "off")
  BY <1>4 DEF Fits
<1>9. \A d, e \in DeviceId : On(d) /\ On(e) => d = e
  BY <1>2, Before
<1>10. \A d \in DeviceId : On(d)' => On(d)
  BY <1>7, <1>8 DEF On
<1>11. o.kind = "revoke" => NoPrimary'
  <2> SUFFICES ASSUME o.kind = "revoke", NEW d \in DeviceId PROVE ~ On(d)'
    BY DEF NoPrimary
  <2>1. CASE d = o.id
    BY <1>7, <1>8, <2>1 DEF On
  <2>2. CASE d # o.id
    BY <1>4, <1>8, <1>9, <1>10, <2>2
  <2> QED
    BY <2>1, <2>2
<1>12. Fits(h)'
  BY <1>6, <1>11 DEF Fits, Ingesting
<1>13. consent' # "REVOKE"
  <2>1. ~ NoPrimary
    BY <1>4, <1>8 DEF NoPrimary
  <2> QED
    BY <1>1, <1>2, <2>1, Before
<1>14. \A d \in DeviceId : Tells(drive'[d], devices'[d].motion, events'[d])
  <2> TAKE d \in DeviceId
  <2>1. Tells(drive[d], devices[d].motion, events[d])
    BY <1>2, Before
  <2>2. devices'[d].motion = devices[d].motion
    BY <1>7, <1>8
  <2> QED
    BY <1>1, <2>1, <2>2
<1>15. \A d \in DeviceId : devices'[d].status = "none" => devices'[d].motion = Still
  BY <1>2, <1>7, <1>8, Before
<1>16. \A d, e \in DeviceId : On(d)' /\ On(e)' => d = e
  BY <1>9, <1>10
<1>17. Become(r, h)
  BY <1>1, <1>3, <1>5
<1> QED
  BY <1>4, <1>6, <1>12, <1>13, <1>14, <1>15, <1>16, <1>17, OnlyOne

\* All the devices that were found are off.
LEMMA SaveOthersFits ==
  ASSUME IInv, DInv, NEW r \in Request, SaveOthers(r)
  PROVE  DInv'
<1>1. PICK o : o = req[r]
  OBVIOUS
<1>2. /\ At(r, "others") /\ UNCHANGED <<events, consent, drive, limit, spent>>
      /\ devices' = [d \in DeviceId |-> IF o.others[d] = NoDevice THEN devices[d] ELSE o.others[d]]
      /\ Become(r, [Idle EXCEPT !.kind = "enroll", !.pc = "insert"])
  BY <1>1 DEF SaveOthers
<1>3. req[r] # Idle /\ ~ Ingesting(req[r]) /\ ~ Enrolled(req[r])
  BY <1>2 DEF At, Idle, Ingesting, Enrolled
<1>4. o \in Handler /\ Fits(o) /\ Alone(r) /\ o.pc = "others"
  BY <1>1, <1>2, <1>3, Before DEF At
<1>5. PICK h : h = [Idle EXCEPT !.kind = "enroll", !.pc = "insert"]
  OBVIOUS
<1>6. Idle \in Handler
  BY IdleSound
<1>7. h \in Handler /\ h.pc = "insert" /\ h.kind = "enroll"
  BY <1>5, <1>6 DEF Handler
<1>8. ASSUME NEW d \in DeviceId
      PROVE  devices'[d].motion = devices[d].motion /\ devices'[d].status # "on"
             /\ (devices'[d].status = "none" => devices[d].status = "none")
  <2>1. o.others[d] = SwitchedOff(devices[d]) /\ devices[d] \in Device
    BY <1>4 DEF Fits, IInv, TypeOK
  <2>2. devices'[d] = IF o.others[d] = NoDevice THEN devices[d] ELSE o.others[d]
    BY <1>2
  <2>3. CASE devices[d].status = "none"
    BY <2>1, <2>2, <2>3 DEF SwitchedOff
  <2>4. CASE devices[d].status # "none"
    <3>1. o.others[d].status = "off" /\ o.others[d].motion = devices[d].motion
      BY <2>1, <2>4 DEF SwitchedOff, Device
    <3>2. o.others[d] # NoDevice
      BY <3>1 DEF NoDevice
    <3> QED
      BY <2>2, <3>1, <3>2
  <2> QED
    BY <2>3, <2>4
<1>9. NoPrimary'
  BY <1>8 DEF NoPrimary, On
<1>10. Fits(h)'
  BY <1>7, <1>9 DEF Fits, Ingesting
<1>11. \A d \in DeviceId : Tells(drive'[d], devices'[d].motion, events'[d])
  <2> TAKE d \in DeviceId
  <2>1. Tells(drive[d], devices[d].motion, events[d])
    BY <1>3, Before
  <2> QED
    BY <1>2, <1>8, <2>1
<1>12. \A d \in DeviceId : devices'[d].status = "none" => devices'[d].motion = Still
  BY <1>3, <1>8, Before
<1>13. Become(r, h) /\ \A d, e \in DeviceId : On(d)' /\ On(e)' => d = e
  BY <1>2, <1>5, <1>9 DEF NoPrimary
<1> QED
  BY <1>4, <1>7, <1>9, <1>10, <1>11, <1>12, <1>13, OnlyOne

LEMMA InsertFits ==
  ASSUME IInv, DInv, NEW r \in Request, Insert(r)
  PROVE  DInv'
<1>1. PICK o : o = req[r]
  OBVIOUS
<1>2. PICK d \in DeviceId : NextDevice(d) /\ devices' = [devices EXCEPT ![d] = NewDevice]
  BY DEF Insert
<1>3. /\ At(r, "insert") /\ UNCHANGED <<events, consent, drive, limit, spent>>
      /\ Become(r, [o EXCEPT !.pc = "log"])
  BY <1>1 DEF Insert
<1>4. req[r] # Idle /\ ~ Ingesting(req[r]) /\ ~ Enrolled(req[r])
  BY <1>3 DEF At, Idle, Ingesting, Enrolled
<1>5. o \in Handler /\ Fits(o) /\ Alone(r) /\ o.pc = "insert"
  BY <1>1, <1>3, <1>4, Before DEF At
<1>6. PICK h : h = [o EXCEPT !.pc = "log"]
  OBVIOUS
<1>7. NoPrimary /\ o.kind = "enroll"
  BY <1>5 DEF Fits
<1>8. h \in Handler /\ h.pc = "log" /\ h.kind = "enroll"
  BY <1>5, <1>6, <1>7 DEF Handler
<1>9. Fits(h)'
  BY <1>8 DEF Fits, Ingesting
<1>10. devices'[d] = NewDevice /\ \A e \in DeviceId \ {d} : devices'[e] = devices[e]
  BY <1>2 DEF IInv, TypeOK
<1>11. NewDevice.motion = Still /\ NewDevice.status = "on"
  BY DEF NewDevice, NoDevice
<1>12. devices[d].status = "none" /\ devices[d].motion = Still
  BY <1>2, <1>4, Before DEF NextDevice, Known
<1>13. \A e \in DeviceId : Tells(drive'[e], devices'[e].motion, events'[e])
  <2> TAKE e \in DeviceId
  <2>1. Tells(drive[e], devices[e].motion, events[e])
    BY <1>4, Before
  <2>2. devices'[e].motion = devices[e].motion
    BY <1>10, <1>11, <1>12
  <2> QED
    BY <1>3, <2>1, <2>2
<1>14. \A e \in DeviceId : devices'[e].status = "none" => devices'[e].motion = Still
  BY <1>4, <1>10, <1>11, Before
<1>15. Become(r, h) /\ \A e, f \in DeviceId : On(e)' /\ On(f)' => e = f
  BY <1>3, <1>6, <1>7, <1>10 DEF NoPrimary, On
<1> QED
  BY <1>5, <1>8, <1>9, <1>13, <1>14, <1>15, OnlyOne DEF Enrolled

LEMMA LogFits ==
  ASSUME IInv, DInv, NEW r \in Request, Log(r)
  PROVE  DInv'
<1>1. /\ At(r, "log") /\ UNCHANGED <<devices, events, drive, limit, spent>> /\ Become(r, Idle)
      /\ consent' = CASE req[r].kind = "grant" -> "GRANT"
                      [] req[r].kind = "revoke" -> "REVOKE"
                      [] req[r].kind = "enroll" -> "ENROLL"
  BY DEF Log
<1>2. req[r] # Idle /\ ~ Ingesting(req[r])
  BY <1>1 DEF At, Idle, Ingesting
<1>3. Alone(r) /\ Fits(req[r]) /\ req[r].kind \in {"grant", "revoke", "enroll"}
  BY <1>1, <1>2, Before DEF At, Sound
<1>4. consent' = "REVOKE" => req[r].kind = "revoke"
  BY <1>1, <1>3
<1>5. consent' = "REVOKE" => NoPrimary'
  BY <1>1, <1>3, <1>4 DEF Fits, At, NoPrimary, On
<1>6. Idle \in Handler /\ Fits(Idle)'
  BY IdleSound DEF Fits, Ingesting, Idle
<1>7. \A d \in DeviceId : Tells(drive'[d], devices'[d].motion, events'[d])
  BY <1>1, <1>2, Before
<1>8. /\ \A d \in DeviceId : devices'[d].status = "none" => devices'[d].motion = Still
      /\ \A d, e \in DeviceId : On(d)' /\ On(e)' => d = e
  BY <1>1, <1>2, Before DEF On
<1> QED
  BY <1>1, <1>3, <1>5, <1>6, <1>7, <1>8, OnlyOne

-----------------------------------------------------------------------------
LEMMA InitFits ==
  ASSUME Init
  PROVE  DInv
<1>1. \A r \in Request : req[r] = Idle
  BY DEF Init
<1>2. \A r \in Request : Fits(req[r])
  BY <1>1 DEF Fits, Ingesting, Idle
<1>3. \A d \in DeviceId : drive[d] = <<>> /\ devices[d].motion = Still /\ events[d] = {}
  BY DEF Init, NewDevice, NoDevice
<1>4. Tells(<<>>, Still, {})
  <2>1. Len(<<>>) = 0 /\ EndOf(<<>>) = 0
    BY DEF EndOf
  <2>2. Sorted(<<>>, {})
    BY <2>1 DEF Sorted
  <2>3. Knows(Still, <<>>)
    BY <2>1 DEF Knows, Rests, MovesAt, Still
  <2>4. KnowsSpeeding(Still, <<>>, {})
    BY <2>1 DEF KnowsSpeeding, Still
  <2> QED
    BY <2>1, <2>2, <2>3, <2>4 DEF Tells
<1>5. \A d, e \in DeviceId : On(d) /\ On(e) => d = e
  BY DEF Init, On, NoDevice
<1> QED
  BY <1>1, <1>2, <1>3, <1>4, <1>5 DEF DInv, Init

LEMMA StepFits ==
  ASSUME Distinct, IInv, Calm => DInv, Next, Calm'
  PROVE  DInv'
<1>1. spent.failures \in Nat /\ spent.overlaps \in Nat
  BY DEF IInv, TypeOK, Counters
<1>2. ASSUME NEW r \in Request, Start(r) PROVE DInv'
  BY <1>2, IngestFits, GrantRevokeFit, EnrollFits DEF Start
<1>3. ASSUME NEW r \in Request, Step(r) PROVE DInv'
  <2>1. UNCHANGED spent
    BY <1>3 DEF Step, Interpret, Interpreted, SaveEvents, SaveDevice, SaveConsent, SaveOthers,
                Insert, Log
  <2>2. DInv
    BY <2>1 DEF Calm
  <2> QED
    BY <1>3, <2>2, InterpretFits, InterpretedFits, SaveEventsFits, SaveDeviceFits, SaveConsentFits,
       SaveOthersFits, InsertFits, LogFits DEF Step
<1>4. ASSUME NEW rs, Fail(rs) PROVE FALSE
  <2>1. spent' = [spent EXCEPT !.failures = @ + 1] /\ spent \in Counters
    BY <1>4 DEF Fail, IInv, TypeOK
  <2>2. spent'.failures = spent.failures + 1
    BY <2>1 DEF Counters
  <2> QED
    BY <1>1, <2>2 DEF Calm
<1> QED
  BY <1>2, <1>3, <1>4 DEF Next, CallThrows, Crash

LEMMA DriveInductive ==
  ASSUME Distinct
  PROVE  /\ BothInit => IInv /\ JobsInv /\ (Calm => DInv)
         /\ (IInv /\ JobsInv /\ (Calm => DInv)) /\ [BothNext]_bothVars =>
              (IInv /\ JobsInv /\ (Calm => DInv))'
<1>1. BothInit => IInv /\ JobsInv /\ (Calm => DInv)
  BY BothInductive, InitFits DEF BothInit
<1>2. ASSUME IInv, Calm => DInv, Next PROVE (Calm => DInv)'
  BY <1>2, StepFits
<1>3. ASSUME Calm => DInv, UNCHANGED vars PROVE (Calm => DInv)'
  BY <1>3 DEF vars, Calm, DInv, Fits, Ingesting, Enrolled, NoPrimary, On
<1>4. [BothNext]_bothVars => Next \/ UNCHANGED vars
  BY DEF BothNext, bothVars
<1> QED
  BY <1>1, <1>2, <1>3, <1>4, BothInductive

(* However a drive has been cut into batches, the rows noted of it are those   *)
(* of the whole drive, if calls neither overlap nor fail: a trip is begun and  *)
(* ended, idling noted once a rest is long enough, speeding but for the        *)
(* cooldown, whichever batches, revocations and enrolments came in between.    *)
THEOREM DrivesAreNoted ==
  ASSUME Distinct
  PROVE  BothSpec => []DriveIsNoted
<1>1. ASSUME IInv, Calm => DInv PROVE DriveIsNoted
  <2> SUFFICES ASSUME Undisturbed, NEW d \in DeviceId, NEW k \in DOMAIN drive[d]
               PROVE  /\ Noted(d, k, "TripStart") <=> MovingAt(d, k) /\ ~ MovingAt(d, k - 1)
                      /\ Noted(d, k, "TripEnd") <=> ~ MovingAt(d, k) /\ MovingAt(d, k - 1)
                      /\ Noted(d, k, "StopDetected") <=> Noted(d, k, "TripEnd")
                      /\ Noted(d, k, "IdleStart") <=> RestReaches(d, k, IdleAfter)
                      /\ Noted(d, k, "EngineIdleSuspected") <=> RestReaches(d, k, EngineAfter)
                      /\ Noted(d, k, "IdleEnd") <=>
                           /\ drive[d][k].speed = "creeping"
                           /\ k > 1 /\ RestedFor(d, k - 1, IdleAfter)
                      /\ Noted(d, k, "SpeedExceeded") <=>
                           /\ drive[d][k].speed = "speeding"
                           /\ \A j \in 1 .. (k - 1) :
                                Noted(d, j, "SpeedExceeded") =>
                                  drive[d][k].at - drive[d][j].at >= Cooldown
    BY DEF DriveIsNoted
  <2>1. DInv /\ \A r \in Request : ~ Ingesting(req[r])
    BY <1>1 DEF Undisturbed, Calm, Quiet, Ingesting, Idle
  <2>2. Tells(drive[d], devices[d].motion, events[d])
    BY <2>1 DEF DInv
  <2>3. k \in 1 .. Len(drive[d])
    BY <1>1 DEF IInv, TypeOK
  <2>4. TrueOf(drive[d], events[d], k)
    BY <2>2, <2>3 DEF Tells
  <2>5. \A i, n : Rested(drive[d], i, n) <=> RestedFor(d, i, n)
    BY DEF Rested, RestedFor, Began, RestBegan, Rest, StoppedAt, Stopped
  <2>6. \A i, n : Reaches(drive[d], i, n) <=> RestReaches(d, i, n)
    BY <2>5 DEF Reaches, RestReaches
  <2>7. \A i : MovesAt(drive[d], i) <=> MovingAt(d, i)
    BY DEF MovesAt, MovingAt
  <2>8. \A i, y : Says(events[d], drive[d][i].at, y) <=> Noted(d, i, y)
    BY DEF Says, Noted
  <2> QED
    BY <2>4, <2>5, <2>6, <2>7, <2>8 DEF TrueOf
<1> QED
  BY <1>1, DriveInductive, PTL DEF BothSpec

(* After a revocation no device of the driver is on, however often he has      *)
(* enrolled before, if calls neither overlap nor fail.                         *)
THEOREM RevocationsAreKept ==
  ASSUME Distinct
  PROVE  BothSpec => []RevokedIsKept
<1>1. (Calm => DInv) => RevokedIsKept
  <2> SUFFICES ASSUME Calm => DInv, Undisturbed, consent = "REVOKE" PROVE NoPrimary
    BY DEF RevokedIsKept, NoPrimary
  <2>1. DInv /\ \A r \in Request : ~ Enrolled(req[r])
    BY DEF Undisturbed, Calm, Quiet, Enrolled, Idle
  <2> QED
    BY <2>1 DEF DInv
<1> QED
  BY <1>1, DriveInductive, PTL DEF BothSpec
=============================================================================
