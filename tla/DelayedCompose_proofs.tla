------------------------ MODULE DelayedCompose_proofs -----------------------
(***************************************************************************)
(* Proofs about DelayedCompose, for any number of drains, rows and drafts. *)
(*                                                                         *)
(* What a drain has made sure of when it looked at its row may be over by  *)
(* the time it sends or settles it.  The invariant says what is left: past *)
(* the send the message is out, and the row of a drain that is past its    *)
(* look has not been withdrawn, for a cancellation that finds a drain at   *)
(* the row withdraws nothing.                                              *)
(***************************************************************************)
EXTENDS DelayedCompose, TLAPS

(* A drain is sound, by the count d and the withdrawn rows w. *)
Sound(h, d, w) ==
  /\ h.pc \notin {"idle", "look"} => h.id \in RowId /\ h.id \notin w
  /\ h.pc \in {"store", "discard", "settle"} => d[h.id] > 0

Truthful(t, d) == \A i \in RowId : t[i].status = "sent" => d[i] > 0
Cancelled(t, w) == \A i \in w : t[i].status = "cancelled"

IInv ==
  /\ TypeOK
  /\ Truthful(rows, delivered) /\ Cancelled(rows, withdrawn)
  /\ \A r \in Request : Sound(req[r], delivered, withdrawn)

-----------------------------------------------------------------------------
(* Rows and drains *)

LEMMA IdleSound == NoRow \in Row /\ Idle \in Handler /\ \A d, w : Sound(Idle, d, w)
<1>1. NoRow \in Row
  BY DEF NoRow, Row
<1>2. Idle \in Handler
  BY DEF Idle, Handler
<1>3. \A d, w : Sound(Idle, d, w)
  BY DEF Idle, Sound
<1> QED
  BY <1>1, <1>2, <1>3

LEMMA NextRowSound ==
  ASSUME NEW h \in Handler, NEW d, NEW w
  PROVE  NextRow(h) \in Handler /\ Sound(NextRow(h), d, w)
BY IdleSound DEF NextRow, Idle, Handler, Sound

LEMMA ThrownSound ==
  ASSUME NEW h \in Handler, NEW d, NEW w, Sound(h, d, w), h.pc # "idle"
  PROVE  Thrown(h) \in Handler /\ Sound(Thrown(h), d, w)
BY IdleSound DEF Thrown, Handler, Sound

\* A row in a table is settled to s, or left alone.
LEMMA StatusKeeps ==
  ASSUME IInv, NEW i \in RowId, NEW s \in {"cancelled", "sent", "failed"},
         s = "sent" => delivered[i] > 0,
         Pending(i), Status(i, s)
  PROVE  /\ rows' \in [RowId -> Row]
         /\ Truthful(rows', delivered) /\ Cancelled(rows', withdrawn)
<1>1. [rows[i] EXCEPT !.status = s] \in Row
  BY DEF IInv, TypeOK, Row
<1>2. rows' \in [RowId -> Row]
  BY <1>1 DEF IInv, TypeOK, Status
<1>3. ASSUME NEW j \in RowId
      PROVE  rows'[j].status = IF j = i THEN s ELSE rows[j].status
  BY DEF IInv, TypeOK, Row, Status
<1>4. i \notin withdrawn
  BY DEF IInv, Cancelled, Pending
<1> QED
  BY <1>2, <1>3, <1>4 DEF IInv, TypeOK, Truthful, Cancelled

LEMMA SettledKeeps ==
  ASSUME IInv, NEW i \in RowId, NEW s \in {"sent", "failed"},
         s = "sent" => delivered[i] > 0,
         Settled(i, s)
  PROVE  /\ rows' \in [RowId -> Row]
         /\ Truthful(rows', delivered) /\ Cancelled(rows', withdrawn)
<1>1. CASE Pending(i)
  BY <1>1, StatusKeeps DEF Settled
<1>2. CASE ~ Pending(i)
  BY <1>2 DEF Settled, IInv, TypeOK
<1> QED
  BY <1>1, <1>2

-----------------------------------------------------------------------------
(* One drain moves: the invariant asks only of that drain, and of the rows it *)
(* has written.                                                               *)

LEMMA OneMoves ==
  ASSUME IInv, NEW r \in Request, NEW h \in Handler,
         Become(r, h), Sound(h, delivered', withdrawn),
         rows' \in [RowId -> Row], drafts' \subseteq Draft,
         delivered' \in [RowId -> 0 .. 2],
         \A i \in RowId : delivered[i] > 0 => delivered'[i] > 0,
         Truthful(rows', delivered'), Cancelled(rows', withdrawn),
         spent' \in Counters,
         UNCHANGED <<withdrawn, now>>
  PROVE  IInv'
<1>1. req' \in [Request -> Handler]
  BY DEF IInv, TypeOK, Become
<1>2. \A q \in Request : Sound(req'[q], delivered', withdrawn')
  <2> SUFFICES ASSUME NEW q \in Request PROVE Sound(req'[q], delivered', withdrawn)
    OBVIOUS
  <2>1. CASE q = r
    BY <2>1 DEF IInv, TypeOK, Become
  <2>2. CASE q # r
    BY <2>2 DEF IInv, TypeOK, Become, Sound
  <2> QED
    BY <2>1, <2>2
<1> QED
  BY <1>1, <1>2 DEF IInv, TypeOK

\* A drain moves and leaves the rows and the server alone.
LEMMA MovesOnly ==
  ASSUME IInv, NEW r \in Request, NEW h \in Handler,
         Become(r, h), Sound(h, delivered, withdrawn),
         drafts' \subseteq Draft, spent' \in Counters,
         UNCHANGED <<rows, delivered, withdrawn, now>>
  PROVE  IInv'
BY OneMoves DEF IInv, TypeOK

-----------------------------------------------------------------------------
(* The steps *)

LEMMA DrainKeeps ==
  ASSUME IInv, NEW r \in Request, Drain(r) PROVE IInv'
<1>1. PICK s \in SUBSET RowId : Become(r, [Idle EXCEPT !.pc = "look", !.list = s])
  BY DEF Drain
<1>2. /\ [Idle EXCEPT !.pc = "look", !.list = s] \in Handler
      /\ Sound([Idle EXCEPT !.pc = "look", !.list = s], delivered, withdrawn)
  BY DEF Idle, Handler, Sound
<1>3. spent' \in Counters
  BY DEF IInv, TypeOK, Drain, Counters
<1>4. drafts' \subseteq Draft /\ UNCHANGED <<rows, delivered, withdrawn, now>>
  BY DEF IInv, TypeOK, Drain
<1> QED
  BY <1>1, <1>2, <1>3, <1>4, MovesOnly

LEMMA StepKeeps ==
  ASSUME IInv, NEW r \in Request, Step(r) PROVE IInv'
<1> DEFINE h == req[r]
<1>0. /\ rows \in [RowId -> Row] /\ delivered \in [RowId -> 0 .. 2]
      /\ drafts \subseteq Draft /\ spent \in Counters
      /\ h \in Handler /\ Sound(h, delivered, withdrawn)
      /\ Truthful(rows, delivered) /\ Cancelled(rows, withdrawn)
  BY DEF IInv, TypeOK
<1>1. ASSUME NEW pc \in {"send", "fail", "settle"}, h.pc \notin {"idle", "look"},
             pc = "settle" => delivered[h.id] > 0
      PROVE  /\ [h EXCEPT !.pc = pc] \in Handler
             /\ Sound([h EXCEPT !.pc = pc], delivered, withdrawn)
  BY <1>0, <1>1 DEF Handler, Sound
<1> HIDE DEF h
<1>2. CASE Look(r)
  <2> DEFINE rest(i) == [h EXCEPT !.list = @ \ {i}]
             pc(i) == IF rows[i].draft = NoDraft THEN "send" ELSE "fetch"
             g(i) == [rest(i) EXCEPT !.pc = pc(i), !.id = i]
  <2>1. PICK i \in RowId : Become(r, IF StillPending(i) THEN g(i) ELSE NextRow(rest(i)))
    BY <1>2 DEF Look, h
  <2>2. rest(i) \in Handler
    BY <1>0 DEF Handler
  <2>3. CASE StillPending(i)
    <3>1. i \notin withdrawn
      BY <1>0, <2>3 DEF StillPending, Pending, Cancelled
    <3>2. g(i) \in Handler
      BY <2>2 DEF Handler
    <3>3. g(i).pc \in {"send", "fetch"} /\ g(i).id = i
      BY <2>2 DEF Handler
    <3>4. Sound(g(i), delivered, withdrawn)
      BY <3>1, <3>3 DEF Sound
    <3> HIDE DEF g, rest
    <3> QED
      BY <1>0, <1>2, <2>1, <2>3, <3>2, <3>4, MovesOnly DEF Look
  <2>4. CASE ~ StillPending(i)
    <3> HIDE DEF g, rest
    <3> QED
      BY <1>0, <1>2, <2>1, <2>2, <2>4, NextRowSound, MovesOnly DEF Look
  <2> QED
    BY <2>3, <2>4
<1>3. CASE Fetch(r)
  BY <1>0, <1>1, <1>3, MovesOnly DEF Fetch, At, h
<1>4. CASE SendAccepted(r)
  <2>1. h.pc = "send" /\ h.id \in RowId
    BY <1>0, <1>4 DEF SendAccepted, At, Sound, h
  <2>2. delivered' = [delivered EXCEPT ![h.id] = IF @ = 2 THEN 2 ELSE @ + 1]
    BY <1>4 DEF SendAccepted, h
  <2>3. /\ delivered' \in [RowId -> 0 .. 2] /\ delivered'[h.id] > 0
        /\ \A i \in RowId : delivered[i] > 0 => delivered'[i] > 0
    BY <1>0, <2>1, <2>2
  <2>4. [h EXCEPT !.pc = "store"] \in Handler
    BY <1>0 DEF Handler
  <2>5. Sound([h EXCEPT !.pc = "store"], delivered', withdrawn)
    BY <1>0, <2>1, <2>3 DEF Handler, Sound
  <2>6. Truthful(rows, delivered')
    BY <1>0, <2>3 DEF Truthful
  <2>7. Become(r, [h EXCEPT !.pc = "store"]) /\ UNCHANGED <<rows, drafts, withdrawn, now, spent>>
    BY <1>4 DEF SendAccepted, h
  <2> QED
    BY <1>0, <2>3, <2>4, <2>5, <2>6, <2>7, OneMoves
<1>5. CASE SendRefused(r)
  <2>1. spent' \in Counters
    BY <1>0, <1>5 DEF SendRefused, Counters
  <2>2. Become(r, [h EXCEPT !.pc = "fail"]) /\ h.pc = "send"
    BY <1>5 DEF SendRefused, At, h
  <2> QED
    BY <1>0, <1>1, <1>5, <2>1, <2>2, MovesOnly DEF SendRefused
<1>6. CASE Store(r)
  <2>1. h.pc = "store" /\ Become(r, [h EXCEPT !.pc = Stored(h.id)])
    BY <1>6 DEF Store, At, h
  <2>2. [h EXCEPT !.pc = Stored(h.id)] \in Handler
    BY <1>0 DEF Handler, Stored
  <2>3. Sound([h EXCEPT !.pc = Stored(h.id)], delivered, withdrawn)
    BY <1>0, <2>1 DEF Handler, Sound, Stored
  <2> QED
    BY <1>0, <1>6, <2>1, <2>2, <2>3, MovesOnly DEF Store
<1>7. CASE Discard(r)
  <2>1. h.pc = "discard" /\ delivered[h.id] > 0
    BY <1>0, <1>7 DEF Discard, At, Sound, h
  <2>2. PICK pc \in {"settle", "fail"} : Become(r, [h EXCEPT !.pc = pc])
    BY <1>7 DEF Discard, h
  <2>3. drafts' \subseteq Draft /\ UNCHANGED <<rows, delivered, withdrawn, now, spent>>
    BY <1>0, <1>7 DEF Discard
  <2> QED
    BY <1>0, <1>1, <2>1, <2>2, <2>3, MovesOnly
<1>8. CASE Settle(r)
  <2>1. h.id \in RowId /\ delivered[h.id] > 0
    BY <1>0, <1>8 DEF Settle, At, Sound, h
  <2>2. Settled(h.id, "sent") /\ Become(r, NextRow(h))
        /\ UNCHANGED <<drafts, delivered, withdrawn, now, spent>>
    BY <1>8 DEF Settle, h
  <2> QED
    BY <1>0, <2>1, <2>2, SettledKeeps, NextRowSound, OneMoves
<1>9. CASE Fail(r)
  <2>1. h.id \in RowId
    BY <1>0, <1>9 DEF Fail, At, Sound, h
  <2>2. Settled(h.id, "failed") /\ Become(r, NextRow(h))
        /\ UNCHANGED <<drafts, delivered, withdrawn, now, spent>>
    BY <1>9 DEF Fail, Verdict, h
  <2> QED
    BY <1>0, <2>1, <2>2, SettledKeeps, NextRowSound, OneMoves
<1> QED
  BY <1>2, <1>3, <1>4, <1>5, <1>6, <1>7, <1>8, <1>9 DEF Step

LEMMA CallThrowsKeeps ==
  ASSUME IInv, NEW r \in Request, CallThrows(r) PROVE IInv'
<1>1. spent' \in Counters /\ drafts' \subseteq Draft
  BY DEF IInv, TypeOK, CallThrows, Throw, Counters
<1>2. Thrown(req[r]) \in Handler /\ Sound(Thrown(req[r]), delivered, withdrawn)
  BY ThrownSound DEF IInv, TypeOK, CallThrows, At
<1> QED
  BY <1>1, <1>2, MovesOnly DEF CallThrows

LEMMA CrashKeeps == IInv /\ Crash => IInv'
BY IdleSound DEF IInv, TypeOK, Crash, Throw, Counters

\* A cancellation withdraws its row only if no drain is at it.
LEMMA CancelKeeps ==
  ASSUME IInv, NEW i \in RowId, Cancel(i) PROVE IInv'
<1>1. rows' \in [RowId -> Row] /\ Truthful(rows', delivered) /\ Cancelled(rows', withdrawn)
  BY StatusKeeps DEF Cancel
<1>2. rows'[i].status = "cancelled"
  BY DEF IInv, TypeOK, Row, Cancel, Status
<1>3. Cancelled(rows', withdrawn')
  BY <1>1, <1>2 DEF Cancel, Cancelled
<1>4. ASSUME NEW r \in Request PROVE Sound(req[r], delivered, withdrawn')
  <2>1. req[r] \in Handler /\ Sound(req[r], delivered, withdrawn)
    BY DEF IInv, TypeOK
  <2>2. req[r].pc \notin {"idle", "look"} /\ req[r].id = i => Sending(r, i)
    BY <2>1 DEF Handler, Sending
  <2> QED
    BY <2>1, <2>2 DEF Sound, Cancel
<1> QED
  BY <1>1, <1>3, <1>4 DEF IInv, TypeOK, Cancel

LEMMA ScheduleKeeps ==
  ASSUME IInv, NEW i \in RowId, NEW t \in Nat, NEW d \in Draft \union {NoDraft}, Schedule(i, t, d)
  PROVE  IInv'
<1> DEFINE e == [status |-> "pending", sendAfter |-> t, draft |-> d]
<1>1. e \in Row
  BY DEF Row
<1>2. rows' = [rows EXCEPT ![i] = e] /\ UNCHANGED <<drafts, delivered, withdrawn, now, req, spent>>
  BY DEF Schedule
<1>3. rows' \in [RowId -> Row]
  BY <1>1, <1>2 DEF IInv, TypeOK
<1>4. i \notin withdrawn
  BY DEF IInv, Cancelled, Schedule
<1>5. Truthful(rows', delivered) /\ Cancelled(rows', withdrawn)
  BY <1>2, <1>4 DEF IInv, TypeOK, Truthful, Cancelled
<1> QED
  BY <1>2, <1>3, <1>5 DEF IInv, TypeOK

LEMMA DeleteDraftKeeps ==
  ASSUME IInv, NEW d, DeleteDraft(d) PROVE IInv'
<1>1. spent' \in Counters
  BY DEF IInv, TypeOK, DeleteDraft, Counters
<1> QED
  BY <1>1 DEF IInv, TypeOK, DeleteDraft

LEMMA TickKeeps == IInv /\ Tick => IInv'
BY DEF IInv, TypeOK, Tick

\* The invariant holds at the start and no step breaks it.
THEOREM Inductive ==
  /\ Init => IInv
  /\ IInv /\ [Next]_vars => IInv'
<1>1. Init => IInv
  <2> SUFFICES ASSUME Init PROVE IInv
    OBVIOUS
  <2>1. rows \in [RowId -> Row] /\ req \in [Request -> Handler]
    BY IdleSound DEF Init
  <2>2. delivered \in [RowId -> 0 .. 2]
    BY DEF Init
  <2>3. drafts \subseteq Draft /\ withdrawn = {} /\ now \in Nat
    BY DEF Init
  <2>4. spent \in Counters
    BY DEF Init, Counters
  <2>5. Truthful(rows, delivered) /\ Cancelled(rows, withdrawn)
    BY <2>3 DEF Init, Truthful, Cancelled, NoRow
  <2>6. \A r \in Request : Sound(req[r], delivered, withdrawn)
    BY IdleSound DEF Init
  <2> QED
    BY <2>1, <2>2, <2>3, <2>4, <2>5, <2>6 DEF IInv, TypeOK
<1>2. IInv /\ [Next]_vars => IInv'
  <2> SUFFICES ASSUME IInv, [Next]_vars PROVE IInv'
    OBVIOUS
  <2>1. ASSUME NEW r \in Request, Drain(r) \/ Step(r) \/ CallThrows(r) PROVE IInv'
    BY <2>1, DrainKeeps, StepKeeps, CallThrowsKeeps
  <2>2. CASE User
    <3>1. 1 .. MaxTime \subseteq Nat
      BY BoundAssumption
    <3> QED
      BY <2>2, <3>1, CancelKeeps, ScheduleKeeps, DeleteDraftKeeps DEF User
  <2>3. CASE UNCHANGED vars
    BY <2>3 DEF vars, IInv, TypeOK
  <2> QED
    BY <2>1, <2>2, <2>3, TickKeeps, CrashKeeps DEF Next
<1> QED
  BY <1>1, <1>2

\* Every variable keeps its type.
THEOREM TypeCorrect == Spec => []TypeOK
<1>1. IInv => TypeOK
  BY DEF IInv
<1> QED
  BY <1>1, Inductive, PTL DEF Spec

\* MailDelayedComposeService.drainDue: a row says sent only if the mail server
\* has taken its message, whatever drains, cancellations and restarts overlap.
THEOREM SentIsTrue == Spec => []SentIsDelivered
<1>1. IInv => SentIsDelivered
  BY DEF IInv, Truthful, SentIsDelivered
<1> QED
  BY <1>1, Inductive, PTL DEF Spec

\* MailDelayedComposeService.cancel: what is cancelled while no drain is at it
\* is never sent, however many drains have listed it before.
THEOREM WithdrawnStaysUnsent == Spec => WithdrawnIsNotSent
<1>1. IInv /\ [Next]_vars => [\A i \in withdrawn : delivered'[i] = delivered[i]]_vars
  <2> SUFFICES ASSUME IInv, Next, NEW i \in withdrawn
               PROVE  delivered'[i] = delivered[i]
    OBVIOUS
  <2>1. i \in RowId /\ delivered \in [RowId -> 0 .. 2]
    BY DEF IInv, TypeOK
  <2>2. ASSUME NEW r \in Request, SendAccepted(r) PROVE delivered'[i] = delivered[i]
    <3>1. req[r].id # i
      BY <2>2 DEF IInv, Sound, SendAccepted, At
    <3> QED
      BY <2>1, <2>2, <3>1 DEF SendAccepted
  <2>3. ASSUME NEW r \in Request, Drain(r) \/ Step(r) \/ CallThrows(r), ~ SendAccepted(r)
        PROVE  UNCHANGED delivered
    BY <2>3 DEF Drain, Step, Look, Fetch, SendRefused, Store, Discard, Settle, Fail, CallThrows
  <2>4. User \/ Tick \/ Crash => UNCHANGED delivered
    BY DEF User, Cancel, Schedule, DeleteDraft, Tick, Crash
  <2> QED
    BY <2>2, <2>3, <2>4 DEF Next
<1> QED
  BY <1>1, Inductive, PTL DEF Spec, WithdrawnIsNotSent

-----------------------------------------------------------------------------
(* Without overlap and failure there is one drain h, or none (h = Idle).  What *)
(* the tables t, dr and dl say of a message, after n deletions, then depends   *)
(* on where h stands: sent and not yet settled is only what h is at, and the   *)
(* draft of a message that has left is gone once h is past its deletion.       *)

Calm == spent.overlaps = 0 /\ spent.failures = 0

OneRow(t, dr, dl, n, h, i) ==
  /\ t[i].status = "none" => dl[i] = 0
  /\ t[i].status = "pending" /\ dl[i] > 0
       => h.id = i /\ h.pc \in {"store", "discard", "settle", "fail"}
  /\ dl[i] <= 1
  /\ dl[i] > 0 => \/ t[i].draft = NoDraft \/ t[i].draft \notin dr
                  \/ h.id = i /\ h.pc \in {"store", "discard"}
  /\ t[i].status = "failed" /\ n = 0 => dl[i] = 0

TwoRows(t, dl, i, j) ==
  dl[i] > 0 /\ dl[j] > 0 /\ t[i].draft = t[j].draft => i = j \/ t[i].draft = NoDraft

InHand(t, dr, dl, n, h) ==
  /\ h.pc \notin {"idle", "look"} => h.id \in RowId /\ t[h.id].status \in {"pending", "cancelled"}
  /\ h.pc \in {"fetch", "send"} => dl[h.id] = 0
  /\ h.pc = "discard" => t[h.id].draft # NoDraft
  /\ h.pc = "send" /\ t[h.id].draft # NoDraft
       => \A i \in RowId : t[i].draft = t[h.id].draft => dl[i] = 0
  /\ n = 0 /\ h.pc \in {"send", "store", "discard"}
       => t[h.id].draft = NoDraft \/ t[h.id].draft \in dr
  /\ n = 0 /\ h.pc = "fail" => dl[h.id] = 0

Fits(t, dr, dl, n, h) ==
  /\ \A i \in RowId : OneRow(t, dr, dl, n, h, i)
  /\ \A i, j \in RowId : TwoRows(t, dl, i, j)
  /\ InHand(t, dr, dl, n, h)

Alone(h) ==
  \/ h = Idle /\ \A r \in Request : req[r] = Idle
  \/ \E r \in Request : req[r] = h /\ \A q \in Request \ {r} : req[q] = Idle

AInv == Calm => \E h \in Handler : Alone(h) /\ Fits(rows, drafts, delivered, spent.deletes, h)

LEMMA SoleDrain ==
  ASSUME IInv, AInv, Calm, NEW r \in Request, req[r].pc # "idle"
  PROVE  /\ Fits(rows, drafts, delivered, spent.deletes, req[r])
         /\ \A q \in Request \ {r} : req[q] = Idle
<1>1. PICK h \in Handler : Alone(h) /\ Fits(rows, drafts, delivered, spent.deletes, h)
  BY DEF AInv
<1>2. Idle.pc = "idle"
  BY DEF Idle
<1>3. PICK q \in Request : req[q] = h /\ \A s \in Request \ {q} : req[s] = Idle
  BY <1>1, <1>2 DEF Alone
<1>4. q = r
  BY <1>2, <1>3
<1> QED
  BY <1>1, <1>3, <1>4

LEMMA SoleMoves ==
  ASSUME IInv, NEW r \in Request, NEW h \in Handler, Become(r, h),
         \A q \in Request \ {r} : req[q] = Idle,
         Fits(rows', drafts', delivered', spent'.deletes, h)
  PROVE  AInv'
<1>1. req'[r] = h /\ \A q \in Request \ {r} : req'[q] = Idle
  BY DEF IInv, TypeOK, Become
<1> QED
  BY <1>1 DEF AInv, Alone

\* Nothing in hand: a drain that has none, or is about to look.
LEMMA NothingInHand ==
  ASSUME NEW t, NEW dr, NEW dl, NEW n, NEW h, NEW g,
         Fits(t, dr, dl, n, h),
         h.pc \notin {"store", "discard", "settle", "fail"},
         g.pc \in {"idle", "look"}
  PROVE  Fits(t, dr, dl, n, g)
BY DEF Fits, OneRow, InHand

LEMMA NextRowRests ==
  ASSUME NEW h \in Handler
  PROVE  NextRow(h) \in Handler /\ NextRow(h).pc \in {"idle", "look"}
BY NextRowSound DEF NextRow, Idle, Handler

\* The row in hand is settled, or somebody else has done it.
LEMMA SettledFits ==
  ASSUME IInv, NEW h \in Handler, NEW g, NEW s \in {"sent", "failed"}, NEW n,
         Fits(rows, drafts, delivered, n, h), Settled(h.id, s),
         h.pc \in {"settle", "fail"}, s = "failed" => h.pc = "fail",
         g.pc \in {"idle", "look"}
  PROVE  Fits(rows', drafts, delivered, n, g)
<1>1. h.id \in RowId /\ rows \in [RowId -> Row] /\ delivered \in [RowId -> 0 .. 2]
  BY DEF IInv, TypeOK, Fits, InHand
<1>2. ASSUME NEW j \in RowId
      PROVE  /\ rows'[j].draft = rows[j].draft
             /\ j # h.id => rows'[j].status = rows[j].status
             /\ rows'[h.id].status = IF Pending(h.id) THEN s ELSE rows[h.id].status
  BY <1>1 DEF Settled, Status, Row
<1>3. ASSUME NEW j \in RowId PROVE OneRow(rows', drafts, delivered, n, g, j)
  <2>1. OneRow(rows, drafts, delivered, n, h, j) /\ InHand(rows, drafts, delivered, n, h)
    BY DEF Fits
  <2>2. CASE j = h.id
    BY <1>1, <1>2, <2>1, <2>2 DEF OneRow, InHand, Pending
  <2>3. CASE j # h.id
    BY <1>1, <1>2, <2>1, <2>3 DEF OneRow
  <2> QED
    BY <2>2, <2>3
<1>4. ASSUME NEW i \in RowId, NEW j \in RowId PROVE TwoRows(rows', delivered, i, j)
  BY <1>2 DEF Fits, TwoRows
<1>5. InHand(rows', drafts, delivered, n, g)
  BY DEF InHand
<1> QED
  BY <1>3, <1>4, <1>5 DEF Fits

-----------------------------------------------------------------------------
LEMMA DrainAlone ==
  ASSUME IInv, AInv, NEW r \in Request, Drain(r) PROVE AInv'
<1> SUFFICES ASSUME Calm' PROVE AInv'
  BY DEF AInv
<1>1. spent \in Counters
  BY DEF IInv, TypeOK
<1>2. ~ Overlaps(r) /\ Calm /\ spent'.deletes = spent.deletes
  BY <1>1 DEF Drain, Calm, Counters
<1>3. \A q \in Request : req[q] = Idle
  BY <1>2 DEF Drain, Overlaps
<1>4. Fits(rows, drafts, delivered, spent.deletes, Idle)
  BY <1>2, <1>3 DEF AInv, Alone
<1>5. PICK s \in SUBSET RowId : Become(r, [Idle EXCEPT !.pc = "look", !.list = s])
  BY DEF Drain
<1> DEFINE g == [Idle EXCEPT !.pc = "look", !.list = s]
<1>6. g \in Handler /\ g.pc = "look" /\ Idle.pc = "idle"
  BY DEF Idle, Handler
<1>7. UNCHANGED <<rows, drafts, delivered>>
  BY DEF Drain
<1> HIDE DEF g
<1>8. Fits(rows, drafts, delivered, spent.deletes, g)
  BY <1>4, <1>6, NothingInHand
<1> QED
  BY <1>2, <1>3, <1>5, <1>6, <1>7, <1>8, SoleMoves DEF g

LEMMA StepAlone ==
  ASSUME IInv, AInv, NEW r \in Request, Step(r) PROVE AInv'
<1> SUFFICES ASSUME Calm' PROVE AInv'
  BY DEF AInv
<1> DEFINE h == req[r]
           n == spent.deletes
<1>1. spent'.overlaps = spent.overlaps /\ spent'.failures = spent.failures /\ spent'.deletes = n
  BY DEF IInv, TypeOK, Counters, Step, Look, Fetch, SendAccepted, SendRefused, Store, Discard, Settle, Fail
<1>2. Calm /\ h.pc # "idle"
  BY <1>1 DEF Calm, Step, Look, Fetch, SendAccepted, SendRefused, Store, Discard, Settle, Fail, At
<1>3. Fits(rows, drafts, delivered, n, h) /\ \A q \in Request \ {r} : req[q] = Idle
  BY <1>2, SoleDrain
<1>4. /\ rows \in [RowId -> Row] /\ delivered \in [RowId -> 0 .. 2] /\ h \in Handler
      /\ h.pc \notin {"idle", "look"} => h.id \in RowId
  BY <1>3 DEF IInv, TypeOK, Fits, InHand
<1> HIDE DEF h
<1>5. ASSUME NEW g \in Handler, Become(r, g), Fits(rows', drafts', delivered', n, g) PROVE AInv'
  BY <1>1, <1>3, <1>5, SoleMoves
<1>6. CASE Look(r)
  <2> DEFINE rest(i) == [h EXCEPT !.list = @ \ {i}]
             pc(i) == IF rows[i].draft = NoDraft THEN "send" ELSE "fetch"
             g(i) == [rest(i) EXCEPT !.pc = pc(i), !.id = i]
  <2>1. PICK i \in RowId : Become(r, IF StillPending(i) THEN g(i) ELSE NextRow(rest(i)))
    BY <1>6 DEF Look, h
  <2>2. h.pc = "look" /\ UNCHANGED <<rows, drafts, delivered>>
    BY <1>6 DEF Look, At, h
  <2>3. rest(i) \in Handler
    BY <1>4 DEF Handler
  <2>4. CASE StillPending(i)
    <3>1. g(i) \in Handler
      BY <2>3 DEF Handler
    <3>2. g(i).pc = pc(i) /\ g(i).id = i
      BY <2>3 DEF Handler
    <3> HIDE DEF g, rest
    <3>3. rows[i].status = "pending" /\ delivered[i] = 0
      BY <1>3, <1>4, <2>2, <2>4 DEF Fits, OneRow, StillPending, Pending
    <3>4. Fits(rows, drafts, delivered, n, g(i))
      BY <1>3, <2>2, <3>2, <3>3 DEF Fits, OneRow, InHand
    <3> QED
      BY <1>5, <2>1, <2>2, <2>4, <3>1, <3>4
  <2>5. CASE ~ StillPending(i)
    <3> HIDE DEF g, rest
    <3> QED
      BY <1>3, <1>5, <2>1, <2>2, <2>3, <2>5, NextRowRests, NothingInHand
  <2> QED
    BY <2>4, <2>5
<1>7. ASSUME NEW p \in {"send", "store", "discard", "settle", "fail"}
      PROVE  [h EXCEPT !.pc = p] \in Handler /\ [h EXCEPT !.pc = p].pc = p /\ [h EXCEPT !.pc = p].id = h.id
  BY <1>4 DEF Handler
<1>8. CASE Fetch(r)
  <2> DEFINE p == IF Fetched(h.id) THEN "send" ELSE "fail"
             g == [h EXCEPT !.pc = p]
  <2>1. h.pc = "fetch" /\ Become(r, g) /\ UNCHANGED <<rows, drafts, delivered>>
    BY <1>8 DEF Fetch, At, h
  <2>2. g \in Handler /\ g.pc = p /\ g.id = h.id
    BY <1>7
  <2> HIDE DEF g
  <2>3. ASSUME NEW i \in RowId PROVE OneRow(rows, drafts, delivered, n, g, i)
    BY <1>3, <2>1, <2>2 DEF Fits, OneRow
  <2>4. InHand(rows, drafts, delivered, n, g)
    <3>1. p = "send" /\ rows[h.id].draft # NoDraft
            => \A i \in RowId : rows[i].draft = rows[h.id].draft => delivered[i] = 0
      BY <1>3, <1>4, <2>1 DEF Fits, OneRow, Fetched
    <3> QED
      BY <1>3, <2>1, <2>2, <3>1 DEF Fits, InHand, Fetched
  <2> QED
    BY <1>3, <1>5, <2>1, <2>2, <2>3, <2>4 DEF Fits
<1>9. CASE SendAccepted(r)
  <2> DEFINE g == [h EXCEPT !.pc = "store"]
  <2>1. /\ h.pc = "send" /\ Become(r, g) /\ UNCHANGED <<rows, drafts>>
        /\ delivered' = [delivered EXCEPT ![h.id] = IF @ = 2 THEN 2 ELSE @ + 1]
    BY <1>9 DEF SendAccepted, At, h
  <2>2. g \in Handler /\ g.pc = "store" /\ g.id = h.id
    BY <1>7
  <2> HIDE DEF g
  <2>3. h.id \in RowId /\ delivered[h.id] = 0
    BY <1>3, <1>4, <2>1 DEF Fits, InHand
  <2>4. \A i \in RowId : delivered'[i] = IF i = h.id THEN 1 ELSE delivered[i]
    BY <1>4, <2>1, <2>3
  <2>5. ASSUME NEW i \in RowId PROVE OneRow(rows, drafts, delivered', n, g, i)
    <3>1. OneRow(rows, drafts, delivered, n, h, i) /\ InHand(rows, drafts, delivered, n, h)
      BY <1>3 DEF Fits
    <3> QED
      BY <2>1, <2>2, <2>3, <2>4, <3>1 DEF OneRow, InHand
  <2>6. ASSUME NEW i \in RowId, NEW j \in RowId PROVE TwoRows(rows, delivered', i, j)
    <3>1. TwoRows(rows, delivered, i, j) /\ InHand(rows, drafts, delivered, n, h)
      BY <1>3 DEF Fits
    <3> QED
      BY <2>1, <2>3, <2>4, <3>1 DEF TwoRows, InHand
  <2>7. InHand(rows, drafts, delivered', n, g)
    BY <1>3, <2>1, <2>2 DEF Fits, InHand
  <2> QED
    BY <1>5, <2>1, <2>2, <2>5, <2>6, <2>7 DEF Fits
<1>10. CASE SendRefused(r)
  <2> DEFINE g == [h EXCEPT !.pc = "fail"]
  <2>1. h.pc = "send" /\ Become(r, g) /\ UNCHANGED <<rows, drafts, delivered>>
    BY <1>10 DEF SendRefused, At, h
  <2>2. g \in Handler /\ g.pc = "fail" /\ g.id = h.id
    BY <1>7
  <2> HIDE DEF g
  <2>3. Fits(rows, drafts, delivered, n, g)
    BY <1>3, <2>1, <2>2 DEF Fits, OneRow, InHand
  <2> QED
    BY <1>5, <2>1, <2>2, <2>3
<1>11. CASE Store(r)
  <2> DEFINE g == [h EXCEPT !.pc = Stored(h.id)]
  <2>1. h.pc = "store" /\ Become(r, g) /\ UNCHANGED <<rows, drafts, delivered>>
    BY <1>11 DEF Store, At, h
  <2>2. g \in Handler /\ g.pc = Stored(h.id) /\ g.id = h.id
    BY <1>7 DEF Stored
  <2> HIDE DEF g
  <2>3. Fits(rows, drafts, delivered, n, g)
    <3>1. InHand(rows, drafts, delivered, n, h)
      BY <1>3 DEF Fits
    <3>2. InHand(rows, drafts, delivered, n, g)
      BY <2>1, <2>2, <3>1 DEF InHand, Stored
    <3>3. ASSUME NEW i \in RowId PROVE OneRow(rows, drafts, delivered, n, g, i)
      BY <1>3, <2>1, <2>2 DEF Fits, OneRow, Stored
    <3> QED
      BY <1>3, <3>2, <3>3 DEF Fits
  <2> QED
    BY <1>5, <2>1, <2>2, <2>3
<1>12. CASE Discard(r)
  <2> DEFINE d == rows[h.id].draft
             p == IF d \in drafts THEN "settle" ELSE "fail"
             g == [h EXCEPT !.pc = p]
  <2>1. h.pc = "discard" /\ Become(r, g) /\ drafts' = drafts \ {d} /\ UNCHANGED <<rows, delivered>>
    BY <1>12 DEF Discard, At, h
  <2>2. g \in Handler /\ g.pc = p /\ g.id = h.id
    BY <1>7
  <2> HIDE DEF g
  <2>3. ASSUME NEW i \in RowId PROVE OneRow(rows, drafts', delivered, n, g, i)
    BY <1>3, <2>1, <2>2 DEF Fits, OneRow
  <2>4. InHand(rows, drafts', delivered, n, g)
    BY <1>3, <2>1, <2>2 DEF Fits, InHand
  <2> QED
    BY <1>3, <1>5, <2>1, <2>2, <2>3, <2>4 DEF Fits
<1>13. CASE Settle(r)
  <2>1. h.pc = "settle" /\ Settled(h.id, "sent") /\ Become(r, NextRow(h)) /\ UNCHANGED <<drafts, delivered>>
    BY <1>13 DEF Settle, At, h
  <2>2. Fits(rows', drafts, delivered, n, NextRow(h))
    BY <1>3, <1>4, <2>1, NextRowRests, SettledFits
  <2> QED
    BY <1>4, <1>5, <2>1, <2>2, NextRowRests
<1>14. CASE Fail(r)
  <2>1. h.pc = "fail" /\ Settled(h.id, "failed") /\ Become(r, NextRow(h)) /\ UNCHANGED <<drafts, delivered>>
    BY <1>14 DEF Fail, Verdict, At, h
  <2>2. Fits(rows', drafts, delivered, n, NextRow(h))
    BY <1>3, <1>4, <2>1, NextRowRests, SettledFits
  <2> QED
    BY <1>4, <1>5, <2>1, <2>2, NextRowRests
<1> QED
  BY <1>6, <1>8, <1>9, <1>10, <1>11, <1>12, <1>13, <1>14 DEF Step

LEMMA UserAlone ==
  ASSUME IInv, AInv, User \/ Tick PROVE AInv'
<1> SUFFICES ASSUME Calm' PROVE AInv'
  BY DEF AInv
<1> DEFINE n == spent.deletes
<1>1. /\ rows \in [RowId -> Row] /\ delivered \in [RowId -> 0 .. 2] /\ n \in Nat
      /\ UNCHANGED <<delivered, req, spent.overlaps, spent.failures>>
  BY DEF IInv, TypeOK, Counters, User, Cancel, Schedule, DeleteDraft, Tick
<1>2. PICK h \in Handler : Alone(h) /\ Fits(rows, drafts, delivered, n, h)
  BY <1>1 DEF AInv, Calm
<1>3. SUFFICES Fits(rows', drafts', delivered, spent'.deletes, h)
  BY <1>1, <1>2 DEF AInv, Alone
<1>4. CASE User
  <2>1. CASE \E i \in RowId : Cancel(i)
    <3>1. PICK i \in RowId : Pending(i) /\ Status(i, "cancelled") /\ UNCHANGED <<drafts, spent>>
      BY <2>1 DEF Cancel
    <3>2. \A j \in RowId : /\ rows'[j].draft = rows[j].draft
                           /\ rows'[j].status = IF j = i THEN "cancelled" ELSE rows[j].status
      BY <1>1, <3>1 DEF Status, Row
    <3>3. \A j \in RowId : OneRow(rows', drafts, delivered, n, h, j)
      BY <1>2, <3>2 DEF Fits, OneRow
    <3>4. \A j, k \in RowId : TwoRows(rows', delivered, j, k)
      BY <1>2, <3>2 DEF Fits, TwoRows
    <3>5. InHand(rows', drafts, delivered, n, h)
      BY <1>2, <3>2 DEF Fits, InHand
    <3> QED
      BY <3>1, <3>3, <3>4, <3>5 DEF Fits
  <2>2. ASSUME NEW i \in RowId, NEW t, NEW d, Schedule(i, t, d)
        PROVE  Fits(rows', drafts', delivered, spent'.deletes, h)
    <3>1. /\ rows[i].status = "none" /\ UNCHANGED <<drafts, spent>>
          /\ \A j \in RowId : j # i => rows'[j] = rows[j]
          /\ rows'[i] = [status |-> "pending", sendAfter |-> t, draft |-> d]
      BY <1>1, <2>2 DEF Schedule
    <3>2. delivered[i] = 0 /\ rows'[i].status = "pending"
      BY <1>2, <3>1 DEF Fits, OneRow
    <3>3. ASSUME NEW j \in RowId PROVE OneRow(rows', drafts, delivered, n, h, j)
      <4>1. CASE j = i
        BY <3>2, <4>1 DEF OneRow
      <4>2. CASE j # i
        BY <1>2, <3>1, <4>2 DEF Fits, OneRow
      <4> QED
        BY <4>1, <4>2
    <3>4. ASSUME NEW j \in RowId, NEW k \in RowId PROVE TwoRows(rows', delivered, j, k)
      BY <1>2, <3>1, <3>2 DEF Fits, TwoRows
    <3>5. InHand(rows', drafts, delivered, n, h)
      <4>1. h.pc \notin {"idle", "look"} => h.id \in RowId /\ rows'[h.id] = rows[h.id]
        BY <1>2, <3>1 DEF Fits, InHand
      <4>2. ASSUME h.pc = "send", rows'[h.id].draft # NoDraft, NEW j \in RowId,
                   rows'[j].draft = rows'[h.id].draft
            PROVE  delivered[j] = 0
        BY <1>2, <3>1, <3>2, <4>1, <4>2 DEF Fits, InHand
      <4> QED
        BY <1>2, <4>1, <4>2 DEF Fits, InHand
    <3> QED
      BY <3>1, <3>3, <3>4, <3>5 DEF Fits
  <2>3. CASE \E d \in Draft : DeleteDraft(d)
    <3>1. UNCHANGED rows /\ drafts' \subseteq drafts /\ spent'.deletes # 0
      BY <1>1, <2>3 DEF DeleteDraft, IInv, TypeOK, Counters
    <3>2. \A j \in RowId : OneRow(rows, drafts', delivered, spent'.deletes, h, j)
      BY <1>2, <3>1 DEF Fits, OneRow
    <3>3. InHand(rows, drafts', delivered, spent'.deletes, h)
      BY <1>2, <3>1 DEF Fits, InHand
    <3> QED
      BY <1>2, <3>1, <3>2, <3>3 DEF Fits
  <2> QED
    BY <1>4, <2>1, <2>2, <2>3 DEF User
<1>5. CASE Tick
  BY <1>2, <1>5 DEF Tick
<1> QED
  BY <1>4, <1>5

THEOREM AloneInductive ==
  /\ Init => AInv
  /\ IInv /\ AInv /\ [Next]_vars => AInv'
<1>1. Init => AInv
  <2> SUFFICES ASSUME Init PROVE Alone(Idle) /\ Fits(rows, drafts, delivered, spent.deletes, Idle)
    BY IdleSound DEF AInv
  <2> QED
    BY DEF Init, Alone, Fits, OneRow, TwoRows, InHand, Idle, NoRow
<1>2. IInv /\ AInv /\ [Next]_vars => AInv'
  <2> SUFFICES ASSUME IInv, AInv, [Next]_vars PROVE AInv'
    OBVIOUS
  <2>1. ASSUME Throw PROVE AInv'
    BY <2>1 DEF IInv, TypeOK, Counters, Throw, AInv, Calm
  <2>2. CASE UNCHANGED vars
    BY <2>2 DEF vars, AInv, Calm, Alone
  <2> QED
    BY <2>1, <2>2, DrainAlone, StepAlone, UserAlone DEF Next, CallThrows, Crash
<1> QED
  BY <1>1, <1>2

\* MailDelayedComposeService.drainDue: drains that do not overlap and do not fail
\* send a message once and a draft with one row, and report failed what was not
\* sent, as long as the user deletes no draft.
THEOREM SentOnlyOnce == Spec => []SentOnce
<1>1. AInv => SentOnce
  <2> SUFFICES ASSUME AInv, Calm, NEW i \in RowId
               PROVE  /\ delivered[i] <= 1
                      /\ \A j \in RowId : TwoRows(rows, delivered, i, j)
                      /\ rows[i].status = "failed" /\ spent.deletes = 0 => delivered[i] = 0
    BY DEF SentOnce, Calm, TwoRows
  <2> QED
    BY DEF AInv, Fits, OneRow
<1> QED
  BY <1>1, Inductive, AloneInductive, PTL DEF Spec
=============================================================================
