----------------------------- MODULE EmailOutbox ----------------------------
(***************************************************************************)
(* The outbox of transactional mail (apps/api/src/modules/notification:    *)
(* EmailOutboxService, EmailOutboxProcessor, EmailEngagementService,       *)
(* EmailSuppressionService), for the mail of one recipient.                *)
(*                                                                         *)
(* enqueue inserts a row and lets processById run on; the timer drains the *)
(* queue every half minute whether or not the last drain has ended; the    *)
(* operator drains or retries by hand; the recipient opens what he got.    *)
(* Every await is a step.  A save writes back the entity the handler read, *)
(* with what it has set in it, whatever has become of the row.  The mail   *)
(* server is external: it accepts a message or refuses it.                 *)
(***************************************************************************)
EXTENDS Naturals, FiniteSets

CONSTANTS
  Request,      \* handlers that may be in flight at once
  Drainer,      \* the timer of EmailOutboxProcessor, one of Request
  Key,          \* idempotency keys
  NoKey,        \* no key
  RetryLimit,   \* failures after which a drain leaves a failed row alone
  BatchSize,    \* rows a drain lists at most
  MaxRows,      \* bound of the calls of enqueue, hence of the rows
  MaxRetries,   \* bound of the operator's retries
  MaxOpens,     \* bound of the recipient's openings
  MaxRefusals,  \* bound of the messages the mail server refuses
  MaxFailures   \* bound of the saves that throw and the restarts

ASSUME RequestAssumption == Drainer \in Request
ASSUME KeyAssumption == NoKey \notin Key
ASSUME BoundAssumption ==
  /\ RetryLimit \in Nat /\ BatchSize \in Nat \ {0}
  /\ MaxRows \in Nat /\ MaxRetries \in Nat /\ MaxOpens \in Nat
  /\ MaxRefusals \in Nat /\ MaxFailures \in Nat

VARIABLES
  outbox,      \* rows of email_outbox; their numbers are the order of createdAt
  suppressed,  \* the recipient is in the suppression list
  delivered,   \* how often the mail server has accepted a row's message; 2: twice or more
  req,         \* the handlers in flight and what they hold in memory
  spent,       \* how much of the bounds is used up
  serial       \* whether, in this behaviour, a handler starts only when none is in flight

moving == <<outbox, suppressed, delivered, req, spent>>
vars == <<moving, serial>>

-----------------------------------------------------------------------------
(* Rows and handlers *)

RowId == 1 .. MaxRows
BounceClass == {"none", "soft", "hard"}     \* hard: hard or spam; soft: the others

Row == [status : {"none", "pending", "sent", "failed"},
        key : Key \union {NoKey},
        retryCount : Nat,
        bounceClass : BounceClass]

NoRow == [status |-> "none", key |-> NoKey, retryCount |-> 0, bounceClass |-> "none"]
NewRow(k) == [NoRow EXCEPT !.status = "pending", !.key = k]

Exists(i) == outbox[i].status # "none"

Handler == [kind : {"none", "enqueue", "drain", "retry", "open"},
            pc : {"idle", "check", "insert", "read", "send", "saveSent", "saveFailed",
                  "bounceRead", "bounceSave", "suppress", "take", "count", "find", "mark", "save"},
            key : Key \union {NoKey},
            id : RowId \union {0},   \* the row the handler works on
            row : Row,               \* its entity
            outer : Row,             \* the entity of the drain or the retry around processById
            bounce : BounceClass,    \* how the failure is classified
            list : [RowId -> Row]]   \* what a drain or a retry has read and not yet come to

Idle == [kind |-> "none", pc |-> "idle", key |-> NoKey, id |-> 0, row |-> NoRow,
         outer |-> NoRow, bounce |-> "none", list |-> [i \in RowId |-> NoRow]]

TypeOK ==
  /\ outbox \in [RowId -> Row]
  /\ suppressed \in BOOLEAN
  /\ delivered \in [RowId -> 0 .. 2]
  /\ req \in [Request -> Handler]
  /\ spent \in [enqueues : Nat, retries : Nat, opens : Nat, refusals : Nat, failures : Nat]

Init ==
  /\ outbox = [i \in RowId |-> NoRow]
  /\ suppressed = FALSE
  /\ delivered = [i \in RowId |-> 0]
  /\ req = [r \in Request |-> Idle]
  /\ spent = [enqueues |-> 0, retries |-> 0, opens |-> 0, refusals |-> 0, failures |-> 0]
  /\ serial \in BOOLEAN

Begin(r, h) ==
  /\ req[r] = Idle
  /\ serial => \A q \in Request : req[q] = Idle
  /\ req' = [req EXCEPT ![r] = h]

At(r, pc) == req[r].pc = pc
Become(r, h) == req' = [req EXCEPT ![r] = h]
End(r) == Become(r, Idle)
Write(i, e) == outbox' = [outbox EXCEPT ![i] = e]

\* One save throws: the database is away for a moment.
Throw == /\ spent.failures < MaxFailures
         /\ spent' = [spent EXCEPT !.failures = @ + 1]

Left(h) == {i \in RowId : h.list[i] # NoRow}

\* The loop of a drain or of a retry goes on to its next row, if there is one.
NextRow(h) ==
  IF Left(h) = {} THEN Idle
  ELSE [Idle EXCEPT !.kind = h.kind, !.pc = IF h.kind = "drain" THEN "take" ELSE "find",
                    !.list = h.list]

\* processById returns, or throws, to whom has called it: enqueue lets it run
\* and logs the error, a drain counts it, a retry passes it on and stops.
Returned(h) == IF h.kind = "enqueue" THEN Idle ELSE NextRow(h)
Threw(h) == IF h.kind = "drain" THEN [h EXCEPT !.pc = "count", !.row = NoRow, !.bounce = "none"]
            ELSE Idle

-----------------------------------------------------------------------------
(* enqueue: the key is looked for, the recipient checked, the row inserted,  *)
(* each at an await of its own.                                              *)

\* A row of this key is there, whatever its status.
Known(k) == \E i \in RowId : outbox[i].key = k

Enqueue(r, k) ==
  /\ r # Drainer /\ spent.enqueues < MaxRows
  /\ ~ Known(k)
  /\ Begin(r, [Idle EXCEPT !.kind = "enqueue", !.pc = "check", !.key = k])
  /\ spent' = [spent EXCEPT !.enqueues = @ + 1]
  /\ UNCHANGED <<outbox, suppressed, delivered>>

\* isSuppressed: nothing is queued for a recipient in the list.
Checked(h) == IF suppressed THEN Idle ELSE [h EXCEPT !.pc = "insert"]

CheckSuppression(r) ==
  /\ At(r, "check")
  /\ Become(r, Checked(req[r]))
  /\ UNCHANGED <<outbox, suppressed, delivered, spent>>

Insert(r) ==
  /\ At(r, "insert")
  /\ \E i \in RowId :
       /\ ~ Exists(i) /\ \A j \in RowId : j < i => Exists(j)
       /\ Write(i, NewRow(req[r].key))
       /\ Become(r, [req[r] EXCEPT !.pc = "read", !.id = i])
  /\ UNCHANGED <<suppressed, delivered, spent>>

-----------------------------------------------------------------------------
(* processById, run by all three of them *)

Read(r) ==
  /\ At(r, "read")
  /\ LET e == outbox[req[r].id]
     IN  Become(r, IF e.status = "sent" THEN Returned(req[r])
                   ELSE [req[r] EXCEPT !.pc = "send", !.row = e])
  /\ UNCHANGED <<outbox, suppressed, delivered, spent>>

Failed(h, class) ==
  [h EXCEPT !.pc = "saveFailed", !.row.status = "failed", !.bounce = class]

\* External: the mail server takes the message.
SendAccepted(r) ==
  /\ At(r, "send")
  /\ delivered' = [delivered EXCEPT ![req[r].id] = IF @ = 2 THEN 2 ELSE @ + 1]
  /\ Become(r, [req[r] EXCEPT !.pc = "saveSent", !.row.status = "sent"])
  /\ UNCHANGED <<outbox, suppressed, spent>>

\* External: the mail server refuses the message, for now or for good.
SendRefused(r) ==
  /\ At(r, "send") /\ spent.refusals < MaxRefusals
  /\ \E class \in {"soft", "hard"} : Become(r, Failed(req[r], class))
  /\ spent' = [spent EXCEPT !.refusals = @ + 1]
  /\ UNCHANGED <<outbox, suppressed, delivered>>

SaveSent(r) ==
  /\ At(r, "saveSent")
  /\ Write(req[r].id, req[r].row)
  /\ Become(r, Returned(req[r]))
  /\ UNCHANGED <<suppressed, delivered, spent>>

SaveFailed(r) ==
  /\ At(r, "saveFailed")
  /\ Write(req[r].id, req[r].row)
  /\ Become(r, [req[r] EXCEPT !.pc = "bounceRead"])
  /\ UNCHANGED <<suppressed, delivered, spent>>

BounceRead(r) ==
  /\ At(r, "bounceRead")
  /\ Become(r, [req[r] EXCEPT !.pc = "bounceSave", !.row = outbox[req[r].id]])
  /\ UNCHANGED <<outbox, suppressed, delivered, spent>>

Suppresses(class) == class = "hard"

BounceSave(r) ==
  /\ At(r, "bounceSave")
  /\ LET h == req[r]
     IN  /\ Write(h.id, [h.row EXCEPT !.bounceClass = h.bounce])
         /\ Become(r, IF Suppresses(h.bounce) THEN [h EXCEPT !.pc = "suppress"] ELSE Threw(h))
  /\ UNCHANGED <<suppressed, delivered, spent>>

Suppress(r) ==
  /\ At(r, "suppress")
  /\ suppressed' = TRUE
  /\ Become(r, Threw(req[r]))
  /\ UNCHANGED <<outbox, delivered, spent>>

-----------------------------------------------------------------------------
(* drainQueue: a list read once, then row by row *)

\* A status the column does not know; a drain that claims a row by marking it
\* sent before it is.
Marked_Queued(e) == [e EXCEPT !.status = "queued"]
Marked_Sent(e) == [e EXCEPT !.status = "sent"]
Marked(e) == [e EXCEPT !.status = "pending"]

\* The list takes the rows already sent too.
Waiting_All(e) == e.status # "none"
Waiting(e) == e.status \in {"pending", "failed"}

\* The list is cut before any row of it is left out.
Listed(i) ==
  /\ Waiting(outbox[i])
  /\ Cardinality({j \in RowId : j < i /\ Waiting(outbox[j])}) < BatchSize

\* A row that has failed is left to the operator.
Drained_Pending(e) == e.status = "pending"
Drained(e) == e.status = "failed" => e.retryCount < RetryLimit

Drain(r) ==
  LET list == [i \in RowId |-> IF Listed(i) /\ Drained(outbox[i]) THEN outbox[i] ELSE NoRow]
  IN  /\ \E i \in RowId : list[i] # NoRow
      /\ Begin(r, [Idle EXCEPT !.kind = "drain", !.pc = "take", !.list = list])
      /\ UNCHANGED <<outbox, suppressed, delivered, spent>>

\* The handler comes to row i of its list, with entity e.
Taking(h, i, e, pc) ==
  [h EXCEPT !.pc = pc, !.id = i, !.outer = e, !.list = [@ EXCEPT ![i] = NoRow]]

First(h, i) == i \in Left(h) /\ \A j \in Left(h) : i <= j

Take(r) ==
  /\ At(r, "take")
  /\ \E i \in RowId :
       /\ First(req[r], i)
       /\ Write(i, Marked(req[r].list[i]))
       /\ Become(r, Taking(req[r], i, Marked(req[r].list[i]), "read"))
  /\ UNCHANGED <<suppressed, delivered, spent>>

\* The first save of the loop is inside its try.
TakeThrows(r) ==
  /\ At(r, "take")
  /\ Throw
  /\ \E i \in RowId :
       /\ First(req[r], i)
       /\ Become(r, Taking(req[r], i, Marked(req[r].list[i]), "count"))
  /\ UNCHANGED <<outbox, suppressed, delivered>>

Count(r) ==
  /\ At(r, "count")
  /\ Write(req[r].id, [req[r].outer EXCEPT !.retryCount = @ + 1])
  /\ Become(r, NextRow(req[r]))
  /\ UNCHANGED <<suppressed, delivered, spent>>

-----------------------------------------------------------------------------
(* retryById, for one row, and retryFailed, for all that have failed *)

Retry(r, rows) ==
  /\ r # Drainer /\ spent.retries < MaxRetries
  /\ rows # {}
  /\ Begin(r, [Idle EXCEPT !.kind = "retry", !.pc = "find",
                           !.list = [i \in RowId |-> IF i \in rows THEN outbox[i] ELSE NoRow]])
  /\ spent' = [spent EXCEPT !.retries = @ + 1]
  /\ UNCHANGED <<outbox, suppressed, delivered>>

RetryById(r, i) == Exists(i) /\ Retry(r, {i})
RetryFailed(r) == Retry(r, {i \in RowId : outbox[i].status = "failed"})

\* A row sent meanwhile is passed over.
Retried(e) == e.status # "sent"

Find(r) ==
  /\ At(r, "find")
  /\ \E i \in Left(req[r]) :
       LET again == [Marked(outbox[i]) EXCEPT !.retryCount = 0]
           h == Taking(req[r], i, again, "mark")
       IN  Become(r, IF Retried(outbox[i]) THEN h ELSE NextRow(h))
  /\ UNCHANGED <<outbox, suppressed, delivered, spent>>

Mark(r) ==
  /\ At(r, "mark")
  /\ Write(req[r].id, req[r].outer)
  /\ Become(r, [req[r] EXCEPT !.pc = "read"])
  /\ UNCHANGED <<suppressed, delivered, spent>>

-----------------------------------------------------------------------------
(* The recipient opens the message, or follows a link in it: recordOpen and  *)
(* resolveClickRedirect, whose counters are left out.                        *)

Open(r, i) ==
  /\ r # Drainer /\ spent.opens < MaxOpens
  /\ outbox[i].status = "sent"
  /\ Begin(r, [Idle EXCEPT !.kind = "open", !.pc = "save", !.id = i, !.row = outbox[i]])
  /\ spent' = [spent EXCEPT !.opens = @ + 1]
  /\ UNCHANGED <<outbox, suppressed, delivered>>

SaveOpen(r) ==
  /\ At(r, "save")
  /\ Write(req[r].id, req[r].row)
  /\ End(r)
  /\ UNCHANGED <<suppressed, delivered, spent>>

-----------------------------------------------------------------------------
(* A call of the database throws; the process ends *)

Thrown(h) ==
  CASE h.pc \in {"send", "saveSent"} -> Failed(h, "soft")
    [] h.pc \in {"read", "saveFailed", "bounceRead", "bounceSave", "suppress"} -> Threw(h)
    [] OTHER -> Idle

CallThrows(r) ==
  /\ ~ At(r, "idle") /\ ~ At(r, "take")
  /\ Throw
  /\ Become(r, Thrown(req[r]))
  /\ UNCHANGED <<outbox, suppressed, delivered>>

Crash ==
  /\ \E r \in Request : req[r] # Idle
  /\ Throw
  /\ req' = [r \in Request |-> Idle]
  /\ UNCHANGED <<outbox, suppressed, delivered>>

-----------------------------------------------------------------------------
Start(r) ==
  \/ \E k \in Key : Enqueue(r, k)
  \/ Drain(r)
  \/ \E i \in RowId : RetryById(r, i) \/ Open(r, i)
  \/ RetryFailed(r)

Step(r) ==
  \/ CheckSuppression(r) \/ Insert(r)
  \/ Read(r) \/ SendAccepted(r) \/ SendRefused(r) \/ SaveSent(r) \/ SaveFailed(r)
  \/ BounceRead(r) \/ BounceSave(r) \/ Suppress(r)
  \/ Take(r) \/ Count(r) \/ Find(r) \/ Mark(r) \/ SaveOpen(r)

Next ==
  /\ \/ \E r \in Request : Start(r) \/ Step(r) \/ TakeThrows(r) \/ CallThrows(r)
     \/ Crash
  /\ UNCHANGED serial

Spec == Init /\ [][Next]_vars

\* The interval fires for as long as the process lives, and every call that
\* is awaited ends, in an answer or in an error.
FairSpec ==
  /\ Spec
  /\ WF_moving(Drain(Drainer))
  /\ \A r \in Request : WF_moving(Step(r))

-----------------------------------------------------------------------------
(* Properties *)

Quiet == \A r \in Request : req[r] = Idle

\* As long as no save is lost and no process ends, what is queued under one key
\* is sent once, through all the calls of enqueue, failures, drains and retries:
\* nothing but the look-up keeps the keys apart, the column has no unique index.
SentOnce ==
  spent.failures = 0 =>
    \A i, j \in RowId :
      delivered[i] > 0 /\ delivered[j] > 0 /\ outbox[i].key = outbox[j].key
        => i = j /\ delivered[i] = 1

\* Once the handlers have ended, the recipient of a message refused for good is
\* in the suppression list.
HardBounceSuppresses ==
  Quiet /\ spent.failures = 0 =>
    \A i \in RowId : outbox[i].bounceClass = "hard" => suppressed

\* As long as no handlers overlap, no save is lost and no process ends, both hold.
SentOnceSerially == serial => SentOnce /\ HardBounceSuppresses

\* However the handlers overlap and wherever the process ends, a row says sent
\* only if the mail server has taken its message.
SentIsDelivered == \A i \in RowId : outbox[i].status = "sent" => delivered[i] > 0

\* Every queued message reaches the mail server, unless the server has refused
\* it as often as the drain is ready to try.
EveryMailDelivered ==
  \A i \in RowId :
    Exists(i) ~> (delivered[i] > 0 \/ outbox[i].retryCount >= RetryLimit)
=============================================================================
