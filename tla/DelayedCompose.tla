--------------------------- MODULE DelayedCompose ---------------------------
(***************************************************************************)
(* Delayed sending (apps/api/src/modules/notification:                     *)
(* MailDelayedComposeService, MailDelayedComposeProcessor), for the mail   *)
(* of one user: a send is queued for a moment to come and may be cancelled *)
(* until then; every second the timer starts a drain of the rows that are  *)
(* due, whether or not the last drain has ended.                           *)
(*                                                                         *)
(* A drain holds no claim on the rows it has listed.  It looks a row up    *)
(* again, sends it, and only then sets it sent or failed, by an update     *)
(* that asks for the status pending.  Every await is a step.               *)
(***************************************************************************)
EXTENDS Naturals, FiniteSets

CONSTANTS
  Request,      \* drains that may be in flight at once
  Draft,        \* drafts of the user
  NoDraft,      \* the row carries its message itself
  BatchSize,    \* rows a drain lists at most
  MaxRows,      \* bound of the scheduled sends
  MaxTime,      \* bound of the clock
  MaxRefusals,  \* bound of the messages that cannot be sent
  MaxDeletes,   \* bound of the drafts the user deletes
  MaxFailures,  \* bound of the calls that throw and the restarts
  MaxOverlaps   \* bound of the drains begun while another is in flight

ASSUME BoundAssumption == {BatchSize, MaxRows, MaxTime} \subseteq Nat

VARIABLES
  rows,       \* rows of mail_delayed_compose
  drafts,     \* drafts that exist
  delivered,  \* how often the mail server has accepted a row's message; 2: twice or more
  withdrawn,  \* history: rows cancelled while no drain was sending them
  now,        \* the clock
  req,        \* the drains in flight and what they hold in memory
  spent       \* how much of the bounds is used up

vars == <<rows, drafts, delivered, withdrawn, now, req, spent>>

-----------------------------------------------------------------------------
RowId == 1 .. MaxRows

Row == [status : {"none", "pending", "cancelled", "sent", "failed"},
        sendAfter : Nat,
        draft : Draft \union {NoDraft}]      \* the payload, when it is a draft_send

NoRow == [status |-> "none", sendAfter |-> 0, draft |-> NoDraft]

Handler == [pc : {"idle", "look", "fetch", "send", "store", "discard", "settle", "fail"},
            id : RowId \union {0},        \* the row the drain works on
            list : SUBSET RowId]          \* those it has listed and not yet come to

Idle == [pc |-> "idle", id |-> 0, list |-> {}]

Counters == [refusals : Nat, deletes : Nat, failures : Nat, overlaps : Nat]

TypeOK ==
  /\ rows \in [RowId -> Row]
  /\ drafts \subseteq Draft
  /\ delivered \in [RowId -> 0 .. 2]
  /\ withdrawn \subseteq RowId
  /\ now \in Nat
  /\ req \in [Request -> Handler]
  /\ spent \in Counters

Init ==
  /\ rows = [i \in RowId |-> NoRow]
  /\ drafts = Draft
  /\ delivered = [i \in RowId |-> 0]
  /\ withdrawn = {}
  /\ now = 0
  /\ req = [r \in Request |-> Idle]
  /\ spent = [refusals |-> 0, deletes |-> 0, failures |-> 0, overlaps |-> 0]

At(r, pc) == req[r].pc = pc
Become(r, h) == req' = [req EXCEPT ![r] = h]
Status(i, s) == rows' = [rows EXCEPT ![i].status = s]

Pending(i) == rows[i].status = "pending"
Due(i) == Pending(i) /\ rows[i].sendAfter <= now

\* The drain is past its look at row i and has not yet settled it.
Sending(r, i) ==
  /\ req[r].id = i
  /\ req[r].pc \in {"fetch", "send", "store", "discard", "settle", "fail"}

-----------------------------------------------------------------------------
(* The user *)

\* schedule, with its delay of some seconds, and scheduleAt, with its moment.
Schedule(i, t, d) ==
  /\ rows[i].status = "none" /\ \A j \in RowId : j < i => rows[j].status # "none"
  /\ now < t /\ (d # NoDraft => d \in drafts)
  /\ rows' = [rows EXCEPT ![i] = [status |-> "pending", sendAfter |-> t, draft |-> d]]
  /\ UNCHANGED <<drafts, delivered, withdrawn, now, req, spent>>

\* One update asks for the status and sets it.
Cancel(i) ==
  /\ Pending(i)
  /\ Status(i, "cancelled")
  /\ withdrawn' = withdrawn \union {j \in {i} : \A r \in Request : ~ Sending(r, j)}
  /\ UNCHANGED <<drafts, delivered, now, req, spent>>

\* External: MailComposeDraftService.delete, called by the user.
DeleteDraft(d) ==
  /\ d \in drafts /\ spent.deletes < MaxDeletes
  /\ drafts' = drafts \ {d}
  /\ spent' = [spent EXCEPT !.deletes = @ + 1]
  /\ UNCHANGED <<rows, delivered, withdrawn, now, req>>

Tick ==
  /\ now < MaxTime
  /\ now' = now + 1
  /\ UNCHANGED <<rows, drafts, delivered, withdrawn, req, spent>>

-----------------------------------------------------------------------------
(* drainDue *)

\* The first rows that are due, by sendAfter.
Batch(s) ==
  /\ s \subseteq {i \in RowId : Due(i)} /\ s # {}
  /\ \A i \in s, j \in RowId \ s : Due(j) => rows[i].sendAfter <= rows[j].sendAfter
  /\ \/ Cardinality(s) = BatchSize
     \/ Cardinality(s) < BatchSize /\ \A j \in RowId : Due(j) => j \in s

Overlaps(r) == \E q \in Request \ {r} : req[q] # Idle

Drain(r) ==
  /\ req[r] = Idle
  /\ \E s \in SUBSET RowId : Batch(s) /\ Become(r, [Idle EXCEPT !.pc = "look", !.list = s])
  /\ Overlaps(r) => spent.overlaps < MaxOverlaps
  /\ spent' = [spent EXCEPT !.overlaps = IF Overlaps(r) THEN @ + 1 ELSE @]
  /\ UNCHANGED <<rows, drafts, delivered, withdrawn, now>>

\* The loop goes on to the next row, if there is one.
NextRow(h) == IF h.list = {} THEN Idle ELSE [Idle EXCEPT !.pc = "look", !.list = h.list]

Earliest(i, s) == i \in s /\ \A j \in s : rows[i].sendAfter <= rows[j].sendAfter

\* The status is not looked at again.
StillPending_Listed(i) == rows[i].status # "none"
StillPending(i) == Pending(i)

Look(r) ==
  /\ At(r, "look")
  /\ \E i \in RowId :
       /\ Earliest(i, req[r].list)
       /\ LET rest == [req[r] EXCEPT !.list = @ \ {i}]
              pc == IF rows[i].draft = NoDraft THEN "send" ELSE "fetch"
          IN  Become(r, IF StillPending(i) THEN [rest EXCEPT !.pc = pc, !.id = i]
                        ELSE NextRow(rest))
  /\ UNCHANGED <<rows, drafts, delivered, withdrawn, now, spent>>

-----------------------------------------------------------------------------
(* dispatchSend *)

\* The message of a draft is in the draft, which may be gone.
Fetched(i) == rows[i].draft \in drafts

\* getForSend.
Fetch(r) ==
  /\ At(r, "fetch")
  /\ Become(r, [req[r] EXCEPT !.pc = IF Fetched(req[r].id) THEN "send" ELSE "fail"])
  /\ UNCHANGED <<rows, drafts, delivered, withdrawn, now, spent>>

\* External: the mail server takes the message compose hands it.
SendAccepted(r) ==
  /\ At(r, "send")
  /\ delivered' = [delivered EXCEPT ![req[r].id] = IF @ = 2 THEN 2 ELSE @ + 1]
  /\ Become(r, [req[r] EXCEPT !.pc = "store"])
  /\ UNCHANGED <<rows, drafts, withdrawn, now, spent>>

\* compose throws before anything has left: a check of the organization or of
\* the mailbox, or the mail server's refusal.
SendRefused(r) ==
  /\ At(r, "send") /\ spent.refusals < MaxRefusals
  /\ Become(r, [req[r] EXCEPT !.pc = "fail"])
  /\ spent' = [spent EXCEPT !.refusals = @ + 1]
  /\ UNCHANGED <<rows, drafts, delivered, withdrawn, now>>

\* A draft is dropped before the row is settled; the row is settled without it.
Stored_Kept(i) == "settle"
Stored(i) == IF rows[i].draft = NoDraft THEN "settle" ELSE "discard"

\* compose saves the sent message; the row's own table is not touched.
Store(r) ==
  /\ At(r, "store")
  /\ Become(r, [req[r] EXCEPT !.pc = Stored(req[r].id)])
  /\ UNCHANGED <<rows, drafts, delivered, withdrawn, now, spent>>

\* deleteAfterSend throws when the draft is gone.
Discard(r) ==
  /\ At(r, "discard")
  /\ LET d == rows[req[r].id].draft
     IN  /\ Become(r, [req[r] EXCEPT !.pc = IF d \in drafts THEN "settle" ELSE "fail"])
         /\ drafts' = drafts \ {d}
  /\ UNCHANGED <<rows, delivered, withdrawn, now, spent>>

-----------------------------------------------------------------------------
(* The row is settled, if nobody else has *)

Settled(i, s) == IF Pending(i) THEN Status(i, s) ELSE UNCHANGED rows

Settle(r) ==
  /\ At(r, "settle")
  /\ Settled(req[r].id, "sent")
  /\ Become(r, NextRow(req[r]))
  /\ UNCHANGED <<drafts, delivered, withdrawn, now, spent>>

\* The catch gives the row back to the queue; it calls it sent; it sets a status
\* the column does not know.
Verdict_Again == "pending"
Verdict_Sent == "sent"
Verdict_Error == "error"
Verdict == "failed"

Fail(r) ==
  /\ At(r, "fail")
  /\ Settled(req[r].id, Verdict)
  /\ Become(r, NextRow(req[r]))
  /\ UNCHANGED <<drafts, delivered, withdrawn, now, spent>>

-----------------------------------------------------------------------------
(* A call throws; the process ends *)

Throw == /\ spent.failures < MaxFailures
         /\ spent' = [spent EXCEPT !.failures = @ + 1]

\* What is inside the try ends in its catch; the rest ends the drain.
Thrown(h) == IF h.pc \in {"look", "fail"} THEN Idle ELSE [h EXCEPT !.pc = "fail"]

CallThrows(r) ==
  /\ ~ At(r, "idle")
  /\ Throw
  /\ Become(r, Thrown(req[r]))
  /\ UNCHANGED <<rows, drafts, delivered, withdrawn, now>>

Crash ==
  /\ \E r \in Request : req[r] # Idle
  /\ Throw
  /\ req' = [r \in Request |-> Idle]
  /\ UNCHANGED <<rows, drafts, delivered, withdrawn, now>>

-----------------------------------------------------------------------------
Step(r) ==
  \/ Look(r) \/ Fetch(r) \/ SendAccepted(r) \/ SendRefused(r)
  \/ Store(r) \/ Discard(r) \/ Settle(r) \/ Fail(r)

User ==
  \/ \E i \in RowId : Cancel(i) \/ \E t \in 1 .. MaxTime, d \in Draft \union {NoDraft} : Schedule(i, t, d)
  \/ \E d \in Draft : DeleteDraft(d)

Next ==
  \/ \E r \in Request : Drain(r) \/ Step(r) \/ CallThrows(r)
  \/ User \/ Tick \/ Crash

Spec == Init /\ [][Next]_vars

\* The interval fires every second whatever is in flight, and every call that
\* is awaited ends, in an answer or in an error.
FairSpec ==
  /\ Spec
  /\ WF_vars(\E r \in Request : Drain(r))
  /\ \A r \in Request : WF_vars(Step(r))

-----------------------------------------------------------------------------
(* Properties *)

\* A send cancelled while no drain was at it stays unsent: a drain that had
\* listed the row before looks at it again.  However the drains overlap, fail
\* and restart.
WithdrawnIsNotSent == [][\A i \in withdrawn : delivered'[i] = delivered[i]]_vars

\* A row says sent only if the mail server has taken its message, whoever has
\* settled it.
SentIsDelivered == \A i \in RowId : rows[i].status = "sent" => delivered[i] > 0

\* As long as drains do not overlap and no call fails, a message is sent once,
\* a draft leaves with one row, though it may be queued with two, and what is
\* reported failed has not been sent, unless the user has deleted the draft that
\* was being sent.
SentOnce ==
  spent.overlaps = 0 /\ spent.failures = 0 =>
    \A i \in RowId :
      /\ delivered[i] <= 1
      /\ \A j \in RowId :
           delivered[i] > 0 /\ delivered[j] > 0 /\ rows[i].draft = rows[j].draft
             => i = j \/ rows[i].draft = NoDraft
      /\ rows[i].status = "failed" /\ spent.deletes = 0 => delivered[i] = 0

\* A queued send whose moment has come is settled, whatever fails meanwhile.
DueIsSettled == \A i \in RowId : Due(i) ~> rows[i].status \in {"sent", "failed", "cancelled"}
=============================================================================
