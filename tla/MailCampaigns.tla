---------------------------- MODULE MailCampaigns ---------------------------
(***************************************************************************)
(* Marketing campaigns (apps/api/src/modules/notification:                 *)
(* MailMarketingCampaignService, MailDelayedComposeProcessor), those of    *)
(* one organization: a campaign is kept as a draft, sent at once or        *)
(* scheduled; until its time it is edited, tagged, rescheduled or          *)
(* cancelled; two drains of the one-second timer send what is due and      *)
(* remind its author, whether or not the last drain has ended.             *)
(*                                                                         *)
(* Text, tags, reference and reminder are one JSON column: whoever changes *)
(* one of them writes back all of them as read before.  Every await is a   *)
(* step.                                                                   *)
(***************************************************************************)
EXTENDS Naturals, FiniteSets

CONSTANTS
  Request,      \* handlers that may be in flight at once
  Ref,          \* client references
  NoRef,        \* no client reference
  Wish,         \* what callers ask for: pairs of a reminder or none and a reference or none
  MaxRows,      \* bound of the campaigns
  MaxTime,      \* bound of the clock
  MaxCalls,     \* bound of the calls
  MaxRefusals,  \* bound of the campaigns refused to the organization
  MaxFailures,  \* bound of the calls of the database that throw and the restarts
  MaxOverlaps   \* bound of the handlers begun while another is in flight

ASSUME WishAssumption == Wish \subseteq BOOLEAN \X (Ref \union {NoRef})
ASSUME BoundAssumption == {MaxRows, MaxTime} \subseteq Nat

VARIABLES
  rows,       \* rows of mail_marketing_campaign
  ran,        \* how often a campaign has gone to its recipients; 2: twice or more
  sentText,   \* the text that went out last
  confirmed,  \* history: the text of the last edit a caller was told of, 0: none
  reminders,  \* reminders sent for the time the campaign is scheduled for; 2: two or more
  withdrawn,  \* history: rows cancelled while no drain was at them
  now,        \* the clock
  req,        \* the handlers in flight and what they hold in memory
  spent       \* how much of the bounds is used up

vars == <<rows, ran, sentText, confirmed, reminders, withdrawn, now, req, spent>>
sends == <<ran, sentText>>
notes == <<confirmed, reminders, withdrawn>>

-----------------------------------------------------------------------------
RowId == 1 .. MaxRows

\* A text is the number of the call that has brought it.
Payload == [text : Nat, reminder : BOOLEAN, reminded : BOOLEAN, ref : Ref \union {NoRef}]

Row == [status : {"none", "draft", "deleted", "scheduled", "running", "completed", "failed", "cancelled"},
        scheduleAt : Nat,           \* 0: null
        payload : Payload]

NoRow == [status |-> "none", scheduleAt |-> 0,
          payload |-> [text |-> 0, reminder |-> FALSE, reminded |-> FALSE, ref |-> NoRef]]

Handler == [kind : {"none", "edit", "draft", "create", "tags", "content", "cancel", "reschedule",
                    "resend", "drain", "remind"},
            pc : {"idle", "save", "delete", "lookup", "insert", "write", "look", "claim",
                  "send", "complete", "fail"},
            id : RowId \union {0},     \* the row the handler works on
            row : Row,                 \* its entity
            text : Nat,                \* the text an edit brings
            list : [RowId -> Row]]     \* what a drain has read and not yet come to

NoList == [i \in RowId |-> NoRow]
Idle == [kind |-> "none", pc |-> "idle", id |-> 0, row |-> NoRow, text |-> 0,
         list |-> NoList]

Counters == [calls : Nat, refusals : Nat, failures : Nat, overlaps : Nat]

TypeOK ==
  /\ rows \in [RowId -> Row]
  /\ ran \in [RowId -> 0 .. 2] /\ sentText \in [RowId -> Nat]
  /\ confirmed \in [RowId -> Nat] /\ reminders \in [RowId -> 0 .. 2] /\ withdrawn \subseteq RowId
  /\ now \in Nat
  /\ req \in [Request -> Handler]
  /\ spent \in Counters

Init ==
  /\ rows = NoList
  /\ ran = [i \in RowId |-> 0] /\ sentText = [i \in RowId |-> 0]
  /\ confirmed = [i \in RowId |-> 0] /\ reminders = [i \in RowId |-> 0] /\ withdrawn = {}
  /\ now = 0
  /\ req = [r \in Request |-> Idle]
  /\ spent = [calls |-> 0, refusals |-> 0, failures |-> 0, overlaps |-> 0]

At(r, kind, pc) == req[r].kind = kind /\ req[r].pc = pc
Become(r, h) == req' = [req EXCEPT ![r] = h]
End(r) == Become(r, Idle)
Has(i, s) == rows[i].status = s
Free(i) == Has(i, "none") /\ \A j \in RowId : j < i => ~ Has(j, "none")

Overlaps(r) == \E q \in Request \ {r} : req[q] # Idle
Begin(r, h, call) ==
  /\ req[r] = Idle
  /\ Become(r, h)
  /\ Overlaps(r) => spent.overlaps < MaxOverlaps
  /\ call => spent.calls < MaxCalls
  /\ spent' = [spent EXCEPT !.overlaps = IF Overlaps(r) THEN @ + 1 ELSE @,
                            !.calls = IF call THEN @ + 1 ELSE @]
  /\ UNCHANGED <<rows, sends, notes, now>>

Call(r, h) == Begin(r, h, TRUE)
NewText == spent.calls + 1

\* A handler that has found row i, or has made up row e.
Found(kind, pc, i) == [Idle EXCEPT !.kind = kind, !.pc = pc, !.id = i, !.row = rows[i]]
Making(kind, pc, e) == [Idle EXCEPT !.kind = kind, !.pc = pc, !.row = e]

-----------------------------------------------------------------------------
(* Drafts *)

Fresh(w) == [text |-> NewText, reminder |-> w[1], reminded |-> FALSE, ref |-> w[2]]

\* A campaign without a moment is sent at once.
Campaign(t, p) ==
  [NoRow EXCEPT !.status = IF t = 0 THEN "running" ELSE "scheduled", !.scheduleAt = t, !.payload = p]

\* saveDraft, without a campaign's number.
NewDraft(r, p) ==
  Call(r, Making("edit", "save", [NoRow EXCEPT !.status = "draft", !.payload = p]))

\* saveDraft, of a draft that is found.
EditDraft(r, i, p) ==
  Has(i, "draft") /\ Call(r, [Found("edit", "save", i) EXCEPT !.row.payload = p])

\* The save of an entity whose row is gone inserts it again.
SaveDraft(r) ==
  /\ At(r, "edit", "save")
  /\ \E i \in RowId :
       /\ IF req[r].id = 0 THEN Free(i) ELSE i = req[r].id
       /\ rows' = [rows EXCEPT ![i] = req[r].row]
  /\ End(r)
  /\ UNCHANGED <<sends, notes, now, spent>>

SendDraft(r, i, t) ==
  /\ Has(i, "draft")
  /\ Call(r, [Found("draft", "delete", i) EXCEPT !.row = Campaign(t, rows[i].payload)])

\* A moment in the past, or too near for the reminder, or no moment at all for
\* one that wants a reminder.
Valid(e) ==
  IF e.scheduleAt = 0 THEN ~ e.payload.reminder
  ELSE e.scheduleAt >= now + (IF e.payload.reminder THEN 2 ELSE 1)

\* The reference is looked for only by callers that give one.
Creating(e) == Making("create", IF e.payload.ref = NoRef THEN "insert" ELSE "lookup", e)

\* The draft goes first; what it becomes is checked after.
DeleteDraft(r) ==
  /\ At(r, "draft", "delete")
  /\ rows' = [rows EXCEPT ![req[r].id].status = "deleted"]
  /\ Become(r, IF Valid(req[r].row) THEN Creating(req[r].row) ELSE Idle)
  /\ UNCHANGED <<sends, notes, now, spent>>

-----------------------------------------------------------------------------
(* createAndRunOrSchedule, also for a clone, and resend *)

Create(r, t, p) ==
  Valid(Campaign(t, p)) /\ Call(r, Creating(Campaign(t, p)))

Clone(r, i, t) ==
  /\ ~ Has(i, "none") /\ ~ Has(i, "deleted") /\ t > 0
  /\ Create(r, t, [rows[i].payload EXCEPT !.reminded = FALSE])

\* All the reference's campaigns count, those that have run too.
Known(ref) == \E i \in RowId : rows[i].payload.ref = ref /\ ~ Has(i, "none") /\ ~ Has(i, "deleted")

LookUp(r) ==
  /\ At(r, "create", "lookup")
  /\ Become(r, IF Known(req[r].row.payload.ref) THEN Idle ELSE [req[r] EXCEPT !.pc = "insert"])
  /\ UNCHANGED <<rows, sends, notes, now, spent>>

\* resend, and resendFailed of the recipients not reached: no look for the reference.
Resend(r, i) ==
  /\ ~ Has(i, "none") /\ ~ Has(i, "deleted")
  /\ Call(r, Making("resend", "insert", Campaign(0, rows[i].payload)))

ResendFailed(r, i) ==
  /\ Has(i, "completed")
  /\ Call(r, Making("resend", "insert", Campaign(0, [rows[i].payload EXCEPT !.reminded = FALSE])))

Insert(r) ==
  /\ req[r].pc = "insert"
  /\ \E i \in RowId :
       /\ Free(i)
       /\ rows' = [rows EXCEPT ![i] = req[r].row]
       /\ Become(r, IF req[r].row.status = "scheduled" THEN Idle
                    ELSE [req[r] EXCEPT !.pc = "send", !.id = i])
  /\ UNCHANGED <<sends, notes, now, spent>>

-----------------------------------------------------------------------------
(* What may be done to a campaign that waits *)

\* updateCampaignTags: any campaign but one that is running.
Tags(r, i) ==
  /\ ~ Has(i, "none") /\ ~ Has(i, "deleted") /\ ~ Has(i, "running")
  /\ Call(r, Found("tags", "write", i))

\* updateScheduledContent.
Content(r, i) ==
  Has(i, "scheduled") /\ Call(r, [Found("content", "write", i) EXCEPT !.text = NewText])

CancelScheduled(r, i) == Has(i, "scheduled") /\ Call(r, Found("cancel", "write", i))

Rescheduled(e, t) == [e EXCEPT !.scheduleAt = t, !.payload.reminded = FALSE]

Reschedule(r, i, t) ==
  LET e == Rescheduled(rows[i], t)
  IN  Has(i, "scheduled") /\ t > 0 /\ Valid(e) /\ Call(r, [Found("reschedule", "write", i) EXCEPT !.row = e])

WritePayload(i, p) == rows' = [rows EXCEPT ![i].payload = p]

\* The tags are one column with the text, whatever has become of the row.
WriteTags(r) ==
  /\ At(r, "tags", "write")
  /\ WritePayload(req[r].id, req[r].row.payload)
  /\ End(r)
  /\ UNCHANGED <<sends, notes, now, spent>>

\* What was there is spread over what is new.
Patched_Under(p, text) == p
Patched(p, text) == [p EXCEPT !.text = text]

\* The caller is told of success whether or not the row was still waiting.
WriteContent(r) ==
  /\ At(r, "content", "write")
  /\ LET i == req[r].id
     IN  /\ IF Has(i, "scheduled") THEN WritePayload(i, Patched(req[r].row.payload, req[r].text))
            ELSE UNCHANGED rows
         /\ confirmed' = [confirmed EXCEPT ![i] = req[r].text]
  /\ End(r)
  /\ UNCHANGED <<sends, reminders, withdrawn, now, spent>>

\* A drain is past its look at row i.
Running(r, i) == req[r].id = i /\ req[r].pc \in {"claim", "send", "complete", "fail"}

WriteCancel(r) ==
  /\ At(r, "cancel", "write")
  /\ LET i == req[r].id
     IN  IF Has(i, "scheduled")
         THEN /\ rows' = [rows EXCEPT ![i].status = "cancelled"]
              /\ withdrawn' = withdrawn \union {j \in {i} : \A q \in Request : ~ Running(q, j)}
         ELSE UNCHANGED <<rows, withdrawn>>
  /\ End(r)
  /\ UNCHANGED <<sends, confirmed, reminders, now, spent>>

WriteReschedule(r) ==
  /\ At(r, "reschedule", "write")
  /\ LET i == req[r].id
     IN  IF Has(i, "scheduled")
         THEN /\ rows' = [rows EXCEPT ![i].scheduleAt = req[r].row.scheduleAt,
                                      ![i].payload = req[r].row.payload]
              /\ reminders' = [reminders EXCEPT ![i] = 0]
         ELSE UNCHANGED <<rows, reminders>>
  /\ End(r)
  /\ UNCHANGED <<sends, confirmed, withdrawn, now, spent>>

-----------------------------------------------------------------------------
(* drainScheduled *)

DrainOf(r, kind, pc, S) ==
  /\ S # {}
  /\ Begin(r, [Idle EXCEPT !.kind = kind, !.pc = pc,
                           !.list = [i \in RowId |-> IF i \in S THEN rows[i] ELSE NoRow]], FALSE)

Due(i) == Has(i, "scheduled") /\ rows[i].scheduleAt <= now

\* A drain that is late passes over what was due before.
Listed_Now(i) == Has(i, "scheduled") /\ rows[i].scheduleAt = now
Listed(i) == Due(i)

DrainScheduled(r) == DrainOf(r, "drain", "look", {i \in RowId : Listed(i)})

Left(h) == {i \in RowId : h.list[i] # NoRow}
Next1(h, i) == i \in Left(h) /\ \A j \in Left(h) : h.list[i].scheduleAt <= h.list[j].scheduleAt
Without(h, i) == [h EXCEPT !.list[i] = NoRow]
NextRow(h, pc) ==
  IF Left(h) = {} THEN Idle ELSE [Idle EXCEPT !.kind = h.kind, !.pc = pc, !.list = h.list]

\* The row is taken as it was listed.
Locked_Listed(h, i) == h.list[i].status = "scheduled"
Locked(h, i) == Has(i, "scheduled")

Look(r) ==
  /\ At(r, "drain", "look")
  /\ \E i \in RowId :
       /\ Next1(req[r], i)
       /\ LET h == Without(req[r], i)
          IN  Become(r, IF Locked(req[r], i) THEN [h EXCEPT !.pc = "claim", !.id = i, !.row = rows[i]]
                        ELSE NextRow(h, "look"))
  /\ UNCHANGED <<rows, sends, notes, now, spent>>

\* The row is left as it is until its campaign has been sent.
Claimed_Later(i) == UNCHANGED rows
Claimed(i) == IF Has(i, "scheduled") THEN rows' = [rows EXCEPT ![i].status = "running"] ELSE UNCHANGED rows

\* How many rows the update has met is not looked at.
Claim(r) ==
  /\ At(r, "drain", "claim")
  /\ Claimed(req[r].id)
  /\ Become(r, [req[r] EXCEPT !.pc = "send"])
  /\ UNCHANGED <<sends, notes, now, spent>>

-----------------------------------------------------------------------------
(* executeCampaignRow, of a drain, a new campaign or a resend *)

\* What goes out is the entity read last, not the row.
Send(r) ==
  /\ req[r].pc = "send"
  /\ LET i == req[r].id
     IN  /\ ran' = [ran EXCEPT ![i] = IF @ = 2 THEN 2 ELSE @ + 1]
         /\ sentText' = [sentText EXCEPT ![i] = req[r].row.payload.text]
  /\ Become(r, [req[r] EXCEPT !.pc = "complete"])
  /\ UNCHANGED <<rows, notes, now, spent>>

\* Only a drain catches what executeCampaignRow throws; nobody does.
Thrown_Nowhere(h) == Idle
Thrown(h) == IF h.kind = "drain" /\ h.pc \in {"send", "complete"} THEN [h EXCEPT !.pc = "fail"] ELSE Idle

\* sendCampaign throws: no recipient, too many, or the organization is suspended.
Refuse(r) ==
  /\ req[r].pc = "send" /\ spent.refusals < MaxRefusals
  /\ spent' = [spent EXCEPT !.refusals = @ + 1]
  /\ Become(r, Thrown(req[r]))
  /\ UNCHANGED <<rows, sends, notes, now>>

Complete(r) ==
  /\ req[r].pc = "complete"
  /\ rows' = [rows EXCEPT ![req[r].id].status = "completed"]
  /\ Become(r, NextRow(req[r], "look"))
  /\ UNCHANGED <<sends, notes, now, spent>>

\* A status that the others do not know.
Verdict_Error == "error"
Verdict == "failed"

Fail(r) ==
  /\ At(r, "drain", "fail")
  /\ rows' = [rows EXCEPT ![req[r].id].status = Verdict]
  /\ Become(r, NextRow(req[r], "look"))
  /\ UNCHANGED <<sends, notes, now, spent>>

-----------------------------------------------------------------------------
(* drainScheduleReminders: the rows are read once; the reminder's time is one *)
(* unit of the clock before the campaign's.                                   *)

DrainReminders(r) ==
  DrainOf(r, "remind", "write",
          {i \in RowId : /\ Has(i, "scheduled") /\ now + 1 = rows[i].scheduleAt
                         /\ rows[i].payload.reminder /\ ~ rows[i].payload.reminded})

Noted(p) == [p EXCEPT !.reminded = TRUE]

WriteReminder(r) ==
  /\ At(r, "remind", "write")
  /\ \E i \in RowId :
       /\ Next1(req[r], i)
       /\ IF Has(i, "scheduled") THEN WritePayload(i, Noted(req[r].list[i].payload)) ELSE UNCHANGED rows
       /\ reminders' = [reminders EXCEPT ![i] = IF @ = 2 THEN 2 ELSE @ + 1]
       /\ Become(r, NextRow(Without(req[r], i), "write"))
  /\ UNCHANGED <<sends, confirmed, withdrawn, now, spent>>

-----------------------------------------------------------------------------
Tick ==
  /\ now < MaxTime
  /\ now' = now + 1
  /\ UNCHANGED <<rows, sends, notes, req, spent>>

Throw == /\ spent.failures < MaxFailures
         /\ spent' = [spent EXCEPT !.failures = @ + 1]

CallThrows(r) ==
  /\ req[r] # Idle
  /\ Throw
  /\ Become(r, Thrown(req[r]))
  /\ UNCHANGED <<rows, sends, notes, now>>

Crash ==
  /\ \E r \in Request : req[r] # Idle
  /\ Throw
  /\ req' = [r \in Request |-> Idle]
  /\ UNCHANGED <<rows, sends, notes, now>>

Time == 0 .. MaxTime

Start(r) ==
  \/ \E w \in Wish :
       LET p == Fresh(w)
       IN  \/ NewDraft(r, p)
           \/ \E i \in RowId : EditDraft(r, i, p)
           \/ \E t \in Time : Create(r, t, p)
  \/ \E i \in RowId :
       \/ Resend(r, i) \/ ResendFailed(r, i) \/ Tags(r, i) \/ Content(r, i) \/ CancelScheduled(r, i)
       \/ \E t \in Time : SendDraft(r, i, t) \/ Clone(r, i, t) \/ Reschedule(r, i, t)

Drains(r) == DrainScheduled(r) \/ DrainReminders(r)

Step(r) ==
  \/ SaveDraft(r) \/ DeleteDraft(r) \/ LookUp(r) \/ Insert(r)
  \/ WriteTags(r) \/ WriteContent(r) \/ WriteCancel(r) \/ WriteReschedule(r)
  \/ Look(r) \/ Claim(r) \/ Send(r) \/ Refuse(r) \/ Complete(r) \/ Fail(r) \/ WriteReminder(r)

Next ==
  \/ \E r \in Request : Start(r) \/ Drains(r) \/ Step(r) \/ CallThrows(r)
  \/ Tick \/ Crash

Spec == Init /\ [][Next]_vars

\* The interval fires every second whatever is in flight, and every call that
\* is awaited ends, in an answer or in an error.
FairSpec ==
  /\ Spec
  /\ WF_vars(\E r \in Request : DrainScheduled(r))
  /\ \A r \in Request : WF_vars(Step(r))

-----------------------------------------------------------------------------
(* Properties *)

Quiet == \A r \in Request : req[r] = Idle
Serial == spent.overlaps = 0

\* A campaign goes to its recipients once, crashes and failed calls included,
\* as long as the handlers do not overlap: a drain marks it running before it
\* sends, and what has failed is not taken up again.  One reminder goes out for
\* one scheduled time, and a reference is scheduled once, however often the call
\* is repeated and the campaign is cloned or resent.
RunsOnce ==
  Serial =>
    /\ \A i \in RowId : ran[i] <= 1 /\ reminders[i] <= 1
    /\ \A i, j \in RowId :
         /\ rows[i].scheduleAt > 0 /\ rows[j].scheduleAt > 0
         /\ rows[i].payload.ref = rows[j].payload.ref /\ rows[i].payload.ref # NoRef
         => i = j

\* A campaign cancelled while no drain was at it is never sent, in whatever
\* order drains, cancellations and edits overlap.
WithdrawnNeverRuns == \A i \in withdrawn : ran[i] = 0

\* What goes out is the text of the last edit the caller was told of.  An edit
\* that overlaps a tag, a reminder or a drain is lost: they write back, or
\* send, what they read before it.
EditIsSent ==
  Serial => \A i \in RowId : ran[i] > 0 /\ confirmed[i] > 0 => sentText[i] = confirmed[i]

\* A scheduled campaign that says running is being sent by some handler, unless
\* a call has failed or the process has ended.
RunningIsHeld ==
  spent.failures = 0 =>
    \A i \in RowId :
      Has(i, "running") /\ rows[i].scheduleAt > 0 => \E r \in Request : Running(r, i)

\* A campaign whose moment has come is taken up, unless it is put off or cancelled.
DueIsTakenUp == \A i \in RowId : Due(i) ~> ~ Due(i)

\* A draft that is sent becomes a campaign (docs/LERTA_MAIL_PARITY_FAZ26_P2_DRAFT.md:
\* sent or scheduled from the draft).  The code deletes it before it checks the
\* time and the reference.
SentDraftIsCampaign ==
  Quiet /\ spent.failures = 0 =>
    \A i \in RowId : Has(i, "deleted") =>
      \E j \in RowId : /\ rows[j].payload.text = rows[i].payload.text
                       /\ rows[j].status \notin {"draft", "deleted"}
=============================================================================
