--------------------------- MODULE TransportTrust ---------------------------
(***************************************************************************)
(* After an auction: the owner and the carrier confirm the transport, the  *)
(* confirmed transport entitles both to review each other, and a timer     *)
(* reminds them of what is pending (apps/api/src/modules/auction and       *)
(* .../trust).                                                             *)
(*                                                                         *)
(* One closed session with a winning bid is modelled: nothing here touches *)
(* two sessions.  As in AuctionSession every awaited repository call is a  *)
(* step, and save(entity) writes back what the handler has read, with its  *)
(* changes.  A call may throw: the handler ends there.                     *)
(***************************************************************************)
EXTENDS Integers, FiniteSets

CONSTANTS
  Owner, Carrier, \* the session's owner and the winning bid's bidder
  Request,        \* handlers that may be in flight at once
  Sweeper,        \* the handler of the reminder timer, one of Request
  ReminderAge,    \* the 24 hours after which the timer reminds, in ticks
  MaxTime,        \* bound of the clock
  MaxReviews,     \* bound of the review rows of a company
  MaxFailures     \* bound of the repository calls that throw

Party == {Owner, Carrier}
Other(p) == IF p = Owner THEN Carrier ELSE Owner

ASSUME PartyAssumption == Owner # Carrier  \* placeBid refuses the owner's bids
ASSUME RequestAssumption == Sweeper \in Request
ASSUME BoundAssumption ==
  /\ ReminderAge \in Nat /\ MaxTime \in Nat /\ MaxReviews \in Nat /\ MaxFailures \in Nat

VARIABLES
  row,       \* the auction_sessions row, its transport columns
  invite,    \* table company_trust_review_invites, by author
  review,    \* number of company_trust_reviews rows, by author
  req,       \* the handlers in flight and what they hold in memory
  now,       \* Date.now(); the session ended at 0
  stored,    \* history: the parties whose confirmation was ever saved
  failures,  \* how many repository calls have thrown
  serial     \* whether, in this behaviour, a handler starts only when none is in flight

moving == <<row, invite, review, req, now, stored, failures>>
vars == <<moving, serial>>

-----------------------------------------------------------------------------
(* Rows and handlers *)

Null == 0          \* a timestamp that is not set; the clock starts at 1
NoParty == "none"

Row == [confirmedAt : [Party -> Nat], completedAt : Nat,
        completedBy : Party \union {NoParty}, reminded : BOOLEAN]

NewRow == [confirmedAt |-> [p \in Party |-> Null], completedAt |-> Null,
           completedBy |-> NoParty, reminded |-> FALSE]

Invite == [createdAt : Nat, fulfilled : BOOLEAN, dismissed : BOOLEAN, reminded : BOOLEAN]

NewInvite == [createdAt |-> now, fulfilled |-> FALSE, dismissed |-> FALSE, reminded |-> FALSE]
NoInvite == [createdAt |-> Null, fulfilled |-> FALSE, dismissed |-> FALSE, reminded |-> FALSE]

(* pc names the call the handler is waiting for. *)
Handler == [pc : {"idle", "stamp", "save", "complete", "findInvite", "insertInvite",
                  "remind", "listInvites", "remindInvite", "dismiss",
                  "insertReview", "fulfil"},
            party : Party,
            row : Row,                  \* the session it has read
            invite : [Party -> Invite], \* the invites it has read
            queue : SUBSET Party]       \* invites still to issue or to remind of

Idle == [pc |-> "idle", party |-> Owner, row |-> NewRow,
         invite |-> [p \in Party |-> NoInvite], queue |-> {}]

TypeOK ==
  /\ row \in Row
  /\ invite \in [Party -> Invite]
  /\ review \in [Party -> Nat]
  /\ req \in [Request -> Handler]
  /\ now \in Nat \ {0}
  /\ stored \subseteq Party
  /\ failures \in Nat

Init ==
  /\ row = NewRow
  /\ invite = [p \in Party |-> NoInvite]
  /\ review = [p \in Party |-> 0]
  /\ req = [r \in Request |-> Idle]
  /\ now = 1
  /\ stored = {}
  /\ failures = 0
  /\ serial \in BOOLEAN

-----------------------------------------------------------------------------
(* Queries *)

InFlight(r) == req[r].pc # "idle"
MayStart(r) == ~InFlight(r) /\ (serial => \A o \in Request : ~InFlight(o))

Exists(i) == i.createdAt # Null

(* listPendingForCompany and remindPendingTrustInvites: not yet answered.  *)
Pending(i) == Exists(i) /\ ~i.fulfilled /\ ~i.dismissed

(* Both sides have confirmed.  A slip is content with one. *)
Agreed_Either(e) == \E p \in Party : e.confirmedAt[p] # Null
Agreed(e) == \A p \in Party : e.confirmedAt[p] # Null

(* The entity with a party's confirmation.                                 *)
Confirmed(e, p) ==
  IF e.confirmedAt[p] = Null
  THEN [e EXCEPT !.confirmedAt[p] = now, !.completedBy = p]
  ELSE e

(* The completed entity: the later confirmation counts.  A slip takes the  *)
(* owner's.                                                                *)
Completed_Owner(e) == [e EXCEPT !.completedAt = e.confirmedAt[Owner]]
Completed(e) ==
  [e EXCEPT !.completedAt = IF e.confirmedAt[Owner] > e.confirmedAt[Carrier]
                            THEN e.confirmedAt[Owner] ELSE e.confirmedAt[Carrier]]

Goto(r, pc) == req' = [req EXCEPT ![r].pc = pc]
Done(r) == req' = [req EXCEPT ![r] = Idle]

-----------------------------------------------------------------------------
(* confirmTransport *)

(* The session and the winning bid are read.  A completed session is       *)
(* returned as it is.                                                      *)
ConfirmRead(r, p) ==
  /\ MayStart(r) /\ r # Sweeper
  /\ row.completedAt = Null
  /\ req' = [req EXCEPT ![r] = [Idle EXCEPT !.pc = "stamp", !.party = p, !.row = row]]
  /\ UNCHANGED <<row, invite, review, now, stored, failures>>

(* The entity is changed once the winning bid has arrived. *)
ConfirmStamp(r) ==
  /\ req[r].pc = "stamp"
  /\ req' = [req EXCEPT ![r].pc = "save",
                        ![r].row = Confirmed(req[r].row, req[r].party)]
  /\ UNCHANGED <<row, invite, review, now, stored, failures>>

ConfirmSave(r) ==
  /\ req[r].pc = "save"
  /\ row' = req[r].row
  /\ stored' = stored \union {req[r].party}
  /\ IF Agreed(req[r].row)
     THEN req' = [req EXCEPT ![r].pc = "complete", ![r].row = Completed(req[r].row)]
     ELSE Done(r)
  /\ UNCHANGED <<invite, review, now, failures>>

(* Whom the completed transport invites to a review: both.  Slips invite   *)
(* the owner only, or a company that has no part in it.                    *)
Invited_Companies == Party \union {NoParty}
Invited_OwnerOnly == {Owner}
Invited == Party

(* finalizeIfBothPartiesConfirmed: the completion is saved. *)
CompleteSave(r) ==
  /\ req[r].pc = "complete"
  /\ row' = req[r].row
  /\ req' = [req EXCEPT ![r].pc = "findInvite", ![r].queue = Invited]
  /\ UNCHANGED <<invite, review, now, stored, failures>>

(* Owner's invite first. *)
NextInvite(queue) == IF Owner \in queue THEN Owner ELSE Carrier

AfterInvite(h, p) ==
  IF h.queue = {p} THEN Idle
  ELSE [h EXCEPT !.pc = "findInvite", !.queue = @ \ {p}]

(* upsertInvite: an invite of this session and author is left alone. *)
FindInvite(r) ==
  LET p == NextInvite(req[r].queue)
  IN  /\ req[r].pc = "findInvite"
      /\ req' = [req EXCEPT ![r] =
           IF Exists(invite[p]) THEN AfterInvite(req[r], p)
           ELSE [req[r] EXCEPT !.pc = "insertInvite"]]
      /\ UNCHANGED <<row, invite, review, now, stored, failures>>

(* uq_trust_review_invite_source refuses a second row: the call throws. *)
InsertInvite(r) ==
  LET p == NextInvite(req[r].queue)
  IN  /\ req[r].pc = "insertInvite"
      /\ IF Exists(invite[p])
         THEN Done(r) /\ UNCHANGED invite
         ELSE /\ invite' = [invite EXCEPT ![p] = NewInvite]
              /\ req' = [req EXCEPT ![r] = AfterInvite(req[r], p)]
      /\ UNCHANGED <<row, review, now, stored, failures>>

-----------------------------------------------------------------------------
(* runSweep: first the sessions that wait for a confirmation, then the     *)
(* invites that wait for a review.                                         *)

(* reminderSentAt of an invite, transportConfirmReminderSentAt of a session *)
Reminded(e) == [e EXCEPT !.reminded = TRUE]

(* remindPendingTransportConfirmations' WHERE *)
RemindSession(r) ==
  /\ MayStart(r) /\ r = Sweeper
  /\ row.completedAt = Null /\ ~row.reminded /\ now > ReminderAge
  /\ req' = [req EXCEPT ![r] = [Idle EXCEPT !.pc = "remind", !.row = row]]
  /\ UNCHANGED <<row, invite, review, now, stored, failures>>

(* Both sides are notified, then the listed entity is saved. *)
RemindSave(r) ==
  /\ req[r].pc = "remind"
  /\ row' = Reminded(req[r].row)
  /\ Goto(r, "listInvites")
  /\ UNCHANGED <<invite, review, now, stored, failures>>

(* remindPendingTrustInvites' WHERE.  A slip looks at one moment only. *)
Remindable_Once(i) == Pending(i) /\ ~i.reminded /\ i.createdAt + ReminderAge = now
Remindable(i) == Pending(i) /\ ~i.reminded /\ i.createdAt + ReminderAge < now

(* The list is read; the sweep starts here when no session is due. *)
RemindInvites(r) ==
  LET due == {p \in Party : Remindable(invite[p])}
  IN  /\ \/ req[r].pc = "listInvites"
         \/ /\ MayStart(r) /\ r = Sweeper /\ due # {}
            /\ ~(row.completedAt = Null /\ ~row.reminded /\ now > ReminderAge)
      /\ req' = [req EXCEPT ![r] =
           IF due = {} THEN Idle
           ELSE [Idle EXCEPT !.pc = "remindInvite", !.invite = invite, !.queue = due]]
      /\ UNCHANGED <<row, invite, review, now, stored, failures>>

AfterReminder(h, p) == IF h.queue = {p} THEN Idle ELSE [h EXCEPT !.queue = @ \ {p}]

(* The author is notified, the listed invite is saved. *)
RemindInviteSave(r) ==
  /\ req[r].pc = "remindInvite"
  /\ \E p \in req[r].queue :
       /\ invite' = [invite EXCEPT ![p] = Reminded(req[r].invite[p])]
       /\ req' = [req EXCEPT ![r] = AfterReminder(req[r], p)]
  /\ UNCHANGED <<row, review, now, stored, failures>>

-----------------------------------------------------------------------------
(* The dismissed invite. *)
Dismissed(i) == [i EXCEPT !.dismissed = TRUE]

(* dismissInvite: only the author's own *)
DismissRead(r, p) ==
  /\ MayStart(r) /\ r # Sweeper
  /\ Exists(invite[p])
  /\ req' = [req EXCEPT ![r] = [Idle EXCEPT !.pc = "dismiss", !.party = p, !.invite = invite]]
  /\ UNCHANGED <<row, invite, review, now, stored, failures>>

DismissSave(r) ==
  LET p == req[r].party
  IN  /\ req[r].pc = "dismiss"
      /\ invite' = [invite EXCEPT ![p] = Dismissed(req[r].invite[p])]
      /\ Done(r)
      /\ UNCHANGED <<row, review, now, stored, failures>>

(* submitReview: the author's review of the partner is looked up. *)
HasReview(p) == review[p] > 0

ReviewsToCome(p) ==
  Cardinality({r \in Request : req[r].pc = "insertReview" /\ req[r].party = p})

(* A review that exists is revised in place, another is inserted. *)
ReviewRead(r, p) ==
  /\ MayStart(r) /\ r # Sweeper
  /\ ~HasReview(p) => review[p] + ReviewsToCome(p) < MaxReviews
  /\ req' = [req EXCEPT ![r] =
       [Idle EXCEPT !.pc = IF HasReview(p) THEN "fulfil" ELSE "insertReview", !.party = p]]
  /\ UNCHANGED <<row, invite, review, now, stored, failures>>

ReviewInsert(r) ==
  /\ req[r].pc = "insertReview"
  /\ review' = [review EXCEPT ![req[r].party] = @ + 1]
  /\ Goto(r, "fulfil")
  /\ UNCHANGED <<row, invite, now, stored, failures>>

(* markFulfilledForReview: one UPDATE *)
ReviewFulfil(r) ==
  LET p == req[r].party
  IN  /\ req[r].pc = "fulfil"
      /\ invite' = IF Exists(invite[p])
                   THEN [invite EXCEPT ![p].fulfilled = TRUE] ELSE invite
      /\ Done(r)
      /\ UNCHANGED <<row, review, now, stored, failures>>

-----------------------------------------------------------------------------
(* An awaited call throws, or the process ends: what the handler holds is  *)
(* lost.  The sweep catches what a row throws and goes on with the next.   *)
Fail(r) ==
  /\ failures < MaxFailures
  /\ InFlight(r)
  /\ failures' = failures + 1
  /\ \/ Done(r)
     \/ req[r].pc = "remind" /\ Goto(r, "listInvites")
     \/ /\ req[r].pc = "remindInvite"
        /\ \E p \in req[r].queue : /\ req[r].queue # {p}
                                   /\ req' = [req EXCEPT ![r].queue = @ \ {p}]
  /\ UNCHANGED <<row, invite, review, now, stored>>

Tick ==
  /\ now < MaxTime
  /\ now' = now + 1
  /\ UNCHANGED <<row, invite, review, req, stored, failures>>

Start(r) ==
  \/ \E p \in Party : ConfirmRead(r, p) \/ DismissRead(r, p) \/ ReviewRead(r, p)
  \/ RemindSession(r)

Step(r) ==
  \/ ConfirmStamp(r) \/ ConfirmSave(r) \/ CompleteSave(r)
  \/ FindInvite(r) \/ InsertInvite(r)
  \/ RemindSave(r) \/ RemindInvites(r) \/ RemindInviteSave(r)
  \/ DismissSave(r) \/ ReviewInsert(r) \/ ReviewFulfil(r)

Next ==
  /\ Tick \/ \E r \in Request : Start(r) \/ Step(r) \/ Fail(r)
  /\ UNCHANGED serial

Spec == Init /\ [][Next]_vars

(* Calls are answered, and the timer fires again and again.  Nobody has to *)
(* confirm, dismiss or review.                                             *)
FairSpec ==
  /\ Spec
  /\ WF_moving(RemindSession(Sweeper))
  /\ \A r \in Request : WF_moving(Step(r))

-----------------------------------------------------------------------------
(* Properties under every interleaving *)

(* A transport is completed only when both sides have confirmed it, at the *)
(* time of the later confirmation, by the side that gave it: stale saves   *)
(* of confirmTransport and of the reminder never tear these columns apart. *)
Coherent(e) ==
  /\ e.completedAt # Null =>
       /\ Agreed(e)
       /\ \A p \in Party : e.confirmedAt[p] <= e.completedAt
       /\ e.completedBy \in Party /\ e.confirmedAt[e.completedBy] = e.completedAt
CompletedIsAgreed == Coherent(row)

(* An invite to review is issued only after both sides' confirmations have *)
(* been saved, even when a stale save has wiped one of them out since.     *)
InvitesAreEarned ==
  \A p \in Party : Exists(invite[p]) => stored = Party

(* An unanswered invite that is older than the reminder's age does not     *)
(* stay without a reminder for good.                                       *)
Waiting(i) == /\ Exists(i) /\ i.createdAt + ReminderAge < now
              /\ ~(i.reminded \/ i.fulfilled \/ i.dismissed)
EveryInviteReminded ==
  \A p \in Party : Waiting(invite[p]) ~> ~Waiting(invite[p])

-----------------------------------------------------------------------------
(* The inductive invariant behind CompletedIsAgreed and InvitesAreEarned.  *)
(* What a handler holds is as sound as what the table holds, so it does no *)
(* harm to save it late.                                                   *)

Sound(e) ==
  /\ \A p \in Party : /\ e.confirmedAt[p] <= now
                      /\ e.confirmedAt[p] # Null =>
                           /\ e.completedBy \in Party
                           /\ e.confirmedAt[p] <= e.confirmedAt[e.completedBy]
  /\ Coherent(e)

(* The confirmations an entity carries have been saved, but for the one    *)
(* its handler is about to save.                                           *)
Backed(e, S) == \A p \in Party : e.confirmedAt[p] # Null => p \in S

HandlerOK(h) ==
  /\ Sound(h.row)
  /\ Backed(h.row, IF h.pc = "save" THEN stored \union {h.party} ELSE stored)
  /\ h.pc \in {"stamp", "save"} => h.row.completedAt = Null
  /\ h.pc \in {"complete", "findInvite", "insertInvite"} => stored = Party
  /\ \A p \in Party : Exists(h.invite[p]) => stored = Party

IInv ==
  /\ TypeOK
  /\ Sound(row) /\ Backed(row, stored)
  /\ \A r \in Request : HandlerOK(req[r])
  /\ InvitesAreEarned

-----------------------------------------------------------------------------
(* Properties of handlers that run one at a time *)

Quiescent == \A r \in Request : ~InFlight(r)

(* A saved confirmation stays in the row: "Sizin CMR / taşıma onayınız     *)
(* kaydedildi" (your confirmation is recorded), says the auction page.     *)
StoredIsKept == \A p \in stored : row.confirmedAt[p] # Null

(* When nothing is in flight and no call has thrown, a transport both      *)
(* sides have confirmed is completed and both have been invited.           *)
AgreementIsHonoured ==
  Quiescent /\ failures = 0 /\ stored = Party =>
    row.completedAt # Null /\ \A p \in Party : Exists(invite[p])

(* As long as handlers do not overlap, both hold.                          *)
ConfirmationsCountSerially == serial => StoredIsKept /\ AgreementIsHonoured
=============================================================================
