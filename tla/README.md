# Nakliye Borsası / Lerta Mail: a TLA+ verification project

This directory holds TLA+ specifications of the parts of the repository whose
correctness depends on what happens *between* two database calls, the TLC
configurations that check them on small instances, and TLAPS proofs of the
results that hold for every value of the constants.

Contents: 1 the system · 2 what is modelled and how · 3 the runs · 4 the proofs ·
5 findings · 6 what is not modelled · 7 the plan · 8 how to run it.

## 1. The system

A freight exchange and a multi-tenant mail product behind one NestJS API
(`src/apps/api`, TypeORM over PostgreSQL, Redis for a few volatile things) with
web, mail, desktop and mobile clients over it.

What makes it hard is common to all its parts:

* **No transactions and no row locks.** A service method is a chain of awaited
  repository calls; at each await every other handler may run. A read entity is
  stale by the time it is saved.
* **`Repository.save(entity)` writes whole entities.** TypeORM reads the row,
  compares it with the entity and updates every column that differs. So a save
  writes back *all* columns the handler read earlier, not only those it set.
  This is the one external assumption behind every model here (operators
  `Saved`, `Write`, the save actions): SELECT, diff and UPDATE are one step.
* **Timers without guards.** Every scheduler is a `setInterval` whose tick
  starts whether or not the last tick has ended.
* **Fire and forget.** Much work is started with `void promise.catch(...)`; its
  failure is logged and forgotten, and a restart of the process loses it.
* **Missing unique indexes.** Several look-up-then-insert pairs have nothing in
  the schema that would keep the second insert out.

### Inventory

Components in bold are modelled.

| component | state | operations | interacts with | hard behaviour | correct when |
|---|---|---|---|---|---|
| **Auction sessions and bids** (`modules/auction`) | `auction_sessions`, `auction_bids` | createSession, placeBid, acceptListingFixedPrice, the 60 s sweep with finalizeSession | listings, notifications, transport confirmation | bid vs sweep, bid vs bid, stale save of a prolonged session, a failing save | the best bid wins, bids are a step apart, closed is final, nothing stays open for good |
| **Transport confirmation and trust reviews** (`auction/AuctionTransportCompletionService`, `modules/trust`) | transport columns of the session, review invites, reviews | confirmTransport, issueForClosedAuction, dismissInvite, submitReview, hourly reminder | sessions, outbox | two confirmations at once, reminder saving an old session | a confirmation is kept, completion is agreed, invites are earned and reminded of |
| **Meeting rooms** (`MessagingWebRtcSignalingService`, `MessagingWebRtcPilotCall`) | Redis sets and keys with expiry, a trimmed signal list, what a page has seen | join, leave, heartbeat, snapshot, signal, poll, teardown | message threads | count-then-add, prune vs rejoin, expiry, trimmed list, overlapping polls | the capacity holds, no signal is passed over |
| **Mail subscription lifecycle** (`notification/MailSubscriptionLifecycleService`, `MailTenantSuspensionService`, `MailBillingService`, grace timer) | billing state, operator state, active plan rows | Stripe webhook, console requests, plan selection, grace expiry, operator suspension | Stripe, subscription plans | order and repetition of events, nested saves, stale timer list | who pays can send, who does not is on the pilot plan after the grace |
| **E-mail outbox** (`EmailOutboxService`, processor, engagement, suppression) | `email_outbox`, suppression list | enqueue, processById, drainQueue, retryById, retryFailed, open/click, bounce | every part that sends mail, SMTP | drain vs drain, crash between send and save, stale count of failures | every mail is sent, once where possible, never falsely called sent |
| **Delayed compose** (`MailDelayedComposeService`) | `pending` rows with `sendAfter` | schedule, cancel, drain every second | mailbox sending, drafts | drain vs drain, cancel vs drain, a send that is stored after it left | a withdrawn mail is not sent, a due one is settled, and truthfully |
| **Marketing campaigns** (`MailMarketingCampaignService`) | campaign rows with one JSON payload | draft, send, create, clone, tags, content, cancel, reschedule, resend, two drains | compose, delayed compose's timer | claim without a look at `affected`, whole-payload writes, crash while running | a campaign runs once, as last edited, or is cancelled |
| **Social posts** (`modules/social-hub`: posts and their timer) | `company_social_posts` | create, update, delete, submit, approve, cancel, publish, the 60 s tick | social networks | stale list of the tick, whole-row saves, one channel of several failing | approved before it goes out, withdrawn is withdrawn, a status can be believed |
| **Telematics** (`modules/fleet/telematics`) | devices with the interpreter's state, derived events, consent log | ingest a batch, enrol, grant, revoke | phones, route matching | whole-device save after the events, batches cut anywhere | trips and stops depend on the drive only, revoked is off |
| **Route matching jobs** (`telematics/routing`) | job rows with attempts, in-memory queue | enqueue, tick, a call of the carrier's screen | OSRM | look-up-then-insert, no claim, no recovery of running jobs | a window asked for is matched or given up after the limit |
| Messaging threads (`MessagingThreadApplicationService`) | threads, messages, read marks | send, read, retention, push | companies, auctions (price offers) | unread counters, retention | a message is seen once |
| Social hub, the rest | connections, tokens, inbox bridge | OAuth, token refresh, bridge, digests | social networks | refresh vs use of a token | nothing bridged twice |
| Send rate (`MailOrganizationSendRateService`) | in-memory timestamps and outbox counts | assertCanSend, recordSend | outbox, compose | count-then-send | the hourly limit holds |
| Public mail API and webhooks | API keys, endpoints, in-memory retries | send, dispatch | outbox | retries lost on restart | an event is delivered or counted as failed |
| Mailboxes, connected accounts, calendar, contacts, domains, inbound mail | mostly one row per request, sync cursors | adapters to IMAP, Gmail, Graph, CalDAV, DNS | external services | cursor vs failure | nothing imported twice or left out |
| Iyzico billing | same billing row as Stripe | callback | subscription lifecycle | as there | as there |
| Authentication | users, one-time tokens, TOTP, WebAuthn challenges | login, verify, reset | outbox | one-time use | a token is used once |
| Freight search, listings, plans, fleet records, trust score, administration, localization, panel, ekolojik market | rows written once, static tables, pure reads | | | none of note | |
| Clients (but the page in a call), infrastructure, scripts, `core`, `archive`, `data` | | | | no protocol of their own | |

How they meet: a closed session (auction) is what the transport module confirms;
confirmation and every other part hand mail to the outbox; the outbox asks the
suspension that the subscription lifecycle sets; delayed sends and campaigns
share one timer; a telemetry batch asks the route jobs for a window. The models
keep these boundaries: each takes its neighbour's rows as given.

## 2. What is modelled

Conventions in all modules. A handler is a record in `req[r]`: where it stands
(`pc`, or in `MailBilling` the list of calls it has still to make) and the
entities it holds in memory. One action is one awaited call with the code up to
the next await. What the *logic* of the handlers promises is separated from what
survives *interleaving*: `AuctionSession`, `TransportTrust`, `MailBilling` and
`EmailOutbox` have a variable `serial` that never changes (a behaviour lets one
handler run at a time, or it does not; `MailBilling` likewise has `inOrder` for
the events), the others count in `spent.overlaps` the handlers begun while
another is in flight, and a property says which of the two it is about. The clock, the tables and the failures are bounded by constants named
`Max...`, or by a record of bounds chosen from the constant `Limits`. A
definition whose name carries an underscore suffix (`Known_Waiting`,
`WinnerId_Bidder`) is a slip the code could contain; the properties are validated
by putting it in the place of the definition it is named after.

| module | models | state ↔ code |
|---|---|---|
| `AuctionSession` | auction services | `session`, `bids` the two tables; `confirmAsked` the notifications of finalizeSession; `now` |
| `AuctionContract` | what an auction promises, each promise one atomic step | auctions, offers, clock; no handlers |
| `AuctionRefinement` | the refinement mapping of `AuctionSession` to `AuctionContract`, and that handlers one at a time keep the contract | |
| `TransportTrust` | transport confirmation, invites, reviews, reminder | `row` the transport columns of one session, `invite`, `review`; `stored` is a history variable: whose confirmation was ever saved |
| `MeetingRoom` | the room of one thread and the pages in it | `room`, `member`, `list` the Redis keys with their expiry; `client` what a page holds; `log`, `heard` histories |
| `MailBilling` | subscription lifecycle, suspension, plan, grace timer | `billing`, `operator`, `plans` the rows; `stripe`, `events` the external side |
| `EmailOutbox` | outbox of one recipient | `outbox` the rows, `suppressed`; `delivered` counts what the mail server took |
| `DelayedCompose` | delayed sends of one user | `rows`, `drafts` the tables; `delivered`, `withdrawn` histories |
| `MailCampaigns` | campaigns of one organization | `rows` with their `payload`; `ran`, `sentText`, `confirmed`, `reminders`, `withdrawn` histories |
| `SocialPosts` | posts of one company | `posts`, `settings`; `posted`, `went` what the channels took; `cleared`, `withdrawn` histories |
| `Telemetry` | devices, consent and the motion interpreter of one driver | `devices`, `events`, `consent` the tables; `drive` what the phone has sent |
| `RouteJobs` | matching jobs of one driver | `queue` in memory, `jobs` the table; `tries` history |
| `TransportAndRooms`, `CampaignsAndPosts`, `Telematics` | `TransportTrust` and `MeetingRoom`, `MailCampaigns` and `SocialPosts`, `Telemetry` and `RouteJobs`, each pair side by side | `part`: which half moves |
| `MC*` | values for the constants; bounds of the regimes | |
| `*_proofs` | theorems | |

### AuctionSession

`PlaceBidRead` (reads and validation) → `PlaceBidSave` → `PlaceBidExtend`; the
sweep `SweepSelect` → for each overdue session `FinalizeRead` → `FinalizePick` →
`FinalizeSave`; `AcceptRead` → `AcceptCreate` → `AcceptBid`, which goes on to
finalize; `CreateSession`. `Fail` lets the pending call throw. `PlaceBidExtend`
includes TypeORM's treatment of the loaded `bids` relation: saving a session
whose relation lacks a bid that has been inserted since would set that bid's
session to null, which the NOT NULL column refuses (`RelationSaves`). Amounts
are a small set of numbers: only order and distance matter. One listing is
modelled; sessions of two listings share no row.

### TransportTrust

`ConfirmRead` → `ConfirmStamp` → `ConfirmSave` → `CompleteSave` →
(`FindInvite` → `InsertInvite`) twice; `RemindSession` → `RemindSave` →
`RemindInvites` → `RemindInviteSave`; `DismissRead` → `DismissSave`; `ReviewRead`
→ `ReviewInsert` → `ReviewFulfil`. The delivery note and the review's score are
left out: nothing depends on them.

### MeetingRoom

`Join` → `Count` → `Add`; `Leave` → `Remove`; `Look` → `List` → for each member
`Get` → `Prune` when the key has expired; `Post` with its trimming (one MULTI
block); `Poll` → `ListSignals` → `Process` on the page; `Close` is a page that
goes away without leaving, `CallThrows` a request that fails. A Redis command or
MULTI block is one step. Keys expire with the clock (`Live`,
`Members`, `Kept`): that is how
members vanish. A page keeps the last signal it has processed and the ones it
has seen, and its interval may have two polls in flight. Only the page of
somebody in the call is modelled; an idle page, which polls for invitations, and
the mobile client are described under observations.

### MailBilling

The methods call each other, so a handler is a *list* of calls
(`<<"active", "save">> \o ...`), and each definition such as `InvoicePaid`,
`Downgrade`, `Assign` is the list its method makes. `outer` and `inner` are the
entities of the calling and the called method: `applyStripeSubscriptionEvent`
holds one while `recordStripePaymentFailed` reads and saves another. Stripe's
subscription moves by itself (`Checkout`, `PaymentFails`, `PaymentRecovers`,
`SubscriptionEnds`) and queues the events the endpoint is subscribed to; an event
whose handler throws stays queued.

### EmailOutbox

`Enqueue` → `CheckSuppression` → `Insert` → processById; `Drain` (the list) →
`Take` → processById → `Count` on failure; `Retry` → `Find` → `Mark` →
processById; `Open` → `SaveOpen`. processById is `Read` → `SendAccepted` or
`SendRefused` → `SaveSent`, or `SaveFailed` → `BounceRead` → `BounceSave` →
`Suppress`. `CallThrows` and `TakeThrows` let the pending call throw and follow
the try blocks of the code; `Crash` ends all handlers at once. Bounce classes
are two: hard (hard, spam) and soft (the others). `delivered` stops at 2, "twice
or more". Not modelled: suppression entries added or removed by hand, the list
per organization, counters of openings.

### DelayedCompose

`Schedule`, `Cancel` (one conditional update), `DeleteDraft`; `Drain` (the list)
→ `Look` → for a draft `Fetch` → `SendAccepted` or `SendRefused` → `Store` →
`Discard` → `Settle` or `Fail`, each a conditional update on the status
`pending`. `Thrown` follows the try block: what throws inside it ends in `Fail`.

### MailCampaigns

`SaveDraft`, `SendDraft`, `Create`, `Clone`, `Resend`, `ResendFailed` lead to
`DeleteDraft` and `LookUp` → `Insert`; `Tags`, `Content`, `CancelScheduled`,
`Reschedule` read the row and lead to a `Write...`; `DrainScheduled` (the list) →
`Look` → `Claim` → `Send` or `Refuse` → `Complete` or `Fail`; `DrainReminders` →
`WriteReminder`. Text, tags, reference and reminder are one JSON column,
`payload`: whoever changes one writes back all.

### SocialPosts

A call of a user reads a post, changes the entity and goes to `Save` or `Delete`;
`PublishPost` and each post of a `Tick` go through `Begin` (the save of
`PUBLISHING`), one `Accepted` or `Refused` per channel, and `End`. The tick keeps
the entities of its list (`list`) and takes the next whatever has become of the
last (`GoesOn`), also when it throws. Settings and the channels of a post stay as
they are; the texts of errors and the times of approval are left out, for nothing
decides on them.

### Telemetry and RouteJobs

`Telemetry`: the guard reads the device (`Ingest`), the interpreter works on that
entity sample by sample (`Interpret`), the derived rows are saved (`SaveEvents`),
then the whole device (`SaveDevice`). `Grant` and `Revoke` lead to `SaveConsent`
and `Log`, `Enroll` to `SaveOthers` → `Insert` → `Log`. The
interpreter (trip start and end, stops, idling, engine idling, speeding with its
cool-down) is one operator, `DriveIsNoted` compares what it noted with a
definition over the whole drive. Positions, distances and scores are left out,
speeds are four classes. `RouteJobs`: `Wish` puts a window into the queue; a `Tick`
takes all windows, then per window `Find` → `Insert`, then `List` and per job
`Take` → `Work` or `WorkThrows` → `Finish`; `Call` is the carrier's screen, which
queues one window without the timer. What OSRM answers is: it answers, or it
throws.

## 3. The runs

Seven runs that pass, one per component or pair of components that share no row,
and five that show a finding. Two components that share a run stand *side by side*
in a module of their own (`TransportAndRooms`, `CampaignsAndPosts`, `Telematics`):
a behaviour moves one of them (`part`), the other stays in its initial state, so
the run is the sum of the two state spaces and not their product. The theorems
are about the same specification.

| run | question | bounds | states |
|---|---|---|---|
| `AuctionSession` | serial: do the handlers implement `AuctionContract`? overlapping: are winners bidders, is every overdue session closed? | serial: 2 sessions, 3 bids, 1 request and the sweep. Overlapping: 1 session, 2 bids, 2 requests and the sweep. 2 bidders, 3 amounts, clock to 3, 1 failure | 931 000 |
| `AuctionSession_lateBid` (violated) | does the lowest bid win? | no failures | |
| `TransportAndRooms` | serial: are confirmations kept and honoured? overlapping: is a completion agreed, are invites earned and reminded of? room: does its capacity hold, is no signal passed over? | serial: clock to 5, 2 reviews. Overlapping: clock to 3, 1 review. 1 failure. Room: six small instances, capacity 2 with 3 users, expiry after 2, a list of 3 signals | 1 650 000 |
| `TransportAndRooms_lostConfirmation` (violated) | is a saved confirmation kept? | two requests, no failures | |
| `MailBilling` | serial: do row, plan and suspension follow the subscription? overlapping: does a grace end? | serial: 4 moves, 2 console requests, operator. Overlapping: 3 moves, events in any order, 1 failure and redelivery | 1 500 000 |
| `MailBilling_graceErased` (violated) | does a failed payment start a grace with the events of the guide? | serial, in order | |
| `EmailOutbox` | serial: is a mail sent once under one key, and a recipient refused for good suppressed? overlapping: is `sent` true, is every mail delivered? | serial: 3 rows and keys, 3 refusals, 2 retries. Overlapping: 1 row, timer and request, 1 refusal, 1 retry. 1 failure or crash | 586 000 |
| `DelayedCompose` | is a due send settled, once and truthfully, and a withdrawn one unsent? | 2 rows, 2 drains with 1 overlap, 1 refusal, 1 deleted draft, 1 failure or crash, clock to 2 | 1 017 000 |
| `CampaignsAndPosts` | does a campaign run once, as edited, when due, and not when withdrawn? do approvals hold, is a withdrawn post gone, can a status be believed? | campaigns: 2 rows, 2 calls, 1 overlap, 1 refusal, 1 failure, clock to 3. Posts: 1 or 2, up to 5 calls, 1 refusal and failure or 1 overlap | 752 000 |
| `CampaignsAndPosts_lostDraft` (violated) | does a draft that is sent become a campaign? | the same bounds | |
| `Telematics` | do the derived rows depend on the drive only, was every trip started, does a revocation stay? do jobs end, is a wish met? | drive: 4 samples in 3 batches, or 3 calls, or 2 batches with 1 overlap and failure. Jobs: 2 windows, 3 jobs, 2 attempts, 2 errors, 1 restart, 1 overlap | 1 005 000 |
| `Telematics_revoked` (violated) | does no batch switch a revoked device on again? | the same bounds | |

**Why these bounds.** The interesting cases need two rivals and a revision
(auction: two bidders, three amounts with step 1 give step, ceiling, tie and
revision), a deadline that passes before and after an extension (clock 3 with
durations 2 and extension 1), both parties (transport: there are only two), a
payment that fails, recovers and fails or ends (three or four moves), a drain
list with a row that has been cut off by the batch (three rows, batch of two) or
goes stale while the first is worked on (two rows or posts), a member that expires
while the room is looked at (expiry 2, clock 3), a signal trimmed before it is
read (list of 3, five signals), a drive with start, stop, idling and end (four
samples with gaps 1 and 2), a job given back and taken up behind another. The
retry limit of 8 is 2, the three attempts are 2, the grace of days is 1 tick. One
failure and one overlap are enough for the hazards listed, because each is about
*what was done before* it; the proofs have no such bound. That each bound lets
its case happen was checked by dropping the qualifier of a property and looking
for the violation (two drains do send twice, the room does overflow by one per
overlap, a listed post does go out after its cancellation).

**Regimes.** Whether handlers run one at a time is chosen at the start (`serial`),
so one run has behaviours of both kinds, and a theorem about the serial ones is
about the same specification as one about all. The MC modules bound the two
differently, in `MCNext`: overlapping handlers get a shorter clock and fewer
requests. A property named `...Serially` or `...Overlapping` is about one of the
two; the others hold in both.

**Deadlock** is checked in the auction, which has an explicit `Quiescent` step for
the end of the bounded clock, and in its finding run. The other cfgs switch it off,
each with a comment: when the bounds are used up there is nothing left to do.

**Symmetry** sets are not used, because the runs check liveness. Where ids are
interchangeable an explicit `Ordered` conjunct takes them in a fixed order.

**Fairness.** `WF(Step(r))` for every handler: an awaited call returns or throws,
and the event loop resumes the handler. Weak fairness of the timer's first
action (`SweepSelect`, `RemindSession`, `ExpireGrace`, the drains of outbox,
delayed compose and campaigns, the tick of the route jobs): `setInterval` fires
for as long as the process lives, and after a restart `onModuleInit` sets it
again. Nothing else is fair: nobody has to bid, confirm, pay, retry, join or
signal. `Fail`, `CallThrows` and `Crash` are never fair and bounded in number.
Strong fairness is not used. `MeetingRoom`, `SocialPosts` and `Telemetry` are
checked for safety only.

**Liveness checked.** `OverdueClosesOverlapping` (an overdue session does not stay
open for good), `EveryInviteRemindedOverlapping`, `GraceEndsOverlapping`,
`EveryMailDeliveredOverlapping` (a queued mail reaches the server, or was refused
as often as the drain tries), `DueIsSettled` (a due send is sent, failed or
cancelled), `DueIsTakenUp` (a due campaign), `WishIsMet` (a window asked for has
its job, and its jobs come to an end unless the process does).

## 4. The proofs

For every set of handlers, companies, rows, users, posts and samples, every bound
and every overlap. Each file proves an inductive invariant (one lemma per action),
called `IInv` and, where a theorem needs more, `...Inv`, and derives the theorems
from it. The theorems about a pair of components are about the specification that
sets them side by side.

| theorem | says | why the invariant is stronger |
|---|---|---|
| `TypeCorrect` of seven files | `Spec => []TypeOK` (`BothSpec => []BothTypeOK`) | |
| *AuctionSession_proofs* | | |
| `OpenSessionsHaveNoWinner` | an open session has no winner | every save writes `statusCode` and `winningBidId` from one entity; the entity in memory was open and without a winner when read (`EntityWasOpen`) |
| `WinnersAreBidders` | a winner, or whoever is told so, holds a bid there and is not the owner | a picked bid stays in its session (`PickedWinner`), bids never change session (`TablesGrow`) |
| `CeilingHolds` | no bid of a reverse auction is above its ceiling | the ceiling of the entity is that of the row, since terms never change; a pending bid keeps to it (`PendingBid`) |
| `WinnerIsLowest` | with handlers one at a time, a closed session is won by its lowest bid, the earlier of two equal ones | at most one handler is in flight (`Sole`), so that the entity, the winner and the bids it has read are those of the tables (`InHand`) |
| `ImplementsContract` | with handlers one at a time, they implement `AuctionContract` (refinement mapping in `AuctionRefinement`) | the same invariant, and no company has two bids in a reverse auction (`OneBidEach`): placeBid compares with the company's latest bid, the contract with all of them |
| *TransportAndRooms_proofs* | | |
| `CompletionIsAgreed` | a completion has both confirmations and the later one's time and side | entities in memory are as sound as the row (`Sound`), so saving them late does no harm |
| `InvitesFollowConfirmations` | no invite before both confirmations were saved | the confirmations an entity carries are in the history `stored`, but for the one about to be saved (`Backed`) |
| `ConfirmationsCount` | with handlers one at a time, a saved confirmation stays in the row whatever throws, and, unless a call throws, two of them end in a completion and two invites | the entity of the one handler in flight has every saved confirmation (`Keeps`); where the handler that has brought the second one is, and whom it has still to invite (`Honours`) |
| `RoomCapacity` | whoever is in the room is counted, and it holds no more than its capacity and one more per overlap | a count of who has been let in but not yet added, who is in, and who has expired: each overlap can add one to it (`TInv`, `CInv`, `GInv`) |
| `SignalsInTurn` | nobody processes a signal before an earlier one that is for him, unless he is behind by more than a poll returns | what a page has heard, with what its polls in flight carry, has no gap (`Gapless`); gapless sets are closed under union, so polls may answer in any order |
| *MailBilling_proofs* | | |
| `GraceKeepsItsDeadline` | a row in grace has an end | both entities of a handler have one too |
| `OperatorSuspensionStands` | with handlers one at a time, a suspension that bears the operator's reason is lifted by his own request only | a save of the operator's row is the next call of its handler or none, and a handler of an event that is about to lift has found that the reason is the billing's (`OInv`) |
| `SubscriptionIsFollowed` | with every event subscribed to, handlers one at a time, events in their turn and no call throwing, rows, plan and suspension have followed the subscription whenever the last event is handled | the queue tells how far the rows may be behind: the event that repairs them for the present status (`Cure`) is queued behind whatever says otherwise (`InTurn`). While it is queued nothing is said of the rows; once it is handled, nothing the handler holds, has in memory or has still to call is against the status (`Harmless`), and it is about to mend what is not yet right (`Mended`) |
| *EmailOutbox_proofs* | | |
| `SentIsTrue` | a row says sent only if the mail server took its message | entities in memory say so only truthfully (`Sound`), and the entity around processById never says sent |
| `SentUnderOneKey` | with handlers one at a time and nothing failing, what is queued under one key is sent once, and a recipient refused for good ends in the suppression list | what the one handler in flight knows at each await (`Steady`): its row is not sent, no other has its key, its list and its entities are those of the rows; no entity tells of a hard bounce not yet suppressed (`Careful`) |
| *DelayedCompose_proofs* | | |
| `SentIsTrue` | the same of delayed sends | a drain past the sending has delivered its row |
| `WithdrawnStaysUnsent` | a send cancelled while no drain was at it stays unsent | a cancelled row stays cancelled, and no drain past its look is at a withdrawn row |
| `SentOnlyOnce` | drains that neither overlap nor fail send a message, and a draft, once | one drain or none is at work (`Alone`), its row has not left before it sends (`InHand`), and the draft of a message that has left is gone once its deletion is past, so no second row finds it (`TwoRows`) |
| *CampaignsAndPosts_proofs* | | |
| `CancelledIsKept` | a campaign cancelled while no drain is at it is never sent | statuses move one way only (`Becomes`, `Follows`); a handler past its claim is at a campaign no longer scheduled |
| `RunningHeld` | a scheduled campaign that says running is in a handler's hands, unless a call has failed | the claim and the handler's place in the code change together |
| `RunOnlyOnce` | handlers that do not overlap run a campaign once, with one reminder, and schedule a reference once, whatever throws | only one handler is at work, and what it has read is still what the row says (`InHand`) |
| `EditsAreSent` | likewise, the text that goes out is the last one confirmed | the same invariant: the edit writes back the row it has read |
| `ApprovalsHold` | a post that goes out was let through by somebody with the right to, where an approval is asked for | every copy in memory carries the approval of its row, however late it is saved; without overlap copies equal rows |
| `WithdrawnPostsStay` | a post withdrawn while nobody else has it in memory neither goes out nor comes back | no handler's entity or list has a withdrawn post |
| `StatusesAreTrue` | PUBLISHING is held by a handler, PUBLISHED is on all channels, without overlap in its words and once | what has been posted of a copy is as far as its handler has come, and PUBLISHED is written after the last channel only |
| *Telematics_proofs* | | |
| `TripsStarted` | the trip a device is on, or a row says has ended, has its TripStart among the rows | what an entity knows of a trip is covered by the stored rows together with those its batch still carries |
| `AttemptsComeToAnEnd` | a running job is in a tick's hands as long as the process lives, and is begun within the limit unless ticks overlap | a running job is held by the handler that saved it so; without overlap and failure the listed rows equal the table's (`Apart`) |
| *TelematicsDrive_proofs* | | |
| `DrivesAreNoted` | with calls that neither overlap nor fail, the rows of a drive are those of the whole, however it is cut into batches | the motion a device keeps sums up the drive so far (`Knows`), and every row noted is true of it and says all there is (`TrueOf`, `Tells`): one sample more is all the definition over the whole drive needs |
| `RevocationsAreKept` | likewise, no device is on after a revocation | with one call at a time the entities it has read are the rows |

**How the arguments go.** The theorems that hold under every interleaving rest on
an invariant of *each copy*: whatever a handler has in memory is such that it may
be saved at any time. Those about handlers one at a time rest on one of *place*:
at most one handler is in flight, and at each await it is said what it knows of
the tables. `AuctionSession_proofs` derives from the well-foundedness of `<` that
a non-empty set of naturals has a least, and a bounded one a greatest element
(`LeastNatural`, `GreatestNatural`): what `BestBid` and `OwnBid` rest on, and
`SignalsInTurn` likewise. The room's capacity is an argument about cardinalities,
so `RoomAssumption` has the sets of users and requests finite.

**Assumptions** are the named ASSUMEs of the modules (that the owner is a company,
the timer a handler, that bounds and thresholds are natural numbers); TLC evaluates
them on the runs. Three theorems need more of the constants and have it as a
hypothesis. `SubscriptionIsFollowed`: the webhook endpoint is subscribed to all
four events (`AllSubscribed`); the set-up guide lists only three
(`MailBilling_graceErased` shows what happens then). The two of
`TelematicsDrive_proofs`: no two samples of a device bear the same time
(`Distinct`), for a row names its sample by nothing else. `PriceCeiling` and `GraceHasDeadline`, what `CeilingHolds` and
`GraceKeepsItsDeadline` state, and `WinnerIsBest` with handlers one at a time, are
not repeated as properties of a passing run.

**Only model-checked.** What rests on fairness, which is out of the proof
system's reach: the liveness properties of section 3. Every safety property of a
passing run, invariant or action property, has its theorem.

## 5. Findings

Violations that contradict something the repository says of itself, each with a
run whose counterexample shows it.

1. **A late bid in a closed session** (`AuctionSession_lateBid`). placeBid does
   not ask again whether the session is open before it stores the bid: the
   lowest bid of a closed session need not be the winner.
2. **A lost confirmation** (`TransportAndRooms_lostConfirmation`). Owner and
   carrier confirm at once; the later save sets the other side's time back to
   null.
3. **An erased grace** (`MailBilling_graceErased`).
   applyStripeSubscriptionEvent saves the row it read *before*
   recordStripePaymentFailed stored the grace. Only `invoice.payment_failed`
   brings it back, which the cut-over guide does not subscribe to.
4. **A lost draft** (`CampaignsAndPosts_lostDraft`). sendDraft deletes the draft
   before the time and the reference of the campaign are checked: a refused call
   leaves neither.
5. **A revocation undone** (`Telematics_revoked`). A batch in flight saves the
   whole device it read before the driver revoked his consent: the tracking is on
   again.

Also observed while modelling, and contradicted by no document (but where one is
named):

* *Auctions.* Overlapping bids are stored less than a step apart, or equal; a bid
  sent twice gives two rows; two acceptances of a listing open two sessions. The
  first bid of a company in the last minutes is stored, then the save that should
  prolong the session throws: the caller gets an error and the deadline stays.
* *Reviews.* Overlapping first reviews give two rows; a fulfilled invite is
  forgotten by a dismissal or reminder that saves what it read before.
* *Meeting rooms.* Overlapping joins exceed the capacity. A member's key expires
  after two hours without a heartbeat, so the members of a long call vanish and
  others may join beyond three (docs/messaging/WEBRTC-MEET-FAZ15.md:7 says at
  most three); members who have expired but have not been pruned still count and
  keep newcomers out until somebody looks. A leaveRoom that arrives late takes
  out one who has rejoined; one who rejoins is handed the last signals of the old
  call again. An idle page may skip ICE candidates that lie between an offer and a
  later invitation. The mobile client keeps no set of seen signals and processes
  those of overlapping polls twice.
* *Billing.* A billing suspension on top of the operator's takes over its reason,
  so that the next payment lifts what the operator ordered; the grace timer's
  stale list can suspend an organization that has paid in between. Two
  overlapping assignments leave two active plans.
* *Outbox.* It never gives up: `drainQueue` stores the count of failures together
  with the status `pending` of the entity it read before
  (`EmailOutboxService.ts:369`), so the limit of line 357, which asks for
  `failed`, is not met; the same save erases the error and the bounce class, and
  a row refused for good is queued again although its recipient is suppressed.
  As a drain takes the 25 oldest rows, 25 such rows keep later failed mail from
  being retried. A crash, a failing save or two overlapping drains send a mail
  twice.
* *Delayed compose.* Overlapping drains send twice; a cancellation between the
  drain's look and its settling is confirmed though the mail goes out; a draft
  whose deletion fails after the sending is reported failed.
* *Campaigns.* Overlapping drains run a campaign twice; tags and reminders write
  the payload they read and undo an edit made meanwhile; the save of a draft that
  has been deleted inserts it again; two creates with one reference in flight both
  insert; a clone made with a known reference returns its source; an immediate
  campaign refused by sendCampaign, and any campaign whose process ended, stays
  `running` for good.
* *Social posts.* A text edited after the approval goes out without a new one,
  though the page says "Onay gerekli — sahip veya sosyal yönetici onaylar."
  (apps/web/src/components/social/SocialHubPanels.tsx:1104). A post approved
  after its time has passed becomes `APPROVED` and no tick publishes it. A channel
  whose call throws, or a restart, leaves a post `PUBLISHING` for good: it cannot
  be edited, cancelled or published. A post refused by one channel and published
  again goes to the others twice. The tick publishes its list as read: a post
  cancelled, deleted or edited meanwhile goes out as it was, and overlapping ticks
  publish it twice. A post stored without a channel throws at every tick and stays
  in the list; twenty of them keep all other posts from being published.
* *Telematics.* Moving off clears the idling without an `IdleEnd`;
  `stopDurationSeconds` is always null; a grant after a revocation finds no active
  device and logs GRANT while the tracking stays off (docs/FLEET_DOMAIN.md:49);
  overlapping enrolments leave two active devices; `ingestBatchId` is never
  compared, and a process that ends between rows and device notes a trip twice.
* *Route jobs.* Windows are instants in milliseconds, so the look-up for a pending
  job practically never finds one; with `REDIS_URL` set nothing consumes the list;
  a job is done also when OSRM has no route; a tick that throws outside its try
  block ends the process; running jobs are not taken up after a restart.

## 6. What is not modelled

Adapters (IMAP, Gmail, Graph, CalDAV, DNS, social networks, OSRM), parsing and
rendering, authorisation beyond the approval of posts, reads, static tables,
clients and deployment. They are the bulk of the repository's lines: screens,
controllers, mappers and adapters whose requests read or write one row. The
models cover the services in which the order of several calls decides.

Inside the modelled components: messenger price offers (they write messaging rows
only), the iyzico callback, privacy erasure, creation races of the findOrCreate
methods, the reminder's batch of 50, several recipients; suppression entries
added or removed by hand; recipients of a campaign one by one (one sending);
changes of a company's social settings and of a post's channels; the idle page of
a room and the mobile client; positions, distances and driving scores. Redis and
database failures other than "the call throws" are not modelled: a call whose
effect takes place *and* which throws is left out.

## 7. The plan

The plan of the first version (delayed compose with campaigns, route jobs, rooms,
the motion interpreter against a reference, publication of posts) is carried out.
What is left, most important first:

1. The send rate with the compose paths that call it, the retries of webhooks, the
   one-time tokens of verification and password reset, the sync cursors of
   connected accounts, the iyzico callback as a second source of events in
   `MailBilling`.
2. Composition: closed session → confirmation → outbox; suspension → outbox.

## 8. How to run it

    tlc -config AuctionSession.cfg MCAuctionSession
    tlc -config CampaignsAndPosts.cfg MCCampaignsAndPosts
    tlapm AuctionSession_proofs.tla

A `.cfg` is named after its MC module without the `MC`; a suffix after an
underscore names the finding. The passing runs take between one and three minutes
with two workers, the finding runs seconds, the proofs up to a few minutes a file.
