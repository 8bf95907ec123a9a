--------------------------- MODULE AuctionSession ---------------------------
(***************************************************************************)
(* The freight auctions of apps/api/src/modules/auction: opening a         *)
(* session, bidding, the extension of the deadline, the sweep that closes  *)
(* overdue sessions and the acceptance of a listing's fixed price.         *)
(*                                                                         *)
(* The handlers run on one event loop over a database without              *)
(* transactions or row locks: every `await` of a repository call is a      *)
(* point where other handlers run.  A handler is therefore a sequence of   *)
(* actions, one for each call, and a request in flight keeps the entity    *)
(* it has read.  Repository.save(entity) writes that entity's columns      *)
(* back whatever the row has become in the meantime.                       *)
(*                                                                         *)
(* The sessions are those of ONE listing, whose owner is Owner: sessions   *)
(* of two listings share no row.                                           *)
(***************************************************************************)
EXTENDS Integers, Sequences, FiniteSets

CONSTANTS
  Company,        \* companies; all may bid but Owner
  Owner,          \* the company that owns the listing
  SessionId,      \* ids the session table may hand out (bounds the sessions)
  Request,        \* handlers that may be in flight at once
  Sweeper,        \* the handler of the 60 s timer, one of Request
  Amount,         \* amounts that may be bid or asked, in cents
  AskedPrice,     \* minimumBidAmount a session may be opened with
  ListingPrice,   \* FreightListingEntity.priceAmount
  BidStep,        \* AuctionSessionEntity.bidStepAmount
  Duration,       \* durations a session may be opened for, in ticks
  ExtendTerms,    \* pairs <<autoExtendMinutes, autoExtendWindowMinutes>>
  FixedDuration,  \* the 72 hours of a session opened by an acceptance
  MaxTime,        \* bound of the clock
  MaxBids,        \* bound of the bid table
  MaxFailures,    \* bound of the repository calls that throw
  NoSession, NoCompany

ASSUME CompanyAssumption == Owner \in Company /\ NoCompany \notin Company
ASSUME SessionAssumption == NoSession \notin SessionId
ASSUME RequestAssumption == Sweeper \in Request
ASSUME AmountAssumption == 
  Amount \subseteq Nat /\ AskedPrice \subseteq Amount /\ ListingPrice \in Amount
ASSUME TermAssumption ==
  /\ BidStep \in Nat /\ Duration \subseteq Nat /\ FixedDuration \in Nat
  /\ ExtendTerms \subseteq Nat \X Nat
ASSUME BoundAssumption == MaxTime \in Nat /\ MaxBids \in Nat /\ MaxFailures \in Nat

VARIABLES
  session,      \* table auction_sessions, by id
  bids,         \* table auction_bids in the order of createdAt; id = position
  req,          \* the handlers in flight and what they hold in memory
  now,          \* Date.now()
  confirmAsked, \* <<session, bid>>: the bidder was told it won (notification)
  failures,     \* how many repository calls have thrown
  serial        \* whether, in this behaviour, a handler starts only when none is in flight

moving == <<session, bids, req, now, confirmAsked, failures>>
vars == <<moving, serial>>

-----------------------------------------------------------------------------
(* Rows and handlers *)

NoBid == 0
BidId == Nat

Row == [statusCode : {"ABSENT", "OPEN", "CLOSED"},
        auctionTypeCode : {"REVERSE_OPEN", "FIXED_ACCEPT"},
        minimumBidAmount : Amount,
        endsAt : Nat,
        autoExtendMinutes : Nat,
        autoExtendWindowMinutes : Nat,
        winningBidId : BidId]

NewRow(type, price, end, terms) ==
  [statusCode |-> "OPEN", auctionTypeCode |-> type, minimumBidAmount |-> price,
   endsAt |-> end, autoExtendMinutes |-> terms[1],
   autoExtendWindowMinutes |-> terms[2], winningBidId |-> NoBid]

AbsentRow == [NewRow("REVERSE_OPEN", ListingPrice, 0, <<0, 0>>)
                EXCEPT !.statusCode = "ABSENT"]

BidRow == [session : SessionId, bidder : Company, amount : Amount]

(* pc names the call the handler is waiting for. *)
Handler == [pc : {"idle", "saveBid", "extend", "finRead", "finPick", "finSave",
                  "accCreate", "accBid"},
            company : Company \union {NoCompany},
            session : SessionId \union {NoSession},
            row : Row,                \* the session entity it has read
            known : SUBSET BidId,     \* ids in the entity's bids relation
            bid : BidId,              \* own bid (placeBid), winner (finalize)
            amount : Amount,
            queue : SUBSET SessionId] \* sessions still to be finalized

Idle == [pc |-> "idle", company |-> NoCompany, session |-> NoSession,
         row |-> AbsentRow, known |-> {}, bid |-> NoBid,
         amount |-> ListingPrice, queue |-> {}]

TypeOK ==
  /\ session \in [SessionId -> Row]
  /\ bids \in Seq(BidRow)
  /\ req \in [Request -> Handler]
  /\ now \in Nat
  /\ confirmAsked \subseteq SessionId \X BidId
  /\ failures \in Nat

Init ==
  /\ session = [s \in SessionId |-> AbsentRow]
  /\ bids = << >>
  /\ req = [r \in Request |-> Idle]
  /\ now = 0
  /\ confirmAsked = {}
  /\ failures = 0
  /\ serial \in BOOLEAN

-----------------------------------------------------------------------------
(* Queries *)

IsOpen(s) == session[s].statusCode = "OPEN"

(* closeAllExpiredOpenSessions' WHERE. *)
Overdue(s) == IsOpen(s) /\ session[s].endsAt < now

(* placeBid's guards on the session.  A slip forgets the status. *)
TakesBids_Closed(row) == row.statusCode # "ABSENT" /\ now <= row.endsAt
TakesBids(row) == row.statusCode = "OPEN" /\ now <= row.endsAt

(* The owner neither bids nor accepts.  A slip lets everybody. *)
MayBid_Anybody(c) == c \in Company
MayBid(c) == c # Owner

BidsOf(s) == {b \in 1 .. Len(bids) : bids[b].session = s}

(* findCompanyBid: the company's latest bid among B, or NoBid. *)
OwnBid(B, c) ==
  LET own == {b \in B : bids[b].bidder = c}
  IN  IF own = {} THEN NoBid ELSE CHOOSE b \in own : \A o \in own : o <= b

(* Ascending amount, then createdAt: the ORDER BY of finalizeSession and   *)
(* the sort of rankReverseBids.                                            *)
Precedes(b, o) ==
  \/ bids[b].amount < bids[o].amount
  \/ bids[b].amount = bids[o].amount /\ b <= o

IsBest(b, B) == b \in B /\ \A o \in B : Precedes(b, o)

BestBid(s) == IF BidsOf(s) = {} THEN NoBid
              ELSE CHOOSE b \in BidsOf(s) : IsBest(b, BidsOf(s))

(* validateReverseBidAmount *)
ValidReverseBid(row, B, c, amount) ==
  LET others == {b \in B : bids[b].bidder # c}
      own == OwnBid(B, c)
  IN  IF others = {}
      THEN amount <= row.minimumBidAmount
      ELSE /\ \A o \in others : amount <= bids[o].amount - BidStep
           /\ own # NoBid => amount < bids[own].amount

(* validateBidForSession *)
ValidBid(row, B, c, amount) ==
  IF row.auctionTypeCode = "FIXED_ACCEPT"
  THEN amount = row.minimumBidAmount
  ELSE ValidReverseBid(row, B, c, amount)

(* Saving a session entity whose bids relation is loaded detaches the rows *)
(* that are missing from it (their auctionSessionId is set to null).  The  *)
(* column is NOT NULL, so the save throws when there is such a row.        *)
RelationSaves(s, known) == BidsOf(s) \subseteq known

InFlight(r) == req[r].pc # "idle"
MayStart(r) == ~InFlight(r) /\ (serial => \A o \in Request : ~InFlight(o))

(* Room for one more row, counting the handlers that will insert one. *)
Inserting == {r \in Request : \/ req[r].pc \in {"accCreate", "accBid"}
                              \/ req[r].pc = "saveBid" /\ req[r].bid = NoBid}
Creating == {r \in Request : req[r].pc = "accCreate"}
Absent == {s \in SessionId : session[s].statusCode = "ABSENT"}

RoomForBid == Len(bids) + Cardinality(Inserting) < MaxBids
RoomForSession == Cardinality(Creating) < Cardinality(Absent)

-----------------------------------------------------------------------------
(* createSession: one insert.  Nothing asks whether another session of the *)
(* listing is open.                                                        *)
CreateSession(s, type, price, d, terms) ==
  /\ serial => \A o \in Request : ~InFlight(o)
  /\ RoomForSession /\ session[s].statusCode = "ABSENT"
  /\ session' = [session EXCEPT ![s] = NewRow(type, price, now + d, terms)]
  /\ UNCHANGED <<bids, req, now, confirmAsked, failures>>

(* placeBid up to its first write: the session and its bids are read, the  *)
(* bid is validated against what was read.                                 *)
PlaceBidRead(r, c, s, amount) ==
  LET row == session[s]
      B == BidsOf(s)
      own == OwnBid(B, c)
  IN  /\ MayStart(r) /\ r # Sweeper
      /\ TakesBids(row) /\ MayBid(c)
      /\ ValidBid(row, B, c, amount)
      /\ own = NoBid => RoomForBid
      /\ req' = [req EXCEPT ![r] =
           [Idle EXCEPT !.pc = "saveBid", !.company = c, !.session = s, !.row = row,
                        !.known = B, !.bid = own, !.amount = amount]]
      /\ UNCHANGED <<session, bids, now, confirmAsked, failures>>

InExtendWindow(row) ==
  /\ row.autoExtendMinutes > 0 /\ row.autoExtendWindowMinutes > 0
  /\ row.endsAt > now /\ row.endsAt - now <= row.autoExtendWindowMinutes

(* The prolonged deadline. *)
Prolonged(row) == row.endsAt + row.autoExtendMinutes

(* placeBid: the company's bid is revised in place or a new row inserted;  *)
(* the deadline that was read decides whether the session is prolonged.    *)
PlaceBidSave(r) ==
  LET h == req[r]
  IN  /\ h.pc = "saveBid"
      /\ bids' = IF h.bid # NoBid
                 THEN [bids EXCEPT ![h.bid].amount = h.amount]
                 ELSE Append(bids, [session |-> h.session, bidder |-> h.company,
                                    amount |-> h.amount])
      /\ req' = [req EXCEPT ![r] =
           IF InExtendWindow(h.row)
           THEN [h EXCEPT !.pc = "extend", !.row.endsAt = Prolonged(h.row)]
           ELSE Idle]
      /\ UNCHANGED <<session, now, confirmAsked, failures>>

(* What save(session) leaves of the row: the entity.  A slip keeps the     *)
(* winner of the row.                                                      *)
Saved_WinnerKept(s, entity) == [entity EXCEPT !.winningBidId = session[s].winningBidId]
Saved(s, entity) == entity

(* placeBid: save(session) of the entity read at the start. *)
PlaceBidExtend(r) ==
  LET h == req[r]
  IN  /\ h.pc = "extend"
      /\ session' = IF RelationSaves(h.session, h.known)
                    THEN [session EXCEPT ![h.session] = Saved(h.session, h.row)]
                    ELSE session
      /\ req' = [req EXCEPT ![r] = Idle]
      /\ UNCHANGED <<bids, now, confirmAsked, failures>>

-----------------------------------------------------------------------------
(* closeAllExpiredOpenSessions: the timer, every read of the sessions      *)
(* (listSessions, getSessionById) and a bid on an expired session run it.  *)
SweepSelect(r) ==
  LET due == {s \in SessionId : Overdue(s)}
  IN  /\ MayStart(r)
      /\ due # {}
      /\ req' = [req EXCEPT ![r] = [Idle EXCEPT !.pc = "finRead", !.queue = due]]
      /\ UNCHANGED <<session, bids, now, confirmAsked, failures>>

(* The handler once the session it was finalizing is done with. *)
NextInQueue(queue) ==
  IF queue = {} THEN Idle ELSE [Idle EXCEPT !.pc = "finRead", !.queue = queue]

(* finalizeSession re-reads the session; it looks at the status only. *)
FinalizeRead(r) ==
  /\ req[r].pc = "finRead"
  /\ \E s \in req[r].queue :
       LET rest == req[r].queue \ {s}
       IN  req' = [req EXCEPT ![r] =
             IF IsOpen(s)
             THEN [Idle EXCEPT !.pc = "finPick", !.session = s, !.row = session[s],
                               !.queue = rest]
             ELSE NextInQueue(rest)]
  /\ UNCHANGED <<session, bids, now, confirmAsked, failures>>

(* The id stored as winner.  A slip stores the bidder's. *)
WinnerId_Bidder(s) == IF BestBid(s) = NoBid THEN NoBid ELSE bids[BestBid(s)].bidder
WinnerId(s) == BestBid(s)

FinalizePick(r) ==
  /\ req[r].pc = "finPick"
  /\ req' = [req EXCEPT ![r].pc = "finSave", ![r].bid = WinnerId(req[r].session)]
  /\ UNCHANGED <<session, bids, now, confirmAsked, failures>>

(* The closed entity.  A slip leaves a session without bids open.          *)
Awarded_IfBid(row, bid) ==
  IF bid = NoBid THEN row ELSE [row EXCEPT !.statusCode = "CLOSED", !.winningBidId = bid]
Awarded(row, bid) == [row EXCEPT !.statusCode = "CLOSED", !.winningBidId = bid]

(* The bids whose bidder is told that it has won. *)
Told(s, bid) == IF bid = NoBid THEN {} ELSE {<<s, bid>>}

(* save(session), then notifyTransportConfirmNeeded to owner and winner. *)
FinalizeSave(r) ==
  LET h == req[r]
  IN  /\ h.pc = "finSave"
      /\ session' = [session EXCEPT ![h.session] = Awarded(h.row, h.bid)]
      /\ confirmAsked' = confirmAsked \union Told(h.session, h.bid)
      /\ req' = [req EXCEPT ![r] = NextInQueue(h.queue)]
      /\ UNCHANGED <<bids, now, failures>>

-----------------------------------------------------------------------------
(* acceptListingFixedPrice: an open session of the listing is looked up    *)
(* (any one of them); without one a FIXED_ACCEPT session is created, an    *)
(* open reverse auction refuses the acceptance.                            *)
AcceptRead(r, c) ==
  /\ MayStart(r) /\ r # Sweeper
  /\ MayBid(c)
  /\ RoomForBid
  /\ \/ /\ \A s \in SessionId : ~IsOpen(s)
        /\ RoomForSession
        /\ req' = [req EXCEPT ![r] = [Idle EXCEPT !.pc = "accCreate", !.company = c]]
     \/ \E s \in SessionId :
          /\ IsOpen(s) /\ session[s].auctionTypeCode = "FIXED_ACCEPT"
          /\ req' = [req EXCEPT ![r] =
               [Idle EXCEPT !.pc = "accBid", !.company = c, !.session = s]]
  /\ UNCHANGED <<session, bids, now, confirmAsked, failures>>

AcceptCreate(r) ==
  /\ req[r].pc = "accCreate"
  /\ \E s \in SessionId :
       /\ session[s].statusCode = "ABSENT"
       /\ session' = [session EXCEPT ![s] =
            NewRow("FIXED_ACCEPT", ListingPrice, now + FixedDuration, <<0, 0>>)]
       /\ req' = [req EXCEPT ![r].pc = "accBid", ![r].session = s]
  /\ UNCHANGED <<bids, now, confirmAsked, failures>>

(* The acceptance is a bid at the listing's price, then finalizeSession. *)
AcceptBid(r) ==
  LET h == req[r]
  IN  /\ h.pc = "accBid"
      /\ bids' = Append(bids, [session |-> h.session, bidder |-> h.company,
                               amount |-> ListingPrice])
      /\ req' = [req EXCEPT ![r] = NextInQueue({h.session})]
      /\ UNCHANGED <<session, now, confirmAsked, failures>>

-----------------------------------------------------------------------------
(* A repository call throws, or the process restarts under the request:    *)
(* nothing it has written is undone.                                       *)
Fail(r) ==
  /\ InFlight(r) /\ failures < MaxFailures
  /\ failures' = failures + 1
  /\ req' = [req EXCEPT ![r] = Idle]
  /\ UNCHANGED <<session, bids, now, confirmAsked>>

Tick ==
  /\ now < MaxTime
  /\ now' = now + 1
  /\ UNCHANGED <<session, bids, req, confirmAsked, failures>>

(* The clock has reached its bound and nothing is in flight. *)
Quiescent ==
  /\ now = MaxTime /\ \A r \in Request : ~InFlight(r)
  /\ UNCHANGED moving

Step(r) ==
  \/ PlaceBidSave(r) \/ PlaceBidExtend(r)
  \/ FinalizeRead(r) \/ FinalizePick(r) \/ FinalizeSave(r)
  \/ AcceptCreate(r) \/ AcceptBid(r)

Next ==
  /\ \/ \E s \in SessionId, type \in {"REVERSE_OPEN", "FIXED_ACCEPT"}, price \in AskedPrice,
           d \in Duration, terms \in ExtendTerms : CreateSession(s, type, price, d, terms)
     \/ \E r \in Request, c \in Company :
           \/ AcceptRead(r, c)
           \/ \E s \in SessionId, amount \in Amount : PlaceBidRead(r, c, s, amount)
     \/ \E r \in Request : SweepSelect(r) \/ Step(r) \/ Fail(r)
     \/ Tick
     \/ Quiescent
  /\ UNCHANGED serial

Spec == Init /\ [][Next]_vars

(* A handler resumes once its call has returned; the timer fires again and *)
(* again.                                                                  *)
Fairness ==
  /\ \A r \in Request : WF_moving(Step(r))
  /\ WF_moving(SweepSelect(Sweeper))

FairSpec == Spec /\ Fairness
-----------------------------------------------------------------------------
(* Properties that hold however the handlers interleave. *)

(* A session that is open has no winner: statusCode and winningBidId are   *)
(* written from one entity, so that even a stale save that opens a closed  *)
(* session again (placeBid's save(session)) takes its winner back.         *)
OpenHasNoWinner == \A s \in SessionId : IsOpen(s) => session[s].winningBidId = NoBid

(* The winner of a session, and every bidder told that it has won, holds a *)
(* bid of that very session and is not its owner.                          *)
WinnerIsBidder ==
  LET HoldsBid(s, b) == b \in BidsOf(s) /\ bids[b].bidder # Owner
  IN  /\ \A s \in SessionId :
           session[s].winningBidId # NoBid => HoldsBid(s, session[s].winningBidId)
      /\ \A asked \in confirmAsked : HoldsBid(asked[1], asked[2])

(* No bid of a reverse auction is above its ceiling, whichever of placeBid *)
(* and acceptListingFixedPrice stored it, and however old the session and  *)
(* the bids were that it was validated against.                            *)
PriceCeiling ==
  \A s \in SessionId : session[s].auctionTypeCode = "REVERSE_OPEN" =>
    \A b \in BidsOf(s) : bids[b].amount <= session[s].minimumBidAmount

(* No session stays open for good after its deadline, whatever stale saves *)
(* do to it: the sweep closes it, or a late save(session) of placeBid has  *)
(* moved its deadline.                                                     *)
OverdueCloses == \A s \in SessionId : []<>~Overdue(s)

-----------------------------------------------------------------------------
(* The inductive invariant behind the three safety properties above: what  *)
(* a handler in flight may rely on although the tables have moved on.      *)

Holding == {"saveBid", "extend", "finPick", "finSave"}

(* The entity in memory was open when it was read; the terms of a session  *)
(* never change, so its type and ceiling are those of the row.             *)
EntityWasOpen(h) ==
  h.pc \in Holding =>
    /\ h.session \in SessionId
    /\ h.row.statusCode = "OPEN" /\ h.row.winningBidId = NoBid
    /\ session[h.session].statusCode # "ABSENT"
    /\ h.row.auctionTypeCode = session[h.session].auctionTypeCode
    /\ h.row.minimumBidAmount = session[h.session].minimumBidAmount

(* A bid on its way to the table comes from another company than the       *)
(* owner, revises a bid of the same session and keeps to the ceiling.      *)
PendingBid(h) ==
  h.pc = "saveBid" =>
    /\ h.company \in Company /\ h.company # Owner
    /\ h.bid # NoBid => h.bid \in BidsOf(h.session)
    /\ h.row.auctionTypeCode = "REVERSE_OPEN" => h.amount <= h.row.minimumBidAmount

(* An acceptance is made by another company, in a fixed-price session. *)
PendingAcceptance(h) ==
  /\ h.pc \in {"accCreate", "accBid"} => h.company \in Company /\ h.company # Owner
  /\ h.pc = "accBid" => /\ h.session \in SessionId
                        /\ session[h.session].statusCode # "ABSENT"
                        /\ session[h.session].auctionTypeCode = "FIXED_ACCEPT"

PickedWinner(h) ==
  h.pc = "finSave" /\ h.bid # NoBid => h.bid \in BidsOf(h.session)

HandlerOK(h) ==
  EntityWasOpen(h) /\ PendingBid(h) /\ PendingAcceptance(h) /\ PickedWinner(h)

HandlersOK == \A r \in Request : HandlerOK(req[r])

BiddersAreNotOwner == \A b \in 1 .. Len(bids) : bids[b].bidder # Owner

(* Bids are only made for sessions that exist. *)
BidsAreOfSessions == \A b \in 1 .. Len(bids) : session[bids[b].session].statusCode # "ABSENT"

IInv ==
  /\ TypeOK
  /\ HandlersOK /\ BiddersAreNotOwner /\ BidsAreOfSessions
  /\ OpenHasNoWinner /\ WinnerIsBidder /\ PriceCeiling

-----------------------------------------------------------------------------
(* Properties that hold when the handlers run one at a time.               *)

Closed(s) == session[s].statusCode = "CLOSED"

(* finalizeSession's ORDER BY: a closed session is won by the lowest of    *)
(* its bids, the earlier of two equal ones, and has a winner if it has     *)
(* bids.                                                                   *)
WinnerIsBest ==
  \A s \in SessionId : Closed(s) =>
    IF BidsOf(s) = {} THEN session[s].winningBidId = NoBid
    ELSE IsBest(session[s].winningBidId, BidsOf(s))
=============================================================================
