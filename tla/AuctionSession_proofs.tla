----------------------- MODULE AuctionSession_proofs ------------------------
(* What AuctionSession keeps for every value of its constants, however the *)
(* handlers interleave; and, when they run one at a time, that it          *)
(* implements AuctionContract.                                             *)
EXTENDS AuctionRefinement, SequenceTheorems, WellFoundedInduction, TLAPS

(* Every inhabited set of natural numbers has a least element.  In this    *)
(* form, of a set and not of a predicate, the fact also serves for         *)
(* induction: take the set of the counterexamples.                         *)
LEMMA LeastNatural ==
  ASSUME NEW S, S \subseteq Nat, S # {}
  PROVE  \E n \in S : \A m \in S : n <= m
<1> DEFINE Less == {p \in Nat \X Nat : p[1] < p[2]}
<1>1. IsWellFoundedOn(Less, Nat)
  <2>1. IsWellFoundedOn(OpToRel(<, Nat), Nat)
    BY NatLessThanWellFounded
  <2>2. OpToRel(<, Nat) = Less
    BY DEF OpToRel
  <2> QED BY <2>1, <2>2
<1>2. PICK n \in S : \A m \in S : ~ (<<m, n>> \in Less)
  <2> HIDE DEF Less
  <2> QED BY <1>1, WFMin
<1>3. ASSUME NEW m \in S PROVE n <= m
  <2>1. m \in Nat /\ n \in Nat
    OBVIOUS
  <2>2. ~ (<<m, n>> \in Less)
    BY <1>2
  <2>3. ~ (m < n)
    BY <2>1, <2>2
  <2> QED BY <2>1, <2>3
<1> QED BY <1>3

(* Every inhabited bounded set of natural numbers has a greatest element. *)
LEMMA GreatestNatural ==
  ASSUME NEW k \in Nat, NEW S, S \subseteq 0 .. k, S # {}
  PROVE  \E n \in S : \A m \in S : m <= n
<1> DEFINE T == {k - n : n \in S}
<1>1. T \subseteq Nat /\ T # {}
  <2>1. \A n \in S : k - n \in Nat
    OBVIOUS
  <2>2. T # {}
    <3>1. PICK n \in S : TRUE
      OBVIOUS
    <3>2. k - n \in T
      OBVIOUS
    <3> QED BY <3>2
  <2> QED BY <2>1, <2>2
<1>2. PICK t \in T : \A u \in T : t <= u
  <2> HIDE DEF T
  <2> QED BY <1>1, LeastNatural
<1>3. PICK n \in S : t = k - n
  BY t \in T
<1>4. ASSUME NEW m \in S PROVE m <= n
  <2>1. k - m \in T
    OBVIOUS
  <2>2. t <= k - m
    BY <1>2, <2>1
  <2>3. m \in Int /\ n \in Int
    OBVIOUS
  <2>4. k - n <= k - m
    BY <1>3, <2>2
  <2> HIDE DEF T
  <2> QED BY <2>3, <2>4
<1> QED BY <1>4

USE DEF BidId, NoBid, WinnerId, Saved, Prolonged, TakesBids, MayBid, Awarded, Told

(* The bids of a session are ids of rows. *)
LEMMA BidsOfIds ==
  ASSUME bids \in Seq(BidRow), NEW s \in SessionId
  PROVE  BidsOf(s) \subseteq 1 .. Len(bids) /\ BidsOf(s) \subseteq Nat
BY DEF BidsOf

(* findCompanyBid finds nothing or a bid of that company. *)
LEMMA OwnBidFact ==
  ASSUME bids \in Seq(BidRow), NEW B, B \subseteq 1 .. Len(bids), NEW c
  PROVE  \/ OwnBid(B, c) = NoBid /\ \A b \in B : bids[b].bidder # c
         \/ OwnBid(B, c) \in B /\ bids[OwnBid(B, c)].bidder = c
<1> DEFINE own == {b \in B : bids[b].bidder = c}
<1>1. CASE own = {}
  BY <1>1 DEF OwnBid
<1>2. CASE own # {}
  <2>1. Len(bids) \in Nat /\ own \subseteq 0 .. Len(bids)
    <3>1. Len(bids) \in Nat
      OBVIOUS
    <3>2. \A b \in B : b \in 0 .. Len(bids)
      BY <3>1
    <3> QED BY <3>1, <3>2
  <2>2. \E b \in own : \A o \in own : o <= b
    <3> HIDE DEF own
    <3> QED BY <1>2, <2>1, GreatestNatural
  <2>3. OwnBid(B, c) = CHOOSE b \in own : \A o \in own : o <= b
    BY <1>2 DEF OwnBid
  <2>4. OwnBid(B, c) \in own
    <3> HIDE DEF own
    <3> QED BY <2>2, <2>3
  <2> QED BY <2>4
<1> QED BY <1>1, <1>2

(* The query of finalizeSession returns nothing only for a session without *)
(* bids; otherwise it returns the lowest bid, the earliest of equal ones.  *)
LEMMA BestBidFact ==
  ASSUME bids \in Seq(BidRow), NEW s \in SessionId
  PROVE  IF BidsOf(s) = {} THEN BestBid(s) = NoBid
         ELSE BestBid(s) \in BidsOf(s) /\ IsBest(BestBid(s), BidsOf(s))
<1> DEFINE B == BidsOf(s)
<1>1. CASE B = {}
  BY <1>1 DEF BestBid
<1>2. CASE B # {}
  <2>1. B \subseteq Nat /\ \A b \in B : bids[b].amount \in Nat
    <3>1. ASSUME NEW b \in B PROVE b \in 1 .. Len(bids)
      BY BidsOfIds
    <3>2. ASSUME NEW b \in B PROVE bids[b] \in BidRow
      BY <3>1
    <3> QED BY <3>1, <3>2, BidsOfIds, AmountAssumption DEF BidRow
  <2> DEFINE amounts == {bids[b].amount : b \in B}
  <2>2. PICK low \in amounts : \A a \in amounts : low <= a
    <3>1. amounts \subseteq Nat /\ amounts # {}
      BY <1>2, <2>1
    <3> HIDE DEF amounts
    <3> QED BY <3>1, LeastNatural
  <2> DEFINE lowest == {b \in B : bids[b].amount = low}
  <2>3. PICK first \in lowest : \A b \in lowest : first <= b
    <3>1. lowest \subseteq Nat /\ lowest # {}
      BY <2>1, low \in amounts
    <3> HIDE DEF lowest
    <3> QED BY <3>1, LeastNatural
  <2>4. ASSUME NEW o \in B PROVE Precedes(first, o)
    <3>1. first \in B /\ bids[first].amount = low
      OBVIOUS
    <3>2. low <= bids[o].amount
      BY <2>2
    <3>3. bids[o].amount = low => first <= o
      BY <2>3
    <3>4. low \in Nat /\ bids[o].amount \in Nat
      BY <2>1, <3>1
    <3> QED BY <3>1, <3>2, <3>3, <3>4 DEF Precedes
  <2>5. \E b \in B : IsBest(b, B)
    BY <2>4 DEF IsBest
  <2>6. BestBid(s) = CHOOSE b \in B : IsBest(b, B)
    BY <1>2 DEF BestBid
  <2> QED BY <1>2, <2>5, <2>6
<1> QED BY <1>1, <1>2

-----------------------------------------------------------------------------
(* The steps.  Each one keeps the inductive invariant. *)

LEMMA AbsentRowType == AbsentRow \in Row
BY AmountAssumption DEF AbsentRow, NewRow, Row

LEMMA IdleType == Idle \in Handler
BY AbsentRowType, AmountAssumption DEF Idle, Handler

LEMMA NewRowType ==
  ASSUME NEW type \in {"REVERSE_OPEN", "FIXED_ACCEPT"}, NEW price \in Amount,
         NEW end \in Nat, NEW terms \in Nat \X Nat
  PROVE  NewRow(type, price, end, terms) \in Row
BY DEF NewRow, Row

LEMMA InitKeeps == Init => IInv
<1> SUFFICES ASSUME Init PROVE IInv
  OBVIOUS
<1>1. TypeOK
  BY AbsentRowType, IdleType DEF Init, TypeOK
<1>2. \A r \in Request : req[r].pc = "idle"
  BY DEF Init, Idle
<1>3. \A s \in SessionId : session[s].statusCode = "ABSENT" /\ session[s].winningBidId = 0
  BY DEF Init, AbsentRow, NewRow
<1>4. Len(bids) = 0 /\ confirmAsked = {}
  BY DEF Init
<1> QED
  BY <1>1, <1>2, <1>3, <1>4
  DEF IInv, HandlersOK, HandlerOK, EntityWasOpen, Holding, PendingBid, PendingAcceptance,
      PickedWinner, BiddersAreNotOwner, BidsAreOfSessions, OpenHasNoWinner, IsOpen,
      WinnerIsBidder, PriceCeiling, BidsOf

(* What no step ever takes back: a session that exists keeps its terms, a  *)
(* bid stays with its session.                                             *)
TablesGrow ==
  /\ \A s \in SessionId : session[s].statusCode # "ABSENT" =>
       /\ session'[s].statusCode # "ABSENT"
       /\ session'[s].auctionTypeCode = session[s].auctionTypeCode
       /\ session'[s].minimumBidAmount = session[s].minimumBidAmount
  /\ \A s \in SessionId : BidsOf(s) \subseteq BidsOf(s)'

(* What the other handlers rely on survives a step. *)
LEMMA HandlersStable ==
  ASSUME TypeOK, HandlersOK, TablesGrow, NEW r \in Request, NEW h \in Handler,
         req' = [req EXCEPT ![r] = h], HandlerOK(h)'
  PROVE  HandlersOK'
<1> SUFFICES ASSUME NEW q \in Request PROVE HandlerOK(req[q])'
  BY DEF HandlersOK
<1>1. CASE q = r
  <2>1. req'[q] = h
    BY <1>1 DEF TypeOK
  <2> QED BY <2>1 DEF HandlerOK, EntityWasOpen, PendingBid, PendingAcceptance, PickedWinner
<1>2. CASE q # r
  <2>1. req'[q] = req[q] /\ req[q] \in Handler
    BY <1>2 DEF TypeOK
  <2>2. HandlerOK(req[q])
    BY DEF HandlersOK
  <2> QED BY <2>1, <2>2, TypeOK, TablesGrow
    DEF TablesGrow, HandlerOK, EntityWasOpen, PendingBid, PendingAcceptance, PickedWinner,
        Holding, TypeOK
<1> QED BY <1>1, <1>2

LEMMA QuietHandler ==
  ASSUME NEW h, h.pc \in {"idle", "finRead"}
  PROVE  HandlerOK(h)'
BY DEF HandlerOK, EntityWasOpen, PendingBid, PendingAcceptance, PickedWinner, Holding

LEMMA NextInQueueType ==
  ASSUME NEW queue \in SUBSET SessionId
  PROVE  NextInQueue(queue) \in Handler /\ NextInQueue(queue).pc \in {"idle", "finRead"}
BY IdleType DEF NextInQueue, Idle, Handler

(* A step that writes no table keeps what is said of the tables. *)
LEMMA ReadKeepsTables ==
  ASSUME IInv, UNCHANGED <<session, bids, confirmAsked>>
  PROVE  /\ TablesGrow
         /\ BiddersAreNotOwner' /\ BidsAreOfSessions' /\ OpenHasNoWinner'
         /\ WinnerIsBidder' /\ PriceCeiling'
BY DEF IInv, TablesGrow, BiddersAreNotOwner, BidsAreOfSessions, OpenHasNoWinner, IsOpen,
       WinnerIsBidder, PriceCeiling, BidsOf

(* A handler that only reads: its new state has to be sound. *)
LEMMA ReadKeeps ==
  ASSUME IInv, NEW r \in Request, NEW h \in Handler, HandlerOK(h)',
         req' = [req EXCEPT ![r] = h], UNCHANGED <<session, bids, now, confirmAsked>>,
         failures' \in Nat
  PROVE  IInv'
<1>1. TypeOK'
  BY DEF IInv, TypeOK
<1>2. HandlersOK'
  BY ReadKeepsTables, HandlersStable DEF IInv
<1> QED BY <1>1, <1>2, ReadKeepsTables DEF IInv

LEMMA PlaceBidReadKeeps ==
  ASSUME IInv, NEW r \in Request, NEW c \in Company, NEW s \in SessionId,
         NEW amount \in Amount, PlaceBidRead(r, c, s, amount)
  PROVE  IInv'
<1> DEFINE own == OwnBid(BidsOf(s), c)
<1>1. /\ session \in [SessionId -> Row] /\ bids \in Seq(BidRow) /\ failures \in Nat
      /\ OpenHasNoWinner /\ PriceCeiling
  BY DEF IInv, TypeOK
<1>2. BidsOf(s) \subseteq 1 .. Len(bids) /\ BidsOf(s) \subseteq Nat
  BY <1>1, BidsOfIds
<1>3. own = NoBid \/ own \in BidsOf(s)
  BY <1>1, <1>2, OwnBidFact
<1>4. [Idle EXCEPT !.pc = "saveBid", !.company = c, !.session = s, !.row = session[s],
                   !.known = BidsOf(s), !.bid = own, !.amount = amount] \in Handler
  <2>1. own \in Nat /\ BidsOf(s) \in SUBSET Nat
    BY <1>2, <1>3
  <2> HIDE DEF own
  <2> QED BY <1>1, <2>1, IdleType DEF Handler
<1>5. PICK h \in Handler :
        h = [Idle EXCEPT !.pc = "saveBid", !.company = c, !.session = s,
                         !.row = session[s], !.known = BidsOf(s), !.bid = own,
                         !.amount = amount]
  BY <1>4
<1>6. /\ h.pc = "saveBid" /\ h.company = c /\ h.session = s /\ h.row = session[s]
      /\ h.bid = own /\ h.amount = amount
  BY <1>5 DEF Idle
<1>7. /\ req' = [req EXCEPT ![r] = h]
      /\ UNCHANGED <<session, bids, now, confirmAsked, failures>>
      /\ session[s].statusCode = "OPEN" /\ c # Owner
      /\ ValidBid(session[s], BidsOf(s), c, amount)
  BY <1>5 DEF PlaceBidRead
<1>8. session[s].auctionTypeCode = "REVERSE_OPEN" => amount <= session[s].minimumBidAmount
  <2> SUFFICES ASSUME session[s].auctionTypeCode = "REVERSE_OPEN"
               PROVE  amount <= session[s].minimumBidAmount
    OBVIOUS
  <2>1. ValidReverseBid(session[s], BidsOf(s), c, amount)
    BY <1>7 DEF ValidBid
  <2> DEFINE rivals == {b \in BidsOf(s) : bids[b].bidder # c}
  <2>2. CASE rivals = {}
    BY <2>1, <2>2 DEF ValidReverseBid
  <2>3. CASE rivals # {}
    <3>1. PICK o \in rivals : TRUE
      BY <2>3
    <3>2. amount <= bids[o].amount - BidStep
      BY <2>1, <2>3, <3>1 DEF ValidReverseBid
    <3>3. bids[o].amount <= session[s].minimumBidAmount
      BY <1>1, <3>1 DEF PriceCeiling
    <3>4. /\ bids[o].amount \in Nat /\ amount \in Nat /\ BidStep \in Nat
          /\ session[s].minimumBidAmount \in Nat
      <4>1. o \in 1 .. Len(bids)
        BY <1>2, <3>1
      <4>2. bids[o] \in BidRow
        BY <1>1, <4>1
      <4> QED BY <1>1, <4>2, AmountAssumption, TermAssumption DEF BidRow, Row
    <3> HIDE DEF rivals
    <3> QED BY <3>2, <3>3, <3>4
  <2> QED BY <2>2, <2>3
<1>9. HandlerOK(h)
  BY <1>1, <1>3, <1>6, <1>7, <1>8
  DEF HandlerOK, EntityWasOpen, PendingBid, PendingAcceptance, PickedWinner,
      OpenHasNoWinner, IsOpen
<1>10. HandlerOK(h)'
  BY <1>7, <1>9
  DEF HandlerOK, EntityWasOpen, PendingBid, PendingAcceptance, PickedWinner, BidsOf
<1> QED BY <1>1, <1>7, <1>10, ReadKeeps

LEMMA SweepSelectKeeps ==
  ASSUME IInv, NEW r \in Request, SweepSelect(r)
  PROVE  IInv'
<1> DEFINE due == {s \in SessionId : Overdue(s)}
<1>1. [Idle EXCEPT !.pc = "finRead", !.queue = due] \in Handler
  BY IdleType DEF Handler
<1>2. PICK h \in Handler : h = [Idle EXCEPT !.pc = "finRead", !.queue = due]
  BY <1>1
<1>3. h.pc = "finRead"
  BY <1>2 DEF Idle
<1>4. HandlerOK(h)'
  BY <1>3, QuietHandler
<1>5. /\ req' = [req EXCEPT ![r] = h] /\ failures' \in Nat
      /\ UNCHANGED <<session, bids, now, confirmAsked>>
  BY <1>2 DEF SweepSelect, IInv, TypeOK
<1> QED BY <1>4, <1>5, ReadKeeps

LEMMA FinalizeReadKeeps ==
  ASSUME IInv, NEW r \in Request, FinalizeRead(r)
  PROVE  IInv'
<1>1. PICK s \in req[r].queue :
        req' = [req EXCEPT ![r] =
          IF IsOpen(s)
          THEN [Idle EXCEPT !.pc = "finPick", !.session = s, !.row = session[s],
                            !.queue = req[r].queue \ {s}]
          ELSE NextInQueue(req[r].queue \ {s})]
  BY DEF FinalizeRead
<1>2. /\ req[r].queue \in SUBSET SessionId /\ s \in SessionId /\ session[s] \in Row
      /\ failures \in Nat /\ OpenHasNoWinner
  BY DEF IInv, TypeOK, Handler
<1>3. UNCHANGED <<session, bids, now, confirmAsked, failures>>
  BY DEF FinalizeRead
<1>4. CASE IsOpen(s)
  <2>1. [Idle EXCEPT !.pc = "finPick", !.session = s, !.row = session[s],
                     !.queue = req[r].queue \ {s}] \in Handler
    BY <1>2, IdleType DEF Handler
  <2>2. PICK h \in Handler :
          h = [Idle EXCEPT !.pc = "finPick", !.session = s, !.row = session[s],
                           !.queue = req[r].queue \ {s}]
    BY <2>1
  <2>3. h.pc = "finPick" /\ h.session = s /\ h.row = session[s]
    BY <2>2 DEF Idle
  <2>4. HandlerOK(h)'
    BY <1>2, <1>3, <1>4, <2>3
    DEF HandlerOK, EntityWasOpen, PendingBid, PendingAcceptance, PickedWinner,
        OpenHasNoWinner, IsOpen
  <2>5. req' = [req EXCEPT ![r] = h]
    BY <1>1, <1>4, <2>2
  <2> QED BY <1>2, <1>3, <2>4, <2>5, ReadKeeps
<1>5. CASE ~IsOpen(s)
  <2>1. PICK h \in Handler : h = NextInQueue(req[r].queue \ {s})
    BY <1>2, NextInQueueType
  <2>2. h.pc \in {"idle", "finRead"}
    BY <1>2, <2>1, NextInQueueType
  <2>3. req' = [req EXCEPT ![r] = h]
    BY <1>1, <1>5, <2>1
  <2>4. HandlerOK(h)'
    BY <2>2, QuietHandler
  <2> QED BY <1>2, <1>3, <2>3, <2>4, ReadKeeps
<1> QED BY <1>4, <1>5

LEMMA FinalizePickKeeps ==
  ASSUME IInv, NEW r \in Request, FinalizePick(r)
  PROVE  IInv'
<1> DEFINE s == req[r].session
<1>1. /\ req[r] \in Handler /\ HandlerOK(req[r]) /\ bids \in Seq(BidRow)
      /\ failures \in Nat /\ req[r].pc = "finPick"
  BY DEF IInv, TypeOK, HandlersOK, FinalizePick
<1>2. s \in SessionId
  BY <1>1 DEF HandlerOK, EntityWasOpen, Holding
<1>3. BestBid(s) = NoBid \/ BestBid(s) \in BidsOf(s)
  BY <1>1, <1>2, BestBidFact
<1>4. BestBid(s) \in Nat
  BY <1>1, <1>2, <1>3, BidsOfIds
<1>5. [req[r] EXCEPT !.pc = "finSave", !.bid = BestBid(s)] \in Handler
  BY <1>1, <1>4 DEF Handler
<1>6. PICK h \in Handler : h = [req[r] EXCEPT !.pc = "finSave", !.bid = BestBid(s)]
  BY <1>5
<1>7. /\ h.pc = "finSave" /\ h.bid = BestBid(s) /\ h.session = req[r].session
      /\ h.row = req[r].row
  BY <1>1, <1>6 DEF Handler
<1>8. /\ req' = [req EXCEPT ![r] = h]
      /\ UNCHANGED <<session, bids, now, confirmAsked, failures>>
  BY <1>1, <1>6 DEF FinalizePick, IInv, TypeOK
<1>9. HandlerOK(h)
  BY <1>1, <1>3, <1>7
  DEF HandlerOK, EntityWasOpen, PendingBid, PendingAcceptance, PickedWinner, Holding
<1>10. HandlerOK(h)'
  BY <1>8, <1>9
  DEF HandlerOK, EntityWasOpen, PendingBid, PendingAcceptance, PickedWinner, BidsOf
<1> QED BY <1>1, <1>8, <1>10, ReadKeeps

LEMMA AcceptReadKeeps ==
  ASSUME IInv, NEW r \in Request, NEW c \in Company, AcceptRead(r, c)
  PROVE  IInv'
<1>1. c # Owner /\ UNCHANGED <<session, bids, now, confirmAsked, failures>>
  BY DEF AcceptRead
<1>2. failures \in Nat
  BY DEF IInv, TypeOK
<1>3. CASE req' = [req EXCEPT ![r] = [Idle EXCEPT !.pc = "accCreate", !.company = c]]
  <2>1. PICK h \in Handler : h = [Idle EXCEPT !.pc = "accCreate", !.company = c]
    BY IdleType DEF Handler
  <2>2. h.pc = "accCreate" /\ h.company = c
    BY <2>1 DEF Idle
  <2>3. HandlerOK(h)'
    BY <1>1, <2>2
    DEF HandlerOK, EntityWasOpen, PendingBid, PendingAcceptance, PickedWinner, Holding
  <2> QED BY <1>1, <1>2, <1>3, <2>1, <2>3, ReadKeeps
<1>4. ASSUME NEW s \in SessionId, IsOpen(s),
             session[s].auctionTypeCode = "FIXED_ACCEPT",
             req' = [req EXCEPT ![r] =
               [Idle EXCEPT !.pc = "accBid", !.company = c, !.session = s]]
      PROVE  IInv'
  <2>1. PICK h \in Handler :
          h = [Idle EXCEPT !.pc = "accBid", !.company = c, !.session = s]
    BY IdleType DEF Handler
  <2>2. h.pc = "accBid" /\ h.company = c /\ h.session = s
    BY <2>1 DEF Idle
  <2>3. HandlerOK(h)'
    BY <1>1, <1>4, <2>2
    DEF HandlerOK, EntityWasOpen, PendingBid, PendingAcceptance, PickedWinner, Holding,
        IsOpen
  <2> QED BY <1>1, <1>2, <1>4, <2>1, <2>3, ReadKeeps
<1> QED BY <1>3, <1>4 DEF AcceptRead

LEMMA FailKeeps ==
  ASSUME IInv, NEW r \in Request, Fail(r)
  PROVE  IInv'
<1>1. PICK h \in Handler : h = Idle
  BY IdleType
<1>2. h.pc = "idle"
  BY <1>1 DEF Idle
<1>3. failures' \in Nat
  BY DEF Fail, IInv, TypeOK
<1>4. HandlerOK(h)'
  BY <1>2, QuietHandler
<1>5. /\ req' = [req EXCEPT ![r] = h]
      /\ UNCHANGED <<session, bids, now, confirmAsked>>
  BY <1>1 DEF Fail
<1> QED BY <1>3, <1>4, <1>5, ReadKeeps

(* placeBid and acceptListingFixedPrice store a bid: an inserted row comes *)
(* after all others, a revised row keeps its session and its bidder.       *)
LEMMA Inserted ==
  ASSUME bids \in Seq(BidRow), NEW row \in BidRow, bids' = Append(bids, row)
  PROVE  /\ Len(bids) \in Nat /\ bids' \in Seq(BidRow) /\ Len(bids') = Len(bids) + 1
         /\ \A b \in 1 .. Len(bids) : bids'[b] = bids[b]
         /\ bids'[Len(bids) + 1] = row
         /\ \A b \in 1 .. Len(bids') : b \in 1 .. Len(bids) \/ b = Len(bids) + 1
<1>1. /\ Len(bids) \in Nat /\ bids' \in Seq(BidRow) /\ Len(bids') = Len(bids) + 1
      /\ \A b \in 1 .. Len(bids) : bids'[b] = bids[b]
      /\ bids'[Len(bids) + 1] = row
  OBVIOUS
<1> QED BY <1>1

LEMMA Revised ==
  ASSUME bids \in Seq(BidRow), NEW i \in 1 .. Len(bids), NEW amount \in Amount,
         bids' = [bids EXCEPT ![i].amount = amount]
  PROVE  /\ bids' \in Seq(BidRow) /\ Len(bids') = Len(bids)
         /\ \A b \in 1 .. Len(bids) : /\ bids'[b].session = bids[b].session
                                      /\ bids'[b].bidder = bids[b].bidder
                                      /\ b # i => bids'[b] = bids[b]
         /\ bids'[i].amount = amount
<1>1. bids \in [1 .. Len(bids) -> BidRow] /\ bids[i] \in BidRow /\ Len(bids) \in Nat
  OBVIOUS
<1>2. [bids[i] EXCEPT !.amount = amount] \in BidRow
  BY <1>1 DEF BidRow
<1>3. bids' = [bids EXCEPT ![i] = [bids[i] EXCEPT !.amount = amount]]
  OBVIOUS
<1>4. bids' \in Seq(BidRow) /\ Len(bids') = Len(bids)
  BY <1>2, <1>3, ExceptSeq
<1>5. \A b \in 1 .. Len(bids) : b # i => bids'[b] = bids[b]
  BY <1>1, <1>3
<1>6. bids'[i] = [bids[i] EXCEPT !.amount = amount]
  BY <1>1, <1>3
<1> QED BY <1>1, <1>4, <1>5, <1>6 DEF BidRow

LEMMA InsertKeeps ==
  ASSUME IInv, NEW r \in Request, NEW h \in Handler, HandlerOK(h)',
         NEW row \in BidRow,
         row.bidder # Owner, session[row.session].statusCode # "ABSENT",
         session[row.session].auctionTypeCode = "REVERSE_OPEN"
           => row.amount <= session[row.session].minimumBidAmount,
         bids' = Append(bids, row), req' = [req EXCEPT ![r] = h],
         UNCHANGED <<session, now, confirmAsked, failures>>
  PROVE  IInv'
<1>1. bids \in Seq(BidRow) /\ Len(bids) \in Nat
  BY DEF IInv, TypeOK
<1>2. /\ bids' \in Seq(BidRow) /\ Len(bids') = Len(bids) + 1
      /\ \A b \in 1 .. Len(bids) : bids'[b] = bids[b]
      /\ bids'[Len(bids) + 1] = row
  BY <1>1, Inserted
<1>3. \A b \in 1 .. Len(bids') : b \in 1 .. Len(bids) \/ b = Len(bids) + 1
  BY <1>1, Inserted
<1>4. \A s \in SessionId : BidsOf(s) \subseteq BidsOf(s)'
  BY <1>1, <1>2 DEF BidsOf
<1>5. TypeOK'
  BY <1>2 DEF IInv, TypeOK
<1>6. TablesGrow
  BY <1>4 DEF TablesGrow
<1>7. HandlersOK'
  BY <1>6, HandlersStable DEF IInv
<1>8. BiddersAreNotOwner'
  BY <1>2, <1>3 DEF IInv, BiddersAreNotOwner
<1>9. BidsAreOfSessions'
  BY <1>2, <1>3 DEF IInv, BidsAreOfSessions
<1>10. OpenHasNoWinner'
  BY DEF IInv, OpenHasNoWinner, IsOpen
<1>11. WinnerIsBidder'
  <2>1. \A s \in SessionId : \A b \in BidsOf(s) : bids'[b] = bids[b]
    BY <1>2 DEF BidsOf
  <2> QED BY <1>4, <2>1 DEF IInv, TypeOK, WinnerIsBidder
<1>12. PriceCeiling'
  BY <1>2, <1>3 DEF IInv, PriceCeiling, BidsOf
<1> QED BY <1>5, <1>7, <1>8, <1>9, <1>10, <1>11, <1>12 DEF IInv

LEMMA ReviseKeeps ==
  ASSUME IInv, NEW r \in Request, NEW h \in Handler, HandlerOK(h)',
         NEW i \in 1 .. Len(bids), NEW amount \in Amount,
         session[bids[i].session].auctionTypeCode = "REVERSE_OPEN"
           => amount <= session[bids[i].session].minimumBidAmount,
         bids' = [bids EXCEPT ![i].amount = amount], req' = [req EXCEPT ![r] = h],
         UNCHANGED <<session, now, confirmAsked, failures>>
  PROVE  IInv'
<1>1. bids \in Seq(BidRow) /\ Len(bids) \in Nat /\ bids[i] \in BidRow
  BY DEF IInv, TypeOK
<1>2. /\ bids' \in Seq(BidRow) /\ Len(bids') = Len(bids)
      /\ \A b \in 1 .. Len(bids) : /\ bids'[b].session = bids[b].session
                                   /\ bids'[b].bidder = bids[b].bidder
                                   /\ b # i => bids'[b] = bids[b]
      /\ bids'[i].amount = amount
  BY <1>1, Revised
<1>3. \A s \in SessionId : BidsOf(s)' = BidsOf(s)
  BY <1>2 DEF BidsOf
<1>4. TypeOK'
  BY <1>2 DEF IInv, TypeOK
<1>5. TablesGrow
  BY <1>3 DEF TablesGrow
<1>6. HandlersOK'
  BY <1>5, HandlersStable DEF IInv
<1>7. BiddersAreNotOwner'
  BY <1>2 DEF IInv, BiddersAreNotOwner
<1>8. BidsAreOfSessions'
  BY <1>2 DEF IInv, BidsAreOfSessions
<1>9. OpenHasNoWinner'
  BY DEF IInv, OpenHasNoWinner, IsOpen
<1>10. WinnerIsBidder'
  <2>1. \A s \in SessionId : \A b \in BidsOf(s) : bids'[b].bidder = bids[b].bidder
    BY <1>2 DEF BidsOf
  <2> QED BY <1>3, <2>1 DEF IInv, TypeOK, WinnerIsBidder
<1>11. PriceCeiling'
  BY <1>2, <1>3 DEF IInv, PriceCeiling, BidsOf
<1> QED BY <1>4, <1>6, <1>7, <1>8, <1>9, <1>10, <1>11 DEF IInv

(* A step that writes one row of auction_sessions: an insert, or a save of *)
(* an entity with the terms of the row.                                    *)
LEMMA WriteKeepsTables ==
  ASSUME IInv, NEW s \in SessionId, NEW row \in Row, NEW asked,
         row.statusCode # "ABSENT",
         session[s].statusCode # "ABSENT" =>
           /\ row.auctionTypeCode = session[s].auctionTypeCode
           /\ row.minimumBidAmount = session[s].minimumBidAmount,
         row.statusCode = "OPEN" => row.winningBidId = NoBid,
         row.winningBidId # NoBid => row.winningBidId \in BidsOf(s),
         asked \subseteq {s} \X BidsOf(s),
         session' = [session EXCEPT ![s] = row],
         confirmAsked' = confirmAsked \union asked, UNCHANGED <<bids, now, failures>>
  PROVE  /\ TablesGrow
         /\ BiddersAreNotOwner' /\ BidsAreOfSessions' /\ OpenHasNoWinner'
         /\ WinnerIsBidder' /\ PriceCeiling'
         /\ session' \in [SessionId -> Row] /\ confirmAsked' \subseteq SessionId \X Nat
<1>1. /\ session \in [SessionId -> Row] /\ bids \in Seq(BidRow)
      /\ confirmAsked \subseteq SessionId \X Nat
      /\ BiddersAreNotOwner /\ BidsAreOfSessions /\ OpenHasNoWinner /\ WinnerIsBidder
      /\ PriceCeiling
  BY DEF IInv, TypeOK
<1>2. /\ session' \in [SessionId -> Row] /\ session'[s] = row
      /\ \A o \in SessionId : o # s => session'[o] = session[o]
  BY <1>1
<1>3. \A o \in SessionId : BidsOf(o)' = BidsOf(o)
  BY DEF BidsOf
<1>4. TablesGrow
  BY <1>2, <1>3 DEF TablesGrow
<1>5. BiddersAreNotOwner'
  BY <1>1 DEF BiddersAreNotOwner
<1>6. \A b \in 1 .. Len(bids) : bids[b] \in BidRow
  BY <1>1
<1>7. BidsAreOfSessions'
  BY <1>1, <1>2, <1>6 DEF BidsAreOfSessions, BidRow
<1>8. OpenHasNoWinner'
  BY <1>1, <1>2 DEF OpenHasNoWinner, IsOpen
<1>9. \A o \in SessionId : \A b \in BidsOf(o) : bids[b].bidder # Owner
  BY <1>1 DEF BiddersAreNotOwner, BidsOf
<1>10. WinnerIsBidder'
  <2>1. ASSUME NEW o \in SessionId, session'[o].winningBidId # NoBid
        PROVE  /\ session'[o].winningBidId \in BidsOf(o)
               /\ bids[session'[o].winningBidId].bidder # Owner
    BY <1>1, <1>2, <1>9, <2>1 DEF WinnerIsBidder
  <2>2. ASSUME NEW p \in confirmAsked'
        PROVE  p[1] \in SessionId /\ p[2] \in BidsOf(p[1]) /\ bids[p[2]].bidder # Owner
    BY <1>1, <1>9, <2>2 DEF WinnerIsBidder
  <2>3. \A o \in SessionId : session'[o].winningBidId # NoBid =>
          session'[o].winningBidId \in BidsOf(o)' /\ bids'[session'[o].winningBidId].bidder # Owner
    BY <1>3, <2>1
  <2>4. \A p \in confirmAsked' : p[2] \in BidsOf(p[1])' /\ bids'[p[2]].bidder # Owner
    BY <1>3, <2>2
  <2> QED BY <2>3, <2>4 DEF WinnerIsBidder, BidsOf
<1>11. PriceCeiling'
  <2>1. ASSUME NEW o \in SessionId, BidsOf(o) # {} PROVE session[o].statusCode # "ABSENT"
    BY <1>1, <2>1 DEF BidsAreOfSessions, BidsOf
  <2> QED BY <1>1, <1>2, <1>3, <2>1 DEF PriceCeiling
<1>12. confirmAsked' \subseteq SessionId \X Nat
  BY <1>1, BidsOfIds
<1> QED BY <1>2, <1>4, <1>5, <1>7, <1>8, <1>10, <1>11, <1>12

LEMMA CreateSessionKeeps ==
  ASSUME IInv, NEW s \in SessionId, NEW type \in {"REVERSE_OPEN", "FIXED_ACCEPT"},
         NEW price \in AskedPrice, NEW d \in Duration, NEW terms \in ExtendTerms,
         CreateSession(s, type, price, d, terms)
  PROVE  IInv'
<1>1. PICK row \in Row : row = NewRow(type, price, now + d, terms)
  BY NewRowType, AmountAssumption, TermAssumption DEF IInv, TypeOK
<1>2. row.statusCode = "OPEN" /\ row.winningBidId = NoBid
  BY <1>1 DEF NewRow
<1>3. /\ session' = [session EXCEPT ![s] = row] /\ session[s].statusCode = "ABSENT"
      /\ confirmAsked' = confirmAsked \union {}
      /\ UNCHANGED <<bids, req, now, failures>>
  BY <1>1 DEF CreateSession
<1>4. /\ TablesGrow
      /\ BiddersAreNotOwner' /\ BidsAreOfSessions' /\ OpenHasNoWinner'
      /\ WinnerIsBidder' /\ PriceCeiling'
      /\ session' \in [SessionId -> Row] /\ confirmAsked' \subseteq SessionId \X Nat
  BY <1>2, <1>3, WriteKeepsTables
<1>5. TypeOK'
  BY <1>3, <1>4 DEF IInv, TypeOK
<1>6. HandlersOK'
  <2> SUFFICES ASSUME NEW q \in Request PROVE HandlerOK(req[q])'
    BY DEF HandlersOK
  <2>1. req'[q] = req[q] /\ HandlerOK(req[q]) /\ TypeOK
    BY <1>3 DEF IInv, HandlersOK
  <2> QED BY <1>4, <2>1
    DEF TablesGrow, HandlerOK, EntityWasOpen, PendingBid, PendingAcceptance, PickedWinner,
        Holding, TypeOK, Handler
<1> QED BY <1>4, <1>5, <1>6 DEF IInv

(* A handler that writes a session row. *)
LEMMA WriteKeeps ==
  ASSUME IInv, NEW r \in Request, NEW h \in Handler, HandlerOK(h)', TablesGrow,
         BiddersAreNotOwner', BidsAreOfSessions', OpenHasNoWinner', WinnerIsBidder',
         PriceCeiling', session' \in [SessionId -> Row],
         confirmAsked' \subseteq SessionId \X Nat,
         req' = [req EXCEPT ![r] = h], UNCHANGED <<bids, now, failures>>
  PROVE  IInv'
<1>1. TypeOK'
  BY DEF IInv, TypeOK
<1>2. HandlersOK'
  BY HandlersStable DEF IInv
<1> QED BY <1>1, <1>2 DEF IInv

(* placeBid's late save puts back the open row it has read. *)
LEMMA PlaceBidExtendKeeps ==
  ASSUME IInv, NEW r \in Request, PlaceBidExtend(r)
  PROVE  IInv'
<1> DEFINE s == req[r].session
<1>1. /\ req[r] \in Handler /\ HandlerOK(req[r]) /\ req[r].pc = "extend"
      /\ failures \in Nat /\ confirmAsked \subseteq SessionId \X Nat
  BY DEF IInv, TypeOK, HandlersOK, PlaceBidExtend
<1>2. PICK h \in Handler : h = Idle
  BY IdleType
<1>3. HandlerOK(h)' /\ req' = [req EXCEPT ![r] = h]
  <2>1. h.pc = "idle"
    BY <1>2 DEF Idle
  <2>2. HandlerOK(h)'
    BY <2>1, QuietHandler
  <2> QED BY <1>2, <2>2 DEF PlaceBidExtend
<1>4. UNCHANGED <<bids, now, confirmAsked, failures>>
  BY DEF PlaceBidExtend
<1>5. CASE session' = session
  BY <1>1, <1>3, <1>4, <1>5, ReadKeeps
<1>6. CASE session' = [session EXCEPT ![s] = req[r].row]
  <2>1. s \in SessionId /\ req[r].row \in Row
    BY <1>1 DEF HandlerOK, EntityWasOpen, Holding, Handler
  <2>2. PICK t \in SessionId, row \in Row : t = s /\ row = req[r].row
    BY <2>1
  <2>3. /\ row.statusCode = "OPEN" /\ row.winningBidId = NoBid
        /\ row.auctionTypeCode = session[t].auctionTypeCode
        /\ row.minimumBidAmount = session[t].minimumBidAmount
    BY <1>1, <2>2 DEF HandlerOK, EntityWasOpen, Holding
  <2>4. session' = [session EXCEPT ![t] = row] /\ confirmAsked' = confirmAsked \union {}
    BY <1>4, <1>6, <2>2
  <2>5. /\ TablesGrow
        /\ BiddersAreNotOwner' /\ BidsAreOfSessions' /\ OpenHasNoWinner'
        /\ WinnerIsBidder' /\ PriceCeiling'
        /\ session' \in [SessionId -> Row] /\ confirmAsked' \subseteq SessionId \X Nat
    BY <1>4, <2>3, <2>4, WriteKeepsTables
  <2> QED BY <1>3, <1>4, <2>5, WriteKeeps
<1> QED BY <1>5, <1>6 DEF PlaceBidExtend

LEMMA FinalizeSaveKeeps ==
  ASSUME IInv, NEW r \in Request, FinalizeSave(r)
  PROVE  IInv'
<1>1. /\ req[r] \in Handler /\ HandlerOK(req[r]) /\ req[r].pc = "finSave"
      /\ UNCHANGED <<bids, now, failures>> /\ bids \in Seq(BidRow)
  BY DEF IInv, TypeOK, HandlersOK, FinalizeSave
<1>2. PICK h \in Handler : h = NextInQueue(req[r].queue) /\ h.pc \in {"idle", "finRead"}
  BY <1>1, NextInQueueType DEF Handler
<1>3. HandlerOK(h)' /\ req' = [req EXCEPT ![r] = h]
  <2>1. HandlerOK(h)'
    BY <1>2, QuietHandler
  <2> QED BY <1>2, <2>1 DEF FinalizeSave
<1>4. req[r].session \in SessionId /\ req[r].row \in Row /\ req[r].bid \in Nat
  BY <1>1 DEF HandlerOK, EntityWasOpen, Holding, Handler
<1>5. PICK s \in SessionId, bid \in Nat, old \in Row :
        s = req[r].session /\ bid = req[r].bid /\ old = req[r].row
  BY <1>4
<1>6. PICK row \in Row : row = [old EXCEPT !.statusCode = "CLOSED", !.winningBidId = bid]
  BY DEF Row
<1>7. /\ row.statusCode = "CLOSED" /\ row.winningBidId = bid
      /\ row.auctionTypeCode = old.auctionTypeCode
      /\ row.minimumBidAmount = old.minimumBidAmount
  BY <1>6 DEF Row
<1>8. /\ old.auctionTypeCode = session[s].auctionTypeCode
      /\ old.minimumBidAmount = session[s].minimumBidAmount
      /\ bid # NoBid => bid \in BidsOf(s)
  BY <1>1, <1>5 DEF HandlerOK, EntityWasOpen, PickedWinner, Holding
<1>9. PICK asked : /\ asked = IF bid = NoBid THEN {} ELSE {<<s, bid>>}
                   /\ asked \subseteq {s} \X BidsOf(s)
  <2>1. CASE bid = NoBid
    BY <2>1
  <2>2. CASE bid # NoBid
    <3>1. {<<s, bid>>} \subseteq {s} \X BidsOf(s)
      BY <1>8, <2>2
    <3> QED BY <2>2, <3>1
  <2> QED BY <2>1, <2>2
<1>10. /\ session' = [session EXCEPT ![s] = row]
       /\ confirmAsked' = confirmAsked \union asked
  BY <1>5, <1>6, <1>9 DEF FinalizeSave
<1>11. /\ TablesGrow
       /\ BiddersAreNotOwner' /\ BidsAreOfSessions' /\ OpenHasNoWinner'
       /\ WinnerIsBidder' /\ PriceCeiling'
       /\ session' \in [SessionId -> Row] /\ confirmAsked' \subseteq SessionId \X Nat
  BY <1>1, <1>7, <1>8, <1>9, <1>10, WriteKeepsTables
<1> QED BY <1>1, <1>3, <1>11, WriteKeeps

LEMMA AcceptCreateKeeps ==
  ASSUME IInv, NEW r \in Request, AcceptCreate(r)
  PROVE  IInv'
<1>1. PICK s \in SessionId :
        /\ session[s].statusCode = "ABSENT"
        /\ session' = [session EXCEPT ![s] =
             NewRow("FIXED_ACCEPT", ListingPrice, now + FixedDuration, <<0, 0>>)]
        /\ req' = [req EXCEPT ![r].pc = "accBid", ![r].session = s]
  BY DEF AcceptCreate
<1>2. /\ req[r] \in Handler /\ HandlerOK(req[r]) /\ req[r].pc = "accCreate"
      /\ req \in [Request -> Handler]
      /\ UNCHANGED <<bids, now, confirmAsked, failures>>
  BY DEF IInv, TypeOK, HandlersOK, AcceptCreate
<1>3. PICK row \in Row :
        row = NewRow("FIXED_ACCEPT", ListingPrice, now + FixedDuration, <<0, 0>>)
  BY NewRowType, AmountAssumption, TermAssumption DEF IInv, TypeOK
<1>4. row.statusCode = "OPEN" /\ row.winningBidId = NoBid /\ row.auctionTypeCode = "FIXED_ACCEPT"
  BY <1>3 DEF NewRow
<1>5. PICK h \in Handler : h = [req[r] EXCEPT !.pc = "accBid", !.session = s]
  BY <1>2 DEF Handler
<1>6. h.pc = "accBid" /\ h.session = s /\ h.company = req[r].company
  BY <1>2, <1>5 DEF Handler
<1>7. req' = [req EXCEPT ![r] = h] /\ session' = [session EXCEPT ![s] = row]
  BY <1>1, <1>2, <1>3, <1>5
<1>8. /\ TablesGrow
      /\ BiddersAreNotOwner' /\ BidsAreOfSessions' /\ OpenHasNoWinner'
      /\ WinnerIsBidder' /\ PriceCeiling'
      /\ session' \in [SessionId -> Row] /\ confirmAsked' \subseteq SessionId \X Nat
  <2>1. /\ confirmAsked' = confirmAsked \union {} /\ {} \subseteq {s} \X BidsOf(s)
        /\ session[s].statusCode = "ABSENT" /\ UNCHANGED <<bids, now, failures>>
    BY <1>1, <1>2
  <2> QED BY <1>4, <1>7, <2>1, WriteKeepsTables
<1>9. HandlerOK(h)'
  <2>1. session'[s] = row
    BY <1>7 DEF IInv, TypeOK
  <2> QED BY <1>2, <1>4, <1>6, <2>1
    DEF HandlerOK, EntityWasOpen, PendingBid, PendingAcceptance, PickedWinner, Holding
<1> QED BY <1>2, <1>7, <1>8, <1>9, WriteKeeps

LEMMA AcceptBidKeeps ==
  ASSUME IInv, NEW r \in Request, AcceptBid(r)
  PROVE  IInv'
<1>1. /\ req[r] \in Handler /\ HandlerOK(req[r]) /\ req[r].pc = "accBid"
      /\ UNCHANGED <<session, now, confirmAsked, failures>>
  BY DEF IInv, TypeOK, HandlersOK, AcceptBid
<1>2. /\ req[r].company \in Company /\ req[r].company # Owner
      /\ req[r].session \in SessionId
      /\ session[req[r].session].statusCode # "ABSENT"
      /\ session[req[r].session].auctionTypeCode = "FIXED_ACCEPT"
  BY <1>1 DEF HandlerOK, PendingAcceptance
<1>3. PICK row \in BidRow :
        row = [session |-> req[r].session, bidder |-> req[r].company,
               amount |-> ListingPrice]
  BY <1>2, AmountAssumption DEF BidRow
<1>4. row.session = req[r].session /\ row.bidder = req[r].company
  BY <1>3
<1>5. PICK h \in Handler :
        h = NextInQueue({req[r].session}) /\ h.pc \in {"idle", "finRead"}
  BY <1>2, NextInQueueType
<1>6. HandlerOK(h)'
  BY <1>5, QuietHandler
<1>7. bids' = Append(bids, row) /\ req' = [req EXCEPT ![r] = h]
  BY <1>3, <1>5 DEF AcceptBid
<1> QED BY <1>1, <1>2, <1>4, <1>6, <1>7, InsertKeeps

LEMMA PlaceBidSaveKeeps ==
  ASSUME IInv, NEW r \in Request, PlaceBidSave(r)
  PROVE  IInv'
<1>1. /\ req[r] \in Handler /\ HandlerOK(req[r]) /\ req[r].pc = "saveBid"
      /\ UNCHANGED <<session, now, confirmAsked, failures>> /\ now \in Nat
      /\ bids \in Seq(BidRow)
  BY DEF IInv, TypeOK, HandlersOK, PlaceBidSave
<1>2. /\ req[r].company \in Company /\ req[r].company # Owner
      /\ req[r].session \in SessionId /\ req[r].amount \in Amount /\ req[r].row \in Row
      /\ req[r].bid # NoBid => req[r].bid \in BidsOf(req[r].session)
      /\ session[req[r].session].statusCode # "ABSENT"
      /\ session[req[r].session].auctionTypeCode = "REVERSE_OPEN" =>
           req[r].amount <= session[req[r].session].minimumBidAmount
      /\ req[r].row.statusCode = "OPEN" /\ req[r].row.winningBidId = NoBid
      /\ req[r].row.auctionTypeCode = session[req[r].session].auctionTypeCode
      /\ req[r].row.minimumBidAmount = session[req[r].session].minimumBidAmount
  BY <1>1 DEF HandlerOK, EntityWasOpen, PendingBid, Holding, Handler
<1>3. PICK h \in Handler :
        /\ h = IF InExtendWindow(req[r].row)
               THEN [req[r] EXCEPT !.pc = "extend",
                       !.row.endsAt = req[r].row.endsAt + req[r].row.autoExtendMinutes]
               ELSE Idle
        /\ HandlerOK(h)'
  <2>1. CASE InExtendWindow(req[r].row)
    <3>1. PICK row \in Row :
            row = [req[r].row EXCEPT !.endsAt = req[r].row.endsAt + req[r].row.autoExtendMinutes]
      <4>1. PICK end \in Nat : end = req[r].row.endsAt + req[r].row.autoExtendMinutes
        BY <1>2 DEF Row
      <4>2. [req[r].row EXCEPT !.endsAt = end] \in Row
        BY <1>2 DEF Row
      <4> QED BY <4>1, <4>2
    <3>2. /\ row.statusCode = "OPEN" /\ row.winningBidId = NoBid
          /\ row.auctionTypeCode = req[r].row.auctionTypeCode
          /\ row.minimumBidAmount = req[r].row.minimumBidAmount
      BY <1>2, <3>1 DEF Row
    <3>3. PICK h \in Handler : h = [req[r] EXCEPT !.pc = "extend", !.row = row]
      BY <1>1 DEF Handler
    <3>4. h.pc = "extend" /\ h.session = req[r].session /\ h.row = row
      BY <1>1, <3>3 DEF Handler
    <3>5. HandlerOK(h)'
      BY <1>1, <1>2, <3>2, <3>4
      DEF HandlerOK, EntityWasOpen, PendingBid, PendingAcceptance, PickedWinner, Holding
    <3>6. h = [req[r] EXCEPT !.pc = "extend",
                 !.row.endsAt = req[r].row.endsAt + req[r].row.autoExtendMinutes]
      BY <3>1, <3>3
    <3> QED BY <2>1, <3>5, <3>6
  <2>2. CASE ~InExtendWindow(req[r].row)
    <3>1. PICK h \in Handler : h = Idle
      BY IdleType
    <3>2. HandlerOK(h)'
      BY <3>1, QuietHandler DEF Idle
    <3> QED BY <2>2, <3>1, <3>2
  <2> QED BY <2>1, <2>2
<1>4. req' = [req EXCEPT ![r] = h]
  BY <1>3 DEF PlaceBidSave
<1>5. CASE req[r].bid = NoBid
  <2>1. PICK row \in BidRow :
          row = [session |-> req[r].session, bidder |-> req[r].company,
                 amount |-> req[r].amount]
    BY <1>2 DEF BidRow
  <2>2. /\ row.session = req[r].session /\ row.bidder = req[r].company
        /\ row.amount = req[r].amount
    BY <2>1
  <2>3. bids' = Append(bids, row)
    BY <1>5, <2>1 DEF PlaceBidSave
  <2> QED BY <1>1, <1>2, <1>3, <1>4, <2>2, <2>3, InsertKeeps
<1>6. CASE req[r].bid # NoBid
  <2>1. PICK i \in 1 .. Len(bids), amount \in Amount :
          i = req[r].bid /\ amount = req[r].amount /\ bids[i].session = req[r].session
    BY <1>2, <1>6 DEF BidsOf
  <2>2. bids' = [bids EXCEPT ![i].amount = amount]
    BY <1>6, <2>1 DEF PlaceBidSave
  <2>3. session[bids[i].session].auctionTypeCode = "REVERSE_OPEN"
          => amount <= session[bids[i].session].minimumBidAmount
    BY <1>2, <2>1
  <2> QED BY <1>1, <1>3, <1>4, <2>2, <2>3, ReviseKeeps
<1> QED BY <1>5, <1>6

-----------------------------------------------------------------------------
LEMMA StutterKeeps ==
  ASSUME IInv, UNCHANGED <<session, bids, req, confirmAsked, failures>>, now' \in Nat
  PROVE  IInv'
<1>1. TypeOK'
  BY DEF IInv, TypeOK
<1>2. HandlersOK'
  BY DEF IInv, HandlersOK, HandlerOK, EntityWasOpen, PendingBid, PendingAcceptance,
         PickedWinner, BidsOf
<1> QED BY <1>1, <1>2, ReadKeepsTables DEF IInv

LEMMA NextKeeps ==
  ASSUME IInv, [Next]_vars
  PROVE  IInv'
<1>1. ASSUME NEW s \in SessionId, NEW type \in {"REVERSE_OPEN", "FIXED_ACCEPT"},
             NEW price \in AskedPrice, NEW d \in Duration, NEW terms \in ExtendTerms,
             CreateSession(s, type, price, d, terms)
      PROVE  IInv'
  BY <1>1, CreateSessionKeeps
<1>2. ASSUME NEW r \in Request, NEW c \in Company, AcceptRead(r, c) PROVE IInv'
  BY <1>2, AcceptReadKeeps
<1>3. ASSUME NEW r \in Request, NEW c \in Company, NEW s \in SessionId,
             NEW amount \in Amount, PlaceBidRead(r, c, s, amount)
      PROVE  IInv'
  BY <1>3, PlaceBidReadKeeps
<1>4. ASSUME NEW r \in Request, SweepSelect(r) PROVE IInv'
  BY <1>4, SweepSelectKeeps
<1>5. ASSUME NEW r \in Request, Step(r) PROVE IInv'
  BY <1>5, PlaceBidSaveKeeps, PlaceBidExtendKeeps, FinalizeReadKeeps, FinalizePickKeeps,
     FinalizeSaveKeeps, AcceptCreateKeeps, AcceptBidKeeps DEF Step
<1>6. ASSUME NEW r \in Request, Fail(r) PROVE IInv'
  BY <1>6, FailKeeps
<1>7. CASE Tick
  <2>1. now' \in Nat
    BY <1>7 DEF Tick, IInv, TypeOK
  <2> QED BY <1>7, <2>1, StutterKeeps DEF Tick
<1>8. CASE Quiescent \/ UNCHANGED vars
  <2>1. UNCHANGED moving
    BY <1>8 DEF Quiescent, vars
  <2>2. now' \in Nat
    BY <2>1 DEF moving, IInv, TypeOK
  <2> QED BY <2>1, <2>2, StutterKeeps DEF moving
<1> QED BY <1>1, <1>2, <1>3, <1>4, <1>5, <1>6, <1>7, <1>8 DEF Next

LEMMA InductiveInvariant == Spec => []IInv
<1>1. Init => IInv
  BY InitKeeps
<1>2. IInv /\ [Next]_vars => IInv'
  BY NextKeeps
<1> QED BY <1>1, <1>2, PTL DEF Spec

(* Rows, bids and handlers keep their shape whatever the interleaving: in  *)
(* particular findCompanyBid and the query for the winner always yield ids *)
(* of existing rows.                                                       *)
THEOREM TypeCorrect == Spec => []TypeOK
<1>1. IInv => TypeOK
  BY DEF IInv
<1> QED BY <1>1, InductiveInvariant, PTL

(* A session is never open with a winner, although placeBid's late save    *)
(* may open a closed one again.                                            *)
THEOREM OpenSessionsHaveNoWinner == Spec => []OpenHasNoWinner
<1>1. IInv => OpenHasNoWinner
  BY DEF IInv
<1> QED BY <1>1, InductiveInvariant, PTL

(* Whoever wins, or is told to have won, has bid in that session and does  *)
(* not own it.                                                             *)
THEOREM WinnersAreBidders == Spec => []WinnerIsBidder
<1>1. IInv => WinnerIsBidder
  BY DEF IInv
<1> QED BY <1>1, InductiveInvariant, PTL

(* The ceiling of a reverse auction holds for every stored bid, although   *)
(* each was validated against bids that may have changed since.            *)
THEOREM CeilingHolds == Spec => []PriceCeiling
<1>1. IInv => PriceCeiling
  BY DEF IInv
<1> QED BY <1>1, InductiveInvariant, PTL
-----------------------------------------------------------------------------
(* The handlers one at a time.  Only one is in flight, so that what it has *)
(* read is still what the tables say.                                      *)

Sole == \A q, r \in Request : q = r \/ ~InFlight(q) \/ ~InFlight(r)

(* A session the sweep or an acceptance may close. *)
Ends(s) == session[s].auctionTypeCode = "FIXED_ACCEPT" \/ session[s].endsAt < now

Finalizing == {"finRead", "finPick", "finSave"}

InHand(h) ==
  /\ h.pc \in {"saveBid", "finPick", "finSave"} => h.row = session[h.session]
  /\ h.pc = "saveBid" =>
       /\ h.bid = OwnBid(BidsOf(h.session), h.company)
       /\ ValidBid(h.row, BidsOf(h.session), h.company, h.amount)
  /\ h.pc = "extend" =>
       /\ h.row.endsAt > session[h.session].endsAt
       /\ h.row = [session[h.session] EXCEPT !.endsAt = h.row.endsAt]
  /\ h.pc \in {"finPick", "finSave"} => Ends(h.session)
  /\ h.pc \in Finalizing => \A s \in h.queue : Ends(s)
  /\ h.pc = "finSave" => h.bid = BestBid(h.session)
  /\ h.pc = "accBid" => IsOpen(h.session)

(* A company revises its bid in a reverse auction and never has two. *)
OneBidEach ==
  \A b, o \in 1 .. Len(bids) :
    bids[b].session = bids[o].session /\ bids[b].bidder = bids[o].bidder =>
      b = o \/ session[bids[b].session].auctionTypeCode = "FIXED_ACCEPT"

SInv ==
  /\ Sole /\ \A r \in Request : InHand(req[r])
  /\ OneBidEach /\ WinnerIsBest

(* Who may take a step: the handler in flight, or any if there is none. *)
Moves(r) == InFlight(r) \/ \A q \in Request : ~InFlight(q)

LEMMA OthersIdle ==
  ASSUME Sole, NEW r \in Request, Moves(r), NEW q \in Request, q # r
  PROVE  req[q].pc = "idle"
BY DEF Sole, Moves, InFlight

(* The others being idle, only the handler that moves has to be looked at. *)
LEMMA MoverKeeps ==
  ASSUME TypeOK, SInv, NEW r \in Request, Moves(r), NEW h, InHand(h)',
         req' = [req EXCEPT ![r] = h]
  PROVE  Sole' /\ \A q \in Request : InHand(req[q])'
<1>1. /\ req'[r] = h
      /\ \A q \in Request : q # r => req'[q] = req[q] /\ req[q].pc = "idle"
  BY OthersIdle DEF TypeOK, SInv
<1>2. Sole'
  BY <1>1 DEF Sole, InFlight
<1>3. ASSUME NEW q \in Request PROVE InHand(req[q])'
  <2>1. CASE q = r
    BY <1>1, <2>1 DEF InHand
  <2>2. CASE q # r
    BY <1>1, <2>2 DEF InHand, Finalizing
  <2> QED BY <2>1, <2>2
<1> QED BY <1>2, <1>3

(* A handler that only reads. *)
LEMMA ReadSerially ==
  ASSUME TypeOK, SInv, NEW r \in Request, Moves(r), NEW h, InHand(h)',
         req' = [req EXCEPT ![r] = h], UNCHANGED <<session, bids>>
  PROVE  SInv'
<1>1. Sole' /\ \A q \in Request : InHand(req[q])'
  BY MoverKeeps
<1>2. OneBidEach'
  BY DEF SInv, OneBidEach
<1>3. WinnerIsBest'
  BY DEF SInv, WinnerIsBest, Closed, IsBest, Precedes, BidsOf
<1> QED BY <1>1, <1>2, <1>3 DEF SInv

LEMMA StartMoves ==
  ASSUME serial, NEW r \in Request, MayStart(r)
  PROVE  Moves(r)
BY DEF MayStart, Moves

LEMMA PlaceBidReadSerially ==
  ASSUME serial, IInv, SInv, NEW r \in Request, NEW c \in Company, NEW s \in SessionId,
         NEW amount \in Amount, PlaceBidRead(r, c, s, amount)
  PROVE  SInv'
<1>1. PICK h : h = [Idle EXCEPT !.pc = "saveBid", !.company = c, !.session = s,
                                !.row = session[s], !.known = BidsOf(s),
                                !.bid = OwnBid(BidsOf(s), c), !.amount = amount]
  OBVIOUS
<1>2. /\ h.pc = "saveBid" /\ h.session = s /\ h.row = session[s] /\ h.company = c
      /\ h.bid = OwnBid(BidsOf(s), c) /\ h.amount = amount
  BY <1>1 DEF Idle
<1>3. /\ MayStart(r) /\ req' = [req EXCEPT ![r] = h]
      /\ UNCHANGED <<session, bids, now, confirmAsked, failures>>
      /\ ValidBid(session[s], BidsOf(s), c, amount)
  BY <1>1 DEF PlaceBidRead
<1>4. InHand(h)
  BY <1>2, <1>3 DEF InHand, Finalizing
<1>5. InHand(h)'
  BY <1>2, <1>3, <1>4
  DEF InHand, Finalizing, OwnBid, BidsOf, ValidBid, ValidReverseBid
<1> QED BY <1>3, <1>5, StartMoves, ReadSerially DEF IInv

LEMMA SweepSelectSerially ==
  ASSUME serial, IInv, SInv, NEW r \in Request, SweepSelect(r)
  PROVE  SInv'
<1>1. PICK due \in SUBSET SessionId : due = {s \in SessionId : Overdue(s)}
  OBVIOUS
<1>2. PICK h : h = [Idle EXCEPT !.pc = "finRead", !.queue = due]
  OBVIOUS
<1>3. h.pc = "finRead" /\ h.queue = due
  BY <1>2 DEF Idle
<1>4. /\ MayStart(r) /\ req' = [req EXCEPT ![r] = h]
      /\ UNCHANGED <<session, bids, now, confirmAsked, failures>>
  BY <1>1, <1>2 DEF SweepSelect
<1>5. \A s \in due : Ends(s)'
  BY <1>1, <1>4 DEF Overdue, Ends
<1>6. InHand(h)'
  BY <1>3, <1>5 DEF InHand
<1> QED BY <1>4, <1>6, StartMoves, ReadSerially DEF IInv

(* What is left in the queue is still to be closed. *)
LEMMA QueueInHand ==
  ASSUME NEW queue, \A s \in queue : Ends(s)'
  PROVE  InHand(NextInQueue(queue))'
<1>1. NextInQueue(queue).pc = "idle"
        \/ (NextInQueue(queue).pc = "finRead" /\ NextInQueue(queue).queue = queue)
  BY DEF NextInQueue, Idle
<1>2. ASSUME NEW h, h.pc = "idle" \/ (h.pc = "finRead" /\ h.queue = queue)
      PROVE  InHand(h)'
  BY <1>2 DEF InHand, Finalizing
<1> QED BY <1>1, <1>2

LEMMA FinalizeReadSerially ==
  ASSUME serial, IInv, SInv, NEW r \in Request, FinalizeRead(r)
  PROVE  SInv'
<1>1. /\ req[r].pc = "finRead" /\ InHand(req[r])
      /\ UNCHANGED <<session, bids, now, confirmAsked, failures>>
  BY DEF FinalizeRead, SInv
<1>2. Moves(r)
  BY <1>1 DEF Moves, InFlight
<1>3. \A s \in req[r].queue : Ends(s) /\ Ends(s)'
  BY <1>1 DEF InHand, Finalizing, Ends
<1>4. PICK s \in req[r].queue :
        req' = [req EXCEPT ![r] =
          IF IsOpen(s)
          THEN [Idle EXCEPT !.pc = "finPick", !.session = s, !.row = session[s],
                            !.queue = req[r].queue \ {s}]
          ELSE NextInQueue(req[r].queue \ {s})]
  BY DEF FinalizeRead
<1>5. PICK rest : rest = req[r].queue \ {s}
  OBVIOUS
<1>6. CASE IsOpen(s)
  <2>1. PICK h : h = [Idle EXCEPT !.pc = "finPick", !.session = s, !.row = session[s],
                                  !.queue = rest]
    OBVIOUS
  <2>2. h.pc = "finPick" /\ h.session = s /\ h.row = session[s] /\ h.queue = rest
    BY <2>1 DEF Idle
  <2>3. req' = [req EXCEPT ![r] = h]
    BY <1>4, <1>5, <1>6, <2>1
  <2>4. InHand(h)'
    BY <1>1, <1>3, <1>5, <2>2 DEF InHand
  <2> QED BY <1>1, <1>2, <2>3, <2>4, ReadSerially DEF IInv
<1>7. CASE ~IsOpen(s)
  <2>1. InHand(NextInQueue(rest))'
    BY <1>3, <1>5, QueueInHand
  <2>2. req' = [req EXCEPT ![r] = NextInQueue(rest)]
    BY <1>4, <1>5, <1>7
  <2> QED BY <1>1, <1>2, <2>1, <2>2, ReadSerially DEF IInv
<1> QED BY <1>6, <1>7

LEMMA FinalizePickSerially ==
  ASSUME IInv, SInv, NEW r \in Request, FinalizePick(r)
  PROVE  SInv'
<1>1. /\ req[r].pc = "finPick" /\ req[r] \in Handler /\ req \in [Request -> Handler]
      /\ InHand(req[r]) /\ UNCHANGED <<session, bids, now, confirmAsked, failures>>
  BY DEF FinalizePick, SInv, IInv, TypeOK
<1>2. PICK h : h = [req[r] EXCEPT !.pc = "finSave", !.bid = BestBid(req[r].session)]
  OBVIOUS
<1>3. /\ h.pc = "finSave" /\ h.bid = BestBid(h.session) /\ h.session = req[r].session
      /\ h.row = req[r].row /\ h.queue = req[r].queue
  BY <1>1, <1>2 DEF Handler
<1>4. req' = [req EXCEPT ![r] = h]
  BY <1>1, <1>2 DEF FinalizePick
<1>5. InHand(h)
  BY <1>1, <1>3 DEF InHand, Finalizing
<1>6. InHand(h)'
  BY <1>1, <1>3, <1>5
  DEF InHand, Finalizing, Ends, BestBid, IsBest, Precedes, BidsOf
<1>7. Moves(r)
  BY <1>1 DEF Moves, InFlight
<1> QED BY <1>1, <1>4, <1>6, <1>7, ReadSerially DEF IInv

LEMMA AcceptReadSerially ==
  ASSUME serial, IInv, SInv, NEW r \in Request, NEW c \in Company, AcceptRead(r, c)
  PROVE  SInv'
<1>1. MayStart(r) /\ UNCHANGED <<session, bids, now, confirmAsked, failures>>
  BY Zenon DEF AcceptRead
<1>2. ASSUME NEW h, h.pc = "accCreate" \/ (h.pc = "accBid" /\ IsOpen(h.session)),
             req' = [req EXCEPT ![r] = h]
      PROVE  SInv'
  <2>1. InHand(h)'
    BY <1>1, <1>2 DEF InHand, Finalizing, IsOpen
  <2> QED BY <1>1, <1>2, <2>1, StartMoves, ReadSerially DEF IInv
<1>3. CASE req' = [req EXCEPT ![r] = [Idle EXCEPT !.pc = "accCreate", !.company = c]]
  <2>1. [Idle EXCEPT !.pc = "accCreate", !.company = c].pc = "accCreate"
    BY DEF Idle
  <2> QED BY <1>2, <1>3, <2>1
<1>4. ASSUME NEW s \in SessionId, IsOpen(s),
             req' = [req EXCEPT ![r] =
               [Idle EXCEPT !.pc = "accBid", !.company = c, !.session = s]]
      PROVE  SInv'
  <2>1. PICK h : h = [Idle EXCEPT !.pc = "accBid", !.company = c, !.session = s]
    OBVIOUS
  <2>2. h.pc = "accBid" /\ h.session = s
    BY <2>1 DEF Idle
  <2> QED BY <1>2, <1>4, <2>1, <2>2
<1> QED BY <1>3, <1>4, Zenon DEF AcceptRead

LEMMA FailSerially ==
  ASSUME IInv, SInv, NEW r \in Request, Fail(r)
  PROVE  SInv'
<1>1. /\ Moves(r) /\ req' = [req EXCEPT ![r] = Idle]
      /\ UNCHANGED <<session, bids, now, confirmAsked>>
  BY DEF Fail, Moves
<1>2. InHand(Idle)'
  BY DEF InHand, Idle, Finalizing
<1> QED BY <1>1, <1>2, ReadSerially DEF IInv

(* The queries look at the bids only. *)
LEMMA QueriesStable ==
  ASSUME UNCHANGED bids, NEW s, NEW c, NEW row, NEW amount
  PROVE  /\ OwnBid(BidsOf(s), c)' = OwnBid(BidsOf(s), c)
         /\ ValidBid(row, BidsOf(s), c, amount)' = ValidBid(row, BidsOf(s), c, amount)
         /\ BestBid(s)' = BestBid(s)
<1>1. BidsOf(s)' = BidsOf(s) /\ OwnBid(BidsOf(s), c)' = OwnBid(BidsOf(s), c)
  BY DEF BidsOf, OwnBid
<1>2. ValidBid(row, BidsOf(s), c, amount)' = ValidBid(row, BidsOf(s), c, amount)
  BY <1>1 DEF ValidBid, ValidReverseBid
<1>3. BestBid(s)' = BestBid(s)
  BY DEF BestBid, IsBest, Precedes, BidsOf
<1> QED BY <1>1, <1>2, <1>3

LEMMA TickSerially ==
  ASSUME IInv, SInv, Tick \/ Quiescent \/ UNCHANGED vars
  PROVE  SInv'
<1>1. /\ UNCHANGED <<session, bids, req, confirmAsked, failures>>
      /\ now \in Nat /\ (now' = now \/ now' = now + 1)
  BY DEF Tick, Quiescent, vars, moving, IInv, TypeOK
<1>2. ASSUME NEW s \in SessionId, Ends(s) PROVE Ends(s)'
  <2>1. session[s].endsAt \in Nat
    BY DEF IInv, TypeOK, Row
  <2> QED BY <1>1, <1>2, <2>1 DEF Ends
<1>3. ASSUME NEW r \in Request PROVE InHand(req[r])'
  <2>1. PICK h : h = req[r]
    OBVIOUS
  <2>2. /\ InHand(h) /\ req'[r] = h /\ h.queue \in SUBSET SessionId
        /\ h.pc \in Holding => h.session \in SessionId
    BY <1>1, <2>1 DEF SInv, IInv, TypeOK, HandlersOK, HandlerOK, EntityWasOpen, Handler
  <2>3. h.pc \in {"finPick", "finSave"} => Ends(h.session)'
    BY <1>2, <2>2 DEF InHand, Holding
  <2>4. h.pc \in Finalizing => \A s \in h.queue : Ends(s)'
    BY <1>2, <2>2 DEF InHand
  <2>5. h.pc = "saveBid" =>
          /\ h.bid = OwnBid(BidsOf(h.session), h.company)'
          /\ ValidBid(h.row, BidsOf(h.session), h.company, h.amount)'
    BY <1>1, <2>2, QueriesStable DEF InHand
  <2>6. h.pc = "finSave" => h.bid = BestBid(h.session)'
    BY <1>1, <2>2, QueriesStable DEF InHand
  <2>7. InHand(h)'
    BY <1>1, <2>2, <2>3, <2>4, <2>5, <2>6 DEF InHand, IsOpen
  <2> QED BY <2>2, <2>7
<1>4. Sole'
  BY <1>1 DEF SInv, Sole, InFlight
<1>5. OneBidEach' /\ WinnerIsBest'
  BY <1>1 DEF SInv, OneBidEach, WinnerIsBest, Closed, IsBest, Precedes, BidsOf
<1> QED BY <1>3, <1>4, <1>5 DEF SInv

(* A bid is stored in a session that is open, where the company has none   *)
(* unless the price is fixed; or one is revised there.                     *)
LEMMA InsertSerially ==
  ASSUME IInv, SInv, NEW r \in Request, Moves(r), NEW h, InHand(h)',
         NEW row \in BidRow, IsOpen(row.session),
         \/ session[row.session].auctionTypeCode = "FIXED_ACCEPT"
         \/ \A b \in BidsOf(row.session) : bids[b].bidder # row.bidder,
         bids' = Append(bids, row), req' = [req EXCEPT ![r] = h], UNCHANGED session
  PROVE  SInv'
<1>1. /\ Len(bids) \in Nat /\ Len(bids') = Len(bids) + 1
      /\ \A b \in 1 .. Len(bids) : bids'[b] = bids[b]
      /\ bids'[Len(bids) + 1] = row
      /\ \A b \in 1 .. Len(bids') : b \in 1 .. Len(bids) \/ b = Len(bids) + 1
  BY Inserted DEF IInv, TypeOK
<1>2. Sole' /\ \A q \in Request : InHand(req[q])'
  BY MoverKeeps DEF IInv
<1>3. OneBidEach'
  <2>1. OneBidEach
    BY DEF SInv
  <2> QED BY <1>1, <2>1 DEF OneBidEach, BidsOf
<1>4. WinnerIsBest'
  <2> SUFFICES ASSUME NEW s \in SessionId, Closed(s)'
               PROVE  (IF BidsOf(s) = {} THEN session[s].winningBidId = NoBid
                       ELSE IsBest(session[s].winningBidId, BidsOf(s)))'
    BY DEF WinnerIsBest
  <2>1. Closed(s) /\ row.session # s
    BY DEF Closed, IsOpen
  <2>2. BidsOf(s)' = BidsOf(s)
    BY <1>1, <2>1 DEF BidsOf
  <2>3. \A b \in BidsOf(s) : bids'[b] = bids[b]
    BY <1>1 DEF BidsOf
  <2>4. IF BidsOf(s) = {} THEN session[s].winningBidId = NoBid
        ELSE IsBest(session[s].winningBidId, BidsOf(s))
    BY <2>1 DEF SInv, WinnerIsBest
  <2> QED BY <2>2, <2>3, <2>4 DEF IsBest, Precedes
<1> QED BY <1>2, <1>3, <1>4 DEF SInv

LEMMA ReviseSerially ==
  ASSUME IInv, SInv, NEW r \in Request, Moves(r), NEW h, InHand(h)',
         NEW i \in 1 .. Len(bids), NEW amount \in Amount, IsOpen(bids[i].session),
         bids' = [bids EXCEPT ![i].amount = amount], req' = [req EXCEPT ![r] = h],
         UNCHANGED session
  PROVE  SInv'
<1>1. /\ Len(bids') = Len(bids)
      /\ \A b \in 1 .. Len(bids) : /\ bids'[b].session = bids[b].session
                                   /\ bids'[b].bidder = bids[b].bidder
                                   /\ b # i => bids'[b] = bids[b]
  BY Revised DEF IInv, TypeOK
<1>2. Sole' /\ \A q \in Request : InHand(req[q])'
  BY MoverKeeps DEF IInv
<1>3. OneBidEach'
  BY <1>1 DEF SInv, OneBidEach
<1>4. WinnerIsBest'
  <2> SUFFICES ASSUME NEW s \in SessionId, Closed(s)'
               PROVE  (IF BidsOf(s) = {} THEN session[s].winningBidId = NoBid
                       ELSE IsBest(session[s].winningBidId, BidsOf(s)))'
    BY DEF WinnerIsBest
  <2>1. Closed(s) /\ BidsOf(s)' = BidsOf(s)
    BY <1>1 DEF Closed, BidsOf
  <2>2. \A b \in BidsOf(s) : bids'[b] = bids[b]
    BY <1>1, <2>1 DEF BidsOf, Closed, IsOpen
  <2>3. IF BidsOf(s) = {} THEN session[s].winningBidId = NoBid
        ELSE IsBest(session[s].winningBidId, BidsOf(s))
    BY <2>1 DEF SInv, WinnerIsBest
  <2> QED BY <2>1, <2>2, <2>3 DEF IsBest, Precedes
<1> QED BY <1>2, <1>3, <1>4 DEF SInv

(* What is said of the tables when one row of auction_sessions is written: *)
(* with its type, and closed only with its best bid.                       *)
LEMMA WriteSessionSerially ==
  ASSUME IInv, SInv, NEW s \in SessionId, NEW row \in Row,
         session[s].statusCode # "ABSENT" => row.auctionTypeCode = session[s].auctionTypeCode,
         row.statusCode = "CLOSED" => row.winningBidId = BestBid(s),
         session' = [session EXCEPT ![s] = row], UNCHANGED bids
  PROVE  OneBidEach' /\ WinnerIsBest'
<1>1. /\ session \in [SessionId -> Row] /\ bids \in Seq(BidRow) /\ BidsAreOfSessions
      /\ OneBidEach /\ WinnerIsBest
  BY DEF IInv, TypeOK, SInv
<1>2. session'[s] = row /\ \A o \in SessionId : o # s => session'[o] = session[o]
  BY <1>1
<1>3. OneBidEach'
  <2>1. ASSUME NEW b \in 1 .. Len(bids)
        PROVE  /\ bids[b].session \in SessionId
               /\ session'[bids[b].session].auctionTypeCode
                    = session[bids[b].session].auctionTypeCode
    <3>1. bids[b] \in BidRow
      BY <1>1
    <3> QED BY <1>1, <1>2, <3>1 DEF BidRow, BidsAreOfSessions
  <2> QED BY <1>1, <2>1 DEF OneBidEach
<1>4. WinnerIsBest'
  <2> SUFFICES ASSUME NEW o \in SessionId, Closed(o)'
               PROVE  (IF BidsOf(o) = {} THEN session[o].winningBidId = NoBid
                       ELSE IsBest(session[o].winningBidId, BidsOf(o)))'
    BY DEF WinnerIsBest
  <2>1. IF BidsOf(o) = {} THEN session'[o].winningBidId = NoBid
        ELSE IsBest(session'[o].winningBidId, BidsOf(o))
    <3>1. CASE o = s
      <4>1. session'[o].winningBidId = BestBid(o)
        BY <1>2, <3>1 DEF Closed
      <4> QED BY <1>1, <4>1, BestBidFact
    <3>2. CASE o # s
      <4>1. Closed(o) /\ session'[o] = session[o]
        BY <1>2, <3>2 DEF Closed
      <4> QED BY <1>1, <4>1 DEF WinnerIsBest
    <3> QED BY <3>1, <3>2
  <2>2. BidsOf(o)' = BidsOf(o)
    BY DEF BidsOf
  <2> QED BY <2>1, <2>2 DEF IsBest, Precedes
<1> QED BY <1>3, <1>4

LEMMA CreateSessionSerially ==
  ASSUME serial, IInv, SInv, NEW s \in SessionId,
         NEW type \in {"REVERSE_OPEN", "FIXED_ACCEPT"},
         NEW price \in AskedPrice, NEW d \in Duration, NEW terms \in ExtendTerms,
         CreateSession(s, type, price, d, terms)
  PROVE  SInv'
<1>1. PICK row \in Row : row = NewRow(type, price, now + d, terms)
  BY NewRowType, AmountAssumption, TermAssumption DEF IInv, TypeOK
<1>2. /\ \A q \in Request : req[q].pc = "idle"
      /\ session' = [session EXCEPT ![s] = row] /\ session[s].statusCode = "ABSENT"
      /\ UNCHANGED <<bids, req>> /\ row.statusCode = "OPEN"
  BY <1>1 DEF CreateSession, InFlight, NewRow
<1>3. OneBidEach' /\ WinnerIsBest'
  BY <1>2, WriteSessionSerially
<1>4. Sole' /\ \A q \in Request : InHand(req[q])'
  BY <1>2 DEF Sole, InFlight, InHand, Finalizing
<1> QED BY <1>3, <1>4 DEF SInv

LEMMA AcceptCreateSerially ==
  ASSUME IInv, SInv, NEW r \in Request, AcceptCreate(r)
  PROVE  SInv'
<1>1. PICK s \in SessionId :
        /\ session[s].statusCode = "ABSENT"
        /\ session' = [session EXCEPT ![s] =
             NewRow("FIXED_ACCEPT", ListingPrice, now + FixedDuration, <<0, 0>>)]
        /\ req' = [req EXCEPT ![r].pc = "accBid", ![r].session = s]
  BY DEF AcceptCreate
<1>2. /\ Moves(r) /\ UNCHANGED bids /\ req[r].pc = "accCreate"
      /\ req \in [Request -> Handler] /\ session \in [SessionId -> Row]
  BY DEF AcceptCreate, Moves, InFlight, IInv, TypeOK
<1>3. PICK row \in Row :
        row = NewRow("FIXED_ACCEPT", ListingPrice, now + FixedDuration, <<0, 0>>)
  BY NewRowType, AmountAssumption, TermAssumption DEF IInv, TypeOK
<1>4. row.statusCode = "OPEN" /\ session' = [session EXCEPT ![s] = row] /\ session'[s] = row
  BY <1>1, <1>2, <1>3 DEF NewRow
<1>5. OneBidEach' /\ WinnerIsBest'
  BY <1>1, <1>2, <1>4, WriteSessionSerially
<1>6. PICK h : h = [req[r] EXCEPT !.pc = "accBid", !.session = s]
  OBVIOUS
<1>7. h.pc = "accBid" /\ h.session = s /\ req' = [req EXCEPT ![r] = h]
  BY <1>1, <1>2, <1>6 DEF Handler
<1>8. InHand(h)'
  BY <1>4, <1>7 DEF InHand, Finalizing, IsOpen
<1>9. Sole' /\ \A q \in Request : InHand(req[q])'
  BY <1>2, <1>7, <1>8, MoverKeeps DEF IInv
<1> QED BY <1>5, <1>9 DEF SInv

LEMMA AcceptBidSerially ==
  ASSUME IInv, SInv, NEW r \in Request, AcceptBid(r)
  PROVE  SInv'
<1>1. /\ req[r] \in Handler /\ HandlerOK(req[r]) /\ InHand(req[r])
      /\ req[r].pc = "accBid" /\ Moves(r) /\ UNCHANGED session
  BY DEF IInv, TypeOK, HandlersOK, AcceptBid, SInv, Moves, InFlight
<1>2. /\ req[r].company \in Company /\ req[r].session \in SessionId
      /\ session[req[r].session].auctionTypeCode = "FIXED_ACCEPT"
      /\ IsOpen(req[r].session)
  BY <1>1 DEF HandlerOK, PendingAcceptance, InHand
<1>3. PICK row \in BidRow :
        row = [session |-> req[r].session, bidder |-> req[r].company,
               amount |-> ListingPrice]
  BY <1>2, AmountAssumption DEF BidRow
<1>4. row.session = req[r].session
  BY <1>3
<1>5. PICK queue : queue = {req[r].session}
  OBVIOUS
<1>6. InHand(NextInQueue(queue))'
  <2>1. \A s \in queue : Ends(s)'
    BY <1>1, <1>2, <1>5 DEF Ends
  <2> QED BY <2>1, QueueInHand
<1>7. bids' = Append(bids, row) /\ req' = [req EXCEPT ![r] = NextInQueue(queue)]
  BY <1>3, <1>5 DEF AcceptBid
<1> QED BY <1>1, <1>2, <1>4, <1>6, <1>7, InsertSerially

(* What the handler that is about to store a bid relies on. *)
LEMMA PendingBidFacts ==
  ASSUME IInv, SInv, NEW r \in Request, PlaceBidSave(r)
  PROVE  /\ req[r] \in Handler /\ req[r].pc = "saveBid"
         /\ req[r].session \in SessionId /\ IsOpen(req[r].session)
         /\ req[r].company \in Company \ {Owner} /\ req[r].amount \in Amount
         /\ req[r].row = session[req[r].session]
         /\ req[r].bid = OwnBid(BidsOf(req[r].session), req[r].company)
         /\ ValidBid(req[r].row, BidsOf(req[r].session), req[r].company, req[r].amount)
         /\ \/ /\ req[r].bid = NoBid
               /\ \A b \in BidsOf(req[r].session) : bids[b].bidder # req[r].company
            \/ /\ req[r].bid \in BidsOf(req[r].session) /\ req[r].bid \in 1 .. Len(bids)
               /\ bids[req[r].bid].session = req[r].session
               /\ bids[req[r].bid].bidder = req[r].company
<1>1. /\ req[r] \in Handler /\ HandlerOK(req[r]) /\ InHand(req[r])
      /\ req[r].pc = "saveBid" /\ bids \in Seq(BidRow)
  BY DEF IInv, TypeOK, HandlersOK, PlaceBidSave, SInv
<1>2. /\ req[r].session \in SessionId /\ req[r].company \in Company \ {Owner}
      /\ req[r].amount \in Amount /\ req[r].row.statusCode = "OPEN"
  BY <1>1 DEF HandlerOK, EntityWasOpen, PendingBid, Holding, Handler
<1>3. /\ req[r].row = session[req[r].session]
      /\ req[r].bid = OwnBid(BidsOf(req[r].session), req[r].company)
      /\ ValidBid(req[r].row, BidsOf(req[r].session), req[r].company, req[r].amount)
  BY <1>1 DEF InHand
<1>4. BidsOf(req[r].session) \subseteq 1 .. Len(bids)
  BY <1>1, <1>2, BidsOfIds
<1>5. \/ /\ req[r].bid = NoBid
         /\ \A b \in BidsOf(req[r].session) : bids[b].bidder # req[r].company
      \/ /\ req[r].bid \in BidsOf(req[r].session)
         /\ bids[req[r].bid].bidder = req[r].company
  BY <1>1, <1>3, <1>4, OwnBidFact
<1>6. \A b \in BidsOf(req[r].session) : bids[b].session = req[r].session
  BY DEF BidsOf
<1> QED BY <1>1, <1>2, <1>3, <1>4, <1>5, <1>6 DEF IsOpen

LEMMA PlaceBidSaveSerially ==
  ASSUME IInv, SInv, NEW r \in Request, PlaceBidSave(r)
  PROVE  SInv'
<1>1. /\ req[r] \in Handler /\ req[r].pc = "saveBid"
      /\ req[r].session \in SessionId /\ IsOpen(req[r].session)
      /\ req[r].company \in Company \ {Owner} /\ req[r].amount \in Amount
      /\ req[r].row = session[req[r].session]
  BY PendingBidFacts
<1>2. Moves(r) /\ UNCHANGED session /\ session \in [SessionId -> Row]
  BY <1>1 DEF PlaceBidSave, Moves, InFlight, IInv, TypeOK
<1>3. PICK h :
        /\ h = IF InExtendWindow(req[r].row)
               THEN [req[r] EXCEPT !.pc = "extend",
                       !.row.endsAt = req[r].row.endsAt + req[r].row.autoExtendMinutes]
               ELSE Idle
        /\ InHand(h)'
  <2>1. CASE InExtendWindow(req[r].row)
    <3>1. PICK row \in Row :
            row = [req[r].row EXCEPT !.endsAt = req[r].row.endsAt + req[r].row.autoExtendMinutes]
      <4>1. PICK end \in Nat : end = req[r].row.endsAt + req[r].row.autoExtendMinutes
        BY <1>1, <1>2 DEF Row
      <4>2. [req[r].row EXCEPT !.endsAt = end] \in Row
        BY <1>1, <1>2 DEF Row
      <4> QED BY <4>1, <4>2
    <3>2. req[r].row \in Row
      BY <1>1, <1>2
    <3>3. req[r].row.autoExtendMinutes > 0
      BY <2>1 DEF InExtendWindow
    <3>4. /\ row.endsAt > session[req[r].session].endsAt
          /\ row = [session[req[r].session] EXCEPT !.endsAt = row.endsAt]
      <4>1. row.endsAt = req[r].row.endsAt + req[r].row.autoExtendMinutes
        BY <3>1, <3>2 DEF Row
      <4>2. req[r].row.endsAt \in Nat /\ req[r].row.autoExtendMinutes \in Nat
        BY <3>2 DEF Row
      <4> QED BY <1>1, <3>1, <3>3, <4>1, <4>2
    <3>5. PICK h : h = [req[r] EXCEPT !.pc = "extend", !.row = row]
      OBVIOUS
    <3>6. h.pc = "extend" /\ h.session = req[r].session /\ h.row = row
      BY <1>1, <3>5 DEF Handler
    <3>7. InHand(h)'
      BY <1>2, <3>4, <3>6 DEF InHand, Finalizing
    <3>8. h = [req[r] EXCEPT !.pc = "extend",
                 !.row.endsAt = req[r].row.endsAt + req[r].row.autoExtendMinutes]
      BY <3>1, <3>5
    <3> QED BY <2>1, <3>7, <3>8
  <2>2. CASE ~InExtendWindow(req[r].row)
    <3>1. InHand(Idle)'
      BY DEF InHand, Idle, Finalizing
    <3> QED BY <2>2, <3>1
  <2> QED BY <2>1, <2>2
<1>4. req' = [req EXCEPT ![r] = h]
  BY <1>3 DEF PlaceBidSave
<1>5. CASE req[r].bid = NoBid /\ \A b \in BidsOf(req[r].session) : bids[b].bidder # req[r].company
  <2>1. PICK row \in BidRow :
          row = [session |-> req[r].session, bidder |-> req[r].company,
                 amount |-> req[r].amount]
    BY <1>1 DEF BidRow
  <2>2. row.session = req[r].session /\ row.bidder = req[r].company
    BY <2>1
  <2>3. bids' = Append(bids, row)
    BY <1>5, <2>1 DEF PlaceBidSave
  <2> QED BY <1>1, <1>2, <1>3, <1>4, <1>5, <2>2, <2>3, InsertSerially
<1>6. CASE req[r].bid \in 1 .. Len(bids) /\ bids[req[r].bid].session = req[r].session
  <2>1. PICK i \in 1 .. Len(bids), amount \in Amount :
          i = req[r].bid /\ amount = req[r].amount
    BY <1>1, <1>6
  <2>2. bids' = [bids EXCEPT ![i].amount = amount] /\ IsOpen(bids[i].session)
    BY <1>1, <1>6, <2>1 DEF PlaceBidSave
  <2> QED BY <1>2, <1>3, <1>4, <2>2, ReviseSerially
<1> QED BY <1>5, <1>6, PendingBidFacts

LEMMA PlaceBidExtendSerially ==
  ASSUME IInv, SInv, NEW r \in Request, PlaceBidExtend(r)
  PROVE  SInv'
<1>1. /\ req[r] \in Handler /\ HandlerOK(req[r]) /\ InHand(req[r]) /\ req[r].pc = "extend"
      /\ Moves(r) /\ req' = [req EXCEPT ![r] = Idle] /\ UNCHANGED bids
  BY DEF IInv, TypeOK, HandlersOK, SInv, PlaceBidExtend, Moves, InFlight
<1>2. InHand(Idle)'
  BY DEF InHand, Idle, Finalizing
<1>3. Sole' /\ \A q \in Request : InHand(req[q])'
  BY <1>1, <1>2, MoverKeeps DEF IInv
<1>4. OneBidEach' /\ WinnerIsBest'
  <2>1. CASE session' = session
    BY <1>1, <1>2, <2>1, ReadSerially DEF IInv, SInv
  <2>2. CASE session' = [session EXCEPT ![req[r].session] = req[r].row]
    <3>1. /\ req[r].session \in SessionId /\ req[r].row \in Row
          /\ req[r].row.statusCode = "OPEN"
          /\ req[r].row.auctionTypeCode = session[req[r].session].auctionTypeCode
      BY <1>1 DEF HandlerOK, EntityWasOpen, Holding, Handler
    <3> QED BY <1>1, <2>2, <3>1, WriteSessionSerially
  <2> QED BY <2>1, <2>2 DEF PlaceBidExtend
<1> QED BY <1>3, <1>4 DEF SInv

LEMMA FinalizeSaveSerially ==
  ASSUME IInv, SInv, NEW r \in Request, FinalizeSave(r)
  PROVE  SInv'
<1>1. /\ req[r] \in Handler /\ HandlerOK(req[r]) /\ InHand(req[r]) /\ req[r].pc = "finSave"
      /\ Moves(r) /\ UNCHANGED <<bids, now>> /\ session \in [SessionId -> Row]
  BY DEF IInv, TypeOK, HandlersOK, SInv, FinalizeSave, Moves, InFlight
<1>2. /\ req[r].session \in SessionId /\ req[r].row = session[req[r].session]
      /\ req[r].bid = BestBid(req[r].session) /\ req[r].bid \in Nat
      /\ req[r].queue \in SUBSET SessionId
      /\ \A s \in req[r].queue : Ends(s)
  BY <1>1 DEF HandlerOK, EntityWasOpen, Holding, InHand, Handler, Finalizing
<1>3. PICK row \in Row :
        row = [req[r].row EXCEPT !.statusCode = "CLOSED", !.winningBidId = req[r].bid]
  <2>1. req[r].row \in Row
    BY <1>1, <1>2
  <2>2. ASSUME NEW x \in Row, NEW b \in Nat
        PROVE  [x EXCEPT !.statusCode = "CLOSED", !.winningBidId = b] \in Row
    BY DEF Row
  <2> QED
    BY <1>2, <2>1, <2>2
<1>4. /\ row.winningBidId = req[r].bid
      /\ row.auctionTypeCode = req[r].row.auctionTypeCode
      /\ row.endsAt = req[r].row.endsAt
  BY <1>1, <1>2, <1>3 DEF Row
<1>5. PICK queue : queue = req[r].queue
  OBVIOUS
<1>6. /\ session' = [session EXCEPT ![req[r].session] = row]
      /\ req' = [req EXCEPT ![r] = NextInQueue(queue)]
  BY <1>3, <1>5 DEF FinalizeSave
<1>7. OneBidEach' /\ WinnerIsBest'
  BY <1>1, <1>2, <1>4, <1>6, WriteSessionSerially
<1>8. \A s \in queue : Ends(s)'
  BY <1>1, <1>2, <1>4, <1>5, <1>6 DEF Ends
<1>9. Sole' /\ \A q \in Request : InHand(req[q])'
  BY <1>1, <1>6, <1>8, QueueInHand, MoverKeeps DEF IInv
<1> QED BY <1>7, <1>9 DEF SInv

LEMMA NextSerially ==
  ASSUME serial, IInv, SInv, [Next]_vars
  PROVE  SInv'
<1>1. ASSUME NEW s \in SessionId, NEW type \in {"REVERSE_OPEN", "FIXED_ACCEPT"},
             NEW price \in AskedPrice, NEW d \in Duration, NEW terms \in ExtendTerms,
             CreateSession(s, type, price, d, terms)
      PROVE  SInv'
  BY <1>1, CreateSessionSerially
<1>2. ASSUME NEW r \in Request, NEW c \in Company, AcceptRead(r, c) PROVE SInv'
  BY <1>2, AcceptReadSerially
<1>3. ASSUME NEW r \in Request, NEW c \in Company, NEW s \in SessionId,
             NEW amount \in Amount, PlaceBidRead(r, c, s, amount)
      PROVE  SInv'
  BY <1>3, PlaceBidReadSerially
<1>4. ASSUME NEW r \in Request, SweepSelect(r) PROVE SInv'
  BY <1>4, SweepSelectSerially
<1>5. ASSUME NEW r \in Request, Step(r) PROVE SInv'
  BY <1>5, PlaceBidSaveSerially, PlaceBidExtendSerially, FinalizeReadSerially,
     FinalizePickSerially, FinalizeSaveSerially, AcceptCreateSerially, AcceptBidSerially
  DEF Step
<1>6. ASSUME NEW r \in Request, Fail(r) PROVE SInv'
  BY <1>6, FailSerially
<1>7. CASE Tick \/ Quiescent \/ UNCHANGED vars
  BY <1>7, TickSerially
<1> QED BY <1>1, <1>2, <1>3, <1>4, <1>5, <1>6, <1>7 DEF Next

LEMMA InitSerially == Init => SInv
<1> SUFFICES ASSUME Init PROVE SInv
  OBVIOUS
<1>1. \A r \in Request : req[r] = Idle /\ req[r].pc = "idle"
  BY DEF Init, Idle
<1>2. \A s \in SessionId : session[s].statusCode = "ABSENT"
  BY DEF Init, AbsentRow, NewRow
<1>3. Len(bids) = 0
  BY DEF Init
<1> QED BY <1>1, <1>2, <1>3
  DEF SInv, Sole, InFlight, InHand, Finalizing, OneBidEach, WinnerIsBest, Closed

LEMMA SerialInvariant == Spec => [](serial => SInv)
<1>1. Init => (serial => SInv)
  BY InitSerially
<1>2. IInv /\ (serial => SInv) /\ [Next]_vars => (serial => SInv)'
  <2>1. [Next]_vars => serial' = serial
    BY DEF Next, vars
  <2> QED BY <2>1, NextSerially
<1> QED BY <1>1, <1>2, InductiveInvariant, PTL DEF Spec

(* Handlers that run one at a time give every closed session to its lowest *)
(* bid, the earlier of two equal ones, and none without bids a winner,     *)
(* whatever calls throw in between: finalizeSession's ORDER BY.            *)
THEOREM WinnerIsLowest == Spec => [](serial => WinnerIsBest)
<1>1. (serial => SInv) => (serial => WinnerIsBest)
  BY DEF SInv
<1> QED BY <1>1, SerialInvariant, PTL

-----------------------------------------------------------------------------
(* AuctionContract: each step of the handlers is a step of the contract or *)
(* leaves what it sees of the tables alone.                                *)

LEMMA Views ==
  /\ \A s \in SessionId : Auctions[s] = AuctionOf(s) /\ Offers[s] = OffersOf(s)
  /\ \A s \in SessionId : Auctions'[s] = AuctionOf(s)' /\ Offers'[s] = OffersOf(s)'
BY DEF Auctions, Offers

LEMMA ViewsStable ==
  /\ UNCHANGED session => Auctions' = Auctions /\ \A s : AuctionOf(s)' = AuctionOf(s)
  /\ UNCHANGED bids => Offers' = Offers /\ \A s : OffersOf(s)' = OffersOf(s)
<1>1. UNCHANGED session => \A s : AuctionOf(s)' = AuctionOf(s)
  BY DEF AuctionOf
<1>2. UNCHANGED bids => \A s : OffersOf(s)' = OffersOf(s)
  BY DEF OffersOf, BidsOf
<1>3. UNCHANGED session => Auctions' = Auctions
  BY <1>1 DEF Auctions
<1>4. UNCHANGED bids => Offers' = Offers
  BY <1>2 DEF Offers
<1> QED BY <1>1, <1>2, <1>3, <1>4

LEMMA ContractStutters ==
  ASSUME UNCHANGED <<session, bids, now>>
  PROVE  UNCHANGED Contract!vars
BY ViewsStable DEF Contract!vars

LEMMA AnnounceStep ==
  ASSUME TypeOK, NEW s \in SessionId, NEW row \in Row,
         session[s].statusCode = "ABSENT",
         row.statusCode = "OPEN", row.winningBidId = NoBid, row.endsAt >= now,
         session' = [session EXCEPT ![s] = row], UNCHANGED <<bids, now>>
  PROVE  Contract!Announce(s)
<1>1. session'[s] = row /\ \A o \in SessionId : o # s => session'[o] = session[o]
  BY DEF TypeOK
<1>2. /\ AuctionOf(s).phase = "ABSENT"
      /\ AuctionOf(s)'.phase = "OPEN" /\ AuctionOf(s)'.winner = 0
      /\ AuctionOf(s)'.deadline >= now
  BY <1>1 DEF AuctionOf
<1>3. \A o \in SessionId : o # s => AuctionOf(o)' = AuctionOf(o)
  BY <1>1 DEF AuctionOf
<1> QED BY <1>2, <1>3, Views, ViewsStable DEF Contract!Announce, Contract!NoOffer

LEMMA ProlongStep ==
  ASSUME TypeOK, NEW s \in SessionId, NEW end \in Nat, IsOpen(s), end > session[s].endsAt,
         session' = [session EXCEPT ![s].endsAt = end], UNCHANGED <<bids, now>>
  PROVE  Contract!Prolong(s)
<1>1. session[s] \in Row /\ session'[s] = [session[s] EXCEPT !.endsAt = end]
      /\ \A o \in SessionId : o # s => session'[o] = session[o]
  BY DEF TypeOK
<1>2. /\ AuctionOf(s).phase = "OPEN" /\ AuctionOf(s)'.deadline > AuctionOf(s).deadline
      /\ AuctionOf(s)' = [AuctionOf(s) EXCEPT !.deadline = AuctionOf(s)'.deadline]
  BY <1>1 DEF AuctionOf, IsOpen, Row
<1>3. \A o \in SessionId : o # s => AuctionOf(o)' = AuctionOf(o)
  BY <1>1 DEF AuctionOf
<1>4. Auctions' = [Auctions EXCEPT ![s].deadline = Auctions'[s].deadline]
  BY <1>2, <1>3, Views DEF Auctions
<1> QED BY <1>2, <1>4, Views, ViewsStable DEF Contract!Prolong

(* The lowest bid is the best offer. *)
LEMMA BestIsBest ==
  ASSUME bids \in Seq(BidRow), NEW s \in SessionId
  PROVE  BestBid(s) \in {o.id : o \in {x \in OffersOf(s) : Contract!Best(s, x)}}
                          \union (IF OffersOf(s) = {} THEN {0} ELSE {})
<1>1. CASE BidsOf(s) = {}
  BY <1>1, BestBidFact DEF OffersOf
<1>2. CASE BidsOf(s) # {}
  <2> DEFINE b == BestBid(s)
             x == [id |-> b, company |-> bids[b].bidder, amount |-> bids[b].amount]
  <2>1. b \in BidsOf(s) /\ \A o \in BidsOf(s) : Precedes(b, o)
    BY <1>2, BestBidFact DEF IsBest
  <2>2. x \in OffersOf(s)
    BY <2>1 DEF OffersOf
  <2>3. \A o \in OffersOf(s) : x.amount < o.amount \/ (x.amount = o.amount /\ x.id <= o.id)
    BY <2>1 DEF OffersOf, Precedes
  <2>4. Contract!Best(s, x)
    BY <2>2, <2>3, Views DEF Contract!Best
  <2> QED BY <2>2, <2>4
<1> QED BY <1>1, <1>2

LEMMA AwardStep ==
  ASSUME TypeOK, NEW s \in SessionId, NEW row \in Row, IsOpen(s), Ends(s),
         row.statusCode = "CLOSED", row.winningBidId = BestBid(s),
         row.auctionTypeCode = session[s].auctionTypeCode,
         row.minimumBidAmount = session[s].minimumBidAmount,
         row.endsAt = session[s].endsAt,
         session' = [session EXCEPT ![s] = row], UNCHANGED <<bids, now>>
  PROVE  Contract!Award(s)
<1>1. /\ bids \in Seq(BidRow) /\ session'[s] = row
      /\ \A o \in SessionId : o # s => session'[o] = session[o]
  BY DEF TypeOK
<1>2. /\ AuctionOf(s).phase = "OPEN"
      /\ AuctionOf(s).kind = "FIXED_ACCEPT" \/ AuctionOf(s).deadline < now
  BY DEF AuctionOf, IsOpen, Ends
<1>3. AuctionOf(s)' = [AuctionOf(s) EXCEPT !.phase = "CLOSED", !.winner = BestBid(s)]
  <2> DEFINE View == [phase : {"ABSENT", "OPEN", "CLOSED"},
                      kind : {"REVERSE_OPEN", "FIXED_ACCEPT"},
                      ceiling : Amount, deadline : Nat, winner : Nat]
  <2>1. session[s] \in Row
    BY DEF TypeOK
  <2>2. PICK a \in View, b \in View : a = AuctionOf(s) /\ b = AuctionOf(s)'
    BY <1>1, <2>1 DEF AuctionOf, Row
  <2>3. /\ b.phase = "CLOSED" /\ b.winner = BestBid(s) /\ BestBid(s) \in Nat
        /\ b.kind = a.kind /\ b.ceiling = a.ceiling /\ b.deadline = a.deadline
    BY <1>1, <2>2 DEF AuctionOf, Row
  <2>4. b = [a EXCEPT !.phase = "CLOSED", !.winner = BestBid(s)]
    BY <2>3
  <2> QED BY <2>2, <2>4
<1>4. \A o \in SessionId : o # s => AuctionOf(o)' = AuctionOf(o)
  BY <1>1 DEF AuctionOf
<1>5. Auctions' = [Auctions EXCEPT ![s].phase = "CLOSED", ![s].winner = BestBid(s)]
  BY <1>3, <1>4, Views DEF Auctions
<1>6. BestBid(s) \in {o.id : o \in {x \in OffersOf(s) : Contract!Best(s, x)}}
                       \union (IF OffersOf(s) = {} THEN {0} ELSE {})
  BY <1>1, BestIsBest
<1> QED BY <1>2, <1>5, <1>6, Views, ViewsStable DEF Contract!Award, Contract!NoOffer

(* An offer that keeps to the contract: a new one, after all others, or a  *)
(* revision that keeps its place.                                          *)
LEMMA NewOfferStep ==
  ASSUME TypeOK, NEW row \in BidRow, IsOpen(row.session), row.bidder # Owner,
         Contract!Acceptable(row.session, row.bidder, row.amount),
         \/ session[row.session].auctionTypeCode = "FIXED_ACCEPT"
         \/ \A b \in BidsOf(row.session) : bids[b].bidder # row.bidder,
         bids' = Append(bids, row), UNCHANGED <<session, now>>
  PROVE  Contract!Offer(row.session)
<1>1. /\ Len(bids) \in Nat /\ Len(bids') = Len(bids) + 1
      /\ \A b \in 1 .. Len(bids) : bids'[b] = bids[b]
      /\ bids'[Len(bids) + 1] = row
      /\ \A b \in 1 .. Len(bids') : b \in 1 .. Len(bids) \/ b = Len(bids) + 1
  BY Inserted DEF TypeOK
<1>2. PICK s \in SessionId, c \in Company \ {Owner}, amount \in Amount :
        s = row.session /\ c = row.bidder /\ amount = row.amount
  BY DEF BidRow
<1>3. PICK o : o = [id |-> Len(bids) + 1, company |-> c, amount |-> amount]
  OBVIOUS
<1>4. OffersOf(s)' = OffersOf(s) \union {o}
  <2>1. BidsOf(s)' = BidsOf(s) \union {Len(bids) + 1}
    BY <1>1, <1>2 DEF BidsOf
  <2>2. \A b \in BidsOf(s) : bids'[b] = bids[b]
    BY <1>1 DEF BidsOf
  <2>3. ASSUME NEW x \in OffersOf(s)' PROVE x \in OffersOf(s) \union {o}
    <3>1. PICK b \in BidsOf(s) \union {Len(bids) + 1} :
            x = [id |-> b, company |-> bids'[b].bidder, amount |-> bids'[b].amount]
      BY <2>1, <2>3 DEF OffersOf
    <3>2. CASE b = Len(bids) + 1
      BY <1>1, <1>2, <1>3, <3>1, <3>2
    <3>3. CASE b \in BidsOf(s)
      BY <2>2, <3>1, <3>3 DEF OffersOf
    <3> QED BY <3>2, <3>3
  <2>4. o \in OffersOf(s)'
    BY <1>1, <1>2, <1>3, <2>1 DEF OffersOf
  <2>5. ASSUME NEW x \in OffersOf(s) PROVE x \in OffersOf(s)'
    BY <2>1, <2>2 DEF OffersOf
  <2> QED BY <2>3, <2>4, <2>5
<1>5. ASSUME NEW t \in SessionId, t # s PROVE OffersOf(t)' = OffersOf(t)
  <2>1. BidsOf(t)' = BidsOf(t)
    BY <1>1, <1>2, <1>5 DEF BidsOf
  <2>2. \A b \in BidsOf(t) : bids'[b] = bids[b]
    BY <1>1 DEF BidsOf
  <2> QED BY <2>1, <2>2 DEF OffersOf
<1>6. \A t \in SessionId : \A x \in OffersOf(t) : x.id < o.id
  BY <1>1, <1>3 DEF OffersOf, BidsOf
<1>7. AuctionOf(s).kind = "FIXED_ACCEPT" \/ \A x \in OffersOf(s) : x.company # c
  BY <1>2 DEF AuctionOf, OffersOf
<1>8. AuctionOf(s).phase = "OPEN"
  BY <1>2 DEF AuctionOf, IsOpen
<1>9. o = [id |-> o.id, company |-> c, amount |-> amount]
  BY <1>3
<1>10. Offers' = [Offers EXCEPT ![s] = @ \union {o}] /\ o \in Offers'[s]
  BY <1>4, <1>5, Views DEF Offers
<1>11. \E x \in Offers'[s] :
         /\ Auctions[s].kind = "FIXED_ACCEPT" \/ \A y \in Offers[s] : y.company # c
         /\ \A t \in SessionId : \A y \in Offers[t] : y.id < x.id
         /\ x = [id |-> x.id, company |-> c, amount |-> amount]
         /\ Offers' = [Offers EXCEPT ![s] = @ \union {x}]
  <2>1. /\ Auctions[s].kind = "FIXED_ACCEPT" \/ \A y \in Offers[s] : y.company # c
        /\ \A t \in SessionId : \A y \in Offers[t] : y.id < o.id
    BY <1>6, <1>7, Views
  <2> QED BY <1>9, <1>10, <2>1, Zenon
<1>12. Auctions[s].phase = "OPEN" /\ Contract!Acceptable(s, c, amount)
  BY <1>2, <1>8, Views
<1>13. Contract!Offer(s)
  BY <1>11, <1>12, ViewsStable, Zenon DEF Contract!Offer
<1> QED BY <1>2, <1>13

LEMMA RevisedOfferStep ==
  ASSUME TypeOK, NEW s \in SessionId, NEW i \in BidsOf(s), NEW amount \in Amount,
         IsOpen(s), bids[i].bidder \in Company \ {Owner},
         Contract!Acceptable(s, bids[i].bidder, amount),
         bids' = [bids EXCEPT ![i].amount = amount], UNCHANGED <<session, now>>
  PROVE  Contract!Offer(s)
<1>1. i \in 1 .. Len(bids) /\ bids \in Seq(BidRow) /\ bids[i].session = s
  BY DEF BidsOf, TypeOK
<1>2. /\ Len(bids') = Len(bids)
      /\ \A b \in 1 .. Len(bids) : /\ bids'[b].session = bids[b].session
                                   /\ bids'[b].bidder = bids[b].bidder
                                   /\ b # i => bids'[b] = bids[b]
      /\ bids'[i].amount = amount
  BY <1>1, Revised
<1>3. \A t : BidsOf(t)' = BidsOf(t)
  BY <1>2 DEF BidsOf
<1>4. PICK o, n : /\ o = [id |-> i, company |-> bids[i].bidder, amount |-> bids[i].amount]
                  /\ n = [id |-> i, company |-> bids[i].bidder, amount |-> amount]
  BY Zenon
<1>5. OffersOf(s)' = (OffersOf(s) \ {o}) \union {n}
  <2>1. ASSUME NEW x \in OffersOf(s)' PROVE x \in (OffersOf(s) \ {o}) \union {n}
    <3>1. PICK b \in BidsOf(s) :
            x = [id |-> b, company |-> bids'[b].bidder, amount |-> bids'[b].amount]
      BY <1>3, <2>1 DEF OffersOf
    <3>2. b \in 1 .. Len(bids)
      BY <3>1 DEF BidsOf
    <3>3. CASE b = i
      BY <1>2, <1>4, <3>1, <3>2, <3>3
    <3>4. CASE b # i
      <4>1. x = [id |-> b, company |-> bids[b].bidder, amount |-> bids[b].amount]
        BY <1>2, <3>1, <3>2, <3>4
      <4> QED BY <1>4, <3>1, <3>4, <4>1 DEF OffersOf
    <3> QED BY <3>3, <3>4
  <2>2. n \in OffersOf(s)'
    BY <1>1, <1>2, <1>3, <1>4 DEF OffersOf
  <2>3. ASSUME NEW x \in OffersOf(s) \ {o} PROVE x \in OffersOf(s)'
    <3>1. PICK b \in BidsOf(s) :
            x = [id |-> b, company |-> bids[b].bidder, amount |-> bids[b].amount]
      BY <2>3 DEF OffersOf
    <3>2. b \in 1 .. Len(bids) /\ b # i
      BY <1>4, <2>3, <3>1 DEF BidsOf
    <3> QED BY <1>2, <1>3, <3>1, <3>2 DEF OffersOf
  <2> QED BY <2>1, <2>2, <2>3
<1>6. ASSUME NEW t \in SessionId, t # s PROVE OffersOf(t)' = OffersOf(t)
  <2>1. \A b \in BidsOf(t) : bids'[b] = bids[b]
    BY <1>1, <1>2, <1>6 DEF BidsOf
  <2> QED BY <1>3, <2>1 DEF OffersOf
<1>7. AuctionOf(s).phase = "OPEN"
  BY DEF AuctionOf, IsOpen
<1>8. /\ o \in OffersOf(s) /\ o.company = bids[i].bidder
      /\ n = [o EXCEPT !.amount = amount]
  BY <1>4 DEF OffersOf
<1>9. Offers' = [Offers EXCEPT ![s] = (@ \ {o}) \union {[o EXCEPT !.amount = amount]}]
  BY <1>5, <1>6, <1>8, Views DEF Offers
<1> QED BY <1>7, <1>8, <1>9, Views, ViewsStable DEF Contract!Offer

(* What placeBid lets through, the contract accepts: the company's latest  *)
(* bid is its only one.                                                    *)
LEMMA BidIsAcceptable ==
  ASSUME IInv, SInv, NEW r \in Request, PlaceBidSave(r)
  PROVE  Contract!Acceptable(req[r].session, req[r].company, req[r].amount)
<1>1. PICK s \in SessionId, c \in Company, amount \in Amount :
        s = req[r].session /\ c = req[r].company /\ amount = req[r].amount
  BY PendingBidFacts
<1>2. /\ ValidBid(session[s], BidsOf(s), c, amount)
      /\ OwnBid(BidsOf(s), c) = NoBid => \A b \in BidsOf(s) : bids[b].bidder # c
      /\ OwnBid(BidsOf(s), c) # NoBid => /\ OwnBid(BidsOf(s), c) \in BidsOf(s)
                                         /\ bids[OwnBid(BidsOf(s), c)].bidder = c
  BY <1>1, PendingBidFacts
<1>3. /\ Auctions[s].kind = session[s].auctionTypeCode
      /\ Auctions[s].ceiling = session[s].minimumBidAmount
      /\ Offers[s] = OffersOf(s)
  <2>1. /\ AuctionOf(s).kind = session[s].auctionTypeCode
        /\ AuctionOf(s).ceiling = session[s].minimumBidAmount
    BY DEF AuctionOf
  <2> QED BY <2>1, Views
<1>4. CASE session[s].auctionTypeCode = "FIXED_ACCEPT"
  BY <1>1, <1>2, <1>3, <1>4 DEF ValidBid, Contract!Acceptable
<1>5. CASE session[s].auctionTypeCode # "FIXED_ACCEPT"
  <2> DEFINE others == {b \in BidsOf(s) : bids[b].bidder # c}
             rivals == {o \in OffersOf(s) : o.company # c}
  <2>1. ValidReverseBid(session[s], BidsOf(s), c, amount)
    BY <1>2, <1>5 DEF ValidBid
  <2>2. rivals = {[id |-> b, company |-> bids[b].bidder, amount |-> bids[b].amount] :
                     b \in others}
    BY DEF OffersOf
  <2>3. ASSUME rivals = {} PROVE amount <= session[s].minimumBidAmount
    <3>1. others = {}
      BY <2>2, <2>3
    <3> QED BY <2>1, <3>1 DEF ValidReverseBid
  <2>4. ASSUME NEW o \in rivals PROVE amount <= o.amount - BidStep
    <3>1. PICK b \in others : o.amount = bids[b].amount
      BY <2>2
    <3>2. others # {}
      BY <3>1
    <3>3. amount <= bids[b].amount - BidStep
      BY <2>1, <3>1, <3>2 DEF ValidReverseBid
    <3> QED BY <3>1, <3>3
  <2>5. ASSUME rivals # {}, NEW o \in OffersOf(s) \ rivals PROVE amount < o.amount
    <3>1. PICK b \in BidsOf(s) :
            o = [id |-> b, company |-> bids[b].bidder, amount |-> bids[b].amount]
      BY DEF OffersOf
    <3>2. bids[b].bidder = c
      BY <2>5, <3>1
    <3>3. OwnBid(BidsOf(s), c) # NoBid
      BY <1>2, <3>2
    <3>4. OwnBid(BidsOf(s), c) = b
      <4>1. OwnBid(BidsOf(s), c) \in BidsOf(s) /\ bids[OwnBid(BidsOf(s), c)].bidder = c
        BY <1>2, <3>3
      <4> HIDE DEF others, rivals
      <4> QED BY <1>5, <3>2, <4>1 DEF SInv, OneBidEach, BidsOf
    <3>5. others # {}
      BY <2>2, <2>5
    <3>6. amount < bids[b].amount
      BY <2>1, <3>3, <3>4, <3>5 DEF ValidReverseBid
    <3> QED BY <3>1, <3>6
  <2>6. Contract!Acceptable(s, c, amount)
    <3> HIDE DEF others
    <3> QED BY <1>3, <1>5, <2>3, <2>4, <2>5 DEF Contract!Acceptable
  <2> QED BY <1>1, <2>6
<1> QED BY <1>4, <1>5

LEMMA PlaceBidSaveRefines ==
  ASSUME IInv, SInv, NEW r \in Request, PlaceBidSave(r)
  PROVE  Contract!Next
<1>1. /\ req[r] \in Handler /\ req[r].session \in SessionId /\ IsOpen(req[r].session)
      /\ req[r].company \in Company \ {Owner} /\ req[r].amount \in Amount
      /\ Contract!Acceptable(req[r].session, req[r].company, req[r].amount)
      /\ TypeOK /\ UNCHANGED <<session, now>>
  BY PendingBidFacts, BidIsAcceptable DEF PlaceBidSave, IInv
<1>2. CASE req[r].bid = NoBid /\ \A b \in BidsOf(req[r].session) : bids[b].bidder # req[r].company
  <2>1. PICK row \in BidRow :
          row = [session |-> req[r].session, bidder |-> req[r].company,
                 amount |-> req[r].amount]
    BY <1>1 DEF BidRow
  <2>2. /\ row.session = req[r].session /\ row.bidder = req[r].company
        /\ row.amount = req[r].amount
    BY <2>1
  <2>3. bids' = Append(bids, row)
    BY <1>2, <2>1 DEF PlaceBidSave
  <2>4. Contract!Offer(row.session)
    BY <1>1, <1>2, <2>2, <2>3, NewOfferStep
  <2> QED BY <1>1, <2>2, <2>4 DEF Contract!Next
<1>3. CASE req[r].bid \in BidsOf(req[r].session) /\ bids[req[r].bid].bidder = req[r].company
  <2>1. PICK s \in SessionId : s = req[r].session
    BY <1>1
  <2>2. PICK i \in BidsOf(s), amount \in Amount : i = req[r].bid /\ amount = req[r].amount
    BY <1>1, <1>3, <2>1
  <2>3. i # NoBid
    BY DEF BidsOf
  <2>4. bids' = [bids EXCEPT ![i].amount = amount]
    BY <2>2, <2>3 DEF PlaceBidSave
  <2>5. Contract!Offer(s)
    BY <1>1, <1>3, <2>1, <2>2, <2>4, RevisedOfferStep
  <2> QED BY <2>5 DEF Contract!Next
<1> QED BY <1>2, <1>3, PendingBidFacts

LEMMA PlaceBidExtendRefines ==
  ASSUME IInv, SInv, NEW r \in Request, PlaceBidExtend(r)
  PROVE  Contract!Next \/ UNCHANGED Contract!vars
<1>1. /\ req[r] \in Handler /\ HandlerOK(req[r]) /\ InHand(req[r]) /\ req[r].pc = "extend"
      /\ TypeOK /\ UNCHANGED <<bids, now>>
  BY DEF IInv, TypeOK, HandlersOK, SInv, PlaceBidExtend
<1>2. CASE session' = session
  BY <1>1, <1>2, ContractStutters
<1>3. CASE session' = [session EXCEPT ![req[r].session] = req[r].row]
  <2>1. PICK s \in SessionId, end \in Nat : s = req[r].session /\ end = req[r].row.endsAt
    BY <1>1 DEF HandlerOK, EntityWasOpen, Holding, Handler, Row
  <2>2. end > session[s].endsAt /\ req[r].row = [session[s] EXCEPT !.endsAt = end]
    BY <1>1, <2>1 DEF InHand
  <2>3. session[s].statusCode = "OPEN"
    <3>1. req[r].row.statusCode = "OPEN" /\ session[s] \in Row
      BY <1>1 DEF HandlerOK, EntityWasOpen, Holding, TypeOK
    <3> QED BY <2>2, <3>1 DEF Row
  <2>4. session' = [session EXCEPT ![s].endsAt = end]
    BY <1>3, <2>1, <2>2
  <2>5. Contract!Prolong(s)
    BY <1>1, <2>2, <2>3, <2>4, ProlongStep DEF IsOpen
  <2> QED BY <2>5 DEF Contract!Next
<1> QED BY <1>2, <1>3 DEF PlaceBidExtend

LEMMA FinalizeSaveRefines ==
  ASSUME IInv, SInv, NEW r \in Request, FinalizeSave(r)
  PROVE  Contract!Next
<1>1. /\ req[r] \in Handler /\ HandlerOK(req[r]) /\ InHand(req[r]) /\ req[r].pc = "finSave"
      /\ UNCHANGED <<bids, now>> /\ TypeOK /\ session \in [SessionId -> Row]
  BY DEF IInv, TypeOK, HandlersOK, SInv, FinalizeSave
<1>2. PICK s \in SessionId : s = req[r].session
  BY <1>1 DEF HandlerOK, EntityWasOpen, Holding
<1>3. /\ req[r].row = session[s] /\ IsOpen(s) /\ Ends(s)
      /\ req[r].bid = BestBid(s) /\ req[r].bid \in Nat /\ session[s] \in Row
  BY <1>1, <1>2 DEF HandlerOK, EntityWasOpen, Holding, InHand, Handler, IsOpen
<1>4. PICK row \in Row :
        row = [req[r].row EXCEPT !.statusCode = "CLOSED", !.winningBidId = req[r].bid]
  BY <1>3 DEF Row
<1>5. /\ row.statusCode = "CLOSED" /\ row.winningBidId = req[r].bid
      /\ row.auctionTypeCode = req[r].row.auctionTypeCode
      /\ row.minimumBidAmount = req[r].row.minimumBidAmount
      /\ row.endsAt = req[r].row.endsAt
  BY <1>3, <1>4 DEF Row
<1>6. session' = [session EXCEPT ![s] = row]
  BY <1>2, <1>4 DEF FinalizeSave
<1>7. Contract!Award(s)
  BY <1>1, <1>3, <1>5, <1>6, AwardStep
<1> QED BY <1>7 DEF Contract!Next

LEMMA AcceptCreateRefines ==
  ASSUME IInv, NEW r \in Request, AcceptCreate(r)
  PROVE  Contract!Next
<1>1. PICK s \in SessionId :
        /\ session[s].statusCode = "ABSENT"
        /\ session' = [session EXCEPT ![s] =
             NewRow("FIXED_ACCEPT", ListingPrice, now + FixedDuration, <<0, 0>>)]
  BY DEF AcceptCreate
<1>2. PICK row \in Row :
        row = NewRow("FIXED_ACCEPT", ListingPrice, now + FixedDuration, <<0, 0>>)
  BY NewRowType, AmountAssumption, TermAssumption DEF IInv, TypeOK
<1>3. row.statusCode = "OPEN" /\ row.winningBidId = NoBid /\ row.endsAt = now + FixedDuration
  BY <1>2 DEF NewRow
<1>4. row.endsAt >= now /\ TypeOK /\ UNCHANGED <<bids, now>>
  BY <1>3, TermAssumption DEF IInv, TypeOK, AcceptCreate
<1>5. Contract!Announce(s)
  BY <1>1, <1>2, <1>3, <1>4, AnnounceStep
<1> QED BY <1>5 DEF Contract!Next

LEMMA CreateSessionRefines ==
  ASSUME IInv, NEW s \in SessionId, NEW type \in {"REVERSE_OPEN", "FIXED_ACCEPT"},
         NEW price \in AskedPrice, NEW d \in Duration, NEW terms \in ExtendTerms,
         CreateSession(s, type, price, d, terms)
  PROVE  Contract!Next
<1>1. PICK row \in Row : row = NewRow(type, price, now + d, terms)
  BY NewRowType, AmountAssumption, TermAssumption DEF IInv, TypeOK
<1>2. row.statusCode = "OPEN" /\ row.winningBidId = NoBid /\ row.endsAt = now + d
  BY <1>1 DEF NewRow
<1>3. row.endsAt >= now /\ TypeOK
  BY <1>2, TermAssumption DEF IInv, TypeOK
<1>4. /\ session[s].statusCode = "ABSENT" /\ session' = [session EXCEPT ![s] = row]
      /\ UNCHANGED <<bids, now>>
  BY <1>1 DEF CreateSession
<1>5. Contract!Announce(s)
  BY <1>2, <1>3, <1>4, AnnounceStep
<1> QED BY <1>5 DEF Contract!Next

LEMMA AcceptBidRefines ==
  ASSUME IInv, SInv, NEW r \in Request, AcceptBid(r)
  PROVE  Contract!Next
<1>1. /\ req[r] \in Handler /\ HandlerOK(req[r]) /\ InHand(req[r]) /\ req[r].pc = "accBid"
      /\ TypeOK /\ UNCHANGED <<session, now>>
  BY DEF IInv, TypeOK, HandlersOK, AcceptBid, SInv
<1>2. /\ req[r].company \in Company /\ req[r].company # Owner
      /\ req[r].session \in SessionId /\ IsOpen(req[r].session)
      /\ session[req[r].session].auctionTypeCode = "FIXED_ACCEPT"
  BY <1>1 DEF HandlerOK, PendingAcceptance, InHand
<1>3. PICK row \in BidRow :
        row = [session |-> req[r].session, bidder |-> req[r].company,
               amount |-> ListingPrice]
  BY <1>2, AmountAssumption DEF BidRow
<1>4. /\ row.session = req[r].session /\ row.bidder = req[r].company
      /\ row.amount = ListingPrice
  BY <1>3
<1>5. bids' = Append(bids, row)
  BY <1>3 DEF AcceptBid
<1>6. Contract!Acceptable(row.session, row.bidder, row.amount)
  <2>1. AuctionOf(row.session).kind = "FIXED_ACCEPT"
    BY <1>2, <1>4 DEF AuctionOf
  <2>2. Auctions[row.session].kind = "FIXED_ACCEPT"
    BY <1>2, <1>4, <2>1, Views
  <2> QED BY <1>4, <2>2 DEF Contract!Acceptable
<1>7. Contract!Offer(row.session)
  BY <1>1, <1>2, <1>4, <1>5, <1>6, NewOfferStep
<1> QED BY <1>2, <1>4, <1>7 DEF Contract!Next

LEMMA NextRefines ==
  ASSUME IInv, SInv, [Next]_vars
  PROVE  Contract!Next \/ UNCHANGED Contract!vars
<1>1. ASSUME NEW s \in SessionId, NEW type \in {"REVERSE_OPEN", "FIXED_ACCEPT"},
             NEW price \in AskedPrice, NEW d \in Duration, NEW terms \in ExtendTerms,
             CreateSession(s, type, price, d, terms)
      PROVE  Contract!Next
  BY <1>1, CreateSessionRefines
<1>2. ASSUME UNCHANGED <<session, bids, now>> PROVE UNCHANGED Contract!vars
  BY <1>2, ContractStutters
<1>3. ASSUME NEW r \in Request, NEW c \in Company, AcceptRead(r, c)
      PROVE  UNCHANGED Contract!vars
  BY <1>2, <1>3, Zenon DEF AcceptRead
<1>4. ASSUME NEW r \in Request, NEW c \in Company, NEW s \in SessionId,
             NEW amount \in Amount, PlaceBidRead(r, c, s, amount)
      PROVE  UNCHANGED Contract!vars
  BY <1>2, <1>4 DEF PlaceBidRead
<1>5. ASSUME NEW r \in Request,
             \/ SweepSelect(r) \/ Fail(r) \/ FinalizeRead(r) \/ FinalizePick(r)
      PROVE  UNCHANGED Contract!vars
  <2>1. UNCHANGED <<session, bids, now>>
    BY <1>5, Zenon DEF SweepSelect, Fail, FinalizeRead, FinalizePick
  <2> QED BY <1>2, <2>1
<1>6. ASSUME NEW r \in Request, Step(r) PROVE Contract!Next \/ UNCHANGED Contract!vars
  BY <1>5, <1>6, PlaceBidSaveRefines, PlaceBidExtendRefines, FinalizeSaveRefines,
     AcceptCreateRefines, AcceptBidRefines
  DEF Step
<1>7. CASE Tick
  BY <1>7, ViewsStable DEF Tick, Contract!Next, Contract!Tick
<1>8. CASE Quiescent \/ UNCHANGED vars
  BY <1>2, <1>8 DEF Quiescent, vars, moving
<1> QED BY <1>1, <1>3, <1>4, <1>5, <1>6, <1>7, <1>8 DEF Next

(* createSession, placeBid, acceptListingFixedPrice and the sweep, each in *)
(* several calls of the database that may throw, implement the contract    *)
(* when one handler runs at a time: every announcement, offer,             *)
(* prolongation and award takes effect in one step, decided on the tables  *)
(* as they are then.                                                       *)
THEOREM ImplementsContract == Spec => KeepsContractSerially
<1>1. Init => Contract!Init
  <2> SUFFICES ASSUME Init PROVE Contract!Init
    OBVIOUS
  <2>1. \A s \in SessionId : Auctions[s].phase = "ABSENT"
    BY Views DEF Init, AuctionOf, AbsentRow, NewRow
  <2>2. \A s \in SessionId : OffersOf(s) = {}
    BY DEF Init, OffersOf, BidsOf
  <2>3. Offers = [s \in SessionId |-> {}]
    BY <2>2 DEF Offers
  <2> QED BY <2>1, <2>3 DEF Init, Contract!Init
<1>2. Init => (serial => Contract!Init)
  BY <1>1
<1>3. IInv /\ (serial => SInv) /\ [Next]_vars => [serial => Contract!Next]_(Contract!vars)
  BY NextRefines
<1> QED BY <1>2, <1>3, InductiveInvariant, SerialInvariant, PTL DEF Spec, KeepsContractSerially
=============================================================================
