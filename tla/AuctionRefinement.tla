------------------------- MODULE AuctionRefinement --------------------------
(* AuctionContract read off the tables of AuctionSession, which the        *)
(* handlers keep as long as they run one at a time.                        *)
EXTENDS AuctionSession

AuctionOf(s) ==
  [phase |-> session[s].statusCode, kind |-> session[s].auctionTypeCode,
   ceiling |-> session[s].minimumBidAmount, deadline |-> session[s].endsAt,
   winner |-> session[s].winningBidId]

OffersOf(s) == {[id |-> b, company |-> bids[b].bidder, amount |-> bids[b].amount] :
                  b \in BidsOf(s)}

Auctions == [s \in SessionId |-> AuctionOf(s)]
Offers == [s \in SessionId |-> OffersOf(s)]

Contract == INSTANCE AuctionContract
              WITH auction <- Auctions, offers <- Offers, clock <- now

(* Whatever createSession, placeBid, acceptListingFixedPrice and the sweep *)
(* do in several calls, one handler after the other, amounts to the single *)
(* steps of the contract.                                                  *)
KeepsContractSerially ==
  /\ serial => Contract!Init
  /\ [][serial => Contract!Next]_(Contract!vars)
=============================================================================
