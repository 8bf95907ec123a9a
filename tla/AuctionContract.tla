-------------------------- MODULE AuctionContract ---------------------------
(***************************************************************************)
(* What the auction promises to the owner of a listing and to the bidders, *)
(* without handlers, rows or timers: an offer, a prolongation and an award *)
(* are each one step, decided on the state in which they take effect.      *)
(***************************************************************************)
EXTENDS Integers

CONSTANTS Company, Owner, SessionId, Amount, BidStep, ListingPrice

VARIABLES
  auction,   \* by session: phase, kind, ceiling, deadline and winner
  offers,    \* by session: the set of [id, company, amount] on the table
  clock

vars == <<auction, offers, clock>>

NoOffer == 0

Init ==
  /\ \A s \in SessionId : auction[s].phase = "ABSENT"
  /\ offers = [s \in SessionId |-> {}]
  /\ clock = 0

(* An offer of a reverse auction stays under the ceiling, undercuts every  *)
(* rival by a step and, once there is a rival, the company's own offer; a  *)
(* fixed price is accepted as it is.                                       *)
Acceptable(s, c, amount) ==
  LET rivals == {o \in offers[s] : o.company # c}
      own == offers[s] \ rivals
  IN  IF auction[s].kind = "FIXED_ACCEPT"
      THEN amount \in {auction[s].ceiling, ListingPrice}
      ELSE /\ rivals = {} => amount <= auction[s].ceiling
           /\ \A o \in rivals : amount <= o.amount - BidStep
           /\ rivals # {} => \A o \in own : amount < o.amount

Best(s, o) ==
  /\ o \in offers[s]
  /\ \A x \in offers[s] :
       o.amount < x.amount \/ (o.amount = x.amount /\ o.id <= x.id)

-----------------------------------------------------------------------------
Announce(s) ==
  /\ auction[s].phase = "ABSENT"
  /\ auction'[s].phase = "OPEN" /\ auction'[s].winner = NoOffer
  /\ auction'[s].deadline >= clock
  /\ \A o \in SessionId \ {s} : auction'[o] = auction[o]
  /\ UNCHANGED <<offers, clock>>

(* A new offer comes after all earlier ones; a company that has an offer   *)
(* in a reverse auction revises it, and the revision keeps its place.      *)
Offer(s) ==
  /\ auction[s].phase = "OPEN"
  /\ \E c \in Company \ {Owner}, amount \in Amount :
       /\ Acceptable(s, c, amount)
       /\ \/ \E o \in offers'[s] :
               /\ auction[s].kind = "FIXED_ACCEPT" \/ \A x \in offers[s] : x.company # c
               /\ \A t \in SessionId : \A x \in offers[t] : x.id < o.id
               /\ o = [id |-> o.id, company |-> c, amount |-> amount]
               /\ offers' = [offers EXCEPT ![s] = @ \union {o}]
          \/ \E o \in offers[s] :
               /\ o.company = c
               /\ offers' = [offers EXCEPT ![s] =
                    (@ \ {o}) \union {[o EXCEPT !.amount = amount]}]
  /\ UNCHANGED <<auction, clock>>

Prolong(s) ==
  /\ auction[s].phase = "OPEN"
  /\ auction'[s].deadline > auction[s].deadline
  /\ auction' = [auction EXCEPT ![s].deadline = auction'[s].deadline]
  /\ UNCHANGED <<offers, clock>>

Award(s) ==
  /\ auction[s].phase = "OPEN"
  /\ auction[s].kind = "FIXED_ACCEPT" \/ auction[s].deadline < clock
  /\ \E winner \in {o.id : o \in {x \in offers[s] : Best(s, x)}}
                     \union (IF offers[s] = {} THEN {NoOffer} ELSE {}) :
       auction' = [auction EXCEPT ![s].phase = "CLOSED", ![s].winner = winner]
  /\ UNCHANGED <<offers, clock>>

Tick == clock' = clock + 1 /\ UNCHANGED <<auction, offers>>

Next == Tick \/ \E s \in SessionId : Announce(s) \/ Offer(s) \/ Prolong(s) \/ Award(s)

Spec == Init /\ [][Next]_vars
=============================================================================
