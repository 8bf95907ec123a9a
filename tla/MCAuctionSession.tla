-------------------------- MODULE MCAuctionSession --------------------------
(***************************************************************************)
(* AuctionSession for TLC.  Either two requests and the sweep interleave   *)
(* at every await, in one session with two bids, or handlers are serial,   *)
(* one request and the sweep, with two sessions and three bids.            *)
(***************************************************************************)
EXTENDS AuctionRefinement

CONSTANTS shipper, c1, c2, s1, s2, sweep, r1, r2

MCCompany == {shipper, c1, c2}
MCSessions == {s1, s2}
MCRequests == {sweep, r1, r2}
MCAmounts == 1 .. 3
MCAsked == {2, 3}
MCDurations == {2}
MCExtending == {<<1, 2>>}

(* Overlapping handlers have the session s1, opened at 2, and two bids. *)
Overlapping ==
  /\ s2 \in Absent /\ session[s1].minimumBidAmount = 2
  /\ Len(bids) + Cardinality(Inserting) <= 2
  /\ Creating # {} => s1 \in Absent /\ Cardinality(Creating) = 1

(* Serial ones have the request r1, and sessions opened at 3.  The ids are *)
(* interchangeable: c1 is the first that bids or accepts, and the first    *)
(* session takes s1.                                                       *)
Serially ==
  /\ ~InFlight(r2)
  /\ \A s \in SessionId : session[s].autoExtendMinutes > 0 => session[s].minimumBidAmount = 3
  /\ bids = << >> => req[r1].company # c2
  /\ s1 \in Absent => s2 \in Absent

MCNext == Next /\ IF serial THEN Serially' ELSE Overlapping'
MCSpec ==
  /\ Init /\ [][MCNext]_vars
  /\ \A r \in Request : WF_moving(~serial /\ Step(r))
  /\ WF_moving(~serial /\ SweepSelect(sweep))

(* No overdue session stays open for good, whatever stale saves do to it.  *)
OverdueClosesOverlapping == ~serial => OverdueCloses
=============================================================================
