------------------------ MODULE MCTransportAndRooms ------------------------
(***************************************************************************)
(* TransportAndRooms for TLC.  Of the transport, handlers interleave at    *)
(* every await, or they are serial and have a longer clock.                *)
(***************************************************************************)
EXTENDS TransportAndRooms

CONSTANTS owner, carrier, sweep, r1, r2, u1, u2, u3

MCOneRequest == {sweep, r1}
MCTwoRequests == {sweep, r1, r2}
MCVisits == {r1, r2}
MCUsers == {u1, u2, u3}

(* Three users come and go and expire, with two requests that overlap or a *)
(* page that is closed; one of two signals to the other, whose polls       *)
(* overlap, whose call ends and begins again, or long enough for all to    *)
(* expire; and both signal.                                                *)
Crowd == [users |-> {u1, u2, u3}, talkers |-> {}, time |-> 3, calls |-> 4, signals |-> 0,
          failures |-> 0, overlaps |-> 1]
Reload == [Crowd EXCEPT !.failures = 1, !.overlaps = 0]
Talk == [users |-> {u1, u2}, talkers |-> {u2}, time |-> 0, calls |-> 2, signals |-> 5,
         failures |-> 0, overlaps |-> 1]
TalkAgain == [Talk EXCEPT !.calls = 3, !.signals = 4, !.failures = 1, !.overlaps = 0]
LongTalk == [Talk EXCEPT !.time = 3, !.signals = 3, !.overlaps = 0]
BothTalk == [Talk EXCEPT !.talkers = {u1, u2}, !.signals = 3, !.overlaps = 0]
MCLimits == {Crowd, Reload, Talk, TalkAgain, LongTalk, BothTalk}

(* The half that does not move stands in one of its initial states. *)
MCInit == BothInit /\ IF part = "trust" THEN limit = Talk ELSE serial
(* Where handlers overlap, the clock stops at 3. *)
MCNext == BothNext /\ (part = "trust" /\ ~serial => now' <= 3)
MCSpec ==
  /\ MCInit /\ [][MCNext]_bothVars
  /\ WF_moving(part = "trust" /\ ~serial /\ RemindSession(Sweeper))
  /\ \A r \in Request : WF_moving(part = "trust" /\ ~serial /\ Step(r))

(* An old unanswered invite is reminded of, whatever overlaps.             *)
EveryInviteRemindedOverlapping == part = "trust" /\ ~serial => EveryInviteReminded
=============================================================================
