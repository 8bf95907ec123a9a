-------------------------- MODULE TransportAndRooms --------------------------
(***************************************************************************)
(* What the partners of a transport do, side by side: they confirm it and  *)
(* review each other (TransportTrust), and they meet in a video room       *)
(* (MeetingRoom).  The two share no row and no key, so in a behaviour      *)
(* either the one moves ("trust") or the other ("room").                   *)
(***************************************************************************)
EXTENDS TransportTrust

\* Of MeetingRoom; Visit: its Request.
CONSTANTS Visit, User, Nobody, MaxParticipants, Ttl, SignalMaxLen, Recent, Limits

ASSUME RoomAssumption ==
  /\ {MaxParticipants, Ttl, SignalMaxLen, Recent} \subseteq Nat
  /\ IsFiniteSet(Visit) /\ IsFiniteSet(User)

VARIABLES
  clock, room, member, log, list, client, heard, asking, limit, spent,
                 \* of MeetingRoom; clock and asking: its now and req
  part           \* which half moves

Meeting == INSTANCE MeetingRoom WITH Request <- Visit, now <- clock, req <- asking

roomVars == <<clock, room, member, log, list, client, heard, asking, limit, spent>>
bothVars == <<vars, roomVars, part>>

BothInit == Init /\ Meeting!Init /\ part \in {"trust", "room"}

BothNext ==
  /\ \/ part = "trust" /\ Next /\ UNCHANGED roomVars
     \/ part = "room" /\ Meeting!Next /\ UNCHANGED vars
  /\ UNCHANGED part

BothSpec == BothInit /\ [][BothNext]_bothVars

-----------------------------------------------------------------------------
(* Properties *)

\* Rows, invites, rooms, pages and handlers keep their shape.
BothTypeOK == TypeOK /\ Meeting!TypeOK

\* Whoever is in a room is counted, and there are no more of them than its
\* capacity, but for one more at most for every request that overlaps.
CapacityHolds == Meeting!CapacityHolds

\* Nobody processes a signal before an earlier one that is for him, unless he is
\* behind by more than a poll returns.
NoneIsPassedOver == Meeting!NoneIsPassedOver
=============================================================================
