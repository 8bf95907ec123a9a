----------------------------- MODULE MeetingRoom ----------------------------
(***************************************************************************)
(* The video room of one message thread (apps/api/src/modules/messaging:   *)
(* MessagingWebRtcSignalingService) and the web client that sits in it     *)
(* (apps/web/.../MessagingWebRtcPilotCall).  Who is in the room and what   *)
(* they signal to each other is kept in Redis, where it expires.           *)
(*                                                                         *)
(* A command or a MULTI block of Redis is one step; between two of them    *)
(* other handlers run, and members expire.  A client asks for the signals  *)
(* after the last one it has processed; its interval starts the next poll  *)
(* whether or not the last has been answered.  The page of somebody in a   *)
(* call is modelled; an idle one polls for invitations only.               *)
(***************************************************************************)
EXTENDS Naturals, Sequences, FiniteSets

CONSTANTS
  Request,          \* requests that may be in flight at once
  User,             \* participants of the thread
  Nobody,           \* no user; the target of a signal for all
  MaxParticipants,  \* MESSAGING_WEBRTC_MAX_PARTICIPANTS
  Ttl,              \* MESSAGING_WEBRTC_ROOM_TTL_SECONDS and SIGNAL_TTL_SECONDS
  SignalMaxLen,     \* SIGNAL_MAX_LEN
  Recent,           \* signals a poll returns that knows no signal of the list
  Limits            \* bounds of the clock, the users who join and those who signal, the
                    \* calls of the room, the signals, the failures and the requests begun
                    \* while another is in flight

VARIABLES
  now,        \* clock
  room,       \* the set of members, and when it expires
  member,     \* when the key of a member expires, 0 without one
  log,        \* history: the signals posted, of which the list holds a last part
  list,       \* number of the oldest signal in the list, and when it expires
  client,     \* what the page of a user holds
  heard,      \* history: the signals a user has processed, in whichever call
  req,        \* the requests in flight
  limit,      \* the bounds of this behaviour, one of Limits
  spent       \* how much of them is used up

vars == <<now, room, member, log, list, client, heard, req, limit, spent>>

-----------------------------------------------------------------------------
(* Types *)

Target == User \union {Nobody}
Signal == [from : User, to : Target]

\* A page: seenSignalIdsRef, and lastPollIdRef, 0 for null.  Signals go by their
\* numbers.
Page == [inCall : BOOLEAN, seen : SUBSET Nat, last : Nat]
NewPage == [inCall |-> FALSE, seen |-> {}, last |-> 0]

Handler == [kind : {"none", "join", "look", "poll"},
            pc : {"idle", "count", "add", "remove", "members", "get", "prune", "read", "answer"},
            user : Target,
            left : SUBSET User,     \* members still to be looked at
            gone : Target,          \* the member found expired
            after : Nat,            \* afterId, 0 for null
            answer : SUBSET Nat]    \* the signals on their way to the client

Idle == [kind |-> "none", pc |-> "idle", user |-> Nobody, left |-> {}, gone |-> Nobody,
         after |-> 0, answer |-> {}]

Counters == [calls : Nat, overlaps : Nat, failures : Nat]

TypeOK ==
  /\ now \in Nat
  /\ room \in [users : SUBSET User, until : Nat]
  /\ member \in [User -> Nat]
  /\ log \in Seq(Signal)
  /\ list \in [first : Nat, until : Nat]
  /\ client \in [User -> Page]
  /\ heard \in [User -> SUBSET Nat]
  /\ req \in [Request -> Handler]
  /\ limit \in Limits
  /\ spent \in Counters

Init ==
  /\ now = 0
  /\ room = [users |-> {}, until |-> 0]
  /\ member = [u \in User |-> 0]
  /\ log = <<>>
  /\ list = [first |-> 1, until |-> 0]
  /\ client = [u \in User |-> NewPage]
  /\ heard = [u \in User |-> {}]
  /\ req = [r \in Request |-> Idle]
  /\ limit \in Limits
  /\ spent = [calls |-> 0, overlaps |-> 0, failures |-> 0]

At(r, pc) == req[r].pc = pc
Become(r, h) == req' = [req EXCEPT ![r] = h]

\* What Redis still has.
Live(u) == now < member[u]
Members == IF now < room.until THEN room.users ELSE {}
Kept == IF now < list.until THEN list.first .. Len(log) ELSE {}

\* Requests that may get in each other's way: two of the room, or two polls of
\* one page.
Meets(h, g) ==
  /\ g # Idle
  /\ IF h.kind = "poll" THEN g.kind = "poll" /\ g.user = h.user ELSE g.kind # "poll"
Overlapping(r, h) == IF \E q \in Request \ {r} : Meets(h, req[q]) THEN 1 ELSE 0

Begin(r, h, calls) ==
  /\ req[r] = Idle
  /\ Become(r, h)
  /\ spent.calls + calls <= limit.calls
  /\ spent.overlaps + Overlapping(r, h) <= limit.overlaps
  /\ spent' = [spent EXCEPT !.calls = @ + calls, !.overlaps = @ + Overlapping(r, h)]

Tick ==
  /\ now < limit.time
  /\ now' = now + 1
  /\ UNCHANGED <<room, member, log, list, client, heard, req, limit, spent>>

-----------------------------------------------------------------------------
(* joinRoom, leaveRoom, getRoomSnapshot *)

InRoom(u, pc) == [Idle EXCEPT !.kind = "join", !.user = u, !.pc = pc]

\* exists: one who is a member already is not counted.
Join(r, u) ==
  /\ ~ client[u].inCall /\ u \in limit.users
  /\ Begin(r, InRoom(u, IF Live(u) THEN "add" ELSE "count"), 1)
  /\ UNCHANGED <<now, room, member, log, list, client, heard, limit>>

Full == Cardinality(Members) >= MaxParticipants

Count(r) ==
  /\ At(r, "count")
  /\ Become(r, IF Full THEN Idle ELSE [req[r] EXCEPT !.pc = "add"])
  /\ UNCHANGED <<now, room, member, log, list, client, heard, limit, spent>>

\* The set expires when its first member does.
Renewed_Not == IF now < room.until THEN room.until ELSE now + Ttl
Renewed == now + Ttl

\* MULTI: sadd, set, expire.
Add(r) ==
  /\ At(r, "add")
  /\ room' = [users |-> Members \union {req[r].user}, until |-> Renewed]
  /\ member' = [member EXCEPT ![req[r].user] = now + Ttl]
  /\ Become(r, [req[r] EXCEPT !.pc = "members"])
  /\ UNCHANGED <<now, log, list, client, heard, limit, spent>>

\* teardown, in a call or not, sends leaveRoom and forgets what the page held;
\* what it has asked for is still answered.
Leave(r, u) ==
  /\ client[u].inCall \/ Live(u)
  /\ Begin(r, [Idle EXCEPT !.kind = "look", !.user = u, !.pc = "remove"], 1)
  /\ client' = [client EXCEPT ![u] = NewPage]
  /\ UNCHANGED <<now, room, member, log, list, heard, limit>>

\* MULTI: srem, del.
Remove(r) ==
  /\ At(r, "remove")
  /\ room' = [room EXCEPT !.users = Members \ {req[r].user}]
  /\ member' = [member EXCEPT ![req[r].user] = 0]
  /\ Become(r, [req[r] EXCEPT !.pc = "members"])
  /\ UNCHANGED <<now, log, list, client, heard, limit, spent>>

\* getRoomSnapshot, which the page asks for beside every poll: smembers, and then
\* get for one member after the other.
Look(r, u) ==
  /\ client[u].inCall
  /\ Begin(r, [Idle EXCEPT !.kind = "look", !.user = u, !.pc = "members"], 1)
  /\ UNCHANGED <<now, room, member, log, list, client, heard, limit>>

\* The page is in the call when joinRoom has returned.
Answered(h) == IF h.kind = "join" THEN [client EXCEPT ![h.user].inCall = TRUE] ELSE client

NextMember(r, h) ==
  IF h.left = {}
  THEN Become(r, Idle) /\ client' = Answered(h)
  ELSE Become(r, [h EXCEPT !.pc = "get", !.gone = Nobody]) /\ UNCHANGED client

List(r) ==
  /\ At(r, "members")
  /\ NextMember(r, [req[r] EXCEPT !.left = Members])
  /\ UNCHANGED <<now, room, member, log, list, heard, limit, spent>>

Get(r) ==
  /\ At(r, "get")
  /\ \E u \in req[r].left :
       LET h == [req[r] EXCEPT !.left = @ \ {u}]
       IN  IF Live(u)
           THEN NextMember(r, h)
           ELSE Become(r, [h EXCEPT !.pc = "prune", !.gone = u]) /\ UNCHANGED client
  /\ UNCHANGED <<now, room, member, log, list, heard, limit, spent>>

\* srem, whether or not the member has come back.
Prune(r) ==
  /\ At(r, "prune")
  /\ room' = [room EXCEPT !.users = Members \ {req[r].gone}]
  /\ NextMember(r, req[r])
  /\ UNCHANGED <<now, member, log, list, heard, limit, spent>>

-----------------------------------------------------------------------------
(* postSignal, listSignals and the polls of the page *)

\* MULTI: lpush, ltrim, expire.
Post(u, t) ==
  /\ client[u].inCall /\ t # u /\ u \in limit.talkers
  /\ Len(log) < limit.signals
  /\ log' = Append(log, [from |-> u, to |-> t])
  /\ LET first == IF Kept = {} THEN Len(log') ELSE list.first
         least == IF Len(log') > SignalMaxLen THEN Len(log') - SignalMaxLen + 1 ELSE 1
     IN  list' = [first |-> IF first < least THEN least ELSE first, until |-> now + Ttl]
  /\ UNCHANGED <<now, room, member, client, heard, req, limit, spent>>

\* Where nobody else signals, nobody polls.
Poll(r, u) ==
  /\ client[u].inCall /\ limit.talkers \ {u} # {}
  /\ Begin(r, [Idle EXCEPT !.kind = "poll", !.user = u, !.pc = "read", !.after = client[u].last], 0)
  /\ UNCHANGED <<now, room, member, log, list, client, heard, limit>>

IsForUser(k, u) == log[k].from # u /\ log[k].to \in {u, Nobody}
ForUser(u) == {k \in Kept : IsForUser(k, u)}
LastOf(S, n) == {k \in S : Cardinality({j \in S : j > k}) < n}

\* One signal too far.
Following_Next(a, u) ==
  IF a \in Kept THEN {k \in ForUser(u) : k > a + 1} ELSE LastOf(ForUser(u), Recent)

\* What comes after the signal the client names, or the last ones if the list
\* does not have it.
Following(a, u) ==
  IF a \in Kept THEN {k \in ForUser(u) : k > a} ELSE LastOf(ForUser(u), Recent)

ListSignals(r) ==
  /\ At(r, "read")
  /\ Become(r, [req[r] EXCEPT !.pc = "answer", !.answer = Following(req[r].after, req[r].user)])
  /\ UNCHANGED <<now, room, member, log, list, client, heard, limit, spent>>

Last(S) == CHOOSE k \in S : \A j \in S : j <= k

\* processRemoteSignal for each signal of the answer in turn: what is new to the
\* page is processed and named in the next poll.
Process(r) ==
  /\ At(r, "answer")
  /\ LET u == req[r].user
         new == req[r].answer \ client[u].seen
     IN  /\ client' = [client EXCEPT ![u].seen = @ \union new,
                                     ![u].last = IF new = {} THEN @ ELSE Last(new)]
         /\ heard' = [heard EXCEPT ![u] = @ \union new]
  /\ Become(r, Idle)
  /\ UNCHANGED <<now, room, member, log, list, limit, spent>>

-----------------------------------------------------------------------------
(* A request throws or is lost; a page is closed and says nothing.            *)

CallThrows(r) ==
  /\ req[r] # Idle
  /\ spent.failures < limit.failures
  /\ spent' = [spent EXCEPT !.failures = @ + 1]
  /\ Become(r, Idle)
  /\ UNCHANGED <<now, room, member, log, list, client, heard, limit>>

Close(u) ==
  /\ client[u].inCall
  /\ spent.failures < limit.failures
  /\ spent' = [spent EXCEPT !.failures = @ + 1]
  /\ client' = [client EXCEPT ![u] = NewPage]
  /\ req' = [r \in Request |-> IF req[r].kind = "poll" /\ req[r].user = u THEN Idle ELSE req[r]]
  /\ UNCHANGED <<now, room, member, log, list, heard, limit>>

-----------------------------------------------------------------------------
Start(r) == \E u \in User : Join(r, u) \/ Leave(r, u) \/ Look(r, u) \/ Poll(r, u)

Step(r) ==
  \/ Count(r) \/ Add(r) \/ Remove(r) \/ List(r) \/ Get(r) \/ Prune(r)
  \/ ListSignals(r) \/ Process(r)

Next ==
  \/ Tick
  \/ \E r \in Request : Start(r) \/ Step(r) \/ CallThrows(r)
  \/ \E u \in User : Close(u) \/ \E t \in Target : Post(u, t)

Spec == Init /\ [][Next]_vars

-----------------------------------------------------------------------------
(* Properties *)

NoneOverlaps == spent.overlaps = 0
LiveUsers == {u \in User : Live(u)}

\* While requests do not overlap, whoever has joined and not expired is counted,
\* for the set outlives the keys of its members, and there are no more of them
\* than the capacity.  A request that overlaps lets in one more at most: two
\* newcomers have counted the same members, or a member who has come back is
\* taken out by a look that found him expired.
CapacityHolds ==
  /\ NoneOverlaps => LiveUsers \subseteq Members
  /\ Cardinality(LiveUsers) <= MaxParticipants + spent.overlaps

\* No signal is passed over: when somebody has processed a later one, he has
\* processed every earlier one of the list that is for him, or as many later ones
\* as a poll returns, however polls overlap, calls end and pages are opened anew.
NoneIsPassedOver ==
  \A u \in User : \A k \in ForUser(u) :
    LET later == {j \in heard[u] : j > k}
    IN  k \in heard[u] \/ later = {} \/ Cardinality(later) >= Recent
=============================================================================
