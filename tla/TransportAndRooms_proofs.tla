---------------------- MODULE TransportAndRooms_proofs ----------------------
(***************************************************************************)
(* Proofs about TransportTrust and MeetingRoom.                            *)
(*                                                                         *)
(* What the transport keeps for every value of its constants, however the  *)
(* handlers interleave and whichever of their calls throw; and what it     *)
(* keeps when they run one at a time.                                      *)
(*                                                                         *)
(* What the room keeps for any number of users and requests: of its        *)
(* capacity, that those whom no newcomer counts are no more than the       *)
(* requests that have overlapped; of its signals, that what a user has     *)
(* processed, alone and with an answer on its way to him, leaves out no    *)
(* signal but for one he is far behind of.                                 *)
(***************************************************************************)
EXTENDS TransportAndRooms, Sequences, FiniteSetTheorems, WellFoundedInduction, TLAPS

(* Stamping a sound, uncompleted entity adds one confirmation to it. *)
LEMMA ConfirmedSound ==
  ASSUME NEW e \in Row, NEW p \in Party, now \in Nat \ {0}, Sound(e), e.completedAt = Null
  PROVE  /\ Confirmed(e, p) \in Row
         /\ Sound(Confirmed(e, p)) /\ Confirmed(e, p).completedAt = Null
         /\ \A q \in Party : q # p => Confirmed(e, p).confirmedAt[q] = e.confirmedAt[q]
<1>1. CASE e.confirmedAt[p] # Null
  BY <1>1 DEF Confirmed
<1>2. CASE e.confirmedAt[p] = Null
  <2> DEFINE f == Confirmed(e, p)
  <2>1. f = [e EXCEPT !.confirmedAt[p] = now, !.completedBy = p]
    BY <1>2 DEF Confirmed
  <2>2. /\ f.confirmedAt = [e.confirmedAt EXCEPT ![p] = now] /\ f.completedBy = p
        /\ f.completedAt = Null /\ f \in Row
    <3> DEFINE c == [e.confirmedAt EXCEPT ![p] = now]
    <3>1. c \in [Party -> Nat]
      BY DEF Row
    <3>2. f = [e EXCEPT !.confirmedAt = c, !.completedBy = p]
      BY <2>1
    <3> HIDE DEF c, f
    <3>3. f.confirmedAt = c /\ f.completedBy = p /\ f.completedAt = Null /\ f \in Row
      BY <3>1, <3>2 DEF Row
    <3> QED
      BY <3>3 DEF c
  <2>3. \A q \in Party : f.confirmedAt[q] <= now
    BY <2>2 DEF Sound, Row
  <2>4. f.confirmedAt[f.completedBy] = now
    BY <2>2 DEF Row
  <2>5. Sound(f)
    BY <2>2, <2>3, <2>4 DEF Sound, Coherent
  <2>6. \A q \in Party : q # p => f.confirmedAt[q] = e.confirmedAt[q]
    BY <2>2 DEF Row
  <2> QED BY <2>2, <2>5, <2>6
<1> QED BY <1>1, <1>2

(* Completing a sound entity that both sides have confirmed. *)
LEMMA CompletedSound ==
  ASSUME NEW e \in Row, now \in Nat, Sound(e), Agreed(e)
  PROVE  /\ Completed(e) \in Row
         /\ Sound(Completed(e))
         /\ Completed(e).confirmedAt = e.confirmedAt
<1> DEFINE f == Completed(e)
<1>0. Owner \in Party /\ Carrier \in Party /\ \A p \in Party : p = Owner \/ p = Carrier
  BY DEF Party
<1>1. e.confirmedAt[Owner] \in Nat /\ e.confirmedAt[Carrier] \in Nat
  BY <1>0 DEF Row
<1>2. /\ f.confirmedAt = e.confirmedAt /\ f.completedBy = e.completedBy
      /\ f.completedAt = IF e.confirmedAt[Owner] > e.confirmedAt[Carrier]
                         THEN e.confirmedAt[Owner] ELSE e.confirmedAt[Carrier]
      /\ f \in Row
  BY <1>1 DEF Completed, Row
<1>3. \A p \in Party : e.confirmedAt[p] <= f.completedAt
  BY <1>0, <1>1, <1>2
<1>4. /\ e.completedBy \in Party
      /\ \A p \in Party : e.confirmedAt[p] <= e.confirmedAt[e.completedBy]
  BY <1>0 DEF Sound, Agreed
<1>5. e.confirmedAt[e.completedBy] = f.completedAt
  <2>1. e.confirmedAt[e.completedBy] \in Nat
    BY <1>4 DEF Row
  <2> QED BY <1>0, <1>1, <1>2, <1>3, <1>4, <2>1
<1>6. Agreed(f)
  BY <1>2 DEF Agreed
<1> QED BY <1>2, <1>3, <1>4, <1>5, <1>6 DEF Sound, Coherent

(* Soundness looks at the confirmations only, and time does not spoil it. *)
LEMMA SoundLater ==
  ASSUME NEW e \in Row, NEW t \in Nat, now \in Nat, now <= t, now' = t, Sound(e)
  PROVE  Sound(e)'
<1>1. \A p \in Party : e.confirmedAt[p] \in Nat
  BY DEF Row
<1> QED BY <1>1 DEF Sound, Coherent, Agreed

(* The idle handler. *)
LEMMA IdleOK ==
  ASSUME now \in Nat \ {0}
  PROVE  Idle \in Handler /\ HandlerOK(Idle) /\ NewRow \in Row /\ Sound(NewRow)
         /\ Backed(NewRow, stored) /\ NoInvite \in Invite
<1>1. NewRow \in Row /\ NoInvite \in Invite
  BY DEF NewRow, Row, Null, NoParty, NoInvite, Invite
<1>2. Idle \in Handler
  BY <1>1 DEF Idle, Handler, Party
<1>3. Sound(NewRow) /\ Backed(NewRow, stored)
  BY DEF Sound, NewRow, Null, Coherent, Backed
<1>4. HandlerOK(Idle)
  BY <1>3 DEF HandlerOK, Idle, NewRow, Null, NoInvite, Exists
<1> QED BY <1>1, <1>2, <1>3, <1>4

(* What a handler holds stays in order while another handler runs. *)
LEMMA OthersKeep ==
  ASSUME NEW h \in Handler, HandlerOK(h), now \in Nat, now' = now,
         stored \subseteq stored', stored' \subseteq Party
  PROVE  HandlerOK(h)'
<1>1. Sound(h.row)'
  BY SoundLater DEF HandlerOK, Handler
<1>2. Backed(h.row, IF h.pc = "save" THEN stored \union {h.party} ELSE stored)'
  BY DEF HandlerOK, Backed
<1>3. \A p \in Party : Exists(h.invite[p])' => stored' = Party
  BY DEF HandlerOK, Exists
<1> QED BY <1>1, <1>2, <1>3 DEF HandlerOK

(* One handler moves on. *)
LEMMA HandlerMoves ==
  ASSUME TypeOK, \A q \in Request : HandlerOK(req[q]),
         NEW r \in Request, NEW h \in Handler, HandlerOK(h)',
         req' = [req EXCEPT ![r] = h],
         now' = now, stored \subseteq stored', stored' \subseteq Party
  PROVE  req' \in [Request -> Handler] /\ \A q \in Request : HandlerOK(req[q])'
<1>1. req' \in [Request -> Handler]
  BY DEF TypeOK
<1>2. ASSUME NEW q \in Request PROVE HandlerOK(req[q])'
  <2>1. CASE q = r
    <3>1. req'[q] = h
      BY <2>1 DEF TypeOK
    <3>2. HandlerOK(req[q])' <=> HandlerOK(h)'
      BY <3>1 DEF HandlerOK, Sound, Backed, Coherent, Agreed, Exists
    <3> QED BY <3>2
  <2>2. CASE q # r
    <3>1. PICK k \in Handler : k = req[q]
      BY DEF TypeOK
    <3>2. HandlerOK(k)
      BY <3>1
    <3>3. HandlerOK(k)'
      BY <3>2, OthersKeep DEF TypeOK
    <3>4. req'[q] = k
      BY <2>2, <3>1 DEF TypeOK
    <3> QED BY <3>3, <3>4 DEF HandlerOK, Sound, Backed, Coherent, Agreed, Exists
  <2> QED BY <2>1, <2>2
<1> QED BY <1>1, <1>2

(* A step that leaves the tables alone and moves one handler. *)
LEMMA ReadKeeps ==
  ASSUME IInv, NEW r \in Request, NEW h \in Handler, HandlerOK(h),
         req' = [req EXCEPT ![r] = h],
         UNCHANGED <<row, invite, now, stored>>,
         review' \in [Party -> Nat], failures' \in Nat
  PROVE  IInv'
<1>1. HandlerOK(h)'
  BY OthersKeep DEF IInv, TypeOK
<1>2. req' \in [Request -> Handler] /\ \A q \in Request : HandlerOK(req[q])'
  BY <1>1, HandlerMoves DEF IInv, TypeOK
<1>3. TypeOK'
  BY <1>2 DEF IInv, TypeOK
<1>4. Sound(row)' /\ Backed(row, stored)' /\ InvitesAreEarned'
  BY DEF IInv, Sound, Coherent, Agreed, Backed, InvitesAreEarned
<1> QED BY <1>2, <1>3, <1>4 DEF IInv

(* A step that saves a sound entity and moves one handler. *)
LEMMA SaveKeeps ==
  ASSUME IInv, NEW r \in Request, NEW h \in Handler, HandlerOK(h)',
         NEW e \in Row, Sound(e), Backed(e, stored'),
         row' = e, req' = [req EXCEPT ![r] = h],
         stored \subseteq stored', stored' \subseteq Party,
         UNCHANGED <<invite, review, now, failures>>
  PROVE  IInv'
<1>1. req' \in [Request -> Handler] /\ \A q \in Request : HandlerOK(req[q])'
  BY HandlerMoves DEF IInv
<1>2. TypeOK'
  BY <1>1 DEF IInv, TypeOK
<1>3. Sound(e)'
  BY SoundLater DEF IInv, TypeOK
<1>4. Sound(row)' /\ Backed(row, stored)'
  BY <1>3 DEF Sound, Coherent, Agreed, Backed
<1>5. InvitesAreEarned'
  BY DEF IInv, InvitesAreEarned
<1> QED BY <1>1, <1>2, <1>4, <1>5 DEF IInv

(* A step that changes the invites and moves one handler: a new invite     *)
(* needs both confirmations.                                               *)
LEMMA InviteKeeps ==
  ASSUME IInv, NEW r \in Request, NEW h \in Handler, HandlerOK(h),
         invite' \in [Party -> Invite],
         \A p \in Party : Exists(invite'[p]) => Exists(invite[p]) \/ stored = Party,
         req' = [req EXCEPT ![r] = h],
         UNCHANGED <<row, review, now, stored, failures>>
  PROVE  IInv'
<1>1. HandlerOK(h)'
  BY OthersKeep DEF IInv, TypeOK
<1>2. req' \in [Request -> Handler] /\ \A q \in Request : HandlerOK(req[q])'
  BY <1>1, HandlerMoves DEF IInv, TypeOK
<1>3. TypeOK'
  BY <1>2 DEF IInv, TypeOK
<1>4. Sound(row)' /\ Backed(row, stored)'
  BY DEF IInv, Sound, Coherent, Agreed, Backed
<1>5. InvitesAreEarned'
  BY DEF IInv, InvitesAreEarned, Exists
<1> QED BY <1>2, <1>3, <1>4, <1>5 DEF IInv

-----------------------------------------------------------------------------
(* The actions *)

LEMMA ConfirmReadKeeps ==
  ASSUME IInv, NEW r \in Request, NEW p \in Party, ConfirmRead(r, p) PROVE IInv'
<1>1. PICK h \in Handler :
        h = [Idle EXCEPT !.pc = "stamp", !.party = p, !.row = row]
  BY IdleOK DEF IInv, TypeOK, Handler
<1>2. /\ h.pc = "stamp" /\ h.row = row /\ h.invite = Idle.invite
      /\ row.completedAt = Null
  BY <1>1, IdleOK DEF ConfirmRead, Handler, IInv, TypeOK
<1>3. HandlerOK(h)
  BY <1>2, IdleOK DEF HandlerOK, IInv, TypeOK
<1> QED BY <1>1, <1>3, ReadKeeps DEF ConfirmRead, IInv, TypeOK

LEMMA ConfirmStampKeeps ==
  ASSUME IInv, NEW r \in Request, ConfirmStamp(r) PROVE IInv'
<1>1. PICK g \in Handler : g = req[r] /\ HandlerOK(g) /\ g.pc = "stamp"
  BY DEF IInv, TypeOK, ConfirmStamp
<1>2. PICK e \in Row : e = Confirmed(g.row, g.party)
  BY <1>1, ConfirmedSound DEF IInv, TypeOK, HandlerOK, Handler
<1>3. /\ Sound(e) /\ e.completedAt = Null
      /\ \A q \in Party : q # g.party => e.confirmedAt[q] = g.row.confirmedAt[q]
  BY <1>1, <1>2, ConfirmedSound DEF IInv, TypeOK, HandlerOK, Handler
<1>4. PICK h \in Handler : h = [g EXCEPT !.pc = "save", !.row = e]
  BY DEF Handler
<1>5. h.pc = "save" /\ h.row = e /\ h.party = g.party /\ h.invite = g.invite
  BY <1>4 DEF Handler
<1>6. Backed(e, stored \union {g.party})
  BY <1>1, <1>3 DEF HandlerOK, Backed
<1>7. HandlerOK(h)
  BY <1>1, <1>3, <1>5, <1>6 DEF HandlerOK
<1>8. req' = [req EXCEPT ![r] = h]
  BY <1>1, <1>2, <1>4 DEF ConfirmStamp, IInv, TypeOK
<1> QED BY <1>7, <1>8, ReadKeeps DEF ConfirmStamp, IInv, TypeOK

LEMMA ConfirmSaveKeeps ==
  ASSUME IInv, NEW r \in Request, ConfirmSave(r) PROVE IInv'
<1>1. PICK g \in Handler : g = req[r] /\ HandlerOK(g) /\ g.pc = "save"
  BY DEF IInv, TypeOK, ConfirmSave
<1>2. /\ stored' = stored \union {g.party} /\ stored' \subseteq Party
      /\ row' = g.row /\ g.row \in Row /\ Sound(g.row) /\ Backed(g.row, stored')
  BY <1>1 DEF ConfirmSave, HandlerOK, Handler, IInv, TypeOK
<1>3. CASE Agreed(g.row)
  <2>1. PICK e \in Row : e = Completed(g.row)
    BY <1>2, <1>3, CompletedSound DEF IInv, TypeOK
  <2>2. Sound(e) /\ e.confirmedAt = g.row.confirmedAt
    BY <1>2, <1>3, <2>1, CompletedSound DEF IInv, TypeOK
  <2>3. PICK h \in Handler : h = [g EXCEPT !.pc = "complete", !.row = e]
    BY DEF Handler
  <2>4. h.pc = "complete" /\ h.row = e /\ h.invite = g.invite
    BY <2>3 DEF Handler
  <2>5. stored' = Party
    BY <1>2, <1>3 DEF Agreed, Backed
  <2>6. Sound(e)'
    BY <2>2, SoundLater DEF ConfirmSave, IInv, TypeOK
  <2>7. HandlerOK(h)'
    BY <1>1, <2>2, <2>4, <2>5, <2>6 DEF HandlerOK, Backed, Exists
  <2>8. req' = [req EXCEPT ![r] = h]
    BY <1>1, <1>3, <2>1, <2>3 DEF ConfirmSave, IInv, TypeOK
  <2> QED BY <1>2, <2>7, <2>8, SaveKeeps DEF ConfirmSave
<1>4. CASE ~Agreed(g.row)
  <2>1. req' = [req EXCEPT ![r] = Idle]
    BY <1>1, <1>4 DEF ConfirmSave, Done
  <2>2. Idle \in Handler /\ HandlerOK(Idle)'
    BY <1>2, IdleOK, OthersKeep DEF ConfirmSave, IInv, TypeOK
  <2>3. PICK h \in Handler : h = Idle
    BY <2>2
  <2> QED BY <1>2, <2>1, <2>2, <2>3, SaveKeeps DEF ConfirmSave
<1> QED BY <1>3, <1>4

LEMMA CompleteSaveKeeps ==
  ASSUME IInv, NEW r \in Request, CompleteSave(r) PROVE IInv'
<1>1. PICK g \in Handler : g = req[r] /\ HandlerOK(g) /\ g.pc = "complete"
  BY DEF IInv, TypeOK, CompleteSave
<1>2. PICK h \in Handler : h = [g EXCEPT !.pc = "findInvite", !.queue = Invited]
  BY DEF Handler, Invited
<1>3. h.pc = "findInvite" /\ h.row = g.row /\ h.invite = g.invite
  BY <1>2 DEF Handler
<1>4. HandlerOK(h)
  BY <1>1, <1>3 DEF HandlerOK
<1>5. HandlerOK(h)'
  BY <1>4, OthersKeep DEF CompleteSave, IInv, TypeOK
<1>6. req' = [req EXCEPT ![r] = h]
  BY <1>1, <1>2 DEF CompleteSave, IInv, TypeOK
<1>7. g.row \in Row /\ Sound(g.row) /\ Backed(g.row, stored)
  BY <1>1 DEF HandlerOK, Handler
<1> QED BY <1>1, <1>5, <1>6, <1>7, SaveKeeps DEF CompleteSave, IInv, TypeOK

(* The handler that goes on to the next invite, or ends. *)
LEMMA AfterInviteOK ==
  ASSUME IInv, NEW g \in Handler, HandlerOK(g), NEW p \in Party,
         g.pc \in {"findInvite", "insertInvite"}
  PROVE  AfterInvite(g, p) \in Handler /\ HandlerOK(AfterInvite(g, p))
<1>1. CASE g.queue = {p}
  BY <1>1, IdleOK DEF AfterInvite, IInv, TypeOK
<1>2. CASE g.queue # {p}
  <2>1. PICK h \in Handler : h = [g EXCEPT !.pc = "findInvite", !.queue = @ \ {p}]
    BY DEF Handler
  <2>2. h.pc = "findInvite" /\ h.row = g.row /\ h.invite = g.invite
    BY <2>1 DEF Handler
  <2> QED BY <1>2, <2>1, <2>2 DEF AfterInvite, HandlerOK
<1> QED BY <1>1, <1>2

LEMMA FindInviteKeeps ==
  ASSUME IInv, NEW r \in Request, FindInvite(r) PROVE IInv'
<1>1. PICK g \in Handler : g = req[r] /\ HandlerOK(g) /\ g.pc = "findInvite"
  BY DEF IInv, TypeOK, FindInvite
<1>2. PICK p \in Party : p = NextInvite(g.queue)
  BY DEF NextInvite, Party
<1>3. CASE Exists(invite[p])
  <2>1. PICK h \in Handler : h = AfterInvite(g, p) /\ HandlerOK(h)
    BY <1>1, AfterInviteOK
  <2> QED BY <1>1, <1>2, <1>3, <2>1, ReadKeeps DEF FindInvite, IInv, TypeOK
<1>4. CASE ~Exists(invite[p])
  <2>1. PICK h \in Handler : h = [g EXCEPT !.pc = "insertInvite"]
    BY DEF Handler
  <2>2. h.pc = "insertInvite" /\ h.row = g.row /\ h.invite = g.invite
    BY <2>1 DEF Handler
  <2>3. HandlerOK(h)
    BY <1>1, <2>2 DEF HandlerOK
  <2> QED BY <1>1, <1>2, <1>4, <2>1, <2>3, ReadKeeps DEF FindInvite, IInv, TypeOK
<1> QED BY <1>3, <1>4

LEMMA InsertInviteKeeps ==
  ASSUME IInv, NEW r \in Request, InsertInvite(r) PROVE IInv'
<1>1. PICK g \in Handler : g = req[r] /\ HandlerOK(g) /\ g.pc = "insertInvite"
  BY DEF IInv, TypeOK, InsertInvite
<1>2. PICK p \in Party : p = NextInvite(g.queue)
  BY DEF NextInvite, Party
<1>3. CASE Exists(invite[p])
  <2>1. PICK h \in Handler : h = Idle /\ HandlerOK(h)
    BY IdleOK DEF IInv, TypeOK
  <2> QED BY <1>1, <1>2, <1>3, <2>1, ReadKeeps DEF InsertInvite, Done, IInv, TypeOK
<1>4. CASE ~Exists(invite[p])
  <2>1. PICK h \in Handler : h = AfterInvite(g, p) /\ HandlerOK(h)
    BY <1>1, AfterInviteOK
  <2>2. NewInvite \in Invite
    BY DEF NewInvite, Invite, IInv, TypeOK
  <2>3. invite' \in [Party -> Invite]
    BY <1>1, <1>2, <1>4, <2>2 DEF InsertInvite, IInv, TypeOK
  <2>4. stored = Party
    BY <1>1 DEF HandlerOK
  <2>5. req' = [req EXCEPT ![r] = h]
    BY <1>1, <1>2, <1>4, <2>1 DEF InsertInvite
  <2> QED BY <2>1, <2>3, <2>4, <2>5, InviteKeeps DEF InsertInvite
<1> QED BY <1>3, <1>4

LEMMA RemindSessionKeeps ==
  ASSUME IInv, NEW r \in Request, RemindSession(r) PROVE IInv'
<1>1. PICK h \in Handler : h = [Idle EXCEPT !.pc = "remind", !.row = row]
  BY IdleOK DEF IInv, TypeOK, Handler
<1>2. h.pc = "remind" /\ h.row = row /\ h.invite = Idle.invite
  BY <1>1, IdleOK DEF Handler, IInv, TypeOK
<1>3. HandlerOK(h)
  BY <1>2, IdleOK DEF HandlerOK, IInv, TypeOK
<1> QED BY <1>1, <1>3, ReadKeeps DEF RemindSession, IInv, TypeOK

(* The sweep that goes on to the invites. *)
LEMMA GotoList ==
  ASSUME NEW g \in Handler, HandlerOK(g), g.pc = "remind"
  PROVE  \E h \in Handler : h = [g EXCEPT !.pc = "listInvites"] /\ HandlerOK(h)
<1>1. PICK h \in Handler : h = [g EXCEPT !.pc = "listInvites"]
  BY DEF Handler
<1>2. h.pc = "listInvites" /\ h.row = g.row /\ h.invite = g.invite
  BY <1>1 DEF Handler
<1> QED BY <1>1, <1>2 DEF HandlerOK

LEMMA RemindSaveKeeps ==
  ASSUME IInv, NEW r \in Request, RemindSave(r) PROVE IInv'
<1>1. PICK g \in Handler : g = req[r] /\ HandlerOK(g) /\ g.pc = "remind"
  BY DEF IInv, TypeOK, RemindSave
<1>2. PICK e \in Row : e = Reminded(g.row)
  BY DEF Handler, Row, Reminded
<1>3. /\ e.confirmedAt = g.row.confirmedAt /\ e.completedAt = g.row.completedAt
      /\ e.completedBy = g.row.completedBy
  BY <1>2 DEF Handler, Row, Reminded
<1>4. Sound(e) /\ Backed(e, stored)
  BY <1>1, <1>3 DEF HandlerOK, Sound, Coherent, Agreed, Backed
<1>5. PICK h \in Handler : h = [g EXCEPT !.pc = "listInvites"] /\ HandlerOK(h)
  BY <1>1, GotoList
<1>6. HandlerOK(h)'
  BY <1>5, OthersKeep DEF RemindSave, IInv, TypeOK
<1>7. req' = [req EXCEPT ![r] = h]
  BY <1>1, <1>5 DEF RemindSave, Goto, IInv, TypeOK
<1> QED BY <1>1, <1>2, <1>4, <1>6, <1>7, SaveKeeps DEF RemindSave, IInv, TypeOK

LEMMA RemindInvitesKeeps ==
  ASSUME IInv, NEW r \in Request, RemindInvites(r) PROVE IInv'
<1> DEFINE due == {p \in Party : Remindable(invite[p])}
<1>1. CASE due = {}
  <2>1. PICK h \in Handler : h = Idle /\ HandlerOK(h)
    BY IdleOK DEF IInv, TypeOK
  <2> QED BY <1>1, <2>1, ReadKeeps DEF RemindInvites, IInv, TypeOK
<1>2. CASE due # {}
  <2>1. PICK h \in Handler :
          h = [Idle EXCEPT !.pc = "remindInvite", !.invite = invite, !.queue = due]
    BY IdleOK DEF IInv, TypeOK, Handler
  <2>2. h.pc = "remindInvite" /\ h.row = NewRow /\ h.invite = invite
    BY <2>1, IdleOK DEF Handler, IInv, TypeOK, Idle
  <2>3. HandlerOK(h)
    BY <2>2, IdleOK DEF HandlerOK, IInv, TypeOK, InvitesAreEarned, NewRow, Null
  <2>4. req' = [req EXCEPT ![r] = h]
    BY <1>2, <2>1 DEF RemindInvites
  <2> QED BY <2>3, <2>4, ReadKeeps DEF RemindInvites, IInv, TypeOK
<1> QED BY <1>1, <1>2

LEMMA RemindInviteSaveKeeps ==
  ASSUME IInv, NEW r \in Request, RemindInviteSave(r) PROVE IInv'
<1>1. PICK g \in Handler : g = req[r] /\ HandlerOK(g) /\ g.pc = "remindInvite"
  BY DEF IInv, TypeOK, RemindInviteSave
<1>2. PICK p \in Party :
        /\ invite' = [invite EXCEPT ![p] = Reminded(g.invite[p])]
        /\ req' = [req EXCEPT ![r] = AfterReminder(g, p)]
  BY <1>1 DEF RemindInviteSave, Handler, IInv, TypeOK
<1>3. PICK h \in Handler : h = AfterReminder(g, p) /\ HandlerOK(h)
  <2>1. CASE g.queue = {p}
    BY <2>1, IdleOK DEF AfterReminder, IInv, TypeOK
  <2>2. CASE g.queue # {p}
    <3>1. PICK h \in Handler : h = [g EXCEPT !.queue = @ \ {p}]
      BY DEF Handler
    <3>2. h.pc = g.pc /\ h.row = g.row /\ h.invite = g.invite /\ h.party = g.party
      BY <3>1 DEF Handler
    <3> QED BY <1>1, <2>2, <3>1, <3>2 DEF HandlerOK, AfterReminder
  <2> QED BY <2>1, <2>2
<1>4. g.invite \in [Party -> Invite]
  BY DEF Handler
<1>5. /\ Reminded(g.invite[p]) \in Invite
      /\ Reminded(g.invite[p]).createdAt = g.invite[p].createdAt
  BY <1>4 DEF Invite, Reminded
<1>6. invite' \in [Party -> Invite]
  BY <1>2, <1>5 DEF IInv, TypeOK
<1>7. \A q \in Party : Exists(invite'[q]) => Exists(invite[q]) \/ stored = Party
  BY <1>1, <1>2, <1>5 DEF HandlerOK, Exists, IInv, TypeOK
<1> QED BY <1>2, <1>3, <1>6, <1>7, InviteKeeps DEF RemindInviteSave

LEMMA DismissReadKeeps ==
  ASSUME IInv, NEW r \in Request, NEW p \in Party, DismissRead(r, p) PROVE IInv'
<1>1. PICK h \in Handler :
        h = [Idle EXCEPT !.pc = "dismiss", !.party = p, !.invite = invite]
  BY IdleOK DEF IInv, TypeOK, Handler
<1>2. h.pc = "dismiss" /\ h.row = NewRow /\ h.invite = invite
  BY <1>1, IdleOK DEF Handler, IInv, TypeOK, Idle
<1>3. HandlerOK(h)
  BY <1>2, IdleOK DEF HandlerOK, IInv, TypeOK, InvitesAreEarned, NewRow, Null
<1> QED BY <1>1, <1>3, ReadKeeps DEF DismissRead, IInv, TypeOK

LEMMA DismissSaveKeeps ==
  ASSUME IInv, NEW r \in Request, DismissSave(r) PROVE IInv'
<1>1. PICK g \in Handler : g = req[r] /\ HandlerOK(g) /\ g.pc = "dismiss"
  BY DEF IInv, TypeOK, DismissSave
<1>2. PICK p \in Party : p = g.party
  BY DEF Handler
<1>3. PICK h \in Handler : h = Idle /\ HandlerOK(h)
  BY IdleOK DEF IInv, TypeOK
<1>4. g.invite \in [Party -> Invite]
  BY DEF Handler
<1>5. /\ Dismissed(g.invite[p]) \in Invite
      /\ Dismissed(g.invite[p]).createdAt = g.invite[p].createdAt
  BY <1>4 DEF Invite, Dismissed
<1>6. /\ invite' = [invite EXCEPT ![p] = Dismissed(g.invite[p])]
      /\ invite' \in [Party -> Invite]
  BY <1>1, <1>2, <1>5 DEF DismissSave, IInv, TypeOK
<1>7. \A q \in Party : Exists(invite'[q]) => Exists(invite[q]) \/ stored = Party
  BY <1>1, <1>5, <1>6 DEF HandlerOK, Exists, IInv, TypeOK
<1> QED BY <1>3, <1>6, <1>7, InviteKeeps DEF DismissSave, Done

LEMMA ReviewReadKeeps ==
  ASSUME IInv, NEW r \in Request, NEW p \in Party, ReviewRead(r, p) PROVE IInv'
<1>1. PICK h \in Handler :
        h = [Idle EXCEPT !.pc = IF HasReview(p) THEN "fulfil" ELSE "insertReview",
                         !.party = p]
  BY IdleOK DEF IInv, TypeOK, Handler
<1>2. h.pc \in {"fulfil", "insertReview"} /\ h.row = Idle.row /\ h.invite = Idle.invite
  BY <1>1, IdleOK DEF Handler, IInv, TypeOK
<1>3. HandlerOK(h)
  BY <1>2, IdleOK DEF HandlerOK, IInv, TypeOK, Idle
<1> QED BY <1>1, <1>3, ReadKeeps DEF ReviewRead, IInv, TypeOK

LEMMA ReviewInsertKeeps ==
  ASSUME IInv, NEW r \in Request, ReviewInsert(r) PROVE IInv'
<1>1. PICK g \in Handler : g = req[r] /\ HandlerOK(g) /\ g.pc = "insertReview"
  BY DEF IInv, TypeOK, ReviewInsert
<1>2. PICK h \in Handler : h = [g EXCEPT !.pc = "fulfil"]
  BY DEF Handler
<1>3. h.pc = "fulfil" /\ h.row = g.row /\ h.invite = g.invite
  BY <1>2 DEF Handler
<1>4. HandlerOK(h)
  BY <1>1, <1>3 DEF HandlerOK
<1>5. review' \in [Party -> Nat]
  BY <1>1 DEF ReviewInsert, Handler, IInv, TypeOK
<1>6. req' = [req EXCEPT ![r] = h]
  BY <1>1, <1>2 DEF ReviewInsert, Goto, IInv, TypeOK
<1> QED BY <1>4, <1>5, <1>6, ReadKeeps DEF ReviewInsert, IInv, TypeOK

LEMMA ReviewFulfilKeeps ==
  ASSUME IInv, NEW r \in Request, ReviewFulfil(r) PROVE IInv'
<1>1. PICK p \in Party : p = req[r].party
  BY DEF IInv, TypeOK, Handler
<1>2. PICK h \in Handler : h = Idle /\ HandlerOK(h)
  BY IdleOK DEF IInv, TypeOK
<1>3. /\ invite' \in [Party -> Invite]
      /\ \A q \in Party : Exists(invite'[q]) => Exists(invite[q]) \/ stored = Party
  <2>1. PICK i \in Invite : i = invite[p]
    BY DEF IInv, TypeOK
  <2>2. [i EXCEPT !.fulfilled = TRUE] \in Invite
        /\ [i EXCEPT !.fulfilled = TRUE].createdAt = i.createdAt
    BY DEF Invite
  <2>3. \/ invite' = invite
        \/ invite' = [invite EXCEPT ![p] = [i EXCEPT !.fulfilled = TRUE]]
    BY <1>1, <2>1 DEF ReviewFulfil, IInv, TypeOK
  <2> QED BY <2>1, <2>2, <2>3 DEF IInv, TypeOK, Exists
<1> QED BY <1>2, <1>3, InviteKeeps DEF ReviewFulfil, Done

LEMMA FailKeeps ==
  ASSUME IInv, NEW r \in Request, Fail(r) PROVE IInv'
<1>1. PICK g \in Handler : g = req[r] /\ HandlerOK(g)
  BY DEF IInv, TypeOK
<1>2. failures' \in Nat
  BY DEF Fail, IInv, TypeOK
<1>3. CASE Done(r)
  <2>1. PICK h \in Handler : h = Idle /\ HandlerOK(h)
    BY IdleOK DEF IInv, TypeOK
  <2> QED BY <1>2, <1>3, <2>1, ReadKeeps DEF Fail, Done, IInv, TypeOK
<1>4. CASE req[r].pc = "remind" /\ Goto(r, "listInvites")
  <2>1. PICK h \in Handler : h = [g EXCEPT !.pc = "listInvites"] /\ HandlerOK(h)
    BY <1>1, <1>4, GotoList
  <2>2. req' = [req EXCEPT ![r] = h]
    BY <1>1, <1>4, <2>1 DEF Goto, IInv, TypeOK
  <2> QED BY <1>2, <2>1, <2>2, ReadKeeps DEF Fail, IInv, TypeOK
<1>5. CASE \E p \in g.queue : req' = [req EXCEPT ![r].queue = @ \ {p}]
  <2>1. PICK p \in g.queue : req' = [req EXCEPT ![r].queue = @ \ {p}]
    BY <1>5
  <2>2. PICK h \in Handler : h = [g EXCEPT !.queue = @ \ {p}]
    BY DEF Handler
  <2>3. h.pc = g.pc /\ h.row = g.row /\ h.invite = g.invite /\ h.party = g.party
    BY <2>2 DEF Handler
  <2>4. HandlerOK(h)
    BY <1>1, <2>3 DEF HandlerOK
  <2>5. req' = [req EXCEPT ![r] = h]
    BY <1>1, <2>1, <2>2 DEF IInv, TypeOK
  <2> QED BY <1>2, <2>4, <2>5, ReadKeeps DEF Fail, IInv, TypeOK
<1> QED BY <1>1, <1>3, <1>4, <1>5 DEF Fail

LEMMA TickKeeps ==
  ASSUME IInv, Tick PROVE IInv'
<1>1. now' \in Nat \ {0} /\ now <= now'
  BY DEF Tick, IInv, TypeOK
<1>2. ASSUME NEW e \in Row, Sound(e) PROVE Sound(e)'
  BY <1>1, <1>2, SoundLater DEF IInv, TypeOK
<1>3. ASSUME NEW r \in Request PROVE HandlerOK(req[r])'
  <2>1. PICK g \in Handler : g = req[r] /\ HandlerOK(g)
    BY DEF IInv, TypeOK
  <2>2. Sound(g.row)'
    BY <1>2, <2>1 DEF HandlerOK, Handler
  <2>3. req'[r] = g /\ stored' = stored
    BY <2>1 DEF Tick
  <2> QED BY <2>1, <2>2, <2>3 DEF HandlerOK, Sound, Coherent, Agreed, Backed, Exists
<1>4. PICK e \in Row : e = row /\ Sound(e)
  BY DEF IInv, TypeOK
<1>5. Sound(row)'
  BY <1>2, <1>4 DEF Tick, Sound, Coherent, Agreed
<1>6. TypeOK' /\ Backed(row, stored)' /\ InvitesAreEarned'
  BY <1>1 DEF Tick, IInv, TypeOK, Backed, InvitesAreEarned
<1> QED BY <1>3, <1>5, <1>6 DEF IInv

(* The transport columns and the invites are in order at the start, and    *)
(* every action of every handler keeps them so.                            *)
LEMMA Inductive ==
  /\ Init => IInv
  /\ IInv /\ [Next]_vars => IInv'
<1>1. Init => IInv
  <2> SUFFICES ASSUME Init PROVE IInv
    OBVIOUS
  <2>1. TypeOK
    BY IdleOK DEF Init, TypeOK
  <2>2. \A r \in Request : HandlerOK(req[r])
    BY IdleOK DEF Init
  <2>3. InvitesAreEarned
    BY DEF Init, InvitesAreEarned, Exists, NoInvite, Null
  <2> QED BY <2>1, <2>2, <2>3, IdleOK DEF Init, IInv
<1>2. IInv /\ [Next]_vars => IInv'
  <2> SUFFICES ASSUME IInv, [Next]_vars PROVE IInv'
    OBVIOUS
  <2>1. CASE Tick
    BY <2>1, TickKeeps
  <2>2. ASSUME NEW r \in Request, Start(r) PROVE IInv'
    BY <2>2, ConfirmReadKeeps, DismissReadKeeps, ReviewReadKeeps, RemindSessionKeeps
       DEF Start
  <2>3. ASSUME NEW r \in Request, Step(r) PROVE IInv'
    BY <2>3, ConfirmStampKeeps, ConfirmSaveKeeps, CompleteSaveKeeps, FindInviteKeeps,
       InsertInviteKeeps, RemindSaveKeeps, RemindInvitesKeeps, RemindInviteSaveKeeps,
       DismissSaveKeeps, ReviewInsertKeeps, ReviewFulfilKeeps
       DEF Step
  <2>4. ASSUME NEW r \in Request, Fail(r) PROVE IInv'
    BY <2>4, FailKeeps
  <2>5. CASE UNCHANGED vars
    BY <2>5 DEF vars, moving, IInv, TypeOK, Sound, Coherent, Agreed, Backed, HandlerOK, Exists,
                InvitesAreEarned
  <2> QED BY <2>1, <2>2, <2>3, <2>4, <2>5 DEF Next
<1> QED BY <1>1, <1>2

-----------------------------------------------------------------------------
(* One handler at a time                                                     *)
(*                                                                           *)
(* StoredIsKept and AgreementIsHonoured are promises of handlers that do not *)
(* overlap.  The invariant says what the one handler in flight knows of the  *)
(* tables: what it has read is still so.                                     *)

(* No saved confirmation is missing, in row w or in the entity to be saved. *)
Keeps(h, w, S) ==
  /\ \A p \in S : w.confirmedAt[p] # Null
  /\ h.pc \in {"stamp", "save", "complete", "remind"} =>
       \A p \in S : h.row.confirmedAt[p] # Null
  /\ h.pc = "save" => h.row.confirmedAt[h.party] # Null

(* Where an agreement, two saved confirmations, has come: the handler that   *)
(* has brought it is at its completion or has still to invite its queue.     *)
Honours(h, w, v, S) ==
  /\ h.pc \in {"stamp", "save", "remind", "listInvites"} => S # Party
  /\ h.pc \in {"idle", "remindInvite", "dismiss", "insertReview", "fulfil"} /\ S = Party =>
       w.completedAt # Null /\ \A p \in Party : Exists(v[p])
  /\ h.pc = "complete" => h.row.completedAt # Null
  /\ h.pc \in {"findInvite", "insertInvite"} =>
       w.completedAt # Null /\ h.queue # {} /\ \A p \in Party \ h.queue : Exists(v[p])
  /\ h.pc = "insertInvite" => ~Exists(v[NextInvite(h.queue)])
  /\ h.pc \in {"remindInvite", "dismiss"} => \A p \in Party : Exists(v[p]) => Exists(h.invite[p])

(* All handlers but one are idle. *)
SInv ==
  \E r \in Request :
    /\ \A q \in Request \ {r} : ~InFlight(q)
    /\ Keeps(req[r], row, stored)
    /\ failures = 0 => Honours(req[r], row, invite, stored)

LEMMA InviteMarked ==
  ASSUME NEW i \in Invite
  PROVE  /\ Reminded(i) \in Invite /\ Reminded(i).createdAt = i.createdAt
         /\ Dismissed(i) \in Invite /\ Dismissed(i).createdAt = i.createdAt
  BY DEF Invite, Reminded, Dismissed

\* The handler that moves is the one that is not idle, or all are.
LEMMA OneMoves ==
  ASSUME TypeOK, TypeOK', NEW r \in Request, NEW h, req' = [req EXCEPT ![r] = h],
         \A q \in Request \ {r} : ~InFlight(q),
         Keeps(h, row', stored'),
         failures' = 0 => Honours(h, row', invite', stored')
  PROVE  SInv'
<1>1. req'[r] = h /\ \A q \in Request \ {r} : req'[q] = req[q]
  BY DEF TypeOK
<1> QED
  BY <1>1 DEF SInv, InFlight

\* The others are idle, and so is this one where it starts.
LEMMA OthersIdle ==
  ASSUME SInv, NEW r \in Request, InFlight(r) \/ MayStart(r), serial
  PROVE  \A q \in Request \ {r} : ~InFlight(q)
BY DEF SInv, MayStart

LEMMA BusyKnows ==
  ASSUME SInv, NEW r \in Request, InFlight(r)
  PROVE  /\ Keeps(req[r], row, stored)
         /\ failures = 0 => Honours(req[r], row, invite, stored)
BY DEF SInv

LEMMA QuietKnows ==
  ASSUME SInv, Quiescent
  PROVE  /\ StoredIsKept
         /\ failures = 0 /\ stored = Party =>
              row.completedAt # Null /\ \A p \in Party : Exists(invite[p])
BY DEF SInv, Quiescent, InFlight, Keeps, Honours, StoredIsKept

\* Whoever is idle knows what the tables hold when all are.
LEMMA StartSteady ==
  ASSUME serial, IInv, IInv', SInv, NEW r \in Request,
         Start(r) \/ (RemindInvites(r) /\ ~InFlight(r))
  PROVE  SInv'
<1>1. /\ TypeOK /\ TypeOK' /\ MayStart(r) /\ Quiescent
      /\ \A q \in Request \ {r} : ~InFlight(q)
      /\ UNCHANGED <<row, invite, stored, failures>>
  BY DEF IInv, Start, ConfirmRead, DismissRead, ReviewRead, RemindSession, RemindInvites,
     MayStart, Quiescent, InFlight
<1>2. /\ StoredIsKept
      /\ failures = 0 /\ stored = Party =>
           row.completedAt # Null /\ \A p \in Party : Exists(invite[p])
  BY <1>1, QuietKnows
<1> DEFINE Steady == \E h : /\ req' = [req EXCEPT ![r] = h] /\ Keeps(h, row, stored)
                            /\ failures = 0 => Honours(h, row, invite, stored)
<1>3. Steady
  <2>1. ASSUME NEW p \in Party, ConfirmRead(r, p) PROVE Steady
    <3> DEFINE h == [Idle EXCEPT !.pc = "stamp", !.party = p, !.row = row]
    <3>1. h.pc = "stamp" /\ h.row = row
      BY DEF Idle
    <3>2. Keeps(h, row, stored) /\ (failures = 0 => Honours(h, row, invite, stored))
      BY <1>2, <2>1, <3>1 DEF ConfirmRead, Keeps, Honours, StoredIsKept
    <3> QED
      BY <2>1, <3>2 DEF ConfirmRead
  <2>2. ASSUME NEW p \in Party, DismissRead(r, p) PROVE Steady
    <3> DEFINE h == [Idle EXCEPT !.pc = "dismiss", !.party = p, !.invite = invite]
    <3>1. h.pc = "dismiss" /\ h.invite = invite
      BY DEF Idle
    <3>2. Keeps(h, row, stored) /\ (failures = 0 => Honours(h, row, invite, stored))
      BY <1>2, <3>1 DEF Keeps, Honours, StoredIsKept
    <3> QED
      BY <2>2, <3>2 DEF DismissRead
  <2>3. ASSUME NEW p \in Party, ReviewRead(r, p) PROVE Steady
    <3> DEFINE h == [Idle EXCEPT !.pc = IF HasReview(p) THEN "fulfil" ELSE "insertReview",
                                 !.party = p]
    <3>1. h.pc \in {"fulfil", "insertReview"}
      BY DEF Idle
    <3>2. Keeps(h, row, stored) /\ (failures = 0 => Honours(h, row, invite, stored))
      BY <1>2, <3>1 DEF Keeps, Honours, StoredIsKept
    <3> QED
      BY <2>3, <3>2 DEF ReviewRead
  <2>4. CASE RemindSession(r)
    <3> DEFINE h == [Idle EXCEPT !.pc = "remind", !.row = row]
    <3>1. h.pc = "remind" /\ h.row = row
      BY DEF Idle
    <3>2. Keeps(h, row, stored) /\ (failures = 0 => Honours(h, row, invite, stored))
      BY <1>2, <2>4, <3>1 DEF RemindSession, Keeps, Honours, StoredIsKept
    <3> QED
      BY <2>4, <3>2 DEF RemindSession
  <2>5. CASE RemindInvites(r)
    <3> DEFINE due == {p \in Party : Remindable(invite[p])}
               g == [Idle EXCEPT !.pc = "remindInvite", !.invite = invite, !.queue = due]
               h == IF due = {} THEN Idle ELSE g
    <3>1. g.pc = "remindInvite" /\ g.invite = invite /\ Idle.pc = "idle"
      BY DEF Idle
    <3>2. Keeps(h, row, stored) /\ (failures = 0 => Honours(h, row, invite, stored))
      BY <1>2, <3>1 DEF Keeps, Honours, StoredIsKept
    <3> QED
      BY <2>5, <3>2 DEF RemindInvites
  <2> QED
    BY <2>1, <2>2, <2>3, <2>4, <2>5 DEF Start
<1> QED
  BY <1>1, <1>3, OneMoves

\* A handler in flight finds the tables as it has left them.
LEMMA StepSteady ==
  ASSUME serial, IInv, IInv', SInv, NEW r \in Request, Step(r), InFlight(r)
  PROVE  SInv'
<1>0. PICK g \in Handler : g = req[r] /\ HandlerOK(g)
  BY DEF IInv, TypeOK
<1>1. /\ TypeOK /\ TypeOK' /\ \A q \in Request \ {r} : ~InFlight(q)
      /\ Keeps(g, row, stored)
      /\ failures = 0 => Honours(g, row, invite, stored)
  BY <1>0, OthersIdle, BusyKnows DEF IInv
<1>2. /\ row \in Row /\ invite \in [Party -> Invite] /\ req \in [Request -> Handler]
      /\ now \in Nat \ {0} /\ stored \subseteq Party
  BY <1>1 DEF TypeOK
<1>3. SUFFICES \E h : /\ req' = [req EXCEPT ![r] = h] /\ Keeps(h, row', stored')
                      /\ failures = 0 => Honours(h, row', invite', stored')
  <2>1. failures' = failures
    BY DEF Step, ConfirmStamp, ConfirmSave, CompleteSave, FindInvite, InsertInvite, RemindSave,
       RemindInvites, RemindInviteSave, DismissSave, ReviewInsert, ReviewFulfil
  <2> QED
    BY <1>1, <2>1, OneMoves
<1>4. Idle.pc = "idle" /\ Party = {Owner, Carrier} /\ g.row \in Row /\ g.queue \subseteq Party
      /\ g.party \in Party /\ g.invite \in [Party -> Invite]
  BY DEF Idle, Party, Handler
<1>5. CASE ConfirmStamp(r)
  <2> DEFINE e == Confirmed(g.row, g.party)
  <2>1. PICK h : h = [g EXCEPT !.pc = "save", !.row = e]
    OBVIOUS
  <2>2. h.pc = "save" /\ h.row = e /\ h.party = g.party
    BY <2>1 DEF Handler
  <2>3. req' = [req EXCEPT ![r] = h] /\ UNCHANGED <<row, invite, stored>> /\ g.pc = "stamp"
    BY <1>0, <1>2, <1>5, <2>1 DEF ConfirmStamp
  <2>4. \A q \in Party : q # g.party => e.confirmedAt[q] = g.row.confirmedAt[q]
    BY <1>0, <1>2, <1>4, <2>3, ConfirmedSound DEF HandlerOK
  <2>5. e.confirmedAt[g.party] # Null
    <3>1. CASE g.row.confirmedAt[g.party] = Null
      <4>1. e = [g.row EXCEPT !.confirmedAt[g.party] = now, !.completedBy = g.party]
        BY <3>1 DEF Confirmed
      <4>2. e.confirmedAt = [g.row.confirmedAt EXCEPT ![g.party] = now]
        BY <1>4, <4>1 DEF Row
      <4> QED
        BY <1>2, <1>4, <4>2 DEF Row, Null
    <3>2. CASE g.row.confirmedAt[g.party] # Null
      BY <3>2 DEF Confirmed
    <3> QED
      BY <3>1, <3>2
  <2> HIDE DEF e
  <2>6. Keeps(h, row, stored) /\ (failures = 0 => Honours(h, row, invite, stored))
    BY <1>1, <1>2, <2>2, <2>3, <2>4, <2>5 DEF Keeps, Honours
  <2> QED
    BY <2>3, <2>6
<1>6. CASE ConfirmSave(r)
  <2>1. /\ g.pc = "save" /\ row' = g.row /\ stored' = stored \union {g.party}
        /\ UNCHANGED invite
    BY <1>0, <1>6 DEF ConfirmSave
  <2>2. \A p \in stored' : g.row.confirmedAt[p] # Null
    BY <1>1, <2>1 DEF Keeps
  <2>3. CASE Agreed(g.row)
    <3>1. PICK h : h = [g EXCEPT !.pc = "complete", !.row = Completed(g.row)]
      OBVIOUS
    <3>2. h.pc = "complete" /\ h.row = Completed(g.row)
      BY <3>1 DEF Handler
    <3>3. /\ Completed(g.row).confirmedAt = g.row.confirmedAt
          /\ Completed(g.row).completedAt # Null
      BY <1>4, <2>3 DEF Completed, Row, Agreed, Null, Party
    <3>4. req' = [req EXCEPT ![r] = h]
      BY <1>0, <1>2, <1>6, <2>3, <3>1 DEF ConfirmSave
    <3>5. Keeps(h, row', stored') /\ Honours(h, row', invite', stored')
      BY <2>1, <2>2, <3>2, <3>3 DEF Keeps, Honours
    <3> QED
      BY <3>4, <3>5
  <2>4. CASE ~Agreed(g.row)
    <3>1. req' = [req EXCEPT ![r] = Idle]
      BY <1>0, <1>6, <2>4 DEF ConfirmSave, Done
    <3>2. stored' # Party
      BY <2>2, <2>4 DEF Agreed
    <3>3. Keeps(Idle, row', stored') /\ Honours(Idle, row', invite', stored')
      BY <1>4, <2>1, <2>2, <3>2 DEF Keeps, Honours
    <3> QED
      BY <3>1, <3>3
  <2> QED
    BY <2>3, <2>4
<1>7. CASE CompleteSave(r)
  <2>1. g.pc = "complete" /\ row' = g.row /\ UNCHANGED <<invite, stored>>
    BY <1>0, <1>7 DEF CompleteSave
  <2>2. PICK h : h = [g EXCEPT !.pc = "findInvite", !.queue = Party]
    OBVIOUS
  <2>3. h.pc = "findInvite" /\ h.queue = Party
    BY <2>2 DEF Handler
  <2>4. req' = [req EXCEPT ![r] = h]
    BY <1>0, <1>2, <1>7, <2>2 DEF CompleteSave, Invited
  <2>5. Keeps(h, row', stored') /\ (failures = 0 => Honours(h, row', invite', stored'))
    BY <1>1, <1>4, <2>1, <2>3 DEF Keeps, Honours
  <2> QED
    BY <2>4, <2>5
\* The invite of the next in the queue is there: the handler goes on.
<1>a. ASSUME g.pc \in {"findInvite", "insertInvite"}, NEW v,
             failures = 0 => /\ Exists(v[NextInvite(g.queue)])
                             /\ \A p \in Party : Exists(invite[p]) => Exists(v[p])
      PROVE  LET h == AfterInvite(g, NextInvite(g.queue))
             IN  Keeps(h, row, stored) /\ (failures = 0 => Honours(h, row, v, stored))
  <2> DEFINE p == NextInvite(g.queue)
  <2>1. CASE g.queue = {p}
    BY <1>1, <1>4, <1>a, <2>1 DEF AfterInvite, Keeps, Honours
  <2>2. CASE g.queue # {p}
    <3>1. PICK h : h = [g EXCEPT !.pc = "findInvite", !.queue = @ \ {p}]
      OBVIOUS
    <3>2. h.pc = "findInvite" /\ h.queue = g.queue \ {p} /\ h = AfterInvite(g, p)
      BY <2>2, <3>1 DEF Handler, AfterInvite
    <3>3. failures = 0 => h.queue # {} /\ \A q \in Party \ h.queue : Exists(v[q])
      BY <1>1, <1>4, <1>a, <2>2, <3>2 DEF Honours
    <3> QED
      BY <1>1, <1>a, <3>2, <3>3 DEF Keeps, Honours
  <2> QED
    BY <2>1, <2>2
<1>8. CASE FindInvite(r)
  <2> DEFINE p == NextInvite(g.queue)
  <2>1. g.pc = "findInvite" /\ UNCHANGED <<row, invite, stored>>
    BY <1>0, <1>8 DEF FindInvite
  <2>2. CASE Exists(invite[p])
    <3>1. req' = [req EXCEPT ![r] = AfterInvite(g, p)]
      BY <1>0, <1>8, <2>2 DEF FindInvite
    <3> QED
      BY <1>a, <2>1, <2>2, <3>1
  <2>3. CASE ~Exists(invite[p])
    <3>1. PICK h : h = [g EXCEPT !.pc = "insertInvite"]
      OBVIOUS
    <3>2. h.pc = "insertInvite" /\ h.queue = g.queue
      BY <3>1 DEF Handler
    <3>3. req' = [req EXCEPT ![r] = h]
      BY <1>0, <1>8, <2>3, <3>1 DEF FindInvite
    <3>4. Keeps(h, row, stored) /\ (failures = 0 => Honours(h, row, invite, stored))
      BY <1>1, <2>1, <2>3, <3>2 DEF Keeps, Honours
    <3> QED
      BY <2>1, <3>3, <3>4
  <2> QED
    BY <2>2, <2>3
<1>9. CASE InsertInvite(r)
  <2> DEFINE p == NextInvite(g.queue)
  <2>1. g.pc = "insertInvite" /\ UNCHANGED <<row, stored>>
    BY <1>0, <1>9 DEF InsertInvite
  <2>2. CASE Exists(invite[p])
    <3>1. req' = [req EXCEPT ![r] = Idle]
      BY <1>0, <1>9, <2>2 DEF InsertInvite, Done
    <3>2. Keeps(Idle, row', stored') /\ (failures = 0 => Honours(Idle, row', invite', stored'))
      BY <1>1, <1>4, <2>1, <2>2 DEF Keeps, Honours
    <3> QED
      BY <3>1, <3>2
  <2>3. CASE ~Exists(invite[p])
    <3>1. /\ req' = [req EXCEPT ![r] = AfterInvite(g, p)]
          /\ invite' = [invite EXCEPT ![p] = NewInvite]
      BY <1>0, <1>9, <2>3 DEF InsertInvite
    <3>2. Exists(NewInvite) /\ p \in Party
      BY <1>2 DEF Exists, NewInvite, Null, NextInvite, Party
    <3>3. PICK v : v = [invite EXCEPT ![p] = NewInvite]
      OBVIOUS
    <3>4. Exists(v[p]) /\ \A q \in Party : Exists(invite[q]) => Exists(v[q])
      BY <1>2, <3>2, <3>3
    <3> QED
      BY <1>a, <2>1, <3>1, <3>3, <3>4
  <2> QED
    BY <2>2, <2>3
<1>10. CASE RemindSave(r)
  <2>1. g.pc = "remind" /\ row' = Reminded(g.row) /\ UNCHANGED <<invite, stored>>
    BY <1>0, <1>10 DEF RemindSave
  <2>2. Reminded(g.row).confirmedAt = g.row.confirmedAt
    BY <1>4 DEF Reminded, Row
  <2>3. PICK h : h = [g EXCEPT !.pc = "listInvites"]
    OBVIOUS
  <2>4. h.pc = "listInvites"
    BY <2>3 DEF Handler
  <2>5. req' = [req EXCEPT ![r] = h]
    BY <1>0, <1>2, <1>10, <2>3 DEF RemindSave, Goto
  <2>6. Keeps(h, row', stored') /\ (failures = 0 => Honours(h, row', invite', stored'))
    BY <1>1, <2>1, <2>2, <2>4 DEF Keeps, Honours
  <2> QED
    BY <2>5, <2>6
<1>11. CASE RemindInvites(r)
  <2> DEFINE due == {p \in Party : Remindable(invite[p])}
             f == [Idle EXCEPT !.pc = "remindInvite", !.invite = invite, !.queue = due]
             h == IF due = {} THEN Idle ELSE f
  <2>1. g.pc = "listInvites" /\ UNCHANGED <<row, invite, stored>> /\ req' = [req EXCEPT ![r] = h]
    BY <1>0, <1>11 DEF RemindInvites, MayStart
  <2>2. f.pc = "remindInvite" /\ f.invite = invite
    BY DEF Idle
  <2>3. Keeps(h, row, stored) /\ (failures = 0 => Honours(h, row, invite, stored))
    BY <1>1, <1>4, <2>1, <2>2 DEF Keeps, Honours
  <2> QED
    BY <2>1, <2>3
\* An invite that is there is still there when it is saved late.
<1>b. ASSUME NEW p \in Party, NEW i \in Invite, i.createdAt = g.invite[p].createdAt,
             g.pc \in {"remindInvite", "dismiss"}, failures = 0
      PROVE  \A q \in Party : Exists(invite[q]) => Exists([invite EXCEPT ![p] = i][q])
  BY <1>1, <1>2, <1>b DEF Honours, Exists
<1>12. CASE RemindInviteSave(r)
  <2>1. PICK p \in Party : /\ invite' = [invite EXCEPT ![p] = Reminded(g.invite[p])]
                           /\ req' = [req EXCEPT ![r] = AfterReminder(g, p)]
    BY <1>0, <1>4, <1>12 DEF RemindInviteSave
  <2>2. g.pc = "remindInvite" /\ UNCHANGED <<row, stored>>
    BY <1>0, <1>12 DEF RemindInviteSave
  <2>3. /\ Reminded(g.invite[p]) \in Invite
        /\ Reminded(g.invite[p]).createdAt = g.invite[p].createdAt
    BY <1>4, InviteMarked
  <2>4. failures = 0 => \A q \in Party : Exists(invite[q]) => Exists(invite'[q])
    BY <1>b, <2>1, <2>2, <2>3
  <2>5. PICK h : h = AfterReminder(g, p)
    OBVIOUS
  <2>6. h = Idle \/ (h.pc = "remindInvite" /\ h.invite = g.invite)
    <3>1. h = Idle \/ \E x : h = [g EXCEPT !.queue = x]
      BY <2>5 DEF AfterReminder
    <3> QED
      BY <1>4, <2>2, <3>1 DEF Handler
  <2>7. /\ failures = 0 => \A q \in Party : Exists(invite'[q]) => Exists(g.invite[q])
    BY <1>1, <1>2, <2>1, <2>2, <2>3 DEF Honours, Exists
  <2>8. Keeps(h, row', stored') /\ (failures = 0 => Honours(h, row', invite', stored'))
    <3>1. h.pc \in {"idle", "remindInvite"}
      BY <2>6 DEF Idle
    <3>2. Keeps(h, row', stored')
      BY <1>1, <2>2, <3>1 DEF Keeps
    <3>3. ASSUME failures = 0, stored = Party
          PROVE  row.completedAt # Null /\ \A q \in Party : Exists(invite'[q])
      BY <1>1, <2>2, <2>4, <3>3 DEF Honours
    <3>4. ASSUME failures = 0, h.pc = "remindInvite"
          PROVE  \A q \in Party : Exists(invite'[q]) => Exists(h.invite[q])
      BY <2>6, <2>7, <3>4 DEF Idle
    <3>5. failures = 0 => Honours(h, row', invite', stored')
      BY <2>2, <3>1, <3>3, <3>4 DEF Honours
    <3> QED
      BY <3>2, <3>5
  <2> QED
    BY <2>1, <2>5, <2>8
<1>13. CASE DismissSave(r)
  <2>1. /\ g.pc = "dismiss" /\ UNCHANGED <<row, stored>> /\ req' = [req EXCEPT ![r] = Idle]
        /\ invite' = [invite EXCEPT ![g.party] = Dismissed(g.invite[g.party])]
    BY <1>0, <1>13 DEF DismissSave, Done
  <2>2. /\ Dismissed(g.invite[g.party]) \in Invite
        /\ Dismissed(g.invite[g.party]).createdAt = g.invite[g.party].createdAt
    BY <1>4, InviteMarked
  <2>3. failures = 0 => \A q \in Party : Exists(invite[q]) => Exists(invite'[q])
    BY <1>4, <1>b, <2>1, <2>2
  <2>4. Keeps(Idle, row', stored') /\ (failures = 0 => Honours(Idle, row', invite', stored'))
    BY <1>1, <1>4, <2>1, <2>3 DEF Keeps, Honours
  <2> QED
    BY <2>1, <2>4
<1>14. CASE ReviewInsert(r)
  <2>1. g.pc = "insertReview" /\ UNCHANGED <<row, invite, stored>>
    BY <1>0, <1>14 DEF ReviewInsert
  <2>2. PICK h : h = [g EXCEPT !.pc = "fulfil"]
    OBVIOUS
  <2>3. h.pc = "fulfil"
    BY <2>2 DEF Handler
  <2>4. req' = [req EXCEPT ![r] = h]
    BY <1>0, <1>2, <1>14, <2>2 DEF ReviewInsert, Goto
  <2>5. Keeps(h, row', stored') /\ (failures = 0 => Honours(h, row', invite', stored'))
    BY <1>1, <2>1, <2>3 DEF Keeps, Honours
  <2> QED
    BY <2>4, <2>5
<1>15. CASE ReviewFulfil(r)
  <2>1. g.pc = "fulfil" /\ UNCHANGED <<row, stored>> /\ req' = [req EXCEPT ![r] = Idle]
    BY <1>0, <1>15 DEF ReviewFulfil, Done
  <2>2. \A q \in Party : Exists(invite[q]) => Exists(invite'[q])
    <3>1. invite[g.party] \in Invite
      BY <1>2, <1>4
    <3>2. [invite[g.party] EXCEPT !.fulfilled = TRUE].createdAt = invite[g.party].createdAt
      BY <3>1 DEF Invite
    <3>3. \/ invite' = invite
          \/ invite' = [invite EXCEPT ![g.party] = [invite[g.party] EXCEPT !.fulfilled = TRUE]]
      BY <1>0, <1>2, <1>4, <1>15 DEF ReviewFulfil
    <3> QED
      BY <1>2, <1>4, <3>2, <3>3 DEF Exists
  <2>3. Keeps(Idle, row', stored') /\ (failures = 0 => Honours(Idle, row', invite', stored'))
    BY <1>1, <1>4, <2>1, <2>2 DEF Keeps, Honours
  <2> QED
    BY <2>1, <2>3
<1> QED
  BY <1>5, <1>6, <1>7, <1>8, <1>9, <1>10, <1>11, <1>12, <1>13, <1>14, <1>15 DEF Step

\* A failed call leaves the tables as they are; nothing is honoured after it.
LEMMA FailSteady ==
  ASSUME serial, IInv, IInv', SInv, NEW r \in Request, Fail(r)
  PROVE  SInv'
<1>1. /\ TypeOK /\ TypeOK' /\ InFlight(r) /\ failures' # 0 /\ UNCHANGED <<row, invite, stored>>
      /\ \A q \in Request \ {r} : ~InFlight(q)
      /\ \A p \in stored : row.confirmedAt[p] # Null
  BY OthersIdle, BusyKnows DEF IInv, TypeOK, Fail, Keeps
<1>2. req \in [Request -> Handler] /\ req[r] \in Handler
  BY <1>1 DEF TypeOK
<1> DEFINE Left == \E h : /\ req' = [req EXCEPT ![r] = h]
                          /\ h.pc \in {"idle", "listInvites", "remindInvite"}
<1>3. Left
  <2>1. CASE Done(r)
    <3>1. Idle.pc = "idle" /\ req' = [req EXCEPT ![r] = Idle]
      BY <2>1 DEF Done, Idle
    <3> QED
      BY <3>1
  <2>2. CASE Goto(r, "listInvites")
    <3>1. PICK h : h = [req[r] EXCEPT !.pc = "listInvites"]
      OBVIOUS
    <3>2. h.pc = "listInvites" /\ req' = [req EXCEPT ![r] = h]
      BY <1>2, <2>2, <3>1 DEF Goto, Handler
    <3> QED
      BY <3>2
  <2>3. ASSUME req[r].pc = "remindInvite",
               NEW p, req' = [req EXCEPT ![r].queue = @ \ {p}]
        PROVE  Left
    <3>1. PICK h : h = [req[r] EXCEPT !.queue = @ \ {p}]
      OBVIOUS
    <3>2. h.pc = "remindInvite" /\ req' = [req EXCEPT ![r] = h]
      BY <1>2, <2>3, <3>1 DEF Handler
    <3> QED
      BY <3>2
  <2> QED
    BY <2>1, <2>2, <2>3 DEF Fail
<1>4. PICK h : req' = [req EXCEPT ![r] = h] /\ Keeps(h, row', stored')
  BY <1>1, <1>3 DEF Keeps
<1> QED
  BY <1>1, <1>4, OneMoves

\* Run one at a time, the handlers keep the invariant.
LEMMA InductiveSerially ==
  /\ Init => (serial => SInv)
  /\ IInv /\ IInv' /\ (serial => SInv) /\ [Next]_vars => (serial => SInv)'
<1>1. Init => SInv
  <2> SUFFICES ASSUME Init PROVE SInv
    OBVIOUS
  <2>1. \A r \in Request : req[r] = Idle /\ ~InFlight(r)
    BY DEF Init, InFlight, Idle
  <2>2. Keeps(Idle, row, stored) /\ Honours(Idle, row, invite, stored)
    BY DEF Init, Keeps, Honours, Idle, Party
  <2> QED
    BY <2>1, <2>2, RequestAssumption DEF SInv
<1>2. ASSUME serial, IInv, IInv', SInv, [Next]_vars PROVE SInv'
  <2> USE <1>2
  <2>1. CASE Tick \/ UNCHANGED vars
    BY <2>1 DEF Tick, vars, moving, SInv, InFlight
  <2>2. ASSUME NEW r \in Request, Start(r) PROVE SInv'
    BY <2>2, StartSteady
  <2>3. ASSUME NEW r \in Request, Step(r) PROVE SInv'
    <3>1. CASE InFlight(r)
      BY <2>3, <3>1, StepSteady
    <3>2. CASE ~InFlight(r)
      <4>1. RemindInvites(r)
        BY <2>3, <3>2 DEF Step, InFlight, ConfirmStamp, ConfirmSave, CompleteSave, FindInvite,
           InsertInvite, RemindSave, RemindInviteSave, DismissSave, ReviewInsert, ReviewFulfil
      <4> QED
        BY <3>2, <4>1, StartSteady
    <3> QED
      BY <3>1, <3>2
  <2>4. ASSUME NEW r \in Request, Fail(r) PROVE SInv'
    BY <2>4, FailSteady
  <2> QED
    BY <2>1, <2>2, <2>3, <2>4 DEF Next
<1>3. [Next]_vars => serial' = serial
  BY DEF Next, vars
<1> QED
  BY <1>1, <1>2, <1>3
-----------------------------------------------------------------------------
(* The room: types *)

LEMMA SameCount == ASSUME NEW S PROVE Meeting!Cardinality(S) = Cardinality(S)
<1>1. Meeting!IsFiniteSet(S) <=> IsFiniteSet(S)
  BY DEF Meeting!IsFiniteSet, IsFiniteSet
<1> QED
  BY <1>1 DEF Meeting!Cardinality, Cardinality

RoomBounded ==
  /\ {MaxParticipants, Ttl, SignalMaxLen, Recent} \subseteq Nat
  /\ IsFiniteSet(Visit) /\ IsFiniteSet(User)

\* What a handler at pc is about.
Shaped(h) ==
  /\ h.pc \in {"count", "add", "remove", "members", "get", "prune"} => h.kind # "poll" /\ h.user \in User
  /\ h.pc = "prune" => h.gone \in User
  /\ h.pc \in {"read", "answer"} => h.user \in User

TInv == Meeting!TypeOK /\ \A r \in Visit : Shaped(asking[r])

Moves(r, h) == h \in Meeting!Handler /\ Shaped(h) /\ Meeting!Become(r, h)

LEMMA MovesTyped ==
  ASSUME TInv, NEW r \in Visit, NEW h, Moves(r, h)
  PROVE  /\ asking' \in [Visit -> Meeting!Handler] /\ \A q \in Visit : Shaped(asking'[q])
         /\ asking'[r] = h /\ \A q \in Visit \ {r} : asking'[q] = asking[q]
  BY DEF TInv, Meeting!TypeOK, Moves, Meeting!Become

LEMMA IdleTyped ==
  Meeting!Idle \in Meeting!Handler /\ Shaped(Meeting!Idle) /\ Meeting!Idle.pc = "idle" /\ Meeting!Idle.kind = "none"
  BY DEF Meeting!Idle, Meeting!Handler, Shaped, Meeting!Target

LEMMA BeginTyped ==
  ASSUME TInv, NEW r, NEW h, NEW n \in Nat, Meeting!Begin(r, h, n)
  PROVE  /\ spent' \in Meeting!Counters /\ Meeting!Become(r, h) /\ asking[r] = Meeting!Idle
         /\ spent'.overlaps = spent.overlaps + Meeting!Overlapping(r, h)
<1>1. Meeting!Overlapping(r, h) \in Nat
  BY DEF Meeting!Overlapping
<1>2. PICK a, b : a = spent.calls + n /\ b = spent.overlaps + Meeting!Overlapping(r, h)
  OBVIOUS
<1>3. spent \in Meeting!Counters /\ spent' = [spent EXCEPT !.calls = a, !.overlaps = b]
  BY <1>2 DEF TInv, Meeting!TypeOK, Meeting!Begin
<1>4. a \in Nat /\ b \in Nat
  BY <1>1, <1>2, <1>3 DEF Meeting!Counters
<1>5. spent' \in Meeting!Counters /\ spent'.overlaps = b
  BY <1>3, <1>4 DEF Meeting!Counters
<1> QED
  BY <1>2, <1>5 DEF Meeting!Begin

LEMMA JoinTyped ==
  ASSUME TInv, NEW r \in Visit, NEW u \in User, Meeting!Join(r, u)
  PROVE  /\ TInv'
         /\ \E h : /\ Moves(r, h) /\ Meeting!Begin(r, h, 1) /\ h.user = u /\ h.kind = "join"
                   /\ h.pc = IF Meeting!Live(u) THEN "add" ELSE "count"
<1>1. PICK h : h = Meeting!InRoom(u, IF Meeting!Live(u) THEN "add" ELSE "count")
  OBVIOUS
<1>2. /\ h \in Meeting!Handler /\ Shaped(h) /\ h.user = u /\ h.kind = "join"
      /\ h.pc = IF Meeting!Live(u) THEN "add" ELSE "count"
  <2>1. PICK pc \in {"add", "count"} : pc = IF Meeting!Live(u) THEN "add" ELSE "count"
    OBVIOUS
  <2>2. h = [Meeting!Idle EXCEPT !.kind = "join", !.user = u, !.pc = pc]
    BY <1>1, <2>1 DEF Meeting!InRoom
  <2> QED
    BY <2>1, <2>2 DEF Meeting!Idle, Meeting!Handler, Shaped, Meeting!Target
<1>3. Meeting!Begin(r, h, 1) /\ UNCHANGED <<clock, room, member, log, list, client, heard, limit>>
  BY <1>1 DEF Meeting!Join
<1>4. Moves(r, h) /\ spent' \in Meeting!Counters
  BY <1>2, <1>3, BeginTyped DEF Moves
<1> QED
  BY <1>2, <1>3, <1>4, MovesTyped DEF TInv, Meeting!TypeOK

LEMMA LeaveTyped ==
  ASSUME TInv, NEW r \in Visit, NEW u \in User, Meeting!Leave(r, u)
  PROVE  /\ TInv'
         /\ \E h : /\ Moves(r, h) /\ Meeting!Begin(r, h, 1) /\ h.kind = "look" /\ h.pc = "remove"
<1>1. PICK h : h = [Meeting!Idle EXCEPT !.kind = "look", !.user = u, !.pc = "remove"]
  OBVIOUS
<1>2. h \in Meeting!Handler /\ Shaped(h) /\ h.user = u /\ h.kind = "look" /\ h.pc = "remove"
  BY <1>1 DEF Meeting!Idle, Meeting!Handler, Shaped, Meeting!Target
<1>3. Meeting!Begin(r, h, 1) /\ UNCHANGED <<clock, room, member, log, list, heard, limit>>
  BY <1>1 DEF Meeting!Leave
<1>4. Moves(r, h) /\ spent' \in Meeting!Counters
  BY <1>2, <1>3, BeginTyped DEF Moves
<1>5. client' \in [User -> Meeting!Page]
  BY DEF Meeting!Leave, TInv, Meeting!TypeOK, Meeting!NewPage, Meeting!Page
<1> QED
  BY <1>2, <1>3, <1>4, <1>5, MovesTyped DEF TInv, Meeting!TypeOK

LEMMA LookTyped ==
  ASSUME TInv, NEW r \in Visit, NEW u \in User, Meeting!Look(r, u)
  PROVE  /\ TInv'
         /\ \E h : /\ Moves(r, h) /\ Meeting!Begin(r, h, 1) /\ h.kind = "look" /\ h.pc = "members"
<1>1. PICK h : h = [Meeting!Idle EXCEPT !.kind = "look", !.user = u, !.pc = "members"]
  OBVIOUS
<1>2. h \in Meeting!Handler /\ Shaped(h) /\ h.user = u /\ h.kind = "look" /\ h.pc = "members"
  BY <1>1 DEF Meeting!Idle, Meeting!Handler, Shaped, Meeting!Target
<1>3. Meeting!Begin(r, h, 1) /\ UNCHANGED <<clock, room, member, log, list, client, heard, limit>>
  BY <1>1 DEF Meeting!Look
<1>4. Moves(r, h) /\ spent' \in Meeting!Counters
  BY <1>2, <1>3, BeginTyped DEF Moves
<1> QED
  BY <1>2, <1>3, <1>4, MovesTyped DEF TInv, Meeting!TypeOK

LEMMA PollTyped ==
  ASSUME TInv, NEW r \in Visit, NEW u \in User, Meeting!Poll(r, u)
  PROVE  /\ TInv'
         /\ \E h : /\ Moves(r, h) /\ Meeting!Begin(r, h, 0) /\ h.pc = "read" /\ h.user = u
                   /\ h.after = client[u].last
<1>1. PICK h : h = [Meeting!Idle EXCEPT !.kind = "poll", !.user = u, !.pc = "read", !.after = client[u].last]
  OBVIOUS
<1>2. client[u].last \in Nat
  BY DEF TInv, Meeting!TypeOK, Meeting!Page
<1>3. h \in Meeting!Handler /\ Shaped(h) /\ h.user = u /\ h.pc = "read" /\ h.after = client[u].last
  BY <1>1, <1>2 DEF Meeting!Idle, Meeting!Handler, Shaped, Meeting!Target
<1>4. Meeting!Begin(r, h, 0) /\ UNCHANGED <<clock, room, member, log, list, client, heard, limit>>
  BY <1>1 DEF Meeting!Poll
<1>5. Moves(r, h) /\ spent' \in Meeting!Counters
  BY <1>3, <1>4, BeginTyped DEF Moves
<1> QED
  BY <1>3, <1>4, <1>5, MovesTyped DEF TInv, Meeting!TypeOK

LEMMA CountTyped ==
  ASSUME TInv, NEW r \in Visit, Meeting!Count(r)
  PROVE  /\ TInv'
         /\ \E h : /\ Moves(r, h)
                   /\ h.pc = IF Meeting!Full THEN "idle" ELSE "add"
                   /\ ~ Meeting!Full => h.user = asking[r].user
<1>1. PICK h : h = IF Meeting!Full THEN Meeting!Idle ELSE [asking[r] EXCEPT !.pc = "add"]
  OBVIOUS
<1>2. asking[r] \in Meeting!Handler /\ Shaped(asking[r]) /\ asking[r].pc = "count"
  BY DEF TInv, Meeting!TypeOK, Meeting!Count, Meeting!At
<1>3. /\ h \in Meeting!Handler /\ Shaped(h) /\ h.pc = IF Meeting!Full THEN "idle" ELSE "add"
      /\ ~ Meeting!Full => h.user = asking[r].user
  BY <1>1, <1>2, IdleTyped DEF Meeting!Handler, Shaped
<1>4. Moves(r, h) /\ UNCHANGED <<clock, room, member, log, list, client, heard, limit, spent>>
  BY <1>1, <1>3 DEF Meeting!Count, Moves
<1> QED
  BY <1>3, <1>4, MovesTyped DEF TInv, Meeting!TypeOK

\* Those who join or leave go on to look at the members.
LEMMA ThenMembers ==
  ASSUME TInv, NEW r \in Visit, asking[r].pc \in {"add", "remove"},
         Meeting!Become(r, [asking[r] EXCEPT !.pc = "members"])
  PROVE  \E h : Moves(r, h) /\ h.pc = "members"
<1>1. PICK h : h = [asking[r] EXCEPT !.pc = "members"]
  OBVIOUS
<1>2. asking[r] \in Meeting!Handler /\ Shaped(asking[r])
  BY DEF TInv, Meeting!TypeOK
<1>3. h \in Meeting!Handler /\ Shaped(h) /\ h.pc = "members"
  BY <1>1, <1>2 DEF Meeting!Handler, Shaped
<1> QED
  BY <1>1, <1>3 DEF Moves

LEMMA AddTyped ==
  ASSUME RoomBounded, TInv, NEW r \in Visit, Meeting!Add(r)
  PROVE  TInv' /\ asking[r].user \in User /\ \E h : Moves(r, h) /\ h.pc = "members"
<1>1. asking[r].user \in User /\ clock + Ttl \in Nat /\ Meeting!Members \subseteq User /\ Meeting!Renewed \in Nat
  BY DEF TInv, Meeting!TypeOK, Shaped, Meeting!Add, Meeting!At, RoomBounded, Meeting!Members, Meeting!Renewed
<1>2. PICK h : Moves(r, h) /\ h.pc = "members"
  BY ThenMembers DEF Meeting!Add, Meeting!At
<1>3. room' \in [users : SUBSET User, until : Nat] /\ member' \in [User -> Nat]
  BY <1>1 DEF Meeting!Add, TInv, Meeting!TypeOK
<1> QED
  BY <1>1, <1>2, <1>3, MovesTyped DEF TInv, Meeting!TypeOK, Meeting!Add

LEMMA RemoveTyped ==
  ASSUME TInv, NEW r \in Visit, Meeting!Remove(r)
  PROVE  TInv' /\ asking[r].user \in User /\ \E h : Moves(r, h) /\ h.pc = "members"
<1>1. asking[r].user \in User /\ Meeting!Members \subseteq User
  BY DEF TInv, Meeting!TypeOK, Shaped, Meeting!Remove, Meeting!At, Meeting!Members
<1>2. PICK h : Moves(r, h) /\ h.pc = "members"
  BY ThenMembers DEF Meeting!Remove, Meeting!At
<1>3. room' \in [users : SUBSET User, until : Nat] /\ member' \in [User -> Nat]
  BY <1>1 DEF Meeting!Remove, TInv, Meeting!TypeOK
<1> QED
  BY <1>1, <1>2, <1>3, MovesTyped DEF TInv, Meeting!TypeOK, Meeting!Remove

\* The pages remember the same, whoever is in the call.
SameMemory == \A u \in User : client'[u].seen = client[u].seen /\ client'[u].last = client[u].last

LEMMA NextMemberTyped ==
  ASSUME TInv, NEW r \in Visit, NEW g \in Meeting!Handler, g.kind # "poll", g.user \in User,
         Meeting!NextMember(r, g)
  PROVE  /\ \E h : Moves(r, h) /\ h.pc \in {"idle", "get"}
         /\ client' \in [User -> Meeting!Page] /\ SameMemory
<1>1. CASE g.left = {}
  <2>1. Moves(r, Meeting!Idle) /\ Meeting!Idle.pc \in {"idle", "get"}
    BY <1>1, IdleTyped DEF Meeting!NextMember, Moves
  <2>2. client' = [client EXCEPT ![g.user].inCall = TRUE] \/ client' = client
    BY <1>1 DEF Meeting!NextMember, Meeting!Answered
  <2>3. client' \in [User -> Meeting!Page] /\ SameMemory
    <3>1. PICK p : p = [client[g.user] EXCEPT !.inCall = TRUE]
      OBVIOUS
    <3>2. client[g.user] \in Meeting!Page
      BY DEF TInv, Meeting!TypeOK
    <3>3. p \in Meeting!Page /\ p.seen = client[g.user].seen /\ p.last = client[g.user].last
      BY <3>1, <3>2 DEF Meeting!Page
    <3>4. client' = [client EXCEPT ![g.user] = p] \/ client' = client
      BY <2>2, <3>1
    <3> QED
      BY <3>3, <3>4 DEF SameMemory, TInv, Meeting!TypeOK
  <2> QED
    BY <2>1, <2>3
<1>2. CASE g.left # {}
  <2>1. PICK h : h = [g EXCEPT !.pc = "get", !.gone = Nobody]
    OBVIOUS
  <2>2. Moves(r, h) /\ h.pc = "get" /\ client' = client
    BY <1>2, <2>1 DEF Meeting!NextMember, Moves, Meeting!Handler, Shaped, Meeting!Target
  <2> QED
    BY <2>2 DEF SameMemory, TInv, Meeting!TypeOK
<1> QED
  BY <1>1, <1>2

LEMMA ListTyped ==
  ASSUME TInv, NEW r \in Visit, Meeting!List(r)
  PROVE  TInv' /\ SameMemory /\ \E h : Moves(r, h) /\ h.pc \in {"idle", "get"}
<1>1. PICK g : g = [asking[r] EXCEPT !.left = Meeting!Members]
  OBVIOUS
<1>2. asking[r] \in Meeting!Handler /\ asking[r].kind # "poll" /\ asking[r].user \in User /\ Meeting!Members \subseteq User
  BY DEF TInv, Meeting!TypeOK, Shaped, Meeting!List, Meeting!At, Meeting!Members
<1>3. g \in Meeting!Handler /\ g.kind # "poll" /\ g.user \in User
  BY <1>1, <1>2 DEF Meeting!Handler
<1>4. Meeting!NextMember(r, g) /\ UNCHANGED <<clock, room, member, log, list, heard, limit, spent>>
  BY <1>1 DEF Meeting!List
<1> QED
  BY <1>3, <1>4, NextMemberTyped, MovesTyped DEF TInv, Meeting!TypeOK

LEMMA GetTyped ==
  ASSUME TInv, NEW r \in Visit, Meeting!Get(r)
  PROVE  /\ TInv' /\ SameMemory
         /\ \E h : /\ Moves(r, h) /\ h.pc \in {"idle", "get", "prune"}
                   /\ h.pc = "prune" => ~ Meeting!Live(h.gone)
<1>1. PICK u \in asking[r].left :
        LET h == [asking[r] EXCEPT !.left = @ \ {u}]
        IN  IF Meeting!Live(u) THEN Meeting!NextMember(r, h)
            ELSE Meeting!Become(r, [h EXCEPT !.pc = "prune", !.gone = u]) /\ UNCHANGED client
  BY DEF Meeting!Get
<1>2. UNCHANGED <<clock, room, member, log, list, heard, limit, spent>>
  BY DEF Meeting!Get
<1>3. /\ asking[r] \in Meeting!Handler /\ asking[r].kind # "poll" /\ asking[r].user \in User
      /\ u \in User
  BY DEF TInv, Meeting!TypeOK, Shaped, Meeting!Get, Meeting!At, Meeting!Handler
<1>4. PICK g : g = [asking[r] EXCEPT !.left = @ \ {u}]
  OBVIOUS
<1>5. g \in Meeting!Handler /\ g.kind # "poll" /\ g.user \in User
  <2>1. PICK S : S = asking[r].left \ {u}
    OBVIOUS
  <2>2. g = [asking[r] EXCEPT !.left = S] /\ S \subseteq User
    BY <1>3, <1>4, <2>1 DEF Meeting!Handler
  <2> QED
    BY <1>3, <2>2 DEF Meeting!Handler
<1>6. CASE Meeting!Live(u)
  <2>1. Meeting!NextMember(r, g)
    BY <1>1, <1>4, <1>6
  <2> QED
    BY <1>2, <1>5, <2>1, NextMemberTyped, MovesTyped DEF TInv, Meeting!TypeOK
<1>7. CASE ~ Meeting!Live(u)
  <2>1. PICK h : h = [g EXCEPT !.pc = "prune", !.gone = u]
    OBVIOUS
  <2>2. Meeting!Become(r, h) /\ client' = client
    BY <1>1, <1>4, <1>7, <2>1
  <2>3. Moves(r, h) /\ h.pc = "prune" /\ h.gone = u
    BY <1>3, <1>5, <2>1, <2>2 DEF Moves, Meeting!Handler, Shaped, Meeting!Target
  <2> QED
    BY <1>2, <1>7, <2>2, <2>3, MovesTyped DEF TInv, Meeting!TypeOK, SameMemory
<1> QED
  BY <1>6, <1>7

LEMMA PruneTyped ==
  ASSUME TInv, NEW r \in Visit, Meeting!Prune(r)
  PROVE  TInv' /\ SameMemory /\ \E h : Moves(r, h) /\ h.pc \in {"idle", "get"}
<1>1. PICK g : g = asking[r]
  OBVIOUS
<1>2. g \in Meeting!Handler /\ g.kind # "poll" /\ g.user \in User /\ Meeting!Members \subseteq User
  BY <1>1 DEF TInv, Meeting!TypeOK, Shaped, Meeting!Prune, Meeting!At, Meeting!Members
<1>3. Meeting!NextMember(r, g) /\ UNCHANGED <<clock, member, log, list, heard, limit, spent>>
  BY <1>1 DEF Meeting!Prune
<1>4. room' \in [users : SUBSET User, until : Nat]
  BY <1>2 DEF Meeting!Prune, TInv, Meeting!TypeOK
<1> QED
  BY <1>2, <1>3, <1>4, NextMemberTyped, MovesTyped DEF TInv, Meeting!TypeOK

-----------------------------------------------------------------------------
(* The room: signals, failures and the clock *)

LEMMA FollowingTyped ==
  ASSUME list.first \in Nat, log \in Seq(Meeting!Signal), NEW a, NEW u
  PROVE  Meeting!Following(a, u) \subseteq Nat /\ Meeting!Following(a, u) \subseteq Meeting!ForUser(u)
                                    /\ Meeting!ForUser(u) \subseteq Meeting!Kept /\ Meeting!Kept \subseteq Nat
<1>1. Meeting!Kept \subseteq Nat /\ Meeting!ForUser(u) \subseteq Meeting!Kept
  BY DEF Meeting!Kept, Meeting!ForUser
<1>2. Meeting!Following(a, u) \subseteq Meeting!ForUser(u)
  BY DEF Meeting!Following, Meeting!LastOf
<1> QED
  BY <1>1, <1>2

LEMMA ListSignalsTyped ==
  ASSUME TInv, NEW r \in Visit, Meeting!ListSignals(r)
  PROVE  /\ TInv'
         /\ \E h : /\ Moves(r, h) /\ h.pc = "answer" /\ h.user = asking[r].user
                   /\ h.answer = Meeting!Following(asking[r].after, asking[r].user)
<1>1. PICK S : S = Meeting!Following(asking[r].after, asking[r].user)
  OBVIOUS
<1>2. PICK h : h = [asking[r] EXCEPT !.pc = "answer", !.answer = S]
  OBVIOUS
<1>3. asking[r] \in Meeting!Handler /\ Shaped(asking[r]) /\ asking[r].pc = "read" /\ S \subseteq Nat
  BY <1>1, FollowingTyped DEF TInv, Meeting!TypeOK, Meeting!ListSignals, Meeting!At
<1>4. h \in Meeting!Handler /\ Shaped(h) /\ h.pc = "answer" /\ h.user = asking[r].user /\ h.answer = S
  BY <1>2, <1>3 DEF Meeting!Handler, Shaped
<1>5. Moves(r, h) /\ UNCHANGED <<clock, room, member, log, list, client, heard, limit, spent>>
  BY <1>1, <1>2, <1>4 DEF Meeting!ListSignals, Moves
<1> QED
  BY <1>1, <1>4, <1>5, MovesTyped DEF TInv, Meeting!TypeOK

\* What the page of user u and the history hold when it has processed what is new
\* to it.
Processed(u, new) ==
  /\ \A v \in User \ {u} : client'[v] = client[v] /\ heard'[v] = heard[v]
  /\ heard'[u] = heard[u] \union new /\ client'[u].seen = client[u].seen \union new
  /\ client'[u].last = IF new = {} THEN client[u].last ELSE Meeting!Last(new)

LEMMA ProcessTyped ==
  ASSUME TInv, NEW r \in Visit, Meeting!Process(r)
  PROVE  LET u == asking[r].user
             new == asking[r].answer \ client[u].seen
         IN  /\ u \in User /\ Processed(u, new) /\ new \subseteq Nat
             /\ (new # {} => Meeting!Last(new) \in Nat) => TInv'
             /\ Moves(r, Meeting!Idle)
<1> DEFINE u == asking[r].user
           new == asking[r].answer \ client[u].seen
<1>1. asking[r] \in Meeting!Handler /\ u \in User /\ new \subseteq Nat /\ client[u] \in Meeting!Page
  BY DEF TInv, Meeting!TypeOK, Shaped, Meeting!Process, Meeting!At, Meeting!Handler
<1>2. PICK s, l : s = client[u].seen \union new /\ l = IF new = {} THEN client[u].last ELSE Meeting!Last(new)
  OBVIOUS
<1>3. PICK p : p = [client[u] EXCEPT !.seen = s, !.last = l]
  OBVIOUS
<1>4. client' = [client EXCEPT ![u] = p] /\ heard' = [heard EXCEPT ![u] = @ \union new]
  <2>1. client' = [client EXCEPT ![u].seen = s, ![u].last = l]
    BY <1>2 DEF Meeting!Process
  <2>2. client \in [User -> Meeting!Page]
    BY DEF TInv, Meeting!TypeOK
  <2> HIDE DEF u, new
  <2>3. client' = [client EXCEPT ![u] = p]
    BY <1>1, <1>3, <2>1, <2>2 DEF Meeting!Page
  <2> QED
    BY <2>3 DEF Meeting!Process, u, new
<1>5. Moves(r, Meeting!Idle) /\ UNCHANGED <<clock, room, member, log, list, limit, spent>>
  BY IdleTyped DEF Meeting!Process, Moves
<1> HIDE DEF u, new
<1>6. p.seen = s /\ p.last = l /\ (l \in Nat => p \in Meeting!Page)
  BY <1>1, <1>2, <1>3 DEF Meeting!Page
<1>7. Processed(u, new)
  BY <1>1, <1>2, <1>4, <1>6 DEF Processed, TInv, Meeting!TypeOK
<1>8. ASSUME new # {} => Meeting!Last(new) \in Nat PROVE TInv'
  <2>1. l \in Nat
    BY <1>1, <1>2, <1>8 DEF Meeting!Page
  <2>2. client' \in [User -> Meeting!Page] /\ heard' \in [User -> SUBSET Nat]
    BY <1>1, <1>4, <1>6, <2>1 DEF TInv, Meeting!TypeOK
  <2> QED
    BY <1>5, <2>2, MovesTyped DEF TInv, Meeting!TypeOK
<1> QED
  BY <1>1, <1>5, <1>7, <1>8 DEF u, new

\* The log is longer by one, and the list a last part of it.
LEMMA PostTyped ==
  ASSUME RoomBounded, TInv, list.first # 0, NEW u \in User, NEW t \in Meeting!Target, Meeting!Post(u, t)
  PROVE  /\ TInv' /\ list'.first \in Nat \ {0}
         /\ Len(log') = Len(log) + 1
         /\ \A k \in 1 .. Len(log) : log'[k] = log[k]
         /\ Meeting!Kept' \subseteq Meeting!Kept \union {Len(log')}
<1> DEFINE n == Len(log) + 1
           first == IF Meeting!Kept = {} THEN n ELSE list.first
           least == IF n > SignalMaxLen THEN n - SignalMaxLen + 1 ELSE 1
           f == IF first < least THEN least ELSE first
<1>1. /\ log \in Seq(Meeting!Signal) /\ Len(log) \in Nat /\ list.first \in Nat \ {0} /\ clock \in Nat
      /\ Ttl \in Nat /\ SignalMaxLen \in Nat
  BY DEF TInv, Meeting!TypeOK, RoomBounded
<1>2. PICK s \in Meeting!Signal : log' = Append(log, s)
  <2>1. PICK s : s = [from |-> u, to |-> t]
    OBVIOUS
  <2>2. log' = Append(log, s) /\ s \in Meeting!Signal
    BY <2>1 DEF Meeting!Post, Meeting!Signal
  <2> QED
    BY <2>2
<1>3. log' \in Seq(Meeting!Signal) /\ Len(log') = n /\ \A k \in 1 .. Len(log) : log'[k] = log[k]
  BY <1>1, <1>2
<1>4. list' = [first |-> f, until |-> clock + Ttl]
  BY <1>3 DEF Meeting!Post
<1>5. f \in Nat \ {0}
  BY <1>1
<1>6. list'.first = f /\ list'.until = clock + Ttl /\ list' \in [first : Nat, until : Nat]
  BY <1>1, <1>4, <1>5
<1>7. UNCHANGED <<clock, room, member, client, heard, asking, limit, spent>>
  BY DEF Meeting!Post
<1>8. Meeting!Kept' \subseteq Meeting!Kept \union {n}
  <2>1. Meeting!Kept' \subseteq f .. n
    BY <1>3, <1>6 DEF Meeting!Kept
  <2>2. CASE Meeting!Kept = {}
    BY <1>1, <2>1, <2>2
  <2>3. CASE Meeting!Kept # {}
    <3>1. Meeting!Kept = list.first .. Len(log) /\ f >= list.first
      BY <1>1, <2>3 DEF Meeting!Kept
    <3> HIDE DEF f
    <3> QED
      BY <1>1, <1>5, <2>1, <3>1
  <2> QED
    BY <2>2, <2>3
<1>9. TInv'
  BY <1>3, <1>6, <1>7 DEF TInv, Meeting!TypeOK, Shaped
<1> QED
  BY <1>3, <1>5, <1>6, <1>8, <1>9

LEMMA OneMoreFailure ==
  ASSUME spent \in Meeting!Counters, spent' = [spent EXCEPT !.failures = @ + 1]
  PROVE  spent' \in Meeting!Counters /\ spent'.overlaps = spent.overlaps
<1>1. PICK n : n = spent.failures + 1
  OBVIOUS
<1>2. n \in Nat /\ spent' = [spent EXCEPT !.failures = n]
  BY <1>1 DEF Meeting!Counters
<1> QED
  BY <1>2 DEF Meeting!Counters

LEMMA CallThrowsTyped ==
  ASSUME TInv, NEW r \in Visit, Meeting!CallThrows(r)
  PROVE  TInv' /\ Moves(r, Meeting!Idle) /\ spent'.overlaps = spent.overlaps
<1>1. spent' \in Meeting!Counters /\ spent'.overlaps = spent.overlaps
  BY OneMoreFailure DEF Meeting!CallThrows, TInv, Meeting!TypeOK
<1>2. Moves(r, Meeting!Idle) /\ UNCHANGED <<clock, room, member, log, list, client, heard, limit>>
  BY IdleTyped DEF Meeting!CallThrows, Moves
<1> QED
  BY <1>1, <1>2, MovesTyped DEF TInv, Meeting!TypeOK

LEMMA CloseTyped ==
  ASSUME TInv, NEW u \in User, Meeting!Close(u)
  PROVE  /\ TInv' /\ spent'.overlaps = spent.overlaps
         /\ client'[u] = Meeting!NewPage /\ \A v \in User \ {u} : client'[v] = client[v]
         /\ \A r \in Visit : asking'[r] = asking[r] \/ asking'[r] = Meeting!Idle
<1>1. spent' \in Meeting!Counters /\ spent'.overlaps = spent.overlaps
  BY OneMoreFailure DEF Meeting!Close, TInv, Meeting!TypeOK
<1>2. /\ client' \in [User -> Meeting!Page]
      /\ client'[u] = Meeting!NewPage /\ \A v \in User \ {u} : client'[v] = client[v]
  BY DEF Meeting!Close, TInv, Meeting!TypeOK, Meeting!NewPage, Meeting!Page
<1>3. /\ \A r \in Visit : asking'[r] = asking[r] \/ asking'[r] = Meeting!Idle
      /\ asking' \in [Visit -> Meeting!Handler]
  BY IdleTyped DEF Meeting!Close, TInv, Meeting!TypeOK
<1>4. \A r \in Visit : Shaped(asking'[r])
  BY <1>3, IdleTyped DEF TInv
<1>5. UNCHANGED <<clock, room, member, log, list, heard, limit>>
  BY DEF Meeting!Close
<1> QED
  BY <1>1, <1>2, <1>3, <1>4, <1>5 DEF TInv, Meeting!TypeOK

LEMMA RoomTickTyped ==
  ASSUME TInv, Meeting!Tick
  PROVE  TInv' /\ clock' = clock + 1 /\ UNCHANGED <<room, member, log, list, client, heard, asking, spent>>
BY DEF Meeting!Tick, TInv, Meeting!TypeOK, Shaped

-----------------------------------------------------------------------------
(* The room: its capacity *)

Pre == {r \in Visit : Meeting!At(r, "count") \/ Meeting!At(r, "add")}
Looking == {r \in Visit : asking[r].pc \in {"remove", "members", "get", "prune"}}

\* Those whom a look is about to take out of the set, and those about to be put in.
Doomed == {asking[r].gone : r \in {q \in Visit : Meeting!At(q, "prune")}}
Coming == {asking[r].user : r \in {q \in Visit : Meeting!At(q, "add")}}

\* Who is in the room but not counted, or soon not.
Hidden == {u \in Meeting!LiveUsers : u \notin Meeting!Members \/ u \in Doomed}

\* The first newcomer of those who overlap counts as none of them.
Slack == IF Pre # {} /\ Looking = {} THEN 1 ELSE 0

Lasting == \A u \in User : member[u] <= clock + Ttl /\ member[u] <= room.until

CInv ==
  /\ Lasting
  /\ Cardinality(Hidden) + Cardinality(Pre) <= spent.overlaps + Slack
  /\ Cardinality(Meeting!LiveUsers \union Coming) <= MaxParticipants + spent.overlaps

LEMMA CInvFinite ==
  ASSUME RoomBounded, TInv
  PROVE  /\ IsFiniteSet(Hidden) /\ IsFiniteSet(Pre) /\ IsFiniteSet(Meeting!LiveUsers \union Coming)
         /\ Cardinality(Hidden) \in Nat /\ Cardinality(Pre) \in Nat
         /\ Cardinality(Meeting!LiveUsers \union Coming) \in Nat
         /\ Hidden \subseteq User /\ Pre \subseteq Visit /\ Meeting!LiveUsers \union Coming \subseteq User
         /\ Pre = {} <=> Cardinality(Pre) = 0
         /\ spent.overlaps \in Nat /\ Slack \in {0, 1}
<1>1. Hidden \subseteq User /\ Pre \subseteq Visit /\ Meeting!LiveUsers \union Coming \subseteq User
  BY DEF Hidden, Meeting!LiveUsers, Pre, Coming, TInv, Shaped, Meeting!At
<1>2. IsFiniteSet(Hidden) /\ IsFiniteSet(Pre) /\ IsFiniteSet(Meeting!LiveUsers \union Coming)
  BY <1>1, FS_Subset DEF RoomBounded
<1> QED
  BY <1>1, <1>2, FS_CardinalityType, FS_EmptySet DEF Slack, TInv, Meeting!TypeOK, Meeting!Counters

\* A live member's key is younger than the set, so the set is there.
LEMMA LiveInTime ==
  ASSUME RoomBounded, TInv, Lasting, NEW u \in User, Meeting!Live(u)
  PROVE  Meeting!Members = room.users
BY DEF Lasting, Meeting!Live, Meeting!Members, RoomBounded, TInv, Meeting!TypeOK

\* Most steps take nobody into the room and none out of sight.
LEMMA NothingGrows ==
  ASSUME RoomBounded, TInv, TInv', CInv, Lasting',
         Hidden' \subseteq Hidden, Pre' \subseteq Pre, Looking' # {} => Looking # {},
         (Meeting!LiveUsers \union Coming)' \subseteq Meeting!LiveUsers \union Coming,
         spent'.overlaps >= spent.overlaps
  PROVE  CInv'
<1>1. /\ IsFiniteSet(Hidden) /\ IsFiniteSet(Pre) /\ IsFiniteSet(Meeting!LiveUsers \union Coming)
      /\ Cardinality(Hidden) \in Nat /\ Cardinality(Pre) \in Nat
      /\ Cardinality(Meeting!LiveUsers \union Coming) \in Nat
      /\ Pre = {} <=> Cardinality(Pre) = 0
      /\ spent.overlaps \in Nat
  BY CInvFinite
<1>2. /\ Cardinality(Hidden)' \in Nat /\ Cardinality(Pre)' \in Nat
      /\ Cardinality(Meeting!LiveUsers \union Coming)' \in Nat
      /\ Pre' = {} <=> Cardinality(Pre)' = 0
      /\ spent'.overlaps \in Nat
  <2>1. IsFiniteSet(Hidden') /\ IsFiniteSet(Pre') /\ IsFiniteSet((Meeting!LiveUsers \union Coming)')
    BY <1>1, FS_Subset
  <2> QED
    BY <2>1, FS_CardinalityType, FS_EmptySet DEF TInv, Meeting!TypeOK, Meeting!Counters
<1>3. /\ Cardinality(Hidden)' <= Cardinality(Hidden) /\ Cardinality(Pre)' <= Cardinality(Pre)
      /\ Cardinality(Meeting!LiveUsers \union Coming)' <= Cardinality(Meeting!LiveUsers \union Coming)
  BY <1>1, FS_Subset
<1>4. Cardinality(Hidden)' + Cardinality(Pre)' <= spent'.overlaps + Slack'
  BY <1>1, <1>2, <1>3 DEF CInv, Slack
<1>5. Cardinality(Meeting!LiveUsers \union Coming)' <= MaxParticipants + spent'.overlaps
  BY <1>1, <1>2, <1>3 DEF CInv, RoomBounded
<1> QED
  BY <1>4, <1>5 DEF CInv

\* Where the room stays as it is, only the handlers matter.
LEMMA RoomStays ==
  ASSUME RoomBounded, TInv, TInv', CInv, UNCHANGED <<clock, room, member>>
  PROVE  /\ Lasting' /\ Meeting!LiveUsers' = Meeting!LiveUsers /\ Meeting!Members' = Meeting!Members
         /\ \A u \in User : Meeting!Live(u)' <=> Meeting!Live(u)
         /\ Doomed' \intersect Meeting!LiveUsers \subseteq Doomed => Hidden' \subseteq Hidden
<1>1. /\ Lasting' /\ Meeting!LiveUsers' = Meeting!LiveUsers /\ Meeting!Members' = Meeting!Members
      /\ \A u \in User : Meeting!Live(u)' <=> Meeting!Live(u)
  BY DEF CInv, Lasting, Meeting!LiveUsers, Meeting!Live, Meeting!Members
<1> QED
  BY <1>1 DEF Hidden

\* What becomes of the sets when one handler moves.
LEMMA SetsMove ==
  ASSUME TInv, TInv', NEW r \in Visit, NEW h, Moves(r, h)
  PROVE  /\ Pre' = IF h.pc \in {"count", "add"} THEN Pre \union {r} ELSE Pre \ {r}
         /\ Looking' = IF h.pc \in {"remove", "members", "get", "prune"}
                       THEN Looking \union {r} ELSE Looking \ {r}
         /\ Doomed' \subseteq IF h.pc = "prune" THEN Doomed \union {h.gone} ELSE Doomed
         /\ Coming' \subseteq IF h.pc = "add" THEN Coming \union {h.user} ELSE Coming
<1>1. asking'[r] = h /\ \A q \in Visit \ {r} : asking'[q] = asking[q]
  BY MovesTyped
<1> QED
  BY <1>1 DEF Pre, Looking, Doomed, Coming, Meeting!At

\* A handler goes on, or ends, and nobody comes of it.
LEMMA GoesOn ==
  ASSUME RoomBounded, TInv, TInv', CInv, UNCHANGED <<clock, room, member>>,
         NEW r \in Visit, NEW h, Moves(r, h),
         h.pc \notin {"count", "add"},
         h.pc \in {"remove", "members", "get", "prune"} => r \in Looking,
         h.pc = "prune" => ~ Meeting!Live(h.gone),
         spent'.overlaps >= spent.overlaps
  PROVE  CInv'
<1>1. /\ Pre' \subseteq Pre /\ (Looking' # {} => Looking # {})
      /\ Doomed' \subseteq (IF h.pc = "prune" THEN Doomed \union {h.gone} ELSE Doomed)
      /\ Coming' \subseteq Coming
  BY SetsMove DEF Looking
<1>2. Lasting' /\ Meeting!LiveUsers' = Meeting!LiveUsers /\ (Doomed' \intersect Meeting!LiveUsers \subseteq Doomed => Hidden' \subseteq Hidden)
  BY RoomStays
<1>3. Hidden' \subseteq Hidden
  BY <1>1, <1>2 DEF Meeting!LiveUsers
<1>4. (Meeting!LiveUsers \union Coming)' \subseteq Meeting!LiveUsers \union Coming
  BY <1>1, <1>2
<1> QED
  BY <1>1, <1>2, <1>3, <1>4, NothingGrows

\* A request for the room begins.
LEMMA Begins ==
  ASSUME RoomBounded, TInv, TInv', CInv, UNCHANGED <<clock, room, member>>,
         NEW r \in Visit, NEW h, NEW n \in Nat, Moves(r, h), Meeting!Begin(r, h, n), h.kind # "poll",
         h.pc \in {"count", "add", "remove", "members"},
         h.pc = "add" => Meeting!Live(h.user) /\ h.user \in User
  PROVE  CInv'
<1>1. /\ IsFiniteSet(Hidden) /\ IsFiniteSet(Pre)
      /\ Cardinality(Hidden) \in Nat /\ Cardinality(Pre) \in Nat
      /\ Cardinality(Meeting!LiveUsers \union Coming) \in Nat
      /\ Pre = {} <=> Cardinality(Pre) = 0
      /\ spent.overlaps \in Nat /\ Slack \in {0, 1}
  BY CInvFinite
<1>2. /\ Pre' = IF h.pc \in {"count", "add"} THEN Pre \union {r} ELSE Pre
      /\ Looking' = IF h.pc \in {"count", "add"} THEN Looking ELSE Looking \union {r}
      /\ Doomed' \subseteq Doomed /\ r \notin Pre
      /\ Coming' \subseteq IF h.pc = "add" THEN Coming \union {h.user} ELSE Coming
  <2>1. asking[r].pc = "idle"
    BY IdleTyped DEF Meeting!Begin
  <2>2. r \notin Pre /\ r \notin Looking
    BY <2>1 DEF Pre, Looking, Meeting!At
  <2> QED
    BY <2>2, SetsMove
<1>3. Lasting' /\ Meeting!LiveUsers' = Meeting!LiveUsers /\ Hidden' \subseteq Hidden
  BY <1>2, RoomStays
<1>4. spent'.overlaps = spent.overlaps + Meeting!Overlapping(r, h) /\ Meeting!Overlapping(r, h) \in {0, 1}
  BY BeginTyped DEF Meeting!Overlapping
<1>5. CASE Meeting!Overlapping(r, h) = 0
  <2>1. \A q \in Visit : q = r \/ ~ Meeting!Meets(h, asking[q])
    BY <1>5 DEF Meeting!Overlapping
  <2>2. \A q \in Visit : asking[q] = Meeting!Idle \/ asking[q].kind = "poll"
    BY <2>1 DEF Meeting!Meets, Meeting!Begin
  <2>3. Pre = {} /\ Looking = {}
    BY <2>2, IdleTyped DEF Pre, Looking, Meeting!At, TInv, Shaped
  <2>4. Cardinality(Hidden) <= spent.overlaps
    BY <1>1, <2>3 DEF CInv, Slack
  <2>5. Cardinality(Hidden') \in Nat /\ Cardinality(Hidden') <= Cardinality(Hidden)
    BY <1>1, <1>3, FS_Subset, FS_CardinalityType
  <2>6. Cardinality(Hidden') + Cardinality(Pre') <= spent'.overlaps + Slack'
    <3>1. CASE h.pc \in {"count", "add"}
      <4>1. Pre' = {r} /\ Looking' = {} /\ Cardinality(Pre') = 1
        BY <1>2, <2>3, <3>1, FS_Singleton
      <4>2. Slack' = 1
        BY <4>1 DEF Slack
      <4> QED
        BY <1>1, <1>4, <1>5, <2>4, <2>5, <4>1, <4>2
    <3>2. CASE h.pc \notin {"count", "add"}
      <4>1. Cardinality(Pre') = 0 /\ Slack' = 0
        BY <1>1, <1>2, <2>3, <3>2 DEF Slack
      <4> QED
        BY <1>1, <1>4, <1>5, <2>4, <2>5, <4>1
    <3> QED
      BY <3>1, <3>2
  <2>7. (Meeting!LiveUsers \union Coming)' \subseteq Meeting!LiveUsers \union Coming
    BY <1>2, <1>3 DEF Meeting!LiveUsers
  <2>8. Cardinality((Meeting!LiveUsers \union Coming)') <= Cardinality(Meeting!LiveUsers \union Coming)
    BY <2>7, CInvFinite, FS_Subset
  <2>9. Cardinality((Meeting!LiveUsers \union Coming)') \in Nat
    BY <2>7, CInvFinite, FS_Subset, FS_CardinalityType
  <2> QED
    BY <1>1, <1>3, <1>4, <1>5, <2>6, <2>8, <2>9 DEF CInv, RoomBounded
<1>6. CASE Meeting!Overlapping(r, h) = 1
  <2>1. Cardinality(Hidden') \in Nat /\ Cardinality(Hidden') <= Cardinality(Hidden)
    BY <1>1, <1>3, FS_Subset, FS_CardinalityType
  <2>2. Cardinality(Hidden') + Cardinality(Pre') <= spent'.overlaps + Slack'
    <3>1. CASE h.pc \in {"count", "add"}
      <4>1. Cardinality(Pre') = Cardinality(Pre) + 1
        BY <1>1, <1>2, <3>1, FS_AddElement
      <4>2. Slack' >= Slack /\ Slack' \in {0, 1}
        BY <1>2, <3>1 DEF Slack
      <4> QED
        BY <1>1, <1>4, <1>6, <2>1, <4>1, <4>2 DEF CInv
    <3>2. CASE h.pc \notin {"count", "add"}
      <4>1. Pre' = Pre /\ Slack' \in {0, 1}
        BY <1>2, <3>2 DEF Slack
      <4>2. Cardinality(Pre') = Cardinality(Pre)
        BY <4>1
      <4> QED
        BY <1>1, <1>4, <1>6, <2>1, <4>1, <4>2 DEF CInv
    <3> QED
      BY <3>1, <3>2
  <2>3. (Meeting!LiveUsers \union Coming)' \subseteq Meeting!LiveUsers \union Coming
    BY <1>2, <1>3 DEF Meeting!LiveUsers
  <2>4. Cardinality((Meeting!LiveUsers \union Coming)') <= Cardinality(Meeting!LiveUsers \union Coming)
    BY <2>3, CInvFinite, FS_Subset
  <2>5. Cardinality((Meeting!LiveUsers \union Coming)') \in Nat
    BY <2>3, CInvFinite, FS_Subset, FS_CardinalityType
  <2> QED
    BY <1>1, <1>3, <1>4, <1>6, <2>2, <2>4, <2>5 DEF CInv, RoomBounded
<1> QED
  BY <1>4, <1>5, <1>6

LEMMA UnionBound ==
  ASSUME NEW A, NEW B, IsFiniteSet(A), IsFiniteSet(B)
  PROVE  /\ IsFiniteSet(A \union B)
         /\ Cardinality(A) \in Nat /\ Cardinality(B) \in Nat /\ Cardinality(A \union B) \in Nat
         /\ Cardinality(A \union B) <= Cardinality(A) + Cardinality(B)
<1>1. IsFiniteSet(A \intersect B)
  BY FS_Subset
<1>2. Cardinality(A) \in Nat /\ Cardinality(B) \in Nat /\ Cardinality(A \intersect B) \in Nat
  BY <1>1, FS_CardinalityType
<1>3. /\ IsFiniteSet(A \union B)
      /\ Cardinality(A \union B) = Cardinality(A) + Cardinality(B) - Cardinality(A \intersect B)
  BY FS_Union
<1>4. Cardinality(A \union B) \in Nat
  BY <1>3, FS_CardinalityType
<1> QED
  BY <1>2, <1>3, <1>4

\* A newcomer finds room among the members, and there are no others but those who
\* are hidden and those who overlap.
LEMMA CountCounts ==
  ASSUME RoomBounded, TInv, TInv', CInv, NEW r \in Visit, Meeting!Count(r)
  PROVE  CInv'
<1>1. PICK h : /\ Moves(r, h) /\ h.pc = IF Meeting!Full THEN "idle" ELSE "add"
               /\ ~ Meeting!Full => h.user = asking[r].user
  BY CountTyped
<1>2. UNCHANGED <<clock, room, member>> /\ spent' = spent /\ spent.overlaps \in Nat /\ r \in Pre
  BY DEF Meeting!Count, TInv, Meeting!TypeOK, Meeting!Counters, Pre
<1>3. CASE Meeting!Full
  BY <1>1, <1>2, <1>3, GoesOn
<1>4. CASE ~ Meeting!Full
  <2>1. /\ IsFiniteSet(Hidden) /\ IsFiniteSet(Pre)
        /\ Cardinality(Hidden) \in Nat /\ Cardinality(Pre) \in Nat
        /\ spent.overlaps \in Nat /\ Slack \in {0, 1}
    BY CInvFinite
  <2>2. /\ Pre' = Pre /\ Looking' = Looking \ {r} /\ Doomed' \subseteq Doomed
        /\ Coming' \subseteq Coming \union {asking[r].user}
    BY <1>1, <1>2, <1>4, SetsMove
  <2>3. Looking' = Looking
    BY <2>2 DEF Looking, Meeting!Count, Meeting!At
  <2>4. Lasting' /\ Meeting!LiveUsers' = Meeting!LiveUsers /\ Hidden' \subseteq Hidden
    BY <1>2, <2>2, RoomStays
  <2>5. Cardinality(Hidden') \in Nat /\ Cardinality(Hidden') <= Cardinality(Hidden)
    BY <2>1, <2>4, FS_Subset, FS_CardinalityType
  <2>6. Slack' = Slack /\ Cardinality(Pre') = Cardinality(Pre)
    BY <2>2, <2>3 DEF Slack
  <2> DEFINE P == {asking[q].user : q \in Pre}
  <2>7. (Meeting!LiveUsers \union Coming)' \subseteq (Meeting!Members \union Hidden) \union P
    <3>1. Coming' \subseteq P
      BY <1>2, <2>2 DEF Coming, Pre
    <3>2. Meeting!LiveUsers \subseteq Meeting!Members \union Hidden
      BY DEF Hidden
    <3> QED
      BY <2>4, <3>1, <3>2
  <2>8. IsFiniteSet(P) /\ Cardinality(P) <= Cardinality(Pre)
    <3>1. PICK f : f = [q \in Pre |-> asking[q].user]
      OBVIOUS
    <3>2. f \in Surjection(Pre, P)
      BY <3>1 DEF Surjection
    <3> QED
      BY <2>1, <3>2, FS_Surjection
  <2>9. IsFiniteSet(Meeting!Members) /\ Cardinality(Meeting!Members) \in Nat /\ Cardinality(Meeting!Members) < MaxParticipants
    <3>1. Meeting!Members \subseteq User
      BY DEF Meeting!Members, TInv, Meeting!TypeOK
    <3>2. IsFiniteSet(Meeting!Members) /\ Cardinality(Meeting!Members) \in Nat
      BY <3>1, FS_Subset, FS_CardinalityType DEF RoomBounded
    <3> QED
      BY <1>4, <3>2, SameCount DEF Meeting!Full, RoomBounded
  <2> HIDE DEF P
  <2>10. /\ IsFiniteSet((Meeting!Members \union Hidden) \union P)
         /\ Cardinality((Meeting!Members \union Hidden) \union P) <= Cardinality(Meeting!Members) + Cardinality(Hidden) + Cardinality(P)
    <3>1. /\ IsFiniteSet(Meeting!Members \union Hidden) /\ Cardinality(Meeting!Members \union Hidden) \in Nat
          /\ Cardinality(Meeting!Members \union Hidden) <= Cardinality(Meeting!Members) + Cardinality(Hidden)
      BY <2>1, <2>9, UnionBound
    <3>2. /\ Cardinality(P) \in Nat
          /\ IsFiniteSet((Meeting!Members \union Hidden) \union P)
          /\ Cardinality((Meeting!Members \union Hidden) \union P) \in Nat
          /\ Cardinality((Meeting!Members \union Hidden) \union P) <= Cardinality(Meeting!Members \union Hidden) + Cardinality(P)
      BY <2>8, <3>1, UnionBound
    <3> QED
      BY <2>1, <2>9, <3>1, <3>2
  <2>11. /\ Cardinality((Meeting!LiveUsers \union Coming)') \in Nat
         /\ Cardinality((Meeting!LiveUsers \union Coming)') <= Cardinality((Meeting!Members \union Hidden) \union P)
    BY <2>7, <2>10, FS_Subset, FS_CardinalityType
  <2>12. Cardinality((Meeting!Members \union Hidden) \union P) \in Nat /\ Cardinality(P) \in Nat
    BY <2>8, <2>10, FS_CardinalityType
  <2>13. Cardinality((Meeting!LiveUsers \union Coming)') <= MaxParticipants + spent'.overlaps
    <3>1. Cardinality(Hidden) + Cardinality(Pre) <= spent.overlaps + 1
      BY <2>1 DEF CInv
    <3> QED
      BY <1>2, <2>1, <2>8, <2>9, <2>10, <2>11, <2>12, <3>1 DEF RoomBounded
  <2> QED
    BY <1>2, <2>1, <2>4, <2>5, <2>6, <2>13 DEF CInv
<1> QED
  BY <1>3, <1>4

\* Who is put in is seen again, or else a look, which had found him expired before,
\* is about to take him out.
LEMMA AddCounts ==
  ASSUME RoomBounded, TInv, TInv', CInv, NEW r \in Visit, Meeting!Add(r)
  PROVE  CInv'
<1> DEFINE u == asking[r].user
<1>1. u \in User /\ \E h : Moves(r, h) /\ h.pc = "members"
  BY AddTyped
<1>2. /\ Pre' = Pre \ {r} /\ Looking' # {} /\ Doomed' \subseteq Doomed /\ Coming' \subseteq Coming
      /\ r \in Pre /\ u \in Coming
  <2>1. r \in Pre /\ u \in Coming
    BY DEF Meeting!Add, Pre, Coming
  <2> QED
    BY <1>1, <2>1, SetsMove
<1>3. /\ room' = [users |-> Meeting!Members \union {u}, until |-> clock + Ttl]
      /\ member' = [member EXCEPT ![u] = clock + Ttl]
      /\ clock' = clock /\ spent' = spent
  BY DEF Meeting!Add, Meeting!Renewed
<1> HIDE DEF u
<1>4. /\ clock \in Nat /\ Ttl \in Nat /\ member \in [User -> Nat] /\ room.until \in Nat
      /\ spent.overlaps \in Nat
  BY DEF TInv, Meeting!TypeOK, RoomBounded, Meeting!Counters
<1>5. \A v \in User : member'[v] = IF v = u THEN clock + Ttl ELSE member[v]
  BY <1>1, <1>3, <1>4
<1>6. Lasting'
  BY <1>3, <1>4, <1>5 DEF CInv, Lasting
<1>7. Meeting!LiveUsers' \subseteq Meeting!LiveUsers \union {u}
  BY <1>3, <1>5 DEF Meeting!LiveUsers, Meeting!Live
<1>8. ASSUME NEW v \in Meeting!LiveUsers', v = u \/ v \in Meeting!Members PROVE v \in Meeting!Members'
  <2>1. room'.until = clock + Ttl /\ room'.users = Meeting!Members \union {u}
    BY <1>3
  <2>2. v \in User /\ clock' < member'[v]
    BY DEF Meeting!LiveUsers, Meeting!Live
  <2>3. clock' < room'.until
    BY <1>3, <1>4, <1>5, <2>1, <2>2 DEF CInv, Lasting
  <2>4. Meeting!Members' = room'.users
    BY <2>3 DEF Meeting!Members
  <2> QED
    BY <1>8, <2>1, <2>4
<1>9. Hidden' \subseteq Hidden \union (IF u \in Doomed THEN {u} ELSE {})
  BY <1>2, <1>7, <1>8 DEF Hidden
<1>10. /\ IsFiniteSet(Hidden) /\ IsFiniteSet(Pre)
       /\ Cardinality(Hidden) \in Nat /\ Cardinality(Pre) \in Nat
       /\ Slack \in {0, 1}
  BY CInvFinite
<1>11. Cardinality(Pre') = Cardinality(Pre) - 1
  BY <1>2, <1>10, FS_RemoveElement
<1>12. Cardinality(Hidden') + Cardinality(Pre') <= spent.overlaps
  <2>1. CASE u \in Doomed
    <3>1. Looking # {}
      BY <2>1 DEF Doomed, Looking, Meeting!At
    <3>2. Cardinality(Hidden) + Cardinality(Pre) <= spent.overlaps
      BY <1>4, <1>10, <3>1 DEF CInv, Slack
    <3>3. Hidden' \subseteq Hidden \union {u} /\ IsFiniteSet(Hidden \union {u})
          /\ Cardinality(Hidden \union {u}) \in Nat
          /\ Cardinality(Hidden \union {u}) <= Cardinality(Hidden) + 1
      <4>1. IsFiniteSet(Hidden \union {u})
        BY <1>10, FS_AddElement
      <4> QED
        BY <1>9, <1>10, <2>1, <4>1, FS_AddElement, FS_CardinalityType
    <3>4. Cardinality(Hidden') \in Nat /\ Cardinality(Hidden') <= Cardinality(Hidden \union {u})
      BY <3>3, FS_Subset, FS_CardinalityType
    <3> QED
      BY <1>4, <1>10, <1>11, <3>2, <3>3, <3>4
  <2>2. CASE u \notin Doomed
    <3>1. Cardinality(Hidden') \in Nat /\ Cardinality(Hidden') <= Cardinality(Hidden)
      BY <1>9, <1>10, <2>2, FS_Subset, FS_CardinalityType
    <3> QED
      BY <1>4, <1>10, <1>11, <3>1 DEF CInv
  <2> QED
    BY <2>1, <2>2
<1>13. Slack' = 0
  BY <1>2 DEF Slack
<1>14. (Meeting!LiveUsers \union Coming)' \subseteq Meeting!LiveUsers \union Coming
  BY <1>2, <1>7
<1>15. /\ Cardinality((Meeting!LiveUsers \union Coming)') \in Nat
       /\ Cardinality((Meeting!LiveUsers \union Coming)') <= Cardinality(Meeting!LiveUsers \union Coming)
       /\ Cardinality(Meeting!LiveUsers \union Coming) \in Nat
  BY <1>14, CInvFinite, FS_Subset, FS_CardinalityType
<1>16. Cardinality((Meeting!LiveUsers \union Coming)') <= MaxParticipants + spent'.overlaps
  BY <1>3, <1>4, <1>15 DEF CInv, RoomBounded
<1>17. Cardinality(Hidden') + Cardinality(Pre') <= spent'.overlaps + Slack'
  BY <1>3, <1>4, <1>12, <1>13
<1> QED
  BY <1>6, <1>16, <1>17 DEF CInv

LEMMA RemoveCounts ==
  ASSUME RoomBounded, TInv, TInv', CInv, NEW r \in Visit, Meeting!Remove(r)
  PROVE  CInv'
<1> DEFINE u == asking[r].user
<1>1. u \in User /\ \E h : Moves(r, h) /\ h.pc = "members"
  BY RemoveTyped
<1>2. /\ Pre' \subseteq Pre /\ Looking # {} /\ Doomed' \subseteq Doomed /\ Coming' \subseteq Coming
  <2>1. r \in Looking
    BY DEF Meeting!Remove, Looking, Meeting!At
  <2> QED
    BY <1>1, <2>1, SetsMove
<1>3. /\ room' = [room EXCEPT !.users = Meeting!Members \ {u}]
      /\ member' = [member EXCEPT ![u] = 0]
      /\ clock' = clock /\ spent' = spent
  BY DEF Meeting!Remove
<1> HIDE DEF u
<1>4. /\ clock \in Nat /\ Ttl \in Nat /\ member \in [User -> Nat] /\ room.until \in Nat
      /\ spent.overlaps \in Nat /\ room \in [users : SUBSET User, until : Nat]
  BY DEF TInv, Meeting!TypeOK, RoomBounded, Meeting!Counters
<1>5. /\ \A v \in User : member'[v] = IF v = u THEN 0 ELSE member[v]
      /\ room'.until = room.until /\ room'.users = Meeting!Members \ {u}
  BY <1>1, <1>3, <1>4
<1>6. Lasting'
  BY <1>3, <1>4, <1>5 DEF CInv, Lasting
<1>7. Meeting!LiveUsers' \subseteq Meeting!LiveUsers \ {u}
  BY <1>3, <1>4, <1>5 DEF Meeting!LiveUsers, Meeting!Live
<1>8. \A v \in Meeting!LiveUsers' : v \in Meeting!Members => v \in Meeting!Members'
  BY <1>3, <1>4, <1>5, <1>7 DEF Meeting!Members
<1>9. Hidden' \subseteq Hidden
  BY <1>2, <1>7, <1>8 DEF Hidden
<1>10. (Meeting!LiveUsers \union Coming)' \subseteq Meeting!LiveUsers \union Coming
  BY <1>2, <1>7
<1> QED
  BY <1>2, <1>3, <1>4, <1>6, <1>9, <1>10, NothingGrows

LEMMA PruneCounts ==
  ASSUME RoomBounded, TInv, TInv', CInv, NEW r \in Visit, Meeting!Prune(r)
  PROVE  CInv'
<1> DEFINE g == asking[r].gone
<1>1. \E h : Moves(r, h) /\ h.pc \in {"idle", "get"}
  BY PruneTyped
<1>2. /\ Pre' \subseteq Pre /\ Looking # {} /\ Doomed' \subseteq Doomed /\ Coming' \subseteq Coming
      /\ g \in Doomed
  <2>1. r \in Looking /\ g \in Doomed
    BY DEF Meeting!Prune, Looking, Doomed, Meeting!At
  <2> QED
    BY <1>1, <2>1, SetsMove
<1>3. /\ room' = [room EXCEPT !.users = Meeting!Members \ {g}]
      /\ clock' = clock /\ spent' = spent /\ member' = member
  BY DEF Meeting!Prune
<1> HIDE DEF g
<1>4. /\ clock \in Nat /\ Ttl \in Nat /\ member \in [User -> Nat] /\ room.until \in Nat
      /\ spent.overlaps \in Nat /\ room \in [users : SUBSET User, until : Nat]
  BY DEF TInv, Meeting!TypeOK, RoomBounded, Meeting!Counters
<1>5. room'.until = room.until /\ room'.users = Meeting!Members \ {g}
  BY <1>3, <1>4
<1>6. Lasting'
  BY <1>3, <1>4, <1>5 DEF CInv, Lasting
<1>7. Meeting!LiveUsers' = Meeting!LiveUsers
  BY <1>3 DEF Meeting!LiveUsers, Meeting!Live
<1>8. \A v \in Meeting!LiveUsers : v \in Meeting!Members /\ v # g => v \in Meeting!Members'
  BY <1>3, <1>4, <1>5 DEF Meeting!Members
<1>9. Hidden' \subseteq Hidden
  BY <1>2, <1>7, <1>8 DEF Hidden
<1>10. (Meeting!LiveUsers \union Coming)' \subseteq Meeting!LiveUsers \union Coming
  BY <1>2, <1>7
<1> QED
  BY <1>2, <1>3, <1>4, <1>6, <1>9, <1>10, NothingGrows

LEMMA TickCounts ==
  ASSUME RoomBounded, TInv, TInv', CInv, Meeting!Tick
  PROVE  CInv'
<1>1. clock' = clock + 1 /\ UNCHANGED <<room, member, asking, spent>>
  BY RoomTickTyped
<1>2. clock \in Nat /\ Ttl \in Nat /\ member \in [User -> Nat] /\ room.until \in Nat /\ spent.overlaps \in Nat
  BY DEF TInv, Meeting!TypeOK, RoomBounded, Meeting!Counters
<1>3. Pre' = Pre /\ Looking' = Looking /\ Doomed' = Doomed /\ Coming' = Coming
  BY <1>1 DEF Pre, Looking, Doomed, Coming, Meeting!At
<1>4. Lasting'
  BY <1>1, <1>2 DEF CInv, Lasting
<1>5. Meeting!LiveUsers' \subseteq Meeting!LiveUsers
  BY <1>1, <1>2 DEF Meeting!LiveUsers, Meeting!Live
<1>6. \A u \in Meeting!LiveUsers' : Meeting!Members' = Meeting!Members
  BY <1>1, <1>2 DEF CInv, Lasting, Meeting!LiveUsers, Meeting!Live, Meeting!Members
<1>7. Hidden' \subseteq Hidden
  BY <1>3, <1>5, <1>6 DEF Hidden
<1>8. (Meeting!LiveUsers \union Coming)' \subseteq Meeting!LiveUsers \union Coming
  BY <1>3, <1>5
<1> QED
  BY <1>1, <1>2, <1>3, <1>4, <1>7, <1>8, NothingGrows

LEMMA CloseCounts ==
  ASSUME RoomBounded, TInv, TInv', CInv, NEW u \in User, Meeting!Close(u)
  PROVE  CInv'
<1>1. UNCHANGED <<clock, room, member>> /\ spent'.overlaps = spent.overlaps /\ spent.overlaps \in Nat
      /\ \A r \in Visit : asking'[r] = asking[r] \/ asking'[r].pc = "idle"
  BY CloseTyped, IdleTyped DEF Meeting!Close, TInv, Meeting!TypeOK, Meeting!Counters
<1>2. Pre' \subseteq Pre /\ Looking' \subseteq Looking /\ Doomed' \subseteq Doomed /\ Coming' \subseteq Coming
  BY <1>1 DEF Pre, Looking, Doomed, Coming, Meeting!At
<1>3. Lasting' /\ Meeting!LiveUsers' = Meeting!LiveUsers /\ Hidden' \subseteq Hidden
  BY <1>1, <1>2, RoomStays
<1> QED
  BY <1>1, <1>2, <1>3, NothingGrows

LEMMA StartCounts ==
  ASSUME RoomBounded, TInv, TInv', CInv, NEW r \in Visit, Meeting!Start(r)
  PROVE  CInv'
<1>1. PICK u \in User : Meeting!Join(r, u) \/ Meeting!Leave(r, u) \/ Meeting!Look(r, u) \/ Meeting!Poll(r, u)
  BY DEF Meeting!Start
<1>2. CASE Meeting!Join(r, u)
  <2>1. PICK h : /\ Moves(r, h) /\ Meeting!Begin(r, h, 1) /\ h.user = u /\ h.kind = "join"
                 /\ h.pc = IF Meeting!Live(u) THEN "add" ELSE "count"
    BY <1>2, JoinTyped
  <2>2. UNCHANGED <<clock, room, member>>
    BY <1>2 DEF Meeting!Join
  <2> QED
    BY <2>1, <2>2, Begins
<1>3. CASE Meeting!Leave(r, u)
  <2>1. PICK h : Moves(r, h) /\ Meeting!Begin(r, h, 1) /\ h.kind = "look" /\ h.pc = "remove"
    BY <1>3, LeaveTyped
  <2>2. UNCHANGED <<clock, room, member>>
    BY <1>3 DEF Meeting!Leave
  <2> QED
    BY <2>1, <2>2, Begins
<1>4. CASE Meeting!Look(r, u)
  <2>1. PICK h : Moves(r, h) /\ Meeting!Begin(r, h, 1) /\ h.kind = "look" /\ h.pc = "members"
    BY <1>4, LookTyped
  <2>2. UNCHANGED <<clock, room, member>>
    BY <1>4 DEF Meeting!Look
  <2> QED
    BY <2>1, <2>2, Begins
<1>5. CASE Meeting!Poll(r, u)
  <2>1. PICK h : Moves(r, h) /\ Meeting!Begin(r, h, 0) /\ h.pc = "read"
    BY <1>5, PollTyped
  <2>2. UNCHANGED <<clock, room, member>>
    BY <1>5 DEF Meeting!Poll
  <2>3. spent'.overlaps >= spent.overlaps
    <3>1. spent'.overlaps = spent.overlaps + Meeting!Overlapping(r, h) /\ spent.overlaps \in Nat
      BY <2>1, BeginTyped DEF TInv, Meeting!TypeOK, Meeting!Counters
    <3> QED
      BY <3>1 DEF Meeting!Overlapping
  <2> QED
    BY <2>1, <2>2, <2>3, GoesOn
<1> QED
  BY <1>1, <1>2, <1>3, <1>4, <1>5

LEMMA StepCounts ==
  ASSUME RoomBounded, TInv, TInv', CInv, NEW r \in Visit, Meeting!Step(r)
  PROVE  CInv'
<1>1. spent.overlaps \in Nat
  BY DEF TInv, Meeting!TypeOK, Meeting!Counters
<1>2. CASE Meeting!List(r)
  <2>1. PICK h : Moves(r, h) /\ h.pc \in {"idle", "get"}
    BY <1>2, ListTyped
  <2>2. UNCHANGED <<clock, room, member, spent>> /\ r \in Looking
    BY <1>2 DEF Meeting!List, Looking, Meeting!At
  <2> QED
    BY <1>1, <2>1, <2>2, GoesOn
<1>3. CASE Meeting!Get(r)
  <2>1. PICK h : /\ Moves(r, h) /\ h.pc \in {"idle", "get", "prune"}
                 /\ h.pc = "prune" => ~ Meeting!Live(h.gone)
    BY <1>3, GetTyped
  <2>2. UNCHANGED <<clock, room, member, spent>> /\ r \in Looking
    BY <1>3 DEF Meeting!Get, Looking, Meeting!At
  <2> QED
    BY <1>1, <2>1, <2>2, GoesOn
<1>4. CASE Meeting!ListSignals(r)
  <2>1. PICK h : Moves(r, h) /\ h.pc = "answer"
    BY <1>4, ListSignalsTyped
  <2>2. UNCHANGED <<clock, room, member, spent>>
    BY <1>4 DEF Meeting!ListSignals
  <2> QED
    BY <1>1, <2>1, <2>2, GoesOn
<1>5. CASE Meeting!Process(r)
  <2>1. Moves(r, Meeting!Idle)
    BY <1>5, ProcessTyped
  <2>2. UNCHANGED <<clock, room, member, spent>>
    BY <1>5 DEF Meeting!Process
  <2> QED
    BY <1>1, <2>1, <2>2, GoesOn, IdleTyped
<1> QED
  BY <1>2, <1>3, <1>4, <1>5, CountCounts, AddCounts, RemoveCounts, PruneCounts DEF Meeting!Step

LEMMA CallThrowsCounts ==
  ASSUME RoomBounded, TInv, TInv', CInv, NEW r \in Visit, Meeting!CallThrows(r)
  PROVE  CInv'
<1>1. Moves(r, Meeting!Idle) /\ spent'.overlaps = spent.overlaps /\ spent.overlaps \in Nat
  BY CallThrowsTyped DEF TInv, Meeting!TypeOK, Meeting!Counters
<1>2. UNCHANGED <<clock, room, member>>
  BY DEF Meeting!CallThrows
<1> QED
  BY <1>1, <1>2, GoesOn, IdleTyped

LEMMA CapacityOfCInv ==
  ASSUME RoomBounded, TInv, CInv
  PROVE  Meeting!CapacityHolds
<1>1. /\ IsFiniteSet(Hidden) /\ Cardinality(Hidden) \in Nat /\ Cardinality(Pre) \in Nat
      /\ IsFiniteSet(Meeting!LiveUsers \union Coming) /\ Cardinality(Meeting!LiveUsers \union Coming) \in Nat
      /\ Pre = {} <=> Cardinality(Pre) = 0
      /\ spent.overlaps \in Nat
  BY CInvFinite
<1>2. ASSUME Meeting!NoneOverlaps PROVE Meeting!LiveUsers \subseteq Meeting!Members
  <2>1. Cardinality(Hidden) = 0
    BY <1>1, <1>2 DEF CInv, Slack, Meeting!NoneOverlaps
  <2>2. Hidden = {}
    BY <1>1, <2>1, FS_EmptySet
  <2> QED
    BY <2>2 DEF Hidden
<1>3. Cardinality(Meeting!LiveUsers) \in Nat /\ Cardinality(Meeting!LiveUsers) <= Cardinality(Meeting!LiveUsers \union Coming)
  BY <1>1, FS_Subset, FS_CardinalityType
<1> QED
  BY <1>1, <1>2, <1>3, SameCount DEF Meeting!CapacityHolds, CInv, RoomBounded

-----------------------------------------------------------------------------
(* The room: its signals *)

\* Of the signals F that are for a user, those he has processed, X, leave none out
\* but one he is behind of by more than a poll returns.
Later(X, k) == {j \in X : j > k}
Gapless(F, X) == \A k \in F : k \in X \/ Later(X, k) = {} \/ Cardinality(Later(X, k)) >= Recent

\* A poll names a signal the user has processed, and its answer leaves none out
\* either, whatever has been processed since.
Polled(h) ==
  /\ h.pc = "read" => h.after \in heard[h.user] \union {0}
  /\ h.pc = "answer" => /\ h.answer \subseteq 1 .. Len(log)
                        /\ Gapless(Meeting!ForUser(h.user), heard[h.user] \union h.answer)

Remembers(u) ==
  /\ client[u].seen \subseteq heard[u] /\ client[u].last \in heard[u] \union {0}
  /\ heard[u] \subseteq 1 .. Len(log)

GInv ==
  /\ list.first # 0
  /\ \A u \in User : Remembers(u) /\ Gapless(Meeting!ForUser(u), heard[u])
  /\ \A r \in Visit : Polled(asking[r])

LEMMA Least ==
  ASSUME NEW S \in SUBSET Nat, S # {}
  PROVE  \E x \in S : \A y \in S : x <= y
<1> DEFINE R == OpToRel(<, Nat)
<1>1. IsWellFoundedOn(R, Nat)
  BY NatLessThanWellFounded
<1>2. ASSUME NEW x \in Nat, NEW y \in Nat, y < x PROVE <<y, x>> \in R
  BY <1>2 DEF OpToRel
<1> HIDE DEF R
<1>3. PICK x \in S : \A y \in S : ~ (<<y, x>> \in R)
  BY <1>1, WFMin
<1>4. ASSUME NEW y \in S PROVE x <= y
  <2>1. x \in Nat /\ y \in Nat /\ ~ (y < x)
    BY <1>2, <1>3
  <2> QED
    BY <2>1
<1> QED
  BY <1>4

LEMMA Greatest ==
  ASSUME NEW S \in SUBSET Nat, S # {}, NEW n \in Nat, \A k \in S : k <= n
  PROVE  \E x \in S : \A y \in S : y <= x
<1> DEFINE T == {k \in Nat : k <= n /\ n - k \in S}
<1>1. T # {} /\ T \in SUBSET Nat
  <2>1. PICK k \in S : k <= n
    OBVIOUS
  <2>2. n - k \in T
    BY <2>1
  <2> QED
    BY <2>2
<1>2. PICK x \in T : \A y \in T : x <= y
  <2> HIDE DEF T
  <2> QED
    BY <1>1, Least
<1>3. ASSUME NEW y \in S PROVE y <= n - x
  <2>1. n - y \in T
    OBVIOUS
  <2>2. x \in Nat /\ x <= n - y /\ y \in Nat
    BY <1>2, <2>1
  <2> QED
    BY <2>2
<1> QED
  BY <1>2, <1>3
LEMMA LaterFinite ==
  ASSUME NEW n \in Nat, NEW X \in SUBSET (1 .. n), NEW k
  PROVE  IsFiniteSet(Later(X, k)) /\ Cardinality(Later(X, k)) \in Nat
<1>1. IsFiniteSet(1 .. n)
  BY FS_Interval
<1>2. Later(X, k) \in SUBSET (1 .. n)
  BY DEF Later
<1> QED
  BY <1>1, <1>2, FS_Subset, FS_CardinalityType

LEMMA GaplessGrows ==
  ASSUME NEW n \in Nat, NEW X \in SUBSET (1 .. n), NEW Y \in SUBSET (1 .. n), NEW F, Recent \in Nat,
         Gapless(F, X), Gapless(F, Y)
  PROVE  Gapless(F, X \union Y)
<1>1. ASSUME NEW k \in F, k \notin X \union Y PROVE
        Later(X \union Y, k) = {} \/ Cardinality(Later(X \union Y, k)) >= Recent
  <2>1. /\ Later(X, k) \subseteq Later(X \union Y, k) /\ Later(Y, k) \subseteq Later(X \union Y, k)
        /\ Later(X \union Y, k) = Later(X, k) \union Later(Y, k)
    BY DEF Later
  <2>2. /\ IsFiniteSet(Later(X \union Y, k)) /\ Cardinality(Later(X \union Y, k)) \in Nat
        /\ Cardinality(Later(X, k)) \in Nat /\ Cardinality(Later(Y, k)) \in Nat
    <3>1. X \union Y \in SUBSET (1 .. n)
      OBVIOUS
    <3> QED
      BY <3>1, LaterFinite
  <2>3. /\ Cardinality(Later(X, k)) <= Cardinality(Later(X \union Y, k))
        /\ Cardinality(Later(Y, k)) <= Cardinality(Later(X \union Y, k))
    BY <2>1, <2>2, FS_Subset
  <2>4. \/ Later(X, k) = {} /\ Later(Y, k) = {}
        \/ Cardinality(Later(X, k)) >= Recent \/ Cardinality(Later(Y, k)) >= Recent
    BY <1>1 DEF Gapless
  <2> QED
    BY <2>1, <2>2, <2>3, <2>4
<1> QED
  BY <1>1 DEF Gapless

\* What listSignals answers leaves nothing out that came before it.
LEMMA AnswerGapless ==
  ASSUME RoomBounded, TInv, list.first # 0, NEW u \in User, NEW a,
         heard[u] \subseteq 1 .. Len(log), a \in heard[u] \union {0},
         Gapless(Meeting!ForUser(u), heard[u])
  PROVE  /\ Meeting!Following(a, u) \subseteq 1 .. Len(log)
         /\ Gapless(Meeting!ForUser(u), heard[u] \union Meeting!Following(a, u))
<1> DEFINE F == Meeting!ForUser(u)
           S == Meeting!Following(a, u)
           H == heard[u]
<1>1. /\ Len(log) \in Nat /\ Recent \in Nat /\ Meeting!Kept \subseteq 1 .. Len(log)
      /\ F \subseteq Meeting!Kept /\ S \subseteq F
  <2>1. list.first \in Nat /\ log \in Seq(Meeting!Signal) /\ Recent \in Nat
    BY DEF TInv, Meeting!TypeOK, RoomBounded
  <2>2. Meeting!Kept \subseteq 1 .. Len(log)
    BY <2>1 DEF Meeting!Kept
  <2> QED
    BY <2>1, <2>2, FollowingTyped
<1>2. S = IF a \in Meeting!Kept THEN {k \in F : k > a} ELSE Meeting!LastOf(F, Recent)
  BY DEF Meeting!Following
<1> HIDE DEF F, S
<1>3. H \union S \in SUBSET (1 .. Len(log)) /\ H \in SUBSET (1 .. Len(log)) /\ S \in SUBSET (1 .. Len(log))
  BY <1>1
<1>4. ASSUME NEW k \in F, k \notin H \union S
      PROVE  Later(H \union S, k) = {} \/ Cardinality(Later(H \union S, k)) >= Recent
  <2>1. CASE a \in Meeting!Kept
    <3>1. a \in H /\ a \in Nat /\ k \in Nat
      BY <1>1, <2>1
    <3>2. k < a
      BY <1>2, <1>4, <2>1, <3>1
    <3>3. Later(H, k) # {}
      BY <3>1, <3>2 DEF Later
    <3>4. Cardinality(Later(H, k)) >= Recent
      BY <1>4, <3>3 DEF Gapless, F
    <3>5. Later(H, k) \subseteq Later(H \union S, k)
      BY DEF Later
    <3>6. /\ IsFiniteSet(Later(H \union S, k)) /\ Cardinality(Later(H \union S, k)) \in Nat
          /\ Cardinality(Later(H, k)) \in Nat
      BY <1>1, <1>3, LaterFinite
    <3>7. Cardinality(Later(H, k)) <= Cardinality(Later(H \union S, k))
      BY <3>5, <3>6, FS_Subset
    <3> QED
      BY <1>1, <3>4, <3>6, <3>7
  <2>2. CASE a \notin Meeting!Kept
    <3>1. S = {j \in F : Cardinality(Later(F, j)) < Recent}
      BY <1>2, <2>2, SameCount DEF Meeting!LastOf, Later
    <3>2. PICK y \in F \ S : \A z \in F \ S : z <= y
      <4>1. F \ S \in SUBSET Nat /\ F \ S # {} /\ \A z \in F \ S : z <= Len(log)
        BY <1>1, <1>4
      <4> QED
        BY <1>1, <4>1, Greatest
    <3>3. k <= y /\ k \in Nat /\ y \in Nat
      BY <1>1, <1>4, <3>2
    <3>4. Later(F, y) \subseteq Later(H \union S, k)
      <4>1. ASSUME NEW j \in F, j > y PROVE j \in S /\ j > k
        <5>1. j \in Nat /\ j \in S
          BY <1>1, <3>2, <3>3, <4>1
        <5> QED
          BY <3>3, <4>1, <5>1
      <4> QED
        BY <4>1 DEF Later
    <3>5. /\ IsFiniteSet(Later(H \union S, k)) /\ Cardinality(Later(H \union S, k)) \in Nat
          /\ Cardinality(Later(F, y)) \in Nat
      <4>1. F \in SUBSET (1 .. Len(log))
        BY <1>1
      <4> QED
        BY <1>1, <1>3, <4>1, LaterFinite
    <3>6. Cardinality(Later(F, y)) <= Cardinality(Later(H \union S, k))
      BY <3>4, <3>5, FS_Subset
    <3>7. Cardinality(Later(F, y)) >= Recent
      BY <1>1, <3>1, <3>2, <3>5
    <3> QED
      BY <1>1, <3>5, <3>6, <3>7
  <2> QED
    BY <2>1, <2>2
<1> QED
  BY <1>3, <1>4 DEF Gapless, F, S

\* Where nobody signals and nobody processes a signal, nothing is passed over.
LEMMA NothingHeard ==
  ASSUME TInv, GInv, UNCHANGED <<log, heard>>, list'.first # 0,
         \A u \in User : Meeting!ForUser(u)' \subseteq Meeting!ForUser(u),
         \A u \in User : client'[u].seen \subseteq heard[u] /\ client'[u].last \in heard[u] \union {0},
         \A r \in Visit : asking'[r] = asking[r] \/ asking'[r].pc \notin {"read", "answer"}
  PROVE  GInv'
<1>1. ASSUME NEW u \in User PROVE Remembers(u)' /\ Gapless(Meeting!ForUser(u), heard[u])'
  BY DEF GInv, Remembers, Gapless
<1>2. ASSUME NEW r \in Visit PROVE Polled(asking[r])'
  <2>1. CASE asking'[r].pc \notin {"read", "answer"}
    BY <2>1 DEF Polled
  <2>2. CASE asking'[r] = asking[r] /\ asking[r].pc \in {"read", "answer"}
    <3>1. Polled(asking[r]) /\ asking[r].user \in User
      BY <2>2 DEF GInv, TInv, Shaped
    <3>2. Meeting!ForUser(asking[r].user)' \subseteq Meeting!ForUser(asking[r].user)
      BY <2>2, <3>1
    <3> QED
      BY <2>2, <3>1, <3>2 DEF Polled, Gapless
  <2> QED
    BY <2>1, <2>2
<1> QED
  BY <1>1, <1>2 DEF GInv
\* Where the log and the pages stay as they are.
LEMMA OthersHear ==
  ASSUME TInv, GInv, UNCHANGED <<clock, log, list, heard>>, SameMemory,
         NEW r \in Visit, NEW h, Moves(r, h), h.pc \notin {"read", "answer"}
  PROVE  GInv'
<1>1. \A q \in Visit : asking'[q] = asking[q] \/ asking'[q].pc \notin {"read", "answer"}
  BY MovesTyped
<1>2. list'.first # 0 /\ \A u \in User : Meeting!ForUser(u)' = Meeting!ForUser(u)
  BY DEF GInv, Meeting!ForUser, Meeting!Kept, Meeting!IsForUser
<1>3. \A u \in User : client'[u].seen \subseteq heard[u] /\ client'[u].last \in heard[u] \union {0}
  BY DEF GInv, Remembers, SameMemory
<1> QED
  BY <1>1, <1>2, <1>3, NothingHeard

LEMMA StartHears ==
  ASSUME TInv, GInv, NEW r \in Visit, Meeting!Start(r)
  PROVE  GInv'
<1>1. PICK u \in User : Meeting!Join(r, u) \/ Meeting!Leave(r, u) \/ Meeting!Look(r, u) \/ Meeting!Poll(r, u)
  BY DEF Meeting!Start
<1>2. CASE Meeting!Join(r, u)
  <2>1. \E h : Moves(r, h) /\ h.pc \notin {"read", "answer"}
    BY <1>2, JoinTyped
  <2> QED
    BY <1>2, <2>1, OthersHear DEF Meeting!Join, SameMemory
<1>3. CASE Meeting!Leave(r, u)
  <2>1. PICK h : Moves(r, h) /\ h.pc = "remove"
    BY <1>3, LeaveTyped
  <2>2. \A q \in Visit : asking'[q] = asking[q] \/ asking'[q].pc \notin {"read", "answer"}
    BY <2>1, MovesTyped
  <2>3. list'.first # 0 /\ UNCHANGED <<log, heard>> /\ \A v \in User : Meeting!ForUser(v)' = Meeting!ForUser(v)
    BY <1>3 DEF Meeting!Leave, GInv, Meeting!ForUser, Meeting!Kept, Meeting!IsForUser
  <2>4. \A v \in User : client'[v].seen \subseteq heard[v] /\ client'[v].last \in heard[v] \union {0}
    BY <1>3 DEF Meeting!Leave, GInv, Remembers, Meeting!NewPage, TInv, Meeting!TypeOK
  <2> QED
    BY <2>2, <2>3, <2>4, NothingHeard
<1>4. CASE Meeting!Look(r, u)
  <2>1. \E h : Moves(r, h) /\ h.pc \notin {"read", "answer"}
    BY <1>4, LookTyped
  <2> QED
    BY <1>4, <2>1, OthersHear DEF Meeting!Look, SameMemory
<1>5. CASE Meeting!Poll(r, u)
  <2>1. PICK h : Moves(r, h) /\ h.pc = "read" /\ h.user = u /\ h.after = client[u].last
    BY <1>5, PollTyped
  <2>2. asking'[r] = h /\ \A q \in Visit \ {r} : asking'[q] = asking[q]
    BY <2>1, MovesTyped
  <2>3. UNCHANGED <<clock, log, list, client, heard>>
    BY <1>5 DEF Meeting!Poll
  <2>4. \A v \in User : Meeting!ForUser(v)' = Meeting!ForUser(v) /\ (Remembers(v)' <=> Remembers(v))
    BY <2>3 DEF Meeting!ForUser, Meeting!Kept, Meeting!IsForUser, Remembers
  <2>5. ASSUME NEW q \in Visit PROVE Polled(asking[q])'
    <3>1. CASE q = r
      BY <2>1, <2>2, <2>3, <3>1 DEF Polled, GInv, Remembers
    <3>2. CASE q # r
      <4>1. Polled(asking[q]) /\ asking'[q] = asking[q]
        BY <2>2, <3>2 DEF GInv
      <4>2. asking[q].pc = "answer" => Meeting!ForUser(asking[q].user)' = Meeting!ForUser(asking[q].user)
        BY <2>4, <4>1 DEF TInv, Shaped
      <4> QED
        BY <2>3, <4>1, <4>2 DEF Polled
    <3> QED
      BY <3>1, <3>2
  <2> QED
    BY <2>3, <2>4, <2>5 DEF GInv
<1> QED
  BY <1>1, <1>2, <1>3, <1>4, <1>5

LEMMA ListSignalsHears ==
  ASSUME RoomBounded, TInv, GInv, NEW r \in Visit, Meeting!ListSignals(r)
  PROVE  GInv'
<1>1. PICK h : /\ Moves(r, h) /\ h.pc = "answer" /\ h.user = asking[r].user
               /\ h.answer = Meeting!Following(asking[r].after, asking[r].user)
  BY ListSignalsTyped
<1>2. asking'[r] = h /\ \A q \in Visit \ {r} : asking'[q] = asking[q]
  BY <1>1, MovesTyped
<1>3. UNCHANGED <<clock, log, list, client, heard>>
  BY DEF Meeting!ListSignals
<1>4. \A v \in User : Meeting!ForUser(v)' = Meeting!ForUser(v) /\ (Remembers(v)' <=> Remembers(v))
  BY <1>3 DEF Meeting!ForUser, Meeting!Kept, Meeting!IsForUser, Remembers
<1>5. PICK u \in User : u = asking[r].user /\ h.user = u
  BY <1>1 DEF TInv, Shaped, Meeting!ListSignals, Meeting!At
<1>6. /\ h.answer \subseteq 1 .. Len(log)
      /\ Gapless(Meeting!ForUser(u), heard[u] \union h.answer)
  <2>1. asking[r].after \in heard[u] \union {0} /\ Remembers(u) /\ Gapless(Meeting!ForUser(u), heard[u]) /\ list.first # 0
    BY <1>5 DEF GInv, Polled, Meeting!ListSignals, Meeting!At
  <2> QED
    BY <1>1, <1>5, <2>1, AnswerGapless DEF Remembers
<1>7. ASSUME NEW q \in Visit PROVE Polled(asking[q])'
  <2>1. CASE q = r
    <3>1. Meeting!ForUser(u)' = Meeting!ForUser(u)
      BY <1>4
    <3> QED
      BY <1>1, <1>2, <1>3, <1>5, <1>6, <2>1, <3>1 DEF Polled
  <2>2. CASE q # r
    <3>1. Polled(asking[q]) /\ asking'[q] = asking[q]
      BY <1>2, <2>2 DEF GInv
    <3>2. asking[q].pc = "answer" => Meeting!ForUser(asking[q].user)' = Meeting!ForUser(asking[q].user)
      BY <1>4, <3>1 DEF TInv, Shaped
    <3> QED
      BY <1>3, <3>1, <3>2 DEF Polled
  <2> QED
    BY <2>1, <2>2
<1> QED
  BY <1>3, <1>4, <1>7 DEF GInv

\* The page has seen nothing it has not processed, so that nothing of the answer is
\* lost to the history.
LEMMA ProcessHears ==
  ASSUME RoomBounded, TInv, GInv, NEW r \in Visit, Meeting!Process(r)
  PROVE  TInv' /\ GInv'
<1>0. PICK u : u = asking[r].user
  OBVIOUS
<1> DEFINE new == asking[r].answer \ client[u].seen
<1>1. u \in User /\ Processed(u, new) /\ new \subseteq Nat /\ Moves(r, Meeting!Idle)
      /\ ((new # {} => Meeting!Last(new) \in Nat) => TInv')
  BY <1>0, ProcessTyped
<1>2. /\ Remembers(u) /\ Gapless(Meeting!ForUser(u), heard[u])
      /\ asking[r].answer \subseteq 1 .. Len(log) /\ Gapless(Meeting!ForUser(u), heard[u] \union asking[r].answer)
  BY <1>0, <1>1 DEF GInv, Polled, Meeting!Process, Meeting!At
<1>3. Len(log) \in Nat /\ Recent \in Nat
  BY DEF TInv, Meeting!TypeOK, RoomBounded
<1> DEFINE H == heard[u] \union new
<1>4. /\ new \subseteq 1 .. Len(log) /\ H = heard[u] \union asking[r].answer
      /\ heard[u] \in SUBSET (1 .. Len(log)) /\ H \in SUBSET (1 .. Len(log))
  BY <1>2 DEF Remembers
<1> HIDE DEF new, H
<1>5. new # {} => Meeting!Last(new) \in new
  <2> SUFFICES ASSUME new # {} PROVE Meeting!Last(new) \in new
    OBVIOUS
  <2>1. \E x \in new : \A y \in new : y <= x
    <3>1. new \in SUBSET Nat /\ \A k \in new : k <= Len(log)
      BY <1>3, <1>4
    <3> QED
      BY <1>3, <3>1, Greatest
  <2> QED
    BY <2>1 DEF Meeting!Last
<1>6. TInv'
  BY <1>1, <1>5
<1>7. UNCHANGED <<clock, log, list>> /\ \A v \in User : Meeting!ForUser(v)' = Meeting!ForUser(v)
  BY DEF Meeting!Process, Meeting!ForUser, Meeting!Kept, Meeting!IsForUser
<1>8. heard'[u] = H /\ \A v \in User \ {u} : heard'[v] = heard[v] /\ client'[v] = client[v]
  BY <1>1 DEF Processed, H
<1>9. ASSUME NEW v \in User PROVE Remembers(v)' /\ Gapless(Meeting!ForUser(v)', heard'[v])
  <2>1. CASE v = u
    <3>1. client'[u].seen \subseteq H /\ client'[u].last \in H \union {0}
      BY <1>1, <1>2, <1>5 DEF Processed, Remembers, H
    <3> QED
      BY <1>2, <1>4, <1>7, <1>8, <2>1, <3>1 DEF Remembers
  <2>2. CASE v # u
    <3>1. Remembers(v) /\ Gapless(Meeting!ForUser(v), heard[v])
      BY DEF GInv
    <3> QED
      BY <1>7, <1>8, <2>2, <3>1 DEF Remembers
  <2> QED
    BY <2>1, <2>2
<1>10. ASSUME NEW q \in Visit PROVE Polled(asking[q])'
  <2>1. CASE q = r
    <3>1. asking'[q].pc = "idle"
      BY <1>1, <2>1, MovesTyped, IdleTyped
    <3> QED
      BY <3>1 DEF Polled
  <2>2. CASE q # r /\ asking[q].user # u /\ asking[q].pc \in {"read", "answer"}
    <3>1. Polled(asking[q]) /\ asking'[q] = asking[q] /\ asking[q].user \in User
      BY <1>1, <2>2, MovesTyped DEF GInv, TInv, Shaped
    <3>2. Meeting!ForUser(asking[q].user)' = Meeting!ForUser(asking[q].user) /\ heard'[asking[q].user] = heard[asking[q].user]
      BY <1>7, <1>8, <2>2, <3>1
    <3> QED
      BY <1>7, <3>1, <3>2 DEF Polled
  <2>3. CASE q # r /\ asking[q].user = u
    <3>1. Polled(asking[q]) /\ asking'[q] = asking[q]
      BY <1>1, <2>3, MovesTyped DEF GInv
    <3>2. asking[q].pc = "read" => asking[q].after \in heard'[u] \union {0}
      BY <1>8, <2>3, <3>1 DEF Polled, H
    <3>3. ASSUME asking[q].pc = "answer"
          PROVE  asking[q].answer \subseteq 1 .. Len(log) /\ Gapless(Meeting!ForUser(u), heard'[u] \union asking[q].answer)
      <4>1. /\ asking[q].answer \subseteq 1 .. Len(log)
            /\ Gapless(Meeting!ForUser(u), heard[u] \union asking[q].answer)
        BY <2>3, <3>1, <3>3 DEF Polled
      <4>2. Gapless(Meeting!ForUser(u), H)
        BY <1>2, <1>4
      <4>3. Gapless(Meeting!ForUser(u), H \union (heard[u] \union asking[q].answer))
        <5>1. heard[u] \union asking[q].answer \in SUBSET (1 .. Len(log))
          BY <1>4, <4>1
        <5> QED
          BY <1>3, <1>4, <4>1, <4>2, <5>1, GaplessGrows
      <4>4. H \union (heard[u] \union asking[q].answer) = heard'[u] \union asking[q].answer
        BY <1>8 DEF H
      <4> QED
        BY <4>1, <4>3, <4>4
    <3>4. Meeting!ForUser(u)' = Meeting!ForUser(u)
      BY <1>1, <1>7
    <3> QED
      BY <1>7, <2>3, <3>1, <3>2, <3>3, <3>4 DEF Polled
  <2>4. CASE q # r /\ asking[q].pc \notin {"read", "answer"}
    <3>1. asking'[q] = asking[q]
      BY <1>1, <2>4, MovesTyped
    <3> QED
      BY <2>4, <3>1 DEF Polled
  <2> QED
    BY <2>1, <2>2, <2>3, <2>4
<1> QED
  BY <1>6, <1>7, <1>9, <1>10 DEF GInv

\* Nobody has processed a signal later than the new one.
LEMMA PostHears ==
  ASSUME RoomBounded, TInv, GInv, NEW u \in User, NEW t \in Meeting!Target, Meeting!Post(u, t)
  PROVE  GInv'
<1> DEFINE n == Len(log)
<1>1. /\ list'.first \in Nat \ {0} /\ Len(log') = n + 1
      /\ \A k \in 1 .. n : log'[k] = log[k]
      /\ Meeting!Kept' \subseteq Meeting!Kept \union {n + 1}
  BY PostTyped DEF GInv
<1>2. UNCHANGED <<clock, client, heard, asking>>
  BY DEF Meeting!Post
<1>3. n \in Nat /\ Meeting!Kept \subseteq 1 .. n
  BY DEF TInv, Meeting!TypeOK, GInv, Meeting!Kept
<1>4. \A v \in User : Meeting!ForUser(v)' \subseteq Meeting!ForUser(v) \union {n + 1}
  BY <1>1, <1>3 DEF Meeting!ForUser, Meeting!IsForUser
<1> HIDE DEF n
<1>5. ASSUME NEW v \in User, NEW X \in SUBSET (1 .. n), Gapless(Meeting!ForUser(v), X)
      PROVE  Gapless(Meeting!ForUser(v)', X)
  <2>1. Later(X, n + 1) = {}
    <3>1. \A j \in X : ~ (j > n + 1)
      BY <1>3
    <3> QED
      BY <3>1 DEF Later
  <2> QED
    BY <1>4, <1>5, <2>1 DEF Gapless
<1>6. 1 .. n \subseteq 1 .. Len(log')
  BY <1>1, <1>3
<1>7. ASSUME NEW v \in User PROVE Remembers(v)' /\ Gapless(Meeting!ForUser(v)', heard'[v])
  <2>1. Remembers(v) /\ Gapless(Meeting!ForUser(v), heard[v]) /\ heard[v] \in SUBSET (1 .. n)
    BY DEF GInv, Remembers, n
  <2>2. Gapless(Meeting!ForUser(v)', heard[v])
    BY <1>5, <2>1
  <2> QED
    BY <1>2, <1>6, <2>1, <2>2 DEF Remembers
<1>8. ASSUME NEW q \in Visit PROVE Polled(asking[q])'
  <2>1. Polled(asking[q]) /\ asking'[q] = asking[q]
    BY <1>2 DEF GInv
  <2>2. CASE asking[q].pc = "answer"
    <3>1. PICK v \in User : v = asking[q].user
      BY <2>2 DEF TInv, Shaped
    <3>2. /\ asking[q].answer \subseteq 1 .. n /\ Gapless(Meeting!ForUser(v), heard[v] \union asking[q].answer)
          /\ heard[v] \subseteq 1 .. n
      BY <2>1, <2>2, <3>1 DEF Polled, GInv, Remembers, n
    <3>3. heard[v] \union asking[q].answer \in SUBSET (1 .. n)
      BY <3>2
    <3>4. Gapless(Meeting!ForUser(v)', heard[v] \union asking[q].answer)
      BY <1>5, <3>2, <3>3
    <3>5. asking[q].answer \subseteq 1 .. Len(log')
      BY <1>6, <3>2
    <3> QED
      BY <1>2, <2>1, <2>2, <3>1, <3>4, <3>5 DEF Polled
  <2>3. CASE asking[q].pc # "answer"
    BY <1>2, <2>1, <2>3 DEF Polled
  <2> QED
    BY <2>2, <2>3
<1> QED
  BY <1>1, <1>7, <1>8 DEF GInv

LEMMA StepHears ==
  ASSUME RoomBounded, TInv, GInv, NEW r \in Visit, Meeting!Step(r)
  PROVE  TInv' /\ GInv'
<1>1. CASE Meeting!Count(r)
  <2>1. TInv' /\ \E h : Moves(r, h) /\ h.pc \notin {"read", "answer"}
    BY <1>1, CountTyped
  <2> QED
    BY <1>1, <2>1, OthersHear DEF Meeting!Count, SameMemory
<1>2. CASE Meeting!Add(r)
  <2>1. TInv' /\ \E h : Moves(r, h) /\ h.pc \notin {"read", "answer"}
    BY <1>2, AddTyped
  <2> QED
    BY <1>2, <2>1, OthersHear DEF Meeting!Add, SameMemory
<1>3. CASE Meeting!Remove(r)
  <2>1. TInv' /\ \E h : Moves(r, h) /\ h.pc \notin {"read", "answer"}
    BY <1>3, RemoveTyped
  <2> QED
    BY <1>3, <2>1, OthersHear DEF Meeting!Remove, SameMemory
<1>4. CASE Meeting!List(r)
  <2>1. TInv' /\ SameMemory /\ \E h : Moves(r, h) /\ h.pc \notin {"read", "answer"}
    BY <1>4, ListTyped
  <2> QED
    BY <1>4, <2>1, OthersHear DEF Meeting!List
<1>5. CASE Meeting!Get(r)
  <2>1. TInv' /\ SameMemory /\ \E h : Moves(r, h) /\ h.pc \notin {"read", "answer"}
    BY <1>5, GetTyped
  <2> QED
    BY <1>5, <2>1, OthersHear DEF Meeting!Get
<1>6. CASE Meeting!Prune(r)
  <2>1. TInv' /\ SameMemory /\ \E h : Moves(r, h) /\ h.pc \notin {"read", "answer"}
    BY <1>6, PruneTyped
  <2> QED
    BY <1>6, <2>1, OthersHear DEF Meeting!Prune
<1>7. CASE Meeting!ListSignals(r)
  BY <1>7, ListSignalsTyped, ListSignalsHears
<1>8. CASE Meeting!Process(r)
  BY <1>8, ProcessHears
<1> QED
  BY <1>1, <1>2, <1>3, <1>4, <1>5, <1>6, <1>7, <1>8 DEF Meeting!Step

LEMMA CallThrowsHears ==
  ASSUME TInv, GInv, NEW r \in Visit, Meeting!CallThrows(r)
  PROVE  GInv'
<1>1. Moves(r, Meeting!Idle) /\ Meeting!Idle.pc \notin {"read", "answer"}
  BY CallThrowsTyped, IdleTyped
<1> QED
  BY <1>1, OthersHear DEF Meeting!CallThrows, SameMemory

LEMMA CloseHears ==
  ASSUME TInv, GInv, NEW u \in User, Meeting!Close(u)
  PROVE  GInv'
<1>1. /\ client'[u] = Meeting!NewPage /\ \A v \in User \ {u} : client'[v] = client[v]
      /\ \A r \in Visit : asking'[r] = asking[r] \/ asking'[r] = Meeting!Idle
  BY CloseTyped
<1>2. \A r \in Visit : asking'[r] = asking[r] \/ asking'[r].pc \notin {"read", "answer"}
  BY <1>1, IdleTyped
<1>3. UNCHANGED <<clock, log, list, heard>>
  BY DEF Meeting!Close
<1>4. list'.first # 0 /\ \A v \in User : Meeting!ForUser(v)' = Meeting!ForUser(v)
  BY <1>3 DEF GInv, Meeting!ForUser, Meeting!Kept, Meeting!IsForUser
<1>5. \A v \in User : client'[v].seen \subseteq heard[v] /\ client'[v].last \in heard[v] \union {0}
  BY <1>1 DEF GInv, Remembers, Meeting!NewPage
<1> QED
  BY <1>2, <1>3, <1>4, <1>5, NothingHeard

LEMMA TickHears ==
  ASSUME TInv, GInv, Meeting!Tick
  PROVE  GInv'
<1>1. clock' = clock + 1 /\ UNCHANGED <<room, member, log, list, client, heard, asking, spent>>
  BY RoomTickTyped
<1>2. list'.first # 0 /\ \A v \in User : Meeting!ForUser(v)' \subseteq Meeting!ForUser(v)
  BY <1>1 DEF GInv, Meeting!ForUser, Meeting!Kept, Meeting!IsForUser, TInv, Meeting!TypeOK
<1>3. \A v \in User : client'[v].seen \subseteq heard[v] /\ client'[v].last \in heard[v] \union {0}
  BY <1>1 DEF GInv, Remembers
<1> QED
  BY <1>1, <1>2, <1>3, NothingHeard

-----------------------------------------------------------------------------
(* The room: every step *)

RoomInv == TInv /\ CInv /\ GInv

LEMMA RoomInit ==
  ASSUME RoomBounded, Meeting!Init
  PROVE  RoomInv
<1>1. TInv
  BY IdleTyped DEF Meeting!Init, TInv, Meeting!TypeOK, Meeting!NewPage, Meeting!Page, Meeting!Counters
<1>2. \A r \in Visit : asking[r].pc = "idle"
  BY IdleTyped DEF Meeting!Init
<1>3. GInv
  <2>1. \A r \in Visit : Polled(asking[r])
    BY <1>2 DEF Polled
  <2>2. \A u \in User : Remembers(u) /\ Gapless(Meeting!ForUser(u), heard[u])
    <3> SUFFICES ASSUME NEW u \in User PROVE Remembers(u) /\ Gapless(Meeting!ForUser(u), heard[u])
      OBVIOUS
    <3>1. heard[u] = {} /\ client[u] = Meeting!NewPage
      BY DEF Meeting!Init
    <3> QED
      BY <3>1 DEF Remembers, Gapless, Later, Meeting!NewPage
  <2> QED
    BY <2>1, <2>2 DEF GInv, Meeting!Init
<1>4. CInv
  <2>1. Pre = {} /\ Coming = {}
    BY <1>2 DEF Pre, Coming, Meeting!At
  <2>2. Meeting!LiveUsers = {}
    BY DEF Meeting!Init, Meeting!LiveUsers, Meeting!Live
  <2>3. Hidden = {}
    BY <2>2 DEF Hidden
  <2>4. Lasting
    BY DEF Meeting!Init, Lasting, RoomBounded
  <2>5. Cardinality({}) = 0 /\ Meeting!LiveUsers \union Coming = {}
    BY <2>1, <2>2, FS_EmptySet
  <2>6. spent.overlaps = 0 /\ MaxParticipants \in Nat /\ Slack = 0
    BY <2>1 DEF Meeting!Init, Slack, RoomBounded
  <2>7. Cardinality(Hidden) + Cardinality(Pre) <= spent.overlaps + Slack
    BY <2>1, <2>3, <2>5, <2>6
  <2>8. Cardinality(Meeting!LiveUsers \union Coming) <= MaxParticipants + spent.overlaps
    BY <2>5, <2>6
  <2> QED
    BY <2>4, <2>7, <2>8 DEF CInv
<1> QED
  BY <1>1, <1>3, <1>4 DEF RoomInv

LEMMA RoomInductive ==
  ASSUME RoomBounded, RoomInv, [Meeting!Next]_(Meeting!vars)
  PROVE  RoomInv'
<1> USE DEF RoomInv
<1>1. CASE Meeting!Tick
  BY <1>1, RoomTickTyped, TickCounts, TickHears
<1>2. ASSUME NEW r \in Visit, Meeting!Start(r) PROVE RoomInv'
  <2>1. TInv'
    BY <1>2, JoinTyped, LeaveTyped, LookTyped, PollTyped DEF Meeting!Start
  <2> QED
    BY <1>2, <2>1, StartCounts, StartHears
<1>3. ASSUME NEW r \in Visit, Meeting!Step(r) PROVE RoomInv'
  <2>1. TInv' /\ GInv'
    BY <1>3, StepHears
  <2> QED
    BY <1>3, <2>1, StepCounts
<1>4. ASSUME NEW r \in Visit, Meeting!CallThrows(r) PROVE RoomInv'
  BY <1>4, CallThrowsTyped, CallThrowsCounts, CallThrowsHears
<1>5. ASSUME NEW u \in User, Meeting!Close(u) PROVE RoomInv'
  BY <1>5, CloseTyped, CloseCounts, CloseHears
<1>6. ASSUME NEW u \in User, NEW t \in Meeting!Target, Meeting!Post(u, t) PROVE RoomInv'
  <2>1. TInv' /\ GInv'
    BY <1>6, PostTyped, PostHears DEF GInv
  <2>2. UNCHANGED <<clock, room, member, asking, spent>>
    BY <1>6 DEF Meeting!Post
  <2>3. CInv'
    BY <2>2 DEF CInv, Lasting, Meeting!LiveUsers, Meeting!Live, Hidden, Meeting!Members, Pre, Looking, Doomed, Coming, Slack, Meeting!At
  <2> QED
    BY <2>1, <2>3
<1>7. CASE UNCHANGED Meeting!vars
  <2>1. TInv'
    BY <1>7 DEF Meeting!vars, TInv, Meeting!TypeOK
  <2>2. CInv'
    BY <1>7 DEF Meeting!vars, CInv, Lasting, Meeting!LiveUsers, Meeting!Live, Hidden, Meeting!Members, Pre, Looking, Doomed, Coming, Slack, Meeting!At
  <2>3. GInv'
    BY <1>7 DEF Meeting!vars, GInv, Remembers, Polled, Meeting!ForUser, Meeting!Kept, Meeting!IsForUser
  <2> QED
    BY <2>1, <2>2, <2>3
<1> QED
  BY <1>1, <1>2, <1>3, <1>4, <1>5, <1>6, <1>7 DEF Meeting!Next

LEMMA NonePassed ==
  ASSUME RoomInv
  PROVE  Meeting!NoneIsPassedOver
<1> SUFFICES ASSUME NEW u \in User, NEW k \in Meeting!ForUser(u),
                    k \notin heard[u], Later(heard[u], k) # {}
             PROVE  Meeting!Cardinality(Later(heard[u], k)) >= Recent
  BY DEF Meeting!NoneIsPassedOver, Later
<1>1. Cardinality(Later(heard[u], k)) >= Recent
  BY DEF RoomInv, GInv, Gapless
<1> QED
  BY <1>1, SameCount
-----------------------------------------------------------------------------
(* Side by side *)

\* The transport and its room each keep their invariant, whichever of them moves.
LEMMA TrustInductive ==
  /\ BothInit => IInv /\ (serial => SInv)
  /\ IInv /\ (serial => SInv) /\ [BothNext]_bothVars => (IInv /\ (serial => SInv))'
<1>1. BothInit => IInv /\ (serial => SInv)
  BY Inductive, InductiveSerially DEF BothInit
<1>2. ASSUME IInv, serial => SInv, [BothNext]_bothVars PROVE IInv' /\ (serial => SInv)'
  <2>1. [Next]_vars
    BY <1>2 DEF BothNext, bothVars
  <2> QED
    BY <1>2, <2>1, Inductive, InductiveSerially
<1> QED
  BY <1>1, <1>2

LEMMA RoomsInductive ==
  /\ BothInit => RoomInv
  /\ RoomInv /\ [BothNext]_bothVars => RoomInv'
<1>0. RoomBounded
  BY RoomAssumption DEF RoomBounded
<1>1. BothInit => RoomInv
  BY <1>0, RoomInit DEF BothInit
<1>2. ASSUME RoomInv, [BothNext]_bothVars PROVE RoomInv'
  <2>1. [Meeting!Next]_(Meeting!vars)
    BY <1>2 DEF BothNext, bothVars, roomVars, Meeting!vars
  <2> QED
    BY <1>0, <1>2, <2>1, RoomInductive
<1> QED
  BY <1>1, <1>2

(* Session, invites, rooms, pages and handlers keep their shape under every *)
(* interleaving and failure.                                               *)
THEOREM TypeCorrect == BothSpec => []BothTypeOK
<1>1. IInv /\ RoomInv => BothTypeOK
  BY DEF IInv, RoomInv, TInv, BothTypeOK
<1> QED
  BY <1>1, TrustInductive, RoomsInductive, PTL DEF BothSpec

(* A completed transport carries both confirmations and the later one's    *)
(* time and side, however confirmTransport and the reminder interleave.    *)
THEOREM CompletionIsAgreed == BothSpec => []CompletedIsAgreed
<1>1. IInv => CompletedIsAgreed
  BY DEF IInv, Sound, CompletedIsAgreed
<1> QED
  BY <1>1, TrustInductive, PTL DEF BothSpec

(* No invite precedes both sides' saved confirmations. *)
THEOREM InvitesFollowConfirmations == BothSpec => []InvitesAreEarned
<1>1. IInv => InvitesAreEarned
  BY DEF IInv
<1> QED
  BY <1>1, TrustInductive, PTL DEF BothSpec

(* Handlers that run one at a time keep a saved confirmation in the row,   *)
(* whatever calls throw; and when they have ended and no call has thrown,  *)
(* a transport both sides have confirmed is completed and both have been   *)
(* invited to a review.                                                    *)
THEOREM ConfirmationsCount == BothSpec => []ConfirmationsCountSerially
<1>1. (serial => SInv) => ConfirmationsCountSerially
  BY QuietKnows DEF SInv, Keeps, StoredIsKept, AgreementIsHonoured, ConfirmationsCountSerially
<1> QED
  BY <1>1, TrustInductive, PTL DEF BothSpec

(* Whoever is in a room is counted while requests do not overlap, and a    *)
(* request that overlaps lets in one more than the capacity at most: for   *)
(* any number of users and requests, any capacity and lifetime.            *)
THEOREM RoomCapacity == BothSpec => []CapacityHolds
<1>1. RoomInv => CapacityHolds
  BY CapacityOfCInv, RoomAssumption DEF RoomInv, CapacityHolds, RoomBounded
<1> QED
  BY <1>1, RoomsInductive, PTL DEF BothSpec

(* Nobody processes a signal before an earlier one of the list that is for *)
(* him, unless he is behind by more than a poll returns: however polls     *)
(* overlap, calls end and pages are opened anew.                           *)
THEOREM SignalsInTurn == BothSpec => []NoneIsPassedOver
<1>1. RoomInv => NoneIsPassedOver
  BY NonePassed DEF NoneIsPassedOver
<1> QED
  BY <1>1, RoomsInductive, PTL DEF BothSpec
=============================================================================
