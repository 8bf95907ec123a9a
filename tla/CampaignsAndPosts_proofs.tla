---------------------- MODULE CampaignsAndPosts_proofs ----------------------
(***************************************************************************)
(* Proofs about MailCampaigns and SocialPosts, for any number of handlers, *)
(* campaigns, posts and channels.                                          *)
(*                                                                         *)
(* A handler holds an entity that may be old.  What it can rely on of a    *)
(* campaign is that statuses move one way: a draft stays a draft or is     *)
(* deleted, and what has left the schedule does not come back to it.  So a *)
(* handler past its claim is at a campaign that no later drain finds       *)
(* scheduled.                                                              *)
(*                                                                         *)
(* A post comes back to any status, for its whole row is saved.  What is   *)
(* kept there is what a copy carries: one that can go out had its approval *)
(* when it was read, and approvals are taken back only by a later call.    *)
(***************************************************************************)
EXTENDS CampaignsAndPosts, TLAPS


AtWork == {"claim", "send", "complete", "fail"}
Drafts == {"draft", "deleted"}
Gone == {"running", "completed", "failed", "cancelled"}

Runs(h, i) == h.id = i /\ h.pc \in AtWork

\* A new campaign is scheduled, or begins at once.
MayBegin(e) == e.status \in {"scheduled", "running"} /\ (e.status = "running" => e.scheduleAt = 0)

(* A handler is sound, by the table t and the withdrawn rows w. *)
Sound(h, t, w) ==
  /\ h.kind \in {"edit", "draft"} /\ h.id # 0 => t[h.id].status \in Drafts
  /\ h.kind = "edit" => h.row.status = "draft"
  /\ h.kind \in {"draft", "create", "resend"} => MayBegin(h.row) /\ h.list = NoList
  /\ h.pc = "claim" => h.kind = "drain"
  /\ h.pc = "insert" => h.kind \in {"create", "resend"}
  /\ h.pc \in {"delete", "write"} /\ h.kind # "remind" => h.id \in RowId
  /\ h.pc \in AtWork =>
       /\ h.kind \in {"drain", "create", "resend"} /\ h.id \in RowId /\ h.id \notin w
       /\ t[h.id].status \in (IF h.pc = "claim" THEN Gone \union {"scheduled"} ELSE Gone)
       /\ h.kind # "drain" => t[h.id].scheduleAt = 0

\* What is still to be scheduled or sent has not gone out; what is withdrawn never has.
Unsent(t, n) == \A i \in RowId : t[i].status \in {"none", "scheduled"} => n[i] = 0
Withheld(t, n, w) == \A i \in w : t[i].status = "cancelled" /\ n[i] = 0

\* A scheduled campaign that says running.
Under(t, i) == t[i].status = "running" /\ t[i].scheduleAt > 0

IInv ==
  /\ TypeOK
  /\ Unsent(rows, ran) /\ Withheld(rows, ran, withdrawn)
  /\ \A r \in Request : Sound(req[r], rows, withdrawn)
  /\ spent.failures = 0 =>
       \A i \in RowId : Under(rows, i) => \E r \in Request : Runs(req[r], i)

-----------------------------------------------------------------------------
(* Rows *)

\* What may become of the row e.
Becomes(e, f) ==
  /\ e.status \in Drafts => f.status \in Drafts
  /\ e.status = "scheduled" => f.status \in Gone \union {"scheduled"}
  /\ e.status \in Gone => f.status \in Gone /\ f.scheduleAt = e.scheduleAt

Follows(t, u) == \A i \in RowId : Becomes(t[i], u[i])

LEMMA SoundStays ==
  ASSUME NEW h \in Handler, NEW t, NEW u, NEW w, NEW x,
         Sound(h, t, w), Follows(t, u),
         \A i \in x : i \in w \/ ~ Runs(h, i)
  PROVE  Sound(h, u, x)
<1>1. h.id \in RowId \union {0}
  BY DEF Handler
<1>2. h.pc \in AtWork => h.id \notin x
  BY DEF Sound, Runs
<1> QED
  BY <1>1, <1>2 DEF Sound, Follows, Becomes, AtWork, Gone, Drafts

LEMMA Kinds ==
  /\ NoRow \in Row /\ NoList \in [RowId -> Row] /\ Idle \in Handler
  /\ \A t, w : Sound(Idle, t, w)
  /\ \A i : ~ Runs(Idle, i)
<1>1. NoRow \in Row
  BY DEF NoRow, Row, Payload
<1>2. NoList \in [RowId -> Row]
  BY <1>1 DEF NoList
<1>3. Idle \in Handler
  BY <1>1, <1>2 DEF Idle, Handler
<1>4. \A t, w : Sound(Idle, t, w)
  BY DEF Idle, Sound, AtWork
<1>5. \A i : ~ Runs(Idle, i)
  BY DEF Idle, Runs, AtWork
<1> QED
  BY <1>1, <1>2, <1>3, <1>4, <1>5

\* One row becomes e.
LEMMA OneRow ==
  ASSUME TypeOK, NEW i \in RowId, NEW e \in Row,
         rows' = [rows EXCEPT ![i] = e], Becomes(rows[i], e)
  PROVE  rows' \in [RowId -> Row] /\ Follows(rows, rows') /\ rows'[i] = e
         /\ \A j \in RowId \ {i} : rows'[j] = rows[j]
<1>1. rows' \in [RowId -> Row] /\ rows'[i] = e /\ \A j \in RowId \ {i} : rows'[j] = rows[j]
  BY DEF TypeOK
<1>2. \A j \in RowId : rows[j] = rows'[j] => Becomes(rows[j], rows'[j])
  BY DEF Becomes
<1> QED
  BY <1>1, <1>2 DEF Follows

-----------------------------------------------------------------------------
(* One handler moves: the invariant asks only of that handler, of the rows it *)
(* has written and of those it has let go.                                    *)

LEMMA OneMoves ==
  ASSUME IInv, NEW r \in Request, NEW h \in Handler, Become(r, h),
         Sound(h, rows', withdrawn'),
         rows' \in [RowId -> Row], Follows(rows, rows'),
         Unsent(rows', ran'), Withheld(rows', ran', withdrawn'),
         withdrawn' \subseteq RowId,
         \A i \in withdrawn' \ withdrawn : \A q \in Request \ {r} : ~ Runs(req[q], i),
         ran' \in [RowId -> 0 .. 2], sentText' \in [RowId -> Nat],
         confirmed' \in [RowId -> Nat], reminders' \in [RowId -> 0 .. 2],
         spent' \in Counters, spent'.failures = 0 => spent.failures = 0,
         spent'.failures = 0 =>
           \A i \in RowId : Under(rows', i) =>
             Runs(h, i) \/ (Under(rows, i) /\ ~ Runs(req[r], i)),
         now' = now
  PROVE  IInv'
<1>1. req' \in [Request -> Handler] /\ req'[r] = h /\ \A q \in Request \ {r} : req'[q] = req[q]
  BY DEF IInv, TypeOK, Become
<1>2. ASSUME NEW q \in Request PROVE Sound(req'[q], rows', withdrawn')
  <2>1. CASE q = r
    BY <1>1, <2>1
  <2>2. CASE q # r
    <3>1. req[q] \in Handler /\ Sound(req[q], rows, withdrawn) /\ req'[q] = req[q]
      BY <1>1, <2>2 DEF IInv, TypeOK
    <3>2. \A i \in withdrawn' : i \in withdrawn \/ ~ Runs(req[q], i)
      BY <2>2
    <3> QED
      BY <3>1, <3>2, SoundStays
  <2> QED
    BY <2>1, <2>2
<1>3. spent'.failures = 0 =>
        \A i \in RowId : Under(rows', i) => \E q \in Request : Runs(req'[q], i)
  <2> SUFFICES ASSUME spent'.failures = 0, NEW i \in RowId, Under(rows', i)
               PROVE  \E q \in Request : Runs(req'[q], i)
    OBVIOUS
  <2>1. CASE Runs(h, i)
    BY <1>1, <2>1
  <2>2. CASE Under(rows, i) /\ ~ Runs(req[r], i)
    <3>1. PICK q \in Request : Runs(req[q], i)
      BY <2>2 DEF IInv
    <3> QED
      BY <1>1, <2>2, <3>1
  <2> QED
    BY <2>1, <2>2
<1>4. TypeOK'
  BY <1>1 DEF IInv, TypeOK
<1> QED
  BY <1>2, <1>3, <1>4 DEF IInv

\* The table and the mail stay as they are.
LEMMA MovesOnly ==
  ASSUME IInv, NEW r \in Request, NEW h \in Handler, Become(r, h),
         Sound(h, rows, withdrawn),
         UNCHANGED <<rows, sends, notes, now>>,
         spent' \in Counters, spent'.failures = 0 => spent.failures = 0,
         spent'.failures = 0 =>
           \A i \in RowId : Under(rows, i) => Runs(h, i) \/ ~ Runs(req[r], i)
  PROVE  IInv'
<1>1. Follows(rows, rows)
  BY DEF Follows, Becomes
<1> QED
  BY <1>1, OneMoves DEF IInv, TypeOK, sends, notes

\* One row is written, and neither its mail nor its being withdrawn changes.
LEMMA RowMoves ==
  ASSUME IInv, NEW r \in Request, NEW h \in Handler, Become(r, h),
         NEW i \in RowId, NEW e \in Row,
         rows' = [rows EXCEPT ![i] = e], Becomes(rows[i], e),
         e.status \in {"none", "scheduled"} => rows[i].status \in {"none", "scheduled"},
         i \in withdrawn => e.status = "cancelled",
         Sound(h, rows', withdrawn),
         e.status = "running" /\ e.scheduleAt > 0 => Runs(h, i) \/ Under(rows, i),
         \A j \in RowId : Runs(req[r], j) =>
            \/ Runs(h, j) \/ ~ Under(rows, j)
            \/ j = i /\ e.status # "running",
         confirmed' \in [RowId -> Nat], reminders' \in [RowId -> 0 .. 2],
         UNCHANGED <<ran, sentText, withdrawn, now, spent>>
  PROVE  IInv'
<1>1. /\ rows' \in [RowId -> Row] /\ Follows(rows, rows') /\ rows'[i] = e
      /\ \A j \in RowId \ {i} : rows'[j] = rows[j]
  BY OneRow DEF IInv
<1>2. Unsent(rows', ran)
  BY <1>1 DEF IInv, Unsent
<1>3. Withheld(rows', ran, withdrawn)
  BY <1>1 DEF IInv, TypeOK, Withheld
<1>4. ASSUME NEW j \in RowId, Under(rows', j)
      PROVE  Runs(h, j) \/ (Under(rows, j) /\ ~ Runs(req[r], j))
  <2>1. CASE j = i
    BY <1>1, <1>4, <2>1 DEF Under
  <2>2. CASE j # i
    BY <1>1, <1>4, <2>2 DEF Under
  <2> QED
    BY <2>1, <2>2
<1> QED
  BY <1>1, <1>2, <1>3, <1>4, OneMoves DEF IInv, TypeOK

-----------------------------------------------------------------------------
(* What begins *)

LEMMA Starts ==
  ASSUME IInv, NEW r \in Request, NEW h \in Handler, NEW call \in BOOLEAN, Begin(r, h, call),
         Sound(h, rows, withdrawn)
  PROVE  IInv'
<1>1. Become(r, h) /\ req[r] = Idle /\ UNCHANGED <<rows, sends, notes, now>>
  BY DEF Begin
<1>2. spent' \in Counters /\ spent'.failures = spent.failures
  <2>1. spent \in Counters
    BY DEF IInv, TypeOK
  <2>2. PICK o, c \in Nat : spent' = [spent EXCEPT !.overlaps = o, !.calls = c]
    <3>1. /\ (IF Overlaps(r) THEN spent.overlaps + 1 ELSE spent.overlaps) \in Nat
          /\ (IF call THEN spent.calls + 1 ELSE spent.calls) \in Nat
      BY <2>1 DEF Counters
    <3>2. spent' = [spent EXCEPT !.overlaps = IF Overlaps(r) THEN @ + 1 ELSE @,
                                 !.calls = IF call THEN @ + 1 ELSE @]
      BY DEF Begin
    <3> QED
      BY <3>1, <3>2
  <2> QED
    BY <2>1, <2>2 DEF Counters
<1>3. \A i : ~ Runs(req[r], i)
  BY <1>1, Kinds
<1> QED
  BY <1>1, <1>2, <1>3, MovesOnly DEF Counters

\* A handler that has found a row, and one that has made up a row.
LEMMA Beginners ==
  ASSUME TypeOK
  PROVE  /\ \A k \in {"edit", "draft", "tags", "content", "cancel", "reschedule"},
               pc \in {"save", "delete", "write"}, i \in RowId :
              /\ Found(k, pc, i) \in Handler /\ Found(k, pc, i).kind = k /\ Found(k, pc, i).pc = pc
              /\ Found(k, pc, i).id = i /\ Found(k, pc, i).row = rows[i]
              /\ Found(k, pc, i).list = NoList
         /\ \A k \in {"edit", "create", "resend"}, pc \in {"save", "lookup", "insert"}, e \in Row :
              /\ Making(k, pc, e) \in Handler /\ Making(k, pc, e).kind = k
              /\ Making(k, pc, e).pc = pc /\ Making(k, pc, e).id = 0
              /\ Making(k, pc, e).row = e /\ Making(k, pc, e).list = NoList
<1>1. \A i \in RowId : rows[i] \in Row
  BY DEF TypeOK
<1>2. ASSUME NEW k \in {"edit", "draft", "tags", "content", "cancel", "reschedule"},
             NEW pc \in {"save", "delete", "write"}, NEW i \in RowId
      PROVE  /\ Found(k, pc, i) \in Handler /\ Found(k, pc, i).kind = k /\ Found(k, pc, i).pc = pc
             /\ Found(k, pc, i).id = i /\ Found(k, pc, i).row = rows[i]
             /\ Found(k, pc, i).list = NoList
  <2>1. Idle \in Handler /\ rows[i] \in Row /\ Idle.list = NoList
    BY <1>1, Kinds DEF Idle
  <2> QED
    BY <2>1 DEF Found, Handler
<1>3. ASSUME NEW k \in {"edit", "create", "resend"}, NEW pc \in {"save", "lookup", "insert"},
             NEW e \in Row
      PROVE  /\ Making(k, pc, e) \in Handler /\ Making(k, pc, e).kind = k
             /\ Making(k, pc, e).pc = pc /\ Making(k, pc, e).id = 0
             /\ Making(k, pc, e).row = e /\ Making(k, pc, e).list = NoList
  <2>1. Idle \in Handler /\ Idle.list = NoList /\ Idle.id = 0
    BY Kinds DEF Idle
  <2> QED
    BY <2>1 DEF Making, Handler
<1> QED
  BY <1>2, <1>3

LEMMA Creates ==
  ASSUME IInv
  PROVE  /\ \A t \in Nat, p \in Payload :
              Campaign(t, p) \in Row /\ MayBegin(Campaign(t, p))
         /\ \A w \in Wish : Fresh(w) \in Payload
         /\ \A e \in Row : MayBegin(e) =>
              Creating(e) \in Handler /\ Sound(Creating(e), rows, withdrawn)
         /\ NewText \in Nat
         /\ Time \subseteq Nat
<1>1. NewText \in Nat
  BY DEF NewText, IInv, TypeOK, Counters
<1>2. \A w \in Wish : Fresh(w) \in Payload
  BY <1>1, WishAssumption DEF Fresh, Payload
<1>3. \A t \in Nat, p \in Payload : Campaign(t, p) \in Row /\ MayBegin(Campaign(t, p))
  BY Kinds DEF Campaign, NoRow, Row, MayBegin
<1>4. ASSUME NEW e \in Row, MayBegin(e)
      PROVE  Creating(e) \in Handler /\ Sound(Creating(e), rows, withdrawn)
  <2>1. PICK pc \in {"insert", "lookup"} : Creating(e) = Making("create", pc, e)
    BY DEF Creating
  <2> QED
    BY <1>4, <2>1, Beginners DEF Sound, AtWork, IInv
<1>5. Time \subseteq Nat
  BY BoundAssumption DEF Time
<1> QED
  BY <1>1, <1>2, <1>3, <1>4, <1>5

LEMMA DraftCalls ==
  ASSUME IInv, NEW r \in Request
  PROVE  /\ \A p \in Payload : NewDraft(r, p) => IInv'
         /\ \A i \in RowId, p \in Payload : EditDraft(r, i, p) => IInv'
         /\ \A i \in RowId, t \in Nat : SendDraft(r, i, t) => IInv'
<1> USE DEF Call
<1>1. ASSUME NEW p \in Payload, NewDraft(r, p) PROVE IInv'
  <2> DEFINE e == [NoRow EXCEPT !.status = "draft", !.payload = p]
             h == Making("edit", "save", e)
  <2>1. e \in Row /\ e.status = "draft"
    BY Kinds DEF Row, NoRow
  <2>2. h \in Handler /\ h.kind = "edit" /\ h.pc = "save" /\ h.id = 0 /\ h.row = e /\ h.list = NoList
    BY <2>1, Beginners DEF IInv
  <2>3. Begin(r, h, TRUE)
    BY <1>1 DEF NewDraft
  <2> HIDE DEF h, e
  <2> QED
    BY <2>1, <2>2, <2>3, Starts DEF Sound, AtWork
<1>2. ASSUME NEW i \in RowId, NEW p \in Payload, EditDraft(r, i, p) PROVE IInv'
  <2> DEFINE f == Found("edit", "save", i)
             h == [f EXCEPT !.row.payload = p]
  <2>1. /\ f \in Handler /\ f.kind = "edit" /\ f.pc = "save" /\ f.id = i
        /\ f.row = rows[i] /\ f.list = NoList
    BY Beginners DEF IInv
  <2>2. Begin(r, h, TRUE) /\ rows[i].status = "draft"
    BY <1>2 DEF EditDraft, Has
  <2> HIDE DEF f
  <2>3. /\ h \in Handler /\ h.kind = "edit" /\ h.pc = "save" /\ h.id = i
        /\ h.row.status = rows[i].status
    BY <2>1 DEF Handler, Row
  <2> HIDE DEF h
  <2> QED
    BY <2>2, <2>3, Starts DEF Sound, AtWork, Drafts
<1>3. ASSUME NEW i \in RowId, NEW t \in Nat, SendDraft(r, i, t) PROVE IInv'
  <2> DEFINE f == Found("draft", "delete", i)
             e == Campaign(t, rows[i].payload)
             h == [f EXCEPT !.row = e]
  <2>1. /\ f \in Handler /\ f.kind = "draft" /\ f.pc = "delete" /\ f.id = i /\ f.list = NoList
    BY Beginners DEF IInv
  <2>2. Begin(r, h, TRUE) /\ rows[i].status = "draft"
    BY <1>3 DEF SendDraft, Has
  <2>3. rows[i].payload \in Payload
    BY DEF IInv, TypeOK, Row
  <2>4. e \in Row /\ MayBegin(e)
    BY <2>3, Creates
  <2> HIDE DEF f, e
  <2>5. /\ h \in Handler /\ h.kind = "draft" /\ h.pc = "delete" /\ h.id = i
        /\ h.row = e /\ h.list = NoList
    BY <2>1, <2>4 DEF Handler
  <2> HIDE DEF h
  <2> QED
    BY <2>2, <2>4, <2>5, Starts DEF Sound, AtWork, Drafts
<1> QED
  BY <1>1, <1>2, <1>3

LEMMA CampaignCalls ==
  ASSUME IInv, NEW r \in Request
  PROVE  /\ \A t \in Nat, p \in Payload : Create(r, t, p) => IInv'
         /\ \A i \in RowId, t \in Nat : Clone(r, i, t) => IInv'
         /\ \A i \in RowId : Resend(r, i) \/ ResendFailed(r, i) => IInv'
<1> USE DEF Call
<1>1. ASSUME NEW t \in Nat, NEW p \in Payload, Create(r, t, p) PROVE IInv'
  <2>1. Campaign(t, p) \in Row /\ MayBegin(Campaign(t, p))
    BY Creates
  <2>2. Begin(r, Creating(Campaign(t, p)), TRUE)
    BY <1>1 DEF Create
  <2> QED
    BY <2>1, <2>2, Creates, Starts
<1>2. ASSUME NEW i \in RowId PROVE [rows[i].payload EXCEPT !.reminded = FALSE] \in Payload
                                   /\ rows[i].payload \in Payload
  <2>1. rows[i].payload \in Payload
    BY DEF IInv, TypeOK, Row
  <2>2. ASSUME NEW p \in Payload PROVE [p EXCEPT !.reminded = FALSE] \in Payload
    BY DEF Payload
  <2> QED
    BY <2>1, <2>2
<1>3. ASSUME NEW i \in RowId, NEW t \in Nat, Clone(r, i, t) PROVE IInv'
  BY <1>1, <1>2, <1>3 DEF Clone
<1>4. ASSUME NEW i \in RowId, Resend(r, i) \/ ResendFailed(r, i) PROVE IInv'
  <2>1. PICK p \in Payload : Begin(r, Making("resend", "insert", Campaign(0, p)), TRUE)
    BY <1>2, <1>4 DEF Resend, ResendFailed
  <2> DEFINE e == Campaign(0, p)
             h == Making("resend", "insert", e)
  <2>2. e \in Row /\ MayBegin(e)
    BY Creates
  <2>3. /\ h \in Handler /\ h.kind = "resend" /\ h.pc = "insert" /\ h.id = 0 /\ h.row = e
        /\ h.list = NoList
    BY <2>2, Beginners DEF IInv
  <2>4. Begin(r, h, TRUE)
    BY <2>1
  <2> HIDE DEF h, e
  <2> QED
    BY <2>2, <2>3, <2>4, Starts DEF Sound, AtWork
<1> QED
  BY <1>1, <1>3, <1>4

LEMMA WaitingCalls ==
  ASSUME IInv, NEW r \in Request, NEW i \in RowId
  PROVE  /\ Tags(r, i) \/ Content(r, i) \/ CancelScheduled(r, i) => IInv'
         /\ \A t \in Nat : Reschedule(r, i, t) => IInv'
<1> USE DEF Call
<1>1. ASSUME NEW h \in Handler, Begin(r, h, TRUE), h.pc = "write", h.id = i,
             h.kind \in {"tags", "content", "cancel", "reschedule"}
      PROVE  IInv'
  BY <1>1, Starts DEF Sound, AtWork
<1>2. ASSUME Tags(r, i) PROVE IInv'
  <2>1. Found("tags", "write", i) \in Handler /\ Found("tags", "write", i).kind = "tags"
        /\ Found("tags", "write", i).pc = "write" /\ Found("tags", "write", i).id = i
    BY Beginners DEF IInv
  <2>2. Begin(r, Found("tags", "write", i), TRUE)
    BY <1>2 DEF Tags
  <2> QED
    BY <1>1, <2>1, <2>2
<1>3. ASSUME Content(r, i) PROVE IInv'
  <2> DEFINE f == Found("content", "write", i)
  <2>1. f \in Handler /\ f.kind = "content" /\ f.pc = "write" /\ f.id = i
    BY Beginners DEF IInv
  <2>2. Begin(r, [f EXCEPT !.text = NewText], TRUE) /\ NewText \in Nat
    BY <1>3, Creates DEF Content
  <2> HIDE DEF f
  <2>3. /\ [f EXCEPT !.text = NewText] \in Handler
        /\ [f EXCEPT !.text = NewText].kind = "content"
        /\ [f EXCEPT !.text = NewText].pc = "write" /\ [f EXCEPT !.text = NewText].id = i
    BY <2>1, <2>2 DEF Handler
  <2> QED
    BY <1>1, <2>2, <2>3
<1>4. ASSUME CancelScheduled(r, i) PROVE IInv'
  <2>1. Found("cancel", "write", i) \in Handler /\ Found("cancel", "write", i).kind = "cancel"
        /\ Found("cancel", "write", i).pc = "write" /\ Found("cancel", "write", i).id = i
    BY Beginners DEF IInv
  <2>2. Begin(r, Found("cancel", "write", i), TRUE)
    BY <1>4 DEF CancelScheduled
  <2> QED
    BY <1>1, <2>1, <2>2
<1>5. ASSUME NEW t \in Nat, Reschedule(r, i, t) PROVE IInv'
  <2> DEFINE f == Found("reschedule", "write", i)
             e == Rescheduled(rows[i], t)
  <2>1. f \in Handler /\ f.kind = "reschedule" /\ f.pc = "write" /\ f.id = i
    BY Beginners DEF IInv
  <2>2. Begin(r, [f EXCEPT !.row = e], TRUE)
    BY <1>5 DEF Reschedule
  <2>3. e \in Row
    <3>1. rows[i] \in Row
      BY DEF IInv, TypeOK
    <3> QED
      BY <3>1 DEF Rescheduled, Row, Payload
  <2> HIDE DEF f, e
  <2>4. /\ [f EXCEPT !.row = e] \in Handler /\ [f EXCEPT !.row = e].kind = "reschedule"
        /\ [f EXCEPT !.row = e].pc = "write" /\ [f EXCEPT !.row = e].id = i
    BY <2>1, <2>3 DEF Handler
  <2> QED
    BY <1>1, <2>2, <2>4
<1> QED
  BY <1>2, <1>3, <1>4, <1>5

LEMMA DrainCalls ==
  ASSUME IInv, NEW r \in Request
  PROVE  Drains(r) => IInv'
<1>1. ASSUME NEW S \in SUBSET RowId, NEW k \in {"drain", "remind"}, NEW pc \in {"look", "write"},
             k = "drain" => pc = "look", DrainOf(r, k, pc, S)
      PROVE  IInv'
  <2> DEFINE l == [i \in RowId |-> IF i \in S THEN rows[i] ELSE NoRow]
             h == [Idle EXCEPT !.kind = k, !.pc = pc, !.list = l]
  <2>1. l \in [RowId -> Row]
    BY Kinds DEF IInv, TypeOK
  <2>2. Begin(r, h, FALSE)
    BY <1>1 DEF DrainOf
  <2> HIDE DEF l
  <2>3. h \in Handler /\ h.kind = k /\ h.pc = pc /\ h.id = 0
    BY <2>1, Kinds DEF Handler, Idle
  <2> HIDE DEF h
  <2> QED
    BY <1>1, <2>2, <2>3, Starts DEF Sound, AtWork
<1>2. DrainScheduled(r) => IInv'
  BY <1>1 DEF DrainScheduled
<1>3. DrainReminders(r) => IInv'
  BY <1>1 DEF DrainReminders
<1> QED
  BY <1>2, <1>3 DEF Drains

LEMMA StartKeeps ==
  ASSUME IInv, NEW r \in Request, Start(r)
  PROVE  IInv'
<1>1. Time \subseteq Nat /\ \A w \in Wish : Fresh(w) \in Payload
  BY Creates
<1>2. ASSUME NEW w \in Wish, NewDraft(r, Fresh(w)) \/ (\E i \in RowId : EditDraft(r, i, Fresh(w)))
                             \/ (\E t \in Time : Create(r, t, Fresh(w)))
      PROVE  IInv'
  BY <1>1, <1>2, DraftCalls, CampaignCalls
<1>3. ASSUME NEW i \in RowId, Resend(r, i) \/ ResendFailed(r, i) \/ Tags(r, i) \/ Content(r, i)
                              \/ CancelScheduled(r, i)
      PROVE  IInv'
  BY <1>3, CampaignCalls, WaitingCalls
<1>4. ASSUME NEW i \in RowId, NEW t \in Time,
             SendDraft(r, i, t) \/ Clone(r, i, t) \/ Reschedule(r, i, t)
      PROVE  IInv'
  BY <1>1, <1>4, DraftCalls, CampaignCalls, WaitingCalls
<1> QED
  BY <1>2, <1>3, <1>4 DEF Start

-----------------------------------------------------------------------------
(* Steps *)

\* What the invariant says of the handler r and the row i.
LEMMA Facts ==
  ASSUME IInv, NEW r \in Request
  PROVE  /\ req[r] \in Handler /\ Sound(req[r], rows, withdrawn)
         /\ \A i \in RowId : rows[i] \in Row
         /\ \A i \in RowId : rows[i].status \in {"none", "scheduled"} => ran[i] = 0
         /\ \A i \in withdrawn : i \in RowId /\ rows[i].status = "cancelled"
  BY DEF IInv, TypeOK, Unsent, Withheld

LEMMA SaveDraftKeeps ==
  ASSUME IInv, NEW r \in Request, SaveDraft(r)
  PROVE  IInv'
<1>1. PICK i \in RowId :
        /\ IF req[r].id = 0 THEN Free(i) ELSE i = req[r].id
        /\ rows' = [rows EXCEPT ![i] = req[r].row]
  BY DEF SaveDraft
<1>2. /\ req[r].row \in Row /\ req[r].row.status = "draft"
      /\ rows[i].status \in {"none", "draft", "deleted"}
  BY <1>1, Facts DEF SaveDraft, At, Sound, Handler, Free, Has, Drafts
<1>3. Becomes(rows[i], req[r].row) /\ i \notin withdrawn
  BY <1>2, Facts DEF Becomes, Drafts, Gone
<1>4. \A j : ~ Runs(req[r], j)
  BY DEF SaveDraft, At, Runs, AtWork
<1>5. Become(r, Idle)
  BY DEF SaveDraft, End
<1>6. confirmed' \in [RowId -> Nat] /\ reminders' \in [RowId -> 0 .. 2]
      /\ UNCHANGED <<ran, sentText, withdrawn, now, spent>>
  BY DEF SaveDraft, sends, notes, IInv, TypeOK
<1> QED
  BY <1>1, <1>2, <1>3, <1>4, <1>5, <1>6, Kinds, RowMoves

LEMMA DeleteDraftKeeps ==
  ASSUME IInv, NEW r \in Request, DeleteDraft(r)
  PROVE  IInv'
<1> DEFINE i == req[r].id
           h == IF Valid(req[r].row) THEN Creating(req[r].row) ELSE Idle
           e == [rows[i] EXCEPT !.status = "deleted"]
<1>1. i \in RowId /\ req[r].row \in Row /\ MayBegin(req[r].row)
      /\ rows[i].status \in Drafts /\ rows[i] \in Row
  <2>1. /\ req[r] \in Handler /\ Sound(req[r], rows, withdrawn)
        /\ req[r].kind = "draft" /\ req[r].pc = "delete"
    BY Facts DEF DeleteDraft, At
  <2>2. i \in RowId /\ i # 0
    BY <2>1 DEF Sound, RowId
  <2> QED
    BY <2>1, <2>2, Facts DEF Sound, Handler
<1>2. rows' = [rows EXCEPT ![i] = e] /\ e \in Row /\ e.status = "deleted"
  BY <1>1 DEF DeleteDraft, Row
<1>3. Becomes(rows[i], e) /\ i \notin withdrawn
  BY <1>1, <1>2, Facts DEF Becomes, Drafts, Gone
<1>4. h \in Handler /\ Become(r, h)
  BY <1>1, Creates, Kinds DEF DeleteDraft
<1>5. Sound(h, rows, withdrawn)
  BY <1>1, Creates, Kinds
<1>6. Sound(h, rows', withdrawn)
  <2>1. Follows(rows, rows')
    BY <1>1, <1>2, <1>3, OneRow DEF IInv
  <2> QED
    BY <1>4, <1>5, <2>1, SoundStays
<1>7. \A j : ~ Runs(req[r], j)
  BY DEF DeleteDraft, At, Runs, AtWork
<1>8. confirmed' \in [RowId -> Nat] /\ reminders' \in [RowId -> 0 .. 2]
      /\ UNCHANGED <<ran, sentText, withdrawn, now, spent>>
  BY DEF DeleteDraft, sends, notes, IInv, TypeOK
<1> HIDE DEF h, e, i
<1> QED
  BY <1>1, <1>2, <1>3, <1>4, <1>6, <1>7, <1>8, RowMoves

LEMMA LookUpKeeps ==
  ASSUME IInv, NEW r \in Request, LookUp(r)
  PROVE  IInv'
<1>1. /\ req[r] \in Handler /\ Sound(req[r], rows, withdrawn)
      /\ req[r].kind = "create" /\ req[r].pc = "lookup"
  BY Facts DEF LookUp, At
<1>2. PICK h \in {Idle, [req[r] EXCEPT !.pc = "insert"]} : Become(r, h)
  BY DEF LookUp
<1>3. h \in Handler /\ Sound(h, rows, withdrawn)
  <2>1. CASE h = Idle
    BY <2>1, Kinds
  <2>2. CASE h = [req[r] EXCEPT !.pc = "insert"]
    <3>1. /\ h \in Handler /\ h.pc = "insert" /\ h.kind = "create"
          /\ h.row = req[r].row /\ h.list = req[r].list
      BY <1>1, <2>2 DEF Handler
    <3> QED
      BY <1>1, <3>1 DEF Sound, AtWork
  <2> QED
    BY <1>2, <2>1, <2>2
<1>4. \A j : ~ Runs(req[r], j)
  BY <1>1 DEF Runs, AtWork
<1>5. UNCHANGED <<rows, sends, notes, now>> /\ spent' = spent
  BY DEF LookUp
<1> QED
  BY <1>2, <1>3, <1>4, <1>5, MovesOnly DEF IInv, TypeOK

LEMMA InsertKeeps ==
  ASSUME IInv, NEW r \in Request, Insert(r)
  PROVE  IInv'
<1> DEFINE e == req[r].row
<1>1. /\ req[r] \in Handler /\ req[r].pc = "insert" /\ req[r].kind \in {"create", "resend"}
      /\ e \in Row /\ MayBegin(e) /\ req[r].list = NoList
  BY Facts DEF Insert, Sound, Handler
<1>2. PICK i \in RowId :
        /\ Free(i) /\ rows' = [rows EXCEPT ![i] = e]
        /\ Become(r, IF e.status = "scheduled" THEN Idle ELSE [req[r] EXCEPT !.pc = "send", !.id = i])
  BY DEF Insert
<1>3. rows[i].status = "none" /\ rows[i] \in Row /\ i \notin withdrawn
  BY <1>2, Facts DEF Free, Has
<1>4. Becomes(rows[i], e)
  BY <1>3 DEF Becomes, Drafts, Gone
<1>5. rows'[i] = e
  BY <1>1, <1>2, <1>4, OneRow DEF IInv
<1>6. PICK h \in {Idle, [req[r] EXCEPT !.pc = "send", !.id = i]} :
        Become(r, h) /\ (h # Idle => e.status # "scheduled")
  BY <1>2
<1> HIDE DEF e
<1>7. h \in Handler /\ Sound(h, rows', withdrawn)
  <2>1. CASE h = Idle
    BY <2>1, Kinds
  <2>2. CASE h # Idle
    <3>1. /\ h \in Handler /\ h.pc = "send" /\ h.id = i /\ h.kind = req[r].kind
          /\ h.row = e /\ h.list = NoList
      BY <1>1, <1>6, <2>2 DEF Handler, e
    <3>2. e.status = "running" /\ e.scheduleAt = 0
      BY <1>1, <1>6, <2>2 DEF MayBegin
    <3> QED
      BY <1>1, <1>3, <1>5, <3>1, <3>2 DEF Sound, AtWork, Gone
  <2> QED
    BY <2>1, <2>2
<1>8. \A j : ~ Runs(req[r], j)
  BY <1>1 DEF Runs, AtWork
<1>9. confirmed' \in [RowId -> Nat] /\ reminders' \in [RowId -> 0 .. 2]
      /\ UNCHANGED <<ran, sentText, withdrawn, now, spent>>
  BY DEF Insert, sends, notes, IInv, TypeOK
<1>10. ~ (e.status = "running" /\ e.scheduleAt > 0)
  BY <1>1 DEF MayBegin, Row
<1> QED
  BY <1>1, <1>2, <1>3, <1>4, <1>6, <1>7, <1>8, <1>9, <1>10, RowMoves

LEMMA WritesKeep ==
  ASSUME IInv, NEW r \in Request
  PROVE  /\ WriteTags(r) => IInv'
         /\ WriteContent(r) => IInv'
         /\ WriteReschedule(r) => IInv'
<1> DEFINE i == req[r].id
<1>1. Sound(Idle, rows', withdrawn) /\ Idle \in Handler
  BY Kinds
<1>2. ASSUME req[r].pc = "write"
      PROVE  /\ \A j : ~ Runs(req[r], j)
             /\ req[r].kind # "remind" => i \in RowId
  BY <1>2, Facts DEF Runs, AtWork, Sound
\* Only payload or time change.
<1>3. ASSUME req[r].pc = "write", i \in RowId, NEW e \in Row, rows' = [rows EXCEPT ![i] = e], End(r),
             e.status = rows[i].status, rows[i].status # "scheduled" => e.scheduleAt = rows[i].scheduleAt,
             confirmed' \in [RowId -> Nat], reminders' \in [RowId -> 0 .. 2],
             UNCHANGED <<ran, sentText, withdrawn, now, spent>>
      PROVE  IInv'
  <2>1. Becomes(rows[i], e)
    BY <1>3 DEF Becomes, Drafts, Gone
  <2>2. i \in withdrawn => e.status = "cancelled"
    BY <1>3, Facts
  <2>3. e.status = "running" /\ e.scheduleAt > 0 => Under(rows, i)
    BY <1>3 DEF Under
  <2>4. Become(r, Idle)
    BY <1>3 DEF End
  <2> HIDE DEF i
  <2> QED
    BY <1>1, <1>2, <1>3, <2>1, <2>2, <2>3, <2>4, RowMoves
\* The row has left the schedule.
<1>4. ASSUME req[r].pc = "write", UNCHANGED <<rows, ran, sentText, withdrawn, now, spent>>, End(r),
             confirmed' \in [RowId -> Nat], reminders' \in [RowId -> 0 .. 2]
      PROVE  IInv'
  <2>1. Follows(rows, rows')
    BY <1>4 DEF Follows, Becomes
  <2>2. Become(r, Idle)
    BY <1>4 DEF End
  <2>3. Unsent(rows', ran') /\ Withheld(rows', ran', withdrawn')
    BY <1>4 DEF IInv
  <2>4. \A j \in RowId : Under(rows', j) => Under(rows, j) /\ ~ Runs(req[r], j)
    BY <1>2, <1>4
  <2> HIDE DEF i
  <2> QED
    BY <1>1, <1>4, <2>1, <2>2, <2>3, <2>4, OneMoves DEF IInv, TypeOK
<1>5. req[r].row \in Row /\ req[r].text \in Nat
  BY Facts DEF Handler
<1>6. ASSUME WriteTags(r) PROVE IInv'
  <2>1. req[r].pc = "write" /\ i \in RowId /\ End(r)
    BY <1>2, <1>6 DEF WriteTags, At
  <2>2. rows[i] \in Row
    BY <2>1, Facts
  <2> DEFINE e == [rows[i] EXCEPT !.payload = req[r].row.payload]
  <2>3. e \in Row /\ e.status = rows[i].status /\ e.scheduleAt = rows[i].scheduleAt
    BY <1>5, <2>2 DEF Row
  <2>4. rows' = [rows EXCEPT ![i] = e]
    BY <1>6 DEF WriteTags, WritePayload
  <2>5. /\ confirmed' \in [RowId -> Nat] /\ reminders' \in [RowId -> 0 .. 2]
        /\ UNCHANGED <<ran, sentText, withdrawn, now, spent>>
    BY <1>6 DEF WriteTags, sends, notes, IInv, TypeOK
  <2> HIDE DEF e, i
  <2> QED
    BY <1>3, <2>1, <2>3, <2>4, <2>5
<1>7. ASSUME WriteContent(r) PROVE IInv'
  <2>1. req[r].pc = "write" /\ i \in RowId /\ End(r)
    BY <1>2, <1>7 DEF WriteContent, At
  <2>2. rows[i] \in Row
    BY <2>1, Facts
  <2> DEFINE e == [rows[i] EXCEPT !.payload = Patched(req[r].row.payload, req[r].text)]
  <2>3. e \in Row /\ e.status = rows[i].status /\ e.scheduleAt = rows[i].scheduleAt
    BY <1>5, <2>2 DEF Row, Payload, Patched
  <2>4. rows' = [rows EXCEPT ![i] = e] \/ UNCHANGED rows
    BY <1>7 DEF WriteContent, WritePayload
  <2>5. /\ confirmed' \in [RowId -> Nat] /\ reminders' \in [RowId -> 0 .. 2]
        /\ UNCHANGED <<ran, sentText, withdrawn, now, spent>>
    BY <1>5, <1>7 DEF WriteContent, sends, IInv, TypeOK
  <2> HIDE DEF e, i
  <2> QED
    BY <1>3, <1>4, <2>1, <2>3, <2>4, <2>5
<1>8. ASSUME WriteReschedule(r) PROVE IInv'
  <2>1. req[r].pc = "write" /\ i \in RowId /\ End(r)
    BY <1>2, <1>8 DEF WriteReschedule, At
  <2>2. rows[i] \in Row
    BY <2>1, Facts
  <2> DEFINE e == [rows[i] EXCEPT !.scheduleAt = req[r].row.scheduleAt, !.payload = req[r].row.payload]
  <2>3. e \in Row /\ e.status = rows[i].status
    BY <1>5, <2>2 DEF Row
  <2>4. (rows' = [rows EXCEPT ![i] = e] /\ rows[i].status = "scheduled") \/ UNCHANGED rows
    BY <1>8 DEF WriteReschedule, Has
  <2>5. /\ confirmed' \in [RowId -> Nat] /\ reminders' \in [RowId -> 0 .. 2]
        /\ UNCHANGED <<ran, sentText, withdrawn, now, spent>>
    BY <1>8 DEF WriteReschedule, sends, IInv, TypeOK
  <2> HIDE DEF e, i
  <2> QED
    BY <1>3, <1>4, <2>1, <2>3, <2>4, <2>5
<1> QED
  BY <1>6, <1>7, <1>8

LEMMA WriteCancelKeeps ==
  ASSUME IInv, NEW r \in Request, WriteCancel(r)
  PROVE  IInv'
<1> DEFINE i == req[r].id
<1>1. i \in RowId /\ Become(r, Idle) /\ \A j : ~ Runs(req[r], j)
  BY Facts DEF WriteCancel, At, End, Sound, Runs, AtWork
<1>2. Sound(Idle, rows', withdrawn') /\ Idle \in Handler
  BY Kinds
<1>3. /\ confirmed' \in [RowId -> Nat] /\ reminders' \in [RowId -> 0 .. 2]
      /\ ran' = ran /\ ran \in [RowId -> 0 .. 2] /\ sentText' \in [RowId -> Nat]
      /\ now' = now /\ spent' = spent /\ spent' \in Counters
  BY DEF WriteCancel, sends, IInv, TypeOK
<1>4. CASE rows[i].status = "scheduled"
  <2> DEFINE e == [rows[i] EXCEPT !.status = "cancelled"]
  <2>1. /\ rows' = [rows EXCEPT ![i] = e]
        /\ withdrawn' = withdrawn \union {j \in {i} : \A q \in Request : ~ Running(q, j)}
    BY <1>4 DEF WriteCancel, Has
  <2>2. e \in Row /\ e.status = "cancelled" /\ Becomes(rows[i], e) /\ ran[i] = 0
    BY <1>1, <1>4, Facts DEF Row, Becomes, Drafts, Gone
  <2> HIDE DEF e, i
  <2>3. /\ rows' \in [RowId -> Row] /\ Follows(rows, rows') /\ rows'[i] = e
        /\ \A j \in RowId \ {i} : rows'[j] = rows[j]
    BY <1>1, <2>1, <2>2, OneRow DEF IInv
  <2>4. Unsent(rows', ran')
    BY <1>3, <2>2, <2>3, Facts DEF Unsent
  <2>5. Withheld(rows', ran', withdrawn') /\ withdrawn' \subseteq RowId
    BY <1>1, <1>3, <2>1, <2>2, <2>3 DEF Withheld, IInv, TypeOK
  <2>6. \A j \in withdrawn' \ withdrawn : \A q \in Request : ~ Runs(req[q], j)
    BY <2>1 DEF Runs, Running, AtWork
  <2>7. \A j \in RowId : Under(rows', j) => Under(rows, j)
    BY <2>2, <2>3 DEF Under
  <2> QED
    BY <1>1, <1>2, <1>3, <2>3, <2>4, <2>5, <2>6, <2>7, OneMoves
<1>5. CASE rows[i].status # "scheduled"
  <2>1. UNCHANGED <<rows, withdrawn>>
    BY <1>5 DEF WriteCancel, Has
  <2>2. Follows(rows, rows')
    BY <2>1 DEF Follows, Becomes
  <2> HIDE DEF i
  <2> QED
    BY <1>1, <1>2, <1>3, <2>1, <2>2, OneMoves DEF IInv, TypeOK
<1> QED
  BY <1>4, <1>5

\* A drain goes on, any other handler ends.
LEMMA GoesOn ==
  ASSUME NEW h \in Handler, NEW pc \in {"look", "write"}, NEW t, NEW w,
         \/ h.kind = "drain" /\ pc = "look"
         \/ h.kind = "remind"
         \/ h.list = NoList
  PROVE  /\ NextRow(h, pc) \in Handler /\ Sound(NextRow(h, pc), t, w)
         /\ \A i : ~ Runs(NextRow(h, pc), i)
<1>1. CASE Left(h) = {}
  BY <1>1, Kinds DEF NextRow
<1>2. CASE Left(h) # {}
  <2> DEFINE g == NextRow(h, pc)
  <2>1. h.kind \in {"drain", "remind"} /\ (h.kind = "drain" => pc = "look")
    BY <1>2 DEF Left, NoList
  <2>2. g = [Idle EXCEPT !.kind = h.kind, !.pc = pc, !.list = h.list] /\ h.list \in [RowId -> Row]
    BY <1>2 DEF NextRow, Handler
  <2> HIDE DEF g
  <2>3. g \in Handler /\ g.kind = h.kind /\ g.pc = pc /\ g.id = 0
    BY <2>1, <2>2, Kinds DEF Handler, Idle
  <2>4. Sound(g, t, w) /\ \A i : ~ Runs(g, i)
    BY <2>1, <2>3 DEF Sound, Runs, AtWork
  <2> QED
    BY <2>3, <2>4 DEF g
<1> QED
  BY <1>1, <1>2

LEMMA LookKeeps ==
  ASSUME IInv, NEW r \in Request, Look(r)
  PROVE  IInv'
<1>1. PICK i \in RowId : Become(r, IF Locked(req[r], i)
                                   THEN [Without(req[r], i) EXCEPT !.pc = "claim", !.id = i, !.row = rows[i]]
                                   ELSE NextRow(Without(req[r], i), "look"))
  BY DEF Look
<1>2. req[r] \in Handler /\ req[r].kind = "drain" /\ req[r].pc = "look" /\ rows[i] \in Row
  BY Facts DEF Look, At
<1> DEFINE h == Without(req[r], i)
<1>3. h \in Handler /\ h.kind = "drain"
  BY <1>2, Kinds DEF Without, Handler
<1> HIDE DEF h
<1>4. PICK g \in Handler : Become(r, g) /\ Sound(g, rows, withdrawn)
  <2>1. CASE Locked(req[r], i)
    <3> DEFINE g == [h EXCEPT !.pc = "claim", !.id = i, !.row = rows[i]]
    <3>1. g \in Handler /\ g.kind = "drain" /\ g.pc = "claim" /\ g.id = i
      BY <1>2, <1>3 DEF Handler
    <3>2. rows[i].status = "scheduled" /\ i \notin withdrawn
      BY <2>1, Facts DEF Locked, Has
    <3>3. Become(r, g)
      BY <1>1, <2>1 DEF h
    <3> HIDE DEF g
    <3>4. Sound(g, rows, withdrawn)
      BY <3>1, <3>2 DEF Sound, AtWork
    <3> QED
      BY <3>1, <3>3, <3>4
  <2>2. CASE ~ Locked(req[r], i)
    <3>1. Become(r, NextRow(h, "look"))
      BY <1>1, <2>2 DEF h
    <3> QED
      BY <1>3, <3>1, GoesOn
  <2> QED
    BY <2>1, <2>2
<1>5. \A j : ~ Runs(req[r], j)
  BY <1>2 DEF Runs, AtWork
<1>6. UNCHANGED <<rows, sends, notes, now>> /\ spent' = spent
  BY DEF Look
<1> QED
  BY <1>4, <1>5, <1>6, MovesOnly DEF IInv, TypeOK

\* What a handler at work knows of its campaign.
LEMMA Worker ==
  ASSUME IInv, NEW r \in Request, req[r].pc \in AtWork
  PROVE  /\ req[r].id \in RowId \ withdrawn /\ req[r].kind \in {"drain", "create", "resend"}
         /\ rows[req[r].id] \in Row
         /\ req[r].pc # "claim" => rows[req[r].id].status \in Gone
         /\ rows[req[r].id].status \in Gone \union {"scheduled"}
         /\ req[r].kind # "drain" => rows[req[r].id].scheduleAt = 0 /\ req[r].list = NoList
         /\ \A j : Runs(req[r], j) => j = req[r].id
  BY Facts DEF Sound, Runs, Gone

\* It goes on to the step pc with its campaign.
LEMMA StaysAtWork ==
  ASSUME IInv, NEW r \in Request, req[r].pc \in AtWork, NEW pc \in {"send", "complete", "fail"},
         NEW t \in [RowId -> Row], Follows(rows, t), t[req[r].id].status \in Gone
  PROVE  /\ [req[r] EXCEPT !.pc = pc] \in Handler /\ Sound([req[r] EXCEPT !.pc = pc], t, withdrawn)
         /\ \A i : Runs(req[r], i) => Runs([req[r] EXCEPT !.pc = pc], i)
<1> DEFINE g == [req[r] EXCEPT !.pc = pc]
<1>1. req[r] \in Handler /\ Sound(req[r], t, withdrawn)
  BY Facts, SoundStays
<1>2. /\ g \in Handler /\ g.pc = pc /\ g.kind = req[r].kind /\ g.id = req[r].id
      /\ g.row = req[r].row /\ g.list = req[r].list
  BY <1>1 DEF Handler
<1> HIDE DEF g
<1>3. Sound(g, t, withdrawn) /\ \A i : Runs(req[r], i) => Runs(g, i)
  BY <1>1, <1>2 DEF Sound, Runs, AtWork, Gone
<1> QED
  BY <1>2, <1>3 DEF g

LEMMA ClaimKeeps ==
  ASSUME IInv, NEW r \in Request, Claim(r)
  PROVE  IInv'
<1> DEFINE i == req[r].id
           h == [req[r] EXCEPT !.pc = "send"]
<1>1. req[r].pc \in AtWork /\ Become(r, h)
  BY DEF Claim, At, AtWork
<1>2. i \in RowId \ withdrawn /\ rows[i] \in Row /\ rows[i].status \in Gone \union {"scheduled"}
      /\ \A j : Runs(req[r], j) => j = i
  BY <1>1, Worker
<1>3. /\ confirmed' \in [RowId -> Nat] /\ reminders' \in [RowId -> 0 .. 2]
      /\ UNCHANGED <<ran, sentText, withdrawn, now, spent>>
  BY DEF Claim, sends, notes, IInv, TypeOK
<1>4. CASE rows[i].status = "scheduled"
  <2> DEFINE e == [rows[i] EXCEPT !.status = "running"]
  <2>1. rows' = [rows EXCEPT ![i] = e]
    BY <1>4 DEF Claim, Claimed, Has
  <2>2. e \in Row /\ e.status = "running" /\ Becomes(rows[i], e)
    BY <1>2, <1>4 DEF Row, Becomes, Drafts, Gone
  <2> HIDE DEF e
  <2>3. rows' \in [RowId -> Row] /\ Follows(rows, rows') /\ rows'[i] = e
    BY <1>2, <2>1, <2>2, OneRow DEF IInv
  <2>4. h \in Handler /\ Sound(h, rows', withdrawn) /\ \A j : Runs(req[r], j) => Runs(h, j)
    BY <1>1, <2>2, <2>3, StaysAtWork DEF Gone
  <2>5. Runs(h, i)
    BY <1>1, <2>4 DEF Runs
  <2> HIDE DEF h, i
  <2> QED
    BY <1>1, <1>2, <1>3, <2>1, <2>2, <2>4, <2>5, RowMoves
<1>5. CASE rows[i].status # "scheduled"
  <2>1. UNCHANGED <<rows, sends, notes, now, spent>>
    BY <1>5 DEF Claim, Claimed, Has
  <2>2. Follows(rows, rows) /\ rows \in [RowId -> Row]
    BY DEF Follows, Becomes, IInv, TypeOK
  <2>3. h \in Handler /\ Sound(h, rows, withdrawn) /\ \A j : Runs(req[r], j) => Runs(h, j)
    BY <1>1, <1>2, <1>5, <2>2, StaysAtWork
  <2> HIDE DEF h, i
  <2> QED
    BY <1>1, <2>1, <2>3, MovesOnly DEF IInv, TypeOK
<1> QED
  BY <1>4, <1>5

LEMMA SendKeeps ==
  ASSUME IInv, NEW r \in Request, Send(r)
  PROVE  IInv'
<1> DEFINE i == req[r].id
           h == [req[r] EXCEPT !.pc = "complete"]
<1>1. req[r].pc = "send" /\ req[r].pc \in AtWork /\ Become(r, h)
  BY DEF Send, AtWork
<1>2. i \in RowId \ withdrawn /\ rows[i].status \in Gone
  BY <1>1, Worker
<1>3. Follows(rows, rows) /\ rows \in [RowId -> Row]
  BY DEF Follows, Becomes, IInv, TypeOK
<1>4. h \in Handler /\ Sound(h, rows, withdrawn) /\ \A j : Runs(req[r], j) => Runs(h, j)
  BY <1>1, <1>2, <1>3, StaysAtWork
<1>5. UNCHANGED <<rows, notes, now, spent>>
  BY DEF Send
<1>6. ran' \in [RowId -> 0 .. 2] /\ \A j \in RowId \ {i} : ran'[j] = ran[j]
  <2>1. ran' = [ran EXCEPT ![i] = IF ran[i] = 2 THEN 2 ELSE ran[i] + 1] /\ ran \in [RowId -> 0 .. 2]
    BY DEF Send, IInv, TypeOK
  <2> QED
    BY <1>2, <2>1
<1>7. sentText' \in [RowId -> Nat]
  <2>1. req[r].row.payload.text \in Nat
    BY Facts DEF Handler, Row, Payload
  <2> QED
    BY <2>1 DEF Send, IInv, TypeOK
<1>8. Unsent(rows', ran')
  BY <1>2, <1>5, <1>6 DEF IInv, Unsent, Gone
<1>9. Withheld(rows', ran', withdrawn')
  BY <1>2, <1>5, <1>6 DEF IInv, TypeOK, Withheld, notes
<1> HIDE DEF h, i
<1>10. Follows(rows, rows') /\ Sound(h, rows', withdrawn')
  BY <1>3, <1>4, <1>5 DEF notes
<1> QED
  BY <1>1, <1>4, <1>5, <1>6, <1>7, <1>8, <1>9, <1>10, OneMoves DEF IInv, TypeOK, notes

LEMMA CompleteKeeps ==
  ASSUME IInv, NEW r \in Request, Complete(r) \/ Fail(r)
  PROVE  IInv'
<1> DEFINE i == req[r].id
           h == NextRow(req[r], "look")
<1>1. PICK s \in {"completed", "failed"} : rows' = [rows EXCEPT ![i].status = s]
  BY DEF Complete, Fail, Verdict
<1>2. req[r].pc \in {"complete", "fail"} /\ req[r].pc \in AtWork /\ Become(r, h)
  BY DEF Complete, Fail, At, AtWork
<1>3. /\ i \in RowId \ withdrawn /\ rows[i] \in Row /\ rows[i].status \in Gone
      /\ req[r].kind = "drain" \/ req[r].list = NoList
      /\ \A j : Runs(req[r], j) => j = i
  BY <1>2, Worker
<1>4. h \in Handler /\ Sound(h, rows', withdrawn)
  BY <1>3, GoesOn, Facts
<1> DEFINE e == [rows[i] EXCEPT !.status = s]
<1>5. rows' = [rows EXCEPT ![i] = e]
  BY <1>1
<1>6. e \in Row /\ e.status = s /\ Becomes(rows[i], e)
  BY <1>3 DEF Row, Becomes, Drafts, Gone
<1>7. /\ confirmed' \in [RowId -> Nat] /\ reminders' \in [RowId -> 0 .. 2]
      /\ UNCHANGED <<ran, sentText, withdrawn, now, spent>>
  BY DEF Complete, Fail, sends, notes, IInv, TypeOK
<1>8. /\ e.status \notin {"none", "scheduled", "running"}
      /\ i \in RowId /\ i \notin withdrawn
      /\ \A j \in RowId : Runs(req[r], j) => j = i
  BY <1>3, <1>6
<1> HIDE DEF h, i, e
<1> QED
  BY <1>2, <1>4, <1>5, <1>6, <1>7, <1>8, RowMoves

LEMMA WriteReminderKeeps ==
  ASSUME IInv, NEW r \in Request, WriteReminder(r)
  PROVE  IInv'
<1>1. req[r] \in Handler /\ req[r].kind = "remind" /\ req[r].pc = "write"
  BY Facts DEF WriteReminder, At
<1>2. PICK i \in RowId :
        /\ IF Has(i, "scheduled") THEN WritePayload(i, Noted(req[r].list[i].payload)) ELSE UNCHANGED rows
        /\ reminders' = [reminders EXCEPT ![i] = IF @ = 2 THEN 2 ELSE @ + 1]
        /\ Become(r, NextRow(Without(req[r], i), "write"))
  BY DEF WriteReminder
<1> DEFINE g == Without(req[r], i)
           h == NextRow(g, "write")
<1>3. g \in Handler /\ g.kind = "remind"
  BY <1>1, Kinds DEF Without, Handler
<1> HIDE DEF g
<1>4. Become(r, h) /\ h \in Handler /\ Sound(h, rows, withdrawn) /\ Sound(h, rows', withdrawn)
  BY <1>2, <1>3, GoesOn DEF g
<1>5. reminders' \in [RowId -> 0 .. 2]
  <2>1. reminders' = [reminders EXCEPT ![i] = IF reminders[i] = 2 THEN 2 ELSE reminders[i] + 1]
        /\ reminders \in [RowId -> 0 .. 2]
    BY <1>2 DEF IInv, TypeOK
  <2> QED
    BY <2>1
<1>6. confirmed' \in [RowId -> Nat] /\ UNCHANGED <<ran, sentText, withdrawn, now, spent>>
  BY DEF WriteReminder, sends, IInv, TypeOK
<1>7. \A j : ~ Runs(req[r], j)
  BY <1>1 DEF Runs, AtWork
<1> HIDE DEF h
<1>8. CASE rows[i].status = "scheduled"
  <2> DEFINE e == [rows[i] EXCEPT !.payload = Noted(req[r].list[i].payload)]
  <2>1. rows' = [rows EXCEPT ![i] = e]
    BY <1>2, <1>8 DEF Has, WritePayload
  <2>2. e \in Row /\ e.status = "scheduled"
    <3>1. req[r].list[i] \in Row /\ rows[i] \in Row
      BY <1>1, Facts DEF Handler
    <3> QED
      BY <1>8, <3>1 DEF Row, Payload, Noted
  <2>3. Becomes(rows[i], e) /\ i \notin withdrawn
    BY <1>8, <2>2, Facts DEF Becomes, Drafts, Gone
  <2> HIDE DEF e
  <2> QED
    BY <1>4, <1>5, <1>6, <1>7, <1>8, <2>1, <2>2, <2>3, RowMoves
<1>9. CASE rows[i].status # "scheduled"
  <2>1. UNCHANGED rows
    BY <1>2, <1>9 DEF Has
  <2>2. Follows(rows, rows')
    BY <2>1 DEF Follows, Becomes
  <2> QED
    BY <1>4, <1>5, <1>6, <1>7, <2>1, <2>2, OneMoves DEF IInv, TypeOK
<1> QED
  BY <1>8, <1>9

LEMMA ThrownIs ==
  ASSUME IInv, NEW r \in Request
  PROVE  /\ Thrown(req[r]) \in Handler /\ Sound(Thrown(req[r]), rows, withdrawn)
         /\ req[r].pc = "send" =>
              \A j \in RowId : Under(rows, j) /\ Runs(req[r], j) => Runs(Thrown(req[r]), j)
<1>1. CASE req[r].kind = "drain" /\ req[r].pc \in {"send", "complete"}
  <2>1. req[r].pc \in AtWork /\ req[r].pc # "claim" /\ Thrown(req[r]) = [req[r] EXCEPT !.pc = "fail"]
    BY <1>1 DEF AtWork, Thrown
  <2>2. Follows(rows, rows) /\ rows \in [RowId -> Row]
    BY DEF Follows, Becomes, IInv, TypeOK
  <2>3. rows[req[r].id].status \in Gone
    BY <2>1, Worker
  <2> QED
    BY <2>1, <2>2, <2>3, StaysAtWork
<1>2. CASE ~ (req[r].kind = "drain" /\ req[r].pc \in {"send", "complete"})
  <2>1. Thrown(req[r]) = Idle
    BY <1>2 DEF Thrown
  <2>2. ASSUME req[r].pc = "send", NEW j \in RowId, Under(rows, j), Runs(req[r], j) PROVE FALSE
    <3>1. req[r].pc \in AtWork /\ req[r].kind # "drain" /\ req[r].id = j
      BY <1>2, <2>2 DEF AtWork, Runs
    <3>2. rows[j].scheduleAt = 0
      BY <3>1, Worker
    <3> QED
      BY <2>2, <3>2 DEF Under
  <2> QED
    BY <2>1, <2>2, Kinds
<1> QED
  BY <1>1, <1>2

LEMMA RefuseKeeps ==
  ASSUME IInv, NEW r \in Request, Refuse(r)
  PROVE  IInv'
<1>1. /\ req[r].pc = "send" /\ Become(r, Thrown(req[r])) /\ UNCHANGED <<rows, sends, notes, now>>
      /\ spent' = [spent EXCEPT !.refusals = @ + 1]
  BY DEF Refuse
<1>2. spent \in Counters
  BY DEF IInv, TypeOK
<1>3. spent' \in Counters /\ spent'.failures = spent.failures
  BY <1>1, <1>2 DEF Counters
<1> QED
  BY <1>1, <1>3, ThrownIs, MovesOnly

LEMMA CallThrowsKeeps ==
  ASSUME IInv, NEW r \in Request, CallThrows(r)
  PROVE  IInv'
<1>1. /\ Become(r, Thrown(req[r])) /\ UNCHANGED <<rows, sends, notes, now>>
      /\ spent' = [spent EXCEPT !.failures = @ + 1]
  BY DEF CallThrows, Throw
<1>2. spent \in Counters
  BY DEF IInv, TypeOK
<1>3. spent' \in Counters /\ spent'.failures # 0
  BY <1>1, <1>2 DEF Counters
<1> QED
  BY <1>1, <1>3, ThrownIs, MovesOnly

LEMMA CrashKeeps ==
  ASSUME IInv, Crash
  PROVE  IInv'
<1>1. /\ req' = [r \in Request |-> Idle] /\ UNCHANGED <<rows, sends, notes, now>>
      /\ spent' = [spent EXCEPT !.failures = @ + 1]
  BY DEF Crash, Throw
<1>2. spent \in Counters
  BY DEF IInv, TypeOK
<1>3. spent' \in Counters /\ spent'.failures # 0
  BY <1>1, <1>2 DEF Counters
<1>4. \A r \in Request : req'[r] \in Handler /\ Sound(req'[r], rows', withdrawn')
  BY <1>1, Kinds
<1>5. TypeOK'
  BY <1>1, <1>3, <1>4 DEF IInv, TypeOK, sends, notes
<1> QED
  BY <1>1, <1>3, <1>4, <1>5 DEF IInv, sends, notes

-----------------------------------------------------------------------------
(* Theorems *)

LEMMA InitIInv == Init => IInv
<1> SUFFICES ASSUME Init PROVE IInv
  OBVIOUS
<1>1. \A r \in Request : req[r] = Idle
  BY DEF Init
<1>2. rows \in [RowId -> Row] /\ \A i \in RowId : rows[i].status = "none"
  BY Kinds DEF Init, NoList, NoRow
<1>3. spent \in Counters
  BY DEF Init, Counters
<1>4. TypeOK
  BY <1>2, <1>3, Kinds DEF Init, TypeOK
<1> QED
  BY <1>1, <1>2, <1>4, Kinds DEF IInv, Init, Unsent, Withheld, Under

LEMMA Inductive == IInv /\ [Next]_vars => IInv'
<1> SUFFICES ASSUME IInv, [Next]_vars PROVE IInv'
  OBVIOUS
<1>1. ASSUME NEW r \in Request, Start(r) \/ Drains(r) PROVE IInv'
  BY <1>1, StartKeeps, DrainCalls
<1>2. ASSUME NEW r \in Request, Step(r) PROVE IInv'
  BY <1>2, SaveDraftKeeps, DeleteDraftKeeps, LookUpKeeps, InsertKeeps, WritesKeep, WriteCancelKeeps,
     LookKeeps, ClaimKeeps, SendKeeps, RefuseKeeps, CompleteKeeps, WriteReminderKeeps DEF Step
<1>3. ASSUME Tick PROVE IInv'
  <2>1. now' \in Nat /\ UNCHANGED <<rows, sends, notes, req, spent>>
    BY <1>3 DEF Tick, IInv, TypeOK
  <2> QED
    BY <2>1 DEF IInv, TypeOK, sends, notes
<1>4. CASE UNCHANGED vars
  BY <1>4 DEF vars, IInv, TypeOK
<1> QED
  BY <1>1, <1>2, <1>3, <1>4, CallThrowsKeeps, CrashKeeps DEF Next

-----------------------------------------------------------------------------
(* Without overlap the entity in memory is the row.  What a row e says then   *)
(* agrees with what has gone out: n times, the text s last, after the edit c  *)
(* and with m reminders.  A row that has a reference and a time has it alone.  *)

RowFits(e, n, s, c, m) ==
  /\ e.status \in Drafts \union {"none"} => e.scheduleAt = 0 /\ n = 0 /\ c = 0 /\ m = 0
  /\ e.status = "scheduled" => e.scheduleAt > 0 /\ n = 0 /\ (m > 0 => e.payload.reminded)
  /\ n <= 1 /\ m <= 1
  /\ n > 0 => s = e.payload.text
  /\ c > 0 => c = e.payload.text

Claims(e, ref) == e.scheduleAt > 0 /\ e.payload.ref = ref /\ ref # NoRef

Table(t, n, s, c, m) ==
  /\ \A i \in RowId : RowFits(t[i], n[i], s[i], c[i], m[i])
  /\ \A i, j \in RowId : \A ref : Claims(t[i], ref) /\ Claims(t[j], ref) => i = j

(* What the handler h may do next fits the rows t that have gone out n times *)
(* and have m reminders.                                                     *)
InHand(h, t, n, m) ==
  /\ h.kind = "edit" => h.row.scheduleAt = 0
  /\ h.kind \in {"draft", "create", "resend"} /\ h.row.status = "scheduled" => h.row.scheduleAt > 0
  /\ h.pc = "insert" => \A i \in RowId : \A ref : Claims(h.row, ref) => ~ Claims(t[i], ref)
  /\ h.pc = "write" /\ h.kind \in {"tags", "content"} => t[h.id] = h.row
  /\ h.pc = "write" /\ h.kind \in {"content", "reschedule"} => t[h.id].status = "scheduled"
  /\ h.pc = "write" /\ h.kind = "reschedule"
       => /\ h.row.scheduleAt > 0
          /\ h.row.payload.ref = t[h.id].payload.ref /\ h.row.payload.text = t[h.id].payload.text
  /\ h.pc \in {"claim", "send"} => n[h.id] = 0 /\ h.row.payload = t[h.id].payload
  /\ h.kind = "remind" => \A i \in Left(h) : h.list[i] = t[i] /\ t[i].status = "scheduled" /\ m[i] = 0

AInv ==
  Serial =>
    /\ Table(rows, ran, sentText, confirmed, reminders)
    /\ \A r \in Request : InHand(req[r], rows, ran, reminders)
    /\ \A q, r \in Request : q = r \/ req[q] = Idle \/ req[r] = Idle

LEMMA IdleInHand == \A t, n, m : InHand(Idle, t, n, m)
<1>1. Idle.kind = "none" /\ Idle.pc = "idle"
  BY DEF Idle
<1> QED
  BY <1>1 DEF InHand

\* A handler that works works alone.
LEMMA Sole ==
  ASSUME IInv, AInv, Serial, NEW r \in Request, req[r] # Idle
  PROVE  /\ Table(rows, ran, sentText, confirmed, reminders)
         /\ InHand(req[r], rows, ran, reminders)
         /\ \A q \in Request \ {r} : req[q] = Idle
BY DEF AInv

LEMMA SoleMoves ==
  ASSUME IInv, NEW r \in Request, NEW h, Become(r, h),
         \A q \in Request \ {r} : req[q] = Idle,
         Table(rows', ran', sentText', confirmed', reminders'),
         InHand(h, rows', ran', reminders')
  PROVE  AInv'
<1>1. req'[r] = h /\ \A q \in Request \ {r} : req'[q] = Idle
  BY DEF IInv, TypeOK, Become
<1>2. \A q \in Request : InHand(req'[q], rows', ran', reminders')
  BY <1>1, IdleInHand
<1> QED
  BY <1>1, <1>2 DEF AInv

\* One row is written, or its mail counted.
LEMMA RowFitsAgain ==
  ASSUME IInv, Table(rows, ran, sentText, confirmed, reminders), NEW i \in RowId,
         \A j \in RowId \ {i} : /\ rows'[j] = rows[j] /\ ran'[j] = ran[j] /\ sentText'[j] = sentText[j]
                                /\ confirmed'[j] = confirmed[j] /\ reminders'[j] = reminders[j],
         RowFits(rows'[i], ran'[i], sentText'[i], confirmed'[i], reminders'[i]),
         \A ref : Claims(rows'[i], ref) =>
           Claims(rows[i], ref) \/ \A j \in RowId : ~ Claims(rows[j], ref)
  PROVE  Table(rows', ran', sentText', confirmed', reminders')
<1>1. \A j \in RowId : RowFits(rows'[j], ran'[j], sentText'[j], confirmed'[j], reminders'[j])
  BY DEF Table
<1>2. ASSUME NEW j \in RowId, NEW k \in RowId, NEW ref, Claims(rows'[j], ref), Claims(rows'[k], ref)
      PROVE  j = k
  BY <1>2 DEF Table
<1> QED
  BY <1>1, <1>2 DEF Table

-----------------------------------------------------------------------------
(* What begins *)

LEMMA BeginAlone ==
  ASSUME IInv, AInv, NEW r \in Request, NEW h, NEW call \in BOOLEAN, Begin(r, h, call),
         Serial => InHand(h, rows, ran, reminders)
  PROVE  AInv'
<1> SUFFICES ASSUME Serial' PROVE AInv'
  BY DEF AInv
<1>1. spent \in Counters
  BY DEF IInv, TypeOK
<1>2. spent' = [spent EXCEPT !.overlaps = IF Overlaps(r) THEN spent.overlaps + 1 ELSE spent.overlaps,
                             !.calls = IF call THEN spent.calls + 1 ELSE spent.calls]
  BY DEF Begin
<1>3. spent'.overlaps = IF Overlaps(r) THEN spent.overlaps + 1 ELSE spent.overlaps
  BY <1>1, <1>2 DEF Counters
<1>4. ~ Overlaps(r) /\ Serial
  BY <1>1, <1>3 DEF Serial, Counters
<1>5. Become(r, h) /\ UNCHANGED <<rows, sends, notes>>
  BY DEF Begin
<1>6. \A q \in Request \ {r} : req[q] = Idle
  BY <1>4 DEF Overlaps
<1>7. Table(rows, ran, sentText, confirmed, reminders) /\ InHand(h, rows, ran, reminders)
  BY <1>4 DEF AInv
<1> QED
  BY <1>5, <1>6, <1>7, SoleMoves DEF sends, notes

LEMMA CreatesAlone ==
  ASSUME NEW t \in Nat, NEW p \in Payload, TypeOK
  PROVE  /\ Campaign(t, p).status = "scheduled" => Campaign(t, p).scheduleAt > 0
         /\ InHand(Creating(Campaign(t, p)), rows, ran, reminders)
<1> DEFINE e == Campaign(t, p)
<1>1. e \in Row /\ e.scheduleAt = t /\ e.payload = p /\ (e.status = "scheduled" => t # 0)
  BY Kinds DEF Campaign, NoRow, Row
<1>2. PICK pc \in {"insert", "lookup"} :
        Creating(e) = Making("create", pc, e) /\ (pc = "insert" => p.ref = NoRef)
  BY <1>1 DEF Creating
<1> HIDE DEF e
<1>3. /\ Creating(e).kind = "create" /\ Creating(e).pc = pc /\ Creating(e).row = e
  BY <1>1, <1>2, Beginners
<1>4. InHand(Creating(e), rows, ran, reminders)
  BY <1>1, <1>2, <1>3 DEF InHand, Claims
<1> QED
  BY <1>1, <1>4 DEF e

LEMMA StartAlone ==
  ASSUME IInv, AInv, NEW r \in Request, Start(r)
  PROVE  AInv'
<1> USE DEF Call
<1>1. Time \subseteq Nat /\ \A w \in Wish : Fresh(w) \in Payload
  BY Creates
<1>2. ASSUME NEW i \in RowId
      PROVE  /\ rows[i] \in Row /\ rows[i].payload \in Payload
             /\ [rows[i].payload EXCEPT !.reminded = FALSE] \in Payload
             /\ Serial => RowFits(rows[i], ran[i], sentText[i], confirmed[i], reminders[i])
  <2>1. rows[i] \in Row
    BY DEF IInv, TypeOK
  <2>2. rows[i].payload \in Payload /\ [rows[i].payload EXCEPT !.reminded = FALSE] \in Payload
    BY <2>1 DEF Row, Payload
  <2>3. Serial => RowFits(rows[i], ran[i], sentText[i], confirmed[i], reminders[i])
    BY DEF AInv, Table
  <2> QED
    BY <2>1, <2>2, <2>3
<1>3. ASSUME NEW p \in Payload, NewDraft(r, p) PROVE AInv'
  <2> DEFINE e == [NoRow EXCEPT !.status = "draft", !.payload = p]
  <2>1. e \in Row /\ e.scheduleAt = 0
    BY Kinds DEF Row, NoRow
  <2>2. Begin(r, Making("edit", "save", e), TRUE)
    BY <1>3 DEF NewDraft
  <2> HIDE DEF e
  <2>3. InHand(Making("edit", "save", e), rows, ran, reminders)
    BY <2>1, Beginners DEF IInv, InHand
  <2> QED
    BY <2>2, <2>3, BeginAlone
<1>4. ASSUME NEW i \in RowId, NEW p \in Payload, EditDraft(r, i, p) PROVE AInv'
  <2> DEFINE f == Found("edit", "save", i)
             h == [f EXCEPT !.row.payload = p]
  <2>1. f \in Handler /\ f.kind = "edit" /\ f.pc = "save" /\ f.row = rows[i]
    BY Beginners DEF IInv
  <2>2. Begin(r, h, TRUE) /\ rows[i].status = "draft"
    BY <1>4 DEF EditDraft, Has
  <2> HIDE DEF f
  <2>3. h.kind = "edit" /\ h.pc = "save" /\ h.row.scheduleAt = rows[i].scheduleAt
    BY <1>2, <2>1 DEF Handler, Row
  <2> HIDE DEF h
  <2>4. Serial => InHand(h, rows, ran, reminders)
    BY <1>2, <2>2, <2>3 DEF InHand, RowFits, Drafts
  <2> QED
    BY <2>2, <2>4, BeginAlone
<1>5. ASSUME NEW i \in RowId, NEW t \in Nat, SendDraft(r, i, t) PROVE AInv'
  <2> DEFINE f == Found("draft", "delete", i)
             e == Campaign(t, rows[i].payload)
             h == [f EXCEPT !.row = e]
  <2>1. f \in Handler /\ f.kind = "draft" /\ f.pc = "delete"
    BY Beginners DEF IInv
  <2>2. Begin(r, h, TRUE)
    BY <1>5 DEF SendDraft
  <2>3. e.status = "scheduled" => e.scheduleAt > 0
    BY <1>2, CreatesAlone DEF IInv
  <2> HIDE DEF f, e
  <2>4. h.kind = "draft" /\ h.pc = "delete" /\ h.row = e
    BY <2>1 DEF Handler
  <2> HIDE DEF h
  <2>5. InHand(h, rows, ran, reminders)
    BY <2>3, <2>4 DEF InHand
  <2> QED
    BY <2>2, <2>5, BeginAlone
<1>6. ASSUME NEW t \in Nat, NEW p \in Payload, Create(r, t, p) PROVE AInv'
  BY <1>6, CreatesAlone, BeginAlone DEF Create, IInv
<1>7. ASSUME NEW i \in RowId, NEW t \in Nat, Clone(r, i, t) PROVE AInv'
  BY <1>2, <1>6, <1>7 DEF Clone
<1>8. ASSUME NEW i \in RowId, Resend(r, i) \/ ResendFailed(r, i) PROVE AInv'
  <2>1. PICK p \in Payload : Begin(r, Making("resend", "insert", Campaign(0, p)), TRUE)
    BY <1>2, <1>8 DEF Resend, ResendFailed
  <2>2. Campaign(0, p) \in Row /\ Campaign(0, p).scheduleAt = 0 /\ Campaign(0, p).status = "running"
    BY Kinds DEF Campaign, NoRow, Row
  <2>3. InHand(Making("resend", "insert", Campaign(0, p)), rows, ran, reminders)
    BY <2>2, Beginners DEF IInv, InHand, Claims
  <2> QED
    BY <2>1, <2>3, BeginAlone
<1>9. ASSUME NEW i \in RowId, Tags(r, i) \/ CancelScheduled(r, i) PROVE AInv'
  <2>1. PICK k \in {"tags", "cancel"} : Begin(r, Found(k, "write", i), TRUE)
    BY <1>9 DEF Tags, CancelScheduled
  <2>2. InHand(Found(k, "write", i), rows, ran, reminders)
    BY Beginners DEF IInv, InHand
  <2> QED
    BY <2>1, <2>2, BeginAlone
<1>10. ASSUME NEW i \in RowId, Content(r, i) PROVE AInv'
  <2> DEFINE f == Found("content", "write", i)
             h == [f EXCEPT !.text = NewText]
  <2>1. f \in Handler /\ f.kind = "content" /\ f.pc = "write" /\ f.id = i /\ f.row = rows[i]
    BY Beginners DEF IInv
  <2>2. Begin(r, h, TRUE) /\ rows[i].status = "scheduled"
    BY <1>10 DEF Content, Has
  <2> HIDE DEF f
  <2>3. h.kind = "content" /\ h.pc = "write" /\ h.id = i /\ h.row = rows[i]
    BY <2>1 DEF Handler
  <2> HIDE DEF h
  <2>4. InHand(h, rows, ran, reminders)
    BY <2>2, <2>3 DEF InHand
  <2> QED
    BY <2>2, <2>4, BeginAlone
<1>11. ASSUME NEW i \in RowId, NEW t \in Nat, Reschedule(r, i, t) PROVE AInv'
  <2> DEFINE f == Found("reschedule", "write", i)
             e == Rescheduled(rows[i], t)
             h == [f EXCEPT !.row = e]
  <2>1. f \in Handler /\ f.kind = "reschedule" /\ f.pc = "write" /\ f.id = i
    BY Beginners DEF IInv
  <2>2. Begin(r, h, TRUE) /\ rows[i].status = "scheduled" /\ t > 0
    BY <1>11 DEF Reschedule, Has
  <2>3. /\ e.scheduleAt = t /\ e.payload.ref = rows[i].payload.ref
        /\ e.payload.text = rows[i].payload.text
    BY <1>2 DEF Rescheduled, Row, Payload
  <2> HIDE DEF f, e
  <2>4. h.kind = "reschedule" /\ h.pc = "write" /\ h.id = i /\ h.row = e
    BY <2>1 DEF Handler
  <2> HIDE DEF h
  <2>5. InHand(h, rows, ran, reminders)
    BY <2>2, <2>3, <2>4 DEF InHand
  <2> QED
    BY <2>2, <2>5, BeginAlone
<1> QED
  BY <1>1, <1>3, <1>4, <1>5, <1>6, <1>7, <1>8, <1>9, <1>10, <1>11 DEF Start

LEMMA DrainAlone ==
  ASSUME IInv, AInv, NEW r \in Request, Drains(r)
  PROVE  AInv'
<1>1. ASSUME NEW S \in SUBSET RowId, NEW k \in {"drain", "remind"}, NEW pc \in {"look", "write"},
             DrainOf(r, k, pc, S), k = "drain" => pc = "look",
             k = "remind" => \A i \in S : Has(i, "scheduled") /\ ~ rows[i].payload.reminded
      PROVE  AInv'
  <2> DEFINE l == [i \in RowId |-> IF i \in S THEN rows[i] ELSE NoRow]
             h == [Idle EXCEPT !.kind = k, !.pc = pc, !.list = l]
  <2>1. Begin(r, h, FALSE)
    BY <1>1 DEF DrainOf
  <2>2. h.kind = k /\ h.pc = pc /\ h.list = l
    BY DEF Idle
  <2>3. \A i \in Left(h) : i \in S /\ h.list[i] = rows[i]
    BY <2>2 DEF Left
  <2> HIDE DEF h, l
  <2>4. Serial /\ k = "remind" => \A i \in Left(h) : rows[i].status = "scheduled" /\ reminders[i] = 0
    <3> SUFFICES ASSUME Serial, k = "remind", NEW i \in Left(h)
                 PROVE  rows[i].status = "scheduled" /\ reminders[i] = 0
      OBVIOUS
    <3>1. i \in RowId /\ reminders[i] \in 0 .. 2
      BY DEF Left, IInv, TypeOK
    <3> QED
      BY <1>1, <2>3, <3>1 DEF AInv, Table, RowFits, Has
  <2>5. Serial => InHand(h, rows, ran, reminders)
    BY <1>1, <2>2, <2>3, <2>4 DEF InHand
  <2> QED
    BY <2>1, <2>5, BeginAlone
<1>2. DrainScheduled(r) => AInv'
  BY <1>1 DEF DrainScheduled
<1>3. DrainReminders(r) => AInv'
  BY <1>1 DEF DrainReminders
<1> QED
  BY <1>2, <1>3 DEF Drains

-----------------------------------------------------------------------------
(* What goes on, with Fits: all that is known of the sole handler and the rows *)

Fits(h) ==
  /\ Table(rows, ran, sentText, confirmed, reminders)
  /\ InHand(h, rows, ran, reminders) /\ Sound(h, rows, withdrawn) /\ h \in Handler

\* The handler works on row i, on which its mail and its history depend.
LEMMA WritesRow ==
  ASSUME IInv, NEW r \in Request, NEW h, Become(r, h), \A q \in Request \ {r} : req[q] = Idle,
         Fits(req[r]), NEW i \in RowId, NEW e \in Row, rows' = [rows EXCEPT ![i] = e],
         UNCHANGED <<ran, sentText>>,
         \A j \in RowId \ {i} : confirmed'[j] = confirmed[j] /\ reminders'[j] = reminders[j],
         RowFits(e, ran[i], sentText[i], confirmed'[i], reminders'[i]),
         \A ref : Claims(e, ref) => Claims(rows[i], ref) \/ \A j \in RowId : ~ Claims(rows[j], ref),
         rows'[i] = e => InHand(h, rows', ran, reminders')
  PROVE  AInv'
<1>1. rows'[i] = e /\ \A j \in RowId \ {i} : rows'[j] = rows[j]
  BY DEF IInv, TypeOK
<1>2. Table(rows', ran', sentText', confirmed', reminders')
  BY <1>1, RowFitsAgain DEF Fits
<1> QED
  BY <1>1, <1>2, SoleMoves

LEMMA SaveAndDeleteAlone ==
  ASSUME IInv, NEW r \in Request, \A q \in Request \ {r} : req[q] = Idle, Fits(req[r])
  PROVE  /\ SaveDraft(r) => AInv'
         /\ DeleteDraft(r) => AInv'
<1> DEFINE i == req[r].id
<1>1. \A j \in RowId : rows[j] \in Row /\ RowFits(rows[j], ran[j], sentText[j], confirmed[j], reminders[j])
  BY DEF IInv, TypeOK, Fits, Table
<1>2. ASSUME SaveDraft(r) PROVE AInv'
  <2> DEFINE e == req[r].row
  <2>1. /\ e \in Row /\ e.status = "draft" /\ e.scheduleAt = 0
        /\ i # 0 => i \in RowId /\ rows[i].status \in Drafts
    BY <1>2 DEF SaveDraft, At, Fits, InHand, Sound, Handler
  <2>2. PICK j \in RowId : /\ rows' = [rows EXCEPT ![j] = e]
                           /\ rows[j].status \in Drafts \union {"none"}
    BY <1>2, <2>1 DEF SaveDraft, Free, Has
  <2>3. ran[j] = 0 /\ confirmed[j] = 0 /\ reminders[j] = 0
    BY <1>1, <2>2 DEF RowFits
  <2>4. RowFits(e, ran[j], sentText[j], confirmed[j], reminders[j])
    BY <2>1, <2>3 DEF RowFits, Drafts
  <2>5. Become(r, Idle) /\ UNCHANGED <<ran, sentText, confirmed, reminders>>
    BY <1>2 DEF SaveDraft, End, sends, notes
  <2>6. \A ref : ~ Claims(e, ref)
    BY <2>1 DEF Claims
  <2> HIDE DEF e, i
  <2> QED
    BY <2>1, <2>2, <2>4, <2>5, <2>6, IdleInHand, WritesRow
<1>3. ASSUME DeleteDraft(r) PROVE AInv'
  <2> DEFINE e == [rows[i] EXCEPT !.status = "deleted"]
             h == IF Valid(req[r].row) THEN Creating(req[r].row) ELSE Idle
  <2>1. /\ i \in RowId /\ rows[i].status \in Drafts /\ req[r].row \in Row /\ MayBegin(req[r].row)
        /\ req[r].row.status = "scheduled" => req[r].row.scheduleAt > 0
    BY <1>3 DEF DeleteDraft, At, Fits, InHand, Sound, Handler, RowId
  <2>2. rows' = [rows EXCEPT ![i] = e] /\ e \in Row /\ e.status = "deleted"
        /\ e.scheduleAt = rows[i].scheduleAt /\ e.payload = rows[i].payload
    BY <1>1, <1>3, <2>1 DEF DeleteDraft, Row
  <2>3. RowFits(e, ran[i], sentText[i], confirmed[i], reminders[i])
    BY <1>1, <2>1, <2>2 DEF RowFits, Drafts
  <2>4. \A ref : Claims(e, ref) => Claims(rows[i], ref)
    BY <2>2 DEF Claims
  <2>5. Become(r, h) /\ UNCHANGED <<ran, sentText, confirmed, reminders>>
    BY <1>3 DEF DeleteDraft, sends, notes
  <2>6. InHand(h, rows', ran, reminders)
    <3>1. CASE Valid(req[r].row)
      <4>1. PICK pc \in {"insert", "lookup"} :
              /\ Creating(req[r].row) = Making("create", pc, req[r].row)
              /\ pc = "insert" => req[r].row.payload.ref = NoRef
        BY DEF Creating
      <4>2. /\ Making("create", pc, req[r].row).kind = "create"
            /\ Making("create", pc, req[r].row).pc = pc
            /\ Making("create", pc, req[r].row).row = req[r].row
        BY <2>1, Beginners DEF IInv
      <4> QED
        BY <2>1, <3>1, <4>1, <4>2 DEF InHand, Claims
    <3>2. CASE ~ Valid(req[r].row)
      BY <3>2, IdleInHand
    <3> QED
      BY <3>1, <3>2
  <2> HIDE DEF e, h, i
  <2> QED
    BY <2>1, <2>2, <2>3, <2>4, <2>5, <2>6, WritesRow
<1> QED
  BY <1>2, <1>3

LEMMA CreateAlone ==
  ASSUME IInv, NEW r \in Request, \A q \in Request \ {r} : req[q] = Idle, Fits(req[r])
  PROVE  /\ LookUp(r) => AInv'
         /\ Insert(r) => AInv'
<1> DEFINE e == req[r].row
<1>1. \A j \in RowId : rows[j] \in Row /\ RowFits(rows[j], ran[j], sentText[j], confirmed[j], reminders[j])
  BY DEF IInv, TypeOK, Fits, Table
<1>2. ASSUME LookUp(r) PROVE AInv'
  <2> DEFINE h == IF Known(e.payload.ref) THEN Idle ELSE [req[r] EXCEPT !.pc = "insert"]
  <2>1. req[r] \in Handler /\ req[r].kind = "create" /\ req[r].pc = "lookup"
    BY <1>2 DEF LookUp, At, Fits
  <2>2. CASE Known(e.payload.ref)
    BY <2>2, IdleInHand, <1>2, SoleMoves DEF LookUp, Fits, sends, notes
  <2>3. CASE ~ Known(e.payload.ref)
    <3> DEFINE g == [req[r] EXCEPT !.pc = "insert"]
    <3>1. g.kind = "create" /\ g.pc = "insert" /\ g.row = e
      BY <2>1 DEF Handler
    <3>2. Become(r, g) /\ UNCHANGED <<rows, ran, sentText, confirmed, reminders>>
      BY <1>2, <2>3 DEF LookUp, sends, notes
    <3> HIDE DEF g
    <3>3. \A i \in RowId : \A ref : Claims(e, ref) => ~ Claims(rows[i], ref)
      BY <1>1, <2>3 DEF Known, Has, Claims, RowFits, Drafts
    <3>4. InHand(g, rows, ran, reminders)
      BY <2>1, <3>1, <3>3 DEF InHand, Fits
    <3> QED
      BY <3>2, <3>4, SoleMoves DEF Fits
  <2> QED
    BY <2>2, <2>3
<1>3. ASSUME Insert(r) PROVE AInv'
  <2>1. /\ req[r] \in Handler /\ req[r].pc = "insert" /\ req[r].kind \in {"create", "resend"}
        /\ e \in Row /\ MayBegin(e) /\ (e.status = "scheduled" => e.scheduleAt > 0)
        /\ req[r].list = NoList
        /\ \A j \in RowId : \A ref : Claims(e, ref) => ~ Claims(rows[j], ref)
    BY <1>3 DEF Insert, Fits, Sound, InHand, Handler
  <2>2. PICK i \in RowId :
          /\ Free(i) /\ rows' = [rows EXCEPT ![i] = e]
          /\ Become(r, IF e.status = "scheduled" THEN Idle ELSE [req[r] EXCEPT !.pc = "send", !.id = i])
    BY <1>3, Zenon DEF Insert
  <2>3. ran[i] = 0 /\ confirmed[i] = 0 /\ reminders[i] = 0
    BY <1>1, <2>2 DEF Free, Has, RowFits
  <2>4. RowFits(e, ran[i], sentText[i], confirmed[i], reminders[i])
    BY <2>1, <2>3 DEF RowFits, MayBegin, Drafts
  <2>5. UNCHANGED <<ran, sentText, confirmed, reminders>>
    BY <1>3 DEF Insert, sends, notes
  <2> DEFINE g == [req[r] EXCEPT !.pc = "send", !.id = i]
  <2>6. g.kind = req[r].kind /\ g.pc = "send" /\ g.id = i /\ g.row = e
    BY <2>1 DEF Handler
  <2> HIDE DEF e, g
  <2>7. rows'[i] = e => InHand(g, rows', ran, reminders)
    BY <2>1, <2>3, <2>6 DEF InHand
  <2>8. CASE e.status = "scheduled"
    BY <2>1, <2>2, <2>4, <2>5, <2>8, IdleInHand, WritesRow
  <2>9. CASE e.status # "scheduled"
    <3>1. Become(r, g)
      BY <2>2, <2>9 DEF g
    <3> QED
      BY <2>1, <2>2, <2>4, <2>5, <2>7, <3>1, WritesRow
  <2> QED
    BY <2>8, <2>9
<1> QED
  BY <1>2, <1>3

LEMMA WritesAlone ==
  ASSUME IInv, NEW r \in Request, \A q \in Request \ {r} : req[q] = Idle, Fits(req[r])
  PROVE  /\ WriteTags(r) => AInv'
         /\ WriteContent(r) => AInv'
         /\ WriteCancel(r) => AInv'
         /\ WriteReschedule(r) => AInv'
<1> DEFINE i == req[r].id
<1>1. \A j \in RowId : rows[j] \in Row /\ RowFits(rows[j], ran[j], sentText[j], confirmed[j], reminders[j])
  BY DEF IInv, TypeOK, Fits, Table
<1>2. req[r] \in Handler /\ req[r].row \in Row /\ req[r].text \in Nat
      /\ (req[r].pc = "write" /\ req[r].kind # "remind" => i \in RowId)
  BY DEF Fits, Handler, Sound
\* The writer ends, and its row claims no reference that it has not had.
<1>3. ASSUME i \in RowId, NEW e \in Row, rows' = [rows EXCEPT ![i] = e], End(r),
             UNCHANGED <<ran, sentText>>,
             \A j \in RowId \ {i} : confirmed'[j] = confirmed[j] /\ reminders'[j] = reminders[j],
             RowFits(e, ran[i], sentText[i], confirmed'[i], reminders'[i]),
             \A ref : Claims(e, ref) => Claims(rows[i], ref)
      PROVE  AInv'
  <2>1. Become(r, Idle)
    BY <1>3 DEF End
  <2> HIDE DEF i
  <2> QED
    BY <1>3, <2>1, IdleInHand, WritesRow
\* The writer ends, and all is as it was.
<1>4. ASSUME End(r), UNCHANGED <<rows, ran, sentText, confirmed, reminders>>
      PROVE  AInv'
  BY <1>4, IdleInHand, SoleMoves DEF End, Fits
<1>5. ASSUME WriteTags(r) PROVE AInv'
  <2>1. i \in RowId /\ rows[i] = req[r].row /\ End(r)
    BY <1>2, <1>5 DEF WriteTags, At, Fits, InHand
  <2>2. rows' = rows
    BY <1>1, <1>5, <2>1 DEF WriteTags, WritePayload, IInv, TypeOK, Row
  <2> QED
    BY <1>4, <1>5, <2>1, <2>2 DEF WriteTags, sends, notes
<1>6. ASSUME WriteContent(r) PROVE AInv'
  <2> DEFINE e == [rows[i] EXCEPT !.payload = Patched(req[r].row.payload, req[r].text)]
  <2>1. i \in RowId /\ rows[i] = req[r].row /\ rows[i].status = "scheduled" /\ End(r)
    BY <1>2, <1>6 DEF WriteContent, At, Fits, InHand
  <2>2. rows' = [rows EXCEPT ![i] = e] /\ confirmed' = [confirmed EXCEPT ![i] = req[r].text]
        /\ UNCHANGED <<ran, sentText, reminders>>
    BY <1>6, <2>1 DEF WriteContent, WritePayload, Has, sends
  <2>3. rows[i].payload \in Payload
    BY <1>1, <2>1 DEF Row
  <2>4. /\ e \in Row /\ e.status = "scheduled" /\ e.scheduleAt = rows[i].scheduleAt
        /\ e.payload.text = req[r].text /\ e.payload.reminded = rows[i].payload.reminded
        /\ e.payload.ref = rows[i].payload.ref
    BY <1>1, <1>2, <2>1, <2>3 DEF Row, Payload, Patched
  <2> HIDE DEF e, i
  <2>5. confirmed'[i] = req[r].text /\ \A j \in RowId \ {i} : confirmed'[j] = confirmed[j]
    BY <2>1, <2>2 DEF IInv, TypeOK
  <2>6. RowFits(e, ran[i], sentText[i], confirmed'[i], reminders'[i])
    BY <1>1, <2>1, <2>2, <2>4, <2>5 DEF RowFits, Drafts
  <2>7. \A ref : Claims(e, ref) => Claims(rows[i], ref)
    BY <2>4 DEF Claims
  <2> QED
    BY <1>3, <2>1, <2>2, <2>4, <2>5, <2>6, <2>7 DEF i
<1>7. ASSUME WriteCancel(r) PROVE AInv'
  <2> DEFINE e == [rows[i] EXCEPT !.status = "cancelled"]
  <2>1. i \in RowId /\ End(r) /\ UNCHANGED <<ran, sentText, confirmed, reminders>>
    BY <1>2, <1>7 DEF WriteCancel, At, sends
  <2>2. CASE rows[i].status = "scheduled"
    <3>1. rows' = [rows EXCEPT ![i] = e]
      BY <1>7, <2>2 DEF WriteCancel, Has
    <3>2. e \in Row /\ e.status = "cancelled" /\ e.scheduleAt = rows[i].scheduleAt
          /\ e.payload = rows[i].payload
      BY <1>1, <2>1 DEF Row
    <3> HIDE DEF e, i
    <3>3. RowFits(e, ran[i], sentText[i], confirmed[i], reminders[i])
      BY <1>1, <2>1, <2>2, <3>2 DEF RowFits, Drafts
    <3>4. \A ref : Claims(e, ref) => Claims(rows[i], ref)
      BY <3>2 DEF Claims
    <3> QED
      BY <1>3, <2>1, <3>1, <3>2, <3>3, <3>4 DEF i
  <2>3. CASE rows[i].status # "scheduled"
    BY <1>4, <1>7, <2>1, <2>3 DEF WriteCancel, Has
  <2> QED
    BY <2>2, <2>3
<1>8. ASSUME WriteReschedule(r) PROVE AInv'
  <2> DEFINE e == [rows[i] EXCEPT !.scheduleAt = req[r].row.scheduleAt, !.payload = req[r].row.payload]
  <2>1. /\ i \in RowId /\ rows[i].status = "scheduled" /\ End(r) /\ req[r].row.scheduleAt > 0
        /\ req[r].row.payload.ref = rows[i].payload.ref /\ req[r].row.payload.text = rows[i].payload.text
    BY <1>2, <1>8 DEF WriteReschedule, At, Fits, InHand
  <2>2. rows' = [rows EXCEPT ![i] = e] /\ reminders' = [reminders EXCEPT ![i] = 0]
        /\ UNCHANGED <<ran, sentText, confirmed>>
    BY <1>8, <2>1 DEF WriteReschedule, Has, sends
  <2>3. e \in Row /\ e.status = "scheduled" /\ e.scheduleAt > 0 /\ e.payload = req[r].row.payload
    BY <1>1, <1>2, <2>1 DEF Row
  <2> HIDE DEF e, i
  <2>4. reminders'[i] = 0 /\ \A j \in RowId \ {i} : reminders'[j] = reminders[j]
    BY <2>1, <2>2 DEF IInv, TypeOK
  <2>5. RowFits(e, ran[i], sentText[i], confirmed'[i], reminders'[i])
    BY <1>1, <2>1, <2>2, <2>3, <2>4 DEF RowFits, Drafts
  <2>6. rows[i].scheduleAt > 0
    BY <1>1, <2>1 DEF RowFits
  <2>7. \A ref : Claims(e, ref) => Claims(rows[i], ref)
    BY <2>1, <2>3, <2>6 DEF Claims
  <2> QED
    BY <1>3, <2>1, <2>2, <2>3, <2>4, <2>5, <2>7 DEF i
<1> QED
  BY <1>5, <1>6, <1>7, <1>8

\* A handler that goes on to look for another row holds nothing.
LEMMA NextRowInHand ==
  ASSUME NEW h, NEW pc \in {"look", "write"}, NEW t, NEW n, NEW m,
         h.kind = "remind" =>
           \A i \in Left(h) : h.list[i] = t[i] /\ t[i].status = "scheduled" /\ m[i] = 0,
         h.kind \in {"drain", "remind"} \/ Left(h) = {}, h.kind = "drain" => pc = "look"
  PROVE  InHand(NextRow(h, pc), t, n, m)
<1>1. CASE Left(h) = {}
  BY <1>1, IdleInHand DEF NextRow
<1>2. CASE Left(h) # {}
  <2> DEFINE g == NextRow(h, pc)
  <2>1. g.kind = h.kind /\ g.pc = pc /\ g.list = h.list
    BY <1>2 DEF NextRow, Idle
  <2>2. Left(g) = Left(h)
    BY <2>1 DEF Left
  <2> HIDE DEF g
  <2> QED
    BY <1>2, <2>1, <2>2 DEF InHand, g
<1> QED
  BY <1>1, <1>2

LEMMA LookAndClaimAlone ==
  ASSUME IInv, NEW r \in Request, \A q \in Request \ {r} : req[q] = Idle, Fits(req[r])
  PROVE  /\ Look(r) => AInv'
         /\ Claim(r) => AInv'
<1>1. \A j \in RowId : rows[j] \in Row /\ RowFits(rows[j], ran[j], sentText[j], confirmed[j], reminders[j])
  BY DEF IInv, TypeOK, Fits, Table
<1>2. ASSUME NEW g, Become(r, g), InHand(g, rows, ran, reminders), UNCHANGED <<rows, sends, notes>>
      PROVE  AInv'
  BY <1>2, SoleMoves DEF Fits, sends, notes
<1>3. ASSUME Look(r) PROVE AInv'
  <2>1. PICK i \in RowId : Become(r, IF Locked(req[r], i)
                                     THEN [Without(req[r], i) EXCEPT !.pc = "claim", !.id = i, !.row = rows[i]]
                                     ELSE NextRow(Without(req[r], i), "look"))
    BY <1>3 DEF Look
  <2> DEFINE h == Without(req[r], i)
             g == [h EXCEPT !.pc = "claim", !.id = i, !.row = rows[i]]
  <2>2. h \in Handler /\ h.kind = "drain"
    BY <1>3, Kinds DEF Without, Handler, Look, At, Fits
  <2>3. UNCHANGED <<rows, sends, notes>>
    BY <1>3 DEF Look
  <2> HIDE DEF h
  <2>4. CASE Locked(req[r], i)
    <3>1. g.kind = "drain" /\ g.pc = "claim" /\ g.id = i /\ g.row = rows[i]
      BY <2>2 DEF Handler
    <3>2. ran[i] = 0
      BY <1>1, <2>4 DEF Locked, Has, RowFits
    <3>3. Become(r, g)
      BY <2>1, <2>4 DEF h
    <3> HIDE DEF g
    <3>4. InHand(g, rows, ran, reminders)
      BY <3>1, <3>2 DEF InHand
    <3> QED
      BY <1>2, <2>3, <3>3, <3>4
  <2>5. CASE ~ Locked(req[r], i)
    <3>1. Become(r, NextRow(h, "look"))
      BY <2>1, <2>5 DEF h
    <3> QED
      BY <1>2, <2>2, <2>3, <3>1, NextRowInHand
  <2> QED
    BY <2>4, <2>5
<1>4. ASSUME Claim(r) PROVE AInv'
  <2> DEFINE i == req[r].id
             e == [rows[i] EXCEPT !.status = "running"]
             g == [req[r] EXCEPT !.pc = "send"]
  <2>1. /\ i \in RowId /\ ran[i] = 0 /\ req[r].row.payload = rows[i].payload
        /\ req[r] \in Handler /\ req[r].kind = "drain"
    <3>1. req[r].kind = "drain" /\ req[r].pc = "claim" /\ req[r].pc \in AtWork
      BY <1>4 DEF Claim, At, AtWork
    <3>2. req[r] \in Handler /\ i \in RowId
      BY <3>1 DEF Fits, Sound
    <3>3. ran[i] = 0 /\ req[r].row.payload = rows[i].payload
      BY <3>1 DEF Fits, InHand
    <3> QED
      BY <3>1, <3>2, <3>3
  <2>2. g.kind = "drain" /\ g.pc = "send" /\ g.id = i /\ g.row = req[r].row
    BY <2>1 DEF Handler
  <2>3. Become(r, g) /\ UNCHANGED <<sends, notes>>
    BY <1>4 DEF Claim
  <2> HIDE DEF g
  <2>4. CASE rows[i].status = "scheduled"
    <3>1. rows' = [rows EXCEPT ![i] = e]
      BY <1>4, <2>4 DEF Claim, Claimed, Has
    <3>2. e \in Row /\ e.status = "running" /\ e.scheduleAt = rows[i].scheduleAt
          /\ e.payload = rows[i].payload
      BY <1>1, <2>1 DEF Row
    <3> HIDE DEF e, i
    <3>3. RowFits(e, ran[i], sentText[i], confirmed[i], reminders[i])
      BY <1>1, <2>1, <2>4, <3>2 DEF RowFits, Drafts
    <3>4. \A ref : Claims(e, ref) => Claims(rows[i], ref)
      BY <3>2 DEF Claims
    <3>5. rows'[i] = e => InHand(g, rows', ran, reminders)
      BY <2>1, <2>2, <3>2 DEF InHand
    <3> QED
      BY <2>1, <2>3, <3>1, <3>2, <3>3, <3>4, <3>5, WritesRow DEF sends, notes
  <2>5. CASE rows[i].status # "scheduled"
    <3>1. UNCHANGED rows
      BY <1>4, <2>5 DEF Claim, Claimed, Has
    <3>2. InHand(g, rows, ran, reminders)
      BY <2>1, <2>2 DEF InHand
    <3> QED
      BY <1>2, <2>3, <3>1, <3>2
  <2> QED
    BY <2>4, <2>5
<1> QED
  BY <1>3, <1>4

\* Sent, completed, failed: a campaign that runs does so once.
LEMMA RunsAlone ==
  ASSUME IInv, NEW r \in Request, \A q \in Request \ {r} : req[q] = Idle, Fits(req[r])
  PROVE  /\ Send(r) => AInv'
         /\ Complete(r) \/ Fail(r) => AInv'
<1> DEFINE i == req[r].id
<1>1. \A j \in RowId : rows[j] \in Row /\ RowFits(rows[j], ran[j], sentText[j], confirmed[j], reminders[j])
  BY DEF IInv, TypeOK, Fits, Table
<1>2. ASSUME req[r].pc \in {"send", "complete", "fail"}
      PROVE  /\ i \in RowId /\ rows[i].status \in Gone /\ req[r] \in Handler
             /\ req[r].kind \in {"drain", "create", "resend"}
             /\ req[r].kind # "drain" => req[r].list = NoList
  BY <1>2 DEF Fits, Sound, AtWork
<1>3. ASSUME Send(r) PROVE AInv'
  <2> DEFINE g == [req[r] EXCEPT !.pc = "complete"]
  <2>1. /\ req[r].pc = "send" /\ i \in RowId /\ rows[i].status \in Gone /\ req[r] \in Handler
        /\ req[r].kind \in {"drain", "create", "resend"}
        /\ ran[i] = 0 /\ req[r].row.payload = rows[i].payload
    BY <1>2, <1>3 DEF Send, Fits, InHand
  <2>2. Become(r, g) /\ UNCHANGED <<rows, confirmed, reminders>>
    BY <1>3 DEF Send, notes
  <2>3. /\ ran' = [ran EXCEPT ![i] = IF ran[i] = 2 THEN 2 ELSE ran[i] + 1]
        /\ sentText' = [sentText EXCEPT ![i] = req[r].row.payload.text]
        /\ ran \in [RowId -> 0 .. 2] /\ sentText \in [RowId -> Nat]
    BY <1>3 DEF Send, IInv, TypeOK
  <2>4. /\ ran'[i] = 1 /\ sentText'[i] = rows[i].payload.text
        /\ \A j \in RowId \ {i} : ran'[j] = ran[j] /\ sentText'[j] = sentText[j]
    BY <2>1, <2>3
  <2>5. /\ g.kind = req[r].kind /\ g.pc = "complete" /\ g.row = req[r].row
    BY <2>1 DEF Handler
  <2> HIDE DEF g, i
  <2>6. RowFits(rows'[i], ran'[i], sentText'[i], confirmed'[i], reminders'[i])
    BY <1>1, <2>1, <2>2, <2>4 DEF RowFits, Gone, Drafts
  <2>7. Table(rows', ran', sentText', confirmed', reminders')
    BY <2>1, <2>2, <2>4, <2>6, RowFitsAgain DEF Fits
  <2>8. InHand(g, rows', ran', reminders')
    BY <2>1, <2>5 DEF InHand, Fits
  <2> QED
    BY <2>2, <2>7, <2>8, SoleMoves
<1>4. ASSUME Complete(r) \/ Fail(r) PROVE AInv'
  <2>1. PICK s \in {"completed", "failed"} : rows' = [rows EXCEPT ![i].status = s]
    BY <1>4 DEF Complete, Fail, Verdict
  <2>2. req[r].pc \in {"complete", "fail"} /\ Become(r, NextRow(req[r], "look"))
        /\ UNCHANGED <<sends, notes>>
    BY <1>4 DEF Complete, Fail, At
  <2> DEFINE e == [rows[i] EXCEPT !.status = s]
  <2>3. /\ rows' = [rows EXCEPT ![i] = e] /\ e \in Row /\ e.status = s
        /\ e.scheduleAt = rows[i].scheduleAt /\ e.payload = rows[i].payload
    BY <1>1, <1>2, <2>1, <2>2 DEF Row
  <2>4. i \in RowId /\ (req[r].kind = "drain" \/ Left(req[r]) = {}) /\ req[r].kind # "remind"
    BY <1>2, <2>2 DEF Left, NoList
  <2> HIDE DEF e, i
  <2>5. RowFits(e, ran[i], sentText[i], confirmed[i], reminders[i])
    BY <1>1, <1>2, <2>2, <2>3, <2>4 DEF RowFits, Gone, Drafts, i
  <2>6. \A ref : Claims(e, ref) => Claims(rows[i], ref)
    BY <2>3 DEF Claims
  <2>7. InHand(NextRow(req[r], "look"), rows', ran, reminders)
    BY <2>4, NextRowInHand
  <2> QED
    BY <2>2, <2>3, <2>4, <2>5, <2>6, <2>7, WritesRow DEF sends, notes
<1> QED
  BY <1>3, <1>4

LEMMA WriteReminderAlone ==
  ASSUME IInv, NEW r \in Request, \A q \in Request \ {r} : req[q] = Idle, Fits(req[r]),
         WriteReminder(r)
  PROVE  AInv'
<1>1. req[r] \in Handler /\ req[r].kind = "remind" /\ req[r].pc = "write"
  BY DEF WriteReminder, At, Fits
<1>2. PICK i \in RowId :
        /\ Next1(req[r], i)
        /\ IF Has(i, "scheduled") THEN WritePayload(i, Noted(req[r].list[i].payload)) ELSE UNCHANGED rows
        /\ reminders' = [reminders EXCEPT ![i] = IF @ = 2 THEN 2 ELSE @ + 1]
        /\ Become(r, NextRow(Without(req[r], i), "write"))
  BY DEF WriteReminder
<1>3. i \in Left(req[r]) /\ req[r].list[i] = rows[i] /\ rows[i].status = "scheduled" /\ reminders[i] = 0
  BY <1>1, <1>2 DEF Next1, Fits, InHand
<1>4. rows[i] \in Row /\ RowFits(rows[i], ran[i], sentText[i], confirmed[i], reminders[i])
  BY DEF IInv, TypeOK, Fits, Table
<1> DEFINE e == [rows[i] EXCEPT !.payload = Noted(rows[i].payload)]
           g == Without(req[r], i)
<1>5. rows' = [rows EXCEPT ![i] = e]
  BY <1>2, <1>3 DEF Has, WritePayload
<1>6. /\ e \in Row /\ e.status = "scheduled" /\ e.scheduleAt = rows[i].scheduleAt
      /\ e.payload.reminded /\ e.payload.ref = rows[i].payload.ref /\ e.payload.text = rows[i].payload.text
  <2>1. rows[i].payload \in Payload
    BY <1>4 DEF Row
  <2> QED
    BY <1>3, <1>4, <2>1 DEF Row, Payload, Noted
<1>7. reminders'[i] = 1 /\ \A j \in RowId \ {i} : reminders'[j] = reminders[j]
  <2>1. reminders \in [RowId -> 0 .. 2]
        /\ reminders' = [reminders EXCEPT ![i] = IF reminders[i] = 2 THEN 2 ELSE reminders[i] + 1]
    BY <1>2 DEF IInv, TypeOK
  <2> QED
    BY <1>3, <2>1
<1>8. /\ g.kind = "remind" /\ g.list = [req[r].list EXCEPT ![i] = NoRow] /\ req[r].list \in [RowId -> Row]
  BY <1>1 DEF Without, Handler
<1>9. Become(r, NextRow(g, "write")) /\ UNCHANGED <<ran, sentText, confirmed>>
  BY <1>2 DEF WriteReminder, sends
<1> HIDE DEF e, g
<1>10. \A j \in Left(g) : j \in Left(req[r]) /\ j # i /\ g.list[j] = req[r].list[j]
  BY <1>8 DEF Left
<1>11. \A j \in Left(req[r]) : j \in RowId /\ req[r].list[j] = rows[j]
                               /\ rows[j].status = "scheduled" /\ reminders[j] = 0
  BY <1>1 DEF Fits, InHand, Left
<1>12. \A j \in RowId \ {i} : rows'[j] = rows[j]
  BY <1>5 DEF IInv, TypeOK
<1>13. \A j \in Left(g) : g.list[j] = rows'[j] /\ rows'[j].status = "scheduled" /\ reminders'[j] = 0
  BY <1>7, <1>10, <1>11, <1>12
<1>14. InHand(NextRow(g, "write"), rows', ran, reminders')
  BY <1>8, <1>13, NextRowInHand
<1>15. RowFits(e, ran[i], sentText[i], confirmed'[i], reminders'[i])
  BY <1>3, <1>4, <1>6, <1>7, <1>9 DEF RowFits, Drafts
<1>16. \A ref : Claims(e, ref) => Claims(rows[i], ref)
  BY <1>6 DEF Claims
<1> QED
  BY <1>5, <1>6, <1>7, <1>9, <1>14, <1>15, <1>16, WritesRow

\* A call throws: what is left to do is to note the failure.
LEMMA ThrownAlone ==
  ASSUME IInv, NEW r \in Request, \A q \in Request \ {r} : req[q] = Idle, Fits(req[r]),
         Become(r, Thrown(req[r])), UNCHANGED <<rows, sends, notes>>
  PROVE  AInv'
<1>1. InHand(Thrown(req[r]), rows, ran, reminders)
  <2>1. CASE req[r].kind = "drain" /\ req[r].pc \in {"send", "complete"}
    <3> DEFINE g == [req[r] EXCEPT !.pc = "fail"]
    <3>1. g.kind = "drain" /\ g.pc = "fail"
      BY <2>1 DEF Fits, Handler
    <3>2. Thrown(req[r]) = g
      BY <2>1 DEF Thrown
    <3> HIDE DEF g
    <3> QED
      BY <3>1, <3>2 DEF InHand
  <2>2. CASE ~ (req[r].kind = "drain" /\ req[r].pc \in {"send", "complete"})
    BY <2>2, IdleInHand DEF Thrown
  <2> QED
    BY <2>1, <2>2
<1> QED
  BY <1>1, SoleMoves DEF Fits, sends, notes

LEMMA InitAlone == Init => AInv
<1> SUFFICES ASSUME Init PROVE AInv
  OBVIOUS
<1>1. \A i \in RowId : rows[i] = NoRow /\ ran[i] = 0 /\ confirmed[i] = 0 /\ reminders[i] = 0
  BY DEF Init, NoList
<1>2. NoRow.status = "none" /\ NoRow.scheduleAt = 0
  BY DEF NoRow
<1>3. Table(rows, ran, sentText, confirmed, reminders)
  BY <1>1, <1>2 DEF Table, RowFits, Claims, Drafts
<1> QED
  BY <1>3, IdleInHand DEF Init, AInv

LEMMA InductiveAlone == IInv /\ AInv /\ [Next]_vars => AInv'
<1> SUFFICES ASSUME IInv, AInv, [Next]_vars PROVE AInv'
  OBVIOUS
<1>1. ASSUME NEW r \in Request, req[r] # Idle, Serial
      PROVE  Fits(req[r]) /\ \A q \in Request \ {r} : req[q] = Idle
  BY <1>1, Sole, Facts DEF Fits
<1>2. ASSUME NEW r \in Request, Step(r) PROVE AInv'
  <2>1. req[r] # Idle
    <3>1. Idle.pc = "idle"
      BY DEF Idle
    <3>2. SaveDraft(r) \/ DeleteDraft(r) \/ LookUp(r) \/ Insert(r) => req[r].pc # "idle"
      BY DEF SaveDraft, DeleteDraft, LookUp, Insert, At
    <3>3. WriteTags(r) \/ WriteContent(r) \/ WriteCancel(r) \/ WriteReschedule(r) \/ WriteReminder(r)
            => req[r].pc # "idle"
      BY DEF WriteTags, WriteContent, WriteCancel, WriteReschedule, WriteReminder, At
    <3>4. Look(r) \/ Claim(r) \/ Send(r) \/ Refuse(r) \/ Complete(r) \/ Fail(r) => req[r].pc # "idle"
      BY DEF Look, Claim, Send, Refuse, Complete, Fail, At
    <3> QED
      BY <1>2, <3>1, <3>2, <3>3, <3>4 DEF Step
  <2>2. spent'.overlaps = spent.overlaps
    <3>1. Refuse(r) => spent'.overlaps = spent.overlaps
      BY DEF Refuse, IInv, TypeOK, Counters
    <3>2. SaveDraft(r) \/ DeleteDraft(r) \/ LookUp(r) \/ Insert(r) => UNCHANGED spent
      BY DEF SaveDraft, DeleteDraft, LookUp, Insert
    <3>3. WriteTags(r) \/ WriteContent(r) \/ WriteCancel(r) \/ WriteReschedule(r) \/ WriteReminder(r)
            => UNCHANGED spent
      BY DEF WriteTags, WriteContent, WriteCancel, WriteReschedule, WriteReminder
    <3>4. Look(r) \/ Claim(r) \/ Send(r) \/ Complete(r) \/ Fail(r) => UNCHANGED spent
      BY DEF Look, Claim, Send, Complete, Fail
    <3> QED
      BY <1>2, <3>1, <3>2, <3>3, <3>4 DEF Step
  <2>3. CASE ~ Serial
    BY <2>2, <2>3 DEF AInv, Serial
  <2>4. CASE Serial
    <3>1. Fits(req[r]) /\ \A q \in Request \ {r} : req[q] = Idle
      BY <1>1, <2>1, <2>4
    <3>2. Refuse(r) => AInv'
      BY <3>1, ThrownAlone DEF Refuse
    <3> QED
      BY <1>2, <3>1, <3>2, SaveAndDeleteAlone, CreateAlone, WritesAlone, LookAndClaimAlone, RunsAlone,
         WriteReminderAlone DEF Step
  <2> QED
    BY <2>3, <2>4
<1>3. ASSUME NEW r \in Request, CallThrows(r) PROVE AInv'
  <2>1. req[r] # Idle /\ Become(r, Thrown(req[r])) /\ UNCHANGED <<rows, sends, notes>>
        /\ spent'.overlaps = spent.overlaps
    BY <1>3 DEF CallThrows, Throw, IInv, TypeOK, Counters
  <2>2. CASE ~ Serial
    BY <2>1, <2>2 DEF AInv, Serial
  <2>3. CASE Serial
    BY <1>1, <2>1, <2>3, ThrownAlone
  <2> QED
    BY <2>2, <2>3
<1>4. ASSUME Crash PROVE AInv'
  <2>1. /\ req' = [r \in Request |-> Idle] /\ UNCHANGED <<rows, sends, notes>>
        /\ spent'.overlaps = spent.overlaps
    BY <1>4 DEF Crash, Throw, IInv, TypeOK, Counters
  <2> QED
    BY <2>1, IdleInHand DEF AInv, Serial, sends, notes
<1>5. Tick \/ UNCHANGED vars => UNCHANGED <<rows, sends, notes, req, spent>>
  BY DEF Tick, vars, sends, notes
<1>6. UNCHANGED <<rows, sends, notes, req, spent>> => AInv'
  BY DEF AInv, Serial, sends, notes
<1> QED
  BY <1>2, <1>3, <1>4, <1>5, <1>6, StartAlone, DrainAlone DEF Next

-----------------------------------------------------------------------------
(* What holds of the posts, however their handlers overlap.  A handler's copy *)
(* may be old; but a copy that can go out was let through when it was read,   *)
(* and a post is never withdrawn while somebody holds a copy.                 *)

Shown == {"SCHEDULED", "APPROVED"}
Out == {"PUBLISHING", "PUBLISHED"}

HoldsPost(h, i) == h.id = i \/ h.list[i] # Posts!NoPost
Sends(h, i) == h.id = i /\ h.pc = "channel"

\* Where approvals are asked for (s), handler h has one for what it saves and sends.
Allowed(h, c, s) ==
  s.ownerApprovalRequired =>
    /\ (h.pc = "save" /\ h.post.status \in Shown) \/ h.pc = "begin" =>
         h.clears = "now" \/ c[h.id] # "never"
    /\ h.pc = "channel" => c[h.id] # "never"
    /\ \A i \in PostId : h.list[i] # Posts!NoPost => c[i] # "never"

PostSound(h, n, c, x, s) ==
  /\ h.pc # "idle" => h.id \in PostId
  /\ h.pc = "save" => h.post.status \notin Out
  /\ h.pc = "begin" => h.post.status = "PUBLISHING"
  /\ h.pc = "channel" /\ ~ h.errors => \A k \in h.post.platforms \ h.left : n[h.id][k] > 0
  /\ Allowed(h, c, s)
  /\ \A i \in x : ~ HoldsPost(h, i)

RowsHold(t, n, c, x, s) ==
  /\ \A i \in PostId : t[i].status = "PUBLISHED" => \A k \in t[i].platforms : n[i][k] > 0
  /\ s.ownerApprovalRequired => \A i \in PostId : t[i].status \in Shown => c[i] # "never"
  /\ \A i \in x : t[i].status \in {"CANCELLED", "deleted"}

\* As long as handlers do not overlap: the copies are what the rows are.
AllowedAlone(h, c, s) ==
  s.ownerApprovalRequired =>
    /\ (h.pc = "save" /\ h.post.status \in Shown) \/ h.pc = "begin" =>
         h.clears = "now" \/ (h.clears = "never" /\ c[h.id] = "now")
    /\ h.pc = "channel" => c[h.id] = "now"
    /\ \A i \in PostId : h.list[i] # Posts!NoPost => c[i] = "now"

SoundAlone(h, t, w, c, s) ==
  /\ h.pc \in {"save", "delete"} => t[h.id].status \in Posts!Editable
  /\ h.pc = "begin" => t[h.id].status \in Posts!Publishable
  /\ h.pc = "channel" => t[h.id].status = "PUBLISHING"
  /\ h.pc = "channel" /\ ~ h.errors =>
       \A k \in h.post.platforms \ h.left : w[h.id][k] = h.post.text
  /\ AllowedAlone(h, c, s)
  /\ \A i \in PostId : h.list[i] # Posts!NoPost => t[i].status = "SCHEDULED" /\ i # h.id

RowsAlone(t, w, c, s) ==
  /\ \A i \in PostId : t[i].status = "PUBLISHED" => \A k \in t[i].platforms : w[i][k] = t[i].text
  /\ s.ownerApprovalRequired => \A i \in PostId : t[i].status \in Shown => c[i] = "now"

\* And no channel has refused a post.
Once(t, n) == \A i \in PostId, k \in Channel : n[i][k] <= 1 /\ (n[i][k] > 0 => t[i].status \in Out)
Unrefused(h, n) == ~ h.errors /\ (h.pc = "channel" => \A k \in h.left : n[h.id][k] = 0)

Alike == used.overlaps = 0 =>
  /\ \A r, q \in Request : r # q => working[r] = Posts!Idle \/ working[q] = Posts!Idle
  /\ RowsAlone(posts, went, cleared, settings)
  /\ \A r \in Request : SoundAlone(working[r], posts, went, cleared, settings)
  /\ used.refusals = 0 => Once(posts, posted) /\ \A r \in Request : Unrefused(working[r], posted)

PostInv ==
  /\ Posts!TypeOK
  /\ RowsHold(posts, posted, cleared, retracted, settings)
  /\ \A r \in Request : PostSound(working[r], posted, cleared, retracted, settings)
  /\ used.failures = 0 =>
       \A i \in PostId : posts[i].status = "PUBLISHING" => \E r \in Request : Sends(working[r], i)
  /\ Alike

-----------------------------------------------------------------------------
(* Shapes *)

LEMMA PostKinds ==
  /\ Posts!NoPost \in Posts!Post /\ Posts!NoList \in [PostId -> Posts!Post] /\ Posts!Idle \in Posts!Handler
  /\ Posts!NoPost.platforms = {} /\ Posts!Idle.list = Posts!NoList /\ Posts!Idle.pc = "idle" /\ Posts!Idle.id = 0
  /\ \A n, c, s : \A x \in SUBSET PostId : PostSound(Posts!Idle, n, c, x, s)
  /\ \A t, w, c, s : SoundAlone(Posts!Idle, t, w, c, s)
  /\ \A n : Unrefused(Posts!Idle, n)
  /\ \A i \in PostId : ~ Sends(Posts!Idle, i)
<1>1. Posts!NoPost \in Posts!Post /\ Posts!NoPost.platforms = {}
  BY DEF Posts!NoPost, Posts!Post, Posts!Status
<1>2. Posts!NoList \in [PostId -> Posts!Post] /\ \A i \in PostId : Posts!NoList[i] = Posts!NoPost
  BY <1>1 DEF Posts!NoList
<1>3. Posts!Idle \in Posts!Handler /\ Posts!Idle.list = Posts!NoList /\ Posts!Idle.pc = "idle" /\ Posts!Idle.id = 0 /\ Posts!Idle.errors = FALSE
  BY <1>1, <1>2 DEF Posts!Idle, Posts!Handler, Posts!Clearance
<1>4. ASSUME NEW n, NEW c, NEW s, NEW x \in SUBSET PostId PROVE PostSound(Posts!Idle, n, c, x, s)
  <2>1. \A i \in x : ~ HoldsPost(Posts!Idle, i)
    BY <1>2, <1>3, PostAssumption DEF HoldsPost
  <2>2. Allowed(Posts!Idle, c, s)
    BY <1>2, <1>3 DEF Allowed
  <2> QED
    BY <1>3, <2>1, <2>2 DEF PostSound
<1>5. \A t, w, c, s : SoundAlone(Posts!Idle, t, w, c, s)
  BY <1>2, <1>3 DEF SoundAlone, AllowedAlone
<1>6. \A n : Unrefused(Posts!Idle, n)
  BY <1>3 DEF Unrefused
<1>7. \A i \in PostId : ~ Sends(Posts!Idle, i)
  BY <1>3 DEF Sends
<1> QED
  BY <1>1, <1>2, <1>3, <1>4, <1>5, <1>6, <1>7

-----------------------------------------------------------------------------
(* One handler moves: the invariant asks only of it, and of the rows it has   *)
(* written.                                                                   *)

\* What is said of n and c stays true of m and d.
Grown(n, m) == \A i \in PostId : \A k \in Channel : n[i][k] > 0 => m[i][k] > 0
StillCleared(c, d) == \A i \in PostId : c[i] # "never" => d[i] # "never"

LEMMA SoundStill ==
  ASSUME NEW h \in Posts!Handler, NEW n, NEW m, NEW c, NEW d, NEW x, NEW y, NEW s,
         PostSound(h, n, c, x, s), Grown(n, m), StillCleared(c, d),
         \A i \in y : i \in x \/ ~ HoldsPost(h, i)
  PROVE  PostSound(h, m, d, y, s)
<1>1. h.post.platforms \subseteq Channel
  BY DEF Posts!Handler, Posts!Post
<1>2. Allowed(h, d, s)
  BY DEF PostSound, Allowed, StillCleared
<1>3. ASSUME h.pc = "channel", ~ h.errors, NEW k \in h.post.platforms \ h.left
      PROVE  m[h.id][k] > 0
  BY <1>1, <1>3 DEF PostSound, Grown
<1>4. \A i \in y : ~ HoldsPost(h, i)
  BY DEF PostSound
<1> QED
  BY <1>2, <1>3, <1>4 DEF PostSound

LEMMA OneHandlerMoves ==
  ASSUME PostInv, NEW r \in Request, NEW h \in Posts!Handler, Posts!Become(r, h),
         PostSound(h, posted', cleared', retracted', settings),
         RowsHold(posts', posted', cleared', retracted', settings),
         posts' \in [PostId -> Posts!Post], posted' \in [PostId -> [Channel -> 0 .. 2]],
         went' \in [PostId -> [Channel -> Nat]], cleared' \in [PostId -> Posts!Clearance],
         retracted' \subseteq PostId, used' \in Posts!Counters,
         settings' = settings, clock' = clock, limit' = limit,
         Grown(posted, posted'), StillCleared(cleared, cleared'),
         \A i \in retracted' : i \in retracted \/ \A q \in Request \ {r} : ~ HoldsPost(working[q], i),
         used'.failures = 0 =>
           /\ used.failures = 0
           /\ \A i \in PostId : posts'[i].status = "PUBLISHING" =>
                Sends(h, i) \/ (posts[i].status = "PUBLISHING" /\ ~ Sends(working[r], i)),
         used'.overlaps = 0 =>
           /\ \A q \in Request \ {r} : working[q] = Posts!Idle
           /\ RowsAlone(posts', went', cleared', settings)
           /\ SoundAlone(h, posts', went', cleared', settings)
           /\ used'.refusals = 0 => Once(posts', posted') /\ Unrefused(h, posted')
  PROVE  PostInv'
<1>1. working' \in [Request -> Posts!Handler] /\ working'[r] = h /\ \A q \in Request \ {r} : working'[q] = working[q]
  BY DEF PostInv, Posts!TypeOK, Posts!Become
<1>2. Posts!TypeOK'
  BY <1>1 DEF PostInv, Posts!TypeOK
<1>3. RowsHold(posts, posted, cleared, retracted, settings)'
  OBVIOUS
<1>4. ASSUME NEW q \in Request PROVE PostSound(working'[q], posted', cleared', retracted', settings')
  <2>1. CASE q = r
    BY <1>1, <2>1
  <2>2. CASE q # r
    <3>1. working[q] \in Posts!Handler /\ PostSound(working[q], posted, cleared, retracted, settings)
      BY DEF PostInv, Posts!TypeOK
    <3>2. \A i \in retracted' : i \in retracted \/ ~ HoldsPost(working[q], i)
      BY <2>2
    <3>3. PostSound(working[q], posted', cleared', retracted', settings)
      BY <3>1, <3>2, SoundStill
    <3> QED
      BY <1>1, <2>2, <3>3
  <2> QED
    BY <2>1, <2>2
<1>5. ASSUME used'.failures = 0, NEW i \in PostId, posts'[i].status = "PUBLISHING"
      PROVE  \E q \in Request : Sends(working'[q], i)
  <2>1. CASE Sends(h, i)
    BY <1>1, <2>1
  <2>2. CASE posts[i].status = "PUBLISHING" /\ ~ Sends(working[r], i)
    <3>1. PICK q \in Request : Sends(working[q], i)
      BY <1>5, <2>2 DEF PostInv
    <3> QED
      BY <1>1, <2>2, <3>1
  <2> QED
    BY <1>5, <2>1, <2>2
<1>6. Alike'
  <2> SUFFICES ASSUME used'.overlaps = 0
               PROVE  /\ \A p, q \in Request : p # q => working'[p] = Posts!Idle \/ working'[q] = Posts!Idle
                      /\ RowsAlone(posts', went', cleared', settings')
                      /\ \A q \in Request : SoundAlone(working'[q], posts', went', cleared', settings')
                      /\ used'.refusals = 0 =>
                           Once(posts', posted') /\ \A q \in Request : Unrefused(working'[q], posted')
    BY DEF Alike
  <2>1. \A q \in Request \ {r} : working'[q] = Posts!Idle
    BY <1>1
  <2>2. ASSUME NEW q \in Request
        PROVE  /\ SoundAlone(working'[q], posts', went', cleared', settings')
               /\ used'.refusals = 0 => Unrefused(working'[q], posted')
    BY <1>1, <2>1, PostKinds
  <2> QED
    BY <2>1, <2>2
<1> QED
  BY <1>2, <1>3, <1>4, <1>5, <1>6 DEF PostInv

-----------------------------------------------------------------------------
(* Handlers that begin *)

Still == UNCHANGED <<posts, settings, Posts!channels, cleared, retracted, clock, limit>>

LEMMA HandlerBegins ==
  ASSUME PostInv, NEW r \in Request, NEW n \in Nat, NEW h \in Posts!Handler,
         Posts!Begins(r, n), Posts!Become(r, h), Still,
         h.pc # "channel", ~ h.errors,
         PostSound(h, posted, cleared, retracted, settings),
         used.overlaps = 0 => SoundAlone(h, posts, went, cleared, settings)
  PROVE  PostInv'
<1>1. /\ posts' = posts /\ settings' = settings /\ posted' = posted /\ went' = went
      /\ cleared' = cleared /\ retracted' = retracted /\ clock' = clock /\ limit' = limit
  BY DEF Still, Posts!channels
<1>2. used' \in Posts!Counters /\ used'.failures = used.failures /\ used'.refusals = used.refusals
      /\ used'.overlaps = IF Posts!Overlaps(r) THEN used.overlaps + 1 ELSE used.overlaps
  <2>1. /\ used \in Posts!Counters /\ used.calls \in Nat /\ used.overlaps \in Nat
        /\ used.failures \in Nat /\ used.refusals \in Nat
    BY DEF PostInv, Posts!TypeOK, Posts!Counters
  <2>2. PICK o : o = IF Posts!Overlaps(r) THEN used.overlaps + 1 ELSE used.overlaps
    OBVIOUS
  <2>3. o \in Nat /\ used.calls + n \in Nat
    BY <2>1, <2>2
  <2>4. used' = [used EXCEPT !.calls = used.calls + n, !.overlaps = o]
    BY <2>2 DEF Posts!Begins
  <2> QED
    BY <2>1, <2>2, <2>3, <2>4 DEF Posts!Counters
<1>3. Grown(posted, posted) /\ StillCleared(cleared, cleared)
  BY DEF Grown, StillCleared
<1>4. \A i \in PostId : ~ Sends(working[r], i)
  BY PostKinds DEF Posts!Begins
<1>5. ASSUME used'.overlaps = 0
      PROVE  /\ used.overlaps = 0 /\ \A q \in Request \ {r} : working[q] = Posts!Idle
  <2>1. used.overlaps \in Nat
    BY DEF PostInv, Posts!TypeOK, Posts!Counters
  <2> QED
    BY <1>2, <1>5, <2>1 DEF Posts!Overlaps
<1>6. used.overlaps = 0 =>
        /\ RowsAlone(posts, went, cleared, settings)
        /\ used.refusals = 0 => Once(posts, posted) /\ Unrefused(h, posted)
  BY DEF PostInv, Alike, Unrefused
<1>7. RowsHold(posts, posted, cleared, retracted, settings)
  BY DEF PostInv
<1>8. Posts!TypeOK
  BY DEF PostInv
<1> QED
  BY <1>1, <1>2, <1>3, <1>4, <1>5, <1>6, <1>7, <1>8, OneHandlerMoves DEF Posts!TypeOK

\* A call has read a post that may be edited, and holds e, to be saved or, as it is, deleted.
LEMMA CallBegins ==
  ASSUME PostInv, NEW r \in Request, NEW i \in PostId, NEW e \in Posts!Post, NEW k \in Posts!Clearance,
         NEW pc \in {"save", "delete"},
         posts[i].status \in Posts!Editable, e.status \notin Out,
         settings.ownerApprovalRequired /\ e.status \in Shown =>
           k = "now" \/ (k = "never" /\ posts[i].status \in Shown),
         Posts!Begins(r, 1), Still,
         NEW h \in Posts!Handler, Posts!Become(r, h),
         h.pc = pc, h.id = i, h.post = e, h.clears = k, h.list = Posts!NoList, ~ h.errors
  PROVE  PostInv'
<1>1. i \notin retracted
  BY DEF PostInv, RowsHold, Posts!Editable
<1>2. \A j \in PostId : h.list[j] = Posts!NoPost
  BY DEF Posts!NoList
<1>3. settings.ownerApprovalRequired /\ posts[i].status \in Shown =>
        cleared[i] # "never" /\ (used.overlaps = 0 => cleared[i] = "now")
  BY DEF PostInv, RowsHold, Alike, RowsAlone
<1>4. \A j \in retracted : ~ HoldsPost(h, j)
  BY <1>1, <1>2 DEF PostInv, Posts!TypeOK, HoldsPost
<1>5. PostSound(h, posted, cleared, retracted, settings)
  BY <1>2, <1>3, <1>4 DEF PostSound, Allowed
<1>6. used.overlaps = 0 => SoundAlone(h, posts, went, cleared, settings)
  BY <1>2, <1>3 DEF SoundAlone, AllowedAlone
<1>7. h.pc # "channel" /\ ~ h.errors
  OBVIOUS
<1> QED
  BY <1>5, <1>6, <1>7, HandlerBegins

LEMMA HoldingIs ==
  ASSUME NEW i \in PostId, NEW e \in Posts!Post, NEW k \in Posts!Clearance
  PROVE  /\ Posts!Holding(i, e, k) \in Posts!Handler
         /\ Posts!Holding(i, e, k).pc = "save" /\ Posts!Holding(i, e, k).id = i /\ Posts!Holding(i, e, k).post = e
         /\ Posts!Holding(i, e, k).clears = k /\ Posts!Holding(i, e, k).list = Posts!NoList
         /\ ~ Posts!Holding(i, e, k).errors
<1>1. Posts!Idle \in Posts!Handler /\ Posts!Idle.errors = FALSE /\ Posts!Idle.list = Posts!NoList
  BY PostKinds DEF Posts!Idle
<1> QED
  BY <1>1 DEF Posts!Holding, Posts!Handler

LEMMA BegunKeeps ==
  ASSUME PostInv, NEW r \in Request, NEW i \in PostId, NEW e \in Posts!Post, NEW k \in Posts!Clearance,
         posts[i].status \in Posts!Editable, e.status \notin Out,
         settings.ownerApprovalRequired /\ e.status \in Shown =>
           k = "now" \/ (k = "never" /\ posts[i].status \in Shown),
         Posts!Begun(r, i, e, k), Still
  PROVE  PostInv'
<1>1. PICK h : h = Posts!Holding(i, e, k)
  OBVIOUS
<1>2. /\ h \in Posts!Handler /\ h.pc = "save" /\ h.id = i /\ h.post = e /\ h.clears = k
      /\ h.list = Posts!NoList /\ ~ h.errors
  BY <1>1, HoldingIs
<1>3. Posts!Begins(r, 1) /\ Posts!Become(r, h)
  BY <1>1 DEF Posts!Begun
<1> QED
  BY <1>2, <1>3, CallBegins

LEMMA ThePost ==
  ASSUME PostInv, NEW i \in PostId
  PROVE  /\ posts[i] \in Posts!Post /\ posts[i].status \in Posts!Status /\ posts[i].platforms \subseteq Channel
         /\ used.calls \in Nat /\ used.calls + 1 \in Nat
         /\ posts[i].text \in Nat /\ posts[i].scheduledAt \in Nat /\ clock \in Nat
         /\ limit.time \in Nat
  BY PostAssumption DEF PostInv, Posts!TypeOK, Posts!Post, Posts!Counters

LEMMA EditTextKeeps ==
  ASSUME PostInv, NEW r \in Request, NEW i \in PostId, Posts!EditText(r, i), Still
  PROVE  PostInv'
<1>1. PICK e : e = [posts[i] EXCEPT !.text = used.calls + 1]
  OBVIOUS
<1>2. e \in Posts!Post /\ e.status = posts[i].status
  BY <1>1, ThePost DEF Posts!Post
<1>3. posts[i].status \in Posts!Editable /\ Posts!Begun(r, i, e, "never")
  BY <1>1 DEF Posts!EditText
<1>4. e.status \notin Out
  BY <1>2, <1>3 DEF Posts!Editable, Out
<1>5. "never" \in Posts!Clearance
  BY DEF Posts!Clearance
<1> QED
  BY <1>2, <1>3, <1>4, <1>5, BegunKeeps

LEMMA RescheduleKeeps ==
  ASSUME PostInv, NEW r \in Request, NEW i \in PostId, NEW who \in Posts!Role, NEW t \in 0 .. limit.time,
         Posts!Reschedule(r, i, who, t), Still
  PROVE  PostInv'
<1>1. PICK text \in {posts[i].text, used.calls + 1} :
        Posts!Begun(r, i, [posts[i] EXCEPT !.text = text, !.scheduledAt = t, !.status = Posts!Rescheduled(who, t)],
              IF who = "admin" THEN "now" ELSE "before")
  BY DEF Posts!Reschedule
<1>2. PICK s : s = Posts!Rescheduled(who, t)
  OBVIOUS
<1>3. s \in {"DRAFT", "PENDING_APPROVAL", "SCHEDULED", "APPROVED"}
      /\ (settings.ownerApprovalRequired /\ s \in Shown => who = "admin")
  BY <1>2 DEF Posts!Rescheduled, Posts!AfterSchedule, Shown
<1>4. text \in Nat /\ t \in Nat
  BY ThePost
<1>5. PICK e : e = [posts[i] EXCEPT !.text = text, !.scheduledAt = t, !.status = s]
  OBVIOUS
<1>6. e \in Posts!Post /\ e.status = s
  BY <1>3, <1>4, <1>5, ThePost DEF Posts!Post, Posts!Status
<1>7. PICK k : k = IF who = "admin" THEN "now" ELSE "before"
  OBVIOUS
<1>8. k \in Posts!Clearance /\ (who = "admin" => k = "now")
  BY <1>7 DEF Posts!Clearance
<1>9. Posts!Begun(r, i, e, k)
  BY <1>1, <1>2, <1>5, <1>7
<1>10. posts[i].status \in Posts!Editable /\ e.status \notin Out
  BY <1>3, <1>6 DEF Posts!Reschedule, Out
<1> QED
  BY <1>3, <1>6, <1>8, <1>9, <1>10, BegunKeeps

LEMMA SubmitKeeps ==
  ASSUME PostInv, NEW r \in Request, NEW i \in PostId, Posts!SubmitForApproval(r, i), Still
  PROVE  PostInv'
<1>1. PICK e : e = [posts[i] EXCEPT !.status = "PENDING_APPROVAL"]
  OBVIOUS
<1>2. e \in Posts!Post /\ e.status = "PENDING_APPROVAL"
  BY <1>1, ThePost DEF Posts!Post, Posts!Status
<1>3. posts[i].status \in Posts!Editable /\ Posts!Begun(r, i, e, "before")
  BY <1>1 DEF Posts!SubmitForApproval, Posts!Editable
<1>4. e.status \notin Out /\ e.status \notin Shown
  BY <1>2 DEF Shown, Out
<1>5. "before" \in Posts!Clearance
  BY DEF Posts!Clearance
<1> QED
  BY <1>2, <1>3, <1>4, <1>5, BegunKeeps

LEMMA ApproveKeeps ==
  ASSUME PostInv, NEW r \in Request, NEW i \in PostId, Posts!ApprovePost(r, i), Still
  PROVE  PostInv'
<1>1. PICK s : s = IF posts[i].scheduledAt = 0 THEN "APPROVED" ELSE Posts!AfterSchedule(posts[i].scheduledAt)
  OBVIOUS
<1>2. PICK e : e = [posts[i] EXCEPT !.status = s]
  OBVIOUS
<1>3. s \in {"SCHEDULED", "APPROVED"}
  BY <1>1 DEF Posts!AfterSchedule
<1>4. e \in Posts!Post /\ e.status = s
  BY <1>2, <1>3, ThePost DEF Posts!Post, Posts!Status
<1>5. posts[i].status \in Posts!Editable /\ Posts!Begun(r, i, e, "now")
  BY <1>1, <1>2 DEF Posts!ApprovePost, Posts!Editable
<1>6. e.status \notin Out /\ "now" \in Posts!Clearance
  BY <1>3, <1>4 DEF Out, Posts!Clearance
<1> QED
  BY <1>4, <1>5, <1>6, BegunKeeps

LEMMA CancelKeeps ==
  ASSUME PostInv, NEW r \in Request, NEW i \in PostId, Posts!CancelPost(r, i), Still
  PROVE  PostInv'
<1>1. PICK e : e = [posts[i] EXCEPT !.status = "CANCELLED", !.scheduledAt = 0]
  OBVIOUS
<1>2. e \in Posts!Post /\ e.status = "CANCELLED"
  BY <1>1, ThePost DEF Posts!Post, Posts!Status
<1>3. posts[i].status \in Posts!Editable /\ Posts!Begun(r, i, e, "never")
  BY <1>1 DEF Posts!CancelPost
<1>4. e.status \notin Out /\ e.status \notin Shown
  BY <1>2 DEF Shown, Out
<1>5. "never" \in Posts!Clearance
  BY DEF Posts!Clearance
<1> QED
  BY <1>2, <1>3, <1>4, <1>5, BegunKeeps

LEMMA DeletePostKeeps ==
  ASSUME PostInv, NEW r \in Request, NEW i \in PostId, Posts!DeletePost(r, i), Still
  PROVE  PostInv'
<1>1. posts[i].status \in Posts!Editable /\ posts[i] \in Posts!Post /\ "never" \in Posts!Clearance
  BY ThePost DEF Posts!DeletePost, Posts!Clearance
<1>2. PICK g : g = Posts!Holding(i, posts[i], "never")
  OBVIOUS
<1>3. g \in Posts!Handler /\ g.id = i /\ g.post = posts[i] /\ g.clears = "never" /\ g.list = Posts!NoList /\ ~ g.errors
  BY <1>1, <1>2, HoldingIs
<1>4. PICK h : h = [g EXCEPT !.pc = "delete"]
  OBVIOUS
<1>5. /\ h \in Posts!Handler /\ h.pc = "delete" /\ h.id = i /\ h.post = posts[i] /\ h.clears = "never"
      /\ h.list = Posts!NoList /\ ~ h.errors
  BY <1>3, <1>4 DEF Posts!Handler
<1>6. Posts!Begins(r, 1) /\ Posts!Become(r, h)
  BY <1>2, <1>4 DEF Posts!DeletePost
<1>7. posts[i].status \notin Out
  BY <1>1 DEF Posts!Editable, Out
<1> QED
  BY <1>1, <1>5, <1>6, <1>7, CallBegins

\* A handler on its way to the first save of what it publishes.
LEMMA PublishingIs ==
  ASSUME NEW g \in Posts!Handler, NEW i \in PostId, NEW e \in Posts!Post
  PROVE  /\ Posts!Publishing(g, i, e) \in Posts!Handler
         /\ Posts!Publishing(g, i, e).pc = "begin" /\ Posts!Publishing(g, i, e).id = i
         /\ Posts!Publishing(g, i, e).clears = g.clears /\ Posts!Publishing(g, i, e).list = g.list
         /\ Posts!Publishing(g, i, e).errors = FALSE
<1>1. PICK f : f = [e EXCEPT !.status = "PUBLISHING"]
  OBVIOUS
<1>2. f \in Posts!Post
  BY <1>1 DEF Posts!Post, Posts!Status
<1>3. Posts!Publishing(g, i, e) = [g EXCEPT !.pc = "begin", !.id = i, !.post = f, !.left = {}, !.errors = FALSE]
  BY <1>1 DEF Posts!Publishing
<1> QED
  BY <1>2, <1>3 DEF Posts!Handler

LEMMA PublishingStatus ==
  ASSUME NEW g \in Posts!Handler, NEW i, NEW e \in Posts!Post
  PROVE  Posts!Publishing(g, i, e).post.status = "PUBLISHING"
<1>1. PICK f : f = [e EXCEPT !.status = "PUBLISHING"]
  OBVIOUS
<1>2. f.status = "PUBLISHING"
  BY <1>1 DEF Posts!Post
<1>3. Posts!Publishing(g, i, e) = [g EXCEPT !.pc = "begin", !.id = i, !.post = f, !.left = {}, !.errors = FALSE]
  BY <1>1 DEF Posts!Publishing
<1>4. Posts!Publishing(g, i, e).post = f
  BY <1>3 DEF Posts!Handler
<1> QED
  BY <1>2, <1>4

LEMMA PublishPostKeeps ==
  ASSUME PostInv, NEW r \in Request, NEW i \in PostId, NEW who \in Posts!Role, Posts!PublishPost(r, i, who), Still
  PROVE  PostInv'
<1>1. posts[i] \in Posts!Post /\ posts[i].status \in Posts!Publishable /\ i \notin retracted
  BY ThePost DEF Posts!PublishPost, Posts!Ready, PostInv, RowsHold, Posts!Publishable
<1>2. PICK k : k = IF who = "admin" THEN "now" ELSE "never"
  OBVIOUS
<1>3. k \in Posts!Clearance /\ (settings.ownerApprovalRequired => k = "now")
  BY <1>2 DEF Posts!PublishPost, Posts!CanPublish, Posts!Clearance
<1>4. PICK g : g = [Posts!Idle EXCEPT !.kind = "call", !.clears = k]
  OBVIOUS
<1>5. g \in Posts!Handler /\ g.clears = k /\ g.list = Posts!NoList
  BY <1>3, <1>4, PostKinds DEF Posts!Handler
<1>6. PICK h : h = Posts!Publishing(g, i, posts[i])
  OBVIOUS
<1>13. /\ Posts!Publishing(g, i, posts[i]) \in Posts!Handler
       /\ Posts!Publishing(g, i, posts[i]).pc = "begin" /\ Posts!Publishing(g, i, posts[i]).id = i
       /\ Posts!Publishing(g, i, posts[i]).clears = g.clears /\ Posts!Publishing(g, i, posts[i]).list = g.list
       /\ Posts!Publishing(g, i, posts[i]).errors = FALSE
  BY <1>1, <1>5, PublishingIs
<1>7. h \in Posts!Handler /\ h.pc = "begin" /\ h.id = i /\ h.clears = k /\ h.list = Posts!NoList /\ h.errors = FALSE
  BY <1>5, <1>6, <1>13
<1>0. h.post.status = "PUBLISHING"
  BY <1>1, <1>5, <1>6, PublishingStatus
<1>8. Posts!Begins(r, 1) /\ Posts!Become(r, h)
  BY <1>2, <1>4, <1>6 DEF Posts!PublishPost
<1>9. \A j \in PostId : h.list[j] = Posts!NoPost
  BY <1>7 DEF Posts!NoList
<1>10. \A j \in retracted : ~ HoldsPost(h, j)
  BY <1>1, <1>7, <1>9 DEF PostInv, Posts!TypeOK, HoldsPost
<1>11. PostSound(h, posted, cleared, retracted, settings)
  BY <1>0, <1>3, <1>7, <1>9, <1>10 DEF PostSound, Allowed
<1>12. SoundAlone(h, posts, went, cleared, settings)
  BY <1>1, <1>3, <1>7, <1>9 DEF SoundAlone, AllowedAlone
<1> QED
  BY <1>7, <1>8, <1>11, <1>12, HandlerBegins

LEMMA CallKeeps ==
  ASSUME PostInv, NEW r \in Request, Posts!Call(r)
  PROVE  PostInv'
<1>1. Still
  BY DEF Posts!Call, Still
<1>2. PICK i \in PostId :
        \/ Posts!EditText(r, i) \/ Posts!SubmitForApproval(r, i) \/ Posts!ApprovePost(r, i)
        \/ Posts!CancelPost(r, i) \/ Posts!DeletePost(r, i)
        \/ \E who \in Posts!Role : \/ Posts!PublishPost(r, i, who)
                             \/ \E t \in 0 .. limit.time : Posts!Reschedule(r, i, who, t)
  BY DEF Posts!Call
<1> QED
  BY <1>1, <1>2, EditTextKeeps, SubmitKeeps, ApproveKeeps, CancelKeeps, DeletePostKeeps,
     PublishPostKeeps, RescheduleKeeps

-----------------------------------------------------------------------------
(* A handler in flight writes its row *)

LEMMA InFlight ==
  ASSUME PostInv, NEW r \in Request, working[r].pc # "idle"
  PROVE  /\ working[r] \in Posts!Handler /\ working[r].id \in PostId /\ working[r].id \notin retracted
         /\ PostSound(working[r], posted, cleared, retracted, settings)
         /\ used.overlaps = 0 =>
              /\ \A q \in Request \ {r} : working[q] = Posts!Idle
              /\ RowsAlone(posts, went, cleared, settings)
              /\ SoundAlone(working[r], posts, went, cleared, settings)
              /\ used.refusals = 0 => Once(posts, posted) /\ Unrefused(working[r], posted)
<1>1. working[r] \in Posts!Handler /\ PostSound(working[r], posted, cleared, retracted, settings)
  BY DEF PostInv, Posts!TypeOK
<1>2. working[r].id \in PostId /\ working[r].id \notin retracted
  BY <1>1 DEF PostSound, HoldsPost
<1>3. working[r] # Posts!Idle
  BY PostKinds
<1> QED
  BY <1>1, <1>2, <1>3 DEF PostInv, Alike

LEMMA WritesItsRow ==
  ASSUME PostInv, NEW r \in Request, working[r].pc # "idle",
         NEW i \in PostId, i = working[r].id,
         NEW e \in Posts!Post, posts' = [posts EXCEPT ![i] = e],
         cleared' \in [PostId -> Posts!Clearance], StillCleared(cleared, cleared'),
         \A j \in PostId \ {i} : cleared'[j] = cleared[j],
         retracted' \subseteq retracted \union {i},
         i \in retracted' =>
           e.status \in {"CANCELLED", "deleted"} /\ \A q \in Request \ {r} : ~ HoldsPost(working[q], i),
         UNCHANGED <<settings, Posts!channels, clock, limit, used>>,
         NEW g \in Posts!Handler, Posts!Become(r, g),
         PostSound(g, posted, cleared', retracted', settings),
         e.status = "PUBLISHED" => \A k \in e.platforms : posted[i][k] > 0,
         settings.ownerApprovalRequired /\ e.status \in Shown => cleared'[i] # "never",
         e.status = "PUBLISHING" => Sends(g, i),
         used.overlaps = 0 =>
           /\ SoundAlone(g, posts', went, cleared', settings)
           /\ e.status = "PUBLISHED" => \A k \in e.platforms : went[i][k] = e.text
           /\ settings.ownerApprovalRequired /\ e.status \in Shown => cleared'[i] = "now"
           /\ used.refusals = 0 =>
                Unrefused(g, posted) /\ \A k \in Channel : posted[i][k] > 0 => e.status \in Out
  PROVE  PostInv'
<1>1. posted' = posted /\ went' = went /\ settings' = settings /\ clock' = clock /\ limit' = limit
      /\ used' = used
  BY DEF Posts!channels
<1>2. Posts!TypeOK /\ RowsHold(posts, posted, cleared, retracted, settings)
  BY DEF PostInv
<1>3. posts' \in [PostId -> Posts!Post] /\ posts'[i] = e /\ \A j \in PostId \ {i} : posts'[j] = posts[j]
  BY <1>2 DEF Posts!TypeOK
<1>4. retracted' \subseteq PostId /\ i \notin retracted
  BY <1>2, InFlight DEF Posts!TypeOK
<1>5. RowsHold(posts', posted, cleared', retracted', settings)
  <2>1. ASSUME NEW j \in PostId, posts'[j].status = "PUBLISHED", NEW k \in posts'[j].platforms
        PROVE  posted[j][k] > 0
    BY <1>2, <1>3, <2>1 DEF RowsHold
  <2>2. ASSUME settings.ownerApprovalRequired, NEW j \in PostId, posts'[j].status \in Shown
        PROVE  cleared'[j] # "never"
    BY <1>2, <1>3, <2>2 DEF RowsHold
  <2>3. ASSUME NEW j \in retracted' PROVE posts'[j].status \in {"CANCELLED", "deleted"}
    BY <1>2, <1>3, <1>4 DEF RowsHold
  <2> QED
    BY <2>1, <2>2, <2>3 DEF RowsHold
<1>6. ASSUME used.overlaps = 0
      PROVE  /\ \A q \in Request \ {r} : working[q] = Posts!Idle
             /\ RowsAlone(posts', went, cleared', settings)
             /\ SoundAlone(g, posts', went, cleared', settings)
             /\ used.refusals = 0 => Once(posts', posted) /\ Unrefused(g, posted)
  <2>1. /\ RowsAlone(posts, went, cleared, settings)
        /\ used.refusals = 0 => Once(posts, posted)
        /\ \A q \in Request \ {r} : working[q] = Posts!Idle
    BY <1>6, InFlight
  <2>2. RowsAlone(posts', went, cleared', settings)
    <3>1. ASSUME NEW j \in PostId, posts'[j].status = "PUBLISHED", NEW k \in posts'[j].platforms
          PROVE  went[j][k] = posts'[j].text
      BY <1>3, <1>6, <2>1, <3>1 DEF RowsAlone
    <3>2. ASSUME settings.ownerApprovalRequired, NEW j \in PostId, posts'[j].status \in Shown
          PROVE  cleared'[j] = "now"
      BY <1>3, <1>6, <2>1, <3>2 DEF RowsAlone
    <3> QED
      BY <3>1, <3>2 DEF RowsAlone
  <2>3. used.refusals = 0 => Once(posts', posted)
    BY <1>3, <1>6, <2>1 DEF Once
  <2> QED
    BY <1>6, <2>1, <2>2, <2>3
<1>7. Grown(posted, posted)
  BY DEF Grown
<1>8. \A j \in retracted' : j \in retracted \/ \A q \in Request \ {r} : ~ HoldsPost(working[q], j)
  OBVIOUS
<1>9. \A j \in PostId : posts'[j].status = "PUBLISHING" =>
        Sends(g, j) \/ (posts[j].status = "PUBLISHING" /\ ~ Sends(working[r], j))
  BY <1>3 DEF Sends
<1>10. /\ posted' \in [PostId -> [Channel -> 0 .. 2]] /\ went' \in [PostId -> [Channel -> Nat]]
       /\ used' \in Posts!Counters
  BY <1>1, <1>2 DEF Posts!TypeOK
<1>11. /\ PostSound(g, posted', cleared', retracted', settings)
       /\ RowsHold(posts', posted', cleared', retracted', settings)
       /\ Grown(posted, posted')
  BY <1>1, <1>5, <1>7
<1>12. used'.failures = 0 =>
         /\ used.failures = 0
         /\ \A j \in PostId : posts'[j].status = "PUBLISHING" =>
              Sends(g, j) \/ (posts[j].status = "PUBLISHING" /\ ~ Sends(working[r], j))
  BY <1>1, <1>9
<1>13. used'.overlaps = 0 =>
         /\ \A q \in Request \ {r} : working[q] = Posts!Idle
         /\ RowsAlone(posts', went', cleared', settings)
         /\ SoundAlone(g, posts', went', cleared', settings)
         /\ used'.refusals = 0 => Once(posts', posted') /\ Unrefused(g, posted')
  BY <1>1, <1>6
<1> QED
  BY <1>1, <1>3, <1>4, <1>8, <1>10, <1>11, <1>12, <1>13, OneHandlerMoves

LEMMA ClearsIs ==
  ASSUME cleared \in [PostId -> Posts!Clearance], NEW i \in PostId, NEW k \in Posts!Clearance, Posts!Clears(i, k)
  PROVE  /\ cleared' \in [PostId -> Posts!Clearance] /\ StillCleared(cleared, cleared')
         /\ \A j \in PostId \ {i} : cleared'[j] = cleared[j]
         /\ k = "now" => cleared'[i] = "now"
         /\ k = "never" => cleared'[i] = cleared[i]
<1>1. PICK d : d = CASE k = "now" -> "now"
                     [] k = "before" /\ cleared[i] = "now" -> "before"
                     [] OTHER -> cleared[i]
  OBVIOUS
<1>2. cleared' = [cleared EXCEPT ![i] = d]
  BY <1>1 DEF Posts!Clears
<1>3. /\ d \in Posts!Clearance /\ (k = "now" => d = "now") /\ (k = "never" => d = cleared[i])
      /\ (cleared[i] # "never" => d # "never")
  <2>1. CASE k = "now"
    BY <1>1, <2>1 DEF Posts!Clearance
  <2>2. CASE k = "before" /\ cleared[i] = "now"
    BY <1>1, <2>2 DEF Posts!Clearance
  <2>3. CASE k # "now" /\ ~ (k = "before" /\ cleared[i] = "now")
    <3>1. d = cleared[i]
      BY <1>1, <2>3
    <3> QED
      BY <2>3, <3>1
  <2> QED
    BY <2>1, <2>2, <2>3
<1> QED
  BY <1>2, <1>3 DEF StillCleared

\* The handler has done with its post: it is idle, and holds nothing.
LEMMA ToIdle ==
  ASSUME retracted' \subseteq PostId
  PROVE  /\ Posts!Idle \in Posts!Handler
         /\ PostSound(Posts!Idle, posted, cleared', retracted', settings)
         /\ SoundAlone(Posts!Idle, posts', went, cleared', settings) /\ Unrefused(Posts!Idle, posted)
  BY PostKinds

LEMMA SaveKeeps ==
  ASSUME PostInv, NEW r \in Request, Posts!Save(r)
  PROVE  PostInv'
<1>1. PICK h : h = working[r]
  OBVIOUS
<1>2. PICK i : i = h.id
  OBVIOUS
<1>3. PICK e : e = h.post
  OBVIOUS
<1>4. working[r].pc = "save" /\ h.pc = "save"
  BY <1>1 DEF Posts!Save, Posts!At
<1>5. /\ h \in Posts!Handler /\ i \in PostId /\ i \notin retracted /\ e \in Posts!Post /\ h.clears \in Posts!Clearance
      /\ PostSound(h, posted, cleared, retracted, settings)
  BY <1>1, <1>2, <1>3, <1>4, InFlight DEF Posts!Handler
<1>6. /\ posts' = [posts EXCEPT ![i] = e] /\ Posts!Clears(i, h.clears)
      /\ retracted' = IF e.status = "CANCELLED" /\ Posts!Alone(r, i) THEN retracted \union {i} ELSE retracted
      /\ Posts!Become(r, Posts!Idle) /\ UNCHANGED <<settings, Posts!channels, clock, limit, used>>
  BY <1>1, <1>2, <1>3 DEF Posts!Save
<1>7. /\ cleared' \in [PostId -> Posts!Clearance] /\ StillCleared(cleared, cleared')
      /\ \A j \in PostId \ {i} : cleared'[j] = cleared[j]
      /\ h.clears = "now" => cleared'[i] = "now"
      /\ h.clears = "never" => cleared'[i] = cleared[i]
  BY <1>5, <1>6, ClearsIs DEF PostInv, Posts!TypeOK
<1>8. retracted' \subseteq retracted \union {i} /\ retracted' \subseteq PostId
  BY <1>5, <1>6 DEF PostInv, Posts!TypeOK
<1>9. i \in retracted' =>
        e.status \in {"CANCELLED", "deleted"} /\ \A q \in Request \ {r} : ~ HoldsPost(working[q], i)
  BY <1>5, <1>6 DEF Posts!Alone, Posts!Holds, HoldsPost
<1>10. e.status \notin Out
  BY <1>3, <1>4, <1>5 DEF PostSound
<1>11. settings.ownerApprovalRequired /\ e.status \in Shown => cleared'[i] # "never"
  BY <1>2, <1>3, <1>4, <1>5, <1>7 DEF PostSound, Allowed, StillCleared
<1>12. ASSUME used.overlaps = 0
       PROVE  /\ settings.ownerApprovalRequired /\ e.status \in Shown => cleared'[i] = "now"
              /\ used.refusals = 0 => \A k \in Channel : posted[i][k] > 0 => e.status \in Out
  <2>1. SoundAlone(h, posts, went, cleared, settings) /\ (used.refusals = 0 => Once(posts, posted))
    BY <1>1, <1>4, <1>12, InFlight
  <2>2. settings.ownerApprovalRequired /\ e.status \in Shown => cleared'[i] = "now"
    BY <1>2, <1>3, <1>4, <1>7, <2>1 DEF SoundAlone, AllowedAlone
  <2>3. posts[i].status \notin Out
    BY <1>2, <1>4, <2>1 DEF SoundAlone, Posts!Editable, Out
  <2> QED
    BY <1>5, <2>1, <2>2, <2>3 DEF Once
<1>13. e.status # "PUBLISHED" /\ e.status # "PUBLISHING"
  BY <1>10 DEF Out
<1> QED
  BY <1>1, <1>2, <1>4, <1>5, <1>6, <1>7, <1>8, <1>9, <1>11, <1>12, <1>13, ToIdle, WritesItsRow

LEMMA DeleteKeeps ==
  ASSUME PostInv, NEW r \in Request, Posts!Delete(r)
  PROVE  PostInv'
<1>1. PICK h : h = working[r]
  OBVIOUS
<1>2. PICK i : i = h.id
  OBVIOUS
<1>3. PICK e : e = [Posts!NoPost EXCEPT !.status = "deleted"]
  OBVIOUS
<1>4. working[r].pc = "delete" /\ h.pc = "delete"
  BY <1>1 DEF Posts!Delete, Posts!At
<1>5. h \in Posts!Handler /\ i \in PostId /\ i \notin retracted
  BY <1>1, <1>2, <1>4, InFlight
<1>6. e \in Posts!Post /\ e.status = "deleted"
  BY <1>3 DEF Posts!NoPost, Posts!Post, Posts!Status
<1>7. /\ posts' = [posts EXCEPT ![i] = e] /\ cleared' = cleared
      /\ retracted' = IF Posts!Alone(r, i) THEN retracted \union {i} ELSE retracted
      /\ Posts!Become(r, Posts!Idle) /\ UNCHANGED <<settings, Posts!channels, clock, limit, used>>
  BY <1>1, <1>2, <1>3 DEF Posts!Delete
<1>8. /\ cleared' \in [PostId -> Posts!Clearance] /\ StillCleared(cleared, cleared')
      /\ \A j \in PostId \ {i} : cleared'[j] = cleared[j]
  BY <1>7 DEF PostInv, Posts!TypeOK, StillCleared
<1>9. retracted' \subseteq retracted \union {i} /\ retracted' \subseteq PostId
  BY <1>5, <1>7 DEF PostInv, Posts!TypeOK
<1>10. i \in retracted' => \A q \in Request \ {r} : ~ HoldsPost(working[q], i)
  BY <1>5, <1>7 DEF Posts!Alone, Posts!Holds, HoldsPost
<1>11. e.status \notin Out /\ e.status \notin Shown /\ e.status # "PUBLISHED" /\ e.status # "PUBLISHING"
  BY <1>6 DEF Out, Shown
<1>12. ASSUME used.overlaps = 0, used.refusals = 0
       PROVE  \A k \in Channel : posted[i][k] > 0 => e.status \in Out
  <2>1. SoundAlone(h, posts, went, cleared, settings) /\ Once(posts, posted)
    BY <1>1, <1>4, <1>12, InFlight
  <2>2. posts[i].status \notin Out
    BY <1>2, <1>4, <2>1 DEF SoundAlone, Posts!Editable, Out
  <2> QED
    BY <1>5, <2>1, <2>2 DEF Once
<1> QED
  BY <1>1, <1>2, <1>4, <1>5, <1>6, <1>7, <1>8, <1>9, <1>10, <1>11, <1>12, ToIdle, WritesItsRow

-----------------------------------------------------------------------------
(* The list of a tick *)

\* What is listed may go out.
ListSound(l, c, x, s) ==
  \A i \in PostId : l[i] # Posts!NoPost => i \notin x /\ (s.ownerApprovalRequired => c[i] # "never")
ListAlone(l, t, c, s) ==
  \A i \in PostId : l[i] # Posts!NoPost =>
    t[i].status = "SCHEDULED" /\ (s.ownerApprovalRequired => c[i] = "now")

\* The handler a loop becomes.
Fit(h, n, c, x, s) ==
  h \in Posts!Handler /\ h.pc # "channel" /\ ~ h.errors /\ PostSound(h, n, c, x, s)

LEMMA GoesOnIs ==
  ASSUME NEW r \in Request, NEW l \in [PostId -> Posts!Post], Posts!GoesOn(r, l),
         NEW n, NEW c, NEW x \in SUBSET PostId, NEW s, ListSound(l, c, x, s)
  PROVE  \E h \in Posts!Handler :
           /\ Posts!Become(r, h) /\ Fit(h, n, c, x, s)
           /\ \A t, w : ListAlone(l, t, c, s) => SoundAlone(h, t, w, c, s)
<1>1. CASE Posts!Become(r, Posts!Idle)
  <2>1. Fit(Posts!Idle, n, c, x, s)
    BY PostKinds DEF Fit, Unrefused
  <2> QED
    BY <1>1, <2>1, PostKinds
<1>2. ASSUME NEW i \in PostId, Posts!First(i, l),
             Posts!Become(r, Posts!Publishing([Posts!Idle EXCEPT !.kind = "tick", !.list = [l EXCEPT ![i] = Posts!NoPost]],
                                  i, l[i]))
      PROVE  \E h \in Posts!Handler :
               /\ Posts!Become(r, h) /\ Fit(h, n, c, x, s)
               /\ \A t, w : ListAlone(l, t, c, s) => SoundAlone(h, t, w, c, s)
  <2>1. l[i] \in Posts!Post /\ l[i] # Posts!NoPost
    BY <1>2, PostKinds DEF Posts!First, Posts!Listed
  <2>2. PICK m : m = [l EXCEPT ![i] = Posts!NoPost]
    OBVIOUS
  <2>3. m \in [PostId -> Posts!Post] /\ m[i] = Posts!NoPost /\ \A j \in PostId \ {i} : m[j] = l[j]
    BY <2>2, PostKinds
  <2>4. PICK g : g = [Posts!Idle EXCEPT !.kind = "tick", !.list = m]
    OBVIOUS
  <2>5. g \in Posts!Handler /\ g.list = m /\ g.clears = "never"
    BY <2>3, <2>4, PostKinds DEF Posts!Handler, Posts!Idle
  <2>6. PICK h : h = Posts!Publishing(g, i, l[i])
    OBVIOUS
  <2>12. /\ Posts!Publishing(g, i, l[i]) \in Posts!Handler
         /\ Posts!Publishing(g, i, l[i]).pc = "begin" /\ Posts!Publishing(g, i, l[i]).id = i
         /\ Posts!Publishing(g, i, l[i]).clears = g.clears /\ Posts!Publishing(g, i, l[i]).list = g.list
         /\ Posts!Publishing(g, i, l[i]).errors = FALSE
    BY <2>1, <2>5, PublishingIs
  <2>7. h \in Posts!Handler /\ h.pc = "begin" /\ h.id = i /\ h.clears = "never" /\ h.list = m /\ h.errors = FALSE
    BY <2>5, <2>6, <2>12
  <2>0. h.post.status = "PUBLISHING"
    BY <2>1, <2>5, <2>6, PublishingStatus
  <2>8. \A j \in x : ~ HoldsPost(h, j)
    BY <2>1, <2>3, <2>7 DEF ListSound, HoldsPost
  <2>9. PostSound(h, n, c, x, s)
    BY <2>0, <2>1, <2>3, <2>7, <2>8 DEF ListSound, PostSound, Allowed
  <2>10. ASSUME NEW t, NEW w, ListAlone(l, t, c, s) PROVE SoundAlone(h, t, w, c, s)
    <3>1. \A j \in PostId : h.list[j] # Posts!NoPost => l[j] # Posts!NoPost /\ j # i
      BY <2>3, <2>7
    <3>2. t[i].status = "SCHEDULED" /\ (s.ownerApprovalRequired => c[i] = "now")
      BY <2>1, <2>10 DEF ListAlone
    <3>3. AllowedAlone(h, c, s)
      BY <2>7, <2>10, <3>1, <3>2 DEF AllowedAlone, ListAlone
    <3> QED
      BY <2>7, <2>10, <3>1, <3>2, <3>3 DEF SoundAlone, ListAlone, Posts!Publishable
  <2>11. Posts!Become(r, h)
    BY <1>2, <2>2, <2>4, <2>6
  <2> QED
    BY <2>7, <2>9, <2>10, <2>11 DEF Fit
<1> QED
  BY <1>1, <1>2 DEF Posts!GoesOn

\* What a handler is once it has done with its post.
LEMMA GoesIs ==
  ASSUME NEW r \in Request, working[r] \in Posts!Handler, Posts!Goes(r),
         NEW n, NEW c, NEW x \in SUBSET PostId, NEW s, ListSound(working[r].list, c, x, s)
  PROVE  \E h \in Posts!Handler :
           /\ Posts!Become(r, h) /\ Fit(h, n, c, x, s)
           /\ \A t, w : ListAlone(working[r].list, t, c, s) => SoundAlone(h, t, w, c, s)
<1>1. CASE working[r].kind = "tick"
  <2>1. Posts!GoesOn(r, working[r].list) /\ working[r].list \in [PostId -> Posts!Post]
    BY <1>1 DEF Posts!Goes, Posts!Handler
  <2> QED
    BY <2>1, GoesOnIs
<1>2. CASE working[r].kind # "tick"
  <2>1. Posts!Become(r, Posts!Idle)
    BY <1>2 DEF Posts!Goes
  <2>2. Fit(Posts!Idle, n, c, x, s)
    BY PostKinds DEF Fit, Unrefused
  <2> QED
    BY <2>1, <2>2, PostKinds
<1> QED
  BY <1>1, <1>2

LEMMA TickKeeps ==
  ASSUME PostInv, NEW r \in Request, Posts!Tick(r)
  PROVE  PostInv'
<1>1. PICK b \in SUBSET PostId :
        Posts!Batch(b) /\ Posts!GoesOn(r, [i \in PostId |-> IF i \in b THEN posts[i] ELSE Posts!NoPost])
  BY DEF Posts!Tick
<1>2. PICK l : l = [i \in PostId |-> IF i \in b THEN posts[i] ELSE Posts!NoPost]
  OBVIOUS
<1>3. l \in [PostId -> Posts!Post] /\ \A i \in PostId : l[i] # Posts!NoPost => i \in b
  BY <1>2, ThePost, PostKinds
<1>4. \A i \in PostId : l[i] # Posts!NoPost => posts[i].status = "SCHEDULED"
  BY <1>1, <1>3 DEF Posts!Batch, Posts!Due
<1>5. ListSound(l, cleared, retracted, settings)
  BY <1>4 DEF ListSound, PostInv, RowsHold, Shown
<1>6. used.overlaps = 0 => ListAlone(l, posts, cleared, settings)
  BY <1>4 DEF ListAlone, PostInv, Alike, RowsAlone, Shown
<1>7. retracted \in SUBSET PostId
  BY DEF PostInv, Posts!TypeOK
<1>8. Posts!GoesOn(r, l)
  BY <1>1, <1>2
<1>9. PICK h \in Posts!Handler :
        /\ Posts!Become(r, h) /\ Fit(h, posted, cleared, retracted, settings)
        /\ \A t, w : ListAlone(l, t, cleared, settings) => SoundAlone(h, t, w, cleared, settings)
  BY <1>3, <1>5, <1>7, <1>8, GoesOnIs
<1>10. Posts!Begins(r, 0) /\ Still
  BY DEF Posts!Tick, Still
<1> QED
  BY <1>6, <1>9, <1>10, HandlerBegins DEF Fit

-----------------------------------------------------------------------------
(* The publishing of one post *)

LEMMA BeginKeeps ==
  ASSUME PostInv, NEW r \in Request, Posts!Begin(r)
  PROVE  PostInv'
<1>1. PICK h : h = working[r]
  OBVIOUS
<1>2. PICK i : i = h.id
  OBVIOUS
<1>3. PICK e : e = h.post
  OBVIOUS
<1>4. working[r].pc = "begin" /\ h.pc = "begin"
  BY <1>1 DEF Posts!Begin, Posts!At
<1>5. /\ h \in Posts!Handler /\ i \in PostId /\ i \notin retracted /\ e \in Posts!Post /\ h.clears \in Posts!Clearance
      /\ h.list \in [PostId -> Posts!Post]
      /\ PostSound(h, posted, cleared, retracted, settings)
  BY <1>1, <1>2, <1>3, <1>4, InFlight DEF Posts!Handler
<1>6. PICK g : g = [h EXCEPT !.pc = "channel", !.left = e.platforms]
  OBVIOUS
<1>7. /\ g \in Posts!Handler /\ g.pc = "channel" /\ g.id = i /\ g.left = e.platforms /\ g.post = e
      /\ g.list = h.list /\ g.errors = h.errors
  <2>1. e.platforms \subseteq Channel
    BY <1>5 DEF Posts!Post
  <2> QED
    BY <1>2, <1>3, <1>5, <1>6, <2>1 DEF Posts!Handler
<1>8. /\ posts' = [posts EXCEPT ![i] = e] /\ Posts!Clears(i, h.clears) /\ retracted' = retracted
      /\ Posts!Become(r, g) /\ UNCHANGED <<settings, Posts!channels, clock, limit, used>>
  BY <1>1, <1>2, <1>3, <1>6 DEF Posts!Begin
<1>9. /\ cleared' \in [PostId -> Posts!Clearance] /\ StillCleared(cleared, cleared')
      /\ \A j \in PostId \ {i} : cleared'[j] = cleared[j]
      /\ h.clears = "now" => cleared'[i] = "now"
      /\ h.clears = "never" => cleared'[i] = cleared[i]
  BY <1>5, <1>8, ClearsIs DEF PostInv, Posts!TypeOK
<1>10. settings.ownerApprovalRequired => cleared'[i] # "never"
  BY <1>2, <1>4, <1>5, <1>9 DEF PostSound, Allowed, StillCleared
<1>11. PostSound(g, posted, cleared', retracted', settings)
  <2>1. \A j \in retracted' : ~ HoldsPost(g, j)
    BY <1>2, <1>5, <1>7, <1>8 DEF PostSound, HoldsPost
  <2>2. Allowed(g, cleared', settings)
    BY <1>5, <1>7, <1>9, <1>10 DEF PostSound, Allowed, StillCleared
  <2> QED
    BY <1>5, <1>7, <2>1, <2>2 DEF PostSound
<1>12. e.status = "PUBLISHING" /\ e.status # "PUBLISHED" /\ e.status \notin Shown /\ e.status \in Out
  BY <1>3, <1>4, <1>5 DEF PostSound, Shown, Out
<1>13. posts'[i] = e /\ \A j \in PostId \ {i} : posts'[j] = posts[j]
  BY <1>5, <1>8 DEF PostInv, Posts!TypeOK
<1>14. ASSUME used.overlaps = 0
       PROVE  /\ SoundAlone(g, posts', went, cleared', settings)
              /\ used.refusals = 0 => Unrefused(g, posted)
  <2>1. /\ SoundAlone(h, posts, went, cleared, settings)
        /\ used.refusals = 0 => Once(posts, posted) /\ Unrefused(h, posted)
    BY <1>1, <1>4, <1>14, InFlight
  <2>2. settings.ownerApprovalRequired => cleared'[i] = "now"
    BY <1>2, <1>4, <1>9, <2>1 DEF SoundAlone, AllowedAlone
  <2>3. \A j \in PostId : g.list[j] # Posts!NoPost => j # i /\ posts[j].status = "SCHEDULED"
    BY <1>2, <1>7, <2>1 DEF SoundAlone
  <2>4. AllowedAlone(g, cleared', settings)
    BY <1>7, <1>9, <2>1, <2>2, <2>3 DEF SoundAlone, AllowedAlone
  <2>5. SoundAlone(g, posts', went, cleared', settings)
    BY <1>7, <1>12, <1>13, <2>3, <2>4 DEF SoundAlone
  <2>6. ASSUME used.refusals = 0 PROVE Unrefused(g, posted)
    <3>1. posts[i].status \notin Out
      BY <1>2, <1>4, <2>1 DEF SoundAlone, Posts!Publishable, Out
    <3>2. \A k \in Channel : posted[i][k] \in 0 .. 2
      BY <1>5 DEF PostInv, Posts!TypeOK
    <3>3. \A k \in Channel : posted[i][k] = 0
      BY <1>5, <2>1, <2>6, <3>1, <3>2 DEF Once
    <3>4. g.left \subseteq Channel /\ ~ g.errors
      BY <1>7, <2>1, <2>6 DEF Posts!Handler, Unrefused
    <3> QED
      BY <1>7, <3>3, <3>4 DEF Unrefused
  <2> QED
    BY <2>5, <2>6
<1>15. retracted' \subseteq retracted \union {i} /\ i \notin retracted'
  BY <1>5, <1>8
<1>16. Sends(g, i)
  BY <1>7 DEF Sends
<1> QED
  BY <1>1, <1>2, <1>4, <1>5, <1>7, <1>8, <1>9, <1>11, <1>12, <1>14, <1>15, <1>16, WritesItsRow

LEMMA GoneIs ==
  ASSUME PostInv, NEW r \in Request, NEW c \in Channel, NEW refused \in BOOLEAN, Posts!Gone(r, c, refused)
  PROVE  \E h, g \in Posts!Handler :
           /\ h = working[r] /\ h.pc = "channel" /\ h.id \in PostId /\ h.id \notin retracted
           /\ c \in h.left /\ h.post \in Posts!Post
           /\ Posts!Become(r, g)
           /\ g.pc = "channel" /\ g.id = h.id /\ g.post = h.post /\ g.left = h.left \ {c}
           /\ g.list = h.list /\ (refused => g.errors) /\ (~ refused => (g.errors <=> h.errors))
<1>1. PICK h : h = working[r]
  OBVIOUS
<1>2. h.pc = "channel" /\ c \in h.left /\ working[r].pc = "channel"
  BY <1>1 DEF Posts!Gone, Posts!At
<1>3. h \in Posts!Handler /\ h.id \in PostId /\ h.id \notin retracted
  BY <1>1, <1>2, InFlight
<1>4. h.left \subseteq Channel /\ h.errors \in BOOLEAN /\ h.post \in Posts!Post
  BY <1>3 DEF Posts!Handler
<1>5. PICK b : b = (h.errors \/ refused)
  OBVIOUS
<1>6. PICK left : left = h.left \ {c}
  OBVIOUS
<1>7. b \in BOOLEAN
  BY <1>4, <1>5
<1>8. PICK g : g = [h EXCEPT !.left = left, !.errors = b]
  OBVIOUS
<1>9. g \in Posts!Handler /\ g.pc = "channel" /\ g.id = h.id /\ g.post = h.post /\ g.left = left
      /\ g.list = h.list /\ g.errors = b
  BY <1>2, <1>3, <1>4, <1>6, <1>7, <1>8 DEF Posts!Handler
<1>10. Posts!Become(r, g)
  BY <1>1, <1>5, <1>6, <1>8 DEF Posts!Gone, Posts!Errors
<1> QED
  BY <1>1, <1>2, <1>3, <1>4, <1>5, <1>6, <1>9, <1>10

LEMMA AcceptedKeeps ==
  ASSUME PostInv, NEW r \in Request, NEW c \in Channel, Posts!Accepted(r, c)
  PROVE  PostInv'
<1>1. Posts!Gone(r, c, FALSE)
  BY DEF Posts!Accepted
<1>2. PICK h, g \in Posts!Handler :
        /\ h = working[r] /\ h.pc = "channel" /\ h.id \in PostId /\ h.id \notin retracted
        /\ c \in h.left /\ h.post \in Posts!Post
        /\ Posts!Become(r, g)
        /\ g.pc = "channel" /\ g.id = h.id /\ g.post = h.post /\ g.left = h.left \ {c}
        /\ g.list = h.list /\ (FALSE => g.errors) /\ (~ FALSE => (g.errors <=> h.errors))
  <2>1. FALSE \in BOOLEAN
    OBVIOUS
  <2> QED
    BY <1>1, <2>1, GoneIs
<1>3. PICK i : i = h.id
  OBVIOUS
<1>4. i \in PostId
  BY <1>2, <1>3
<1>5. /\ posts' = posts /\ settings' = settings /\ cleared' = cleared /\ retracted' = retracted
      /\ clock' = clock /\ limit' = limit /\ used' = used
  BY DEF Posts!Accepted, Posts!Gone
<1>6. PICK m : m = IF posted[i][c] = 2 THEN 2 ELSE posted[i][c] + 1
  OBVIOUS
<1>7. posted' = [posted EXCEPT ![i][c] = m] /\ went' = [went EXCEPT ![i][c] = h.post.text]
  BY <1>2, <1>3, <1>6 DEF Posts!Accepted
<1>8. Posts!TypeOK
  BY DEF PostInv
<1>9. /\ posted[i][c] \in 0 .. 2 /\ m \in 1 .. 2 /\ h.post.text \in Nat
      /\ posted[i][c] = 0 => m = 1
  <2>1. posted[i][c] \in 0 .. 2 /\ h.post.text \in Nat
    BY <1>2, <1>4, <1>8 DEF Posts!TypeOK, Posts!Post
  <2> QED
    BY <1>6, <2>1
<1>10. /\ posted' \in [PostId -> [Channel -> 0 .. 2]] /\ posted'[i][c] = m
       /\ \A j \in PostId : \A k \in Channel : j # i \/ k # c => posted'[j][k] = posted[j][k]
  BY <1>4, <1>7, <1>8, <1>9 DEF Posts!TypeOK
<1>11. /\ went' \in [PostId -> [Channel -> Nat]] /\ went'[i][c] = h.post.text
       /\ \A j \in PostId : \A k \in Channel : j # i \/ k # c => went'[j][k] = went[j][k]
  BY <1>4, <1>7, <1>8, <1>9 DEF Posts!TypeOK
<1>12. Grown(posted, posted') /\ StillCleared(cleared, cleared)
  BY <1>9, <1>10 DEF Grown, StillCleared
<1>13. PostSound(g, posted', cleared, retracted, settings)
  <2>1. PostSound(h, posted, cleared, retracted, settings)
    BY <1>2, <1>8 DEF PostInv
  <2>2. \A k \in h.post.platforms : k \in Channel
    BY <1>2 DEF Posts!Post
  <2>3. ASSUME ~ g.errors, NEW k \in g.post.platforms \ g.left PROVE posted'[g.id][k] > 0
    <3>1. CASE k = c
      BY <1>2, <1>3, <1>9, <1>10, <3>1
    <3>2. CASE k # c
      <4>1. k \in h.post.platforms \ h.left /\ ~ h.errors /\ k \in Channel
        BY <1>2, <2>2, <2>3, <3>2
      <4>2. posted[i][k] > 0
        BY <1>2, <1>3, <2>1, <4>1 DEF PostSound
      <4> QED
        BY <1>2, <1>3, <1>4, <1>10, <3>2, <4>1, <4>2
    <3> QED
      BY <3>1, <3>2
  <2>4. Allowed(g, cleared, settings)
    BY <1>2, <2>1 DEF PostSound, Allowed
  <2>5. \A j \in retracted : ~ HoldsPost(g, j)
    BY <1>2, <2>1 DEF PostSound, HoldsPost
  <2> QED
    BY <1>2, <2>3, <2>4, <2>5 DEF PostSound
<1>14. RowsHold(posts, posted', cleared, retracted, settings)
  <2>1. RowsHold(posts, posted, cleared, retracted, settings)
    BY DEF PostInv
  <2>2. ASSUME NEW j \in PostId, posts[j].status = "PUBLISHED", NEW k \in posts[j].platforms
        PROVE  posted'[j][k] > 0
    <3>1. posted[j][k] > 0
      BY <2>1, <2>2 DEF RowsHold
    <3>2. k \in Channel
      BY <2>2, ThePost
    <3> QED
      BY <1>12, <3>1, <3>2 DEF Grown
  <2> QED
    BY <2>1, <2>2 DEF RowsHold
<1>15. ASSUME used.overlaps = 0
       PROVE  /\ \A q \in Request \ {r} : working[q] = Posts!Idle
              /\ RowsAlone(posts, went', cleared, settings)
              /\ SoundAlone(g, posts, went', cleared, settings)
              /\ used.refusals = 0 => Once(posts, posted') /\ Unrefused(g, posted')
  <2>1. /\ \A q \in Request \ {r} : working[q] = Posts!Idle
        /\ RowsAlone(posts, went, cleared, settings)
        /\ SoundAlone(h, posts, went, cleared, settings)
        /\ used.refusals = 0 => Once(posts, posted) /\ Unrefused(h, posted)
    BY <1>2, <1>15, InFlight
  <2>2. posts[i].status = "PUBLISHING"
    BY <1>2, <1>3, <2>1 DEF SoundAlone
  <2>3. RowsAlone(posts, went', cleared, settings)
    <3>1. ASSUME NEW j \in PostId, posts[j].status = "PUBLISHED", NEW k \in posts[j].platforms
          PROVE  went'[j][k] = posts[j].text
      <4>1. j # i /\ k \in Channel
        BY <2>2, <3>1, ThePost
      <4> QED
        BY <1>11, <2>1, <3>1, <4>1 DEF RowsAlone
    <3> QED
      BY <2>1, <3>1 DEF RowsAlone
  <2>4. ASSUME ~ g.errors, NEW k \in g.post.platforms \ g.left PROVE went'[g.id][k] = g.post.text
    <3>1. CASE k = c
      BY <1>2, <1>3, <1>11, <3>1
    <3>2. CASE k # c
      <4>1. k \in h.post.platforms \ h.left /\ ~ h.errors /\ k \in Channel
        BY <1>2, <2>4, <3>2 DEF Posts!Post
      <4>2. went[i][k] = h.post.text
        BY <1>2, <1>3, <2>1, <4>1 DEF SoundAlone
      <4> QED
        BY <1>2, <1>3, <1>4, <1>11, <3>2, <4>1, <4>2
    <3> QED
      BY <3>1, <3>2
  <2>5. AllowedAlone(g, cleared, settings)
    BY <1>2, <2>1 DEF SoundAlone, AllowedAlone
  <2>6. SoundAlone(g, posts, went', cleared, settings)
    BY <1>2, <2>1, <2>4, <2>5 DEF SoundAlone
  <2>7. ASSUME used.refusals = 0 PROVE Once(posts, posted') /\ Unrefused(g, posted')
    <3>1. Once(posts, posted) /\ Unrefused(h, posted)
      BY <2>1, <2>7
    <3>2. posted[i][c] = 0 /\ m = 1
      BY <1>2, <1>3, <1>9, <3>1 DEF Unrefused
    <3>3. Once(posts, posted')
      <4> SUFFICES ASSUME NEW j \in PostId, NEW k \in Channel
                   PROVE  posted'[j][k] <= 1 /\ (posted'[j][k] > 0 => posts[j].status \in Out)
        BY DEF Once
      <4>1. CASE j = i /\ k = c
        BY <1>10, <2>2, <3>2, <4>1 DEF Out
      <4>2. CASE j # i \/ k # c
        BY <1>10, <3>1, <4>2 DEF Once
      <4> QED
        BY <4>1, <4>2
    <3>4. ASSUME NEW k \in g.left PROVE posted'[g.id][k] = 0
      <4>1. k \in h.left /\ k # c /\ k \in Channel
        BY <1>2, <3>4 DEF Posts!Handler
      <4>2. posted[i][k] = 0
        BY <1>2, <1>3, <3>1, <4>1 DEF Unrefused
      <4> QED
        BY <1>2, <1>3, <1>4, <1>10, <4>1, <4>2
    <3> QED
      BY <1>2, <3>1, <3>3, <3>4 DEF Unrefused
  <2> QED
    BY <2>1, <2>3, <2>6, <2>7
<1>16. \A j \in PostId : posts[j].status = "PUBLISHING" =>
         Sends(g, j) \/ (posts[j].status = "PUBLISHING" /\ ~ Sends(working[r], j))
  BY <1>2 DEF Sends
<1>17. /\ PostSound(g, posted', cleared', retracted', settings)
       /\ RowsHold(posts', posted', cleared', retracted', settings)
       /\ StillCleared(cleared, cleared')
       /\ posts' \in [PostId -> Posts!Post] /\ cleared' \in [PostId -> Posts!Clearance]
       /\ retracted' \subseteq PostId /\ used' \in Posts!Counters
       /\ \A j \in retracted' : j \in retracted
  BY <1>5, <1>8, <1>12, <1>13, <1>14 DEF Posts!TypeOK
<1>18. used'.failures = 0 =>
         /\ used.failures = 0
         /\ \A j \in PostId : posts'[j].status = "PUBLISHING" =>
              Sends(g, j) \/ (posts[j].status = "PUBLISHING" /\ ~ Sends(working[r], j))
  BY <1>5, <1>16
<1>19. used'.overlaps = 0 =>
         /\ \A q \in Request \ {r} : working[q] = Posts!Idle
         /\ RowsAlone(posts', went', cleared', settings)
         /\ SoundAlone(g, posts', went', cleared', settings)
         /\ used'.refusals = 0 => Once(posts', posted') /\ Unrefused(g, posted')
  BY <1>5, <1>15
<1> QED
  BY <1>2, <1>5, <1>10, <1>11, <1>12, <1>17, <1>18, <1>19, OneHandlerMoves

\* A handler moves, and no row does.
LEMMA LeavesRows ==
  ASSUME PostInv, NEW r \in Request, working[r] # Posts!Idle, NEW h \in Posts!Handler, Posts!Become(r, h), Still,
         PostSound(h, posted, cleared, retracted, settings),
         used' \in Posts!Counters, used'.overlaps = used.overlaps,
         used'.failures = 0 =>
           used.failures = 0 /\ \A i \in PostId : Sends(working[r], i) => Sends(h, i),
         used'.refusals = 0 => used.refusals = 0,
         used.overlaps = 0 =>
           /\ SoundAlone(h, posts, went, cleared, settings)
           /\ used'.refusals = 0 => Unrefused(h, posted)
  PROVE  PostInv'
<1>1. /\ posts' = posts /\ settings' = settings /\ posted' = posted /\ went' = went
      /\ cleared' = cleared /\ retracted' = retracted /\ clock' = clock /\ limit' = limit
  BY DEF Still, Posts!channels
<1>2. Posts!TypeOK /\ RowsHold(posts, posted, cleared, retracted, settings)
  BY DEF PostInv
<1>3. /\ PostSound(h, posted', cleared', retracted', settings)
      /\ RowsHold(posts', posted', cleared', retracted', settings)
      /\ Grown(posted, posted') /\ StillCleared(cleared, cleared')
      /\ \A i \in retracted' : i \in retracted
  BY <1>1, <1>2 DEF Grown, StillCleared
<1>4. /\ posts' \in [PostId -> Posts!Post] /\ posted' \in [PostId -> [Channel -> 0 .. 2]]
      /\ went' \in [PostId -> [Channel -> Nat]] /\ cleared' \in [PostId -> Posts!Clearance]
      /\ retracted' \subseteq PostId
  BY <1>1, <1>2 DEF Posts!TypeOK
<1>5. used'.failures = 0 =>
        /\ used.failures = 0
        /\ \A i \in PostId : posts'[i].status = "PUBLISHING" =>
             Sends(h, i) \/ (posts[i].status = "PUBLISHING" /\ ~ Sends(working[r], i))
  BY <1>1
<1>6. used.overlaps = 0 =>
        /\ \A q \in Request \ {r} : working[q] = Posts!Idle
        /\ RowsAlone(posts, went, cleared, settings)
        /\ used.refusals = 0 => Once(posts, posted)
  BY DEF PostInv, Alike
<1>7. used'.overlaps = 0 =>
        /\ \A q \in Request \ {r} : working[q] = Posts!Idle
        /\ RowsAlone(posts', went', cleared', settings)
        /\ SoundAlone(h, posts', went', cleared', settings)
        /\ used'.refusals = 0 => Once(posts', posted') /\ Unrefused(h, posted')
  BY <1>1, <1>6
<1> QED
  BY <1>1, <1>3, <1>4, <1>5, <1>7, OneHandlerMoves

LEMMA RefusedKeeps ==
  ASSUME PostInv, NEW r \in Request, NEW c \in Channel, Posts!Refused(r, c)
  PROVE  PostInv'
<1>1. Posts!Gone(r, c, TRUE) /\ Still /\ used' = [used EXCEPT !.refusals = used.refusals + 1]
  BY DEF Posts!Refused, Posts!Gone, Still
<1>2. PICK h, g \in Posts!Handler :
        /\ h = working[r] /\ h.pc = "channel" /\ h.id \in PostId /\ h.id \notin retracted
        /\ c \in h.left /\ h.post \in Posts!Post
        /\ Posts!Become(r, g)
        /\ g.pc = "channel" /\ g.id = h.id /\ g.post = h.post /\ g.left = h.left \ {c}
        /\ g.list = h.list /\ (TRUE => g.errors) /\ (~ TRUE => (g.errors <=> h.errors))
  <2>1. TRUE \in BOOLEAN
    OBVIOUS
  <2> QED
    BY <1>1, <2>1, GoneIs
<1>3. /\ used' \in Posts!Counters /\ used'.overlaps = used.overlaps /\ used'.failures = used.failures
      /\ used'.refusals # 0
  <2>1. used \in Posts!Counters /\ used.refusals \in Nat
    BY DEF PostInv, Posts!TypeOK, Posts!Counters
  <2> QED
    BY <1>1, <2>1 DEF Posts!Counters
<1>4. PostSound(g, posted, cleared, retracted, settings)
  <2>1. PostSound(h, posted, cleared, retracted, settings)
    BY <1>2 DEF PostInv
  <2>2. \A j \in retracted : ~ HoldsPost(g, j)
    BY <1>2, <2>1 DEF PostSound, HoldsPost
  <2>3. Allowed(g, cleared, settings)
    BY <1>2, <2>1 DEF PostSound, Allowed
  <2> QED
    BY <1>2, <2>2, <2>3 DEF PostSound
<1>5. ASSUME used.overlaps = 0 PROVE SoundAlone(g, posts, went, cleared, settings)
  <2>1. SoundAlone(h, posts, went, cleared, settings)
    BY <1>2, <1>5, InFlight
  <2>2. AllowedAlone(g, cleared, settings)
    BY <1>2, <2>1 DEF SoundAlone, AllowedAlone
  <2> QED
    BY <1>2, <2>1, <2>2 DEF SoundAlone
<1>6. \A i \in PostId : Sends(working[r], i) => Sends(g, i)
  BY <1>2 DEF Sends
<1>7. working[r] # Posts!Idle
  BY <1>2, PostKinds
<1> QED
  BY <1>1, <1>2, <1>3, <1>4, <1>5, <1>6, <1>7, LeavesRows

LEMMA ItsList ==
  ASSUME NEW h \in Posts!Handler, NEW t, NEW u, NEW n, NEW w, NEW c, NEW x, NEW s, PostSound(h, n, c, x, s)
  PROVE  /\ ListSound(h.list, c, x, s)
         /\ SoundAlone(h, t, w, c, s) /\ (\A j \in PostId \ {h.id} : u[j] = t[j]) =>
              ListAlone(h.list, u, c, s)
<1>1. ListSound(h.list, c, x, s)
  BY DEF PostSound, Allowed, HoldsPost, ListSound
<1>2. ASSUME SoundAlone(h, t, w, c, s), \A j \in PostId \ {h.id} : u[j] = t[j]
      PROVE  ListAlone(h.list, u, c, s)
  BY <1>2 DEF SoundAlone, AllowedAlone, ListAlone
<1> QED
  BY <1>1, <1>2

LEMMA EndKeeps ==
  ASSUME PostInv, NEW r \in Request, Posts!End(r)
  PROVE  PostInv'
<1>1. PICK h : h = working[r]
  OBVIOUS
<1>2. PICK i : i = h.id
  OBVIOUS
<1>3. PICK e : e = Posts!Outcome(h)
  OBVIOUS
<1>4. working[r].pc = "channel" /\ h.pc = "channel" /\ h.left = {}
  BY <1>1 DEF Posts!End, Posts!At
<1>5. /\ h \in Posts!Handler /\ i \in PostId /\ i \notin retracted /\ h.post \in Posts!Post
      /\ PostSound(h, posted, cleared, retracted, settings)
  BY <1>1, <1>2, <1>4, InFlight DEF Posts!Handler
<1>6. /\ e \in Posts!Post /\ e.status = (IF h.errors THEN "FAILED" ELSE "PUBLISHED")
      /\ e.platforms = h.post.platforms /\ e.text = h.post.text
  <2>1. CASE h.errors
    <3>1. e = [h.post EXCEPT !.status = "FAILED"]
      BY <1>3, <2>1 DEF Posts!Outcome
    <3> QED
      BY <1>5, <2>1, <3>1 DEF Posts!Post, Posts!Status
  <2>2. CASE ~ h.errors
    <3>1. e = [h.post EXCEPT !.status = "PUBLISHED", !.scheduledAt = 0]
      BY <1>3, <2>2 DEF Posts!Outcome
    <3> QED
      BY <1>5, <2>2, <3>1 DEF Posts!Post, Posts!Status
  <2> QED
    BY <2>1, <2>2
<1>7. /\ posts' = [posts EXCEPT ![i] = e] /\ cleared' = cleared /\ retracted' = retracted
      /\ Posts!Goes(r) /\ UNCHANGED <<settings, Posts!channels, clock, limit, used>>
  BY <1>1, <1>2, <1>3 DEF Posts!End
<1>8. retracted \in SUBSET PostId /\ cleared \in [PostId -> Posts!Clearance]
  BY DEF PostInv, Posts!TypeOK
<1>9. ListSound(h.list, cleared, retracted, settings)
  BY <1>5, ItsList
<1>10. PICK g \in Posts!Handler :
         /\ Posts!Become(r, g) /\ Fit(g, posted, cleared, retracted, settings)
         /\ \A t, w : ListAlone(h.list, t, cleared, settings) => SoundAlone(g, t, w, cleared, settings)
  BY <1>1, <1>5, <1>7, <1>8, <1>9, GoesIs
<1>11. e.status = "PUBLISHED" => \A k \in e.platforms : posted[i][k] > 0
  BY <1>2, <1>4, <1>5, <1>6 DEF PostSound
<1>12. e.status # "PUBLISHING" /\ e.status \notin Shown
  BY <1>6 DEF Shown
<1>13. \A j \in PostId \ {i} : posts'[j] = posts[j]
  BY <1>7 DEF PostInv, Posts!TypeOK
<1>14. ASSUME used.overlaps = 0
       PROVE  /\ SoundAlone(g, posts', went, cleared, settings)
              /\ e.status = "PUBLISHED" => \A k \in e.platforms : went[i][k] = e.text
              /\ used.refusals = 0 =>
                   Unrefused(g, posted) /\ \A k \in Channel : posted[i][k] > 0 => e.status \in Out
  <2>1. /\ SoundAlone(h, posts, went, cleared, settings)
        /\ used.refusals = 0 => Unrefused(h, posted)
    BY <1>1, <1>4, <1>14, InFlight
  <2>2. ListAlone(h.list, posts', cleared, settings)
    BY <1>2, <1>5, <1>13, <2>1, ItsList
  <2>3. SoundAlone(g, posts', went, cleared, settings)
    BY <1>10, <2>2
  <2>4. e.status = "PUBLISHED" => \A k \in e.platforms : went[i][k] = e.text
    BY <1>2, <1>4, <1>6, <2>1 DEF SoundAlone
  <2>5. used.refusals = 0 => Unrefused(g, posted) /\ e.status \in Out
    BY <1>6, <1>10, <2>1 DEF Unrefused, Fit, Out
  <2> QED
    BY <2>3, <2>4, <2>5
<1>15. StillCleared(cleared, cleared') /\ cleared' \in [PostId -> Posts!Clearance]
       /\ \A j \in PostId \ {i} : cleared'[j] = cleared[j]
  BY <1>7, <1>8 DEF StillCleared
<1>16. retracted' \subseteq retracted \union {i} /\ i \notin retracted'
  BY <1>5, <1>7
<1>17. /\ PostSound(g, posted, cleared', retracted', settings)
       /\ used.overlaps = 0 => SoundAlone(g, posts', went, cleared', settings)
  BY <1>7, <1>10, <1>14 DEF Fit
<1>18. used.overlaps = 0 =>
         /\ SoundAlone(g, posts', went, cleared', settings)
         /\ e.status = "PUBLISHED" => \A k \in e.platforms : went[i][k] = e.text
         /\ settings.ownerApprovalRequired /\ e.status \in Shown => cleared'[i] = "now"
         /\ used.refusals = 0 =>
              Unrefused(g, posted) /\ \A k \in Channel : posted[i][k] > 0 => e.status \in Out
  BY <1>12, <1>14, <1>17
<1>19. /\ i = working[r].id /\ working[r].pc # "idle" /\ Posts!Become(r, g)
       /\ i \in retracted' =>
            e.status \in {"CANCELLED", "deleted"} /\ \A q \in Request \ {r} : ~ HoldsPost(working[q], i)
       /\ settings.ownerApprovalRequired /\ e.status \in Shown => cleared'[i] # "never"
       /\ e.status = "PUBLISHING" => Sends(g, i)
  BY <1>1, <1>2, <1>4, <1>10, <1>12, <1>16
<1> QED
  BY <1>5, <1>6, <1>7, <1>11, <1>15, <1>16, <1>17, <1>18, <1>19, WritesItsRow

-----------------------------------------------------------------------------
(* Failures, the clock and new posts *)

LEMMA ThrowIs ==
  ASSUME PostInv, Posts!Throw
  PROVE  /\ used' \in Posts!Counters /\ used'.failures # 0 /\ used'.overlaps = used.overlaps
         /\ used'.refusals = used.refusals
<1>1. used \in Posts!Counters /\ used.failures \in Nat
  BY DEF PostInv, Posts!TypeOK, Posts!Counters
<1>2. used' = [used EXCEPT !.failures = used.failures + 1]
  BY DEF Posts!Throw
<1> QED
  BY <1>1, <1>2 DEF Posts!Counters

LEMMA PostCallThrowsKeeps ==
  ASSUME PostInv, NEW r \in Request, Posts!CallThrows(r)
  PROVE  PostInv'
<1>1. PICK h : h = working[r]
  OBVIOUS
<1>2. /\ h \in Posts!Handler /\ PostSound(h, posted, cleared, retracted, settings)
      /\ retracted \in SUBSET PostId
  BY <1>1 DEF PostInv, Posts!TypeOK
<1>3. working[r] # Posts!Idle /\ Posts!Goes(r) /\ Still
  BY DEF Posts!CallThrows, Still
<1>4. ListSound(h.list, cleared, retracted, settings)
  BY <1>2, ItsList
<1>5. PICK g \in Posts!Handler :
        /\ Posts!Become(r, g) /\ Fit(g, posted, cleared, retracted, settings)
        /\ \A t, w : ListAlone(h.list, t, cleared, settings) => SoundAlone(g, t, w, cleared, settings)
  BY <1>1, <1>2, <1>3, <1>4, GoesIs
<1>6. ASSUME used.overlaps = 0 PROVE SoundAlone(g, posts, went, cleared, settings)
  <2>1. SoundAlone(h, posts, went, cleared, settings)
    BY <1>1, <1>6 DEF PostInv, Alike
  <2>2. ListAlone(h.list, posts, cleared, settings)
    BY <1>2, <2>1, ItsList
  <2> QED
    BY <1>5, <2>2
<1>7. Posts!Throw
  BY DEF Posts!CallThrows
<1> QED
  BY <1>3, <1>5, <1>6, <1>7, ThrowIs, LeavesRows DEF Fit, Unrefused

LEMMA PostCrashKeeps ==
  ASSUME PostInv, Posts!Crash
  PROVE  PostInv'
<1>1. /\ posts' = posts /\ settings' = settings /\ posted' = posted /\ went' = went
      /\ cleared' = cleared /\ retracted' = retracted /\ clock' = clock /\ limit' = limit
      /\ working' = [q \in Request |-> Posts!Idle]
  BY DEF Posts!Crash, Posts!channels
<1>2. /\ used' \in Posts!Counters /\ used'.failures # 0 /\ used'.overlaps = used.overlaps
      /\ used'.refusals = used.refusals
  BY ThrowIs DEF Posts!Crash
<1>3. Posts!TypeOK'
  BY <1>1, <1>2, PostKinds DEF PostInv, Posts!TypeOK
<1>4. RowsHold(posts, posted, cleared, retracted, settings)'
  BY <1>1 DEF PostInv
<1>5. \A q \in Request : PostSound(working'[q], posted', cleared', retracted', settings')
  BY <1>1, <1>3, PostKinds DEF Posts!TypeOK
<1>6. Alike'
  BY <1>1, <1>2, PostKinds DEF PostInv, Alike
<1> QED
  BY <1>2, <1>3, <1>4, <1>5, <1>6 DEF PostInv

LEMMA PassesKeeps ==
  ASSUME PostInv, Posts!Passes
  PROVE  PostInv'
<1>1. /\ posts' = posts /\ settings' = settings /\ posted' = posted /\ went' = went
      /\ cleared' = cleared /\ retracted' = retracted /\ working' = working /\ limit' = limit /\ used' = used
      /\ clock' = clock + 1
  BY DEF Posts!Passes, Posts!channels
<1> QED
  BY <1>1 DEF PostInv, Posts!TypeOK, Alike

\* A post that is not there yet is in nobody's hands, as long as handlers do not overlap.
LEMMA CreatePostKeeps ==
  ASSUME PostInv, NEW i \in PostId, NEW p \in Targets, Posts!CreatePost(i, p)
  PROVE  PostInv'
<1>1. /\ settings' = settings /\ posted' = posted /\ went' = went /\ cleared' = cleared
      /\ retracted' = retracted /\ clock' = clock /\ working' = working /\ limit' = limit
      /\ posts[i].status = "none" /\ used' = [used EXCEPT !.calls = used.calls + 1]
  BY DEF Posts!CreatePost, Posts!channels
<1>2. PICK e : e = [status |-> "DRAFT", scheduledAt |-> 0, text |-> used.calls + 1, platforms |-> p]
  OBVIOUS
<1>3. e \in Posts!Post /\ e.status = "DRAFT"
  BY <1>2, ThePost, PostAssumption DEF Posts!Post, Posts!Status
<1>4. posts' = [posts EXCEPT ![i] = e]
  BY <1>2 DEF Posts!CreatePost
<1>5. Posts!TypeOK
  BY DEF PostInv
<1>6. posts' \in [PostId -> Posts!Post] /\ posts'[i] = e /\ \A j \in PostId \ {i} : posts'[j] = posts[j]
  BY <1>3, <1>4, <1>5 DEF Posts!TypeOK
<1>7. /\ used' \in Posts!Counters /\ used'.overlaps = used.overlaps /\ used'.failures = used.failures
      /\ used'.refusals = used.refusals
  <2>1. used \in Posts!Counters /\ used.calls + 1 \in Nat
    BY <1>5, ThePost DEF Posts!TypeOK
  <2> QED
    BY <1>1, <2>1 DEF Posts!Counters
<1>8. Posts!TypeOK'
  BY <1>1, <1>5, <1>6, <1>7 DEF Posts!TypeOK
<1>9. RowsHold(posts', posted, cleared, retracted, settings)
  <2>1. RowsHold(posts, posted, cleared, retracted, settings) /\ retracted \subseteq PostId
    BY <1>5 DEF PostInv, Posts!TypeOK
  <2>2. i \notin retracted
    BY <1>1, <2>1 DEF RowsHold
  <2> QED
    BY <1>3, <1>6, <2>1, <2>2 DEF RowsHold, Shown
<1>10. ASSUME used'.failures = 0, NEW j \in PostId, posts'[j].status = "PUBLISHING"
       PROVE  \E r \in Request : Sends(working[r], j)
  BY <1>3, <1>6, <1>7, <1>10 DEF PostInv
<1>11. Alike'
  <2> SUFFICES ASSUME used.overlaps = 0
               PROVE  /\ RowsAlone(posts', went, cleared, settings)
                      /\ \A r \in Request : SoundAlone(working[r], posts', went, cleared, settings)
                      /\ used.refusals = 0 => Once(posts', posted)
    BY <1>1, <1>7 DEF PostInv, Alike
  <2>1. /\ RowsAlone(posts, went, cleared, settings)
        /\ used.refusals = 0 => Once(posts, posted)
    BY DEF PostInv, Alike
  <2>2. RowsAlone(posts', went, cleared, settings)
    BY <1>3, <1>6, <2>1 DEF RowsAlone, Shown
  <2>3. ASSUME NEW r \in Request PROVE SoundAlone(working[r], posts', went, cleared, settings)
    <3>1. PICK h : h = working[r]
      OBVIOUS
    <3>2. /\ SoundAlone(h, posts, went, cleared, settings) /\ (h.pc # "idle" => h.id \in PostId)
      BY <3>1 DEF PostInv, Alike, PostSound
    <3>3. h.pc \in {"save", "delete", "begin", "channel"} => h.id \in PostId \ {i}
      BY <1>1, <3>2 DEF SoundAlone, Posts!Editable, Posts!Publishable
    <3>4. \A j \in PostId : h.list[j] # Posts!NoPost => j # i
      BY <1>1, <3>2 DEF SoundAlone
    <3>5. SoundAlone(h, posts', went, cleared, settings)
      BY <1>6, <3>2, <3>3, <3>4 DEF SoundAlone
    <3> QED
      BY <3>1, <3>5
  <2>4. used.refusals = 0 => Once(posts', posted)
    BY <1>1, <1>6, <2>1 DEF Once, Out
  <2> QED
    BY <2>2, <2>3, <2>4
<1>12. RowsHold(posts, posted, cleared, retracted, settings)'
  BY <1>1, <1>9
<1>13. \A r \in Request : PostSound(working'[r], posted', cleared', retracted', settings')
  BY <1>1 DEF PostInv
<1> QED
  BY <1>1, <1>8, <1>10, <1>11, <1>12, <1>13 DEF PostInv

LEMMA PostsInit == Posts!Init => PostInv
<1> SUFFICES ASSUME Posts!Init PROVE PostInv
  OBVIOUS
<1>1. \A i \in PostId : posts[i] = Posts!NoPost
  BY DEF Posts!Init, Posts!NoList
<1>2. Posts!NoPost.status = "none"
  BY DEF Posts!NoPost
<1>3. Posts!TypeOK
  BY PostKinds DEF Posts!Init, Posts!TypeOK, Posts!Clearance, Posts!Counters
<1>4. RowsHold(posts, posted, cleared, retracted, settings)
  BY <1>1, <1>2 DEF Posts!Init, RowsHold, Shown
<1>5. retracted \in SUBSET PostId /\ \A r \in Request : working[r] = Posts!Idle
  BY DEF Posts!Init
<1>6. \A r \in Request : PostSound(working[r], posted, cleared, retracted, settings)
  BY <1>5, PostKinds
<1>7. RowsAlone(posts, went, cleared, settings) /\ Once(posts, posted)
  BY <1>1, <1>2 DEF Posts!Init, RowsAlone, Once, Shown
<1>8. Alike
  BY <1>5, <1>7, PostKinds DEF Alike
<1> QED
  BY <1>1, <1>2, <1>3, <1>4, <1>6, <1>8 DEF PostInv

LEMMA PostsInductive == PostInv /\ [Posts!Next]_(Posts!vars) => PostInv'
<1> SUFFICES ASSUME PostInv, [Posts!Next]_(Posts!vars) PROVE PostInv'
  OBVIOUS
<1>1. CASE UNCHANGED Posts!vars
  BY <1>1 DEF Posts!vars, PostInv, Posts!TypeOK, Alike
<1>2. CASE Posts!Crash
  BY <1>2, PostCrashKeeps
<1>3. CASE Posts!Passes
  BY <1>3, PassesKeeps
<1>4. ASSUME NEW i \in PostId, NEW p \in Targets, Posts!CreatePost(i, p) PROVE PostInv'
  BY <1>4, CreatePostKeeps
<1>5. ASSUME NEW r \in Request,
             Posts!Call(r) \/ Posts!Save(r) \/ Posts!Delete(r) \/ Posts!Tick(r) \/ Posts!Publish(r) \/ Posts!CallThrows(r)
      PROVE  PostInv'
  <2>1. CASE Posts!Call(r)
    BY <2>1, CallKeeps
  <2>2. CASE Posts!Save(r)
    BY <2>2, SaveKeeps
  <2>3. CASE Posts!Delete(r)
    BY <2>3, DeleteKeeps
  <2>4. CASE Posts!Tick(r)
    BY <2>4, TickKeeps
  <2>5. CASE Posts!Begin(r)
    BY <2>5, BeginKeeps
  <2>6. CASE Posts!End(r)
    BY <2>6, EndKeeps
  <2>7. CASE \E c \in Channel : Posts!Accepted(r, c) \/ Posts!Refused(r, c)
    BY <2>7, AcceptedKeeps, RefusedKeeps
  <2>8. CASE Posts!CallThrows(r)
    BY <2>8, PostCallThrowsKeeps
  <2> QED
    BY <1>5, <2>1, <2>2, <2>3, <2>4, <2>5, <2>6, <2>7, <2>8 DEF Posts!Publish
<1> QED
  BY <1>1, <1>2, <1>3, <1>4, <1>5 DEF Posts!Next

-----------------------------------------------------------------------------
(* What follows *)

LEMMA StatusFollows == PostInv => Posts!StatusIsTrue
<1> SUFFICES ASSUME PostInv, NEW i \in PostId
             PROVE  /\ used.failures = 0 /\ posts[i].status = "PUBLISHING" =>
                         \E r \in Request : working[r].id = i /\ Posts!At(r, "channel")
                    /\ posts[i].status = "PUBLISHED" =>
                         \A c \in posts[i].platforms :
                           posted[i][c] > 0 /\ (used.overlaps = 0 => went[i][c] = posts[i].text)
                    /\ used.overlaps = 0 /\ used.refusals = 0 => \A c \in Channel : posted[i][c] <= 1
  BY DEF Posts!StatusIsTrue
<1>1. used.failures = 0 /\ posts[i].status = "PUBLISHING" =>
        \E r \in Request : working[r].id = i /\ Posts!At(r, "channel")
  BY DEF PostInv, Sends, Posts!At
<1>2. posts[i].status = "PUBLISHED" =>
        \A c \in posts[i].platforms :
          posted[i][c] > 0 /\ (used.overlaps = 0 => went[i][c] = posts[i].text)
  BY DEF PostInv, RowsHold, Alike, RowsAlone
<1>3. used.overlaps = 0 /\ used.refusals = 0 => \A c \in Channel : posted[i][c] <= 1
  BY DEF PostInv, Alike, Once
<1> QED
  BY <1>1, <1>2, <1>3

\* What a channel takes is of a handler at it.
LEMMA WhoSends ==
  ASSUME PostInv, [Posts!Next]_(Posts!vars), NEW i \in PostId, posted'[i] # posted[i]
  PROVE  \E r \in Request : Sends(working[r], i)
<1>1. PICK r \in Request, c \in Channel : Posts!Accepted(r, c)
  BY DEF Posts!Next, Posts!vars, Posts!Call, Posts!Save, Posts!Delete, Posts!Tick, Posts!Publish, Posts!CallThrows, Posts!Begin, Posts!End, Posts!Refused, Posts!Gone,
     Posts!CreatePost, Posts!Crash, Posts!Passes, Posts!channels
<1>2. working[r].pc = "channel"
  BY <1>1 DEF Posts!Accepted, Posts!Gone, Posts!At
<1>3. PICK j : j = working[r].id
  OBVIOUS
<1>4. j \in PostId
  BY <1>2, <1>3, InFlight
<1>5. j = i
  <2>1. PICK v : posted' = [posted EXCEPT ![j][c] = v]
    BY <1>1, <1>3 DEF Posts!Accepted
  <2> QED
    BY <2>1 DEF PostInv, Posts!TypeOK
<1> QED
  BY <1>2, <1>3, <1>5 DEF Sends

LEMMA ApprovalStep ==
  PostInv /\ [Posts!Next]_(Posts!vars) =>
    \A i \in PostId : settings.ownerApprovalRequired /\ posted'[i] # posted[i] =>
      /\ cleared[i] # "never"
      /\ used.overlaps = 0 => cleared[i] = "now"
<1> SUFFICES ASSUME PostInv, [Posts!Next]_(Posts!vars), NEW i \in PostId,
                    settings.ownerApprovalRequired, posted'[i] # posted[i]
             PROVE  cleared[i] # "never" /\ (used.overlaps = 0 => cleared[i] = "now")
  OBVIOUS
<1>1. PICK r \in Request : Sends(working[r], i)
  BY WhoSends
<1>2. PostSound(working[r], posted, cleared, retracted, settings)
      /\ (used.overlaps = 0 => SoundAlone(working[r], posts, went, cleared, settings))
  BY DEF PostInv, Alike
<1> QED
  BY <1>1, <1>2 DEF Sends, PostSound, Allowed, SoundAlone, AllowedAlone

\* Only a handler that holds a post, or the call that makes it, writes its row.
LEMMA WhoWrites ==
  ASSUME PostInv, [Posts!Next]_(Posts!vars), NEW i \in PostId, posts'[i] # posts[i]
  PROVE  (\E r \in Request : HoldsPost(working[r], i)) \/ posts[i].status = "none"
<1>1. \/ \E r \in Request : Posts!Save(r) \/ Posts!Delete(r) \/ Posts!Begin(r) \/ Posts!End(r)
      \/ \E j \in PostId, p \in Targets : Posts!CreatePost(j, p)
  BY DEF Posts!Next, Posts!vars, Posts!Call, Posts!Tick, Posts!Publish, Posts!CallThrows, Posts!Accepted, Posts!Refused, Posts!Gone, Posts!Crash, Posts!Passes
<1>2. ASSUME NEW r \in Request, Posts!Save(r) \/ Posts!Delete(r) \/ Posts!Begin(r) \/ Posts!End(r)
      PROVE  HoldsPost(working[r], i)
  <2>1. PICK j : j = working[r].id
    OBVIOUS
  <2>2. working[r].pc # "idle"
    BY <1>2 DEF Posts!Save, Posts!Delete, Posts!Begin, Posts!End, Posts!At
  <2>3. j \in PostId
    BY <2>1, <2>2, InFlight
  <2>4. \E v : posts' = [posts EXCEPT ![j] = v]
    BY <1>2, <2>1 DEF Posts!Save, Posts!Delete, Posts!Begin, Posts!End
  <2>5. i = j
    BY <2>3, <2>4 DEF PostInv, Posts!TypeOK
  <2> QED
    BY <2>1, <2>5 DEF HoldsPost
<1>3. ASSUME NEW j \in PostId, NEW p \in Targets, Posts!CreatePost(j, p)
      PROVE  posts[i].status = "none"
  <2>1. \E v : posts' = [posts EXCEPT ![j] = v]
    BY <1>3 DEF Posts!CreatePost
  <2>2. i = j
    BY <2>1 DEF PostInv, Posts!TypeOK
  <2> QED
    BY <1>3, <2>2 DEF Posts!CreatePost
<1> QED
  BY <1>1, <1>2, <1>3

LEMMA WithdrawnStep ==
  PostInv /\ [Posts!Next]_(Posts!vars) => \A i \in retracted : posted'[i] = posted[i] /\ posts'[i] = posts[i]
<1> SUFFICES ASSUME PostInv, [Posts!Next]_(Posts!vars), NEW i \in retracted
             PROVE  posted'[i] = posted[i] /\ posts'[i] = posts[i]
  OBVIOUS
<1>1. i \in PostId /\ posts[i].status \in {"CANCELLED", "deleted"}
      /\ \A r \in Request : ~ HoldsPost(working[r], i)
  BY DEF PostInv, Posts!TypeOK, RowsHold, PostSound
<1>2. \A r \in Request : ~ Sends(working[r], i)
  BY <1>1 DEF HoldsPost, Sends
<1> QED
  BY <1>1, <1>2, WhoSends, WhoWrites

-----------------------------------------------------------------------------
(* Side by side *)

\* Campaigns and posts each keep their invariant, whichever of them moves.
LEMMA CampaignsInductive ==
  /\ BothInit => IInv /\ AInv
  /\ IInv /\ AInv /\ [BothNext]_bothVars => IInv' /\ AInv'
<1>1. BothInit => IInv /\ AInv
  BY InitIInv, InitAlone DEF BothInit
<1>2. ASSUME IInv, AInv, [BothNext]_bothVars PROVE IInv' /\ AInv'
  <2>1. [Next]_vars
    BY <1>2 DEF BothNext, bothVars
  <2> QED
    BY <1>2, <2>1, Inductive, InductiveAlone
<1> QED
  BY <1>1, <1>2

LEMMA PostsAlways ==
  /\ BothInit => PostInv
  /\ PostInv /\ [BothNext]_bothVars => PostInv'
  /\ [BothNext]_bothVars => [Posts!Next]_(Posts!vars)
<1>1. BothInit => PostInv
  BY PostsInit DEF BothInit
<1>2. [BothNext]_bothVars => [Posts!Next]_(Posts!vars)
  BY DEF BothNext, bothVars, postVars, Posts!vars
<1> QED
  BY <1>1, <1>2, PostsInductive

(* The rows, the handlers and the history keep their types, an entity held *)
(* in memory included.                                                     *)
THEOREM TypeCorrect == BothSpec => []BothTypeOK
<1>1. IInv /\ PostInv => BothTypeOK
  BY DEF IInv, PostInv, BothTypeOK
<1> QED
  BY <1>1, CampaignsInductive, PostsAlways, PTL DEF BothSpec

(* A campaign cancelled while no drain was at it is never sent, however many *)
(* drains, edits and cancellations overlap, fail or are cut off.             *)
THEOREM CancelledIsKept == BothSpec => []WithdrawnNeverRuns
<1>1. IInv => WithdrawnNeverRuns
  BY DEF IInv, Withheld, WithdrawnNeverRuns
<1> QED
  BY <1>1, CampaignsInductive, PTL DEF BothSpec

(* As long as no call throws and the process does not end, a scheduled       *)
(* campaign that says running is in the hands of a handler.                  *)
THEOREM RunningHeld == BothSpec => []RunningIsHeld
<1>1. IInv => RunningIsHeld
  BY DEF IInv, Under, Runs, AtWork, Running, Has, RunningIsHeld
<1> QED
  BY <1>1, CampaignsInductive, PTL DEF BothSpec

(* As long as handlers do not overlap, a campaign goes to its recipients     *)
(* once, with one reminder for its time, and a reference is scheduled once,  *)
(* whatever calls throw and however often the process ends.                  *)
THEOREM RunOnlyOnce == BothSpec => []RunsOnce
<1>1. AInv => RunsOnce
  <2> SUFFICES ASSUME AInv, Serial
               PROVE  /\ \A i \in RowId : ran[i] <= 1 /\ reminders[i] <= 1
                      /\ \A i, j \in RowId : \A ref : Claims(rows[i], ref) /\ Claims(rows[j], ref) => i = j
    BY DEF RunsOnce, Claims
  <2> QED
    BY DEF AInv, Table, RowFits
<1> QED
  BY <1>1, CampaignsInductive, PTL DEF BothSpec

(* As long as handlers do not overlap, what goes out is the text of the last *)
(* edit a caller was told of.                                                *)
THEOREM EditsAreSent == BothSpec => []EditIsSent
<1>1. AInv => EditIsSent
  BY DEF AInv, Table, RowFits, EditIsSent
<1> QED
  BY <1>1, CampaignsInductive, PTL DEF BothSpec

(* Where posts need an approval, none goes out that nobody with the right to *)
(* has let through; unless handlers overlap, since the last time somebody    *)
(* without it has set its time or submitted it.                              *)
THEOREM ApprovalsHold == BothSpec => ApprovalHolds
<1>1. PostInv /\ [Posts!Next]_(Posts!vars) =>
        [\A i \in PostId : settings.ownerApprovalRequired /\ posted'[i] # posted[i] =>
           /\ cleared[i] # "never"
           /\ used.overlaps = 0 => cleared[i] = "now"]_(Posts!vars)
  BY ApprovalStep
<1> QED
  BY <1>1, PostsAlways, PTL DEF BothSpec, ApprovalHolds, Posts!ApprovalHolds

(* A post cancelled or deleted while no other handler has it in memory       *)
(* neither goes out nor comes back, whatever overlaps or fails.              *)
THEOREM WithdrawnPostsStay == BothSpec => WithdrawnStays
<1>1. PostInv /\ [Posts!Next]_(Posts!vars) =>
        [\A i \in retracted : posted'[i] = posted[i] /\ posts'[i] = posts[i]]_(Posts!vars)
  BY WithdrawnStep
<1> QED
  BY <1>1, PostsAlways, PTL DEF BothSpec, WithdrawnStays, Posts!WithdrawnStays

(* A post that says PUBLISHING is in the hands of a handler, unless a call   *)
(* has thrown; one that says PUBLISHED is on all its channels, and, unless   *)
(* handlers overlap, in the words of its row and once.                       *)
THEOREM StatusesAreTrue == BothSpec => []StatusIsTrue
<1>1. PostInv => StatusIsTrue
  BY StatusFollows DEF StatusIsTrue
<1> QED
  BY <1>1, PostsAlways, PTL DEF BothSpec
=============================================================================
