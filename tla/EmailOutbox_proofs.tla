------------------------- MODULE EmailOutbox_proofs -------------------------
(***************************************************************************)
(* Proofs about EmailOutbox, for any number of handlers, keys and rows.    *)
(*                                                                         *)
(* That a row says sent only when its message has been taken is not        *)
(* inductive: a handler writes back an entity it has read long before, and *)
(* the entities of drains and retries are written without a look at the    *)
(* row.  The invariant says of every entity in memory what is said of the  *)
(* rows, and that the entity around processById never says sent.           *)
(*                                                                         *)
(* The second part is about handlers that run one at a time, as in the     *)
(* regime "serial" of MCEmailOutbox: one mail under one key, and the       *)
(* suppression of the recipients refused for good.                         *)
(***************************************************************************)
EXTENDS EmailOutbox, TLAPS

(* The handler works on a row. *)
Placed == {"read", "send", "saveSent", "saveFailed", "bounceRead", "bounceSave", "suppress",
           "count", "mark", "save"}

(* The entities a handler holds say sent only of a message taken, by the count d. *)
Sound(h, d) ==
  /\ h.pc \in Placed => h.id \in RowId
  /\ h.outer.status # "sent"
  /\ h.row.status = "sent" => h.pc \in Placed /\ d[h.id] > 0

(* What spent holds, as TypeOK says it. *)
Counters == [enqueues : Nat, retries : Nat, opens : Nat, refusals : Nat, failures : Nat]

(* What the rows in table o say of themselves is so, by the count d. *)
Truthful(o, d) == \A i \in RowId : o[i].status = "sent" => d[i] > 0

IInv ==
  /\ TypeOK
  /\ Truthful(outbox, delivered)
  /\ \A r \in Request : Sound(req[r], delivered)

-----------------------------------------------------------------------------
(* Rows and handlers *)

LEMMA IdleSound == NoRow \in Row /\ Idle \in Handler /\ \A d : Sound(Idle, d)
<1>1. NoRow \in Row
  BY DEF NoRow, Row, BounceClass
<1>2. Idle \in Handler
  BY <1>1 DEF Idle, Handler, BounceClass
<1>3. \A d : Sound(Idle, d)
  BY DEF Idle, Sound, Placed, NoRow
<1> QED
  BY <1>1, <1>2, <1>3

LEMMA NextRowSound ==
  ASSUME NEW h \in Handler, NEW d
  PROVE  NextRow(h) \in Handler /\ Sound(NextRow(h), d)
<1> DEFINE g == [Idle EXCEPT !.kind = h.kind, !.pc = IF h.kind = "drain" THEN "take" ELSE "find",
                             !.list = h.list]
<1>1. g \in Handler
  BY IdleSound DEF Handler
<1>2. Sound(g, d)
  BY IdleSound DEF Idle, Sound, Placed, NoRow
<1> QED
  BY <1>1, <1>2, IdleSound DEF NextRow

LEMMA ReturnedSound ==
  ASSUME NEW h \in Handler, NEW d
  PROVE  Returned(h) \in Handler /\ Sound(Returned(h), d)
BY NextRowSound, IdleSound DEF Returned

LEMMA ThrewSound ==
  ASSUME NEW h \in Handler, NEW d, Sound(h, d), h.pc \in Placed
  PROVE  Threw(h) \in Handler /\ Sound(Threw(h), d)
<1> DEFINE g == [h EXCEPT !.pc = "count", !.row = NoRow, !.bounce = "none"]
<1>1. g \in Handler
  BY IdleSound DEF Handler, BounceClass
<1>2. Sound(g, d)
  BY DEF Sound, Handler, Placed, NoRow
<1> QED
  BY <1>1, <1>2, IdleSound DEF Threw

LEMMA FailedSound ==
  ASSUME NEW h \in Handler, NEW d, Sound(h, d), h.pc \in Placed,
         NEW class \in BounceClass
  PROVE  Failed(h, class) \in Handler /\ Sound(Failed(h, class), d)
<1>1. [h.row EXCEPT !.status = "failed"] \in Row
  BY DEF Handler, Row
<1>2. Failed(h, class) \in Handler
  BY <1>1 DEF Failed, Handler
<1>3. /\ Failed(h, class).pc = "saveFailed" /\ Failed(h, class).id = h.id
      /\ Failed(h, class).outer = h.outer
      /\ Failed(h, class).row.status = "failed"
  BY DEF Failed, Handler, Row
<1> QED
  BY <1>2, <1>3 DEF Sound, Placed

LEMMA TakingSound ==
  ASSUME NEW h \in Handler, NEW d, Sound(h, d), h.pc \notin Placed,
         NEW i \in RowId, NEW e \in Row, e.status # "sent",
         NEW pc \in {"read", "count", "mark"}
  PROVE  Taking(h, i, e, pc) \in Handler /\ Sound(Taking(h, i, e, pc), d)
<1>1. [h.list EXCEPT ![i] = NoRow] \in [RowId -> Row]
  BY IdleSound DEF Handler
<1>2. Taking(h, i, e, pc) \in Handler
  BY <1>1 DEF Taking, Handler
<1>3. Sound(Taking(h, i, e, pc), d)
  BY DEF Taking, Handler, Sound, Placed
<1> QED
  BY <1>2, <1>3

LEMMA ThrownSound ==
  ASSUME NEW h \in Handler, NEW d, Sound(h, d)
  PROVE  Thrown(h) \in Handler /\ Sound(Thrown(h), d)
<1>1. CASE h.pc \in {"send", "saveSent"}
  BY <1>1, FailedSound DEF Thrown, Placed, BounceClass
<1>2. CASE h.pc \in {"read", "saveFailed", "bounceRead", "bounceSave", "suppress"}
  BY <1>2, ThrewSound DEF Thrown, Placed
<1>3. CASE h.pc \notin {"send", "saveSent", "read", "saveFailed", "bounceRead", "bounceSave",
                        "suppress"}
  BY <1>3, IdleSound DEF Thrown
<1> QED
  BY <1>1, <1>2, <1>3

LEMMA MarkedSound ==
  ASSUME NEW e \in Row
  PROVE  Marked(e) \in Row /\ Marked(e).status = "pending"
BY DEF Marked, Row

-----------------------------------------------------------------------------
(* One handler moves: the invariant asks only of that handler, and of what it *)
(* has written.                                                               *)

LEMMA OneMoves ==
  ASSUME IInv, NEW r \in Request, NEW h \in Handler,
         req' = [req EXCEPT ![r] = h],
         Sound(h, delivered'),
         outbox' \in [RowId -> Row],
         delivered' \in [RowId -> 0 .. 2],
         \A i \in RowId : delivered[i] > 0 => delivered'[i] > 0,
         Truthful(outbox', delivered'),
         suppressed' \in BOOLEAN,
         spent' \in Counters
  PROVE  IInv'
<1>1. req' \in [Request -> Handler]
  BY DEF IInv, TypeOK, Counters
<1>2. \A q \in Request : Sound(req'[q], delivered')
  <2> SUFFICES ASSUME NEW q \in Request PROVE Sound(req'[q], delivered')
    OBVIOUS
  <2>1. CASE q = r
    BY <2>1 DEF IInv, TypeOK, Counters
  <2>2. CASE q # r
    BY <2>2 DEF IInv, TypeOK, Counters, Sound
  <2> QED
    BY <2>1, <2>2
<1> QED
  BY <1>1, <1>2 DEF IInv, TypeOK, Counters

\* A handler moves and leaves the rows, the server and the list alone.
LEMMA MovesOnly ==
  ASSUME IInv, NEW r \in Request, NEW h \in Handler,
         req' = [req EXCEPT ![r] = h], Sound(h, delivered),
         UNCHANGED <<outbox, suppressed, delivered>>,
         spent' \in Counters
  PROVE  IInv'
BY OneMoves DEF IInv, TypeOK, Counters

\* A handler writes a row, saying nothing of it that is not so.
LEMMA Writes ==
  ASSUME IInv, NEW r \in Request, NEW h \in Handler, NEW i \in RowId, NEW e \in Row,
         e.status = "sent" => delivered[i] > 0,
         Write(i, e), Become(r, h), Sound(h, delivered),
         UNCHANGED <<suppressed, delivered, spent>>
  PROVE  IInv'
<1>1. outbox' \in [RowId -> Row] /\ Truthful(outbox', delivered)
  BY DEF IInv, TypeOK, Counters, Write, Truthful
<1> QED
  BY <1>1, OneMoves DEF IInv, TypeOK, Counters, Become

-----------------------------------------------------------------------------
(* The steps *)

LEMMA StartKeeps ==
  ASSUME IInv, NEW r \in Request, Start(r) PROVE IInv'
<1> USE DEF Begin
<1>0. /\ spent \in Counters
      /\ outbox \in [RowId -> Row]
  BY DEF IInv, TypeOK, Counters
<1>1. ASSUME NEW k \in Key, Enqueue(r, k) PROVE IInv'
  <2> DEFINE h == [Idle EXCEPT !.kind = "enqueue", !.pc = "check", !.key = k]
  <2>1. h \in Handler /\ Sound(h, delivered)
    BY IdleSound DEF Handler, Idle, Sound, Placed, NoRow
  <2> QED
    <3>1. spent' \in Counters
      BY <1>0, <1>1 DEF Enqueue, Counters
    <3>2. req' = [req EXCEPT ![r] = h] /\ UNCHANGED <<outbox, suppressed, delivered>>
      BY <1>1 DEF Enqueue
    <3> HIDE DEF h
    <3> QED
      BY <2>1, <3>1, <3>2, MovesOnly
<1>2. CASE Drain(r)
  <2> DEFINE l == [i \in RowId |-> IF Listed(i) /\ Drained(outbox[i]) THEN outbox[i] ELSE NoRow]
             h == [Idle EXCEPT !.kind = "drain", !.pc = "take", !.list = l]
  <2>1. l \in [RowId -> Row]
    BY <1>0, IdleSound
  <2>2. h \in Handler /\ Sound(h, delivered)
    BY <2>1, IdleSound DEF Handler, Idle, Sound, Placed, NoRow
  <2> QED
    BY <1>0, <1>2, <2>2, MovesOnly DEF Drain
<1>3. ASSUME NEW rows, Retry(r, rows) PROVE IInv'
  <2> DEFINE l == [i \in RowId |-> IF i \in rows THEN outbox[i] ELSE NoRow]
             h == [Idle EXCEPT !.kind = "retry", !.pc = "find", !.list = l]
  <2>1. l \in [RowId -> Row]
    BY <1>0, IdleSound
  <2>2. h \in Handler /\ Sound(h, delivered)
    BY <2>1, IdleSound DEF Handler, Idle, Sound, Placed, NoRow
  <2> QED
    <3>1. spent' \in Counters
      BY <1>0, <1>3 DEF Retry, Counters
    <3>2. req' = [req EXCEPT ![r] = h] /\ UNCHANGED <<outbox, suppressed, delivered>>
      BY <1>3 DEF Retry
    <3> HIDE DEF h
    <3> QED
      BY <2>2, <3>1, <3>2, MovesOnly
<1>4. ASSUME NEW i \in RowId, Open(r, i) PROVE IInv'
  <2> DEFINE h == [Idle EXCEPT !.kind = "open", !.pc = "save", !.id = i, !.row = outbox[i]]
  <2>1. h \in Handler
    BY <1>0, IdleSound DEF Handler
  <2>2. /\ h.pc = "save" /\ h.id = i /\ h.row = outbox[i] /\ h.outer = NoRow
    BY DEF Idle
  <2>3. Sound(h, delivered)
    BY <2>2 DEF Sound, Placed, NoRow, IInv, Truthful
  <2> QED
    <3>1. spent' \in Counters
      BY <1>0, <1>4 DEF Open, Counters
    <3>2. req' = [req EXCEPT ![r] = h] /\ UNCHANGED <<outbox, suppressed, delivered>>
      BY <1>4 DEF Open
    <3> HIDE DEF h
    <3> QED
      BY <2>1, <2>3, <3>1, <3>2, MovesOnly
<1> QED
  BY <1>1, <1>2, <1>3, <1>4 DEF Start, RetryById, RetryFailed

LEMMA StepKeeps ==
  ASSUME IInv, NEW r \in Request, Step(r) PROVE IInv'
<1> DEFINE h == req[r]
<1>0. /\ spent \in Counters
      /\ outbox \in [RowId -> Row] /\ delivered \in [RowId -> 0 .. 2]
      /\ h \in Handler /\ Sound(h, delivered) /\ Truthful(outbox, delivered)
  BY DEF IInv, TypeOK, Counters
<1> HIDE DEF h
<1> USE DEF At, Become
<1>1. CASE CheckSuppression(r)
  <2>1. [h EXCEPT !.pc = "insert"] \in Handler
    BY <1>0 DEF Handler
  <2>2. Sound([h EXCEPT !.pc = "insert"], delivered)
    BY <1>0, <1>1 DEF CheckSuppression, h, Handler, Sound, Placed
  <2>3. Checked(h) \in Handler /\ Sound(Checked(h), delivered)
    BY <2>1, <2>2, IdleSound DEF Checked
  <2> QED
    BY <1>0, <1>1, <2>3, MovesOnly DEF CheckSuppression, h
<1>2. CASE Insert(r)
  <2>1. PICK i \in RowId : /\ Write(i, NewRow(h.key))
                           /\ Become(r, [h EXCEPT !.pc = "read", !.id = i])
    BY <1>2 DEF Insert, h
  <2>2. NewRow(h.key) \in Row /\ NewRow(h.key).status # "sent"
    BY <1>0, IdleSound DEF NewRow, NoRow, Row, Handler
  <2>3. h.pc = "insert"
    BY <1>2 DEF Insert, h
  <2>4. [h EXCEPT !.pc = "read", !.id = i] \in Handler
    BY <1>0 DEF Handler
  <2>5. Sound([h EXCEPT !.pc = "read", !.id = i], delivered)
    BY <1>0, <2>3 DEF Handler, Sound, Placed
  <2> QED
    BY <1>2, <2>1, <2>2, <2>4, <2>5, Writes DEF Insert
<1>3. CASE Read(r)
  <2>1. h.id \in RowId
    BY <1>0, <1>3 DEF Read, Sound, Placed, h
  <2> DEFINE g == [h EXCEPT !.pc = "send", !.row = outbox[h.id]]
  <2>2. g \in Handler
    BY <1>0, <2>1 DEF Handler
  <2>3. Sound(g, delivered)
    BY <1>0, <2>1 DEF Handler, Sound, Placed, Truthful
  <2>4. CASE outbox[h.id].status = "sent"
    BY <1>0, <1>3, <2>4, ReturnedSound, MovesOnly DEF Read, h
  <2>5. CASE outbox[h.id].status # "sent"
    BY <1>0, <1>3, <2>2, <2>3, <2>5, MovesOnly DEF Read, h
  <2> QED
    BY <2>4, <2>5
<1>4. CASE SendAccepted(r)
  <2>1. h.pc = "send" /\ h.id \in RowId
    BY <1>0, <1>4 DEF SendAccepted, Sound, Placed, h
  <2> DEFINE g == [h EXCEPT !.pc = "saveSent", !.row.status = "sent"]
  <2>2. delivered' = [delivered EXCEPT ![h.id] = IF @ = 2 THEN 2 ELSE @ + 1]
    BY <1>4 DEF SendAccepted, h
  <2>3. /\ delivered' \in [RowId -> 0 .. 2] /\ delivered'[h.id] > 0
        /\ \A i \in RowId : delivered[i] > 0 => delivered'[i] > 0
    BY <1>0, <2>1, <2>2
  <2>4. [h.row EXCEPT !.status = "sent"] \in Row
    BY <1>0 DEF Handler, Row
  <2>5. g \in Handler
    BY <1>0, <2>4 DEF Handler
  <2>6. g.pc = "saveSent" /\ g.id = h.id /\ g.outer = h.outer
    BY <1>0 DEF Handler
  <2>7. Sound(g, delivered')
    BY <1>0, <2>1, <2>3, <2>6 DEF Sound, Placed
  <2>8. Truthful(outbox, delivered')
    BY <1>0, <2>3 DEF Truthful
  <2>9. req' = [req EXCEPT ![r] = g] /\ UNCHANGED <<outbox, suppressed, spent>>
    BY <1>4 DEF SendAccepted, h
  <2>10. suppressed \in BOOLEAN
    BY DEF IInv, TypeOK, Counters
  <2> HIDE DEF g
  <2> QED
    BY <1>0, <2>3, <2>5, <2>7, <2>8, <2>9, <2>10, OneMoves
<1>5. CASE SendRefused(r)
  <2>1. PICK class \in {"soft", "hard"} : Become(r, Failed(h, class))
    BY <1>5 DEF SendRefused, h
  <2>2. Failed(h, class) \in Handler /\ Sound(Failed(h, class), delivered)
    BY <1>0, <1>5, FailedSound DEF SendRefused, Placed, BounceClass, h
  <2> QED
    <3>1. spent' \in Counters
      BY <1>0, <1>5 DEF SendRefused, Counters
    <3> QED
      BY <1>5, <2>1, <2>2, <3>1, MovesOnly DEF SendRefused
<1>6. CASE SaveSent(r)
  BY <1>0, <1>6, ReturnedSound, Writes DEF SaveSent, Sound, Placed, Handler, h
<1>7. CASE SaveFailed(r)
  <2>1. h.pc = "saveFailed"
    BY <1>7 DEF SaveFailed, h
  <2>2. [h EXCEPT !.pc = "bounceRead"] \in Handler
    BY <1>0 DEF Handler
  <2>3. Sound([h EXCEPT !.pc = "bounceRead"], delivered)
    BY <1>0, <2>1 DEF Handler, Sound, Placed
  <2>4. h.id \in RowId /\ h.row \in Row /\ (h.row.status = "sent" => delivered[h.id] > 0)
    BY <1>0, <2>1 DEF Handler, Sound, Placed
  <2> QED
    BY <1>7, <2>2, <2>3, <2>4, Writes DEF SaveFailed, h
<1>8. CASE BounceRead(r)
  <2>1. h.pc = "bounceRead" /\ h.id \in RowId
    BY <1>0, <1>8 DEF BounceRead, Sound, Placed, h
  <2> DEFINE g == [h EXCEPT !.pc = "bounceSave", !.row = outbox[h.id]]
  <2>2. g \in Handler
    BY <1>0, <2>1 DEF Handler
  <2>3. Sound(g, delivered)
    BY <1>0, <2>1 DEF Handler, Sound, Placed, Truthful
  <2> QED
    BY <1>0, <1>8, <2>2, <2>3, MovesOnly DEF BounceRead, h
<1>9. CASE BounceSave(r)
  <2>1. h.pc = "bounceSave" /\ h.id \in RowId
    BY <1>0, <1>9 DEF BounceSave, Sound, Placed, h
  <2> DEFINE e == [h.row EXCEPT !.bounceClass = h.bounce]
             g == IF Suppresses(h.bounce) THEN [h EXCEPT !.pc = "suppress"] ELSE Threw(h)
  <2>2. e \in Row /\ e.status = h.row.status
    BY <1>0 DEF Handler, Row
  <2>3. e.status = "sent" => delivered[h.id] > 0
    BY <1>0, <2>2 DEF Sound
  <2>4. [h EXCEPT !.pc = "suppress"] \in Handler
    BY <1>0 DEF Handler
  <2>5. Sound([h EXCEPT !.pc = "suppress"], delivered)
    BY <1>0, <2>1 DEF Handler, Sound, Placed
  <2>6. g \in Handler /\ Sound(g, delivered)
    BY <1>0, <2>1, <2>4, <2>5, ThrewSound DEF Placed
  <2>7. Write(h.id, e) /\ Become(r, g) /\ UNCHANGED <<suppressed, delivered, spent>>
    BY <1>9 DEF BounceSave, h
  <2> HIDE DEF e, g
  <2> QED
    BY <2>1, <2>2, <2>3, <2>6, <2>7, Writes
<1>10. CASE Suppress(r)
  <2>1. Threw(h) \in Handler /\ Sound(Threw(h), delivered)
    BY <1>0, <1>10, ThrewSound DEF Suppress, Placed, h
  <2> QED
    BY <1>0, <1>10, <2>1, OneMoves DEF Suppress, h
<1>11. CASE Take(r)
  <2>1. PICK i \in RowId : /\ Write(i, Marked(h.list[i]))
                           /\ Become(r, Taking(h, i, Marked(h.list[i]), "read"))
    BY <1>11 DEF Take, h
  <2>2. Marked(h.list[i]) \in Row /\ Marked(h.list[i]).status = "pending"
    BY <1>0, MarkedSound DEF Handler
  <2>3. h.pc \notin Placed
    BY <1>11 DEF Take, Placed, h
  <2>4. /\ Taking(h, i, Marked(h.list[i]), "read") \in Handler
        /\ Sound(Taking(h, i, Marked(h.list[i]), "read"), delivered)
    BY <1>0, <2>2, <2>3, TakingSound
  <2> QED
    BY <1>11, <2>1, <2>2, <2>4, Writes DEF Take
<1>12. CASE Count(r)
  <2>1. h.id \in RowId
    BY <1>0, <1>12 DEF Count, Sound, Placed, h
  <2>2. /\ [h.outer EXCEPT !.retryCount = @ + 1] \in Row
        /\ [h.outer EXCEPT !.retryCount = @ + 1].status # "sent"
    <3>1. h.outer \in Row /\ h.outer.status # "sent"
      BY <1>0 DEF Handler, Sound
    <3>2. ASSUME NEW e \in Row
          PROVE  /\ [e EXCEPT !.retryCount = @ + 1] \in Row
                 /\ [e EXCEPT !.retryCount = @ + 1].status = e.status
      BY DEF Row
    <3> QED
      BY <3>1, <3>2
  <2> QED
    BY <1>0, <1>12, <2>1, <2>2, NextRowSound, Writes DEF Count, h
<1>13. CASE Find(r)
  <2> DEFINE again(i) == [Marked(outbox[i]) EXCEPT !.retryCount = 0]
             g(i) == Taking(h, i, again(i), "mark")
  <2>1. PICK i \in RowId : Become(r, IF Retried(outbox[i]) THEN g(i) ELSE NextRow(g(i)))
    BY <1>13 DEF Find, Left, h
  <2>2. again(i) \in Row /\ again(i).status # "sent"
    BY <1>0, MarkedSound DEF Row
  <2>3. h.pc \notin Placed
    BY <1>13 DEF Find, Placed, h
  <2> HIDE DEF again
  <2>4. g(i) \in Handler /\ Sound(g(i), delivered)
    BY <1>0, <2>2, <2>3, TakingSound
  <2> HIDE DEF g
  <2> QED
    BY <1>0, <1>13, <2>1, <2>4, NextRowSound, MovesOnly DEF Find
<1>14. CASE Mark(r)
  <2>1. h.pc = "mark"
    BY <1>14 DEF Mark, h
  <2>2. [h EXCEPT !.pc = "read"] \in Handler
    BY <1>0 DEF Handler
  <2>3. Sound([h EXCEPT !.pc = "read"], delivered)
    BY <1>0, <2>1 DEF Handler, Sound, Placed
  <2>4. h.id \in RowId /\ h.outer \in Row /\ h.outer.status # "sent"
    BY <1>0, <2>1 DEF Handler, Sound, Placed
  <2> QED
    BY <1>14, <2>2, <2>3, <2>4, Writes DEF Mark, h
<1>15. CASE SaveOpen(r)
  BY <1>0, <1>15, IdleSound, Writes DEF SaveOpen, End, Sound, Placed, Handler, h
<1> QED
  BY <1>1, <1>2, <1>3, <1>4, <1>5, <1>6, <1>7, <1>8, <1>9, <1>10, <1>11, <1>12, <1>13,
     <1>14, <1>15 DEF Step

LEMMA FailureKeeps ==
  ASSUME IInv, NEW r \in Request, TakeThrows(r) \/ CallThrows(r) PROVE IInv'
<1> DEFINE h == req[r]
<1>0. /\ spent \in Counters
      /\ h \in Handler /\ Sound(h, delivered)
  BY DEF IInv, TypeOK, Counters
<1>1. Throw => spent' \in Counters
  BY <1>0 DEF Throw, Counters
<1> HIDE DEF h
<1>2. CASE TakeThrows(r)
  <2>1. PICK i \in RowId : Become(r, Taking(h, i, Marked(h.list[i]), "count"))
    BY <1>2 DEF TakeThrows, h
  <2>2. Marked(h.list[i]) \in Row /\ Marked(h.list[i]).status # "sent"
    BY <1>0, MarkedSound DEF Handler
  <2>3. h.pc \notin Placed
    BY <1>2 DEF TakeThrows, At, Placed, h
  <2>4. /\ Taking(h, i, Marked(h.list[i]), "count") \in Handler
        /\ Sound(Taking(h, i, Marked(h.list[i]), "count"), delivered)
    BY <1>0, <2>2, <2>3, TakingSound
  <2> QED
    BY <1>1, <1>2, <2>1, <2>4, MovesOnly DEF TakeThrows, Become
<1>3. CASE CallThrows(r)
  BY <1>0, <1>1, <1>3, ThrownSound, MovesOnly DEF CallThrows, Become, h
<1> QED
  BY <1>2, <1>3

LEMMA CrashKeeps == IInv /\ Crash => IInv'
BY IdleSound DEF IInv, TypeOK, Counters, Crash, Throw

\* The invariant holds at the start and no step breaks it.
THEOREM Inductive ==
  /\ Init => IInv
  /\ IInv /\ [Next]_vars => IInv'
<1>1. Init => IInv
  <2> SUFFICES ASSUME Init PROVE IInv
    OBVIOUS
  <2>1. outbox \in [RowId -> Row] /\ req \in [Request -> Handler]
    BY IdleSound DEF Init
  <2>2. delivered \in [RowId -> 0 .. 2]
    BY DEF Init
  <2>3. suppressed \in BOOLEAN
    BY DEF Init
  <2>4. spent \in Counters
    BY DEF Init, Counters
  <2>5. Truthful(outbox, delivered)
    BY DEF Init, Truthful, NoRow
  <2>6. \A r \in Request : Sound(req[r], delivered)
    BY IdleSound DEF Init
  <2> QED
    BY <2>1, <2>2, <2>3, <2>4, <2>5, <2>6 DEF IInv, TypeOK, Counters
<1>2. IInv /\ [Next]_vars => IInv'
  <2> SUFFICES ASSUME IInv, [Next]_vars PROVE IInv'
    OBVIOUS
  <2>1. ASSUME NEW r \in Request, Start(r) PROVE IInv'
    BY <2>1, StartKeeps
  <2>2. ASSUME NEW r \in Request, Step(r) PROVE IInv'
    BY <2>2, StepKeeps
  <2>3. ASSUME NEW r \in Request, TakeThrows(r) \/ CallThrows(r) PROVE IInv'
    BY <2>3, FailureKeeps
  <2>4. CASE UNCHANGED vars
    BY <2>4 DEF vars, moving, IInv, TypeOK, Truthful, Sound
  <2> QED
    BY <2>1, <2>2, <2>3, <2>4, CrashKeeps DEF Next
<1> QED
  BY <1>1, <1>2

\* Every variable keeps its type.
THEOREM TypeCorrect == Spec => []TypeOK
<1>1. IInv => TypeOK
  BY DEF IInv
<1> QED
  BY <1>1, Inductive, PTL DEF Spec

\* EmailOutboxService: a row says sent only if the mail server has taken its
\* message, whatever drains, retries, openings and restarts overlap.
THEOREM SentIsTrue == Spec => []SentIsDelivered
<1>1. IInv => SentIsDelivered
  BY DEF IInv, Truthful, SentIsDelivered
<1> QED
  BY <1>1, Inductive, PTL DEF Spec
-----------------------------------------------------------------------------
(* One handler at a time                                                     *)
(*                                                                           *)
(* SentOnce and HardBounceSuppresses are promises of handlers that do not    *)
(* overlap, with no failure.  Neither is inductive: the row in hand and the  *)
(* entities read long before are written back, and what is about to be sent  *)
(* must not have been.  The invariant says what the one handler knows of the *)
(* tables at each of its awaits.                                             *)

(* The handler works on a row that is not sent. *)
Busy == {"read", "send", "saveSent", "saveFailed", "bounceRead", "bounceSave", "suppress",
         "count", "mark"}

(* The handler holds the entity of its row. *)
Holding == {"send", "saveSent", "saveFailed", "bounceSave", "save"}

(* No two rows share a key. *)
Apart(o) ==
  \A i, j \in RowId : o[i].status # "none" /\ o[j].status # "none" /\ o[i].key = o[j].key => i = j

(* A message is taken once, and its row says so, or is about to. *)
Counted(h, o, d) ==
  \A i \in RowId :
    d[i] > 0 => d[i] = 1 /\ (o[i].status = "sent" \/ (h.pc = "saveSent" /\ h.id = i))

(* A message refused for good is suppressed, or is about to be. *)
Bounced(h, o, s) == \A i \in RowId : o[i].bounceClass = "hard" => s \/ h.pc = "suppress"

(* What the handler holds was read from the rows as they are. *)
Working(h, o) ==
  /\ h.pc \in Busy => /\ Waiting(o[h.id])
                      /\ h.kind # "enqueue" => Waiting(h.outer) /\ h.outer.key = o[h.id].key
                      /\ h.kind = "drain" => h.list[h.id] = NoRow
  /\ h.pc \in Holding => h.row.key = o[h.id].key
  /\ h.pc \in {"send", "saveFailed", "bounceSave"} => Waiting(h.row)
  /\ h.pc = "saveSent" => h.row.status = "sent"
  /\ h.pc = "save" => h.row.status = "sent" /\ o[h.id].status = "sent"

(* The rows listed are there, and the drain's wait. *)
Listing(h, o) ==
  \A i \in RowId :
    h.list[i] # NoRow => /\ o[i].status # "none"
                         /\ h.kind = "drain" => Waiting(o[i]) /\ h.list[i].key = o[i].key

(* No row has the key that is about to be inserted. *)
Fresh(h, o) ==
  h.pc \in {"check", "insert"} => \A i \in RowId : o[i].status # "none" => o[i].key # h.key

(* No entity in memory tells of a hard bounce not yet suppressed. *)
Careful(h, s) ==
  \/ s
  \/ /\ h.row.bounceClass # "hard" /\ h.outer.bounceClass # "hard"
     /\ \A i \in RowId : h.list[i].bounceClass # "hard"

(* Who is where. *)
Roles(h) ==
  /\ h.pc \in {"take", "count"} => h.kind = "drain"
  /\ h.pc \in {"find", "mark"} => h.kind \notin {"drain", "enqueue"}
  /\ h.pc \in {"check", "insert"} => h.kind = "enqueue"

(* The tables when nothing is about to be written to them. *)
Settled(o, d, s) == Apart(o) /\ Counted(Idle, o, d) /\ Bounced(Idle, o, s)

Steady(h, o, d, s) ==
  /\ Apart(o) /\ Counted(h, o, d) /\ Bounced(h, o, s)
  /\ Working(h, o) /\ Listing(h, o) /\ Fresh(h, o) /\ Careful(h, s) /\ Roles(h)

(* All handlers but one are idle, and that one is steady. *)
SInv ==
  /\ IInv
  /\ \E r \in Request :
       /\ \A q \in Request \ {r} : req[q] = Idle
       /\ spent.failures = 0 => Steady(req[r], outbox, delivered, suppressed)

LEMMA SameKey ==
  ASSUME NEW o \in [RowId -> Row], Apart(o), NEW i \in RowId, NEW e \in Row,
         e.key = o[i].key, o[i].status # "none"
  PROVE  Apart([o EXCEPT ![i] = e])
BY DEF Apart

LEMMA ListingKept ==
  ASSUME NEW h \in Handler, NEW o \in [RowId -> Row], Listing(h, o), NEW i \in RowId, NEW e \in Row,
         e.key = o[i].key, e.status # "none",
         h.kind = "drain" => h.list[i] = NoRow \/ Waiting(e)
  PROVE  Listing(h, [o EXCEPT ![i] = e])
BY DEF Listing

LEMMA IdleSteady ==
  ASSUME NEW o, NEW d, NEW s, Settled(o, d, s)
  PROVE  Steady(Idle, o, d, s)
<1>1. /\ Idle.pc = "idle" /\ Idle.row = NoRow /\ Idle.outer = NoRow
      /\ \A i \in RowId : Idle.list[i] = NoRow
  BY DEF Idle
<1>2. NoRow.bounceClass = "none"
  BY DEF NoRow
<1> QED
  BY <1>1, <1>2 DEF Settled, Steady, Working, Listing, Fresh, Careful, Roles, Busy, Holding

\* A loop that goes on knows of its rows what it has known.
LEMMA NextRowSteady ==
  ASSUME NEW h \in Handler, NEW o, NEW d, NEW s, Settled(o, d, s), Listing(h, o), Careful(h, s),
         h.kind # "enqueue"
  PROVE  Steady(NextRow(h), o, d, s)
<1> DEFINE g == [Idle EXCEPT !.kind = h.kind, !.pc = IF h.kind = "drain" THEN "take" ELSE "find",
                             !.list = h.list]
<1>1. /\ g.kind = h.kind /\ g.pc = IF h.kind = "drain" THEN "take" ELSE "find"
      /\ g.list = h.list /\ g.row = NoRow /\ g.outer = NoRow
  BY DEF Idle
<1>2. Idle.pc = "idle" /\ NoRow.bounceClass = "none"
  BY DEF Idle, NoRow
<1> HIDE DEF g
<1>3. Steady(g, o, d, s)
  BY <1>1, <1>2 DEF Settled, Steady, Counted, Bounced, Working, Listing, Fresh, Careful, Roles,
                    Busy, Holding
<1> QED
  BY <1>3, IdleSteady DEF NextRow, g

LEMMA ReturnedSteady ==
  ASSUME NEW h \in Handler, NEW o, NEW d, NEW s, Settled(o, d, s), Listing(h, o), Careful(h, s)
  PROVE  Steady(Returned(h), o, d, s)
BY IdleSteady, NextRowSteady DEF Returned

\* The error reaches the drain, which has still to count it, or ends the handler.
LEMMA ThrewSteady ==
  ASSUME NEW h \in Handler, NEW o, NEW d, NEW s, Settled(o, d, s), Working(h, o), Listing(h, o),
         Careful(h, s), h.pc \in Busy
  PROVE  Steady(Threw(h), o, d, s)
<1> DEFINE g == [h EXCEPT !.pc = "count", !.row = NoRow, !.bounce = "none"]
<1>1. /\ g.kind = h.kind /\ g.pc = "count" /\ g.id = h.id /\ g.outer = h.outer
      /\ g.list = h.list /\ g.row = NoRow
  BY DEF Handler
<1>2. Idle.pc = "idle" /\ NoRow.bounceClass = "none"
  BY DEF Idle, NoRow
<1> HIDE DEF g
<1>3. ASSUME h.kind = "drain" PROVE Steady(g, o, d, s)
  BY <1>1, <1>2, <1>3 DEF Settled, Steady, Counted, Bounced, Working, Listing, Fresh, Careful,
                          Roles, Busy, Holding
<1> QED
  BY <1>3, IdleSteady DEF Threw, g

\* The handler comes to a row of its list that waits.
LEMMA TakingSteady ==
  ASSUME NEW h \in Handler, NEW o, NEW d, NEW s, Settled(o, d, s), Listing(h, o), Careful(h, s),
         NEW i \in RowId, Waiting(o[i]), NEW e \in Row, Waiting(e), e.key = o[i].key,
         e.bounceClass = "hard" => s,
         NEW pc \in {"read", "mark"},
         pc = "mark" => h.kind \notin {"drain", "enqueue"}
  PROVE  Steady(Taking(h, i, e, pc), o, d, s)
<1> DEFINE g == Taking(h, i, e, pc)
<1>1. /\ g.kind = h.kind /\ g.pc = pc /\ g.id = i /\ g.outer = e /\ g.row = h.row
      /\ g.list = [h.list EXCEPT ![i] = NoRow]
  BY DEF Handler, Taking
<1>2. /\ Idle.pc = "idle" /\ NoRow.bounceClass = "none"
      /\ h.list \in [RowId -> Row]
  BY DEF Idle, NoRow, Handler
<1>3. \A j \in RowId : g.list[j] = IF j = i THEN NoRow ELSE h.list[j]
  BY <1>1, <1>2
<1> HIDE DEF g
<1>4. Listing(g, o) /\ Careful(g, s)
  BY <1>1, <1>2, <1>3 DEF Listing, Careful
<1>5. Working(g, o)
  BY <1>1, <1>3 DEF Working, Busy, Holding
<1>6. Counted(g, o, d) /\ Bounced(g, o, s) /\ Fresh(g, o) /\ Roles(g)
  BY <1>1, <1>2 DEF Settled, Counted, Bounced, Fresh, Roles
<1>7. Steady(g, o, d, s)
  BY <1>4, <1>5, <1>6 DEF Settled, Steady
<1> QED
  BY <1>7 DEF g

-----------------------------------------------------------------------------
(* The steps, one handler at a time *)

\* The handler that moves is the one that is not idle.
LEMMA OneIsSteady ==
  ASSUME SInv, NEW r \in Request, req[r] # Idle, spent.failures = 0
  PROVE  Steady(req[r], outbox, delivered, suppressed)
BY DEF SInv

LEMMA QuietIsSettled ==
  ASSUME SInv, Quiet, spent.failures = 0
  PROVE  Settled(outbox, delivered, suppressed)
BY DEF SInv, Quiet, Steady, Settled

LEMMA OneMovesSteady ==
  ASSUME SInv, IInv', NEW r \in Request, NEW h \in Handler,
         req' = [req EXCEPT ![r] = h], req[r] # Idle \/ Quiet,
         spent'.failures = 0 => Steady(h, outbox', delivered', suppressed')
  PROVE  SInv'
<1>1. \A q \in Request \ {r} : req[q] = Idle
  BY DEF SInv, Quiet
<1>2. req \in [Request -> Handler]
  BY DEF SInv, IInv, TypeOK
<1>3. req'[r] = h /\ \A q \in Request \ {r} : req'[q] = Idle
  BY <1>1, <1>2
<1> QED
  BY <1>3 DEF SInv

\* With a failure nothing is promised any more.
LEMMA FailureSteady ==
  ASSUME SInv, IInv', NEW r \in Request, TakeThrows(r) \/ CallThrows(r)
  PROVE  SInv'
<1>1. spent.failures \in Nat /\ req \in [Request -> Handler]
  BY DEF SInv, IInv, TypeOK
<1>2. spent'.failures # 0
  BY <1>1 DEF TakeThrows, CallThrows, Throw, SInv, IInv, TypeOK
<1>3. req[r] # Idle
  BY DEF TakeThrows, CallThrows, At, Idle
<1>4. PICK h : req' = [req EXCEPT ![r] = h]
  BY DEF TakeThrows, CallThrows, Become
<1>5. h \in Handler
  BY <1>1, <1>4 DEF IInv, TypeOK
<1> QED
  BY <1>2, <1>3, <1>4, <1>5, OneMovesSteady

LEMMA CrashSteady ==
  ASSUME SInv, IInv', Crash
  PROVE  SInv'
<1>1. spent'.failures # 0
  BY DEF Crash, Throw, SInv, IInv, TypeOK
<1>2. \A q \in Request : req'[q] = Idle
  BY DEF Crash
<1> QED
  BY <1>1, <1>2, RequestAssumption DEF SInv

LEMMA StartSteady ==
  ASSUME serial, SInv, IInv', NEW r \in Request, Start(r)
  PROVE  SInv'
<1>0. /\ outbox \in [RowId -> Row] /\ Idle \in Handler /\ req' \in [Request -> Handler]
      /\ spent \in Counters
  BY IdleSound DEF SInv, IInv, TypeOK, Counters
<1>a. spent.failures = 0 /\ Quiet => Settled(outbox, delivered, suppressed)
  BY QuietIsSettled
<1>b. /\ Idle.pc = "idle" /\ Idle.row = NoRow /\ Idle.outer = NoRow /\ Idle.kind = "none"
      /\ NoRow.bounceClass = "none" /\ NoRow.status = "none"
      /\ \A j \in RowId : Idle.list[j] = NoRow
  BY DEF Idle, NoRow
<1>c. ASSUME NEW h, Begin(r, h), UNCHANGED <<outbox, suppressed, delivered>>,
             spent' = spent \/ \E n \in Nat : spent' = [spent EXCEPT !.enqueues = n]
                            \/ spent' = [spent EXCEPT !.retries = n]
                            \/ spent' = [spent EXCEPT !.opens = n],
             Settled(outbox, delivered, suppressed) => Steady(h, outbox, delivered, suppressed)
      PROVE  SInv'
  <2>1. Quiet /\ req' = [req EXCEPT ![r] = h]
    BY <1>c DEF Begin, Quiet
  <2>2. req \in [Request -> Handler]
    BY DEF SInv, IInv, TypeOK
  <2>3. h \in Handler
    BY <1>0, <2>1, <2>2
  <2>4. spent'.failures = spent.failures
    BY <1>0, <1>c DEF Counters
  <2> QED
    BY <1>a, <1>c, <2>1, <2>3, <2>4, OneMovesSteady
<1>1. ASSUME NEW k \in Key, Enqueue(r, k) PROVE SInv'
  <2> DEFINE h == [Idle EXCEPT !.kind = "enqueue", !.pc = "check", !.key = k]
  <2>1. /\ h.kind = "enqueue" /\ h.pc = "check" /\ h.key = k /\ h.row = NoRow /\ h.outer = NoRow
        /\ \A j \in RowId : h.list[j] = NoRow
    BY <1>b DEF Idle
  <2>2. \A j \in RowId : outbox[j].key # k
    BY <1>1 DEF Enqueue, Known
  <2>3. /\ Begin(r, h) /\ UNCHANGED <<outbox, suppressed, delivered>>
        /\ spent' = [spent EXCEPT !.enqueues = spent.enqueues + 1]
    BY <1>1 DEF Enqueue
  <2>4. spent.enqueues + 1 \in Nat
    BY <1>0 DEF Counters
  <2> HIDE DEF h
  <2>5. ASSUME Settled(outbox, delivered, suppressed)
        PROVE  Steady(h, outbox, delivered, suppressed)
    BY <1>b, <2>1, <2>2, <2>5 DEF Settled, Steady, Counted, Bounced, Working, Listing, Fresh,
       Careful, Roles, Busy, Holding
  <2> QED
    BY <1>c, <2>3, <2>4, <2>5
<1>2. CASE Drain(r)
  <2> DEFINE l == [i \in RowId |-> IF Listed(i) /\ Drained(outbox[i]) THEN outbox[i] ELSE NoRow]
             h == [Idle EXCEPT !.kind = "drain", !.pc = "take", !.list = l]
  <2>1. /\ h.kind = "drain" /\ h.pc = "take" /\ h.row = NoRow /\ h.outer = NoRow /\ h.list = l
    BY <1>b DEF Idle
  <2>2. \A j \in RowId : l[j] = NoRow \/ (Waiting(outbox[j]) /\ l[j] = outbox[j])
    BY DEF Listed
  <2>3. \A j \in RowId : Waiting(outbox[j]) => outbox[j].status # "none"
    BY DEF Waiting
  <2>4. Begin(r, h) /\ UNCHANGED <<outbox, suppressed, delivered, spent>>
    BY <1>2 DEF Drain
  <2> HIDE DEF h, l
  <2>5. ASSUME Settled(outbox, delivered, suppressed)
        PROVE  Steady(h, outbox, delivered, suppressed)
    BY <1>b, <2>1, <2>2, <2>3, <2>5 DEF Settled, Steady, Counted, Bounced, Working, Listing,
       Fresh, Careful, Roles, Busy, Holding
  <2> QED
    BY <1>c, <2>4, <2>5
<1>3. ASSUME NEW rows, Retry(r, rows), \A i \in RowId : i \in rows => outbox[i].status # "none"
      PROVE  SInv'
  <2> DEFINE l == [i \in RowId |-> IF i \in rows THEN outbox[i] ELSE NoRow]
             h == [Idle EXCEPT !.kind = "retry", !.pc = "find", !.list = l]
  <2>1. /\ h.kind = "retry" /\ h.pc = "find" /\ h.row = NoRow /\ h.outer = NoRow /\ h.list = l
    BY <1>b DEF Idle
  <2>2. \A j \in RowId : l[j] = NoRow \/ (outbox[j].status # "none" /\ l[j] = outbox[j])
    BY <1>3
  <2>3. /\ Begin(r, h) /\ UNCHANGED <<outbox, suppressed, delivered>>
        /\ spent' = [spent EXCEPT !.retries = spent.retries + 1]
    BY <1>3 DEF Retry
  <2>4. spent.retries + 1 \in Nat
    BY <1>0 DEF Counters
  <2> HIDE DEF h, l
  <2>5. ASSUME Settled(outbox, delivered, suppressed)
        PROVE  Steady(h, outbox, delivered, suppressed)
    BY <1>b, <2>1, <2>2, <2>5 DEF Settled, Steady, Counted, Bounced, Working, Listing,
       Fresh, Careful, Roles, Busy, Holding
  <2> QED
    BY <1>c, <2>3, <2>4, <2>5
<1>4. ASSUME NEW i \in RowId, Open(r, i) PROVE SInv'
  <2> DEFINE h == [Idle EXCEPT !.kind = "open", !.pc = "save", !.id = i, !.row = outbox[i]]
  <2>1. /\ h.kind = "open" /\ h.pc = "save" /\ h.id = i /\ h.row = outbox[i] /\ h.outer = NoRow
        /\ \A j \in RowId : h.list[j] = NoRow
    BY <1>b DEF Idle
  <2>2. outbox[i].status = "sent"
    BY <1>4 DEF Open
  <2>3. /\ Begin(r, h) /\ UNCHANGED <<outbox, suppressed, delivered>>
        /\ spent' = [spent EXCEPT !.opens = spent.opens + 1]
    BY <1>4 DEF Open
  <2>4. spent.opens + 1 \in Nat
    BY <1>0 DEF Counters
  <2> HIDE DEF h
  <2>5. ASSUME Settled(outbox, delivered, suppressed)
        PROVE  Steady(h, outbox, delivered, suppressed)
    BY <1>b, <2>1, <2>2, <2>5 DEF Settled, Steady, Counted, Bounced, Working, Listing,
       Fresh, Careful, Roles, Busy, Holding
  <2> QED
    BY <1>c, <2>3, <2>4, <2>5
<1>5. CASE RetryFailed(r)
  BY <1>3, <1>5 DEF RetryFailed
<1>6. ASSUME NEW i \in RowId, RetryById(r, i) PROVE SInv'
  BY <1>3, <1>6 DEF RetryById, Exists
<1> QED
  BY <1>1, <1>2, <1>4, <1>5, <1>6 DEF Start

LEMMA StepSteady ==
  ASSUME SInv, IInv', NEW r \in Request, Step(r)
  PROVE  SInv'
<1> DEFINE h == req[r]
<1> SUFFICES ASSUME NEW g \in Handler, req' = [req EXCEPT ![r] = g],
                    req[r] # Idle, spent'.failures = spent.failures, spent.failures = 0
             PROVE  Steady(g, outbox', delivered', suppressed')
  <2>1. req \in [Request -> Handler] /\ req' \in [Request -> Handler] /\ spent \in Counters
    BY DEF SInv, IInv, TypeOK, Counters
  <2>2. req[r] # Idle
    <3>1. req[r].pc # "idle"
      BY DEF Step, At, CheckSuppression, Insert, Read, SendAccepted, SendRefused, SaveSent,
         SaveFailed, BounceRead, BounceSave, Suppress, Take, Count, Find, Mark, SaveOpen
    <3> QED
      BY <3>1 DEF Idle
  <2>3. PICK g : req' = [req EXCEPT ![r] = g]
    BY DEF Step, Become, End, CheckSuppression, Insert, Read, SendAccepted, SendRefused, SaveSent,
       SaveFailed, BounceRead, BounceSave, Suppress, Take, Count, Find, Mark, SaveOpen
  <2>4. g \in Handler
    BY <2>1, <2>3
  <2>5. spent'.failures = spent.failures
    BY <2>1 DEF Step, Counters, CheckSuppression, Insert, Read, SendAccepted, SendRefused, SaveSent,
       SaveFailed, BounceRead, BounceSave, Suppress, Take, Count, Find, Mark, SaveOpen
  <2> QED
    BY <2>2, <2>3, <2>4, <2>5, OneMovesSteady
<1>0. /\ outbox \in [RowId -> Row] /\ outbox' \in [RowId -> Row] /\ suppressed \in BOOLEAN
      /\ delivered \in [RowId -> 0 .. 2]
      /\ h \in Handler /\ Sound(h, delivered) /\ Truthful(outbox, delivered)
      /\ req \in [Request -> Handler] /\ req' = [req EXCEPT ![r] = g] /\ req'[r] = g
  BY DEF SInv, IInv, TypeOK, Counters
<1>s. Steady(h, outbox, delivered, suppressed)
  BY OneIsSteady
<1>n. /\ NoRow.bounceClass = "none" /\ NoRow.status = "none" /\ Idle.pc = "idle"
      /\ NoRow \in Row /\ h.list \in [RowId -> Row] /\ h.row \in Row /\ h.outer \in Row
      /\ \A e \in Row : Waiting(e) <=> e.status \in {"pending", "failed"}
  BY <1>0, IdleSound DEF NoRow, Idle, Handler, Waiting
<1> HIDE DEF h
\* Where nothing is on the way, the tables are settled.
<1>t. h.pc \notin {"saveSent", "suppress"} => Settled(outbox, delivered, suppressed)
  BY <1>s, <1>n DEF Steady, Settled, Counted, Bounced
<1> USE DEF At, Become
<1>1. CASE CheckSuppression(r)
  <2>1. h.pc = "check" /\ g = Checked(h) /\ UNCHANGED <<outbox, suppressed, delivered>>
    BY <1>0, <1>1 DEF CheckSuppression, h
  <2> DEFINE f == [h EXCEPT !.pc = "insert"]
  <2>2. /\ f.pc = "insert" /\ f.kind = h.kind /\ f.key = h.key /\ f.row = h.row
        /\ f.outer = h.outer /\ f.list = h.list
    BY <1>0 DEF Handler
  <2> HIDE DEF f
  <2>3. Steady(f, outbox, delivered, suppressed)
    BY <1>s, <2>1, <2>2 DEF Steady, Counted, Bounced, Working, Listing, Fresh, Careful, Roles,
       Busy, Holding
  <2> QED
    BY <1>t, <2>1, <2>3, IdleSteady DEF Checked, f
<1>2. CASE Insert(r)
  <2>1. PICK i \in RowId : /\ ~ Exists(i)
                           /\ Write(i, NewRow(h.key))
                           /\ g = [h EXCEPT !.pc = "read", !.id = i]
    BY <1>0, <1>2 DEF Insert, h
  <2>2. h.pc = "insert" /\ UNCHANGED <<suppressed, delivered>>
    BY <1>2 DEF Insert, h
  <2>3. /\ g.pc = "read" /\ g.id = i /\ g.kind = h.kind /\ g.row = h.row /\ g.outer = h.outer
        /\ g.list = h.list
    BY <1>0, <2>1 DEF Handler
  <2> DEFINE e == NewRow(h.key)
  <2>4. e.key = h.key /\ e.status = "pending" /\ e.bounceClass = "none" /\ e \in Row
    BY <1>0, <1>n DEF NewRow, NoRow, Row, Handler
  <2> HIDE DEF e
  <2>5. /\ outbox' = [outbox EXCEPT ![i] = e] /\ outbox[i].status = "none"
        /\ Waiting(e) /\ outbox'[i] = e
        /\ \A j \in RowId : j # i => outbox'[j] = outbox[j]
    BY <1>0, <1>n, <2>1, <2>4 DEF Write, Exists, e
  <2>6. Apart(outbox')
    BY <1>s, <2>2, <2>4, <2>5 DEF Steady, Apart, Fresh
  <2>7. Counted(g, outbox', delivered') /\ Bounced(g, outbox', suppressed')
    BY <1>t, <1>n, <2>2, <2>4, <2>5 DEF Settled, Counted, Bounced
  <2>8. Working(g, outbox') /\ Listing(g, outbox') /\ Roles(g)
    BY <1>s, <2>2, <2>3, <2>4, <2>5 DEF Steady, Working, Listing, Roles, Busy, Holding
  <2>9. Fresh(g, outbox') /\ Careful(g, suppressed')
    BY <1>s, <2>2, <2>3 DEF Steady, Fresh, Careful
  <2> QED
    BY <2>6, <2>7, <2>8, <2>9 DEF Steady
<1>3. CASE Read(r)
  <2>1. h.pc = "read" /\ h.id \in RowId /\ UNCHANGED <<outbox, suppressed, delivered>>
    BY <1>0, <1>3 DEF Read, Sound, Placed, h
  <2>2. outbox[h.id].status # "sent"
    BY <1>s, <1>n, <1>0, <2>1 DEF Steady, Working, Busy
  <2>3. g = [h EXCEPT !.pc = "send", !.row = outbox[h.id]]
    BY <1>0, <1>3, <2>2 DEF Read, h
  <2>4. /\ g.pc = "send" /\ g.id = h.id /\ g.kind = h.kind /\ g.row = outbox[h.id]
        /\ g.outer = h.outer /\ g.list = h.list
    BY <1>0, <2>3 DEF Handler
  <2>5. outbox[h.id].bounceClass = "hard" => suppressed
    BY <1>s, <2>1 DEF Steady, Bounced
  <2> QED
    BY <1>s, <2>1, <2>4, <2>5 DEF Steady, Counted, Bounced, Working, Listing, Fresh, Careful,
       Roles, Busy, Holding
<1>4. CASE SendAccepted(r)
  <2>1. /\ h.pc = "send" /\ h.id \in RowId /\ UNCHANGED <<outbox, suppressed>>
        /\ g = [h EXCEPT !.pc = "saveSent", !.row.status = "sent"]
        /\ delivered' = [delivered EXCEPT ![h.id] = IF @ = 2 THEN 2 ELSE @ + 1]
    BY <1>0, <1>4 DEF SendAccepted, Sound, Placed, h
  <2>2. /\ g.pc = "saveSent" /\ g.id = h.id /\ g.kind = h.kind /\ g.outer = h.outer
        /\ g.list = h.list /\ g.row.status = "sent" /\ g.row.key = h.row.key
        /\ g.row.bounceClass = h.row.bounceClass
    BY <1>0, <2>1 DEF Handler, Row
  <2>3. delivered[h.id] = 0
    BY <1>0, <1>s, <1>n, <2>1 DEF Steady, Counted, Working, Busy
  <2>4. Counted(g, outbox', delivered')
    BY <1>0, <1>s, <2>1, <2>2, <2>3 DEF Steady, Counted
  <2> QED
    BY <1>s, <2>1, <2>2, <2>4 DEF Steady, Bounced, Working, Listing, Fresh, Careful, Roles,
       Busy, Holding
<1>5. CASE SendRefused(r)
  <2>1. PICK class : g = Failed(h, class)
    BY <1>0, <1>5 DEF SendRefused, h
  <2>2. h.pc = "send" /\ UNCHANGED <<outbox, suppressed, delivered>>
    BY <1>5 DEF SendRefused, h
  <2>3. /\ g.pc = "saveFailed" /\ g.id = h.id /\ g.kind = h.kind /\ g.outer = h.outer
        /\ g.list = h.list /\ g.row.status = "failed" /\ g.row.key = h.row.key
        /\ g.row.bounceClass = h.row.bounceClass /\ g.row \in Row
    <3>1. g.row = [h.row EXCEPT !.status = "failed"]
      BY <1>0, <2>1 DEF Failed, Handler
    <3>2. /\ g.pc = "saveFailed" /\ g.id = h.id /\ g.kind = h.kind /\ g.outer = h.outer
          /\ g.list = h.list
      BY <1>0, <2>1 DEF Failed, Handler
    <3> QED
      BY <1>n, <3>1, <3>2 DEF Row
  <2> QED
    BY <1>s, <1>n, <2>2, <2>3 DEF Steady, Counted, Bounced, Working, Listing, Fresh, Careful,
       Roles, Busy, Holding
<1>6. CASE SaveSent(r)
  <2>1. /\ h.pc = "saveSent" /\ h.id \in RowId /\ UNCHANGED <<suppressed, delivered>>
        /\ g = Returned(h) /\ outbox' = [outbox EXCEPT ![h.id] = h.row]
    BY <1>0, <1>6 DEF SaveSent, Sound, Placed, Write, h
  <2>2. /\ h.row.status = "sent" /\ h.row.key = outbox[h.id].key
        /\ outbox[h.id].status # "none" /\ (h.kind = "drain" => h.list[h.id] = NoRow)
    BY <1>0, <1>s, <1>n, <2>1 DEF Steady, Working, Busy, Holding
  <2>3. Apart(outbox') /\ Listing(h, outbox')
    BY <1>0, <1>s, <1>n, <2>1, <2>2, SameKey, ListingKept DEF Steady
  <2>4. \A j \in RowId : outbox'[j] = IF j = h.id THEN h.row ELSE outbox[j]
    BY <1>0, <2>1
  <2>5. Settled(outbox', delivered', suppressed')
    BY <1>s, <1>n, <2>1, <2>2, <2>3, <2>4 DEF Steady, Settled, Counted, Bounced, Careful
  <2> QED
    BY <1>0, <1>s, <2>1, <2>3, <2>5, ReturnedSteady DEF Steady
<1>7. CASE SaveFailed(r)
  <2>1. /\ h.pc = "saveFailed" /\ h.id \in RowId /\ UNCHANGED <<suppressed, delivered>>
        /\ g = [h EXCEPT !.pc = "bounceRead"] /\ outbox' = [outbox EXCEPT ![h.id] = h.row]
    BY <1>0, <1>7 DEF SaveFailed, Sound, Placed, Write, h
  <2>2. /\ Waiting(h.row) /\ h.row.key = outbox[h.id].key /\ h.row.status # "none"
        /\ outbox[h.id].status \in {"pending", "failed"}
    BY <1>0, <1>s, <1>n, <2>1 DEF Steady, Working, Busy, Holding
  <2>3. Apart(outbox') /\ Listing(h, outbox')
    BY <1>0, <1>s, <1>n, <2>1, <2>2, SameKey, ListingKept DEF Steady
  <2>4. \A j \in RowId : outbox'[j] = IF j = h.id THEN h.row ELSE outbox[j]
    BY <1>0, <2>1
  <2>5. Settled(outbox', delivered', suppressed')
    BY <1>s, <1>n, <2>1, <2>2, <2>3, <2>4 DEF Steady, Settled, Counted, Bounced, Careful
  <2>6. /\ g.pc = "bounceRead" /\ g.id = h.id /\ g.kind = h.kind /\ g.outer = h.outer
        /\ g.list = h.list /\ g.row = h.row
    BY <1>0, <2>1 DEF Handler
  <2>7. Working(g, outbox')
    BY <1>s, <2>1, <2>2, <2>4, <2>6 DEF Steady, Working, Busy, Holding
  <2>8. Counted(g, outbox', delivered') /\ Bounced(g, outbox', suppressed')
    BY <1>n, <2>5 DEF Settled, Counted, Bounced
  <2> QED
    BY <1>s, <2>1, <2>3, <2>6, <2>7, <2>8 DEF Steady, Listing, Fresh, Careful, Roles
<1>8. CASE BounceRead(r)
  <2>1. /\ h.pc = "bounceRead" /\ h.id \in RowId /\ UNCHANGED <<outbox, suppressed, delivered>>
        /\ g = [h EXCEPT !.pc = "bounceSave", !.row = outbox[h.id]]
    BY <1>0, <1>8 DEF BounceRead, Sound, Placed, h
  <2>2. /\ g.pc = "bounceSave" /\ g.id = h.id /\ g.kind = h.kind /\ g.row = outbox[h.id]
        /\ g.outer = h.outer /\ g.list = h.list
    BY <1>0, <2>1 DEF Handler
  <2>3. outbox[h.id].bounceClass = "hard" => suppressed
    BY <1>s, <2>1 DEF Steady, Bounced
  <2> QED
    BY <1>s, <2>1, <2>2, <2>3 DEF Steady, Counted, Bounced, Working, Listing, Fresh, Careful,
       Roles, Busy, Holding
<1>9. CASE BounceSave(r)
  <2> DEFINE e == [h.row EXCEPT !.bounceClass = h.bounce]
  <2>1. /\ h.pc = "bounceSave" /\ h.id \in RowId /\ UNCHANGED <<suppressed, delivered>>
        /\ g = IF Suppresses(h.bounce) THEN [h EXCEPT !.pc = "suppress"] ELSE Threw(h)
        /\ outbox' = [outbox EXCEPT ![h.id] = e]
    BY <1>0, <1>9 DEF BounceSave, Sound, Placed, Write, h
  <2>2. e \in Row /\ e.status = h.row.status /\ e.key = h.row.key /\ e.bounceClass = h.bounce
    BY <1>0 DEF Handler, Row
  <2> HIDE DEF e
  <2>3. /\ Waiting(e) /\ e.key = outbox[h.id].key /\ e.status # "none"
        /\ outbox[h.id].status \in {"pending", "failed"}
    BY <1>0, <1>s, <1>n, <2>1, <2>2 DEF Steady, Working, Busy, Holding
  <2>4. Apart(outbox') /\ Listing(h, outbox')
    BY <1>0, <1>s, <1>n, <2>1, <2>2, <2>3, SameKey, ListingKept DEF Steady
  <2>5. \A j \in RowId : outbox'[j] = IF j = h.id THEN e ELSE outbox[j]
    BY <1>0, <2>1
  <2>6. Counted(Idle, outbox', delivered')
    BY <1>s, <1>n, <2>1, <2>3, <2>5 DEF Steady, Counted
  <2>7. /\ \A j \in RowId : outbox'[j].bounceClass = "hard" => suppressed \/ h.bounce = "hard"
        /\ Careful(h, suppressed)
    BY <1>s, <2>1, <2>2, <2>5 DEF Steady, Bounced
  <2>8. CASE h.bounce = "hard"
    <3>1. g = [h EXCEPT !.pc = "suppress"]
      BY <2>1, <2>8 DEF Suppresses
    <3>2. /\ g.pc = "suppress" /\ g.id = h.id /\ g.kind = h.kind /\ g.outer = h.outer
          /\ g.list = h.list /\ g.row = h.row
      BY <1>0, <3>1 DEF Handler
    <3>3. Working(g, outbox')
      BY <1>s, <2>1, <2>3, <2>5, <3>2 DEF Steady, Working, Busy, Holding
    <3>4. Counted(g, outbox', delivered') /\ Bounced(g, outbox', suppressed')
      BY <1>n, <2>6, <3>2 DEF Counted, Bounced
    <3> QED
      BY <2>1, <2>4, <2>7, <3>2, <3>3, <3>4 DEF Steady, Listing, Fresh, Careful, Roles
  <2>9. CASE h.bounce # "hard"
    <3>1. g = Threw(h)
      BY <2>1, <2>9 DEF Suppresses
    <3>2. Settled(outbox', delivered', suppressed')
      BY <2>1, <2>4, <2>6, <2>7, <2>9 DEF Settled, Bounced
    <3>3. Working(h, outbox')
      BY <1>s, <2>1, <2>3, <2>5 DEF Steady, Working, Busy, Holding
    <3> QED
      BY <1>0, <2>1, <2>4, <2>7, <3>1, <3>2, <3>3, ThrewSteady DEF Busy
  <2> QED
    BY <2>8, <2>9
<1>10. CASE Suppress(r)
  <2>1. h.pc = "suppress" /\ suppressed' = TRUE /\ g = Threw(h) /\ UNCHANGED <<outbox, delivered>>
    BY <1>0, <1>10 DEF Suppress, h
  <2>2. Settled(outbox', delivered', suppressed') /\ Careful(h, suppressed')
    BY <1>s, <1>n, <2>1 DEF Steady, Settled, Counted, Bounced, Careful
  <2>3. Working(h, outbox') /\ Listing(h, outbox') /\ h.pc \in Busy
    BY <1>s, <2>1 DEF Steady, Busy
  <2>4. h \in Handler /\ g = Threw(h)
    BY <1>0, <2>1
  <2> QED
    BY <2>2, <2>3, <2>4, ThrewSteady
<1>11. CASE Take(r)
  <2>1. PICK i \in RowId : /\ First(h, i)
                           /\ Write(i, Marked(h.list[i]))
                           /\ g = Taking(h, i, Marked(h.list[i]), "read")
    BY <1>0, <1>11 DEF Take, h
  <2>2. h.pc = "take" /\ h.kind = "drain" /\ UNCHANGED <<suppressed, delivered>>
    BY <1>s, <1>11 DEF Take, Steady, Roles, h
  <2>3. h.list[i] # NoRow /\ h.list[i] \in Row
    BY <1>n, <2>1 DEF First, Left
  <2>4. Waiting(outbox[i]) /\ h.list[i].key = outbox[i].key
    BY <1>s, <2>2, <2>3 DEF Steady, Listing
  <2> DEFINE e == Marked(h.list[i])
  <2>5. /\ e \in Row /\ e.status = "pending" /\ e.key = h.list[i].key
        /\ e.bounceClass = h.list[i].bounceClass
    BY <2>3 DEF Marked, Row
  <2>6. outbox' = [outbox EXCEPT ![i] = e] /\ g = Taking(h, i, e, "read")
    BY <2>1 DEF Write
  <2> HIDE DEF e
  <2>7. Waiting(e) /\ outbox[i].status \in {"pending", "failed"}
    BY <1>0, <1>n, <2>4, <2>5
  <2>8. Apart(outbox') /\ Listing(h, outbox')
    BY <1>0, <1>s, <2>4, <2>5, <2>6, <2>7, SameKey, ListingKept DEF Steady
  <2>9. \A j \in RowId : outbox'[j] = IF j = i THEN e ELSE outbox[j]
    BY <1>0, <2>6
  <2>10. e.bounceClass = "hard" => suppressed
    BY <1>s, <2>5 DEF Steady, Careful
  <2>11. Settled(outbox', delivered', suppressed')
    BY <1>t, <2>2, <2>7, <2>8, <2>9, <2>10 DEF Settled, Counted, Bounced
  <2>12. Waiting(outbox'[i]) /\ e.key = outbox'[i].key
    BY <2>7, <2>9
  <2>13. Careful(h, suppressed') /\ (e.bounceClass = "hard" => suppressed')
    BY <1>s, <2>2, <2>10 DEF Steady
  <2>14. h \in Handler /\ g = Taking(h, i, e, "read") /\ e \in Row
    BY <1>0, <2>5, <2>6
  <2> QED
    BY <2>7, <2>8, <2>11, <2>12, <2>13, <2>14, TakingSteady
<1>12. CASE Count(r)
  <2> DEFINE e == [h.outer EXCEPT !.retryCount = @ + 1]
  <2>1. /\ h.pc = "count" /\ h.id \in RowId /\ UNCHANGED <<suppressed, delivered>>
        /\ g = NextRow(h) /\ outbox' = [outbox EXCEPT ![h.id] = e]
    BY <1>0, <1>12 DEF Count, Sound, Placed, Write, h
  <2>2. /\ e \in Row /\ e.status = h.outer.status /\ e.key = h.outer.key
        /\ e.bounceClass = h.outer.bounceClass
    <3>1. ASSUME NEW x \in Row
          PROVE  LET y == [x EXCEPT !.retryCount = @ + 1]
                 IN  /\ y \in Row /\ y.status = x.status /\ y.key = x.key
                     /\ y.bounceClass = x.bounceClass
      BY DEF Row
    <3> QED
      BY <1>n, <3>1
  <2> HIDE DEF e
  <2>3. /\ h.kind = "drain" /\ Waiting(e) /\ e.key = outbox[h.id].key /\ e.status # "none"
        /\ outbox[h.id].status \in {"pending", "failed"}
    BY <1>0, <1>s, <1>n, <2>1, <2>2 DEF Steady, Working, Roles, Busy, Holding
  <2>4. Apart(outbox') /\ Listing(h, outbox')
    BY <1>0, <1>s, <1>n, <2>1, <2>2, <2>3, SameKey, ListingKept DEF Steady
  <2>5. \A j \in RowId : outbox'[j] = IF j = h.id THEN e ELSE outbox[j]
    BY <1>0, <2>1
  <2>6. Settled(outbox', delivered', suppressed')
    BY <1>s, <1>n, <2>1, <2>2, <2>3, <2>4, <2>5 DEF Steady, Settled, Counted, Bounced, Careful
  <2> QED
    BY <1>0, <1>s, <2>1, <2>3, <2>4, <2>6, NextRowSteady DEF Steady
<1>13. CASE Find(r)
  <2> DEFINE again(i) == [Marked(outbox[i]) EXCEPT !.retryCount = 0]
             f(i) == Taking(h, i, again(i), "mark")
  <2>1. PICK i \in RowId : /\ h.list[i] # NoRow
                           /\ g = IF Retried(outbox[i]) THEN f(i) ELSE NextRow(f(i))
    BY <1>0, <1>13 DEF Find, Left, h
  <2>2. h.pc = "find" /\ UNCHANGED <<outbox, suppressed, delivered>>
    BY <1>13 DEF Find, h
  <2>3. h.kind \notin {"drain", "enqueue"} /\ Settled(outbox, delivered, suppressed)
    BY <1>s, <1>t, <2>2 DEF Steady, Roles
  <2> DEFINE e == again(i)
  <2>4. /\ e \in Row /\ e.status = "pending" /\ e.key = outbox[i].key
        /\ e.bounceClass = outbox[i].bounceClass
    <3>1. ASSUME NEW x \in Row
          PROVE  LET y == Marked(x)
                 IN  /\ y \in Row /\ y.status = "pending" /\ y.key = x.key
                     /\ y.bounceClass = x.bounceClass
      BY DEF Marked, Row
    <3>2. ASSUME NEW y \in Row
          PROVE  LET z == [y EXCEPT !.retryCount = 0]
                 IN  /\ z \in Row /\ z.status = y.status /\ z.key = y.key
                     /\ z.bounceClass = y.bounceClass
      BY DEF Row
    <3>3. outbox[i] \in Row
      BY <1>0
    <3> QED
      BY <3>1, <3>2, <3>3
  <2> HIDE DEF again
  <2>5. e.bounceClass = "hard" => suppressed
    BY <1>n, <2>3, <2>4 DEF Settled, Bounced
  <2>6. CASE Retried(outbox[i])
    <3>1. Waiting(outbox[i]) /\ Waiting(e)
      <4>1. outbox[i].status \notin {"none", "sent"}
        BY <1>s, <2>1, <2>6 DEF Steady, Listing, Retried
      <4> QED
        BY <1>0, <1>n, <2>4, <4>1 DEF Row
    <3> QED
      BY <1>0, <1>s, <2>1, <2>2, <2>3, <2>4, <2>5, <2>6, <3>1, TakingSteady DEF Steady
  <2>7. CASE ~ Retried(outbox[i])
    <3>1. /\ f(i).kind = h.kind /\ f(i).row = h.row /\ f(i).outer = e
          /\ f(i).list = [h.list EXCEPT ![i] = NoRow] /\ f(i) \in Handler
      <4> DEFINE l == [h.list EXCEPT ![i] = NoRow]
      <4>1. l \in [RowId -> Row]
        BY <1>n
      <4>2. f(i) = [h EXCEPT !.pc = "mark", !.id = i, !.outer = e, !.list = l]
        BY DEF Taking
      <4>3. h \in Handler
        BY <1>0
      <4> HIDE DEF l, e, f, h
      <4>4. /\ f(i).kind = h.kind /\ f(i).row = h.row /\ f(i).outer = e
            /\ f(i).list = l /\ f(i) \in Handler
        BY <2>4, <4>1, <4>2, <4>3 DEF Handler
      <4> QED
        BY <4>4 DEF l
    <3>2. \A j \in RowId : f(i).list[j] = IF j = i THEN NoRow ELSE h.list[j]
      BY <1>n, <3>1
    <3> HIDE DEF f
    <3>3. Listing(f(i), outbox) /\ Careful(f(i), suppressed)
      BY <1>s, <1>n, <2>5, <3>1, <3>2 DEF Steady, Listing, Careful
    <3> QED
      BY <2>1, <2>2, <2>3, <2>7, <3>1, <3>3, NextRowSteady
  <2> QED
    BY <2>6, <2>7
<1>14. CASE Mark(r)
  <2>1. /\ h.pc = "mark" /\ h.id \in RowId /\ UNCHANGED <<suppressed, delivered>>
        /\ g = [h EXCEPT !.pc = "read"] /\ outbox' = [outbox EXCEPT ![h.id] = h.outer]
    BY <1>0, <1>14 DEF Mark, Sound, Placed, Write, h
  <2>2. /\ Waiting(h.outer) /\ h.outer.key = outbox[h.id].key /\ h.outer.status # "none"
        /\ outbox[h.id].status \in {"pending", "failed"}
    BY <1>0, <1>s, <1>n, <2>1 DEF Steady, Working, Roles, Busy, Holding
  <2>3. Apart(outbox') /\ Listing(h, outbox')
    BY <1>0, <1>s, <1>n, <2>1, <2>2, SameKey, ListingKept DEF Steady
  <2>4. \A j \in RowId : outbox'[j] = IF j = h.id THEN h.outer ELSE outbox[j]
    BY <1>0, <2>1
  <2>5. Settled(outbox', delivered', suppressed')
    BY <1>s, <1>n, <2>1, <2>2, <2>3, <2>4 DEF Steady, Settled, Counted, Bounced, Careful
  <2>6. /\ g.pc = "read" /\ g.id = h.id /\ g.kind = h.kind /\ g.outer = h.outer
        /\ g.list = h.list /\ g.row = h.row
    BY <1>0, <2>1 DEF Handler
  <2>7. Working(g, outbox')
    BY <1>s, <2>1, <2>2, <2>4, <2>6 DEF Steady, Working, Busy, Holding
  <2>8. Counted(g, outbox', delivered') /\ Bounced(g, outbox', suppressed')
    BY <1>n, <2>5 DEF Settled, Counted, Bounced
  <2> QED
    BY <1>s, <2>1, <2>3, <2>6, <2>7, <2>8 DEF Steady, Listing, Fresh, Careful, Roles
<1>15. CASE SaveOpen(r)
  <2>1. /\ h.pc = "save" /\ h.id \in RowId /\ UNCHANGED <<suppressed, delivered>>
        /\ g = Idle /\ outbox' = [outbox EXCEPT ![h.id] = h.row]
    BY <1>0, <1>15 DEF SaveOpen, End, Sound, Placed, Write, h
  <2>2. /\ h.row.status = "sent" /\ h.row.key = outbox[h.id].key
        /\ outbox[h.id].status = "sent"
    BY <1>s, <2>1 DEF Steady, Working, Holding
  <2>3. Apart(outbox')
    BY <1>0, <1>s, <1>n, <2>1, <2>2, SameKey DEF Steady
  <2>4. \A j \in RowId : outbox'[j] = IF j = h.id THEN h.row ELSE outbox[j]
    BY <1>0, <2>1
  <2>5. Settled(outbox', delivered', suppressed')
    BY <1>s, <1>n, <2>1, <2>2, <2>3, <2>4 DEF Steady, Settled, Counted, Bounced, Careful
  <2> QED
    BY <2>1, <2>5, IdleSteady
<1> QED
  BY <1>1, <1>2, <1>3, <1>4, <1>5, <1>6, <1>7, <1>8, <1>9, <1>10, <1>11, <1>12, <1>13,
     <1>14, <1>15 DEF Step

\* Run one at a time, the handlers keep the invariant.
LEMMA InductiveSerially ==
  /\ Init => (serial => SInv)
  /\ (serial => SInv) /\ [Next]_vars => (serial => SInv)'
<1>1. ASSUME Init PROVE SInv
  <2>1. IInv
    BY <1>1, Inductive
  <2>2. NoRow.status = "none" /\ NoRow.bounceClass = "none"
    BY DEF NoRow
  <2>3. Settled(outbox, delivered, suppressed)
    BY <1>1, <2>2 DEF Init, Settled, Apart, Counted, Bounced
  <2> QED
    BY <1>1, <2>1, <2>3, IdleSteady, RequestAssumption DEF Init, SInv
<1>2. ASSUME serial, SInv, [Next]_vars PROVE SInv'
  <2>1. IInv'
    BY <1>2, Inductive DEF SInv
  <2>2. ASSUME NEW r \in Request, Start(r) PROVE SInv'
    BY <1>2, <2>1, <2>2, StartSteady
  <2>3. ASSUME NEW r \in Request, Step(r) PROVE SInv'
    BY <1>2, <2>1, <2>3, StepSteady
  <2>4. ASSUME NEW r \in Request, TakeThrows(r) \/ CallThrows(r) PROVE SInv'
    BY <1>2, <2>1, <2>4, FailureSteady
  <2>5. CASE UNCHANGED vars
    BY <1>2, <2>1, <2>5 DEF vars, moving, SInv
  <2> QED
    BY <1>2, <2>1, <2>2, <2>3, <2>4, <2>5, CrashSteady DEF Next
<1>3. [Next]_vars => UNCHANGED serial
  BY DEF Next, vars
<1> QED
  BY <1>1, <1>2, <1>3

\* EmailOutboxService and EmailSuppressionService, as long as handlers run one at
\* a time and nothing fails: what is queued under one key is sent once, through
\* every drain and retry; and once the handlers have ended, a recipient whose
\* server refused for good is suppressed.
THEOREM SentUnderOneKey == Spec => []SentOnceSerially
<1>1. SInv => SentOnce
  <2> SUFFICES ASSUME SInv, spent.failures = 0, NEW i \in RowId, NEW j \in RowId,
                      delivered[i] > 0, delivered[j] > 0, outbox[i].key = outbox[j].key
               PROVE  i = j /\ delivered[i] = 1
    BY DEF SentOnce
  <2>1. PICK r \in Request : Steady(req[r], outbox, delivered, suppressed)
    BY DEF SInv
  <2>2. \A n \in RowId : delivered[n] > 0 => delivered[n] = 1 /\ outbox[n].status # "none"
    <3>1. req[r].pc = "saveSent" => Waiting(outbox[req[r].id])
      BY <2>1 DEF Steady, Working, Busy
    <3> QED
      BY <2>1, <3>1 DEF Steady, Counted, Waiting
  <2> QED
    BY <2>1, <2>2 DEF Steady, Apart
<1>2. SInv => HardBounceSuppresses
  BY QuietIsSettled DEF HardBounceSuppresses, Settled, Bounced, Idle
<1>3. (serial => SInv) => SentOnceSerially
  BY <1>1, <1>2 DEF SentOnceSerially
<1> QED
  BY <1>3, InductiveSerially, PTL DEF Spec
=============================================================================
