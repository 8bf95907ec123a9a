--------------------------- MODULE MCEmailOutbox ----------------------------
(***************************************************************************)
(* EmailOutbox for TLC.  Where handlers overlap, the timer and a request   *)
(* interleave at every await, over one row; where they are serial, they    *)
(* work on three rows, with more refusals and retries.                     *)
(***************************************************************************)
EXTENDS EmailOutbox

CONSTANTS timer, w1, k1, k2, k3

MCRequests == {timer, w1}
MCKeys == {k1, k2, k3}

(* The keys are interchangeable: they are taken in the order k1, k2, k3. *)
Taken(k) == k \in {outbox[i].key : i \in RowId} \union {req[w1].key}
Ordered == (Taken(k2) => Taken(k1)) /\ (Taken(k3) => Taken(k2))

(* What a step leaves of the bounds where handlers overlap. *)
Bounded == ~serial => spent'.enqueues <= 1 /\ spent'.retries <= 1 /\ spent'.refusals <= 1

MCNext == Next /\ Ordered' /\ Bounded
MCSpec ==
  /\ Init /\ [][MCNext]_vars
  /\ WF_moving(~serial /\ Drain(Drainer))
  /\ \A r \in Request : WF_moving(~serial /\ Step(r) /\ Bounded)

(* Every queued message reaches the mail server unless refused to the      *)
(* limit, whatever overlaps and wherever the process ends.                 *)
EveryMailDeliveredOverlapping == ~serial => EveryMailDelivered
=============================================================================
