--------------------------- MODULE MCMailBilling ----------------------------
(***************************************************************************)
(* MailBilling for TLC.  Either handlers are serial, events arrive in the  *)
(* order of their queue, and the operator and the console take part; or a  *)
(* delivery and the timer interleave at every await, events arrive in any  *)
(* order, a call may throw.                                                *)
(***************************************************************************)
EXTENDS MailBilling

CONSTANTS timer, w1

MCRequests == {timer, w1}

(* All the events the webhook handles, and those the set-up guide lists    *)
(* (docs/MAIL_BILLING_PRODUCTION_CUTOVER.md: no invoice.payment_failed).   *)
MCAllEvents == EventType
MCGuideEvents == EventType \ {"invoice.payment_failed"}

MCInit == Init /\ inOrder = serial
MCNext ==
  /\ Next
  /\ serial => spent'.failures = 0
  /\ ~serial => now' <= 3 /\ spent'.moves <= 3 /\ spent'.calls = 0
MCSpec ==
  /\ MCInit /\ [][MCNext]_vars
  /\ WF_moving(~serial /\ ExpireGrace(Timer))
  /\ \A r \in Request : WF_moving(~serial /\ Step(r))

(* A failed payment starts a grace, when handlers do not overlap. *)
GraceFollowsFailureSerially == serial => GraceFollowsFailure

(* A grace that is over does not stay so for good, whatever overlaps. *)
GraceEndsOverlapping == ~serial => GraceEnds
=============================================================================
