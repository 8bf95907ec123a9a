---------------------------- MODULE MCTelematics ----------------------------
(***************************************************************************)
(* Telematics for TLC.                                                     *)
(***************************************************************************)
EXTENDS Telematics

CONSTANTS h1, h2, w1, w2

MCRequests == {h1, h2}
MCWindows == {w1, w2}
MCGaps == {1, 2}

(* A whole drive, cut into batches in every way; enrolments and            *)
(* revocations between batches; two handlers that overlap, fail or are     *)
(* lost.                                                                   *)
WholeDrive == [samples |-> 4, batches |-> 3, calls |-> 0, failures |-> 0, overlaps |-> 0]
ManyCalls == [samples |-> 1, batches |-> 1, calls |-> 3, failures |-> 0, overlaps |-> 0]
Overlap == [samples |-> 2, batches |-> 2, calls |-> 1, failures |-> 1, overlaps |-> 1]
MCLimits == {WholeDrive, ManyCalls, Overlap}

MCInit == BothInit /\ (part = "jobs" => limit = ManyCalls)
MCSpec ==
  /\ MCInit /\ [][BothNext]_bothVars
  /\ WF_jobVars(part = "jobs" /\ \E r \in Request : Jobs!Tick(r))
  /\ \A r \in Request : WF_jobVars(part = "jobs" /\ Jobs!Step(r))
=============================================================================
