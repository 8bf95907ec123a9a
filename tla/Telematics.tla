----------------------------- MODULE Telematics -----------------------------
(***************************************************************************)
(* The two halves of the telematics side by side: in a behaviour either    *)
(* Telemetry moves ("drive") or RouteJobs ("jobs"), for the only thing a   *)
(* batch hands over is the window it asks a route for, which RouteJobs     *)
(* lets anybody ask for at any time.                                       *)
(***************************************************************************)
EXTENDS Telemetry

\* Of RouteJobs.
CONSTANTS Window, NoWindow, MaxAttempts, BatchSize, MaxJobs, MaxWishes, MaxErrors, MaxFailures,
          MaxOverlaps

ASSUME LimitAssumption == MaxAttempts \in Nat \ {0}

VARIABLES
  queue, jobs, tries, matching, used,   \* of RouteJobs; matching and used: its req and spent
  part                                  \* which half moves

Jobs == INSTANCE RouteJobs WITH req <- matching, spent <- used

jobVars == <<queue, jobs, tries, matching, used>>
bothVars == <<vars, jobVars, part>>

BothInit == Init /\ Jobs!Init /\ part \in {"drive", "jobs"}

BothNext ==
  /\ \/ part = "drive" /\ Next /\ UNCHANGED jobVars
     \/ part = "jobs" /\ Jobs!Next /\ UNCHANGED vars
  /\ UNCHANGED part

BothSpec == BothInit /\ [][BothNext]_bothVars

-----------------------------------------------------------------------------
(* Properties *)

\* Devices, rows, jobs and handlers keep their shape.
BothTypeOK == TypeOK /\ Jobs!TypeOK

\* A job that says running is being worked on, as long as the process lives, and
\* is begun no more often than the limit.
AttemptsEnd == Jobs!AttemptsEnd

\* A window asked for has its job, and its jobs come to an end, unless the process
\* ends.
WishIsMet == part = "jobs" => Jobs!WishIsMet
=============================================================================
