------------------------------ MODULE RouteJobs -----------------------------
(***************************************************************************)
(* Route matching (apps/api/src/modules/fleet/telematics/routing:          *)
(* TelemetryMatchingQueueService, RouteMatchingJobRunner,                  *)
(* RouteReconstructionService), for the windows of one driver: a window    *)
(* that wants its route matched waits in the memory of the process until   *)
(* the next tick of the runner makes a job of it, unless one is waiting    *)
(* already, and works off the jobs.  The interval starts the next tick     *)
(* whether or not the last has ended.  The carrier's screen makes a job    *)
(* itself.                                                                 *)
(*                                                                         *)
(* Nothing awaits a tick and nothing catches what it throws: a rejected    *)
(* promise nobody handles ends the process.  Every await is a step.        *)
(***************************************************************************)
EXTENDS Naturals, FiniteSets

CONSTANTS
  Request,      \* ticks and calls that may be in flight at once
  Window,       \* windows of time
  NoWindow,     \* none
  MaxAttempts,  \* attempts after which a job is given up
  BatchSize,    \* jobs a tick lists at most
  MaxJobs,      \* bound of the jobs
  MaxWishes,    \* bound of the windows asked for
  MaxErrors,    \* bound of the attempts that fail
  MaxFailures,  \* bound of the restarts
  MaxOverlaps   \* bound of the handlers begun while another is in flight

VARIABLES
  queue,    \* pending of TelemetryMatchingQueueService: windows, each at most once
  jobs,     \* rows of fleet_route_matching_jobs, numbered in the order of createdAt
  tries,    \* history: how often a job has been begun
  req,      \* the handlers in flight and what they hold in memory
  spent     \* how much of the bounds is used up

vars == <<queue, jobs, tries, req, spent>>

-----------------------------------------------------------------------------
JobId == 1 .. MaxJobs

Job == [status : {"none", "pending", "running", "done", "failed"},
        window : Window \union {NoWindow},
        attemptCount : Nat]

NoJob == [status |-> "none", window |-> NoWindow, attemptCount |-> 0]
NoJobs == [i \in JobId |-> NoJob]

Handler == [kind : {"none", "tick", "call"},
            pc : {"idle", "find", "insert", "list", "take", "work", "finish", "giveBack"},
            wishes : SUBSET Window,    \* windows drained from the queue and not yet looked for
            window : Window \union {NoWindow},
            id : JobId \union {0},     \* the job worked on
            job : Job,                 \* its entity
            list : [JobId -> Job]]     \* what has been listed and not yet come to

Idle == [kind |-> "none", pc |-> "idle", wishes |-> {}, window |-> NoWindow, id |-> 0,
         job |-> NoJob, list |-> NoJobs]

Counters == [wishes : Nat, errors : Nat, failures : Nat, overlaps : Nat]

TypeOK ==
  /\ queue \subseteq Window
  /\ jobs \in [JobId -> Job]
  /\ tries \in [JobId -> Nat]
  /\ req \in [Request -> Handler]
  /\ spent \in Counters

Init ==
  /\ queue = {}
  /\ jobs = NoJobs
  /\ tries = [i \in JobId |-> 0]
  /\ req = [r \in Request |-> Idle]
  /\ spent = [wishes |-> 0, errors |-> 0, failures |-> 0, overlaps |-> 0]

At(r, pc) == req[r].pc = pc
Become(r, h) == req' = [req EXCEPT ![r] = h]
Has(i, s) == jobs[i].status = s
Save(i, e) == jobs' = [jobs EXCEPT ![i] = e]

Overlaps(r) == \E q \in Request \ {r} : req[q] # Idle
Counted(r) == IF Overlaps(r) THEN 1 ELSE 0

Begin(r, h) ==
  /\ req[r] = Idle
  /\ Become(r, h)
  /\ spent.overlaps + Counted(r) <= MaxOverlaps

-----------------------------------------------------------------------------
(* Who asks for a route *)

\* enqueue of the in-process queue, after a batch with enough samples.
Wish(w) ==
  /\ spent.wishes < MaxWishes /\ w \notin queue
  /\ queue' = queue \union {w}
  /\ spent' = [spent EXCEPT !.wishes = @ + 1]
  /\ UNCHANGED <<jobs, tries, req>>

\* enqueueRebuildJob, called for the carrier's screen.
Call(r, w) ==
  /\ spent.wishes < MaxWishes
  /\ Begin(r, [Idle EXCEPT !.kind = "call", !.pc = "find", !.window = w])
  /\ spent' = [spent EXCEPT !.wishes = @ + 1, !.overlaps = @ + Counted(r)]
  /\ UNCHANGED <<queue, jobs, tries>>

-----------------------------------------------------------------------------
(* The tick: the queue is emptied at once, then every window is looked for   *)

\* What has been drained and not yet looked for; then the jobs are listed.
NextWish(h) ==
  [Idle EXCEPT !.kind = "tick", !.wishes = h.wishes, !.pc = IF h.wishes = {} THEN "list" ELSE "find"]

Tick(r) ==
  /\ queue # {} \/ \E i \in JobId : Has(i, "pending")
  /\ Begin(r, NextWish([Idle EXCEPT !.wishes = queue]))
  /\ queue' = {}
  /\ spent' = [spent EXCEPT !.overlaps = @ + Counted(r)]
  /\ UNCHANGED <<jobs, tries>>

\* enqueueRebuildJob returns to the tick, or to the call.
Returned(h) == IF h.kind = "call" THEN Idle ELSE NextWish(h)

Waiting(w) == \E i \in JobId : Has(i, "pending") /\ jobs[i].window = w

Find(r) ==
  /\ At(r, "find")
  /\ \E w \in Window :
       LET h == [req[r] EXCEPT !.window = w, !.wishes = @ \ {w}]
       IN  /\ IF req[r].kind = "call" THEN w = req[r].window ELSE w \in req[r].wishes
           /\ Become(r, IF Waiting(w) THEN Returned(h) ELSE [h EXCEPT !.pc = "insert"])
  /\ UNCHANGED <<queue, jobs, tries, spent>>

NewJob(w) == [NoJob EXCEPT !.status = "pending", !.window = w]

Insert(r) ==
  /\ At(r, "insert")
  /\ \E i \in JobId :
       /\ Has(i, "none") /\ \A j \in JobId : j < i => ~ Has(j, "none")
       /\ Save(i, NewJob(req[r].window))
  /\ Become(r, Returned(req[r]))
  /\ UNCHANGED <<queue, tries, spent>>

-----------------------------------------------------------------------------
(* processPendingJobs *)

\* Jobs given back are passed over.
Listed_New(i) == Has(i, "pending") /\ jobs[i].attemptCount = 0
Listed(i) ==
  /\ Has(i, "pending")
  /\ Cardinality({j \in JobId : j < i /\ Has(j, "pending")}) < BatchSize

Left(h) == {i \in JobId : h.list[i] # NoJob}
NextJob(h) ==
  IF Left(h) = {} THEN Idle ELSE [Idle EXCEPT !.kind = "tick", !.pc = "take", !.list = h.list]

List(r) ==
  /\ At(r, "list")
  /\ Become(r, NextJob([req[r] EXCEPT !.list = [i \in JobId |-> IF Listed(i) THEN jobs[i] ELSE NoJob]]))
  /\ UNCHANGED <<queue, jobs, tries, spent>>

Taken(e) == [e EXCEPT !.status = "running", !.attemptCount = @ + 1]

\* The row is saved as it was listed, whatever has become of it.
Take(r) ==
  /\ At(r, "take")
  /\ \E i \in Left(req[r]) :
       LET e == Taken(req[r].list[i])
       IN  /\ \A j \in Left(req[r]) : i <= j
           /\ Save(i, e)
           /\ tries' = [tries EXCEPT ![i] = @ + 1]
           /\ Become(r, [req[r] EXCEPT !.pc = "work", !.id = i, !.job = e, !.list[i] = NoJob])
  /\ UNCHANGED <<queue, spent>>

\* The events are read and the route is matched; without an answer from the
\* road server the job is done too.
Work(r) ==
  /\ At(r, "work")
  /\ Become(r, [req[r] EXCEPT !.pc = "finish", !.job.status = "done"])
  /\ UNCHANGED <<queue, jobs, tries, spent>>

\* The job is left as it is.
AfterError_Running(e) == e
AfterError(e) == [e EXCEPT !.status = IF e.attemptCount >= MaxAttempts THEN "failed" ELSE "pending"]

\* A call inside the try throws, the save of the finished job included.
WorkThrows(r) ==
  /\ At(r, "work") \/ At(r, "finish")
  /\ spent.errors < MaxErrors
  /\ spent' = [spent EXCEPT !.errors = @ + 1]
  /\ Become(r, [req[r] EXCEPT !.pc = "giveBack", !.job = AfterError(@)])
  /\ UNCHANGED <<queue, jobs, tries>>

Finish(r) ==
  /\ At(r, "finish") \/ At(r, "giveBack")
  /\ Save(req[r].id, req[r].job)
  /\ Become(r, NextJob(req[r]))
  /\ UNCHANGED <<queue, tries, spent>>

-----------------------------------------------------------------------------
(* The process ends: from outside, or because a tick has thrown.  A call that *)
(* throws is answered with an error.                                          *)

Fail(rs) ==
  /\ \E r \in rs : req[r] # Idle
  /\ spent.failures < MaxFailures
  /\ spent' = [spent EXCEPT !.failures = @ + 1]
  /\ req' = [r \in Request |-> IF r \in rs THEN Idle ELSE req[r]]
  /\ UNCHANGED <<jobs, tries>>

CallThrows(r) == req[r].kind = "call" /\ Fail({r}) /\ UNCHANGED queue
Crash == Fail(Request) /\ queue' = {}

-----------------------------------------------------------------------------
Step(r) ==
  Find(r) \/ Insert(r) \/ List(r) \/ Take(r) \/ Work(r) \/ WorkThrows(r) \/ Finish(r)

Next ==
  \/ \E w \in Window : Wish(w) \/ \E r \in Request : Call(r, w)
  \/ \E r \in Request : Tick(r) \/ Step(r) \/ CallThrows(r)
  \/ Crash

Spec == Init /\ [][Next]_vars

\* The interval fires for as long as the process lives, and every call that is
\* awaited ends, in an answer or in an error.
FairSpec ==
  /\ Spec
  /\ WF_vars(\E r \in Request : Tick(r))
  /\ \A r \in Request : WF_vars(Step(r))

-----------------------------------------------------------------------------
(* Properties *)

\* The attempt at job i has begun and not ended.
Holds(r, i) == req[r].id = i /\ req[r].pc \in {"work", "finish", "giveBack"}

\* Attempts come to an end.  A job that says running is being worked on, as long
\* as the process lives, for nobody takes up a job left running; and unless
\* ticks overlap, no job is begun more often than the limit.
AttemptsEnd ==
  spent.failures = 0 =>
    \A i \in JobId :
      /\ Has(i, "running") => \E r \in Request : Holds(r, i)
      /\ spent.overlaps = 0 => tries[i] <= MaxAttempts

\* A window asked for has its job, and its jobs come to an end, unless the
\* process ends: what is in its memory is lost, and what it was working on stays
\* running.
WishIsMet ==
  \A w \in Window :
    LET ofW == {i \in JobId : jobs[i].window = w}
    IN  (w \in queue \/ \E i \in ofW : Has(i, "pending"))
          ~> \/ spent.failures > 0
             \/ ofW # {} /\ \A i \in ofW : jobs[i].status \in {"done", "failed"}
=============================================================================
