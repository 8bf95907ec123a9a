----------------------------- MODULE SocialPosts ----------------------------
(***************************************************************************)
(* The posts of a company on its social channels                           *)
(* (apps/api/src/modules/social-hub: SocialHubApplicationService,          *)
(* SocialPostPublishScheduler, SocialCompanyAuthorization): they are       *)
(* written, scheduled, submitted, approved, cancelled, deleted and         *)
(* published by its users, and by a timer when their time has come,        *)
(* whether or not its last tick has ended.                                 *)
(*                                                                         *)
(* Whoever changes a post saves the whole row he has read; the timer holds *)
(* all the rows of its list while it publishes them one after the other.   *)
(* Every await is a step.  bulkCancelPosts and bulkRetryPublishPosts are   *)
(* such calls one after the other.  The settings of the company and the     *)
(* channels of a post stay as they are.                                    *)
(***************************************************************************)
EXTENDS Naturals, FiniteSets

CONSTANTS
  Request,    \* calls and ticks that may be in flight at once
  PostId,     \* posts, numbered in the order they are written
  Channel,    \* connected channels
  Wish,       \* the sets of channels a post is written for, subsets of Channel
  BatchSize,  \* posts a tick lists at most
  Limits      \* bounds of the posts, the clock, the calls, the refusals, the failures and
              \* the handlers begun while another is in flight

VARIABLES
  posts,      \* rows of company_social_posts
  settings,   \* row of company_social_settings
  posted,     \* how often a channel has taken a post; 2: twice or more
  went,       \* the text it has taken last
  cleared,    \* history: whether somebody who may approve posts has let it through
  withdrawn,  \* history: posts cancelled or deleted while no other handler was at them
  now,        \* the clock
  req,        \* the handlers in flight and what they hold in memory
  limit,      \* the bounds of this behaviour, one of Limits
  spent       \* how much of them is used up

vars == <<posts, settings, posted, went, cleared, withdrawn, now, req, limit, spent>>
channels == <<posted, went>>

-----------------------------------------------------------------------------
(* Types *)

Status == {"none", "deleted", "DRAFT", "PENDING_APPROVAL", "APPROVED", "SCHEDULED",
           "PUBLISHING", "PUBLISHED", "FAILED", "CANCELLED"}

\* A text is the number of the call that has brought it.
Post == [status : Status,
         scheduledAt : Nat,      \* 0: null
         text : Nat,
         platforms : SUBSET Channel]

NoPost == [status |-> "none", scheduledAt |-> 0, text |-> 0, platforms |-> {}]

\* Owner and social admin, and the dispatcher.
Role == {"admin", "member"}
Settings == [ownerApprovalRequired : BOOLEAN, dispatcherCanPublish : BOOLEAN]

\* Never; before somebody without the right has set its time or submitted it; since.
Clearance == {"never", "before", "now"}

Handler == [kind : {"none", "call", "tick"},
            pc : {"idle", "save", "delete", "begin", "channel"},
            id : PostId \union {0},
            post : Post,                \* its entity
            clears : Clearance,         \* what saving it means; "never": nothing
            left : SUBSET Channel,      \* channels it has still to go to
            errors : BOOLEAN,
            list : [PostId -> Post]]    \* what has been listed and not yet come to

NoList == [i \in PostId |-> NoPost]
Idle == [kind |-> "none", pc |-> "idle", id |-> 0, post |-> NoPost, clears |-> "never",
         left |-> {}, errors |-> FALSE, list |-> NoList]

Counters == [calls : Nat, refusals : Nat, failures : Nat, overlaps : Nat]

TypeOK ==
  /\ posts \in [PostId -> Post]
  /\ settings \in Settings
  /\ posted \in [PostId -> [Channel -> 0 .. 2]]
  /\ went \in [PostId -> [Channel -> Nat]]
  /\ cleared \in [PostId -> Clearance]
  /\ withdrawn \subseteq PostId
  /\ now \in Nat
  /\ req \in [Request -> Handler]
  /\ limit \in Limits
  /\ spent \in Counters

Init ==
  /\ posts = NoList
  /\ settings \in Settings
  /\ posted = [i \in PostId |-> [c \in Channel |-> 0]]
  /\ went = posted
  /\ cleared = [i \in PostId |-> "never"]
  /\ withdrawn = {}
  /\ now = 0
  /\ req = [r \in Request |-> Idle]
  /\ limit \in Limits
  /\ spent = [calls |-> 0, refusals |-> 0, failures |-> 0, overlaps |-> 0]

At(r, pc) == req[r].pc = pc
Become(r, h) == req' = [req EXCEPT ![r] = h]
Overlaps(r) == \E q \in Request \ {r} : req[q] # Idle
Holds(r, i) == req[r].id = i \/ req[r].list[i] # NoPost

\* A handler begins, a call or a tick.
Begins(r, calls) ==
  /\ req[r] = Idle
  /\ spent.calls + calls <= limit.calls
  /\ Overlaps(r) => spent.overlaps < limit.overlaps
  /\ spent' = [spent EXCEPT !.calls = @ + calls,
                            !.overlaps = IF Overlaps(r) THEN @ + 1 ELSE @]

-----------------------------------------------------------------------------
(* What a user may do, and to which post *)

Editable == {"DRAFT", "PENDING_APPROVAL", "APPROVED", "SCHEDULED", "FAILED"}

\* One that is cancelled is published like one that has failed.
Publishable_Cancelled == {"DRAFT", "APPROVED", "SCHEDULED", "FAILED", "CANCELLED"}
Publishable == {"DRAFT", "APPROVED", "SCHEDULED", "FAILED"}

CanPublish(who) ==
  who = "admin" \/ (settings.dispatcherCanPublish /\ ~ settings.ownerApprovalRequired)

\* assertPostReadyToPublish.  Its demand for an approval is met by whoever may publish.
Ready(e) == e.status \in Publishable /\ (e.status = "SCHEDULED" => e.scheduledAt <= now)

\* resolveStatusAfterSchedule.
AfterSchedule(t) == IF t > now THEN "SCHEDULED" ELSE "APPROVED"

\* The time of a post is set without a look at who sets it.
Rescheduled_Unasked(who, t) == IF t = 0 THEN "DRAFT" ELSE AfterSchedule(t)
Rescheduled(who, t) ==
  IF t = 0 THEN "DRAFT"
  ELSE IF settings.ownerApprovalRequired /\ who # "admin" THEN "PENDING_APPROVAL"
  ELSE AfterSchedule(t)

-----------------------------------------------------------------------------
(* The calls of the users: a post is read and changed in memory *)

\* The handler has read post i and is about to save it as e.
Holding(i, e, clears) ==
  [Idle EXCEPT !.kind = "call", !.pc = "save", !.id = i, !.post = e, !.clears = clears]

Begun(r, i, e, clears) == Begins(r, 1) /\ Become(r, Holding(i, e, clears))

CreatePost(i, p) ==
  /\ posts[i].status = "none" /\ \A j \in PostId : j < i => posts[j].status # "none"
  /\ Cardinality({j \in PostId : posts[j].status # "none"}) < limit.posts
  /\ spent.calls < limit.calls
  /\ spent' = [spent EXCEPT !.calls = @ + 1]
  /\ posts' = [posts EXCEPT ![i] = [status |-> "DRAFT", scheduledAt |-> 0,
                                    text |-> spent.calls + 1, platforms |-> p]]
  /\ UNCHANGED <<settings, channels, cleared, withdrawn, now, req, limit>>

\* A patch of the text, which asks for no new approval.
EditText(r, i) ==
  /\ posts[i].status \in Editable
  /\ Begun(r, i, [posts[i] EXCEPT !.text = spent.calls + 1], "never")

\* A patch of the time, and perhaps of the text.
Reschedule(r, i, who, t) ==
  /\ posts[i].status \in Editable
  /\ \E text \in {posts[i].text, spent.calls + 1} :
       Begun(r, i, [posts[i] EXCEPT !.text = text, !.scheduledAt = t, !.status = Rescheduled(who, t)],
             IF who = "admin" THEN "now" ELSE "before")

SubmitForApproval(r, i) ==
  /\ settings.ownerApprovalRequired
  /\ posts[i].status \in {"DRAFT", "FAILED"}
  /\ Begun(r, i, [posts[i] EXCEPT !.status = "PENDING_APPROVAL"], "before")

\* By an admin.
ApprovePost(r, i) ==
  /\ posts[i].status = "PENDING_APPROVAL"
  /\ LET t == posts[i].scheduledAt
     IN  Begun(r, i, [posts[i] EXCEPT !.status = IF t = 0 THEN "APPROVED" ELSE AfterSchedule(t)],
               "now")

CancelPost(r, i) ==
  /\ posts[i].status \in Editable
  /\ Begun(r, i, [posts[i] EXCEPT !.status = "CANCELLED", !.scheduledAt = 0], "never")

DeletePost(r, i) ==
  /\ posts[i].status \in Editable
  /\ Begins(r, 1)
  /\ Become(r, [Holding(i, posts[i], "never") EXCEPT !.pc = "delete"])

\* The entity of executePostPublish, on its way to the first save.
Publishing(h, i, e) ==
  [h EXCEPT !.pc = "begin", !.id = i, !.post = [e EXCEPT !.status = "PUBLISHING"],
            !.left = {}, !.errors = FALSE]

\* A post without a channel is refused.
PublishPost(r, i, who) ==
  /\ CanPublish(who) /\ Ready(posts[i]) /\ posts[i].platforms # {}
  /\ Begins(r, 1)
  /\ Become(r, Publishing([Idle EXCEPT !.kind = "call",
                                       !.clears = IF who = "admin" THEN "now" ELSE "never"],
                          i, posts[i]))

Call(r) ==
  /\ \E i \in PostId :
       \/ EditText(r, i) \/ SubmitForApproval(r, i) \/ ApprovePost(r, i)
       \/ CancelPost(r, i) \/ DeletePost(r, i)
       \/ \E who \in Role : \/ PublishPost(r, i, who)
                            \/ \E t \in 0 .. limit.time : Reschedule(r, i, who, t)
  /\ UNCHANGED <<posts, settings, channels, cleared, withdrawn, now, limit>>

-----------------------------------------------------------------------------
(* What they save *)

Clears(i, c) ==
  cleared' = [cleared EXCEPT ![i] = CASE c = "now" -> "now"
                                      [] c = "before" /\ @ = "now" -> "before"
                                      [] OTHER -> @]

\* Nobody else has the post in memory.
Alone(r, i) == \A q \in Request \ {r} : ~ Holds(q, i)

\* The whole row; a deleted one is inserted again.
Save(r) ==
  /\ At(r, "save")
  /\ LET h == req[r]
     IN  /\ posts' = [posts EXCEPT ![h.id] = h.post]
         /\ Clears(h.id, h.clears)
         /\ withdrawn' = IF h.post.status = "CANCELLED" /\ Alone(r, h.id)
                         THEN withdrawn \union {h.id} ELSE withdrawn
  /\ Become(r, Idle)
  /\ UNCHANGED <<settings, channels, now, limit, spent>>

\* Whatever its status is by now.
Delete(r) ==
  /\ At(r, "delete")
  /\ LET i == req[r].id
     IN  /\ posts' = [posts EXCEPT ![i] = [NoPost EXCEPT !.status = "deleted"]]
         /\ withdrawn' = IF Alone(r, i) THEN withdrawn \union {i} ELSE withdrawn
  /\ Become(r, Idle)
  /\ UNCHANGED <<settings, channels, cleared, now, limit, spent>>

-----------------------------------------------------------------------------
(* runDuePosts *)

Due(i) == posts[i].status = "SCHEDULED" /\ posts[i].scheduledAt <= now

\* The first posts that are due, by scheduledAt.
Batch(s) ==
  /\ s \subseteq {i \in PostId : Due(i)} /\ s # {}
  /\ \A i \in s, j \in PostId \ s : Due(j) => posts[i].scheduledAt <= posts[j].scheduledAt
  /\ \/ Cardinality(s) = BatchSize
     \/ Cardinality(s) < BatchSize /\ \A j \in PostId : Due(j) => j \in s

\* The loop goes on to the first post of the list that has a channel; the
\* others throw, and stay as they are.
Listed(l) == {i \in PostId : l[i].platforms # {}}
First(i, l) == i \in Listed(l) /\ \A j \in Listed(l) : l[i].scheduledAt <= l[j].scheduledAt

GoesOn(r, l) ==
  \/ Listed(l) = {} /\ Become(r, Idle)
  \/ \E i \in PostId :
       /\ First(i, l)
       /\ Become(r, Publishing([Idle EXCEPT !.kind = "tick", !.list = [l EXCEPT ![i] = NoPost]],
                               i, l[i]))

Tick(r) ==
  /\ Begins(r, 0)
  /\ \E s \in SUBSET PostId :
       Batch(s) /\ GoesOn(r, [i \in PostId |-> IF i \in s THEN posts[i] ELSE NoPost])
  /\ UNCHANGED <<posts, settings, channels, cleared, withdrawn, now, limit>>

\* What has come of the handler's post is stored, or thrown.
Goes(r) == IF req[r].kind = "tick" THEN GoesOn(r, req[r].list) ELSE Become(r, Idle)

-----------------------------------------------------------------------------
(* executePostPublish *)

Begin(r) ==
  /\ At(r, "begin")
  /\ posts' = [posts EXCEPT ![req[r].id] = req[r].post]
  /\ Clears(req[r].id, req[r].clears)
  /\ Become(r, [req[r] EXCEPT !.pc = "channel", !.left = req[r].post.platforms])
  /\ UNCHANGED <<settings, channels, withdrawn, now, limit, spent>>

\* The last channel decides.
Errors_Last(h, refused) == refused
Errors(h, refused) == h.errors \/ refused

Gone(r, c, refused) ==
  /\ At(r, "channel") /\ c \in req[r].left
  /\ Become(r, [req[r] EXCEPT !.left = @ \ {c}, !.errors = Errors(req[r], refused)])
  /\ UNCHANGED <<posts, settings, cleared, withdrawn, now, limit>>

\* External: the channel takes the post.
Accepted(r, c) ==
  /\ Gone(r, c, FALSE)
  /\ posted' = [posted EXCEPT ![req[r].id][c] = IF @ = 2 THEN 2 ELSE @ + 1]
  /\ went' = [went EXCEPT ![req[r].id][c] = req[r].post.text]
  /\ UNCHANGED spent

\* External: it answers that it does not; the loop goes on to the other channels.
Refused(r, c) ==
  /\ spent.refusals < limit.refusals
  /\ Gone(r, c, TRUE)
  /\ spent' = [spent EXCEPT !.refusals = @ + 1]
  /\ UNCHANGED channels

Outcome(h) ==
  IF h.errors THEN [h.post EXCEPT !.status = "FAILED"]
  ELSE [h.post EXCEPT !.status = "PUBLISHED", !.scheduledAt = 0]

End(r) ==
  /\ At(r, "channel") /\ req[r].left = {}
  /\ posts' = [posts EXCEPT ![req[r].id] = Outcome(req[r])]
  /\ Goes(r)
  /\ UNCHANGED <<settings, channels, cleared, withdrawn, now, limit, spent>>

-----------------------------------------------------------------------------
(* A call throws; the process ends *)

Throw == /\ spent.failures < limit.failures
         /\ spent' = [spent EXCEPT !.failures = @ + 1]

\* The tick catches what the publishing of one post throws.
CallThrows(r) ==
  /\ req[r] # Idle
  /\ Throw
  /\ Goes(r)
  /\ UNCHANGED <<posts, settings, channels, cleared, withdrawn, now, limit>>

Crash ==
  /\ \E r \in Request : req[r] # Idle
  /\ Throw
  /\ req' = [r \in Request |-> Idle]
  /\ UNCHANGED <<posts, settings, channels, cleared, withdrawn, now, limit>>

Passes ==
  /\ now < limit.time
  /\ now' = now + 1
  /\ UNCHANGED <<posts, settings, channels, cleared, withdrawn, req, limit, spent>>

-----------------------------------------------------------------------------
Publish(r) == Begin(r) \/ End(r) \/ \E c \in Channel : Accepted(r, c) \/ Refused(r, c)

Next ==
  \/ \E r \in Request : Call(r) \/ Save(r) \/ Delete(r) \/ Tick(r) \/ Publish(r) \/ CallThrows(r)
  \/ \E i \in PostId, p \in Wish : CreatePost(i, p)
  \/ Crash \/ Passes

Spec == Init /\ [][Next]_vars

-----------------------------------------------------------------------------
(* Properties *)

\* Where posts need an approval, one that goes out has been let through by
\* somebody with the right to; unless handlers overlap, since the last time that
\* somebody without it has set its time or submitted it.
ApprovalHolds ==
  [][\A i \in PostId : settings.ownerApprovalRequired /\ posted'[i] # posted[i] =>
       /\ cleared[i] # "never"
       /\ spent.overlaps = 0 => cleared[i] = "now"]_vars

\* A post cancelled or deleted while no other handler has it in memory neither
\* goes out nor comes back, whatever overlaps or fails before and after.
WithdrawnStays ==
  [][\A i \in withdrawn : posted'[i] = posted[i] /\ posts'[i] = posts[i]]_vars

\* A post being published is in the hands of a handler, unless a call has failed
\* or the process has ended.  A published one has been taken by all its channels.
\* Unless handlers overlap, they have its text, and no channel has taken a post
\* twice, whatever fails, as long as none refuses it.
StatusIsTrue ==
  \A i \in PostId :
    /\ spent.failures = 0 /\ posts[i].status = "PUBLISHING" =>
         \E r \in Request : req[r].id = i /\ At(r, "channel")
    /\ posts[i].status = "PUBLISHED" =>
         \A c \in posts[i].platforms :
           posted[i][c] > 0 /\ (spent.overlaps = 0 => went[i][c] = posts[i].text)
    /\ spent.overlaps = 0 /\ spent.refusals = 0 => \A c \in Channel : posted[i][c] <= 1
=============================================================================
