------------------------ MODULE MCCampaignsAndPosts ------------------------
(* Instances of CampaignsAndPosts for TLC. *)
EXTENDS CampaignsAndPosts

CONSTANTS h1, h2, k1, c1, c2

MCRequests == {h1, h2}
MCRefs == {k1}
MCWishes == {<<TRUE, NoRef>>, <<FALSE, k1>>}
MCPosts == 1 .. 2
MCChannels == {c1, c2}
MCTargets == {{c1, c2}, {c1}, {}}

(* One post through its whole life, with a refusal and a failure; one that *)
(* two handlers work on; and two of a list, for one channel each.          *)
OnePost == [posts |-> 1, time |-> 1, calls |-> 5, refusals |-> 1, failures |-> 1, overlaps |-> 0]
Rivals == [posts |-> 1, time |-> 1, calls |-> 4, refusals |-> 0, failures |-> 1, overlaps |-> 1]
TwoPosts == [posts |-> 2, time |-> 1, calls |-> 5, refusals |-> 0, failures |-> 0, overlaps |-> 1]
MCLimits == {OnePost, Rivals, TwoPosts}

(* The dispatcher's right is looked at only where no approval is required; *)
(* two posts are of one channel at most; channels are served in the order  *)
(* c1, c2, and of two idle handlers h1 begins.  A patch of both time and   *)
(* text is left to OnePost.                                                *)
Settled ==
  /\ settings.ownerApprovalRequired => ~ settings.dispatcherCanPublish
  /\ limit = TwoPosts => settings.ownerApprovalRequired
  /\ part = "campaigns" => limit = OnePost /\ settings.ownerApprovalRequired
Ordered ==
  /\ \A i \in PostId :
       posts'[i].platforms # {} => (limit = TwoPosts <=> c2 \notin posts'[i].platforms)
  /\ \A r \in Request : c1 \in working'[r].left /\ limit # TwoPosts => c2 \in working'[r].left
  /\ working[h2].pc = "idle" /\ working'[h2].pc # "idle" => working[h1].pc # "idle"
  /\ \A r \in Request :
       LET h == working'[r]
       IN  limit # OnePost /\ working[r].pc = "idle" /\ h.clears # "never"
             => h.post.text = posts[h.id].text

MCInit == BothInit /\ Settled
MCNext == BothNext /\ Ordered
MCSpec ==
  /\ MCInit /\ [][MCNext]_bothVars
  /\ WF_vars(part = "campaigns" /\ \E r \in Request : DrainScheduled(r))
  /\ \A r \in Request : WF_vars(part = "campaigns" /\ Step(r))
=============================================================================
