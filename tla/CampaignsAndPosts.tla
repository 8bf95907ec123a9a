-------------------------- MODULE CampaignsAndPosts -------------------------
(***************************************************************************)
(* What a company sends out, side by side: its campaigns go to mailboxes   *)
(* (MailCampaigns), its posts to social channels (SocialPosts).  The two   *)
(* share no row and no timer, so in a behaviour either the one moves       *)
(* ("campaigns") or the other ("posts").                                   *)
(***************************************************************************)
EXTENDS MailCampaigns

\* Of SocialPosts; Targets: its Wish.
CONSTANTS PostId, Channel, Targets, BatchSize, Limits

ASSUME PostAssumption ==
  /\ PostId \subseteq Nat \ {0} /\ BatchSize \in Nat
  /\ Targets \subseteq SUBSET Channel
  /\ \A m \in Limits : m.time \in Nat

VARIABLES
  posts, settings, posted, went, cleared, retracted, clock, working, limit, used,
                 \* of SocialPosts; retracted, clock, working and used: its
                 \* withdrawn, now, req and spent
  part           \* which half moves

Posts == INSTANCE SocialPosts
           WITH Wish <- Targets, withdrawn <- retracted, now <- clock, req <- working,
                spent <- used

postVars == <<posts, settings, posted, went, cleared, retracted, clock, working, limit, used>>
bothVars == <<vars, postVars, part>>

BothInit == Init /\ Posts!Init /\ part \in {"campaigns", "posts"}

BothNext ==
  /\ \/ part = "campaigns" /\ Next /\ UNCHANGED postVars
     \/ part = "posts" /\ Posts!Next /\ UNCHANGED vars
  /\ UNCHANGED part

BothSpec == BothInit /\ [][BothNext]_bothVars

-----------------------------------------------------------------------------
(* Properties *)

\* Campaigns, posts and handlers keep their shape.
BothTypeOK == TypeOK /\ Posts!TypeOK

\* Where posts need an approval, none goes out without it.
ApprovalHolds == Posts!ApprovalHolds

\* A post withdrawn while nobody was at it neither goes out nor comes back.
WithdrawnStays == Posts!WithdrawnStays

\* A post being published is in somebody's hands, and a published one is where
\* it says, once.
StatusIsTrue == Posts!StatusIsTrue
=============================================================================
