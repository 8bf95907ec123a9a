-------------------------- MODULE MCDelayedCompose --------------------------
(* Instances of DelayedCompose for TLC. *)
EXTENDS DelayedCompose

CONSTANTS t1, t2, d1

MCRequests == {t1, t2}
MCDrafts == {d1}
=============================================================================
