----------------------------- MODULE MCReactionner -----------------------------
(* A small instance of one Reactionner. *)
EXTENDS Reactionner

CONSTANTS a, b
=============================================================================
