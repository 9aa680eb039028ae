-------------------------- MODULE MCReviewComment --------------------------
(* Instances of ReviewComment for TLC: see README.md for the bounds.       *)
EXTENDS ReviewComment, TLC

CONSTANTS app, user, p1, p2

(* The Guardian worker and a user.                                         *)
ActorOfPublisher == p1 :> app @@ p2 :> user
=============================================================================
