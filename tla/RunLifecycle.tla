---------------------------- MODULE RunLifecycle ----------------------------
(***************************************************************************)
(* What a review run promises to the owner who watches the Integration     *)
(* Center: it is queued once, begun at most once, and its failure is the   *)
(* end of it - another attempt is another run.  Any run may be removed     *)
(* from the history.                                                       *)
(***************************************************************************)

CONSTANT Runs

VARIABLE state

Active == {"QUEUED", "RUNNING"}

Init == state = [id \in Runs |-> "ABSENT"]

Move(id, from, to) == state[id] \in from /\ state' = [state EXCEPT ![id] = to]

Queue(id)    == Move(id, {"ABSENT"}, "QUEUED")
Begin(id)    == Move(id, {"QUEUED"}, "RUNNING")
Complete(id) == Move(id, {"RUNNING"}, "COMPLETE")
(* A complete review is an error again when its record cannot be stored.   *)
Fail(id)     == Move(id, Active \union {"COMPLETE"}, "ERROR")

Forget == \E S \in SUBSET Runs : state' = [id \in Runs |-> IF id \in S THEN "ABSENT" ELSE state[id]]

Next ==
    \/ \E id \in Runs : Queue(id) \/ Begin(id) \/ Complete(id) \/ Fail(id)
    \/ Forget

Spec == Init /\ [][Next]_state
=============================================================================
