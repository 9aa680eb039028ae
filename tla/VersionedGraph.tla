--------------------------- MODULE VersionedGraph ---------------------------
(***************************************************************************)
(* What Regora promises about the graph of one repository: there is one    *)
(* complete version at a time, it is replaced in one step by a version     *)
(* that is not older, and the versions that can be compared with it always *)
(* include itself.                                                         *)
(***************************************************************************)
EXTENDS Integers

CONSTANT Version          \* the versions a repository can have: positive, in order

VARIABLES
    current,   \* the version readers see, 0 when there is none
    retained   \* the versions whose snapshots are kept

vars == <<current, retained>>

Init == current = 0 /\ retained = {}

Replace(v) ==
    /\ v >= current
    /\ current' = v
    /\ v \in retained' /\ retained' \subseteq retained \union {v}

Remove == current' = 0 /\ retained' = {}

Next == (\E v \in Version : Replace(v)) \/ Remove

Spec == Init /\ [][Next]_vars
=============================================================================
