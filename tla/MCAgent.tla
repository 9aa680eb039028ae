------------------------------ MODULE MCAgent ------------------------------
(* Instances of Agent for TLC: see README.md for the bounds.               *)
EXTENDS Agent, TLC

CONSTANTS c1, c2, s1, s2, function, file

(* Threads and conversations are interchangeable; symbols are not.         *)
Symmetry == Permutations({c1, c2}) \union Permutations({s1, s2})
=============================================================================
