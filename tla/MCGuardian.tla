----------------------------- MODULE MCGuardian -----------------------------
(* Instances of Guardian for TLC: see README.md for the bounds.            *)
EXTENDS Guardian, TLC

CONSTANTS r1, r2

RequestSymmetry == Permutations({r1, r2})
=============================================================================
