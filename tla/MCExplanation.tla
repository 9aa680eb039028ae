--------------------------- MODULE MCExplanation ---------------------------
(* Instances of Explanation for TLC: see README.md for the bounds.         *)
EXTENDS Explanation

CONSTANTS c1, c2
=============================================================================
