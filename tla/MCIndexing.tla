----------------------------- MODULE MCIndexing -----------------------------
(* Instances of Indexing for TLC: see README.md for the bounds.  No        *)
(* symmetry: the passing runs check liveness.                              *)
EXTENDS Indexing

CONSTANTS r1, r2
=============================================================================
