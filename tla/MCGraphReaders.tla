--------------------------- MODULE MCGraphReaders ---------------------------
(* Instances of GraphReaders for TLC: see README.md for the bounds.        *)
EXTENDS GraphReaders, TLC

CONSTANTS r1, r2, c1, c2

ReaderSymmetry == Permutations({r1, r2}) \union Permutations({c1, c2})
=============================================================================
