----------------------------- MODULE MCBinding -----------------------------
EXTENDS Binding, TLC

CONSTANTS push, review1, review2, first, second

MCInstallationOf == push :> first @@ review1 :> first @@ review2 :> second

Symmetry == Permutations(Copies) \union Permutations(Handlers)
=============================================================================
