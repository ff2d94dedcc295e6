--------------------------- MODULE MCOvsdbClient ---------------------------
(* OvsdbClient for TLC: the caller goroutines are interchangeable.         *)
EXTENDS OvsdbRefinement, TLC

CallerSymmetry == Permutations(Callers)
=============================================================================
