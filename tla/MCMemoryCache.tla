--------------------------- MODULE MCMemoryCache ---------------------------
(* MemoryCache for TLC: keys are interchangeable.                            *)
EXTENDS MemoryCache

Symmetry == Permutations(Keys)
=============================================================================
