--------------------------- MODULE MCHumanSession ---------------------------
(* HumanSession for TLC: requests are interchangeable.                       *)
EXTENDS HumanSession, TLC

Symmetry == Permutations(Requests)
=============================================================================
