---------------------------- MODULE MCHumanActor ----------------------------
(* HumanActor for TLC: subjects, names and requests are interchangeable.       *)
EXTENDS HumanActor, TLC

Symmetry == Permutations(Subjects) \cup Permutations(Names)
            \cup Permutations(Requests)
=============================================================================
