--------------------------- MODULE MCAgentAccess ---------------------------
(* AgentAccess for TLC: the members of each set are interchangeable.         *)
EXTENDS AgentAccess, TLC

Symmetry == Permutations(Agents) \cup Permutations(Creds) \cup Permutations(Requests)
=============================================================================
