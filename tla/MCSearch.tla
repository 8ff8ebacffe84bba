------------------------------ MODULE MCSearch ------------------------------
(* Search over its cache for TLC: an answer of an empty result and of one    *)
(* that fits the budget once, and an answer larger than the budget.          *)
EXTENDS Search

MCAnswers == {<<0, 2>>, <<4>>}
MCKeys == {Key(agent, limit) : agent \in Agents, limit \in Limits}
MCSizes == {0, 2, 4}
MCValues == {Stored(agent, a, Normalized(l), at) :
                a \in Answers, l \in Limits, agent \in Agents, at \in 0 .. MaxTime}

Symmetry == Permutations(Agents) \cup Permutations(Searches)
=============================================================================
