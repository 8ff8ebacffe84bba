----------------------------- MODULE MCFetcher -----------------------------
(* Origins for the Fetcher runs: what every URL serves at each time.        *)
EXTENDS Fetcher

\* An ASCII document of n bytes; sized = it comes with a Content-Length.
Ascii(n, sized) == [body |-> [i \in 1 .. n |-> 1], sized |-> sized]

\* Exactly the budget, well over it without a length, over it with a length,
\* shorter than two pages.
MCOrigin ==
    [t \in 0 .. MaxTime |->
        CASE t = 0 -> Ascii(4, FALSE)
          [] t = 1 -> Ascii(6, FALSE)
          [] t = 2 -> Ascii(6, TRUE)
          [] OTHER -> Ascii(3, TRUE)]

\* One byte more than the budget, sent without a Content-Length.
MCOriginOneOver == [t \in 0 .. MaxTime |-> Ascii(5, FALSE)]

\* Agents are interchangeable.
Symmetry == Permutations(Agents)
=============================================================================
