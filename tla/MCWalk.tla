------------------------------- MODULE MCWalk -------------------------------
(* Every text up to MaxLen bytes.                                           *)
EXTENDS Walk

CONSTANT MaxLen

\* Every valid UTF-8 text, with runes of every width.
MCTexts ==
    {d \in UNION {[1 .. n -> 0 .. UTFMax] : n \in 0 .. MaxLen} : IsText(d)}
=============================================================================
