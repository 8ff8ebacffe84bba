--------------------------- MODULE MCHistoryPage ---------------------------
(* HistoryPage for TLC: three recorded calls, two of them at one time; one   *)
(* more may be recorded, whose id comes before that of the newest, and the   *)
(* sweep may take the oldest.                                                *)
EXTENDS HistoryPage

MCIds == 1 .. 4

Call(id, isError, time) ==
    [id |-> id, actor |-> CHOOSE a \in Actors : TRUE, tool |-> CHOOSE t \in Tools : TRUE,
     isError |-> isError, calledAt |-> time]

MCTable == {{Call(1, TRUE, 0), Call(2, FALSE, 0), Call(4, e, 1)} : e \in BOOLEAN}

MCFilters == {[actor |-> Absent, tool |-> Absent, isError |-> e] : e \in {Absent, TRUE}}
=============================================================================
