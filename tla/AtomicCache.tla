---------------------------- MODULE AtomicCache ----------------------------
(***************************************************************************)
(* What internal/cache promises its callers: every Get and every Put takes *)
(* effect at one instant, a Put keeps exactly the most recently used       *)
(* entries that fit the budget together, and time passes in between.       *)
(***************************************************************************)
EXTENDS LRU

CONSTANTS Keys, Values, Sizes, MaxBytes, TTL, MaxTime

VARIABLES cache, now

vars == <<cache, now>>

Entry(v, size) == [value |-> v, size |-> size, storedAt |-> now]

Init == cache = EmptyCache /\ now = 0

Get(k) == cache' = AfterGet(cache, k, now, TTL) /\ UNCHANGED now

Put(k, v, size) ==
    /\ cache' = AfterPut(cache, k, Entry(v, size), MaxBytes)
    /\ UNCHANGED now

Tick == now < MaxTime /\ now' = now + 1 /\ UNCHANGED cache

Next ==
    \/ \E k \in Keys : Get(k)
    \/ \E k \in Keys, v \in Values, size \in Sizes : Put(k, v, size)
    \/ Tick

Spec == Init /\ [][Next]_vars
=============================================================================
