---------------------------- MODULE MemoryCache ----------------------------
(***************************************************************************)
(* memoryCache of internal/cache/cache.go as the code runs it: Get is one  *)
(* step under c.mu; Put inserts, then deletes from the back of the list    *)
(* one entry at a time while it still holds c.mu.  The lock is the         *)
(* variable putting: the key of the Put inside its loop, or NoKey.         *)
(***************************************************************************)
EXTENDS LRU

CONSTANTS
    Keys,       \* the cache keys
    NoKey,      \* "c.mu is free"
    Values,     \* what is stored
    Sizes,      \* the sizes callers pass to Put
    MaxBytes,   \* the byte budget
    TTL,        \* time to live; <= 0 means entries never expire
    MaxTime     \* bound on the clock, for TLC

ASSUME KeysAssumption == NoKey \notin Keys
ASSUME SizesAssumption == Sizes \subseteq Nat
ASSUME BudgetAssumption == MaxBytes \in Nat
ASSUME TimeAssumption == TTL \in Int /\ MaxTime \in Nat

VARIABLES
    cache,      \* order, items and used of the struct
    putting,    \* the key whose Put holds c.mu inside its eviction loop
    now         \* time.Now()

vars == <<cache, putting, now>>

Entries == [value : Values, size : Sizes, storedAt : Nat]

Unlocked == putting = NoKey

Init ==
    /\ cache = EmptyCache
    /\ putting = NoKey
    /\ now = 0

\* Get on an absent key.
GetMiss(k) ==
    /\ Unlocked
    /\ k \notin DOMAIN cache.items
    /\ UNCHANGED vars

\* Get on an entry past its time to live deletes it.
GetExpired(k) ==
    /\ Unlocked
    /\ k \in DOMAIN cache.items
    /\ Expired(cache.items[k], now, TTL)
    /\ cache' = DeleteLocked(cache, k)
    /\ UNCHANGED <<putting, now>>

\* Get on a live entry returns it and makes it the most recently used.
GetHit(k) ==
    /\ Unlocked
    /\ Hits(cache, k, now, TTL)
    /\ cache' = Touched(cache, k)
    /\ UNCHANGED <<putting, now>>

\* Put: lock, replace, push to the front, count the bytes.
PutInsert(k, v, size) ==
    LET e == [value |-> v, size |-> size, storedAt |-> now]
    IN  /\ Unlocked
        /\ cache' = Inserted(cache, k, e)
        /\ putting' = k
        /\ UNCHANGED now

\* One turn of the loop that deletes the wrong end of the list (mutant).
PutEvictFront ==
    /\ ~Unlocked
    /\ cache.used > MaxBytes
    /\ cache.order # << >>
    /\ cache' = DeleteLocked(cache, Head(cache.order))
    /\ UNCHANGED <<putting, now>>

\* One turn of "for c.used > c.maxBytes": the least recently used entry goes.
\* When it is the entry just put, the code deletes it and breaks; the list is
\* empty by then, so the loop would end anyway.
PutEvict ==
    /\ ~Unlocked
    /\ cache.used > MaxBytes
    /\ cache.order # << >>
    /\ cache' = DeleteLocked(cache, Last(cache.order))
    /\ putting' = IF Last(cache.order) = putting THEN NoKey ELSE putting
    /\ UNCHANGED now

\* Put that returns without looping until the budget holds (mutant).
PutReturnEarly ==
    /\ ~Unlocked
    /\ putting' = NoKey
    /\ UNCHANGED <<cache, now>>

\* The loop condition fails, or the list is empty: unlock and return.
PutReturn ==
    /\ ~Unlocked
    /\ cache.used <= MaxBytes \/ cache.order = << >>
    /\ putting' = NoKey
    /\ UNCHANGED <<cache, now>>

\* Time passes, whoever holds the lock.
Tick ==
    /\ now < MaxTime
    /\ now' = now + 1
    /\ UNCHANGED <<cache, putting>>

Next ==
    \/ \E k \in Keys : GetMiss(k) \/ GetExpired(k) \/ GetHit(k)
    \/ \E k \in Keys, v \in Values, size \in Sizes : PutInsert(k, v, size)
    \/ PutEvict
    \/ PutReturn
    \/ Tick

Spec == Init /\ [][Next]_vars

-----------------------------------------------------------------------------
(* Properties.                                                             *)

EntryMap(m) == DOMAIN m \subseteq Keys /\ m \in [DOMAIN m -> Entries]

\* Every field has its type; the byte count is never negative.
TypeOK ==
    /\ cache = [order |-> cache.order, items |-> cache.items, used |-> cache.used]
    /\ cache.order \in Seq(Keys)
    /\ EntryMap(cache.items)
    /\ cache.used \in Nat
    /\ putting \in Keys \cup {NoKey}
    /\ now \in Nat

\* The linked list and the map never drift apart: every key of the map is on
\* the list exactly once, and nothing else is.  Get dereferences e.elem and Put
\* evicts by list position, so a stale list element would be a lost entry or a
\* loop that never frees a byte.
Lockstep ==
    /\ {cache.order[i] : i \in 1 .. Len(cache.order)} = DOMAIN cache.items
    /\ \A i, j \in 1 .. Len(cache.order) :
          cache.order[i] = cache.order[j] => i = j

\* c.used is exactly the bytes of the entries held, through replacement,
\* expiry and eviction in any order.
UsedIsBytesHeld == cache.used = BytesHeld(cache.items)

\* "evicting ... until the budget holds": whoever takes c.mu finds no more
\* than maxBytes in the cache.
WithinBudget == Unlocked => BytesHeld(cache.items) <= MaxBytes

\* An entry appears or changes only by a Put of its own key, and then carries
\* the time of that Put: no Get, eviction or other key's Put revives a value or
\* renews an entry's age, so its time to live counts from when it was stored.
EntriesComeFromPut ==
    [][\A k \in DOMAIN cache'.items :
          \/ k \in DOMAIN cache.items /\ cache'.items[k] = cache.items[k]
          \/ Unlocked /\ putting' = k /\ cache'.items[k].storedAt = now]_vars

\* While a Put evicts, its own key is the most recently used one: it is the
\* last to go, and goes only when it alone exceeds the budget.
PutterIsFront == ~Unlocked => cache.order # << >> /\ Head(cache.order) = putting

\* The stepwise cache implements the atomic one: a Put takes effect when it
\* inserts, and the entries its loop has still to delete already count as gone.
Atomic == INSTANCE AtomicCache WITH cache <- Trimmed(cache, MaxBytes)

ImplementsAtomic == Atomic!Spec
=============================================================================
