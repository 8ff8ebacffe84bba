-------------------------------- MODULE LRU --------------------------------
(***************************************************************************)
(* The byte-budgeted LRU map of internal/cache/cache.go (memoryCache), as  *)
(* operators on one cache value.  MemoryCache runs the loop of Put step by *)
(* step; AtomicCache and Fetcher use whole operations, which the mutex     *)
(* c.mu makes indivisible.                                                 *)
(*                                                                         *)
(* A cache value has the three mutable fields of the struct:               *)
(*   order   the keys of the linked list, front (most recent) first        *)
(*   items   the map from a key to [value, size, storedAt]                 *)
(*   used    the running byte count                                        *)
(***************************************************************************)
EXTENDS Integers, FiniteSets, Sequences, SequencesExt

\* New: an empty list, an empty map, no byte used.
EmptyCache == [order |-> << >>, items |-> << >>, used |-> 0]

\* list.Remove of the element the entry points to (e.elem).
Unlink(order, k) == RemoveAt(order, CHOOSE i \in DOMAIN order : order[i] = k)

\* delete(c.items, key).
DropItem(items, k) == [x \in DOMAIN items \ {k} |-> items[x]]

\* deleteLocked that forgets to give the bytes back (mutant).
DeleteLockedKeepingUsed(c, k) ==
    IF k \in DOMAIN c.items
    THEN [order |-> Unlink(c.order, k), items |-> DropItem(c.items, k),
          used |-> c.used]
    ELSE c

\* deleteLocked that leaves the key on the LRU list (mutant).
DeleteLockedKeepingOrder(c, k) ==
    IF k \in DOMAIN c.items
    THEN [order |-> c.order, items |-> DropItem(c.items, k),
          used |-> c.used - c.items[k].size]
    ELSE c

\* deleteLocked: an absent key is a no-op.
DeleteLocked(c, k) ==
    IF k \in DOMAIN c.items
    THEN [order |-> Unlink(c.order, k), items |-> DropItem(c.items, k),
          used |-> c.used - c.items[k].size]
    ELSE c

\* list.PushFront and the map store of Put.
PushFront(c, k, e) ==
    [order |-> <<k>> \o c.order,
     items |-> [x \in DOMAIN c.items \cup {k} |-> IF x = k THEN e ELSE c.items[x]],
     used  |-> c.used + e.size]

\* Put up to its eviction loop: the old entry goes first, so a replacement is
\* never counted twice.
Inserted(c, k, e) == PushFront(DeleteLocked(c, k), k, e)

\* A hit that renews the age of the entry, a sliding expiry (mutant).
TouchedRenewed(c, k) ==
    [c EXCEPT !.order = <<k>> \o Unlink(c.order, k), !.items[k].storedAt = @ + 1]

\* list.MoveToFront on a hit.
Touched(c, k) ==
    [order |-> <<k>> \o Unlink(c.order, k), items |-> c.items, used |-> c.used]

\* No entry expires (mutant).
ExpiredNever(e, now, ttl) == FALSE

\* The clause ttl > 0 && time.Since(e.storedAt) > ttl of Get: a ttl of zero or
\* less never expires anything.
Expired(e, now, ttl) == ttl > 0 /\ now - e.storedAt > ttl

\* Whether Get(k) returns the value, and the cache it leaves behind: an expired
\* entry is deleted, a live one becomes the most recently used.
Hits(c, k, now, ttl) == k \in DOMAIN c.items /\ ~Expired(c.items[k], now, ttl)

AfterGet(c, k, now, ttl) ==
    IF Hits(c, k, now, ttl) THEN Touched(c, k) ELSE DeleteLocked(c, k)

-----------------------------------------------------------------------------
(* What the eviction loop amounts to, for the modules that take Put as one *)
(* step.  Bytes are counted as a set of byte slots rather than with a      *)
(* recursive sum, so that the provers can reason about them.               *)

ByteSlots(items) == UNION {{k} \X (1 .. items[k].size) : k \in DOMAIN items}

BytesHeld(items) == Cardinality(ByteSlots(items))

\* The entries of the n most recently used keys.
Recent(c, n) ==
    LET kept == {c.order[i] : i \in 1 .. n}
    IN  [x \in kept |-> c.items[x]]

\* How many of the most recently used entries fit the budget together.
Fitting(c, maxBytes) ==
    Max({n \in 0 .. Len(c.order) : BytesHeld(Recent(c, n)) <= maxBytes})

\* The cache after "for c.used > c.maxBytes { delete the back }".  An entry
\* larger than the whole budget therefore empties the cache before it is
\* dropped itself.
Trimmed(c, maxBytes) ==
    IF c.used <= maxBytes THEN c
    ELSE LET n == Fitting(c, maxBytes)
         IN  [order |-> SubSeq(c.order, 1, n), items |-> Recent(c, n),
              used |-> BytesHeld(Recent(c, n))]

\* The whole of Put.
AfterPut(c, k, e, maxBytes) == Trimmed(Inserted(c, k, e), maxBytes)
=============================================================================
