------------------------- MODULE MemoryCacheProofs -------------------------
(***************************************************************************)
(* Proofs about MemoryCache for every set of keys, every budget, every     *)
(* set of sizes and every time to live; then about Search, which runs it:  *)
(* for every set of agents, searches, limits and answers.  The assumptions *)
(* of Search limit only its own constants (with no agent and no limit they *)
(* all hold), so that the theorems about the cache lose nothing by them.   *)
(***************************************************************************)
EXTENDS Search, FiniteSetTheorems, SequenceTheorems, TLAPS

SlotsOf(k, n) == {k} \X (1 .. n)

Holds(order) == {order[i] : i \in 1 .. Len(order)}

NoRepeat(order) ==
    \A i, j \in 1 .. Len(order) : order[i] = order[j] => i = j

-----------------------------------------------------------------------------
(* The linked list.                                                        *)

\* Unlinking a key of a list without repetitions removes exactly that key and
\* keeps the others in their order (container/list Remove).
LEMMA UnlinkProperties ==
    ASSUME NEW K, NEW s \in Seq(K), NoRepeat(s), NEW p \in 1 .. Len(s)
    PROVE  /\ Unlink(s, s[p]) \in Seq(K)
           /\ Len(Unlink(s, s[p])) = Len(s) - 1
           /\ \A j \in 1 .. Len(s) - 1 :
                 Unlink(s, s[p])[j] = IF j < p THEN s[j] ELSE s[j + 1]
           /\ NoRepeat(Unlink(s, s[p]))
           /\ Holds(Unlink(s, s[p])) = Holds(s) \ {s[p]}
  <1> DEFINE t == RemoveAt(s, p)
             a == SubSeq(s, 1, p - 1)
             b == SubSeq(s, p + 1, Len(s))
  <1>1. DOMAIN s = 1 .. Len(s) /\ Len(s) \in Nat /\ s \in [1 .. Len(s) -> K]
    BY LenProperties
  <1>2. Unlink(s, s[p]) = t
    <2>1. (CHOOSE i \in DOMAIN s : s[i] = s[p]) = p
      BY <1>1 DEF NoRepeat
    <2> QED BY <2>1 DEF Unlink
  <1>3. a \in Seq(K) /\ Len(a) = p - 1 /\ \A i \in 1 .. p - 1 : a[i] = s[i]
    <2>1. \A i \in 1 .. p - 1 : s[i] \in K
      BY <1>1
    <2> QED BY <2>1, <1>1, SubSeqProperties
  <1>4. b \in Seq(K) /\ Len(b) = Len(s) - p
        /\ \A i \in 1 .. Len(s) - p : b[i] = s[p + i]
    <2>1. \A i \in p + 1 .. Len(s) : s[i] \in K
      BY <1>1
    <2>2. /\ b \in Seq(K)
          /\ Len(b) = IF p + 1 <= Len(s) THEN Len(s) - (p + 1) + 1 ELSE 0
          /\ \A i \in 1 .. Len(s) - (p + 1) + 1 : b[i] = s[(p + 1) + i - 1]
      BY <2>1, <1>1, SubSeqProperties
    <2> HIDE DEF b
    <2>3. Len(b) = Len(s) - p
      <3>1. CASE p + 1 <= Len(s)
        BY <2>2, <1>1, <3>1
      <3>2. CASE p = Len(s)
        BY <2>2, <1>1, <3>2
      <3>3. \A n \in Nat : \A q \in 1 .. n : q + 1 <= n \/ q = n
        OBVIOUS
      <3>4. p + 1 <= Len(s) \/ p = Len(s)
        BY <1>1, <3>3, Zenon
      <3> QED BY <3>1, <3>2, <3>4
    <2>4. ASSUME NEW i \in 1 .. Len(s) - p PROVE b[i] = s[p + i]
      <3>1. i \in 1 .. Len(s) - (p + 1) + 1 /\ (p + 1) + i - 1 = p + i
        BY <1>1
      <3> QED BY <2>2, <3>1
    <2> QED BY <2>2, <2>3, <2>4
  <1>5. t \in Seq(K) /\ Len(t) = Len(s) - 1
        /\ \A j \in 1 .. Len(s) - 1 : t[j] = IF j < p THEN s[j] ELSE s[j + 1]
    <2>1. t = a \o b
      BY DEF RemoveAt
    <2>2. /\ a \o b \in Seq(K)
          /\ Len(a \o b) = Len(a) + Len(b)
          /\ \A i \in 1 .. Len(a) + Len(b) : (a \o b)[i] =
                 IF i <= Len(a) THEN a[i] ELSE b[i - Len(a)]
      BY <1>3, <1>4, ConcatProperties
    <2> HIDE DEF a, b, t
    <2> QED BY <2>1, <2>2, <1>3, <1>4, <1>1
  <1>6. NoRepeat(t)
    <2> SUFFICES ASSUME NEW i \in 1 .. Len(t), NEW j \in 1 .. Len(t), t[i] = t[j]
                 PROVE  i = j
      BY DEF NoRepeat
    <2> HIDE DEF t
    <2> QED BY <1>5, <1>1 DEF NoRepeat
  <1>7. Holds(t) = Holds(s) \ {s[p]}
    <2> HIDE DEF t
    <2>1. ASSUME NEW x \in Holds(t) PROVE x \in Holds(s) \ {s[p]}
      <3>1. PICK j \in 1 .. Len(t) : x = t[j]
        BY DEF Holds
      <3> QED BY <3>1, <1>5, <1>1 DEF Holds, NoRepeat
    <2>2. ASSUME NEW x \in Holds(s) \ {s[p]} PROVE x \in Holds(t)
      <3>1. PICK i \in 1 .. Len(s) : x = s[i]
        BY DEF Holds
      <3>2. i # p
        BY <3>1
      <3>3. CASE i < p
        <4>1. i \in 1 .. Len(t) /\ t[i] = x
          BY <3>1, <3>3, <1>5, <1>1
        <4> QED BY <4>1 DEF Holds
      <3>4. CASE i > p
        <4>1. i - 1 \in 1 .. Len(t) /\ t[i - 1] = x
          BY <3>1, <3>4, <1>5, <1>1
        <4> QED BY <4>1 DEF Holds
      <3> QED BY <3>2, <3>3, <3>4, <1>1
    <2> QED BY <2>1, <2>2
  <1> QED BY <1>2, <1>5, <1>6, <1>7

\* Pushing an absent key to the front adds exactly that key (PushFront).
LEMMA PushProperties ==
    ASSUME NEW K, NEW s \in Seq(K), NoRepeat(s), NEW k \in K, k \notin Holds(s)
    PROVE  /\ <<k>> \o s \in Seq(K)
           /\ Len(<<k>> \o s) = Len(s) + 1
           /\ (<<k>> \o s)[1] = k
           /\ \A i \in 1 .. Len(s) : (<<k>> \o s)[i + 1] = s[i]
           /\ NoRepeat(<<k>> \o s)
           /\ Holds(<<k>> \o s) = Holds(s) \cup {k}
  <1> DEFINE t == <<k>> \o s
  <1>1. Len(s) \in Nat /\ <<k>> \in Seq(K) /\ Len(<<k>>) = 1 /\ <<k>>[1] = k
    BY LenProperties
  <1>2. /\ t \in Seq(K)
        /\ Len(t) = Len(s) + 1
        /\ \A i \in 1 .. Len(s) + 1 : t[i] = IF i <= 1 THEN k ELSE s[i - 1]
    <2>1. /\ t \in Seq(K)
          /\ Len(t) = Len(<<k>>) + Len(s)
          /\ \A i \in 1 .. Len(<<k>>) + Len(s) :
                t[i] = IF i <= Len(<<k>>) THEN <<k>>[i] ELSE s[i - Len(<<k>>)]
      BY <1>1, ConcatProperties
    <2> HIDE DEF t
    <2> QED BY <2>1, <1>1
  <1> HIDE DEF t
  <1>3. t[1] = k /\ \A i \in 1 .. Len(s) : t[i + 1] = s[i]
    BY <1>1, <1>2
  <1>4. NoRepeat(t)
    <2> SUFFICES ASSUME NEW i \in 1 .. Len(t), NEW j \in 1 .. Len(t), t[i] = t[j]
                 PROVE  i = j
      BY DEF NoRepeat
    <2>1. \A m \in 1 .. Len(s) : s[m] # k
      BY DEF Holds
    <2>2. \A m \in 1 .. Len(t) : m = 1 \/ (m - 1 \in 1 .. Len(s) /\ t[m] = s[m - 1])
      BY <1>1, <1>2
    <2>3. CASE i = 1 \/ j = 1
      BY <1>3, <2>1, <2>2, <2>3
    <2>4. CASE i # 1 /\ j # 1
      <3>1. i - 1 = j - 1
        BY <2>2, <2>4 DEF NoRepeat
      <3> QED BY <3>1
    <2> QED BY <2>3, <2>4
  <1>5. Holds(t) = Holds(s) \cup {k}
    <2>1. ASSUME NEW x \in Holds(t) PROVE x \in Holds(s) \cup {k}
      <3>1. PICK j \in 1 .. Len(t) : x = t[j]
        BY DEF Holds
      <3> QED BY <3>1, <1>1, <1>2 DEF Holds
    <2>2. ASSUME NEW x \in Holds(s) PROVE x \in Holds(t)
      <3>1. PICK i \in 1 .. Len(s) : x = s[i]
        BY DEF Holds
      <3>2. i + 1 \in 1 .. Len(t) /\ t[i + 1] = x
        BY <3>1, <1>1, <1>2, <1>3
      <3> QED BY <3>2 DEF Holds
    <2>3. k \in Holds(t)
      BY <1>1, <1>2, <1>3 DEF Holds
    <2> QED BY <2>1, <2>2, <2>3
  <1> QED BY <1>2, <1>3, <1>4, <1>5 DEF t

-----------------------------------------------------------------------------
(* The bytes.                                                              *)

\* An entry of n bytes occupies n byte slots.
LEMMA SlotsOfCardinality ==
    ASSUME NEW k, NEW n \in Nat
    PROVE  IsFiniteSet(SlotsOf(k, n)) /\ Cardinality(SlotsOf(k, n)) = n
  <1> DEFINE f == [i \in 1 .. n |-> <<k, i>>]
  <1>1. IsFiniteSet(1 .. n) /\ Cardinality(1 .. n) = n
    BY FS_Interval
  <1>2. f \in Bijection(1 .. n, SlotsOf(k, n))
    <2>1. f \in [1 .. n -> SlotsOf(k, n)]
      BY DEF SlotsOf
    <2>2. \A i, j \in 1 .. n : f[i] = f[j] => i = j
      OBVIOUS
    <2>3. \A t \in SlotsOf(k, n) : \E i \in 1 .. n : f[i] = t
      BY DEF SlotsOf
    <2>4. DOMAIN f = 1 .. n
      OBVIOUS
    <2> HIDE DEF f
    <2> QED BY <2>1, <2>2, <2>3, <2>4 DEF Bijection, Injection, IsInjective, Surjection
  <1>3. ExistsBijection(1 .. n, SlotsOf(k, n))
    BY <1>2 DEF ExistsBijection
  <1> QED BY <1>1, <1>3, FS_Bijection

\* Removing an entry gives back exactly its bytes.
LEMMA DropItemBytes ==
    ASSUME NEW items, IsFiniteSet(ByteSlots(items)),
           NEW k \in DOMAIN items, items[k].size \in Nat
    PROVE  /\ IsFiniteSet(ByteSlots(DropItem(items, k)))
           /\ BytesHeld(items) \in Nat
           /\ BytesHeld(DropItem(items, k)) \in Nat
           /\ BytesHeld(items) = BytesHeld(DropItem(items, k)) + items[k].size
  <1> DEFINE n == items[k].size
             rest == ByteSlots(DropItem(items, k))
             own == SlotsOf(k, n)
  <1>1. IsFiniteSet(own) /\ Cardinality(own) = n
    BY SlotsOfCardinality
  <1>2. DOMAIN DropItem(items, k) = DOMAIN items \ {k}
        /\ \A x \in DOMAIN items \ {k} : DropItem(items, k)[x] = items[x]
    BY DEF DropItem
  <1>3. ByteSlots(items) = rest \cup own
    BY <1>2 DEF ByteSlots, SlotsOf
  <1>4. rest \cap own = {}
    BY <1>2 DEF ByteSlots, SlotsOf
  <1>5. IsFiniteSet(rest)
    BY <1>3, FS_Subset
  <1> HIDE DEF rest, own
  <1>6. Cardinality(rest \cup own)
           = Cardinality(rest) + Cardinality(own) - Cardinality(rest \cap own)
    BY <1>1, <1>5, FS_Union
  <1>7. Cardinality(rest \cap own) = 0
    BY <1>4, FS_EmptySet
  <1>8. Cardinality(rest) \in Nat
    BY <1>5, FS_CardinalityType
  <1> QED BY <1>1, <1>3, <1>5, <1>6, <1>7, <1>8 DEF BytesHeld, rest

\* Adding an entry under a new key takes exactly its bytes.
LEMMA PushItemBytes ==
    ASSUME NEW c, NEW k, k \notin DOMAIN c.items, NEW e, e.size \in Nat,
           IsFiniteSet(ByteSlots(c.items))
    PROVE  /\ IsFiniteSet(ByteSlots(PushFront(c, k, e).items))
           /\ BytesHeld(PushFront(c, k, e).items) = BytesHeld(c.items) + e.size
  <1> DEFINE new == PushFront(c, k, e).items
             old == ByteSlots(c.items)
             own == SlotsOf(k, e.size)
  <1>1. IsFiniteSet(own) /\ Cardinality(own) = e.size
    BY SlotsOfCardinality
  <1>2. /\ DOMAIN new = DOMAIN c.items \cup {k}
        /\ new[k] = e
        /\ \A x \in DOMAIN c.items : new[x] = c.items[x]
    BY DEF PushFront
  <1> HIDE DEF new
  <1>3. ByteSlots(new) = old \cup own
    BY <1>2 DEF ByteSlots, SlotsOf
  <1>4. old \cap own = {}
    BY DEF ByteSlots, SlotsOf
  <1> HIDE DEF old, own
  <1>5. IsFiniteSet(old)
    BY DEF old
  <1>6. /\ IsFiniteSet(old \cup own)
        /\ Cardinality(old \cup own)
              = Cardinality(old) + Cardinality(own) - Cardinality(old \cap own)
    BY <1>1, <1>5, FS_Union
  <1>7. Cardinality(old \cap own) = 0 /\ Cardinality(old) \in Nat
    BY <1>4, <1>5, FS_EmptySet, FS_CardinalityType
  <1> QED BY <1>1, <1>3, <1>6, <1>7 DEF BytesHeld, new, old

-----------------------------------------------------------------------------
(* The operations keep a cache value well formed.                          *)

WellFormed(c) ==
    /\ c = [order |-> c.order, items |-> c.items, used |-> c.used]
    /\ c.order \in Seq(Keys)
    /\ EntryMap(c.items)
    /\ Holds(c.order) = DOMAIN c.items
    /\ NoRepeat(c.order)
    /\ IsFiniteSet(ByteSlots(c.items))
    /\ c.used = BytesHeld(c.items)

\* A well-formed cache counts a natural number of bytes.
LEMMA UsedIsNat ==
    ASSUME NEW c, WellFormed(c)
    PROVE  c.used \in Nat
  BY FS_CardinalityType DEF WellFormed, BytesHeld

\* deleteLocked keeps list, map and count in step and frees the entry's bytes.
LEMMA DeleteLockedWellFormed ==
    ASSUME NEW c, WellFormed(c), NEW p \in 1 .. Len(c.order)
    PROVE  /\ WellFormed(DeleteLocked(c, c.order[p]))
           /\ DeleteLocked(c, c.order[p]).used <= c.used
           /\ DeleteLocked(c, c.order[p]).order = Unlink(c.order, c.order[p])
           /\ DeleteLocked(c, c.order[p]).items = DropItem(c.items, c.order[p])
  <1> DEFINE k == c.order[p]
             d == DeleteLocked(c, k)
  <1>1. k \in DOMAIN c.items
    BY DEF WellFormed, Holds
  <1>2. d = [order |-> Unlink(c.order, k), items |-> DropItem(c.items, k),
             used |-> c.used - c.items[k].size]
    BY <1>1 DEF DeleteLocked
  <1>3. c.items[k].size \in Nat
    BY <1>1, SizesAssumption DEF WellFormed, EntryMap, Entries
  <1>4. /\ d.order \in Seq(Keys)
        /\ NoRepeat(d.order)
        /\ Holds(d.order) = DOMAIN c.items \ {k}
    BY <1>2, UnlinkProperties DEF WellFormed
  <1>5. DOMAIN d.items = DOMAIN c.items \ {k} /\ EntryMap(d.items)
    BY <1>2 DEF DropItem, EntryMap, WellFormed
  <1>6. /\ IsFiniteSet(ByteSlots(d.items))
        /\ BytesHeld(c.items) \in Nat
        /\ BytesHeld(d.items) \in Nat
        /\ BytesHeld(c.items) = BytesHeld(d.items) + c.items[k].size
    BY <1>1, <1>2, <1>3, DropItemBytes DEF WellFormed
  <1>7. d.used = BytesHeld(d.items) /\ d.used <= c.used
    <2>1. d.used = c.used - c.items[k].size /\ c.used = BytesHeld(c.items)
      BY <1>2 DEF WellFormed
    <2> QED BY <2>1, <1>3, <1>6
  <1>8. d = [order |-> d.order, items |-> d.items, used |-> d.used]
    BY <1>2
  <1>9. d.order = Unlink(c.order, k) /\ d.items = DropItem(c.items, k)
    BY <1>2
  <1> HIDE DEF d
  <1>10. WellFormed(d)
    BY <1>4, <1>5, <1>6, <1>7, <1>8 DEF WellFormed
  <1> QED BY <1>7, <1>9, <1>10 DEF d

\* deleteLocked of any key, present or not, leaves that key absent.
LEMMA DeleteLockedAbsent ==
    ASSUME NEW c, WellFormed(c), NEW k
    PROVE  WellFormed(DeleteLocked(c, k)) /\ k \notin DOMAIN DeleteLocked(c, k).items
  <1>1. CASE k \in DOMAIN c.items
    <2>1. PICK p \in 1 .. Len(c.order) : c.order[p] = k
      BY <1>1 DEF WellFormed, Holds
    <2>2. WellFormed(DeleteLocked(c, k))
          /\ DeleteLocked(c, k).items = DropItem(c.items, k)
      BY <2>1, DeleteLockedWellFormed
    <2> QED BY <2>2 DEF DropItem
  <1>2. CASE k \notin DOMAIN c.items
    BY <1>2 DEF DeleteLocked
  <1> QED BY <1>1, <1>2

\* Put up to its loop keeps the cache well formed and puts the key in front.
LEMMA InsertedWellFormed ==
    ASSUME NEW c, WellFormed(c), NEW k \in Keys, NEW e \in Entries
    PROVE  /\ WellFormed(Inserted(c, k, e))
           /\ Len(Inserted(c, k, e).order) > 0
           /\ Inserted(c, k, e).order[1] = k
  <1> DEFINE d == DeleteLocked(c, k)
             f == PushFront(d, k, e)
  <1>1. WellFormed(d) /\ k \notin DOMAIN d.items
    BY DeleteLockedAbsent
  <1> HIDE DEF d
  <1>2. /\ f.order = <<k>> \o d.order
        /\ f.items = [x \in DOMAIN d.items \cup {k} |-> IF x = k THEN e ELSE d.items[x]]
        /\ f.used = d.used + e.size
        /\ f = [order |-> f.order, items |-> f.items, used |-> f.used]
    BY DEF PushFront
  <1>3. e.size \in Nat
    BY SizesAssumption DEF Entries
  <1>4. /\ f.order \in Seq(Keys)
        /\ Len(f.order) = Len(d.order) + 1
        /\ f.order[1] = k
        /\ NoRepeat(f.order)
        /\ Holds(f.order) = DOMAIN d.items \cup {k}
    BY <1>1, <1>2, PushProperties DEF WellFormed
  <1>5. DOMAIN f.items = DOMAIN d.items \cup {k} /\ EntryMap(f.items)
    BY <1>1, <1>2 DEF EntryMap, WellFormed
  <1>6. /\ IsFiniteSet(ByteSlots(f.items))
        /\ BytesHeld(f.items) = BytesHeld(d.items) + e.size
    BY <1>1, <1>3, PushItemBytes DEF WellFormed
  <1>7. Len(d.order) \in Nat
    BY <1>1, LenProperties DEF WellFormed
  <1>8. WellFormed(f)
    BY <1>1, <1>2, <1>4, <1>5, <1>6 DEF WellFormed
  <1> QED BY <1>4, <1>7, <1>8 DEF Inserted, d

\* MoveToFront keeps the cache well formed and its entries as they were.
LEMMA TouchedWellFormed ==
    ASSUME NEW c, WellFormed(c), NEW k \in DOMAIN c.items
    PROVE  /\ WellFormed(Touched(c, k))
           /\ Touched(c, k).items = c.items
           /\ Touched(c, k).used = c.used
  <1> DEFINE u == Unlink(c.order, k)
             t == Touched(c, k)
  <1>1. PICK p \in 1 .. Len(c.order) : c.order[p] = k
    BY DEF WellFormed, Holds
  <1>2. u \in Seq(Keys) /\ NoRepeat(u) /\ Holds(u) = DOMAIN c.items \ {k}
    BY <1>1, UnlinkProperties DEF WellFormed
  <1>3. t = [order |-> <<k>> \o u, items |-> c.items, used |-> c.used]
    BY DEF Touched, WellFormed
  <1> HIDE DEF u
  <1>4. k \in Keys
    BY DEF WellFormed, EntryMap
  <1>5. t.order \in Seq(Keys) /\ NoRepeat(t.order) /\ Holds(t.order) = DOMAIN c.items
    <2>1. k \notin Holds(u)
      BY <1>2
    <2>2. /\ <<k>> \o u \in Seq(Keys)
          /\ NoRepeat(<<k>> \o u)
          /\ Holds(<<k>> \o u) = Holds(u) \cup {k}
      BY <1>2, <1>4, <2>1, PushProperties
    <2>3. Holds(u) \cup {k} = DOMAIN c.items
      BY <1>2
    <2>4. t.order = <<k>> \o u
      BY <1>3
    <2> HIDE DEF t
    <2> QED BY <2>2, <2>3, <2>4
  <1> QED BY <1>3, <1>5 DEF WellFormed

-----------------------------------------------------------------------------
(* The inductive invariant.  WithinBudget alone is not inductive: a Put    *)
(* that meets an empty list leaves its loop over budget, which PutterIsFront *)
(* excludes, and a step's effect on the bytes is known only through the    *)
(* agreement of list, map and count in WellFormed.                         *)

IInv ==
    /\ WellFormed(cache)
    /\ putting \in Keys \cup {NoKey}
    /\ now \in Nat
    /\ PutterIsFront
    /\ WithinBudget

\* The cache New returns satisfies the invariant.
LEMMA InitIInv == Init => IInv
  <1> SUFFICES ASSUME Init PROVE IInv
    OBVIOUS
  <1> USE DEF Init, EmptyCache
  <1>1. cache.order = << >> /\ cache.items = << >> /\ cache.used = 0
    OBVIOUS
  <1>2. Len(cache.order) = 0 /\ DOMAIN cache.items = {}
    BY <1>1
  <1>3. ByteSlots(cache.items) = {}
    BY <1>2 DEF ByteSlots
  <1>4. IsFiniteSet(ByteSlots(cache.items)) /\ BytesHeld(cache.items) = 0
    BY <1>3, FS_EmptySet DEF BytesHeld
  <1>5. EntryMap(cache.items)
    BY <1>1, <1>2 DEF EntryMap
  <1>6. Holds(cache.order) = {} /\ NoRepeat(cache.order)
    BY <1>2 DEF Holds, NoRepeat
  <1>7. WellFormed(cache)
    BY <1>1, <1>2, <1>4, <1>5, <1>6 DEF WellFormed
  <1> QED BY <1>4, <1>7, BudgetAssumption, KeysAssumption
          DEF IInv, PutterIsFront, WithinBudget, Unlocked

\* Every step keeps it.
LEMMA NextIInv == IInv /\ [Next]_vars => IInv'
  <1> SUFFICES ASSUME IInv, [Next]_vars PROVE IInv'
    OBVIOUS
  <1> USE DEF Unlocked
  <1>1. ASSUME NEW k \in Keys, GetExpired(k) PROVE IInv'
    <2>1. PICK p \in 1 .. Len(cache.order) : cache.order[p] = k
      BY <1>1 DEF GetExpired, IInv, WellFormed, Holds
    <2>2. cache' = DeleteLocked(cache, k) /\ putting' = putting /\ now' = now
          /\ putting = NoKey
      BY <1>1 DEF GetExpired
    <2>3. WellFormed(cache') /\ cache'.used <= cache.used
      BY <2>1, <2>2, DeleteLockedWellFormed DEF IInv
    <2>4. cache.used \in Nat /\ cache'.used \in Nat
      BY <2>3, UsedIsNat DEF IInv
    <2>5. BytesHeld(cache'.items) <= MaxBytes
      BY <2>2, <2>3, <2>4, BudgetAssumption DEF IInv, WithinBudget, WellFormed
    <2> QED BY <2>2, <2>3, <2>5 DEF IInv, PutterIsFront, WithinBudget
  <1>2. ASSUME NEW k \in Keys, GetHit(k) PROVE IInv'
    <2>1. k \in DOMAIN cache.items /\ cache' = Touched(cache, k)
          /\ putting' = putting /\ now' = now /\ putting = NoKey
      BY <1>2 DEF GetHit, Hits
    <2>2. WellFormed(cache') /\ cache'.items = cache.items
      BY <2>1, TouchedWellFormed DEF IInv
    <2> QED BY <2>1, <2>2 DEF IInv, PutterIsFront, WithinBudget
  <1>3. ASSUME NEW k \in Keys, NEW v \in Values, NEW size \in Sizes,
               PutInsert(k, v, size)
        PROVE  IInv'
    <2> DEFINE e == [value |-> v, size |-> size, storedAt |-> now]
    <2>1. e \in Entries
      BY DEF IInv, Entries
    <2>2. cache' = Inserted(cache, k, e) /\ putting' = k /\ now' = now
      BY <1>3 DEF PutInsert
    <2> HIDE DEF e
    <2>3. WellFormed(cache') /\ Len(cache'.order) > 0 /\ cache'.order[1] = k
      BY <2>1, <2>2, InsertedWellFormed DEF IInv
    <2>4. cache'.order # << >> /\ Head(cache'.order) = k
      BY <2>3 DEF WellFormed
    <2>5. k # NoKey
      BY KeysAssumption
    <2> QED BY <2>2, <2>3, <2>4, <2>5 DEF IInv, PutterIsFront, WithinBudget
  <1>4. CASE PutEvict
    <2> DEFINE n == Len(cache.order)
               k == cache.order[n]
    <2>1. cache.order \in Seq(Keys) /\ n \in Nat /\ n > 0 /\ Last(cache.order) = k
          /\ Head(cache.order) = cache.order[1] /\ cache.order[1] = putting
      BY <1>4, LenProperties, EmptySeq DEF PutEvict, IInv, WellFormed, Last, PutterIsFront
    <2>2. cache' = DeleteLocked(cache, k) /\ now' = now
          /\ putting' = IF k = putting THEN NoKey ELSE putting
      BY <1>4, <2>1 DEF PutEvict
    <2>3. n \in 1 .. Len(cache.order) /\ 1 \in 1 .. Len(cache.order)
          /\ NoRepeat(cache.order)
      BY <2>1 DEF IInv, WellFormed
    <2>4. WellFormed(cache') /\ cache'.order = Unlink(cache.order, k)
      BY <2>2, <2>3, DeleteLockedWellFormed DEF IInv
    <2>5. /\ Len(cache'.order) = n - 1
          /\ \A j \in 1 .. n - 1 : cache'.order[j] = cache.order[j]
      <3>1. /\ Len(Unlink(cache.order, k)) = Len(cache.order) - 1
            /\ \A j \in 1 .. Len(cache.order) - 1 :
                  Unlink(cache.order, k)[j] =
                      IF j < n THEN cache.order[j] ELSE cache.order[j + 1]
        BY <2>1, <2>3, UnlinkProperties
      <3> QED BY <2>1, <2>4, <3>1
    <2>6. CASE k = putting
      <3>1. n = 1
        BY <2>1, <2>3, <2>6 DEF NoRepeat
      <3>2. DOMAIN cache'.items = {}
        BY <2>4, <2>5, <3>1 DEF WellFormed, Holds
      <3>3. BytesHeld(cache'.items) = 0
        BY <3>2, FS_EmptySet DEF BytesHeld, ByteSlots
      <3>4. putting' = NoKey
        BY <2>2, <2>6
      <3> QED BY <2>2, <2>4, <3>3, <3>4, BudgetAssumption
              DEF IInv, PutterIsFront, WithinBudget
    <2>7. CASE k # putting
      <3>1. n > 1
        BY <2>1, <2>7
      <3>2. Len(cache'.order) > 0 /\ cache'.order[1] = putting
        BY <2>1, <2>5, <3>1
      <3>3. cache'.order # << >> /\ Head(cache'.order) = putting
        BY <2>4, <3>2 DEF WellFormed
      <3>4. putting' = putting /\ putting # NoKey
        BY <1>4, <2>2, <2>7 DEF PutEvict
      <3> QED BY <2>2, <2>4, <3>3, <3>4 DEF IInv, PutterIsFront, WithinBudget
    <2> QED BY <2>6, <2>7
  <1>5. CASE PutReturn
    <2>1. cache.used <= MaxBytes
      BY <1>5 DEF PutReturn, IInv, PutterIsFront
    <2>2. cache' = cache /\ now' = now /\ putting' = NoKey
      BY <1>5 DEF PutReturn
    <2> QED BY <2>1, <2>2 DEF IInv, PutterIsFront, WithinBudget, WellFormed
  <1>6. CASE Tick
    BY <1>6 DEF Tick, IInv, PutterIsFront, WithinBudget
  <1>7. CASE UNCHANGED vars
    BY <1>7 DEF vars, IInv, PutterIsFront, WithinBudget
  <1>8. ASSUME NEW k \in Keys, GetMiss(k) PROVE IInv'
    BY <1>7, <1>8 DEF GetMiss
  <1> QED BY <1>1, <1>2, <1>3, <1>4, <1>5, <1>6, <1>7, <1>8 DEF Next

\* The invariant holds throughout every behaviour of the cache.
LEMMA IInvHolds == Spec => []IInv
  BY InitIInv, NextIInv, PTL DEF Spec

-----------------------------------------------------------------------------

\* Every field of the struct keeps its type; c.used never goes negative.
THEOREM TypeCorrect == Spec => []TypeOK
  <1>1. IInv => TypeOK
    BY UsedIsNat DEF IInv, TypeOK, WellFormed
  <1> QED BY <1>1, IInvHolds, PTL

\* The LRU list and the map hold the same keys, each once, after every step,
\* eviction steps in the middle of a Put included.
THEOREM ListAndMapAgree == Spec => []Lockstep
  <1>1. IInv => Lockstep
    BY DEF IInv, Lockstep, WellFormed, Holds, NoRepeat
  <1> QED BY <1>1, IInvHolds, PTL

\* c.used is the bytes held, whatever the order of Get, Put, expiry, eviction.
THEOREM CountIsExact == Spec => []UsedIsBytesHeld
  <1>1. IInv => UsedIsBytesHeld
    BY DEF IInv, UsedIsBytesHeld, WellFormed
  <1> QED BY <1>1, IInvHolds, PTL

\* Whenever c.mu is free the cache holds at most maxBytes.
THEOREM BudgetHolds == Spec => []WithinBudget
  <1>1. IInv => WithinBudget
    BY DEF IInv
  <1> QED BY <1>1, IInvHolds, PTL

-----------------------------------------------------------------------------
(* What the operations do to single entries.                               *)

\* deleteLocked changes no entry that stays.
LEMMA DeletedItems ==
    ASSUME NEW c, NEW k, NEW x \in DOMAIN DeleteLocked(c, k).items
    PROVE  x \in DOMAIN c.items /\ DeleteLocked(c, k).items[x] = c.items[x]
  <1>1. CASE k \in DOMAIN c.items
    <2>1. DeleteLocked(c, k).items = DropItem(c.items, k)
      BY <1>1 DEF DeleteLocked
    <2> QED BY <2>1 DEF DropItem
  <1>2. CASE k \notin DOMAIN c.items
    BY <1>2 DEF DeleteLocked
  <1> QED BY <1>1, <1>2

\* Put changes the entry of its key alone.
LEMMA InsertedItems ==
    ASSUME NEW c, NEW k, NEW e, NEW x \in DOMAIN Inserted(c, k, e).items
    PROVE  \/ x = k /\ Inserted(c, k, e).items[x] = e
           \/ x \in DOMAIN c.items /\ Inserted(c, k, e).items[x] = c.items[x]
  <1> DEFINE d == DeleteLocked(c, k)
  <1>1. Inserted(c, k, e).items =
           [y \in DOMAIN d.items \cup {k} |-> IF y = k THEN e ELSE d.items[y]]
    BY DEF Inserted, PushFront
  <1>2. CASE x = k
    BY <1>1, <1>2
  <1>3. CASE x # k
    <2>1. x \in DOMAIN d.items /\ Inserted(c, k, e).items[x] = d.items[x]
      BY <1>1, <1>3
    <2> QED BY <2>1, DeletedItems
  <1> QED BY <1>2, <1>3

\* A step changes an entry only if it is the Put of its key, which stamps it.
LEMMA StepsStampEntries ==
    ASSUME [Next]_vars, NEW k \in DOMAIN cache'.items
    PROVE  \/ k \in DOMAIN cache.items /\ cache'.items[k] = cache.items[k]
           \/ Unlocked /\ putting' = k /\ cache'.items[k].storedAt = now
  <1>1. ASSUME NEW j \in Keys, GetExpired(j) PROVE k \in DOMAIN cache.items /\ cache'.items[k] = cache.items[k]
    <2>1. cache' = DeleteLocked(cache, j)
      BY <1>1 DEF GetExpired
    <2> QED BY <2>1, DeletedItems
  <1>2. ASSUME NEW j \in Keys, GetHit(j) PROVE k \in DOMAIN cache.items /\ cache'.items[k] = cache.items[k]
    BY <1>2 DEF GetHit, Touched
  <1>3. ASSUME NEW j \in Keys, NEW v \in Values, NEW size \in Sizes, PutInsert(j, v, size)
        PROVE  \/ k \in DOMAIN cache.items /\ cache'.items[k] = cache.items[k]
               \/ Unlocked /\ putting' = k /\ cache'.items[k].storedAt = now
    <2> DEFINE e == [value |-> v, size |-> size, storedAt |-> now]
    <2>1. cache' = Inserted(cache, j, e) /\ putting' = j /\ Unlocked
      BY <1>3 DEF PutInsert
    <2>2. e.storedAt = now
      OBVIOUS
    <2> HIDE DEF e
    <2> QED BY <2>1, <2>2, InsertedItems
  <1>4. CASE PutEvict
    <2>1. cache' = DeleteLocked(cache, Last(cache.order))
      BY <1>4 DEF PutEvict
    <2> QED BY <2>1, DeletedItems
  <1>5. CASE cache' = cache
    BY <1>5
  <1> QED BY <1>1, <1>2, <1>3, <1>4, <1>5 DEF Next, GetMiss, PutReturn, Tick, vars

\* An entry's time to live counts from its own Put: no Get, eviction or Put of
\* another key changes or revives it.
THEOREM AgesCountFromPut == Spec => EntriesComeFromPut
  <1>1. [Next]_vars =>
          [\A k \in DOMAIN cache'.items :
              \/ k \in DOMAIN cache.items /\ cache'.items[k] = cache.items[k]
              \/ Unlocked /\ putting' = k /\ cache'.items[k].storedAt = now]_vars
    BY StepsStampEntries
  <1> QED BY <1>1, PTL DEF Spec, EntriesComeFromPut

-----------------------------------------------------------------------------
(* The refinement of AtomicCache.  A Put takes effect when it inserts; its *)
(* eviction loop is invisible, because every turn of it leads to the same  *)
(* end.                                                                    *)

\* A set of numbers up to n that is not empty has a greatest element.
LEMMA MaxOfInterval ==
    ASSUME NEW n \in Nat, NEW S, S \subseteq 0 .. n, S # {}
    PROVE  Max(S) \in S /\ \A x \in S : x <= Max(S)
  <1> DEFINE T == {n - x : x \in S}
  <1>1. T \subseteq Nat /\ T # {}
    <2>1. \A x \in S : n - x \in Nat
      OBVIOUS
    <2> QED BY <2>1
  <1>2. \A y \in T : \E x \in S : y = n - x
    OBVIOUS
  <1>3. \A x \in S : n - x \in T
    OBVIOUS
  <1> HIDE DEF T
  <1>4. PICK m \in T : \A y \in T : <<y, m>> \notin OpToRel(<, Nat)
    BY <1>1, NatLessThanWellFounded, WFMin
  <1>5. \A y \in T : m <= y
    <2> SUFFICES ASSUME NEW y \in T, y < m PROVE FALSE
      BY <1>1
    <2>1. <<y, m>> \in OpToRel(<, Nat)
      BY <1>1 DEF OpToRel
    <2> QED BY <2>1, <1>4
  <1>6. PICK x \in S : m = n - x
    BY <1>2
  <1>7. \A y \in S : x >= y
    BY <1>3, <1>5, <1>6
  <1> QED BY <1>6, <1>7 DEF Max

\* Two lists of the same keys in the same places are the same list.
LEMMA SameList ==
    ASSUME NEW s \in Seq(Keys), NEW t \in Seq(Keys), Len(s) = Len(t),
           \A i \in 1 .. Len(s) : s[i] = t[i]
    PROVE  s = t
  BY LenProperties

\* The m most recently used entries, list and map, when the others are m more.
LEMMA RestIsRecent ==
    ASSUME NEW c, WellFormed(c), NEW n, n = Len(c.order), n > 0,
           NEW d, d = DeleteLocked(c, c.order[n])
    PROVE  /\ WellFormed(d) /\ n \in Nat /\ Len(d.order) = n - 1
           /\ \A m \in 0 .. n - 1 :
                 /\ SubSeq(d.order, 1, m) = SubSeq(c.order, 1, m)
                 /\ Recent(d, m) = Recent(c, m)
           /\ d.order = SubSeq(c.order, 1, n - 1) /\ d.items = Recent(c, n - 1)
           /\ Recent(c, n) = c.items
  <1> DEFINE s == c.order
             t == d.order
  <1>1. s \in Seq(Keys) /\ n \in Nat /\ n \in 1 .. n /\ NoRepeat(s)
        /\ \A i \in 1 .. n : s[i] \in Keys
    BY LenProperties DEF WellFormed
  <1>2. WellFormed(d) /\ t = Unlink(s, s[n]) /\ d.items = DropItem(c.items, s[n])
    BY <1>1, DeleteLockedWellFormed
  <1>3. t \in Seq(Keys)
    BY <1>2 DEF WellFormed
  <1>4. Len(t) = n - 1 /\ \A i \in 1 .. n - 1 : t[i] = s[i]
    <2>1. /\ Len(Unlink(s, s[n])) = Len(s) - 1
          /\ \A j \in 1 .. Len(s) - 1 :
                Unlink(s, s[n])[j] = IF j < n THEN s[j] ELSE s[j + 1]
      BY <1>1, UnlinkProperties
    <2> HIDE DEF s, t
    <2>2. \A j \in 1 .. n - 1 : j < n
      BY <1>1
    <2>3. Len(s) = n
      BY DEF s
    <2> QED BY <1>2, <2>1, <2>2, <2>3
  <1>5. ASSUME NEW m \in 0 .. n - 1
        PROVE  /\ SubSeq(s, 1, m) \in Seq(Keys) /\ Len(SubSeq(s, 1, m)) = m
               /\ \A i \in 1 .. m : SubSeq(s, 1, m)[i] = s[i]
    <2>1. \A i \in 1 .. m : s[i] \in Keys
      BY <1>1
    <2>2. m \in Nat
      BY <1>1
    <2> HIDE DEF s
    <2>3. /\ SubSeq(s, 1, m) \in Seq(Keys)
          /\ Len(SubSeq(s, 1, m)) = IF 1 <= m THEN m - 1 + 1 ELSE 0
          /\ \A i \in 1 .. m - 1 + 1 : SubSeq(s, 1, m)[i] = s[1 + i - 1]
      BY <2>1, <2>2, SubSeqProperties
    <2>4. \A i \in 1 .. m : i \in 1 .. m - 1 + 1 /\ 1 + i - 1 = i
      BY <2>2
    <2>5. Len(SubSeq(s, 1, m)) = m
      BY <2>2, <2>3
    <2> QED BY <2>3, <2>4, <2>5
  <1>6. ASSUME NEW m \in 0 .. n - 1
        PROVE  /\ SubSeq(t, 1, m) \in Seq(Keys) /\ Len(SubSeq(t, 1, m)) = m
               /\ \A i \in 1 .. m : SubSeq(t, 1, m)[i] = t[i]
    <2>1. \A i \in 1 .. m : i \in 1 .. n - 1 /\ t[i] \in Keys
      BY <1>1, <1>4
    <2>2. m \in Nat
      BY <1>1
    <2> HIDE DEF t
    <2>3. /\ SubSeq(t, 1, m) \in Seq(Keys)
          /\ Len(SubSeq(t, 1, m)) = IF 1 <= m THEN m - 1 + 1 ELSE 0
          /\ \A i \in 1 .. m - 1 + 1 : SubSeq(t, 1, m)[i] = t[1 + i - 1]
      BY <2>1, <2>2, SubSeqProperties
    <2>4. \A i \in 1 .. m : i \in 1 .. m - 1 + 1 /\ 1 + i - 1 = i
      BY <2>2
    <2>5. Len(SubSeq(t, 1, m)) = m
      BY <2>2, <2>3
    <2> QED BY <2>3, <2>4, <2>5
  <1>7. ASSUME NEW m \in 0 .. n - 1 PROVE SubSeq(t, 1, m) = SubSeq(s, 1, m)
    <2> DEFINE a == SubSeq(t, 1, m)
               b == SubSeq(s, 1, m)
    <2>1. /\ a \in Seq(Keys) /\ b \in Seq(Keys) /\ Len(a) = m /\ Len(b) = m
          /\ \A i \in 1 .. m : a[i] = t[i] /\ b[i] = s[i]
      BY <1>5, <1>6
    <2> HIDE DEF a, b
    <2>2. \A i \in 1 .. m : a[i] = b[i]
      <3>1. \A i \in 1 .. m : i \in 1 .. n - 1
        BY <1>1
      <3> QED BY <1>4, <2>1, <3>1
    <2>3. a = b
      BY <2>1, <2>2, SameList
    <2> QED BY <2>3 DEF a, b
  <1>8. ASSUME NEW m \in 0 .. n - 1
        PROVE  /\ Recent(d, m) = Recent(c, m)
               /\ \A i \in 1 .. m : s[i] # s[n]
    <2>1. \A i \in 1 .. m : i \in 1 .. n - 1 /\ i \in 1 .. n /\ i # n /\ t[i] = s[i]
      BY <1>1, <1>4
    <2>2. \A i \in 1 .. m : s[i] # s[n] /\ s[i] \in DOMAIN c.items
      BY <1>1, <2>1 DEF NoRepeat, WellFormed, Holds
    <2>3. {t[i] : i \in 1 .. m} = {s[i] : i \in 1 .. m}
      BY <2>1
    <2>4. \A x \in {s[i] : i \in 1 .. m} : d.items[x] = c.items[x]
      BY <1>2, <2>2 DEF DropItem
    <2> QED BY <2>2, <2>3, <2>4 DEF Recent
  <1>9. t = SubSeq(s, 1, n - 1)
    <2> DEFINE b == SubSeq(s, 1, n - 1)
    <2>1. n - 1 \in 0 .. n - 1
      BY <1>1
    <2>2. b \in Seq(Keys) /\ Len(b) = n - 1 /\ \A i \in 1 .. n - 1 : b[i] = s[i]
      BY <1>5, <2>1
    <2> HIDE DEF b, t
    <2>3. t = b
      BY <1>3, <1>4, <2>2, SameList
    <2> QED BY <2>3 DEF b
  <1>10. d.items = Recent(c, n - 1)
    <2>1. DOMAIN d.items = {s[i] : i \in 1 .. n - 1}
      <3>1. DOMAIN d.items = {t[i] : i \in 1 .. Len(t)}
        BY <1>2 DEF WellFormed, Holds
      <3> QED BY <1>4, <3>1
    <2>2. \A x \in DOMAIN d.items : d.items[x] = c.items[x]
      BY <1>2 DEF DropItem
    <2>3. d.items = [x \in DOMAIN d.items |-> d.items[x]]
      BY <1>2 DEF DropItem
    <2> QED BY <2>1, <2>2, <2>3 DEF Recent
  <1>11. Recent(c, n) = c.items
    <2>1. DOMAIN c.items = {s[i] : i \in 1 .. n}
      BY DEF WellFormed, Holds
    <2>2. c.items = [x \in DOMAIN c.items |-> c.items[x]]
      BY DEF WellFormed, EntryMap
    <2> QED BY <2>1, <2>2 DEF Recent
  <1> QED BY <1>1, <1>2, <1>4, <1>7, <1>8, <1>9, <1>10, <1>11

\* One turn of the eviction loop does not change what the loop amounts to: the
\* entries it keeps are the most recently used ones that fit together.
LEMMA EvictionIsTrimmed ==
    ASSUME NEW c, WellFormed(c), NEW n, n = Len(c.order), n > 0, c.used > MaxBytes,
           NEW d, d = DeleteLocked(c, c.order[n])
    PROVE  Trimmed(d, MaxBytes) = Trimmed(c, MaxBytes)
  <1> DEFINE fits == {m \in 0 .. n - 1 : BytesHeld(Recent(c, m)) <= MaxBytes}
             f == Max(fits)
  <1>1. /\ WellFormed(d) /\ n \in Nat /\ Len(d.order) = n - 1
        /\ \A m \in 0 .. n - 1 :
              /\ SubSeq(d.order, 1, m) = SubSeq(c.order, 1, m)
              /\ Recent(d, m) = Recent(c, m)
        /\ d.order = SubSeq(c.order, 1, n - 1) /\ d.items = Recent(c, n - 1)
        /\ Recent(c, n) = c.items
    BY RestIsRecent
  <1>2. Fitting(d, MaxBytes) = f
    BY <1>1 DEF Fitting
  <1>3. Fitting(c, MaxBytes) = f
    <2>1. BytesHeld(Recent(c, n)) = c.used
      BY <1>1 DEF WellFormed
    <2>2. c.used \in Nat
      BY UsedIsNat
    <2>3. ~(BytesHeld(Recent(c, n)) <= MaxBytes)
      BY <2>1, <2>2, BudgetAssumption
    <2>4. \A m \in 0 .. n : m \in 0 .. n - 1 \/ m = n
      BY <1>1
    <2>5. \A m \in 0 .. n - 1 : m \in 0 .. n
      BY <1>1
    <2>6. {m \in 0 .. n : BytesHeld(Recent(c, m)) <= MaxBytes} = fits
      BY <2>3, <2>4, <2>5
    <2> QED BY <2>6 DEF Fitting
  <1>4. f \in fits /\ \A m \in fits : m <= f
    <2>1. BytesHeld(Recent(c, 0)) = 0
      <3>1. ByteSlots(Recent(c, 0)) = {}
        BY DEF ByteSlots, Recent
      <3> QED BY <3>1, FS_EmptySet DEF BytesHeld
    <2>2. 0 \in fits /\ n - 1 \in Nat /\ fits \subseteq 0 .. n - 1
      BY <1>1, <2>1, BudgetAssumption
    <2> HIDE DEF fits
    <2> QED BY <2>2, MaxOfInterval
  <1> DEFINE end == [order |-> SubSeq(c.order, 1, f), items |-> Recent(c, f),
                     used |-> BytesHeld(Recent(c, f))]
  <1>5. f \in 0 .. n - 1
    BY <1>4
  <1>6. Trimmed(c, MaxBytes) = end
    <2>1. ~(c.used <= MaxBytes)
      BY UsedIsNat, BudgetAssumption
    <2> QED BY <1>3, <2>1 DEF Trimmed
  <1>7. CASE d.used <= MaxBytes
    <2>1. d.used = BytesHeld(d.items) /\ d = [order |-> d.order, items |-> d.items, used |-> d.used]
      BY <1>1 DEF WellFormed
    <2>2. n - 1 \in fits
      BY <1>1, <1>7, <2>1
    <2>3. f = n - 1
      <3> HIDE DEF f, fits
      <3> QED BY <1>1, <1>4, <1>5, <2>2
    <2>4. d = end
      <3> HIDE DEF f
      <3> QED BY <1>1, <2>1, <2>3
    <2>5. Trimmed(d, MaxBytes) = d
      BY <1>7 DEF Trimmed
    <2> QED BY <1>6, <2>4, <2>5
  <1>8. CASE ~(d.used <= MaxBytes)
    <2>1. Trimmed(d, MaxBytes) = [order |-> SubSeq(d.order, 1, f), items |-> Recent(d, f),
                                  used |-> BytesHeld(Recent(d, f))]
      BY <1>2, <1>8 DEF Trimmed
    <2> QED BY <1>1, <1>5, <1>6, <2>1
  <1> QED BY <1>7, <1>8

\* AtomicCache runs the same operations.
LEMMA SameOperations ==
    /\ Atomic!EmptyCache = EmptyCache
    /\ \A c, k, at, ttl : Atomic!AfterGet(c, k, at, ttl) = AfterGet(c, k, at, ttl)
    /\ \A c, k, e, n : Atomic!AfterPut(c, k, e, n) = AfterPut(c, k, e, n)
  <1>1. Atomic!EmptyCache = EmptyCache
    BY DEF Atomic!EmptyCache, EmptyCache
  <1>2. \A order, k : Atomic!Unlink(order, k) = Unlink(order, k)
    BY DEF Atomic!Unlink, Unlink, Atomic!RemoveAt, RemoveAt
  <1>3. \A c, k : Atomic!DeleteLocked(c, k) = DeleteLocked(c, k)
    BY <1>2 DEF Atomic!DeleteLocked, DeleteLocked, Atomic!DropItem, DropItem
  <1>4. \A c, k : Atomic!Touched(c, k) = Touched(c, k)
    BY <1>2 DEF Atomic!Touched, Touched
  <1>5. \A c, k, at, ttl : Atomic!AfterGet(c, k, at, ttl) = AfterGet(c, k, at, ttl)
    BY <1>3, <1>4 DEF Atomic!AfterGet, AfterGet, Atomic!Hits, Hits, Atomic!Expired, Expired
  <1>6. \A c, k, e : Atomic!Inserted(c, k, e) = Inserted(c, k, e)
    BY <1>3 DEF Atomic!Inserted, Inserted, Atomic!PushFront, PushFront
  <1>7. /\ \A items : Atomic!BytesHeld(items) = BytesHeld(items)
        /\ \A c, n : Atomic!Recent(c, n) = Recent(c, n)
    <2>1. \A S : Atomic!Cardinality(S) = Cardinality(S)
      BY DEF Atomic!Cardinality, Cardinality
    <2>2. \A items : Atomic!ByteSlots(items) = ByteSlots(items)
      BY DEF Atomic!ByteSlots, ByteSlots
    <2> QED BY <2>1, <2>2 DEF Atomic!BytesHeld, BytesHeld, Atomic!Recent, Recent
  <1>8. \A c, n : Atomic!Fitting(c, n) = Fitting(c, n)
    BY <1>7 DEF Atomic!Fitting, Fitting, Atomic!Max, Max
  <1>9. \A c, n : Atomic!Trimmed(c, n) = Trimmed(c, n)
    BY <1>7, <1>8 DEF Atomic!Trimmed, Trimmed
  <1>10. \A c, k, e, n : Atomic!AfterPut(c, k, e, n) = AfterPut(c, k, e, n)
    BY <1>6, <1>9 DEF Atomic!AfterPut, AfterPut
  <1> QED BY <1>1, <1>5, <1>10

\* With c.mu free nothing is left to evict.
LEMMA TrimmedAtRest ==
    ASSUME IInv, Unlocked
    PROVE  Trimmed(cache, MaxBytes) = cache
  <1>1. cache.used <= MaxBytes
    BY DEF IInv, WithinBudget, WellFormed
  <1> QED BY <1>1 DEF Trimmed

\* What a Get or a Put leaves behind for whoever gets the lock next.
LEMMA GetTrims ==
    ASSUME IInv, IInv', NEW k \in Keys, GetMiss(k) \/ GetExpired(k) \/ GetHit(k)
    PROVE  Atomic!Get(k)
  <1>1. Unlocked /\ Unlocked' /\ now' = now
    BY DEF GetMiss, GetExpired, GetHit, Unlocked, vars
  <1>2. Trimmed(cache, MaxBytes) = cache /\ Trimmed(cache', MaxBytes) = cache'
    <2>1. Trimmed(cache, MaxBytes) = cache
      BY <1>1, TrimmedAtRest
    <2>2. cache'.used <= MaxBytes
      BY <1>1 DEF IInv, WithinBudget, WellFormed
    <2> QED BY <2>1, <2>2 DEF Trimmed
  <1>3. cache' = AfterGet(cache, k, now, TTL)
    <2>1. CASE GetMiss(k)
      BY <2>1 DEF GetMiss, AfterGet, Hits, DeleteLocked, vars
    <2>2. CASE GetExpired(k)
      BY <2>2 DEF GetExpired, AfterGet, Hits
    <2>3. CASE GetHit(k)
      BY <2>3 DEF GetHit, AfterGet
    <2> QED BY <2>1, <2>2, <2>3
  <1> QED BY <1>1, <1>2, <1>3, SameOperations DEF Atomic!Get

\* The memory cache implements the atomic one (cache.go): whoever calls Get and
\* Put may take each for one step, as Fetcher does, although Put deletes its
\* victims one by one.
THEOREM CacheIsAtomic == Spec => ImplementsAtomic
  <1>1. Init => Atomic!Init
    <2> SUFFICES ASSUME Init PROVE Atomic!Init
      OBVIOUS
    <2>1. cache = EmptyCache /\ now = 0 /\ cache.used <= MaxBytes
      BY BudgetAssumption DEF Init, EmptyCache
    <2>2. Trimmed(cache, MaxBytes) = cache
      BY <2>1 DEF Trimmed
    <2> QED BY <2>1, <2>2, SameOperations DEF Atomic!Init
  <1>2. IInv /\ IInv' /\ [Next]_vars => [Atomic!Next]_Atomic!vars
    <2> SUFFICES ASSUME IInv, IInv', [Next]_vars PROVE [Atomic!Next]_Atomic!vars
      OBVIOUS
    <2>1. ASSUME NEW k \in Keys, GetMiss(k) \/ GetExpired(k) \/ GetHit(k)
          PROVE  Atomic!Next
      BY <2>1, GetTrims DEF Atomic!Next
    <2>2. ASSUME NEW k \in Keys, NEW v \in Values, NEW size \in Sizes, PutInsert(k, v, size)
          PROVE  Atomic!Next
      <3> DEFINE e == [value |-> v, size |-> size, storedAt |-> now]
      <3>1. Unlocked /\ cache' = Inserted(cache, k, e) /\ now' = now
        BY <2>2 DEF PutInsert
      <3>2. Trimmed(cache, MaxBytes) = cache
        BY <3>1, TrimmedAtRest
      <3>3. Trimmed(cache', MaxBytes) = AfterPut(cache, k, e, MaxBytes)
        BY <3>1 DEF AfterPut
      <3>4. Atomic!Put(k, v, size)
        BY <3>1, <3>2, <3>3, SameOperations DEF Atomic!Put, Atomic!Entry
      <3> QED BY <3>4 DEF Atomic!Next
    <2>3. CASE PutEvict
      <3> DEFINE n == Len(cache.order)
      <3>1. n > 0 /\ Last(cache.order) = cache.order[n] /\ WellFormed(cache)
        BY <2>3, LenProperties, EmptySeq DEF PutEvict, IInv, WellFormed, Last
      <3>2. cache' = DeleteLocked(cache, cache.order[n]) /\ cache.used > MaxBytes /\ now' = now
        BY <2>3, <3>1 DEF PutEvict
      <3>3. Trimmed(cache', MaxBytes) = Trimmed(cache, MaxBytes)
        BY <3>1, <3>2, EvictionIsTrimmed
      <3> QED BY <3>2, <3>3 DEF Atomic!vars
    <2>4. CASE PutReturn
      BY <2>4 DEF PutReturn, Atomic!vars
    <2>5. CASE Tick
      <3>1. Atomic!Tick
        BY <2>5 DEF Tick, Atomic!Tick
      <3> QED BY <3>1 DEF Atomic!Next
    <2>6. CASE UNCHANGED vars
      BY <2>6 DEF vars, Atomic!vars
    <2> QED BY <2>1, <2>2, <2>3, <2>4, <2>5, <2>6 DEF Next
  <1> QED BY <1>1, <1>2, IInvHolds, PTL DEF Spec, ImplementsAtomic, Atomic!Spec

-----------------------------------------------------------------------------
(* Searches: they use the cache as MemoryCache says, so that its theorems  *)
(* hold for them; c.mu is held by one search at a time; and a search gets  *)
(* a recent answer of its own.                                             *)
\* What a search may return or store.
OwnAnswers(agent, limit) ==
    {Stored(agent, answer, Normalized(limit), at) : answer \in Answers, at \in 0 .. MaxTime}

Callers == Agents \cup {NoAgent}
Held == UNION {OwnAnswers(agent, limit) : agent \in Callers, limit \in Limits}

Asking == [pc : {"lookup", "ask"}, agent : Callers, limit : Limits]
Storing == [pc : {"store", "storing"}, agent : Callers, limit : Limits, value : Held]
Answered == [pc : {"done"}, agent : Callers, limit : Limits, value : Held, age : Int]

\* The states of a search.
SearchTypeOK == search \in [Searches -> {Idle} \cup Asking \cup Storing \cup Answered]

\* A search with a value has it from SearXNG, for its own caller and limit, and
\* not from the future; the cache is asked and filled by agents only, with answers
\* of this moment; and what a search returned was recent.
SearchSound(s) ==
    /\ search[s].pc \in {"lookup", "store", "storing"} => search[s].agent \in Agents
    /\ search[s].pc \in {"store", "storing", "done"} =>
          /\ search[s].value \in OwnAnswers(search[s].agent, search[s].limit)
          /\ search[s].value.at <= now
    /\ search[s].pc \in {"store", "storing"} => search[s].value.at = now
    /\ search[s].pc = "done" => (TTL > 0 => search[s].age <= TTL)

SearchesSound == \A s \in Searches : SearchSound(s)

\* The entry of a key was stored for the caller and the limit in the key, when
\* SearXNG answered, and no hit has renewed it since.
ItemsSound ==
    \A k \in DOMAIN cache.items :
        /\ cache.items[k].value.at = cache.items[k].storedAt
        /\ \A agent \in Agents, limit \in Limits :
              k = Key(agent, limit) => cache.items[k].value \in OwnAnswers(agent, limit)

\* No entry is from the future.
StoredInPast ==
    \A k \in DOMAIN cache.items :
        cache.items[k].storedAt \in Nat /\ cache.items[k].storedAt <= now

\* c.mu is held by the one search that is inside Put, under its key.
LockSound ==
    /\ \A s \in Searches : At(s, "storing") => putting = KeyOf(s)
    /\ \A s, t \in Searches : At(s, "storing") /\ At(t, "storing") => s = t
    /\ putting # NoKey => \E s \in Searches : At(s, "storing")

\* The inductive invariant.
SearchIInv ==
    /\ now \in 0 .. MaxTime
    /\ StoredInPast
    /\ SearchTypeOK
    /\ SearchesSound
    /\ ItemsSound
    /\ LockSound

-----------------------------------------------------------------------------
(* Searches use the cache as MemoryCache allows.                           *)

\* Put gets the key, the value and the size it is made for.
LEMMA StoresFit ==
    ASSUME SearchIInv, NEW s \in Searches, search[s].pc \in {"store", "storing"}
    PROVE  /\ KeyOf(s) \in Keys
           /\ search[s].value \in Values
           /\ Size(search[s].value.results) \in Sizes
<1>1. search[s] \in Storing
  BY DEF SearchIInv, SearchTypeOK, Asking, Answered, Idle
<1>2. search[s].limit \in Limits /\ search[s].agent \in Agents
  BY <1>1 DEF Storing, SearchIInv, SearchesSound, SearchSound
<1>3. PICK answer \in Answers, at \in 0 .. MaxTime :
         search[s].value = Stored(search[s].agent, answer, Normalized(search[s].limit), at)
  BY DEF SearchIInv, SearchesSound, SearchSound, OwnAnswers
<1>4. search[s].value.results = Truncated(answer, Normalized(search[s].limit))
  BY <1>3 DEF Stored
<1> QED
  BY <1>2, <1>3, <1>4, CacheAssumption DEF KeyOf

\* The key of a lookup is a key of the cache.
LEMMA LookupsFit ==
    ASSUME SearchIInv, NEW s \in Searches, search[s].pc = "lookup"
    PROVE  KeyOf(s) \in Keys
<1>1. search[s] \in Asking
  BY DEF SearchIInv, SearchTypeOK, Storing, Answered, Idle
<1>2. search[s].limit \in Limits /\ search[s].agent \in Agents
  BY <1>1 DEF Asking, SearchIInv, SearchesSound, SearchSound
<1> QED
  BY <1>2, CacheAssumption DEF KeyOf

-----------------------------------------------------------------------------
(* The invariant.                                                          *)

\* The initial state satisfies it: the cache is empty and nobody searches.
LEMMA SearchInitIInv == SearchInit => SearchIInv
<1> SUFFICES ASSUME SearchInit PROVE SearchIInv
  OBVIOUS
<1>1. \A s \in Searches : search[s] = Idle /\ search[s].pc = "idle"
  BY DEF SearchInit, Idle
<1>2. cache.items = << >> /\ putting = NoKey /\ now = 0
  BY DEF SearchInit, Init, EmptyCache
<1>3. DOMAIN cache.items = {}
  BY <1>2
<1>4. SearchTypeOK
  BY DEF SearchInit, SearchTypeOK
<1> QED
  BY <1>1, <1>2, <1>3, <1>4, TimeAssumption
  DEF SearchIInv, StoredInPast, SearchesSound, SearchSound, ItemsSound, LockSound, At

\* Entries that stay, and one that a search stores for itself, are sound.
LEMMA ItemsStaySound ==
    ASSUME SearchIInv, now' = now,
           \A k \in DOMAIN cache'.items :
              \/ k \in DOMAIN cache.items /\ cache'.items[k] = cache.items[k]
              \/ /\ cache'.items[k].storedAt = now
                 /\ cache'.items[k].value.at = now
                 /\ \E agent \in Agents, limit \in Limits :
                       k = Key(agent, limit) /\ cache'.items[k].value \in OwnAnswers(agent, limit)
    PROVE  ItemsSound' /\ StoredInPast'
<1>1. StoredInPast' /\ \A k \in DOMAIN cache'.items : cache'.items[k].value.at = cache'.items[k].storedAt
  BY DEF SearchIInv, ItemsSound, StoredInPast
<1>2. ASSUME NEW k \in DOMAIN cache'.items, NEW agent \in Agents, NEW limit \in Limits,
             k = Key(agent, limit)
      PROVE  cache'.items[k].value \in OwnAnswers(agent, limit)
  <2>1. CASE k \in DOMAIN cache.items /\ cache'.items[k] = cache.items[k]
    BY <1>2, <2>1 DEF SearchIInv, ItemsSound
  <2>2. ASSUME NEW a \in Agents, NEW l \in Limits,
               k = Key(a, l), cache'.items[k].value \in OwnAnswers(a, l)
        PROVE  cache'.items[k].value \in OwnAnswers(agent, limit)
    <3>1. a = agent /\ Normalized(l) = Normalized(limit)
      BY <1>2, <2>2 DEF Key
    <3>2. OwnAnswers(a, l) = OwnAnswers(agent, limit)
      BY <3>1 DEF OwnAnswers
    <3> QED
      BY <2>2, <3>2
  <2> QED
    BY <2>1, <2>2
<1> QED
  BY <1>1, <1>2 DEF ItemsSound

\* A step of one search outside Put leaves the lock where it was.
LEMMA LockStays ==
    ASSUME LockSound, NEW s \in Searches, putting' = putting,
           \A t \in Searches : t # s => search'[t] = search[t],
           ~At(s, "storing"), ~At(s, "storing")'
    PROVE  LockSound'
<1>1. ASSUME NEW t \in Searches
      PROVE  (At(t, "storing")' <=> At(t, "storing")) /\ (At(t, "storing") => KeyOf(t)' = KeyOf(t))
  BY DEF At, KeyOf
<1> QED
  BY <1>1 DEF LockSound

\* A search that is inside Put is the only one, and c.mu is locked.
LEMMA StorerHoldsLock ==
    ASSUME SearchIInv, NEW s \in Searches, At(s, "storing")
    PROVE  putting = KeyOf(s) /\ putting # NoKey /\ \A t \in Searches : At(t, "storing") => t = s
<1>1. KeyOf(s) \in Keys
  BY StoresFit DEF At
<1> QED
  BY <1>1, KeysAssumption DEF SearchIInv, LockSound

\* So a step of one search keeps the invariant if the search, the entries and
\* the lock stay sound.
LEMMA OneSearchKeepsIInv ==
    ASSUME SearchIInv, NEW s \in Searches, now' = now, SearchTypeOK',
           \A t \in Searches : t # s => search'[t] = search[t],
           SearchSound(s)', ItemsSound', StoredInPast', LockSound'
    PROVE  SearchIInv'
<1>1. ASSUME NEW t \in Searches PROVE SearchSound(t)'
  <2>1. CASE t = s
    BY <2>1 DEF SearchSound
  <2>2. CASE t # s
    BY <2>2 DEF SearchIInv, SearchesSound, SearchSound
  <2> QED
    BY <2>1, <2>2
<1> QED
  BY <1>1 DEF SearchIInv, SearchesSound

\* A step that does not touch the cache leaves its entries sound.
LEMMA CacheStays ==
    ASSUME SearchIInv, UNCHANGED vars
    PROVE  ItemsSound' /\ StoredInPast' /\ now' = now /\ putting' = putting
BY DEF SearchIInv, ItemsSound, StoredInPast, vars

\* A search starts, fails or is over: it holds nothing.
LEMMA StartKeepsIInv ==
    ASSUME SearchIInv, NEW s \in Searches, NEW agent \in Callers, NEW limit \in Limits,
           Start(s, agent, limit)
    PROVE  SearchIInv'
<1> DEFINE new == [pc |-> IF agent = NoAgent THEN "ask" ELSE "lookup",
                   agent |-> agent, limit |-> limit]
<1>1. SearchTypeOK /\ search[s].pc = "idle" /\ search' = [search EXCEPT ![s] = new]
  BY DEF SearchIInv, Start, At
<1>2. /\ new \in Asking /\ new.pc \in {"lookup", "ask"} /\ new.agent = agent
      /\ new.pc = "lookup" => agent # NoAgent
  BY DEF Asking
<1> HIDE DEF new
<1>3. SearchTypeOK' /\ search'[s] = new /\ \A t \in Searches : t # s => search'[t] = search[t]
  BY <1>1, <1>2 DEF SearchTypeOK
<1>4. SearchSound(s)'
  BY <1>2, <1>3 DEF SearchSound, Callers
<1>5. UNCHANGED vars
  BY DEF Start
<1>6. ~At(s, "storing") /\ ~At(s, "storing")'
  BY <1>1, <1>2, <1>3 DEF At
<1>7. LockSound'
  BY <1>3, <1>5, <1>6, CacheStays, LockStays DEF SearchIInv
<1> QED
  BY <1>3, <1>4, <1>5, <1>7, CacheStays, OneSearchKeepsIInv

\* A failed question and a taken answer leave the search idle.
LEMMA EndKeepsIInv ==
    ASSUME SearchIInv, NEW s \in Searches, AskFails(s) \/ Over(s)
    PROVE  SearchIInv'
<1>1. /\ SearchTypeOK /\ search[s].pc \in {"ask", "done"} /\ UNCHANGED vars
      /\ search' = [search EXCEPT ![s] = Idle]
  BY DEF SearchIInv, AskFails, Over, At
<1>2. SearchTypeOK' /\ search'[s] = Idle /\ \A t \in Searches : t # s => search'[t] = search[t]
  BY <1>1 DEF SearchTypeOK
<1>3. search'[s].pc = "idle"
  BY <1>2 DEF Idle
<1>4. SearchSound(s)' /\ ~At(s, "storing") /\ ~At(s, "storing")'
  BY <1>1, <1>3 DEF SearchSound, At
<1>5. LockSound'
  BY <1>1, <1>2, <1>4, CacheStays, LockStays DEF SearchIInv
<1> QED
  BY <1>1, <1>2, <1>4, <1>5, CacheStays, OneSearchKeepsIInv

\* A search returns a value of its own that is recent.
LEMMA ReturnIsSound ==
    ASSUME SearchIInv, NEW s \in Searches, search[s].pc \in {"lookup", "ask", "storing"},
           NEW value \in OwnAnswers(search[s].agent, search[s].limit),
           value.at <= now, TTL > 0 => now - value.at <= TTL, Return(s, value), now' = now
    PROVE  /\ SearchTypeOK' /\ search'[s].pc = "done"
           /\ \A t \in Searches : t # s => search'[t] = search[t]
           /\ SearchSound(s)'
<1> DEFINE new == [pc |-> "done", agent |-> search[s].agent, limit |-> search[s].limit,
                   value |-> value, age |-> now - value.at]
<1>1. SearchTypeOK /\ search' = [search EXCEPT ![s] = new]
  BY DEF SearchIInv, Return
<1>2. search[s].agent \in Callers /\ search[s].limit \in Limits
  BY <1>1 DEF SearchTypeOK, Idle, Asking, Storing, Answered
<1>3. value \in Held /\ now - value.at \in Int
  <2>1. value \in Held
    BY <1>2 DEF Held
  <2>2. value.at \in 0 .. MaxTime /\ now \in 0 .. MaxTime
    BY DEF OwnAnswers, Stored, SearchIInv
  <2> QED
    BY <2>1, <2>2, TimeAssumption
<1>4. /\ new \in Answered /\ new.pc = "done" /\ new.agent = search[s].agent
      /\ new.limit = search[s].limit /\ new.value = value /\ new.age = now - value.at
  BY <1>2, <1>3 DEF Answered
<1> HIDE DEF new
<1>5. SearchTypeOK' /\ search'[s] = new /\ \A t \in Searches : t # s => search'[t] = search[t]
  BY <1>1, <1>4 DEF SearchTypeOK
<1>6. SearchSound(s)'
  BY <1>4, <1>5 DEF SearchSound
<1> QED
  BY <1>4, <1>5, <1>6

\* A hit returns the entry of the search's own key, which has not expired.
LEMMA LookupHitsKeepsIInv ==
    ASSUME SearchIInv, NEW s \in Searches, LookupHits(s)
    PROVE  SearchIInv'
<1> DEFINE e == cache.items[KeyOf(s)]
<1>1. /\ SearchTypeOK /\ search[s].pc = "lookup" /\ now \in 0 .. MaxTime
      /\ putting' = putting /\ now' = now /\ cache'.items = cache.items
      /\ KeyOf(s) \in DOMAIN cache.items /\ ~Expired(e, now, TTL)
      /\ Return(s, e.value)
  BY DEF SearchIInv, LookupHits, GetHit, Hits, Touched, At
<1>2. e.storedAt \in Nat /\ e.storedAt <= now /\ e.value.at = e.storedAt
  BY <1>1 DEF SearchIInv, StoredInPast, ItemsSound
<1>3. e.value.at <= now /\ (TTL > 0 => now - e.value.at <= TTL)
  BY <1>1, <1>2, TimeAssumption DEF Expired
<1>4. search[s].agent \in Agents /\ search[s].limit \in Limits
  BY <1>1 DEF SearchIInv, SearchesSound, SearchSound, SearchTypeOK, Idle, Asking, Storing, Answered
<1>5. e.value \in OwnAnswers(search[s].agent, search[s].limit)
  BY <1>1, <1>4 DEF SearchIInv, ItemsSound, KeyOf
<1>6. /\ SearchTypeOK' /\ search'[s].pc = "done" /\ SearchSound(s)'
      /\ \A t \in Searches : t # s => search'[t] = search[t]
  BY <1>1, <1>3, <1>5, ReturnIsSound
<1>7. ItemsSound' /\ StoredInPast'
  BY <1>1, ItemsStaySound
<1>8. ~At(s, "storing") /\ ~At(s, "storing")'
  BY <1>1, <1>6 DEF At
<1>9. LockSound'
  BY <1>1, <1>6, <1>8, LockStays DEF SearchIInv
<1> QED
  BY <1>1, <1>6, <1>7, <1>9, OneSearchKeepsIInv

\* A miss goes on to ask SearXNG; an expired entry is gone.
LEMMA LookupMissesKeepsIInv ==
    ASSUME SearchIInv, NEW s \in Searches, LookupMisses(s)
    PROVE  SearchIInv'
<1>1. /\ SearchTypeOK /\ search[s].pc = "lookup"
      /\ putting' = putting /\ now' = now
      /\ cache' = cache \/ cache' = DeleteLocked(cache, KeyOf(s))
      /\ search' = [search EXCEPT ![s].pc = "ask"]
  BY DEF SearchIInv, LookupMisses, GetMiss, GetExpired, At, vars
<1>2. search[s] \in Asking
  BY <1>1 DEF SearchTypeOK, Storing, Answered, Idle
<1>3. SearchTypeOK' /\ search'[s].pc = "ask" /\ \A t \in Searches : t # s => search'[t] = search[t]
  BY <1>1, <1>2 DEF SearchTypeOK, Asking
<1>4. SearchSound(s)' /\ ~At(s, "storing") /\ ~At(s, "storing")'
  BY <1>1, <1>3 DEF SearchSound, At
<1>5. \A k \in DOMAIN cache'.items : k \in DOMAIN cache.items /\ cache'.items[k] = cache.items[k]
  BY <1>1, DeletedItems
<1>6. ItemsSound' /\ StoredInPast'
  BY <1>1, <1>5, ItemsStaySound
<1>7. LockSound'
  BY <1>1, <1>3, <1>4, LockStays DEF SearchIInv
<1> QED
  BY <1>1, <1>3, <1>4, <1>6, <1>7, OneSearchKeepsIInv

\* An answer of SearXNG is the search's own; only an agent's is to be stored.
LEMMA AskKeepsIInv ==
    ASSUME SearchIInv, NEW s \in Searches, NEW answer \in Answers, Ask(s, answer)
    PROVE  SearchIInv'
<1> DEFINE value == Stored(search[s].agent, answer, Normalized(search[s].limit), now)
<1>1. SearchTypeOK /\ search[s].pc = "ask" /\ UNCHANGED vars /\ now' = now
  BY DEF SearchIInv, Ask, At, vars
<1>2. search[s] \in Asking
  BY <1>1 DEF SearchTypeOK, Storing, Answered, Idle
<1>3. value \in OwnAnswers(search[s].agent, search[s].limit) /\ value.at = now
  BY DEF OwnAnswers, Stored, SearchIInv
<1> HIDE DEF value
<1>4. CASE search[s].agent = NoAgent
  <2>1. Return(s, value)
    BY <1>4 DEF Ask, value
  <2>2. value.at <= now /\ (TTL > 0 => now - value.at <= TTL)
    BY <1>3, TimeAssumption DEF SearchIInv
  <2>3. /\ SearchTypeOK' /\ search'[s].pc = "done" /\ SearchSound(s)'
        /\ \A t \in Searches : t # s => search'[t] = search[t]
    BY <1>1, <1>3, <2>1, <2>2, ReturnIsSound
  <2>4. ~At(s, "storing") /\ ~At(s, "storing")'
    BY <1>1, <2>3 DEF At
  <2>5. LockSound'
    BY <1>1, <2>3, <2>4, CacheStays, LockStays DEF SearchIInv
  <2> QED
    BY <1>1, <2>3, <2>5, CacheStays, OneSearchKeepsIInv
<1>5. CASE search[s].agent # NoAgent
  <2> DEFINE new == [pc |-> "store", agent |-> search[s].agent, limit |-> search[s].limit,
                     value |-> value]
  <2>1. search' = [search EXCEPT ![s] = new]
    BY <1>5 DEF Ask, value
  <2>2. search[s].agent \in Agents /\ search[s].limit \in Limits
    BY <1>2, <1>5 DEF Asking, Callers
  <2>3. value \in Held
    BY <1>3, <2>2 DEF Held, Callers
  <2>4. /\ new \in Storing /\ new.pc = "store" /\ new.agent = search[s].agent
        /\ new.limit = search[s].limit /\ new.value = value
    BY <2>2, <2>3 DEF Storing, Callers
  <2> HIDE DEF new
  <2>5. SearchTypeOK' /\ search'[s] = new /\ \A t \in Searches : t # s => search'[t] = search[t]
    BY <1>1, <2>1, <2>4 DEF SearchTypeOK
  <2>6. SearchSound(s)'
    BY <1>1, <1>3, <2>2, <2>4, <2>5, TimeAssumption DEF SearchSound, SearchIInv
  <2>7. ~At(s, "storing") /\ ~At(s, "storing")'
    BY <1>1, <2>4, <2>5 DEF At
  <2>8. LockSound'
    BY <1>1, <2>5, <2>7, CacheStays, LockStays DEF SearchIInv
  <2> QED
    BY <1>1, <2>5, <2>6, <2>8, CacheStays, OneSearchKeepsIInv
<1> QED
  BY <1>4, <1>5

\* Put takes the free lock and stores the search's own value under its key.
LEMMA StoreKeepsIInv ==
    ASSUME SearchIInv, NEW s \in Searches, Store(s)
    PROVE  SearchIInv'
<1> DEFINE e == [value |-> search[s].value, size |-> Size(search[s].value.results),
                 storedAt |-> now]
<1>1. /\ SearchTypeOK /\ search[s].pc = "store" /\ putting = NoKey
      /\ putting' = KeyOf(s) /\ now' = now /\ cache' = Inserted(cache, KeyOf(s), e)
      /\ search' = [search EXCEPT ![s].pc = "storing"]
  BY DEF SearchIInv, Store, PutInsert, Unlocked, At
<1>2. e.value = search[s].value /\ e.storedAt = now
  OBVIOUS
<1> HIDE DEF e
<1>3. search[s] \in Storing
  BY <1>1 DEF SearchTypeOK, Asking, Answered, Idle
<1>4. /\ SearchTypeOK' /\ search'[s].pc = "storing" /\ search'[s].agent = search[s].agent
      /\ search'[s].limit = search[s].limit /\ search'[s].value = search[s].value
      /\ \A t \in Searches : t # s => search'[t] = search[t]
  BY <1>1, <1>3 DEF SearchTypeOK, Storing
<1>5. /\ search[s].agent \in Agents /\ search[s].limit \in Limits
      /\ search[s].value \in OwnAnswers(search[s].agent, search[s].limit)
      /\ search[s].value.at = now /\ search[s].value.at <= now
  BY <1>1, <1>3 DEF Storing, SearchIInv, SearchesSound, SearchSound
<1>6. SearchSound(s)'
  BY <1>1, <1>4, <1>5 DEF SearchSound
<1>7. ItemsSound' /\ StoredInPast'
  <2>1. ASSUME NEW k \in DOMAIN cache'.items
        PROVE  \/ k = KeyOf(s) /\ cache'.items[k] = e
               \/ k \in DOMAIN cache.items /\ cache'.items[k] = cache.items[k]
    BY <1>1, InsertedItems
  <2>2. ASSUME NEW k, k = KeyOf(s)
        PROVE  \E agent \in Agents, limit \in Limits :
                  k = Key(agent, limit) /\ e.value \in OwnAnswers(agent, limit)
    BY <1>2, <1>5, <2>2 DEF KeyOf
  <2> QED
    BY <1>1, <1>2, <1>5, <2>1, <2>2, ItemsStaySound
<1>8. LockSound'
  <2>1. \A t \in Searches : ~At(t, "storing")
    BY <1>1, StorerHoldsLock
  <2>2. \A t \in Searches : At(t, "storing")' <=> t = s
    BY <1>4, <2>1 DEF At
  <2>3. KeyOf(s)' = KeyOf(s)
    BY <1>4 DEF KeyOf
  <2>4. ASSUME NEW t \in Searches, At(t, "storing")' PROVE putting' = KeyOf(t)'
    <3>1. t = s
      BY <2>2, <2>4
    <3> QED
      BY <1>1, <2>3, <3>1 DEF KeyOf
  <2> QED
    BY <2>2, <2>4 DEF LockSound
<1> QED
  BY <1>1, <1>4, <1>6, <1>7, <1>8, OneSearchKeepsIInv

\* When the search inside Put leaves it, nobody is.
LEMMA LockIsReleased ==
    ASSUME SearchIInv, NEW s \in Searches, At(s, "storing"), putting' = NoKey,
           search'[s].pc = "done", \A t \in Searches : t # s => search'[t] = search[t]
    PROVE  LockSound'
<1>1. \A t \in Searches : At(t, "storing") => t = s
  BY StorerHoldsLock
<1>2. \A t \in Searches : ~At(t, "storing")'
  BY <1>1 DEF At
<1> QED
  BY <1>2 DEF LockSound

\* Put evicts until the budget holds or its own entry goes, and returns.
LEMMA PutKeepsIInv ==
    ASSUME SearchIInv, NEW s \in Searches, Evict(s) \/ Stop(s)
    PROVE  SearchIInv'
<1>1. SearchTypeOK /\ search[s].pc = "storing" /\ At(s, "storing") /\ now' = now
  BY DEF SearchIInv, Evict, Stop, PutEvict, PutReturn, At
<1>2. putting = KeyOf(s)
  BY <1>1, StorerHoldsLock
<1>3. cache' = cache \/ cache' = DeleteLocked(cache, Last(cache.order))
  BY DEF Evict, Stop, PutEvict, PutReturn
<1>4. \A k \in DOMAIN cache'.items : k \in DOMAIN cache.items /\ cache'.items[k] = cache.items[k]
  BY <1>3, DeletedItems
<1>5. ItemsSound' /\ StoredInPast'
  BY <1>1, <1>4, ItemsStaySound
<1>6. CASE Return(s, search[s].value) /\ putting' = NoKey
  <2>1. /\ search[s].value \in OwnAnswers(search[s].agent, search[s].limit)
        /\ search[s].value.at = now
    BY <1>1 DEF SearchIInv, SearchesSound, SearchSound
  <2>2. search[s].value.at <= now /\ (TTL > 0 => now - search[s].value.at <= TTL)
    BY <2>1, TimeAssumption DEF SearchIInv
  <2>3. /\ SearchTypeOK' /\ search'[s].pc = "done" /\ SearchSound(s)'
        /\ \A t \in Searches : t # s => search'[t] = search[t]
    BY <1>1, <1>6, <2>1, <2>2, ReturnIsSound
  <2>4. LockSound'
    BY <1>1, <1>6, <2>3, LockIsReleased
  <2> QED
    BY <1>1, <1>5, <2>3, <2>4, OneSearchKeepsIInv
<1>7. CASE search' = search /\ putting' = putting
  <2>1. LockSound' /\ SearchTypeOK' /\ SearchSound(s)'
    BY <1>1, <1>7 DEF SearchIInv, LockSound, At, KeyOf, SearchTypeOK, SearchesSound, SearchSound
  <2> QED
    BY <1>1, <1>5, <1>7, <2>1, OneSearchKeepsIInv
<1> QED
  BY <1>2, <1>6, <1>7 DEF Evict, Stop, PutEvict, PutReturn

\* Every step keeps the invariant.
LEMMA SearchNextIInv == SearchIInv /\ [SearchNext]_searchVars => SearchIInv'
<1> SUFFICES ASSUME SearchIInv, [SearchNext]_searchVars PROVE SearchIInv'
  OBVIOUS
<1>1. ASSUME NEW s \in Searches, NEW agent \in Agents \cup {NoAgent}, NEW limit \in Limits,
             Start(s, agent, limit)
      PROVE  SearchIInv'
  BY <1>1, StartKeepsIInv DEF Callers
<1>2. ASSUME NEW s \in Searches,
             \/ LookupHits(s) \/ LookupMisses(s) \/ \E answer \in Answers : Ask(s, answer)
             \/ AskFails(s) \/ Store(s) \/ Evict(s) \/ Stop(s) \/ Over(s)
      PROVE  SearchIInv'
  BY <1>2, LookupHitsKeepsIInv, LookupMissesKeepsIInv, AskKeepsIInv, EndKeepsIInv,
     StoreKeepsIInv, PutKeepsIInv
<1>3. CASE TimePasses
  <2>1. /\ now' = now + 1 /\ cache' = cache /\ putting' = putting /\ search' = search
        /\ \A s \in Searches : search[s].pc \notin {"store", "storing"}
    BY <1>3 DEF TimePasses, Tick
  <2>2. now' \in 0 .. MaxTime /\ now \in Nat
    BY <1>3, <2>1, TimeAssumption DEF SearchIInv, Tick, TimePasses
  <2>3. StoredInPast'
    BY <2>1, <2>2 DEF SearchIInv, StoredInPast
  <2>4. SearchesSound'
    <3> SUFFICES ASSUME NEW s \in Searches PROVE SearchSound(s)'
      BY DEF SearchesSound
    <3>1. SearchSound(s)
      BY DEF SearchIInv, SearchesSound
    <3>2. search[s].pc = "done" => search[s].value.at \in 0 .. MaxTime
      BY <3>1 DEF SearchSound, OwnAnswers, Stored
    <3>3. search[s].pc = "done" => search[s].value.at <= now'
      BY <2>1, <2>2, <3>1, <3>2 DEF SearchSound
    <3> QED
      BY <2>1, <3>1, <3>3 DEF SearchSound
  <2> QED
    BY <2>1, <2>2, <2>3, <2>4 DEF SearchIInv, SearchTypeOK, ItemsSound, LockSound, At, KeyOf
<1>4. CASE UNCHANGED searchVars
  BY <1>4 DEF searchVars, vars, SearchIInv, StoredInPast, SearchTypeOK, SearchesSound,
     SearchSound, ItemsSound, LockSound, At, KeyOf
<1> QED
  BY <1>1, <1>2, <1>3, <1>4 DEF SearchNext

\* The invariant holds throughout.
LEMMA SearchIInvHolds == SearchSpec => []SearchIInv
BY SearchInitIInv, SearchNextIInv, PTL DEF SearchSpec

-----------------------------------------------------------------------------

\* Whatever searches do, the cache sees a behaviour that MemoryCache describes:
\* the composition refines its component.
THEOREM SearchesUseTheCache == SearchSpec => Spec
<1>1. SearchInit => Init
  BY DEF SearchInit
<1>2. SearchIInv /\ [SearchNext]_searchVars => [Next]_vars
  <2> SUFFICES ASSUME SearchIInv, SearchNext PROVE Next \/ UNCHANGED vars
    BY DEF searchVars
  <2>1. CASE UNCHANGED vars
    BY <2>1
  <2>2. ASSUME NEW s \in Searches, LookupHits(s) \/ LookupMisses(s) PROVE Next
    <3>1. KeyOf(s) \in Keys
      BY <2>2, LookupsFit DEF LookupHits, LookupMisses, At
    <3> QED
      BY <2>2, <3>1 DEF LookupHits, LookupMisses, Next
  <2>3. ASSUME NEW s \in Searches, Store(s) PROVE Next
    <3>1. /\ KeyOf(s) \in Keys /\ search[s].value \in Values
          /\ Size(search[s].value.results) \in Sizes
      BY <2>3, StoresFit DEF Store, At
    <3>2. PutInsert(KeyOf(s), search[s].value, Size(search[s].value.results))
      BY <2>3 DEF Store
    <3> QED
      BY <3>1, <3>2 DEF Next
  <2>4. ASSUME NEW s \in Searches, Evict(s) \/ Stop(s) PROVE Next
    BY <2>4 DEF Evict, Stop, Next
  <2>5. CASE TimePasses
    BY <2>5 DEF TimePasses, Next
  <2> QED
    BY <2>1, <2>2, <2>3, <2>4, <2>5 DEF SearchNext, Start, Ask, AskFails, Over
<1> QED
  BY <1>1, <1>2, SearchIInvHolds, PTL DEF SearchSpec, Spec

\* The results cache of Searcher never holds more than its budget while c.mu is
\* free, however many searches run.
THEOREM ResultsStayInBudget == SearchSpec => []WithinBudget
BY SearchesUseTheCache, BudgetHolds, PTL

\* c.mu of the results cache is locked exactly while one search is inside Put,
\* and under the key of that search.
THEOREM OneSearchInsidePut == SearchSpec => []LockSound
<1>1. SearchIInv => LockSound
  BY DEF SearchIInv
<1> QED
  BY <1>1, SearchIInvHolds, PTL

\* A search gets what SearXNG answered the same agent, cut to the limit it asked
\* for, whether from the cache or not.
THEOREM SearchesGetTheirOwn == SearchSpec => []AnswersAreOwn
<1>1. SearchIInv => AnswersAreOwn
  <2> SUFFICES ASSUME SearchIInv, NEW s \in Searches, At(s, "done")
               PROVE  \E answer \in Answers, at \in 0 .. now :
                         search[s].value =
                             Stored(search[s].agent, answer, Normalized(search[s].limit), at)
    BY DEF AnswersAreOwn
  <2>1. /\ search[s].value \in OwnAnswers(search[s].agent, search[s].limit)
        /\ search[s].value.at <= now
    BY DEF SearchIInv, SearchesSound, SearchSound, At
  <2>2. PICK answer \in Answers, at \in 0 .. MaxTime :
           search[s].value = Stored(search[s].agent, answer, Normalized(search[s].limit), at)
    BY <2>1 DEF OwnAnswers
  <2>3. at \in 0 .. now
    <3>1. at <= now
      BY <2>1, <2>2 DEF Stored
    <3> QED
      BY <3>1 DEF SearchIInv
  <2> QED
    BY <2>2, <2>3
<1> QED
  BY <1>1, SearchIInvHolds, PTL

\* SearXNG gave what a search returns no longer ago than the time to live, however
\* often it was served since: an entry keeps the time of its answer until it is
\* replaced.  The time to live is never zero or less: New replaces one that is by
\* its default (search.go).
THEOREM SearchesGetRecent == TTL > 0 => (SearchSpec => []AnswersAreRecent)
<1> SUFFICES ASSUME TTL > 0 PROVE SearchSpec => []AnswersAreRecent
  OBVIOUS
<1>1. SearchIInv => AnswersAreRecent
  BY DEF SearchIInv, SearchesSound, SearchSound, AnswersAreRecent, At
<1> QED
  BY <1>1, SearchIInvHolds, PTL
=============================================================================
