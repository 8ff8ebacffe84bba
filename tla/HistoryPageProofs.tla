------------------------- MODULE HistoryPageProofs -------------------------
(***************************************************************************)
(* Proofs about HistoryPage: for every table, filter, page size, retention *)
(* and any number of requests under way, the list shows calls of its       *)
(* filter, newest first and none twice; and when it offers no more, it has *)
(* every call that was there and has not outlived the retention.           *)
(***************************************************************************)
EXTENDS HistoryPage, FiniteSetTheorems, FunctionTheorems, SequenceTheorems, TLAPS

-----------------------------------------------------------------------------
(* The inductive invariant.                                                *)

Ended == [pc : {"free", "refused", "failed", "broken"}]
Asked ==
    [pc : {"cursor", "page"}, filter : Filters, cursor : Ids \cup {Absent},
     after : Row \cup {Absent}]
Listed == [pc : {"ok"}, calls : Seq(Row), next : Ids \cup {Absent}, there : SUBSET Row]

TypeOK ==
    /\ page \in [filter : Filters, calls : Seq(Row), next : Ids \cup {Absent},
                 loading : BOOLEAN, error : BOOLEAN, clicks : Nat]
    /\ request \in [Slots -> Ended \cup Asked \cup Listed]
    /\ crossed \in BOOLEAN
    /\ cut \in BOOLEAN
    /\ start \subseteq Row

\* A row whose insert has committed, whether it has been pruned since or not.
Recorded(x) ==
    /\ x \in Row /\ x.id \in used /\ x \notin pending
    /\ \A y \in rows \cup pending : y.id = x.id => y = x

TableSound ==
    /\ now \in Nat
    /\ rows \subseteq Row /\ IsFiniteSet(rows)
    /\ pending \subseteq Row
    /\ \A x \in rows : Recorded(x)
    /\ \A x \in pending : x.id \in used
    /\ \A x, y \in pending : x.id = y.id => x = y

LastOf(calls) == calls[Len(calls)]

Sorted(calls) == \A i, j \in 1 .. Len(calls) : i < j => Older(calls[j], calls[i])

\* The rows in calls and in there, which hold those of the filter f at some
\* time: calls is in order and ends with the row of the cursor next, and what is
\* gone of there is old.  The sweep takes no row before the ones older than it.
ListSound(calls, next, there, f) ==
    /\ Sorted(calls)
    /\ \A i \in 1 .. Len(calls) : Recorded(calls[i]) /\ Matches(f, calls[i])
    /\ next # Absent => Len(calls) > 0 /\ next = LastOf(calls).id
    /\ \A r \in there : Recorded(r) /\ Matches(f, r) /\ (r \in rows \/ Outlived(r))
    /\ \A r \in there, i \in 1 .. Len(calls) :
          Older(r, calls[i]) /\ calls[i] \notin rows => r \notin rows

\* A row is in the list, or gone, or to be found behind the next cursor.
Covered(r, calls, next) ==
    \/ \E i \in 1 .. Len(calls) : calls[i] = r
    \/ r \notin rows
    \/ next # Absent /\ Older(r, LastOf(calls))

Complete(calls, next, there) == \A r \in there : Covered(r, calls, next)

\* What a request knows whose answer is to be appended.
MoreSound(q) ==
    Busy(q) =>
        /\ ~page.loading /\ page.next # Absent
        /\ \A p \in MoreSlots : Busy(p) => p = q
        /\ request[q].pc \in {"cursor", "page"} =>
              request[q].filter = page.filter /\ request[q].cursor = page.next
        /\ request[q].pc = "page" => request[q].after = LastOf(page.calls)
        /\ request[q].pc = "ok" =>
              /\ ListSound(request[q].calls, request[q].next, start, page.filter)
              /\ \A i \in 1 .. Len(request[q].calls) :
                    Older(request[q].calls[i], LastOf(page.calls))
              /\ \A r \in start : Older(r, LastOf(page.calls)) =>
                    Covered(r, request[q].calls, request[q].next)
        /\ request[q].pc = "refused" =>
              \A r \in start : Older(r, LastOf(page.calls)) => r \notin rows

\* A first page is asked for exactly while the list is loading, for its filter.
FirstSound ==
    /\ Busy(0) <=> page.loading
    /\ request[0].pc \in {"free", "page", "ok", "failed", "broken"}
    /\ request[0].pc = "page" =>
          request[0].filter = page.filter /\ request[0].after = Absent
    /\ request[0].pc = "ok" =>
          /\ ListSound(request[0].calls, request[0].next, request[0].there, page.filter)
          /\ Complete(request[0].calls, request[0].next, request[0].there)

\* The list.
ShownSound ==
    ~page.loading =>
        /\ ListSound(page.calls, page.next, start, page.filter)
        /\ ~cut => Complete(page.calls, page.next, start)

\* Unless loads crossed or an error is shown.
PageSound ==
    ~crossed /\ ~page.error =>
        /\ page.loading => ~MoreUnderWay
        /\ ShownSound
        /\ \A q \in MoreSlots : MoreSound(q)

IInv == TypeOK /\ TableSound /\ FirstSound /\ PageSound

-----------------------------------------------------------------------------
(* The order of the rows, and the listing of some of them.                 *)

LEMMA OlderOrder ==
    ASSUME NEW x \in Row, NEW y \in Row, NEW z \in Row
    PROVE  /\ ~Older(x, x)
           /\ Older(x, y) => ~Older(y, x)
           /\ Older(x, y) /\ Older(y, z) => Older(x, z)
           /\ x.id # y.id => Older(x, y) \/ Older(y, x)
<1>1. \A r \in {x, y, z} : r.id \in Nat /\ r.calledAt \in Nat
    BY IdsAssumption DEF Row
<1> QED
    BY <1>1 DEF Older

\* What is older than an outlived row has outlived the retention too.
LEMMA OlderOutlived ==
    ASSUME NEW x \in Row, NEW y \in Row, Older(y, x), now \in Nat
    PROVE  /\ Expired(x) => Expired(y) /\ Outlived(x)
           /\ Outlived(x) => Outlived(y)
<1>1. x.calledAt \in Nat /\ y.calledAt \in Nat /\ Retention \in Int
    BY RetentionAssumption DEF Row
<1>2. y.calledAt <= x.calledAt
    BY <1>1 DEF Older
<1> QED
    BY <1>1, <1>2 DEF Expired, Outlived

PageSizeIsPositive == PageSize \in Nat /\ PageSize > 0

LEMMA PageSizeType == PageSizeIsPositive
BY PageSizeAssumption DEF PageSize, PageSizeIsPositive

\* Rows with a primary key.
Keyed(P) == P \subseteq Row /\ IsFiniteSet(P) /\ \A x, y \in P : x.id = y.id => x = y

LEMMA SmallerSubset ==
    ASSUME NEW S, IsFiniteSet(S), NEW T, T \subseteq S, T # S
    PROVE  Cardinality(T) \in Nat /\ Cardinality(S) \in Nat /\ Cardinality(T) < Cardinality(S)
<1>1. IsFiniteSet(T) /\ Cardinality(T) <= Cardinality(S) /\ Cardinality(T) # Cardinality(S)
    BY FS_Subset
<1>2. Cardinality(T) \in Nat /\ Cardinality(S) \in Nat
    BY <1>1, FS_CardinalityType
<1> QED
    BY <1>1, <1>2

\* Counting the newer ones numbers the rows from 0.
LEMMA RankIsBijection ==
    ASSUME NEW P, Keyed(P)
    PROVE  LET rank(r) == Cardinality({x \in P : Older(r, x)})
           IN  /\ Cardinality(P) \in Nat
               /\ \A r \in P : rank(r) \in 0 .. Cardinality(P) - 1
               /\ \A r, s \in P : Older(r, s) => rank(s) < rank(r)
               /\ \A r, s \in P : rank(r) = rank(s) => r = s
               /\ \A k \in 0 .. Cardinality(P) - 1 : \E r \in P : rank(r) = k
<1> DEFINE n == Cardinality(P)
           Newer(r) == {x \in P : Older(r, x)}
           rank(r) == Cardinality(Newer(r))
<1>1. P \subseteq Row /\ IsFiniteSet(P) /\ n \in Nat
    BY FS_CardinalityType DEF Keyed
<1>2. \A r \in P : r \notin Newer(r)
    BY <1>1, OlderOrder
<1>3. \A r \in P : IsFiniteSet(Newer(r)) /\ rank(r) \in Nat /\ rank(r) < n
    <2> TAKE r \in P
    <2>1. Newer(r) \subseteq P /\ Newer(r) # P
        BY <1>2
    <2> HIDE DEF Newer
    <2> QED
        BY <1>1, <2>1, FS_Subset, SmallerSubset
<1>4. ASSUME NEW r \in P, NEW s \in P, Older(r, s)
      PROVE  rank(s) < rank(r)
    <2>1. s \in Newer(r) /\ s \notin Newer(s)
        BY <1>2, <1>4
    <2>2. Newer(s) \subseteq Newer(r)
        BY <1>1, <1>4, OlderOrder
    <2>3. Newer(s) # Newer(r) /\ IsFiniteSet(Newer(r))
        BY <1>3, <2>1, Zenon
    <2> HIDE DEF Newer
    <2> QED
        BY <2>2, <2>3, SmallerSubset
<1>5. ASSUME NEW r \in P, NEW s \in P, rank(r) = rank(s)
      PROVE  r = s
    <2> SUFFICES ASSUME r # s PROVE FALSE
        OBVIOUS
    <2>1. Older(r, s) \/ Older(s, r)
        BY <1>1, OlderOrder DEF Keyed
    <2>2. rank(r) \in Nat /\ rank(s) \in Nat /\ (rank(s) < rank(r) \/ rank(r) < rank(s))
        BY <1>3, <1>4, <2>1
    <2> HIDE DEF rank
    <2> QED
        BY <1>5, <2>2
<1>6. \A r \in P : rank(r) \in 0 .. n - 1
    <2> HIDE DEF rank, n, Newer
    <2> QED
        BY <1>1, <1>3
<1>7. \A k \in 0 .. n - 1 : \E r \in P : rank(r) = k
    <2> DEFINE f == [r \in P |-> rank(r)]
    <2>1. f \in [P -> 0 .. n - 1]
        <3> HIDE DEF rank, n, Newer
        <3> QED
            BY <1>6
    <2>2. f \in Injection(P, 0 .. n - 1)
        <3> HIDE DEF rank, n
        <3>1. \A r, s \in P : f[r] = f[s] => r = s
            BY <1>5
        <3> HIDE DEF f
        <3> QED
            BY <2>1, <3>1, Fun_IsInj
    <2>3. IsFiniteSet(0 .. n - 1) /\ Cardinality(0 .. n - 1) = n
        <3> HIDE DEF n
        <3>1. /\ IsFiniteSet(0 .. n - 1)
              /\ Cardinality(0 .. n - 1) = IF 0 > n - 1 THEN 0 ELSE (n - 1) - 0 + 1
            BY <1>1, FS_Interval
        <3> QED
            BY <1>1, <3>1
    <2>4. f \in Surjection(P, 0 .. n - 1)
        BY <2>2, <2>3, FS_Injection
    <2>5. \A k \in 0 .. n - 1 : \E r \in P : f[r] = k
        <3> HIDE DEF f, n
        <3> QED
            BY <2>4, Fun_SurjectionProperties
    <2>6. \A r \in P : f[r] = rank(r)
        OBVIOUS
    <2> HIDE DEF f, n, rank
    <2> QED
        BY <2>5, <2>6
<1> QED
    BY <1>1, <1>4, <1>5, <1>6, <1>7

\* A listing has every row once, newest first.
LEMMA ListingOf ==
    ASSUME NEW P, Keyed(P)
    PROVE  /\ Listing(P) \in Seq(Row)
           /\ Len(Listing(P)) = Cardinality(P)
           /\ Cardinality(P) \in Nat
           /\ \A i \in 1 .. Len(Listing(P)) : Listing(P)[i] \in P
           /\ \A r \in P : \E i \in 1 .. Len(Listing(P)) : Listing(P)[i] = r
           /\ Sorted(Listing(P))
<1> DEFINE n == Cardinality(P)
           rank(r) == Cardinality({x \in P : Older(r, x)})
           L == Listing(P)
           at(i) == CHOOSE r \in P : rank(r) = i - 1
<1>1. /\ n \in Nat
      /\ \A r \in P : rank(r) \in 0 .. n - 1
      /\ \A r, s \in P : Older(r, s) => rank(s) < rank(r)
      /\ \A r, s \in P : rank(r) = rank(s) => r = s
      /\ \A k \in 0 .. n - 1 : \E r \in P : rank(r) = k
    BY RankIsBijection
<1>2. L = [i \in 1 .. n |-> at(i)]
    BY DEF Listing
<1>3. P \subseteq Row /\ \A x, y \in P : x # y => Older(x, y) \/ Older(y, x)
    BY OlderOrder DEF Keyed
<1> HIDE DEF n, rank, L
<1>4. \A i \in 1 .. n : at(i) \in P /\ rank(at(i)) = i - 1
    <2> TAKE i \in 1 .. n
    <2>1. i - 1 \in 0 .. n - 1
        BY <1>1
    <2>2. \E r \in P : rank(r) = i - 1
        BY <1>1, <2>1
    <2> QED
        BY <2>2
<1>5. \A i \in 1 .. n : L[i] \in P /\ rank(L[i]) = i - 1
    BY <1>2, <1>4
<1>6. L \in [1 .. n -> Row]
    BY <1>2, <1>3, <1>4
<1>7. L \in Seq(Row) /\ Len(L) = n
    BY <1>1, <1>6, SeqDef, LenProperties
<1>8. \A r \in P : \E i \in 1 .. n : L[i] = r
    <2> TAKE r \in P
    <2>1. rank(r) + 1 \in 1 .. n /\ (rank(r) + 1) - 1 = rank(r)
        BY <1>1
    <2>2. L[rank(r) + 1] \in P /\ rank(L[rank(r) + 1]) = rank(r)
        BY <1>5, <2>1
    <2> QED
        BY <1>1, <2>1, <2>2
<1>9. \A i, j \in 1 .. n : i < j => Older(L[j], L[i])
    <2> SUFFICES ASSUME NEW i \in 1 .. n, NEW j \in 1 .. n, i < j PROVE Older(L[j], L[i])
        OBVIOUS
    <2>1. L[i] \in P /\ L[j] \in P /\ rank(L[i]) = i - 1 /\ rank(L[j]) = j - 1
        BY <1>5
    <2>2. rank(L[i]) < rank(L[j])
        BY <1>1, <2>1
    <2>3. ~(rank(L[j]) < rank(L[i]))
        BY <1>1, <2>1, <2>2
    <2>4. L[i] # L[j] /\ ~Older(L[i], L[j])
        BY <1>1, <2>1, <2>2, <2>3
    <2> QED
        BY <1>3, <2>1, <2>4
<1> QED
    BY <1>1, <1>5, <1>7, <1>8, <1>9 DEF n, L, Sorted

-----------------------------------------------------------------------------
(* The table under the list.                                               *)

\* The table stays sound.  A recorded row is never inserted again; a row that
\* goes has outlived the retention, and no older row is there any more.
LEMMA TableStep ==
    ASSUME TableSound, [TableNext]_tableVars
    PROVE  /\ TableSound'
           /\ \A x \in Row : Recorded(x) => Recorded(x)'
           /\ \A x \in Row : Recorded(x) /\ x \in rows' => x \in rows
           /\ \A x \in rows : x \notin rows' =>
                 Outlived(x)' /\ \A y \in Row : Older(y, x) => y \notin rows'
           /\ \A x \in Row : Outlived(x) => Outlived(x)'
<1>1. CASE \E id \in Ids, a \in Actors, t \in Tools, e \in BOOLEAN : Stamp(id, a, t, e)
    <2>1. PICK id \in Ids, a \in Actors, t \in Tools, e \in BOOLEAN : Stamp(id, a, t, e)
        BY <1>1
    <2> DEFINE r == [id |-> id, actor |-> a, tool |-> t, isError |-> e, calledAt |-> now]
    <2>2. r \in Row /\ r.id = id
        BY DEF TableSound, Row
    <2>3. /\ now' = now /\ rows' = rows /\ pending' = pending \cup {r}
          /\ used' = used \cup {id} /\ id \notin used
        BY <2>1 DEF Stamp
    <2> HIDE DEF r
    <2>4. \A x \in Row : Outlived(x) => Outlived(x)'
        BY <2>3 DEF Outlived
    <2>5. \A x \in Row : Recorded(x) => Recorded(x)'
        BY <2>2, <2>3 DEF Recorded
    <2>6. /\ \A x \in rows' : Recorded(x)'
          /\ \A x \in pending' : x.id \in used'
          /\ \A x, y \in pending' : x.id = y.id => x = y
        BY <2>2, <2>3, <2>5 DEF TableSound
    <2> QED
        BY <2>2, <2>3, <2>4, <2>5, <2>6 DEF TableSound
<1>2. CASE \E r \in pending : Insert(r)
    <2>1. PICK r \in pending : Insert(r)
        BY <1>2
    <2>2. now' = now /\ used' = used /\ pending' = pending \ {r} /\ rows' = rows \cup {r}
        BY <2>1 DEF Insert
    <2>3. r \in Row /\ r.id \in used
        BY DEF TableSound
    <2>4. \A x \in Row : Outlived(x) => Outlived(x)'
        BY <2>2 DEF Outlived
    <2>5. \A x \in Row : Recorded(x) => Recorded(x)' /\ x # r
        BY <2>2, <2>3 DEF Recorded
    <2>6. Recorded(r)'
        <3>1. \A y \in rows : y.id # r.id
            BY DEF TableSound, Recorded
        <3>2. \A y \in rows' \cup pending' : y.id = r.id => y = r
            BY <2>2, <3>1 DEF TableSound
        <3> QED
            BY <2>2, <2>3, <3>2 DEF Recorded
    <2>7. IsFiniteSet(rows')
        BY <2>2, FS_AddElement DEF TableSound
    <2> QED
        BY <2>2, <2>3, <2>4, <2>5, <2>6, <2>7 DEF TableSound
<1>3. CASE \E r \in pending : InsertFails(r)
    <2>1. PICK r \in pending : InsertFails(r)
        BY <1>3
    <2>2. now' = now /\ used' = used /\ pending' = pending \ {r} /\ rows' = rows
        BY <2>1 DEF InsertFails
    <2>3. \A x \in Row : (Outlived(x) => Outlived(x)') /\ (Recorded(x) => Recorded(x)')
        BY <2>2 DEF Outlived, Recorded
    <2> QED
        BY <2>2, <2>3 DEF TableSound
<1>4. CASE Prune
    <2>1. now' = now /\ used' = used /\ pending' = pending /\ rows' = {r \in rows : ~Expired(r)}
        BY <1>4 DEF Prune
    <2>2. \A x \in Row : (Outlived(x) => Outlived(x)') /\ (Recorded(x) => Recorded(x)')
        BY <2>1 DEF Outlived, Recorded
    <2>3. \A x \in rows : x \notin rows' => Outlived(x) /\ \A y \in Row : Older(y, x) => y \notin rows'
        <3> SUFFICES ASSUME NEW x \in rows, x \notin rows'
                     PROVE  Outlived(x) /\ \A y \in Row : Older(y, x) => y \notin rows'
            OBVIOUS
        <3>1. x \in Row /\ now \in Nat /\ Expired(x)
            BY <2>1 DEF TableSound
        <3>2. Outlived(x)
            BY <3>1, RetentionAssumption DEF Expired, Outlived, Row
        <3> QED
            BY <2>1, <3>1, <3>2, OlderOutlived
    <2>4. rows' \subseteq rows /\ IsFiniteSet(rows')
        <3>1. rows' \subseteq rows
            BY <2>1
        <3> QED
            BY <3>1, FS_Subset DEF TableSound
    <2> QED
        BY <2>1, <2>2, <2>3, <2>4 DEF TableSound
<1>5. CASE Tick
    <2>1. now' = now + 1 /\ used' = used /\ pending' = pending /\ rows' = rows
        BY <1>5 DEF Tick
    <2>2. \A x \in Row : (Outlived(x) => Outlived(x)') /\ (Recorded(x) => Recorded(x)')
        BY <2>1, RetentionAssumption DEF Outlived, Recorded, TableSound, Row
    <2> QED
        BY <2>1, <2>2 DEF TableSound
<1>6. CASE UNCHANGED tableVars
    <2>1. now' = now /\ used' = used /\ pending' = pending /\ rows' = rows
        BY <1>6 DEF tableVars
    <2>2. \A x \in Row : (Outlived(x) => Outlived(x)') /\ (Recorded(x) => Recorded(x)')
        BY <2>1 DEF Outlived, Recorded
    <2> QED
        BY <2>1, <2>2 DEF TableSound
<1> QED
    BY <1>1, <1>2, <1>3, <1>4, <1>5, <1>6 DEF TableNext

\* So what is known of a list stays known.
LEMMA ListStep ==
    ASSUME TableSound, [TableNext]_tableVars,
           NEW calls \in Seq(Row), NEW next, NEW there \in SUBSET Row, NEW f
    PROVE  /\ ListSound(calls, next, there, f) => ListSound(calls, next, there, f)'
           /\ \A r \in there : /\ ListSound(calls, next, there, f)
                               /\ Covered(r, calls, next)
                               => Covered(r, calls, next)'
<1>1. \A i \in 1 .. Len(calls) : calls[i] \in Row
    BY LenProperties
<1>2. /\ \A x \in Row : Recorded(x) => Recorded(x)'
      /\ \A x \in Row : Recorded(x) /\ x \in rows' => x \in rows
      /\ \A x \in rows : x \notin rows' =>
            Outlived(x)' /\ \A y \in Row : Older(y, x) => y \notin rows'
      /\ \A x \in Row : Outlived(x) => Outlived(x)'
    BY TableStep
<1>3. ASSUME ListSound(calls, next, there, f) PROVE ListSound(calls, next, there, f)'
    <2>1. \A i \in 1 .. Len(calls) : Recorded(calls[i])' /\ Matches(f, calls[i])
        BY <1>1, <1>2, <1>3 DEF ListSound
    <2>2. \A r \in there : Recorded(r)' /\ Matches(f, r) /\ (r \in rows' \/ Outlived(r)')
        BY <1>2, <1>3 DEF ListSound
    <2>3. \A r \in there, i \in 1 .. Len(calls) :
             Older(r, calls[i]) /\ calls[i] \notin rows' => r \notin rows'
        BY <1>1, <1>2, <1>3 DEF ListSound
    <2> QED
        BY <1>3, <2>1, <2>2, <2>3 DEF ListSound
<1>4. ASSUME NEW r \in there, ListSound(calls, next, there, f), Covered(r, calls, next)
      PROVE  Covered(r, calls, next)'
    BY <1>2, <1>4 DEF ListSound, Covered
<1> QED
    BY <1>3, <1>4

-----------------------------------------------------------------------------
(* The pages of the server.                                                *)

\* A page is sound for the rows it was read of, and says when it is not all.
LEMMA PageOf ==
    ASSUME TableSound, NEW f, NEW after, NEW P, IsPage(P, Selected(f, after))
    PROVE  /\ Listing(P) \in Seq(Row) /\ NextCursor(P) \in Ids \cup {Absent}
           /\ \A i \in 1 .. Len(Listing(P)) : Listing(P)[i] \in Selected(f, after)
           /\ ListSound(Listing(P), NextCursor(P), Selected(f, after), f)
           /\ Complete(Listing(P), NextCursor(P), Selected(f, after))
<1> DEFINE C == Selected(f, after)
           L == Listing(P)
           n == NextCursor(P)
<1>1. /\ \A x \in C : x \in rows /\ Recorded(x) /\ x \in Row /\ Matches(f, x)
      /\ P \subseteq C /\ C \subseteq rows /\ IsFiniteSet(rows)
    BY DEF Selected, TableSound, IsPage
<1>2. Keyed(P) /\ IsFiniteSet(C)
    <2>1. IsFiniteSet(C) /\ IsFiniteSet(P)
        BY <1>1, FS_Subset
    <2>2. \A x, y \in P : x.id = y.id => x = y
        BY <1>1 DEF Recorded
    <2> QED
        BY <1>1, <2>1, <2>2 DEF Keyed
<1>3. /\ L \in Seq(Row) /\ Len(L) = Cardinality(P) /\ Cardinality(P) \in Nat
      /\ \A i \in 1 .. Len(L) : L[i] \in P
      /\ \A r \in P : \E i \in 1 .. Len(L) : L[i] = r
      /\ Sorted(L)
    BY <1>2, ListingOf
<1>4. PageSize \in Nat /\ PageSize > 0 /\ Cardinality(C) \in Nat
    BY <1>2, PageSizeType, FS_CardinalityType DEF PageSizeIsPositive
<1>5. CASE Cardinality(P) = PageSize
    <2>1. n = LastOf(L).id /\ Len(L) > 0 /\ LastOf(L) \in P
        BY <1>3, <1>4, <1>5 DEF NextCursor, LastOf
    <2>2. n \in Ids /\ n # Absent
        BY <1>1, <2>1, AbsentAssumption DEF Row
    <2>3. \A r \in C \ P : Older(r, LastOf(L))
        BY <2>1 DEF IsPage
    <2> HIDE DEF L, n, C
    <2>4. Complete(L, n, C)
        BY <1>3, <2>2, <2>3 DEF Complete, Covered
    <2>5. ListSound(L, n, C, f)
        BY <1>1, <1>3, <2>1 DEF ListSound
    <2> QED
        BY <1>1, <1>3, <2>2, <2>4, <2>5 DEF C, L, n
<1>6. CASE Cardinality(P) # PageSize
    <2>1. n = Absent /\ P = C
        BY <1>6 DEF NextCursor, IsPage
    <2> HIDE DEF L, n, C
    <2>2. Complete(L, n, C)
        BY <1>3, <2>1 DEF Complete, Covered
    <2>3. ListSound(L, n, C, f)
        BY <1>1, <1>3, <2>1 DEF ListSound
    <2> QED
        BY <1>1, <1>3, <2>1, <2>2, <2>3 DEF C, L, n
<1> QED
    BY <1>5, <1>6

\* Two lists of which the second is older than the first are one list.
LEMMA Appended ==
    ASSUME NEW a \in Seq(Row), NEW m, NEW b \in Seq(Row), NEW n,
           NEW there \in SUBSET Row, NEW f,
           Len(a) > 0, ListSound(a, m, there, f), ListSound(b, n, there, f),
           \A i \in 1 .. Len(b) : Older(b[i], LastOf(a))
    PROVE  /\ a \o b \in Seq(Row)
           /\ ListSound(a \o b, n, there, f)
           /\ \A r \in there : /\ Covered(r, a, m)
                               /\ Older(r, LastOf(a)) => Covered(r, b, n)
                               => Covered(r, a \o b, n)
<1> DEFINE c == a \o b
<1>1. /\ c \in Seq(Row) /\ Len(a) \in Nat /\ Len(b) \in Nat /\ Len(c) = Len(a) + Len(b)
      /\ \A i \in 1 .. Len(a) + Len(b) : c[i] = IF i <= Len(a) THEN a[i] ELSE b[i - Len(a)]
    BY ConcatProperties, LenProperties
<1>2. /\ \A i \in 1 .. Len(a) : i \in 1 .. Len(c) /\ c[i] = a[i] /\ a[i] \in Row
      /\ \A i \in 1 .. Len(b) : /\ i + Len(a) \in 1 .. Len(c) /\ b[i] \in Row
                                /\ c[i + Len(a)] = b[i]
    <2>1. \A i \in 1 .. Len(a) : i \in 1 .. Len(c) /\ c[i] = a[i]
        <3> HIDE DEF c
        <3> QED
            BY <1>1
    <2>2. \A i \in 1 .. Len(b) : i + Len(a) \in 1 .. Len(c) /\ c[i + Len(a)] = b[i]
        <3> HIDE DEF c
        <3> TAKE i \in 1 .. Len(b)
        <3>1. i + Len(a) \in 1 .. Len(a) + Len(b) /\ ~(i + Len(a) <= Len(a))
              /\ (i + Len(a)) - Len(a) = i
            BY <1>1
        <3> QED
            BY <1>1, <3>1
    <2>3. (\A i \in 1 .. Len(a) : a[i] \in Row) /\ (\A i \in 1 .. Len(b) : b[i] \in Row)
        BY LenProperties
    <2> QED
        BY <2>1, <2>2, <2>3
<1>3. \A k \in 1 .. Len(c) : \/ k \in 1 .. Len(a) /\ c[k] = a[k]
                             \/ k - Len(a) \in 1 .. Len(b) /\ c[k] = b[k - Len(a)]
    <2> HIDE DEF c
    <2> QED
        BY <1>1
<1> HIDE DEF c
<1>4. /\ Sorted(a) /\ Sorted(b) /\ LastOf(a) = a[Len(a)] /\ Len(a) \in 1 .. Len(a)
      /\ \A i \in 1 .. Len(a) : Recorded(a[i]) /\ Matches(f, a[i])
      /\ \A i \in 1 .. Len(b) : Recorded(b[i]) /\ Matches(f, b[i])
      /\ n # Absent => Len(b) > 0 /\ n = LastOf(b).id
      /\ \A r \in there : Recorded(r) /\ Matches(f, r) /\ (r \in rows \/ Outlived(r))
      /\ \A r \in there, i \in 1 .. Len(a) : Older(r, a[i]) /\ a[i] \notin rows => r \notin rows
      /\ \A r \in there, i \in 1 .. Len(b) : Older(r, b[i]) /\ b[i] \notin rows => r \notin rows
    BY <1>1 DEF ListSound, LastOf
<1>5. \A i \in 1 .. Len(a), j \in 1 .. Len(b) : Older(b[j], a[i])
    <2> TAKE i \in 1 .. Len(a), j \in 1 .. Len(b)
    <2>1. Older(b[j], a[Len(a)]) /\ a[i] \in Row /\ a[Len(a)] \in Row /\ b[j] \in Row
        BY <1>2, <1>4
    <2>2. i = Len(a) \/ Older(a[Len(a)], a[i])
        BY <1>1, <1>4 DEF Sorted
    <2> QED
        BY <2>1, <2>2, OlderOrder
<1>6. Sorted(c)
    <2> SUFFICES ASSUME NEW i \in 1 .. Len(c), NEW j \in 1 .. Len(c), i < j
                 PROVE  Older(c[j], c[i])
        BY DEF Sorted
    <2>1. CASE i \in 1 .. Len(a) /\ j \in 1 .. Len(a)
        BY <1>2, <1>4, <2>1 DEF Sorted
    <2>2. CASE i \in 1 .. Len(a) /\ j \notin 1 .. Len(a)
        <3>1. j - Len(a) \in 1 .. Len(b) /\ c[j] = b[j - Len(a)]
            BY <1>3, <2>2
        <3> QED
            BY <1>2, <1>5, <2>2, <3>1
    <2>3. CASE i \notin 1 .. Len(a)
        <3>1. i - Len(a) \in 1 .. Len(b) /\ c[i] = b[i - Len(a)] /\ j \notin 1 .. Len(a)
            BY <1>1, <1>3, <2>3
        <3>2. j - Len(a) \in 1 .. Len(b) /\ c[j] = b[j - Len(a)] /\ i - Len(a) < j - Len(a)
            BY <1>1, <1>3, <3>1
        <3> QED
            BY <1>4, <3>1, <3>2 DEF Sorted
    <2> QED
        BY <2>1, <2>2, <2>3
<1>7. n # Absent => Len(c) > 0 /\ LastOf(c) = LastOf(b) /\ n = LastOf(c).id
    <2> SUFFICES ASSUME n # Absent PROVE Len(c) > 0 /\ LastOf(c) = LastOf(b) /\ n = LastOf(c).id
        OBVIOUS
    <2>1. Len(b) > 0 /\ Len(b) \in 1 .. Len(b)
        BY <1>1, <1>4
    <2>2. c[Len(b) + Len(a)] = b[Len(b)]
        BY <1>2, <2>1, Zenon
    <2>3. Len(b) + Len(a) = Len(c) /\ Len(c) > 0
        BY <1>1, <2>1
    <2> QED
        BY <1>4, <2>2, <2>3 DEF LastOf
<1>8. \A i \in 1 .. Len(c) : Recorded(c[i]) /\ Matches(f, c[i])
    BY <1>3, <1>4
<1>9. \A r \in there, i \in 1 .. Len(c) : Older(r, c[i]) /\ c[i] \notin rows => r \notin rows
    BY <1>3, <1>4
<1>10. ListSound(c, n, there, f)
    BY <1>4, <1>6, <1>7, <1>8, <1>9 DEF ListSound
<1>11. ASSUME NEW r \in there, Covered(r, a, m), Older(r, LastOf(a)) => Covered(r, b, n)
       PROVE  Covered(r, c, n)
    <2>1. CASE \E i \in 1 .. Len(a) : a[i] = r
        BY <1>2, <2>1 DEF Covered
    <2>2. CASE r \notin rows
        BY <2>2 DEF Covered
    <2>3. CASE \E i \in 1 .. Len(b) : b[i] = r
        BY <1>2, <2>3 DEF Covered
    <2>4. CASE n # Absent /\ Older(r, LastOf(b))
        BY <1>7, <2>4 DEF Covered
    <2>5. CASE m # Absent /\ Older(r, LastOf(a))
        BY <1>11, <2>2, <2>3, <2>4, <2>5 DEF Covered
    <2> QED
        BY <1>11, <2>1, <2>2, <2>5 DEF Covered
<1> QED
    BY <1>1, <1>10, <1>11 DEF c
-----------------------------------------------------------------------------
(* What a step leaves as it is.                                            *)

LEMMA RequestTypes ==
    ASSUME TypeOK, NEW q \in Slots
    PROVE  /\ request[q] \in Ended \cup Asked \cup Listed
           /\ request[q].pc \in {"free", "refused", "failed", "broken"} => request[q] \in Ended
           /\ request[q].pc \in {"cursor", "page"} => request[q] \in Asked
           /\ request[q].pc = "ok" => request[q] \in Listed
<1>1. request[q] \in Ended \cup Asked \cup Listed
    BY DEF TypeOK
<1> QED
    BY <1>1 DEF Ended, Asked, Listed

LEMMA SlotsAre == 0 \in Slots /\ MoreSlots \subseteq Slots /\ 0 \notin MoreSlots
BY RequestsAssumption DEF Slots, MoreSlots

LEMMA CompleteStep ==
    ASSUME TableSound, [TableNext]_tableVars,
           NEW calls \in Seq(Row), NEW next, NEW there \in SUBSET Row, NEW f,
           ListSound(calls, next, there, f), Complete(calls, next, there)
    PROVE  Complete(calls, next, there)'
<1>1. \A r \in there : Covered(r, calls, next)'
    BY ListStep DEF Complete
<1> QED
    BY <1>1 DEF Complete

LEMMA ShownKept ==
    ASSUME TypeOK, TableSound, [TableNext]_tableVars, ShownSound,
           page'.calls = page.calls, page'.next = page.next, page'.filter = page.filter,
           page'.loading = page.loading, start' = start, cut' = cut
    PROVE  ShownSound'
<1>1. page.calls \in Seq(Row) /\ start \in SUBSET Row
    BY DEF TypeOK
<1> QED
    BY <1>1, ListStep, CompleteStep DEF ShownSound

LEMMA FirstKept ==
    ASSUME TypeOK, TableSound, [TableNext]_tableVars, FirstSound,
           request'[0] = request[0], page'.filter = page.filter,
           page'.loading = page.loading
    PROVE  FirstSound'
<1>1. request[0].pc = "ok" =>
          /\ request[0].calls \in Seq(Row) /\ request[0].there \in SUBSET Row
    BY RequestTypes, SlotsAre DEF Listed
<1>2. ASSUME request[0].pc = "ok"
      PROVE  /\ ListSound(request[0].calls, request[0].next, request[0].there, page.filter)'
             /\ Complete(request[0].calls, request[0].next, request[0].there)'
    <2>1. /\ ListSound(request[0].calls, request[0].next, request[0].there, page.filter)
          /\ Complete(request[0].calls, request[0].next, request[0].there)
        BY <1>2 DEF FirstSound
    <2> QED
        BY <1>1, <1>2, <2>1, ListStep, CompleteStep
<1> QED
    BY <1>2 DEF FirstSound, Busy

LEMMA MoreKept ==
    ASSUME TypeOK, TableSound, [TableNext]_tableVars, ShownSound,
           UNCHANGED <<page, start>>, NEW q \in MoreSlots, MoreSound(q),
           \A p \in MoreSlots : request'[p].pc # "free" => request[p].pc # "free",
           request'[q] = request[q]
    PROVE  MoreSound(q)'
<1> SUFFICES ASSUME Busy(q) PROVE MoreSound(q)'
    BY DEF MoreSound, Busy
<1>1. /\ page.calls \in Seq(Row) /\ page.filter \in Filters /\ start \in SUBSET Row
      /\ \A r \in start : r \in Row
    BY DEF TypeOK
<1>2. /\ ~page.loading /\ page.next # Absent
      /\ \A p \in MoreSlots : Busy(p) => p = q
      /\ request[q].pc \in {"cursor", "page"} =>
            request[q].filter = page.filter /\ request[q].cursor = page.next
      /\ request[q].pc = "page" => request[q].after = LastOf(page.calls)
    BY DEF MoreSound
<1>3. \A p \in MoreSlots : Busy(p)' => p = q
    BY <1>2 DEF Busy
<1>4. ListSound(page.calls, page.next, start, page.filter)
    BY <1>2 DEF ShownSound
<1>5. ASSUME request[q].pc = "ok"
      PROVE  /\ ListSound(request[q].calls, request[q].next, start, page.filter)'
             /\ \A r \in start : Older(r, LastOf(page.calls)) =>
                   Covered(r, request[q].calls, request[q].next)'
    <2>1. request[q].calls \in Seq(Row)
        BY <1>5, RequestTypes, SlotsAre DEF Listed
    <2>2. /\ ListSound(request[q].calls, request[q].next, start, page.filter)
          /\ \A r \in start : Older(r, LastOf(page.calls)) =>
                Covered(r, request[q].calls, request[q].next)
        BY <1>5 DEF MoreSound
    <2> QED
        BY <1>1, <2>1, <2>2, ListStep
<1>6. ASSUME request[q].pc = "refused"
      PROVE  \A r \in start : Older(r, LastOf(page.calls)) => r \notin rows'
    BY <1>1, <1>4, <1>6, TableStep DEF MoreSound, ListSound
<1> QED
    BY <1>2, <1>3, <1>5, <1>6 DEF MoreSound

-----------------------------------------------------------------------------
(* The steps.                                                              *)

LEMMA TableSafe ==
    ASSUME IInv, [TableNext]_tableVars, UNCHANGED pageVars
    PROVE  IInv'
<1>1. UNCHANGED <<page, request, crossed, cut, start>>
    BY DEF pageVars
<1>2. TypeOK /\ TableSound /\ FirstSound /\ PageSound
    BY DEF IInv
<1>3. TypeOK' /\ TableSound' /\ FirstSound'
    BY <1>1, <1>2, TableStep, FirstKept DEF TypeOK
<1>4. PageSound'
    <2> SUFFICES ASSUME ~crossed, ~page.error
                 PROVE  /\ page.loading => ~MoreUnderWay'
                        /\ ShownSound'
                        /\ \A q \in MoreSlots : MoreSound(q)'
        BY <1>1 DEF PageSound
    <2>1. (page.loading => ~MoreUnderWay) /\ ShownSound /\ \A q \in MoreSlots : MoreSound(q)
        BY <1>2 DEF PageSound
    <2>2. page.loading => ~MoreUnderWay'
        BY <1>1, <2>1 DEF MoreUnderWay, Busy
    <2>3. ShownSound'
        BY <1>1, <1>2, <2>1, ShownKept
    <2>4. \A q \in MoreSlots : MoreSound(q)'
        BY <1>1, <1>2, <2>1, MoreKept
    <2> QED
        BY <2>2, <2>3, <2>4
<1> QED
    BY <1>3, <1>4 DEF IInv

\* A new first page is asked for: what was known of the old list is forgotten,
\* unless a Load more is under way, and then the loads have crossed.
LEMMA ChooseFilterSafe ==
    ASSUME IInv, NEW f \in Filters, ChooseFilter(f)
    PROVE  IInv'
<1>1. /\ page' = [page EXCEPT !.filter = f, !.loading = TRUE, !.error = FALSE, !.clicks = @ + 1]
      /\ request' = [request EXCEPT ![0] = Request(f, Absent)]
      /\ crossed' = MoreUnderWay /\ cut' = FALSE /\ start' = start
      /\ UNCHANGED tableVars
    BY DEF ChooseFilter, FirstRequest
<1>2. TypeOK /\ TableSound
    BY DEF IInv
<1>3. Request(f, Absent) \in Asked /\ Request(f, Absent).pc = "page"
      /\ Request(f, Absent).filter = f /\ Request(f, Absent).after = Absent
    BY DEF Request, Asked
<1> HIDE DEF Request
<1>4. /\ request' \in [Slots -> Ended \cup Asked \cup Listed]
      /\ request'[0] = Request(f, Absent)
      /\ \A q \in MoreSlots : request'[q] = request[q]
    BY <1>1, <1>2, <1>3, SlotsAre DEF TypeOK
<1>5. /\ page' \in [filter : Filters, calls : Seq(Row), next : Ids \cup {Absent},
                    loading : BOOLEAN, error : BOOLEAN, clicks : Nat]
      /\ page'.filter = f /\ page'.loading = TRUE
    <2>1. page \in [filter : Filters, calls : Seq(Row), next : Ids \cup {Absent},
                    loading : BOOLEAN, error : BOOLEAN, clicks : Nat]
          /\ page.clicks + 1 \in Nat
        BY <1>2 DEF TypeOK
    <2> QED
        BY <1>1, <2>1, Zenon
<1>6. TypeOK' /\ TableSound'
    BY <1>1, <1>2, <1>4, <1>5, TableStep DEF TypeOK, MoreUnderWay
<1>7. FirstSound'
    BY <1>3, <1>4, <1>5 DEF FirstSound, Busy
<1>8. PageSound'
    <2> SUFFICES ASSUME ~MoreUnderWay PROVE PageSound'
        BY <1>1 DEF PageSound
    <2>1. \A q \in MoreSlots : ~Busy(q)'
        BY <1>4 DEF MoreUnderWay, Busy
    <2> QED
        BY <1>5, <2>1 DEF PageSound, ShownSound, MoreUnderWay, MoreSound
<1> QED
    BY <1>6, <1>7, <1>8 DEF IInv

\* The request carries the filter and the cursor of the list it is to continue.
LEMMA LoadMoreSafe ==
    ASSUME IInv, NEW q \in MoreSlots, LoadMore(q)
    PROVE  IInv'
<1>1. /\ ~page.loading /\ page.next # Absent
      /\ request' = [request EXCEPT ![q] = Request(page.filter, page.next)]
      /\ crossed' = (crossed \/ MoreUnderWay) /\ page' = [page EXCEPT !.clicks = @ + 1]
      /\ cut' = cut /\ start' = start /\ UNCHANGED tableVars
    BY DEF LoadMore
<1>2. TypeOK /\ TableSound /\ FirstSound /\ PageSound
    BY DEF IInv
<1>3. /\ Request(page.filter, page.next) \in Asked
      /\ Request(page.filter, page.next).pc = "cursor"
      /\ Request(page.filter, page.next).filter = page.filter
      /\ Request(page.filter, page.next).cursor = page.next
    BY <1>1, <1>2 DEF Request, Asked, TypeOK
<1> HIDE DEF Request
<1>4. /\ request' \in [Slots -> Ended \cup Asked \cup Listed]
      /\ request'[q] = Request(page.filter, page.next)
      /\ \A p \in Slots : p # q => request'[p] = request[p]
    BY <1>1, <1>2, <1>3, SlotsAre DEF TypeOK
<1>5. /\ page' \in [filter : Filters, calls : Seq(Row), next : Ids \cup {Absent},
                    loading : BOOLEAN, error : BOOLEAN, clicks : Nat]
      /\ page'.filter = page.filter /\ page'.loading = page.loading
      /\ page'.calls = page.calls /\ page'.next = page.next /\ page'.error = page.error
    BY <1>1, <1>2 DEF TypeOK
<1>6. TypeOK' /\ TableSound'
    BY <1>1, <1>2, <1>4, <1>5, TableStep DEF TypeOK, MoreUnderWay
<1>7. FirstSound'
    BY <1>1, <1>2, <1>4, <1>5, SlotsAre, FirstKept
<1>8. PageSound'
    <2> SUFFICES ASSUME ~crossed, ~MoreUnderWay, ~page.error PROVE PageSound'
        BY <1>1, <1>5 DEF PageSound
    <2>1. ShownSound'
        BY <1>1, <1>2, <1>5, ShownKept DEF PageSound
    <2>2. \A p \in MoreSlots : Busy(p)' => p = q
        BY <1>4, SlotsAre DEF MoreUnderWay, Busy
    <2>3. \A p \in MoreSlots : MoreSound(p)'
        BY <1>1, <1>3, <1>4, <1>5, <2>2 DEF MoreSound
    <2> QED
        BY <1>1, <1>5, <2>1, <2>3 DEF PageSound
<1> QED
    BY <1>6, <1>7, <1>8 DEF IInv

\* A step of the server, whose answer is what is to be known of it.
LEMMA ServerSafe ==
    ASSUME IInv, NEW q \in Slots, Busy(q), UNCHANGED <<tableVars, page, crossed, cut, start>>,
           NEW a \in Ended \cup Asked \cup Listed, a.pc # "free",
           request' = [request EXCEPT ![q] = a],
           q = 0 => FirstSound',
           q \in MoreSlots /\ ~crossed /\ ~page.error /\ MoreSound(q) => MoreSound(q)'
    PROVE  IInv'
<1>1. TypeOK /\ TableSound /\ FirstSound /\ PageSound
    BY DEF IInv
<1>2. /\ request' \in [Slots -> Ended \cup Asked \cup Listed]
      /\ request'[q] = a
      /\ \A p \in Slots : p # q => request'[p] = request[p]
    BY <1>1 DEF TypeOK
<1>3. \A p \in Slots : Busy(p)' <=> Busy(p)
    BY <1>2 DEF Busy
<1>4. TypeOK' /\ TableSound'
    BY <1>1, <1>2, TableStep DEF TypeOK
<1>5. FirstSound'
    BY <1>1, <1>2, SlotsAre, FirstKept
<1>6. PageSound'
    <2> SUFFICES ASSUME ~crossed, ~page.error PROVE PageSound'
        BY DEF PageSound
    <2>1. (page.loading => ~MoreUnderWay) /\ ShownSound /\ \A p \in MoreSlots : MoreSound(p)
        BY <1>1 DEF PageSound
    <2>2. page.loading => ~MoreUnderWay'
        BY <1>3, <2>1, SlotsAre DEF MoreUnderWay
    <2>3. ShownSound'
        BY <1>1, <2>1, ShownKept
    <2>4. ASSUME NEW p \in MoreSlots, p # q PROVE MoreSound(p)'
        <3>1. request'[p] = request[p]
            BY <1>2, <2>4, SlotsAre
        <3>2. \A s \in MoreSlots : request'[s].pc # "free" => request[s].pc # "free"
            BY <1>3, SlotsAre DEF Busy
        <3> QED
            BY <1>1, <2>1, <3>1, <3>2, MoreKept
    <2>5. \A p \in MoreSlots : MoreSound(p)'
        BY <2>1, <2>4
    <2> QED
        BY <2>2, <2>3, <2>5 DEF PageSound
<1> QED
    BY <1>4, <1>5, <1>6 DEF IInv

LEMMA FailSafe ==
    ASSUME IInv, NEW q \in Slots, Fail(q) \/ Disconnect(q)
    PROVE  IInv'
<1>1. /\ request[q].pc \in {"cursor", "page"} /\ UNCHANGED <<tableVars, page, crossed, cut, start>>
      /\ \E pc \in {"failed", "broken"} : request' = [request EXCEPT ![q] = Without(pc)]
    BY DEF Fail, Disconnect
<1>2. PICK pc \in {"failed", "broken"} : request' = [request EXCEPT ![q] = Without(pc)]
    BY <1>1
<1> DEFINE a == Without(pc)
<1>3. a \in Ended /\ a.pc = pc
    BY DEF Without, Ended
<1> HIDE DEF a
<1>4. request' = [request EXCEPT ![q] = a] /\ request'[q] = a
      /\ \A p \in Slots : p # q => request'[p] = request[p]
    BY <1>2 DEF a, IInv, TypeOK
<1>5. Busy(q) /\ a.pc # "free"
    BY <1>1, <1>3 DEF Busy
<1>6. q = 0 => FirstSound'
    BY <1>1, <1>3, <1>4, <1>5 DEF IInv, FirstSound, Busy
<1>7. q \in MoreSlots /\ ~crossed /\ ~page.error /\ MoreSound(q) => MoreSound(q)'
    <2> SUFFICES ASSUME q \in MoreSlots, MoreSound(q) PROVE MoreSound(q)'
        OBVIOUS
    <2>1. ~page.loading /\ page.next # Absent /\ \A p \in MoreSlots : Busy(p) => p = q
        BY <1>5 DEF MoreSound
    <2>2. \A p \in MoreSlots : Busy(p)' => p = q
        BY <1>4, <2>1, SlotsAre DEF Busy
    <2> QED
        BY <1>1, <1>3, <1>4, <2>1, <2>2 DEF MoreSound
<1> QED
    BY <1>1, <1>3, <1>4, <1>5, <1>6, <1>7, ServerSafe

\* The row of the cursor is the last one of the list; when it is gone, so is all
\* that is older.
LEMMA ReadCursorSafe ==
    ASSUME IInv, NEW q \in Slots, ReadCursor(q)
    PROVE  IInv'
<1>1. request[q].pc = "cursor" /\ UNCHANGED <<tableVars, page, crossed, cut, start>>
    BY DEF ReadCursor
<1>2. TypeOK /\ TableSound /\ FirstSound /\ PageSound
    BY DEF IInv
<1>3. q # 0 /\ q \in MoreSlots /\ Busy(q) /\ request[q] \in Asked
    BY <1>1, <1>2, RequestTypes DEF FirstSound, MoreSlots, Busy
<1>4. /\ page.calls \in Seq(Row) /\ Len(page.calls) \in Nat /\ request \in [Slots -> Ended \cup Asked \cup Listed]
    BY <1>2, LenProperties DEF TypeOK
<1>5. ASSUME ~crossed, ~page.error, MoreSound(q)
      PROVE  /\ Recorded(LastOf(page.calls)) /\ LastOf(page.calls).id = request[q].cursor
             /\ LastOf(page.calls) \notin rows =>
                   \A r \in start : Older(r, LastOf(page.calls)) => r \notin rows
    <2>1. /\ ~page.loading /\ page.next # Absent /\ request[q].cursor = page.next
          /\ ListSound(page.calls, page.next, start, page.filter)
        BY <1>1, <1>2, <1>3, <1>5 DEF MoreSound, PageSound, ShownSound
    <2>2. Len(page.calls) \in 1 .. Len(page.calls) /\ page.next = LastOf(page.calls).id
        BY <1>4, <2>1 DEF ListSound
    <2> QED
        BY <2>1, <2>2 DEF ListSound, LastOf
<1>6. CASE CursorRows(request[q].cursor) = {}
    <2> DEFINE a == Without("refused")
    <2>1. a \in Ended /\ a.pc = "refused"
        BY DEF Without, Ended
    <2>2. request' = [request EXCEPT ![q] = a]
        BY <1>6 DEF ReadCursor
    <2> HIDE DEF a
    <2>3. request'[q] = a /\ \A p \in Slots : p # q => request'[p] = request[p]
        BY <1>4, <2>2
    <2>4. ASSUME ~crossed, ~page.error, MoreSound(q) PROVE MoreSound(q)'
        <3>1. LastOf(page.calls) \notin rows
            BY <1>5, <1>6, <2>4 DEF CursorRows
        <3>2. ~page.loading /\ page.next # Absent /\ \A p \in MoreSlots : Busy(p) => p = q
            BY <1>3, <2>4 DEF MoreSound
        <3>3. \A p \in MoreSlots : Busy(p)' => p = q
            BY <2>3, <3>2, SlotsAre DEF Busy
        <3>4. \A r \in start : Older(r, LastOf(page.calls)) => r \notin rows'
            BY <1>1, <1>5, <2>4, <3>1 DEF tableVars
        <3> QED
            BY <1>1, <2>1, <2>3, <3>2, <3>3, <3>4 DEF MoreSound
    <2> QED
        BY <1>1, <1>3, <2>1, <2>2, <2>4, ServerSafe
<1>7. CASE CursorRows(request[q].cursor) # {}
    <2>1. PICK r \in CursorRows(request[q].cursor) :
              request' = [request EXCEPT ![q].pc = "page", ![q].after = r]
        BY <1>7 DEF ReadCursor
    <2>2. r \in rows /\ r \in Row /\ r.id = request[q].cursor
        BY <1>2, <2>1 DEF CursorRows, TableSound
    <2> DEFINE a == [request[q] EXCEPT !.pc = "page", !.after = r]
    <2>3. /\ a \in Asked /\ a.pc = "page" /\ a.after = r
          /\ a.filter = request[q].filter /\ a.cursor = request[q].cursor
        BY <1>3, <2>2 DEF Asked
    <2>4. request' = [request EXCEPT ![q] = a]
        BY <1>4, <2>1
    <2> HIDE DEF a
    <2>5. request'[q] = a /\ \A p \in Slots : p # q => request'[p] = request[p]
        BY <1>4, <2>4
    <2>6. ASSUME ~crossed, ~page.error, MoreSound(q) PROVE MoreSound(q)'
        <3>1. r = LastOf(page.calls)
            BY <1>5, <2>2, <2>6 DEF Recorded
        <3>2. /\ ~page.loading /\ page.next # Absent /\ \A p \in MoreSlots : Busy(p) => p = q
              /\ request[q].filter = page.filter /\ request[q].cursor = page.next
            BY <1>1, <1>3, <2>6 DEF MoreSound
        <3>3. \A p \in MoreSlots : Busy(p)' => p = q
            BY <2>5, <3>2, SlotsAre DEF Busy
        <3> QED
            BY <1>1, <2>3, <2>5, <3>1, <3>2, <3>3 DEF MoreSound
    <2> QED
        BY <1>1, <1>3, <2>3, <2>4, <2>6, ServerSafe
<1> QED
    BY <1>6, <1>7

\* The page is what the filter and the cursor's row leave.
LEMMA ReadPageSafe ==
    ASSUME IInv, NEW q \in Slots, ReadPage(q)
    PROVE  IInv'
<1>1. /\ request[q].pc = "page" /\ UNCHANGED <<tableVars, page, crossed, cut, start>>
      /\ [TableNext]_tableVars
    BY DEF ReadPage
<1>2. TypeOK /\ TableSound /\ FirstSound /\ PageSound
    BY DEF IInv
<1>3. PICK f, after, C :
          f = request[q].filter /\ after = request[q].after /\ C = Selected(f, after)
    OBVIOUS
<1>4. PICK P \in SUBSET C :
          /\ IsPage(P, C)
          /\ request' = [request EXCEPT ![q] =
                [pc |-> "ok", calls |-> Listing(P), next |-> NextCursor(P), there |-> C]]
    BY <1>3 DEF ReadPage
<1> DEFINE L == Listing(P)
           n == NextCursor(P)
           a == [pc |-> "ok", calls |-> L, next |-> n, there |-> C]
<1>5. /\ L \in Seq(Row) /\ n \in Ids \cup {Absent}
      /\ \A i \in 1 .. Len(L) : L[i] \in C
      /\ ListSound(L, n, C, f)
      /\ Complete(L, n, C)
    BY <1>2, <1>3, <1>4, PageOf
<1>6. /\ C \subseteq rows /\ C \in SUBSET Row
      /\ \A r \in C : after = Absent \/ Older(r, after)
      /\ \A r \in rows : Matches(f, r) /\ (after = Absent \/ Older(r, after)) => r \in C
    BY <1>2, <1>3 DEF Selected, TableSound
<1>7. Busy(q) /\ a.pc = "ok" /\ a.calls = L /\ a.next = n /\ a.there = C
    BY <1>1 DEF Busy
<1> HIDE DEF L, n
<1>8. a \in Listed
    BY <1>5, <1>6 DEF Listed
<1>9. request' = [request EXCEPT ![q] = a]
    BY <1>4 DEF L, n
<1> HIDE DEF a
<1>10. request'[q] = a /\ \A p \in Slots : p # q => request'[p] = request[p]
    BY <1>2, <1>9 DEF TypeOK
<1>11. ListSound(L, n, C, f)' /\ Complete(L, n, C)'
    BY <1>1, <1>2, <1>5, <1>6, ListStep, CompleteStep
<1>12. ASSUME q = 0 PROVE FirstSound'
    <2>1. page.loading /\ f = page.filter
        BY <1>1, <1>2, <1>3, <1>7, <1>12 DEF FirstSound
    <2> QED
        BY <1>1, <1>7, <1>10, <1>11, <1>12, <2>1 DEF FirstSound, Busy
<1>13. ASSUME q \in MoreSlots, ~crossed, ~page.error, MoreSound(q)
       PROVE  MoreSound(q)'
    <2>1. /\ ~page.loading /\ page.next # Absent /\ \A p \in MoreSlots : Busy(p) => p = q
          /\ f = page.filter /\ after = LastOf(page.calls)
          /\ ListSound(page.calls, page.next, start, page.filter)
        BY <1>1, <1>2, <1>3, <1>7, <1>13 DEF MoreSound, PageSound, ShownSound
    <2>2. page.calls \in Seq(Row) /\ start \in SUBSET Row
        BY <1>2 DEF TypeOK
    <2>3. after \in Row /\ after # Absent
        <3>1. Len(page.calls) \in 1 .. Len(page.calls)
            BY <2>1, <2>2, LenProperties DEF ListSound
        <3> QED
            BY <2>1, <2>2, <3>1, LenProperties, AbsentAssumption DEF LastOf
    <2>4. \A p \in MoreSlots : Busy(p)' => p = q
        BY <1>10, <2>1, SlotsAre DEF Busy
    <2>5. \A i \in 1 .. Len(L) : L[i] \in rows /\ Older(L[i], after)
        BY <1>5, <1>6, <2>3
    <2>6. ListSound(L, n, start, f)
        BY <1>5, <2>1, <2>5 DEF ListSound
    <2>7. ListSound(L, n, start, f)'
        <3>1. PICK s : s = start
            OBVIOUS
        <3> QED
            BY <1>1, <1>2, <1>5, <2>2, <2>6, <3>1, ListStep
    <2>8. ASSUME NEW r \in start, Older(r, after) PROVE Covered(r, L, n)
        <3>1. Matches(f, r)
            BY <2>1 DEF ListSound
        <3>2. r \in rows => r \in C
            BY <1>6, <2>8, <3>1
        <3> QED
            BY <1>5, <3>2 DEF Complete, Covered
    <2>9. \A r \in start : Older(r, after) => Covered(r, L, n)'
        BY <1>1, <1>2, <1>5, <2>2, <2>6, <2>8, ListStep
    <2> QED
        BY <1>1, <1>7, <1>10, <2>1, <2>4, <2>5, <2>7, <2>9 DEF MoreSound
<1> QED
    BY <1>1, <1>7, <1>8, <1>9, <1>12, <1>13, ServerSafe

\* A first page that arrives is the list; one that fails shows the error.
LEMMA FirstPageSafe ==
    ASSUME IInv, FirstPage
    PROVE  IInv'
<1>1. /\ request' = [request EXCEPT ![0] = Free] /\ crossed' = crossed /\ cut' = cut
      /\ UNCHANGED tableVars
    BY DEF FirstPage
<1>2. TypeOK /\ TableSound /\ FirstSound /\ PageSound
    BY DEF IInv
<1>3. /\ request' \in [Slots -> Ended \cup Asked \cup Listed]
      /\ request'[0].pc = "free"
      /\ \A p \in MoreSlots : request'[p] = request[p]
    <2>1. Free \in Ended /\ Free.pc = "free"
        BY DEF Free, Ended
    <2> HIDE DEF Free
    <2> QED
        BY <1>1, <1>2, <2>1, SlotsAre DEF TypeOK
<1>4. page.loading
    BY <1>2 DEF FirstPage, Answered, FirstSound, Busy
<1>5. CASE request[0].pc = "ok"
    <2>1. /\ page' = [page EXCEPT !.calls = request[0].calls, !.next = request[0].next,
                                  !.loading = FALSE]
          /\ start' = request[0].there
        BY <1>5 DEF FirstPage
    <2>2. request[0].calls \in Seq(Row) /\ request[0].next \in Ids \cup {Absent}
          /\ request[0].there \in SUBSET Row
        BY <1>2, <1>5, RequestTypes, SlotsAre DEF Listed
    <2>3. /\ page' \in [filter : Filters, calls : Seq(Row), next : Ids \cup {Absent},
                        loading : BOOLEAN, error : BOOLEAN, clicks : Nat]
          /\ page'.filter = page.filter /\ page'.loading = FALSE /\ page'.error = page.error
          /\ page'.calls = request[0].calls /\ page'.next = request[0].next
        <3>1. page \in [filter : Filters, calls : Seq(Row), next : Ids \cup {Absent},
                        loading : BOOLEAN, error : BOOLEAN, clicks : Nat]
            BY <1>2 DEF TypeOK
        <3> QED
            BY <2>1, <2>2, <3>1, Zenon
    <2>4. TypeOK' /\ TableSound'
        BY <1>1, <1>2, <1>3, <2>1, <2>2, <2>3, TableStep DEF TypeOK
    <2>5. FirstSound'
        BY <1>3, <2>3 DEF FirstSound, Busy
    <2>6. PICK calls, next, there, f :
              /\ calls = request[0].calls /\ next = request[0].next
              /\ there = request[0].there /\ f = page.filter
        OBVIOUS
    <2>7. ListSound(calls, next, there, f) /\ Complete(calls, next, there)
        BY <1>2, <1>5, <2>6 DEF FirstSound
    <2>8. ListSound(calls, next, there, f)' /\ Complete(calls, next, there)'
        BY <1>1, <1>2, <2>2, <2>6, <2>7, ListStep, CompleteStep
    <2>9. ShownSound'
        BY <2>1, <2>3, <2>6, <2>8 DEF ShownSound
    <2>10. PageSound'
        <3> SUFFICES ASSUME ~crossed, ~page.error PROVE PageSound'
            BY <1>1, <2>3 DEF PageSound
        <3>1. ~MoreUnderWay'
            BY <1>2, <1>3, <1>4 DEF PageSound, MoreUnderWay, Busy
        <3> QED
            BY <2>3, <2>9, <3>1 DEF PageSound, MoreSound, MoreUnderWay
    <2> QED
        BY <2>4, <2>5, <2>10 DEF IInv
<1>6. CASE request[0].pc # "ok"
    <2>1. page' = [page EXCEPT !.error = TRUE, !.loading = FALSE] /\ start' = start
        BY <1>6 DEF FirstPage
    <2>2. /\ page' \in [filter : Filters, calls : Seq(Row), next : Ids \cup {Absent},
                        loading : BOOLEAN, error : BOOLEAN, clicks : Nat]
          /\ page'.error = TRUE /\ page'.loading = FALSE
        <3>1. page \in [filter : Filters, calls : Seq(Row), next : Ids \cup {Absent},
                        loading : BOOLEAN, error : BOOLEAN, clicks : Nat]
            BY <1>2 DEF TypeOK
        <3> QED
            BY <2>1, <3>1, Zenon
    <2>3. TypeOK' /\ TableSound'
        BY <1>1, <1>2, <1>3, <2>1, <2>2, TableStep DEF TypeOK
    <2>4. FirstSound'
        BY <1>3, <2>2 DEF FirstSound, Busy
    <2>5. PageSound'
        BY <2>2 DEF PageSound
    <2> QED
        BY <2>3, <2>4, <2>5 DEF IInv
<1> QED
    BY <1>5, <1>6

\* The page that arrives continues the list, which has not changed since it was
\* asked for; an error answer ends the list, and is remembered as a cut.
LEMMA MorePageSafe ==
    ASSUME IInv, NEW q \in Slots, MorePage(q)
    PROVE  IInv'
<1>1. /\ q # 0 /\ q \in MoreSlots /\ Busy(q)
      /\ request[q].pc \in {"ok", "refused", "failed", "broken"}
      /\ page' = IF request[q].pc = "broken"
                 THEN [page EXCEPT !.error = TRUE]
                 ELSE [page EXCEPT !.calls = ListWith(q), !.next = CursorOf(q)]
      /\ cut' = (cut \/ request[q].pc = "failed")
      /\ request' = [request EXCEPT ![q] = Free]
      /\ crossed' = crossed /\ start' = start /\ UNCHANGED tableVars
    BY DEF MorePage, Answered, MoreSlots, Busy
<1>2. TypeOK /\ TableSound /\ FirstSound /\ PageSound
    BY DEF IInv
<1>3. /\ request' \in [Slots -> Ended \cup Asked \cup Listed]
      /\ request'[q].pc = "free"
      /\ \A p \in Slots : p # q => request'[p] = request[p]
    <2>1. Free \in Ended /\ Free.pc = "free"
        BY DEF Free, Ended
    <2> HIDE DEF Free
    <2> QED
        BY <1>1, <1>2, <2>1 DEF TypeOK
<1>4. /\ page \in [filter : Filters, calls : Seq(Row), next : Ids \cup {Absent},
                   loading : BOOLEAN, error : BOOLEAN, clicks : Nat]
      /\ page.calls \in Seq(Row) /\ start \in SUBSET Row /\ cut \in BOOLEAN
    BY <1>2 DEF TypeOK
<1>5. request[q].pc = "ok" =>
          request[q].calls \in Seq(Row) /\ request[q].next \in Ids \cup {Absent}
    BY <1>2, RequestTypes DEF Listed
<1>6. ListWith(q) \in Seq(Row) /\ CursorOf(q) \in Ids \cup {Absent}
    BY <1>4, <1>5, ConcatProperties DEF ListWith, CursorOf
<1>7. CASE request[q].pc = "broken"
    <2>1. /\ page' \in [filter : Filters, calls : Seq(Row), next : Ids \cup {Absent},
                        loading : BOOLEAN, error : BOOLEAN, clicks : Nat]
          /\ page'.filter = page.filter /\ page'.loading = page.loading /\ page'.error = TRUE
        BY <1>1, <1>4, <1>7, Zenon
    <2>2. TypeOK' /\ TableSound' /\ FirstSound'
        BY <1>1, <1>2, <1>3, <1>4, <2>1, SlotsAre, TableStep, FirstKept DEF TypeOK
    <2> QED
        BY <2>1, <2>2 DEF IInv, PageSound
<1>8. CASE request[q].pc # "broken"
    <2>1. /\ page' \in [filter : Filters, calls : Seq(Row), next : Ids \cup {Absent},
                        loading : BOOLEAN, error : BOOLEAN, clicks : Nat]
          /\ page'.filter = page.filter /\ page'.loading = page.loading
          /\ page'.error = page.error
          /\ page'.calls = ListWith(q) /\ page'.next = CursorOf(q)
        BY <1>1, <1>4, <1>6, <1>8, Zenon
    <2>2. TypeOK' /\ TableSound' /\ FirstSound'
        BY <1>1, <1>2, <1>3, <1>4, <2>1, SlotsAre, TableStep, FirstKept DEF TypeOK
    <2>3. PageSound'
        <3> SUFFICES ASSUME ~crossed, ~page.error PROVE PageSound'
            BY <1>1, <2>1 DEF PageSound
        <3>1. MoreSound(q) /\ ShownSound
            BY <1>1, <1>2 DEF PageSound
        <3>2. /\ ~page.loading /\ page.next # Absent /\ \A p \in MoreSlots : Busy(p) => p = q
              /\ ListSound(page.calls, page.next, start, page.filter)
              /\ ~cut => Complete(page.calls, page.next, start)
            BY <1>1, <3>1 DEF MoreSound, ShownSound
        <3>3. \A p \in MoreSlots : ~Busy(p)'
            BY <1>3, <3>2, SlotsAre DEF Busy
        <3>4. PICK calls, next, there, f :
                  /\ calls = ListWith(q) /\ next = CursorOf(q)
                  /\ there = start /\ f = page.filter
            OBVIOUS
        <3>5. ListSound(calls, next, there, f) /\ (~cut' => Complete(calls, next, there))
            <4>1. CASE request[q].pc = "ok"
                <5>1. /\ ListSound(request[q].calls, request[q].next, start, page.filter)
                      /\ \A i \in 1 .. Len(request[q].calls) :
                            Older(request[q].calls[i], LastOf(page.calls))
                      /\ \A r \in start : Older(r, LastOf(page.calls)) =>
                            Covered(r, request[q].calls, request[q].next)
                    BY <1>1, <3>1, <4>1 DEF MoreSound
                <5>2. Len(page.calls) > 0
                    BY <3>2 DEF ListSound
                <5>3. calls = page.calls \o request[q].calls /\ next = request[q].next
                    BY <3>4, <4>1 DEF ListWith, CursorOf
                <5>4. /\ ListSound(calls, next, start, page.filter)
                      /\ \A r \in start : Covered(r, page.calls, page.next) => Covered(r, calls, next)
                    BY <1>4, <1>5, <3>2, <4>1, <5>1, <5>2, <5>3, Appended
                <5> QED
                    BY <1>1, <3>2, <3>4, <5>4 DEF Complete
            <4>2. CASE request[q].pc = "refused"
                <5>1. calls = page.calls /\ next = Absent
                    BY <3>4, <4>2 DEF ListWith, CursorOf
                <5>2. ListSound(calls, next, start, page.filter)
                    BY <3>2, <5>1 DEF ListSound
                <5>3. \A r \in start : Older(r, LastOf(page.calls)) => r \notin rows
                    BY <1>1, <3>1, <4>2 DEF MoreSound
                <5>4. Complete(page.calls, page.next, start) => Complete(calls, next, start)
                    BY <5>1, <5>3 DEF Complete, Covered
                <5> QED
                    BY <1>1, <3>2, <3>4, <5>2, <5>4
            <4>3. CASE request[q].pc = "failed"
                <5>1. calls = page.calls /\ next = Absent /\ cut'
                    BY <1>1, <3>4, <4>3 DEF ListWith, CursorOf
                <5> QED
                    BY <3>2, <3>4, <5>1 DEF ListSound
            <4> QED
                BY <1>1, <1>8, <4>1, <4>2, <4>3
        <3>6. ListSound(calls, next, there, f)' /\ (~cut' => Complete(calls, next, there)')
            BY <1>1, <1>2, <1>4, <1>6, <3>4, <3>5, ListStep, CompleteStep
        <3>7. ShownSound'
            BY <1>1, <2>1, <3>4, <3>6 DEF ShownSound
        <3> QED
            BY <2>1, <3>2, <3>3, <3>7 DEF PageSound, MoreSound, MoreUnderWay
    <2> QED
        BY <2>2, <2>3 DEF IInv
<1> QED
    BY <1>7, <1>8

-----------------------------------------------------------------------------
(* The theorems.                                                           *)

LEMMA InitSafe ==
    ASSUME Init
    PROVE  IInv
<1>1. PICK f \in Filters :
          /\ page = [filter |-> f, calls |-> << >>, next |-> Absent, loading |-> TRUE,
                     error |-> FALSE, clicks |-> 0]
          /\ request = [q \in Slots |-> IF q = 0 THEN Request(f, Absent) ELSE Free]
    BY DEF Init
<1>2. now = OpenedAt /\ rows \in Table /\ used = {r.id : r \in rows} /\ pending = {}
      /\ crossed = FALSE /\ cut = FALSE /\ start = {}
    BY DEF Init
<1>3. TableSound
    <2>1. rows \subseteq Row /\ IsFiniteSet(rows) /\ \A x, y \in rows : x.id = y.id => x = y
        BY <1>2, TableAssumption
    <2>2. \A x \in rows : Recorded(x)
        BY <1>2, <2>1 DEF Recorded
    <2> QED
        BY <1>2, <2>1, <2>2, TableAssumption DEF TableSound
<1>4. /\ Request(f, Absent) \in Asked /\ Request(f, Absent).pc = "page"
      /\ Request(f, Absent).filter = f /\ Request(f, Absent).after = Absent
      /\ Free \in Ended /\ Free.pc = "free"
    BY DEF Request, Asked, Free, Ended
<1> HIDE DEF Request, Free
<1>5. /\ request \in [Slots -> Ended \cup Asked \cup Listed]
      /\ request[0] = Request(f, Absent)
      /\ \A q \in MoreSlots : request[q].pc = "free"
    BY <1>1, <1>4, SlotsAre
<1>6. TypeOK
    <2>1. << >> \in Seq(Row)
        BY EmptySeq
    <2> QED
        BY <1>1, <1>2, <1>5, <2>1 DEF TypeOK
<1>7. FirstSound
    BY <1>1, <1>4, <1>5 DEF FirstSound, Busy
<1>8. PageSound
    BY <1>1, <1>5 DEF PageSound, ShownSound, MoreSound, MoreUnderWay, Busy
<1> QED
    BY <1>3, <1>6, <1>7, <1>8 DEF IInv

LEMMA NextSafe ==
    ASSUME IInv, [Next]_vars
    PROVE  IInv'
<1>1. CASE TableNext /\ UNCHANGED pageVars
    BY <1>1, TableSafe
<1>2. CASE \E f \in Filters : ChooseFilter(f)
    BY <1>2, ChooseFilterSafe
<1>3. CASE \E q \in MoreSlots : LoadMore(q)
    BY <1>3, LoadMoreSafe
<1>4. CASE \E q \in Slots : Serve(q) \/ Fail(q) \/ Disconnect(q)
    BY <1>4, ReadCursorSafe, ReadPageSafe, FirstPageSafe, MorePageSafe, FailSafe DEF Serve
<1>5. CASE UNCHANGED vars
    BY <1>5, TableSafe DEF vars
<1> QED
    BY <1>1, <1>2, <1>3, <1>4, <1>5 DEF Next

\* The inductive invariant, which names what every request under way knows
\* (History.jsx over ListToolCalls, history_repo.go).
THEOREM Invariance == Spec => []IInv
<1>1. Init => IInv
    BY InitSafe
<1>2. IInv /\ [Next]_vars => IInv'
    BY NextSafe
<1> QED
    BY <1>1, <1>2, PTL DEF Spec

\* What the history page lists are calls of the filter it shows, newest first
\* and none twice, unless its loads crossed (setCalls, History.jsx).
THEOREM ListsAreOfFilter == Spec => []ListIsOfFilter
<1>1. IInv => ListIsOfFilter
    <2> SUFFICES ASSUME IInv, Shown, ~crossed PROVE ListIsOfFilter
        BY DEF ListIsOfFilter
    <2>1. ListSound(page.calls, page.next, start, page.filter)
        BY DEF IInv, PageSound, ShownSound, Shown
    <2>2. DOMAIN page.calls = 1 .. Len(page.calls)
        BY LenProperties DEF IInv, TypeOK
    <2> QED
        BY <2>1, <2>2 DEF ListIsOfFilter, ListSound, Sorted
<1> QED
    BY <1>1, Invariance, PTL

\* A history page that offers no more has shown every call there was, but for
\* those past the retention (next, ListToolCalls; setNext, History.jsx).
THEOREM EndsAreEnds == Spec => []EndIsTheEnd
<1>1. IInv => EndIsTheEnd
    <2> SUFFICES ASSUME IInv, Shown, ~crossed, ~cut, page.next = Absent PROVE EndIsTheEnd
        BY DEF EndIsTheEnd
    <2>1. /\ ListSound(page.calls, page.next, start, page.filter)
          /\ Complete(page.calls, page.next, start)
        BY DEF IInv, PageSound, ShownSound, Shown
    <2>2. DOMAIN page.calls = 1 .. Len(page.calls)
        BY LenProperties DEF IInv, TypeOK
    <2>3. \A r \in start : r \in rows \/ Outlived(r)
        BY <2>1 DEF ListSound
    <2> QED
        BY <2>1, <2>2, <2>3 DEF EndIsTheEnd, Complete, Covered
<1> QED
    BY <1>1, Invariance, PTL
=============================================================================
