--------------------------- MODULE FetcherProofs ---------------------------
(***************************************************************************)
(* Proofs about Fetcher: for any number of agents, URLs and calls, every   *)
(* origin, page size, budget and time to live, an agent gets only what a   *)
(* call of its own has read, no answer is older than the time to live and  *)
(* one exchange, and a call that succeeds leaves its answer in a cache.    *)
(* And about Pages and Walk: for every UTF-8 text of any length and every  *)
(* page size, the pages an agent follows are text, put together they are   *)
(* the document, and it does not matter which of them came from the        *)
(* snapshot; and the recorder's preview is the longest there is.           *)
(***************************************************************************)
EXTENDS Fetcher, Walk, FiniteSetTheorems, SequenceTheorems, TLAPS

-----------------------------------------------------------------------------
(* The largest and the smallest of some numbers.                           *)

LEMMA MaxOfInterval ==
    ASSUME NEW n \in Nat, NEW S, S \subseteq 0 .. n, S # {}
    PROVE  Max(S) \in S /\ \A x \in S : x <= Max(S)
<1> DEFINE T == {n - x : x \in S}
<1>1. T \subseteq Nat /\ T # {}
    <2>1. \A x \in S : n - x \in Nat
        OBVIOUS
    <2> QED
        BY <2>1
<1>2. \A y \in T : \E x \in S : y = n - x
    OBVIOUS
<1>3. \A x \in S : n - x \in T
    OBVIOUS
<1> HIDE DEF T
<1>4. PICK m \in T : \A y \in T : <<y, m>> \notin OpToRel(<, Nat)
    BY <1>1, NatLessThanWellFounded, WFMin
<1>5. \A y \in T : m <= y
    <2> SUFFICES ASSUME NEW y \in T, y < m PROVE FALSE
        BY <1>1
    <2>1. <<y, m>> \in OpToRel(<, Nat)
        BY <1>1 DEF OpToRel
    <2> QED
        BY <2>1, <1>4
<1>6. PICK x \in S : m = n - x
    BY <1>2
<1>7. \A y \in S : x >= y
    BY <1>3, <1>5, <1>6
<1> QED
    BY <1>6, <1>7 DEF Max

LEMMA MaxOfTwo ==
    ASSUME NEW a \in Int, NEW b \in Int
    PROVE  Max({a, b}) = IF a >= b THEN a ELSE b
<1>1. \E x \in {a, b} : \A y \in {a, b} : x >= y
    OBVIOUS
<1>2. Max({a, b}) \in {a, b} /\ \A y \in {a, b} : Max({a, b}) >= y
    BY <1>1 DEF Max
<1> QED
    BY <1>2

LEMMA MinOfTwo ==
    ASSUME NEW a \in Int, NEW b \in Int
    PROVE  Min({a, b}) = IF a <= b THEN a ELSE b
<1>1. \E x \in {a, b} : \A y \in {a, b} : x =< y
    OBVIOUS
<1>2. Min({a, b}) \in {a, b} /\ \A y \in {a, b} : Min({a, b}) =< y
    BY <1>1 DEF Min
<1> QED
    BY <1>2

-----------------------------------------------------------------------------
(* The cut.                                                                *)

\* What a document is, byte by byte.
LEMMA DocumentBytes ==
    ASSUME NEW d, IsDocument(d)
    PROVE  /\ Len(d) \in Nat
           /\ \A i \in 1 .. Len(d) : d[i] \in Nat /\ d[i] <= i
           /\ \A i \in 1 .. Len(d) : d[i] > 0 => \A j \in (i - d[i] + 1) .. (i - 1) : d[j] = 0
<1>1. Len(d) \in Nat /\ \A i \in 1 .. Len(d) : d[i] \in 0 .. UTFMax
    BY LenProperties DEF IsDocument
<1>2. \A i \in 1 .. Len(d) : d[i] \in Nat
    BY <1>1 DEF UTFMax
<1>3. \A i \in 1 .. Len(d) : d[i] <= i
    <2> TAKE i \in 1 .. Len(d)
    <2>1. CASE d[i] > 0
        BY <2>1 DEF IsDocument
    <2>2. CASE ~(d[i] > 0)
        BY <1>1, <1>2, <2>2
    <2> QED
        BY <2>1, <2>2
<1> QED
    BY <1>1, <1>2, <1>3 DEF IsDocument

\* A text ends between two runes.
LEMMA TextEnds ==
    ASSUME NEW d, IsText(d)
    PROVE  IsDocument(d) /\ Boundary(d, Len(d))
<1>1. IsDocument(d) /\ Len(d) \in Nat
    BY DocumentBytes DEF IsText
<1>2. CASE Len(d) # 0
    <2>1. \E i \in Len(d) .. Len(d) : d[i] > i - Len(d)
        BY <1>1, <1>2 DEF IsText
    <2>2. d[Len(d)] > 0
        BY <1>1, <2>1
    <2> QED
        BY <1>1, <2>2 DEF Boundary
<1> QED
    BY <1>1, <1>2 DEF Boundary

\* The cut of a slice that starts between two runes ends between two runes, and
\* keeps all of a slice that does.
LEMMA CutIsBoundary ==
    ASSUME NEW d, IsDocument(d), NEW from \in 0 .. Len(d), Boundary(d, from),
           NEW n \in 0 .. Len(d) - from
    PROVE  /\ Cut(d, from, n) \in 0 .. n
           /\ Boundary(d, from + Cut(d, from, n))
           /\ Boundary(d, from + n) => Cut(d, from, n) = n
<1> DEFINE S == {0} \cup {m \in 1 .. n : Decodable(d, from, m)}
           kept == Cut(d, from, n)
<1>1. Len(d) \in Nat /\ from \in Nat /\ n \in Nat /\ from + n <= Len(d)
    BY DocumentBytes
<1>2. \A i \in 1 .. Len(d) : d[i] \in Nat /\ d[i] <= i
    BY DocumentBytes
<1>3. S \subseteq 0 .. n /\ S # {} /\ kept = Max(S)
    BY <1>1 DEF Cut
<1>4. \A m \in S : m = 0 \/ (m \in 1 .. n /\ d[from + m] \in 1 .. m)
    BY DEF Decodable
<1>5. Boundary(d, from + n) /\ n > 0 => n \in S
    <2> SUFFICES ASSUME Boundary(d, from + n), n > 0 PROVE d[from + n] \in 1 .. n
        BY <1>1 DEF Decodable
    <2> DEFINE i == from + n
               w == d[i]
    <2>1. i \in 1 .. Len(d) /\ i # 0 /\ i > from
        BY <1>1
    <2>2. w > 0 /\ w \in Nat /\ w <= i
        BY <1>2, <2>1 DEF Boundary
    <2>3. \A j \in (i - w + 1) .. (i - 1) : d[j] = 0
        BY <2>1, <2>2, DocumentBytes
    <2>4. CASE from = 0
        BY <1>1, <2>2, <2>4
    <2>5. CASE from # 0
        <3>1. d[from] > 0 /\ from \in 1 .. Len(d) /\ d[from] # 0
            BY <1>1, <1>2, <2>5 DEF Boundary
        <3>2. from \notin (i - w + 1) .. (i - 1)
            BY <2>3, <3>1
        <3> HIDE DEF w
        <3>3. from < i - w + 1
            BY <1>1, <2>1, <2>2, <3>2
        <3> QED
            BY <1>1, <2>2, <3>3 DEF w
    <2> QED
        BY <2>4, <2>5
<1> HIDE DEF S, kept
<1>6. kept \in S /\ \A m \in S : m <= kept
    BY <1>1, <1>3, MaxOfInterval
<1>7. kept \in 0 .. n
    BY <1>3, <1>6
<1>8. Boundary(d, from + kept)
    <2>1. CASE kept = 0
        BY <1>1, <2>1
    <2>2. CASE kept # 0
        <3>1. d[from + kept] \in 1 .. kept
            BY <1>4, <1>6, <2>2
        <3> QED
            BY <1>7, <3>1 DEF Boundary
    <2> QED
        BY <2>1, <2>2
<1>9. Boundary(d, from + n) => kept = n
    BY <1>1, <1>5, <1>6, <1>7
<1> QED
    BY <1>7, <1>8, <1>9 DEF kept
-----------------------------------------------------------------------------
(* The pages of a text.                                                    *)

\* A page taken between two runes, from wherever, ends between two runes, and
\* says where the document goes on or that it does not.
LEMMA PageOfText ==
    ASSUME NEW d, IsText(d), NEW start \in 0 .. Len(d), Boundary(d, start),
           NEW max \in Nat \ {0}
    PROVE  /\ PageFromStream(d, start, max) = PageFrom(d, Len(d), start, max)
           /\ \E n \in 0 .. Len(d) - start :
                 /\ Boundary(d, start + n)
                 /\ \/ PageFrom(d, Len(d), start, max) = Page(start, n, TRUE)
                    \/ /\ PageFrom(d, Len(d), start, max) = Page(start, n, FALSE)
                       /\ start + n = Len(d)
<1> DEFINE size == Len(d)
           rest == size - start
<1>1. IsDocument(d) /\ size \in Nat /\ start \in Nat /\ Boundary(d, size)
      /\ rest \in Nat /\ max \in Nat /\ ~(size < start) /\ start + rest = size
    BY TextEnds, DocumentBytes
<1>2. ReadChunk(size, start, max) = IF rest <= max + 1 THEN rest ELSE max + 1
    <2>1. ReadChunk(size, start, max) = Min({rest, max + 1})
        BY <1>1 DEF ReadChunk
    <2> HIDE DEF size, rest
    <2> QED
        BY <1>1, <2>1, MinOfTwo
<1>3. CASE rest > max
    <2>1. ReadChunk(size, start, max) = max + 1
        <3> HIDE DEF size, rest
        <3> QED
            BY <1>1, <1>2, <1>3
    <2>2. Min({max + 1, max}) = max /\ Min({max, rest}) = max
        <3> HIDE DEF size, rest
        <3>1. max + 1 \in Int /\ ~(max + 1 <= max) /\ max <= rest
            BY <1>1, <1>3
        <3> QED
            BY <1>1, <3>1, MinOfTwo
    <2> DEFINE n == Cut(d, start, max)
    <2>3. max + 1 > max /\ size > start + max /\ ~(size <= start)
        BY <1>1, <1>3
    <2>4. PageFromStream(d, start, max) = Page(start, n, TRUE)
        BY <2>1, <2>2, <2>3 DEF PageFromStream
    <2>5. PageFrom(d, size, start, max) = Page(start, n, TRUE)
        BY <2>2, <2>3 DEF PageFrom
    <2>6. n \in 0 .. max /\ Boundary(d, start + n)
        <3>1. max \in 0 .. Len(d) - start
            BY <1>1, <1>3
        <3> QED
            BY <1>1, <3>1, CutIsBoundary
    <2> HIDE DEF n
    <2>7. n \in 0 .. Len(d) - start
        BY <1>1, <1>3, <2>6
    <2> QED
        BY <2>4, <2>5, <2>6, <2>7
<1>4. CASE ~(rest > max)
    <2>1. ReadChunk(size, start, max) = rest
        <3> HIDE DEF size, rest
        <3> QED
            BY <1>1, <1>2, <1>4
    <2>2. Min({rest, max}) = rest /\ Min({max, rest}) = rest
        <3> HIDE DEF size, rest
        <3>1. rest <= max
            BY <1>1, <1>4
        <3>2. Min({rest, max}) = rest
            BY <1>1, <3>1, MinOfTwo
        <3>3. {max, rest} = {rest, max}
            OBVIOUS
        <3> QED
            BY <3>2, <3>3
    <2>3. Cut(d, start, rest) = rest
        <3>1. rest \in 0 .. Len(d) - start /\ Boundary(d, start + rest)
            BY <1>1
        <3> QED
            BY <1>1, <3>1, CutIsBoundary
    <2>4. (rest > max) = FALSE /\ (size > start + max) = FALSE
        BY <1>1, <1>4
    <2>5. PageFromStream(d, start, max) = Page(start, rest, FALSE)
        BY <2>1, <2>2, <2>3, <2>4 DEF PageFromStream
    <2>6. PageFrom(d, size, start, max) = Page(start, rest, FALSE)
        <3>1. CASE size <= start
            <4>1. \A a, b \in Nat : a <= b /\ ~(a < b) => a - b = 0
                OBVIOUS
            <4>2. rest = 0
                BY <1>1, <3>1, <4>1
            <4> QED
                BY <3>1, <4>2 DEF PageFrom
        <3>2. CASE ~(size <= start)
            BY <2>2, <2>4, <3>2 DEF PageFrom
        <3> QED
            BY <3>1, <3>2
    <2>7. rest \in 0 .. Len(d) - start /\ Boundary(d, start + rest) /\ start + rest = Len(d)
        BY <1>1
    <2> HIDE DEF rest
    <2> QED
        BY <2>5, <2>6, <2>7
<1> QED
    BY <1>3, <1>4

\* A preview is the longest prefix within the limit that ends between two runes.
LEMMA PreviewOfText ==
    ASSUME NEW d, IsText(d), NEW limit \in Nat
    PROVE  /\ TruncateUTF8(d, limit).bytes
                 = Max({n \in 0 .. Min({limit, Len(d)}) : Boundary(d, n)})
           /\ TruncateUTF8(d, limit).truncated <=> TruncateUTF8(d, limit).bytes < Len(d)
<1> DEFINE size == Len(d)
           S(m) == {n \in 0 .. m : Boundary(d, n)}
<1>1. IsDocument(d) /\ size \in Nat /\ Boundary(d, size)
    BY TextEnds, DocumentBytes
<1>2. Min({limit, size}) = IF limit <= size THEN limit ELSE size
    BY <1>1, MinOfTwo
<1>3. CASE size <= limit
    <2>1. Min({limit, size}) = size
        <3> HIDE DEF size
        <3> QED
            BY <1>1, <1>2, <1>3
    <2>2. size \in S(size) /\ S(size) \subseteq 0 .. size /\ S(size) # {}
        BY <1>1
    <2>3. Max(S(size)) = size
        <3> HIDE DEF S
        <3>1. Max(S(size)) \in S(size) /\ \A x \in S(size) : x <= Max(S(size))
            BY <1>1, <2>2, MaxOfInterval
        <3> HIDE DEF size
        <3> QED
            BY <1>1, <2>2, <3>1
    <2>4. TruncateUTF8(d, limit) = [bytes |-> size, truncated |-> FALSE]
        BY <1>3 DEF TruncateUTF8
    <2>5. ~(size < size)
        BY <1>1
    <2>6. TruncateUTF8(d, limit).bytes = size /\ ~TruncateUTF8(d, limit).truncated
        <3>1. TruncateUTF8(d, limit).bytes = size
            BY <2>4
        <3>2. TruncateUTF8(d, limit).truncated = FALSE
            BY <2>4
        <3> QED
            BY <3>1, <3>2
    <2>7. Max({n \in 0 .. Min({limit, Len(d)}) : Boundary(d, n)}) = size
        BY <2>1, <2>3
    <2> QED
        BY <2>5, <2>6, <2>7
<1>4. CASE ~(size <= limit)
    <2>1. Min({limit, size}) = limit
        <3> HIDE DEF size
        <3> QED
            BY <1>1, <1>2, <1>4
    <2>2. \A n \in 1 .. limit : Boundary(d, n) <=> Decodable(d, 0, n)
        <3> TAKE n \in 1 .. limit
        <3>1. n \in 1 .. Len(d) /\ n # 0 /\ 0 + n = n
            BY <1>1, <1>4
        <3>2. d[n] \in Nat /\ d[n] <= n
            BY <1>1, <3>1, DocumentBytes
        <3> QED
            BY <3>1, <3>2 DEF Boundary, Decodable
    <2>3. S(limit) = {0} \cup {n \in 1 .. limit : Decodable(d, 0, n)}
        <3>1. \A n \in 0 .. limit : n = 0 \/ n \in 1 .. limit
            OBVIOUS
        <3>2. Boundary(d, 0) /\ 0 \in 0 .. limit
            BY DEF Boundary
        <3> QED
            BY <2>2, <3>1, <3>2
    <2>4. Cut(d, 0, limit) = Max(S(limit))
        BY <2>3 DEF Cut
    <2>5. Cut(d, 0, limit) \in 0 .. limit
        <3>1. 0 \in 0 .. Len(d) /\ limit \in 0 .. Len(d) - 0 /\ Boundary(d, 0)
            BY <1>1, <1>4 DEF Boundary
        <3> QED
            BY <1>1, <3>1, CutIsBoundary
    <2>6. TruncateUTF8(d, limit) = [bytes |-> Cut(d, 0, limit), truncated |-> TRUE]
        BY <1>4 DEF TruncateUTF8
    <2>7. Cut(d, 0, limit) < size
        BY <1>1, <1>4, <2>5
    <2>8. TruncateUTF8(d, limit).bytes = Cut(d, 0, limit) /\ TruncateUTF8(d, limit).truncated
        <3>1. TruncateUTF8(d, limit).bytes = Cut(d, 0, limit)
            BY <2>6
        <3>2. TruncateUTF8(d, limit).truncated = TRUE
            BY <2>6
        <3> QED
            BY <3>1, <3>2
    <2>9. Max({n \in 0 .. Min({limit, Len(d)}) : Boundary(d, n)}) = Cut(d, 0, limit)
        BY <2>1, <2>4
    <2> QED
        BY <2>7, <2>8, <2>9
<1> QED
    BY <1>3, <1>4

-----------------------------------------------------------------------------
(* Pages fit a page.                                                       *)

\* cutToUTF8Boundary keeps at most what it is given.
LEMMA CutFits ==
    ASSUME NEW d, NEW from, NEW n \in Nat
    PROVE  Cut(d, from, n) \in 0 .. n
<1> DEFINE S == {0} \cup {m \in 1 .. n : Decodable(d, from, m)}
<1>1. S \subseteq 0 .. n /\ S # {}
    OBVIOUS
<1> HIDE DEF S
<1>2. Max(S) \in 0 .. n
    BY <1>1, MaxOfInterval
<1> QED
    BY <1>2 DEF Cut, S

\* Whichever way a page is made, it has at most maxBytes bytes.
LEMMA PagesFit ==
    ASSUME NEW d, NEW size \in Nat, NEW from \in Nat, NEW maxBytes \in Nat
    PROVE  /\ PageFrom(d, size, from, maxBytes).bytes \in 0 .. maxBytes
           /\ Len(d) \in Nat => PageFromStream(d, from, maxBytes).bytes \in 0 .. maxBytes
<1>1. PageFrom(d, size, from, maxBytes).bytes \in 0 .. maxBytes
    <2>1. CASE size <= from
        BY <2>1 DEF PageFrom, Page
    <2>2. CASE ~(size <= from)
        <3> DEFINE n == Min({maxBytes, size - from})
                   truncated == size > from + maxBytes
        <3>1. n \in 0 .. maxBytes
            BY <2>2, MinOfTwo
        <3>2. Cut(d, from, n) \in 0 .. maxBytes
            BY <3>1, CutFits
        <3>3. PageFrom(d, size, from, maxBytes)
                 = Page(from, IF truncated THEN Cut(d, from, n) ELSE n, truncated)
            BY <2>2 DEF PageFrom
        <3> HIDE DEF n, truncated
        <3> QED
            BY <3>1, <3>2, <3>3 DEF Page
    <2> QED
        BY <2>1, <2>2
<1>2. ASSUME Len(d) \in Nat
      PROVE  PageFromStream(d, from, maxBytes).bytes \in 0 .. maxBytes
    <2> DEFINE read == ReadChunk(Len(d), from, maxBytes)
    <2>1. read \in Nat
        BY <1>2, MinOfTwo DEF ReadChunk
    <2> HIDE DEF read
    <2>2. Min({read, maxBytes}) \in 0 .. maxBytes
        BY <2>1, MinOfTwo
    <2>3. Cut(d, from, Min({read, maxBytes})) \in 0 .. maxBytes
        BY <2>2, CutFits
    <2> QED
        BY <2>3 DEF PageFromStream, Page, read
<1> QED
    BY <1>1, <1>2

-----------------------------------------------------------------------------
(* The cache: the list and the map hold the same keys, and its operations  *)
(* never change the entry of another key.                                  *)

NoRepeat(order) ==
    \A i, j \in 1 .. Len(order) : order[i] = order[j] => i = j

\* The list holds each element of K once.
Lists(s, K) ==
    /\ s \in Seq(K)
    /\ NoRepeat(s)
    /\ \A k \in K : \E i \in 1 .. Len(s) : s[i] = k

Linked(c) == Lists(c.order, DOMAIN c.items)

\* What is left of the entries of c.
Kept(d, c) ==
    \A x \in DOMAIN d.items : x \in DOMAIN c.items /\ d.items[x] = c.items[x]

\* list.Remove takes out its element and no other.
LEMMA Unlinked ==
    ASSUME NEW K, NEW s, Lists(s, K), NEW k \in K
    PROVE  Lists(Unlink(s, k), K \ {k})
<1>0. s \in Seq(K) /\ NoRepeat(s)
    BY DEF Lists
<1> PICK p \in 1 .. Len(s) : s[p] = k
    BY DEF Lists
<1> DEFINE a == SubSeq(s, 1, p - 1)
           b == SubSeq(s, p + 1, Len(s))
           t == a \o b
<1>1. Len(s) \in Nat /\ DOMAIN s = 1 .. Len(s) /\ \A i \in 1 .. Len(s) : s[i] \in K
    BY <1>0, LenProperties
<1>2. Unlink(s, k) = t
    <2>1. (CHOOSE i \in DOMAIN s : s[i] = k) = p
        BY <1>0, <1>1 DEF NoRepeat
    <2> QED
        BY <2>1 DEF Unlink, RemoveAt
<1>3. a \in Seq(K) /\ Len(a) = p - 1 /\ \A i \in 1 .. p - 1 : a[i] = s[i]
    BY <1>1, SubSeqProperties
<1>4. b \in Seq(K) /\ Len(b) = Len(s) - p /\ \A i \in 1 .. Len(s) - p : b[i] = s[p + i]
    <2>1. /\ b \in Seq(K)
          /\ Len(b) = IF p + 1 <= Len(s) THEN Len(s) - (p + 1) + 1 ELSE 0
          /\ \A i \in 1 .. Len(s) - (p + 1) + 1 : b[i] = s[(p + 1) + i - 1]
        BY <1>1, SubSeqProperties
    <2> HIDE DEF b
    <2>2. Len(b) = Len(s) - p
        <3>1. CASE p + 1 <= Len(s)
            BY <2>1, <1>1, <3>1
        <3>2. CASE p = Len(s)
            BY <2>1, <1>1, <3>2
        <3>3. \A n \in Nat : \A q \in 1 .. n : q + 1 <= n \/ q = n
            OBVIOUS
        <3> QED
            BY <1>1, <3>1, <3>2, <3>3
    <2>3. ASSUME NEW i \in 1 .. Len(s) - p PROVE b[i] = s[p + i]
        <3>1. i \in 1 .. Len(s) - (p + 1) + 1 /\ (p + 1) + i - 1 = p + i
            BY <1>1
        <3> QED
            BY <2>1, <3>1
    <2> QED
        BY <2>1, <2>2, <2>3
<1>5. /\ t \in Seq(K) /\ Len(t) = Len(s) - 1
      /\ \A j \in 1 .. Len(s) - 1 : t[j] = IF j < p THEN s[j] ELSE s[j + 1]
    <2>1. /\ a \o b \in Seq(K)
          /\ Len(a \o b) = Len(a) + Len(b)
          /\ \A i \in 1 .. Len(a) + Len(b) : (a \o b)[i] =
                 IF i <= Len(a) THEN a[i] ELSE b[i - Len(a)]
        BY <1>3, <1>4, ConcatProperties
    <2>2. t = a \o b
        OBVIOUS
    <2> HIDE DEF a, b, t
    <2>3. Len(a) + Len(b) = Len(s) - 1
        BY <1>1, <1>3, <1>4
    <2>4. ASSUME NEW j \in 1 .. Len(s) - 1
          PROVE  t[j] = IF j < p THEN s[j] ELSE s[j + 1]
        <3>1. t[j] = IF j <= Len(a) THEN a[j] ELSE b[j - Len(a)]
            BY <2>1, <2>2, <2>3
        <3>2. CASE j < p
            BY <3>1, <3>2, <1>1, <1>3
        <3>3. CASE ~(j < p)
            <4>1. j - (p - 1) \in 1 .. Len(s) - p /\ p + (j - (p - 1)) = j + 1
                BY <3>3, <1>1
            <4> QED
                BY <3>1, <3>3, <4>1, <1>1, <1>3, <1>4
        <3> QED
            BY <3>2, <3>3
    <2> QED
        BY <2>1, <2>2, <2>3, <2>4
<1> HIDE DEF t
<1>6. NoRepeat(t)
    BY <1>0, <1>1, <1>5 DEF NoRepeat
<1>7. t \in Seq(K \ {k})
    <2>1. \A j \in 1 .. Len(t) : t[j] \in K \ {k}
        BY <1>0, <1>1, <1>5 DEF NoRepeat
    <2>2. t \in [1 .. Len(t) -> K \ {k}] /\ Len(t) \in Nat
        BY <1>5, <2>1, LenProperties
    <2> QED
        BY <2>2, SeqDef
<1>8. ASSUME NEW x \in K \ {k}
      PROVE  \E j \in 1 .. Len(t) : t[j] = x
    <2> PICK i \in 1 .. Len(s) : s[i] = x
        BY DEF Lists
    <2>1. i # p
        BY <1>8
    <2>2. CASE i < p
        <3>1. i \in 1 .. Len(t) /\ t[i] = x
            BY <1>1, <1>5, <2>2
        <3> QED
            BY <3>1
    <2>3. CASE i > p
        <3>1. i - 1 \in 1 .. Len(t) /\ t[i - 1] = x
            BY <1>1, <1>5, <2>3
        <3> QED
            BY <3>1
    <2> QED
        BY <1>1, <2>1, <2>2, <2>3
<1> QED
    BY <1>2, <1>6, <1>7, <1>8 DEF Lists

\* deleteLocked takes out the key and nothing else.
LEMMA DeletedKeeps ==
    ASSUME NEW c, Linked(c), NEW k, NEW d, d = DeleteLocked(c, k)
    PROVE  Linked(d) /\ Kept(d, c) /\ DOMAIN d.items = DOMAIN c.items \ {k}
<1>1. CASE k \notin DOMAIN c.items
    BY <1>1 DEF DeleteLocked, Kept
<1>2. CASE k \in DOMAIN c.items
    <2>1. d.order = Unlink(c.order, k) /\ d.items = DropItem(c.items, k)
        BY <1>2 DEF DeleteLocked
    <2>2. Lists(d.order, DOMAIN c.items \ {k})
        BY <1>2, <2>1, Unlinked DEF Linked
    <2>3. Kept(d, c) /\ DOMAIN d.items = DOMAIN c.items \ {k}
        BY <2>1 DEF DropItem, Kept
    <2> QED
        BY <2>2, <2>3 DEF Linked
<1> QED
    BY <1>1, <1>2

\* Pushing to the front.
LEMMA PushedList ==
    ASSUME NEW K, NEW s, Lists(s, K), NEW k, k \notin K
    PROVE  /\ Lists(<<k>> \o s, K \cup {k})
           /\ 1 \in 1 .. Len(<<k>> \o s) /\ (<<k>> \o s)[1] = k
<1> DEFINE t == <<k>> \o s
<1> HIDE DEF t
<1>0. s \in Seq(K) /\ NoRepeat(s)
    BY DEF Lists
<1>1. Len(s) \in Nat /\ \A i \in 1 .. Len(s) : s[i] \in K
    BY <1>0, LenProperties
<1>2. s \in Seq(K \cup {k})
    BY <1>0, SeqMonotonic
<1>3. <<k>> \in Seq(K \cup {k}) /\ Len(<<k>>) = 1 /\ <<k>>[1] = k
    OBVIOUS
<1>4. /\ t \in Seq(K \cup {k})
      /\ Len(t) = 1 + Len(s)
      /\ \A i \in 1 .. 1 + Len(s) : t[i] = IF i <= 1 THEN k ELSE s[i - 1]
    <2> DEFINE e == <<k>>
    <2>0. t = e \o s
        BY DEF t
    <2>1. e \in Seq(K \cup {k}) /\ Len(e) = 1 /\ e[1] = k
        BY <1>3
    <2> HIDE DEF e
    <2>2. /\ e \o s \in Seq(K \cup {k})
          /\ Len(e \o s) = Len(e) + Len(s)
          /\ \A i \in 1 .. Len(e) + Len(s) : (e \o s)[i] =
                 IF i <= Len(e) THEN e[i] ELSE s[i - Len(e)]
        BY <1>2, <2>1, ConcatProperties
    <2>3. \A i \in 1 .. 1 + Len(s) : i <= 1 => i = 1
        BY <1>1
    <2> QED
        BY <2>0, <2>1, <2>2, <2>3
<1>5. NoRepeat(t)
    <2> SUFFICES ASSUME NEW i \in 1 .. 1 + Len(s), NEW j \in 1 .. 1 + Len(s), t[i] = t[j]
                 PROVE  i = j
        BY <1>4 DEF NoRepeat
    <2>1. \A m \in 1 .. 1 + Len(s) : m > 1 => m - 1 \in 1 .. Len(s) /\ t[m] = s[m - 1]
        BY <1>1, <1>4
    <2>2. \A m \in 1 .. 1 + Len(s) : m > 1 => t[m] # t[1]
        <3>1. t[1] = k
            BY <1>1, <1>4
        <3>2. \A m \in 1 .. 1 + Len(s) : m > 1 => t[m] \in K
            BY <1>1, <2>1
        <3> QED
            BY <3>1, <3>2
    <2>3. CASE i > 1 /\ j > 1
        <3>1. i - 1 = j - 1
            BY <1>0, <2>1, <2>3 DEF NoRepeat
        <3> QED
            BY <1>1, <3>1
    <2>4. CASE ~(i > 1) \/ ~(j > 1)
        <3>1. i = 1 \/ j = 1
            BY <1>1, <2>4
        <3> QED
            BY <1>1, <2>2, <3>1
    <2> QED
        BY <2>3, <2>4
<1>6. 1 \in 1 .. Len(t) /\ t[1] = k
    BY <1>1, <1>4
<1>7. ASSUME NEW x \in K
      PROVE  \E j \in 1 .. Len(t) : t[j] = x
    <2>1. PICK i \in 1 .. Len(s) : s[i] = x
        BY DEF Lists
    <2>2. i + 1 \in 1 .. Len(t) /\ t[i + 1] = x
        BY <1>1, <1>4, <2>1
    <2> QED
        BY <2>2
<1>8. Lists(t, K \cup {k})
    BY <1>4, <1>5, <1>6, <1>7 DEF Lists
<1> QED
    BY <1>6, <1>8 DEF t

\* MoveToFront changes the list only.
LEMMA TouchedKeeps ==
    ASSUME NEW c, Linked(c), NEW k \in DOMAIN c.items, NEW d, d = Touched(c, k)
    PROVE  Linked(d) /\ d.items = c.items
<1> DEFINE u == Unlink(c.order, k)
<1>1. d.order = <<k>> \o u /\ d.items = c.items
    BY DEF Touched
<1>2. Lists(u, DOMAIN c.items \ {k})
    BY Unlinked DEF Linked
<1> HIDE DEF u
<1>3. Lists(d.order, (DOMAIN c.items \ {k}) \cup {k})
    BY <1>1, <1>2, PushedList
<1>4. (DOMAIN c.items \ {k}) \cup {k} = DOMAIN c.items
    OBVIOUS
<1> QED
    BY <1>1, <1>3, <1>4 DEF Linked

\* Put up to its eviction loop: the new entry is at the front.
LEMMA InsertedKeeps ==
    ASSUME NEW c, Linked(c), NEW k, NEW e, NEW d, d = Inserted(c, k, e)
    PROVE  /\ Linked(d)
           /\ 1 \in 1 .. Len(d.order) /\ d.order[1] = k
           /\ k \in DOMAIN d.items /\ d.items[k] = e
           /\ \A x \in DOMAIN d.items : x = k \/ (x \in DOMAIN c.items /\ d.items[x] = c.items[x])
<1> DEFINE b == DeleteLocked(c, k)
<1>1. Linked(b) /\ Kept(b, c) /\ DOMAIN b.items = DOMAIN c.items \ {k}
    BY DeletedKeeps
<1>2. /\ d.order = <<k>> \o b.order
      /\ d.items = [x \in DOMAIN b.items \cup {k} |-> IF x = k THEN e ELSE b.items[x]]
    BY DEF Inserted, PushFront
<1> HIDE DEF b
<1>3. Lists(d.order, DOMAIN b.items \cup {k}) /\ 1 \in 1 .. Len(d.order) /\ d.order[1] = k
    <2>1. Lists(b.order, DOMAIN b.items)
        BY <1>1 DEF Linked
    <2>2. k \notin DOMAIN b.items
        BY <1>1
    <2>3. d.order = <<k>> \o b.order
        BY <1>2
    <2> QED
        BY <2>1, <2>2, <2>3, PushedList
<1>4. /\ DOMAIN d.items = DOMAIN b.items \cup {k} /\ d.items[k] = e
      /\ \A x \in DOMAIN d.items : x = k \/ (x \in DOMAIN c.items /\ d.items[x] = c.items[x])
    <2>1. DOMAIN d.items = DOMAIN b.items \cup {k} /\ d.items[k] = e
        BY <1>2
    <2>2. \A x \in DOMAIN b.items : x # k /\ d.items[x] = b.items[x]
        BY <1>1, <1>2
    <2>3. \A x \in DOMAIN b.items : x \in DOMAIN c.items /\ b.items[x] = c.items[x]
        BY <1>1 DEF Kept
    <2> QED
        BY <2>1, <2>2, <2>3
<1> QED
    BY <1>3, <1>4 DEF Linked

\* The most recently used entries of a cache.
LEMMA RecentKeeps ==
    ASSUME NEW c, Linked(c), NEW n \in 0 .. Len(c.order),
           NEW d, d.order = SubSeq(c.order, 1, n), d.items = Recent(c, n)
    PROVE  Linked(d) /\ Kept(d, c) /\ (n > 0 => c.order[1] \in DOMAIN d.items)
<1> DEFINE s == c.order
           t == SubSeq(s, 1, n)
           K == {s[i] : i \in 1 .. n}
<1>1. s \in Seq(DOMAIN c.items) /\ NoRepeat(s)
    BY DEF Linked, Lists
<1>2. Len(s) \in Nat /\ n \in Nat /\ n <= Len(s) /\ \A i \in 1 .. Len(s) : s[i] \in DOMAIN c.items
    BY <1>1, LenProperties
<1>3. \A i \in 1 .. n : i \in 1 .. Len(s) /\ s[i] \in K
    BY <1>2
<1>4. DOMAIN d.items = K /\ \A x \in K : d.items[x] = c.items[x]
    BY DEF Recent
<1>5. /\ t \in Seq(K) /\ Len(t) = n /\ \A i \in 1 .. n : t[i] = s[i]
    <2>1. /\ t \in Seq(K)
          /\ Len(t) = IF 1 <= n THEN n - 1 + 1 ELSE 0
          /\ \A i \in 1 .. n - 1 + 1 : t[i] = s[1 + i - 1]
        <3> HIDE DEF s, K
        <3> QED
            BY <1>2, <1>3, SubSeqProperties
    <2> HIDE DEF t, s, K
    <2>2. Len(t) = n
        BY <1>2, <2>1
    <2>3. \A i \in 1 .. n : i \in 1 .. n - 1 + 1 /\ 1 + i - 1 = i
        BY <1>2
    <2> QED
        BY <2>1, <2>2, <2>3
<1>6. \A x \in K : \E i \in 1 .. n : s[i] = x
    OBVIOUS
<1>7. n > 0 => s[1] \in K
    BY <1>2
<1>8. K \subseteq DOMAIN c.items
    BY <1>2, <1>3
<1>9. d.order = t
    OBVIOUS
<1> HIDE DEF s, t, K
<1>10. NoRepeat(t)
    BY <1>1, <1>3, <1>5 DEF NoRepeat
<1>11. Lists(t, K)
    BY <1>5, <1>6, <1>10 DEF Lists
<1> QED
    BY <1>4, <1>7, <1>8, <1>9, <1>11 DEF Linked, Kept, s

\* One entry holds its bytes.
LEMMA OneEntryBytes ==
    ASSUME NEW items, NEW k, DOMAIN items = {k}, items[k].size \in Nat
    PROVE  BytesHeld(items) = items[k].size
<1> DEFINE n == items[k].size
           S == {k} \X (1 .. n)
           f == [i \in 1 .. n |-> <<k, i>>]
<1>1. ByteSlots(items) = S
    BY DEF ByteSlots
<1>2. n \in Nat /\ IsFiniteSet(1 .. n) /\ Cardinality(1 .. n) = n
    <2>1. \A m \in Nat : IsFiniteSet(1 .. m) /\ Cardinality(1 .. m) = m
        <3> TAKE m \in Nat
        <3>1. /\ IsFiniteSet(1 .. m)
              /\ Cardinality(1 .. m) = IF 1 > m THEN 0 ELSE m - 1 + 1
            BY FS_Interval
        <3> QED
            BY <3>1
    <2>2. n \in Nat
        OBVIOUS
    <2> HIDE DEF n, S, f
    <2> QED
        BY <2>1, <2>2
<1>3. f \in [1 .. n -> S] /\ \A t \in S : \E i \in 1 .. n : f[i] = t
    OBVIOUS
<1>4. \A i, j \in 1 .. n : f[i] = f[j] => i = j
    OBVIOUS
<1>5. DOMAIN f = 1 .. n
    OBVIOUS
<1> HIDE DEF f, S, n
<1>6. f \in Bijection(1 .. n, S)
    BY <1>3, <1>4, <1>5 DEF Bijection, Injection, Surjection, IsInjective
<1>7. ExistsBijection(1 .. n, S)
    BY <1>6 DEF ExistsBijection
<1>8. Cardinality(S) = n
    BY <1>2, <1>7, FS_Bijection
<1> QED
    BY <1>1, <1>8 DEF BytesHeld, n

\* The eviction loop takes from the back, and never the front entry if it fits.
LEMMA TrimmedKeeps ==
    ASSUME NEW c, Linked(c), 1 \in 1 .. Len(c.order), NEW maxBytes \in Nat,
           NEW d, d = Trimmed(c, maxBytes)
    PROVE  /\ Linked(d) /\ Kept(d, c)
           /\ c.items[c.order[1]].size \in 0 .. maxBytes => c.order[1] \in DOMAIN d.items
<1> DEFINE k == c.order[1]
           n == Fitting(c, maxBytes)
           fits == {m \in 0 .. Len(c.order) : BytesHeld(Recent(c, m)) <= maxBytes}
<1>1. Len(c.order) \in Nat /\ Len(c.order) >= 1 /\ k \in DOMAIN c.items
    <2>1. c.order \in Seq(DOMAIN c.items)
        BY DEF Linked, Lists
    <2> QED
        BY <2>1, LenProperties
<1>2. CASE c.used <= maxBytes
    <2>1. d = c
        BY <1>2 DEF Trimmed
    <2> QED
        BY <1>1, <2>1 DEF Kept
<1>3. CASE ~(c.used <= maxBytes)
    <2>1. d.order = SubSeq(c.order, 1, n) /\ d.items = Recent(c, n)
        BY <1>3 DEF Trimmed
    <2>2. 0 \in fits
        <3>1. ByteSlots(Recent(c, 0)) = {}
            BY DEF ByteSlots, Recent
        <3>2. BytesHeld(Recent(c, 0)) = 0
            BY <3>1, FS_EmptySet DEF BytesHeld
        <3>3. 0 \in 0 .. Len(c.order) /\ 0 <= maxBytes
            BY <1>1
        <3> QED
            BY <3>2, <3>3
    <2>3. fits \subseteq 0 .. Len(c.order) /\ n = Max(fits)
        BY DEF Fitting
    <2>4. c.items[k].size \in 0 .. maxBytes => 1 \in fits
        <3>1. DOMAIN Recent(c, 1) = {k} /\ Recent(c, 1)[k] = c.items[k]
            BY DEF Recent
        <3>2. ASSUME c.items[k].size \in 0 .. maxBytes
              PROVE  BytesHeld(Recent(c, 1)) <= maxBytes
            BY <3>1, <3>2, OneEntryBytes
        <3> QED
            BY <1>1, <3>2
    <2> HIDE DEF n, fits
    <2>5. n \in fits /\ \A m \in fits : m <= n
        BY <1>1, <2>2, <2>3, MaxOfInterval
    <2>6. n \in 0 .. Len(c.order) /\ (c.items[k].size \in 0 .. maxBytes => n > 0)
        BY <2>3, <2>4, <2>5
    <2>7. Linked(d) /\ Kept(d, c) /\ (n > 0 => c.order[1] \in DOMAIN d.items)
        BY <2>1, <2>6, RecentKeeps
    <2> QED
        BY <2>6, <2>7
<1> QED
    BY <1>2, <1>3

\* The whole of Get: no entry changes, and a hit stays.
LEMMA GetKeeps ==
    ASSUME NEW c, Linked(c), NEW k, NEW at, NEW ttl, NEW d, d = AfterGet(c, k, at, ttl)
    PROVE  Linked(d) /\ Kept(d, c) /\ (Hits(c, k, at, ttl) => k \in DOMAIN d.items)
<1>1. CASE Hits(c, k, at, ttl)
    <2>1. d = Touched(c, k) /\ k \in DOMAIN c.items
        BY <1>1 DEF AfterGet, Hits
    <2> QED
        BY <2>1, TouchedKeeps DEF Kept
<1>2. CASE ~Hits(c, k, at, ttl)
    <2>1. d = DeleteLocked(c, k)
        BY <1>2 DEF AfterGet
    <2> QED
        BY <1>2, <2>1, DeletedKeeps
<1> QED
    BY <1>1, <1>2

\* The whole of Put: no other entry changes, and the new one stays if it fits.
LEMMA PutKeeps ==
    ASSUME NEW c, Linked(c), NEW k, NEW e, NEW maxBytes \in Nat,
           NEW d, d = AfterPut(c, k, e, maxBytes)
    PROVE  /\ Linked(d)
           /\ \A x \in DOMAIN d.items :
                 (x = k /\ d.items[x] = e) \/ (x \in DOMAIN c.items /\ d.items[x] = c.items[x])
           /\ e.size \in 0 .. maxBytes => k \in DOMAIN d.items
<1> DEFINE b == Inserted(c, k, e)
<1>1. /\ Linked(b)
      /\ 1 \in 1 .. Len(b.order) /\ b.order[1] = k
      /\ k \in DOMAIN b.items /\ b.items[k] = e
      /\ \A x \in DOMAIN b.items : x = k \/ (x \in DOMAIN c.items /\ b.items[x] = c.items[x])
    BY InsertedKeeps
<1>2. d = Trimmed(b, maxBytes)
    BY DEF AfterPut
<1> HIDE DEF b
<1>3. /\ Linked(d) /\ Kept(d, b)
      /\ b.items[b.order[1]].size \in 0 .. maxBytes => b.order[1] \in DOMAIN d.items
    BY <1>1, <1>2, TrimmedKeeps
<1> QED
    BY <1>1, <1>3 DEF Kept
-----------------------------------------------------------------------------
(* The inductive invariant.                                                *)

Callers == Agents \cup {NoAgent}

OnWire == {"get", "capture", "rest", "stream"}
Reading == {"capture", "rest", "stream"}

Busy == [pc : {"results", "snapshots", "done"} \cup OnWire, agent : Callers, url : Urls,
         offset : Offsets, started : Nat, readAt : Nat]

TypeOK ==
    /\ now \in 0 .. MaxTime
    /\ call \in [Calls -> {Idle} \cup Busy]
    /\ DOMAIN answer = Calls

\* An entry was read by the agent its key names, at most one exchange before
\* it was stored.
EntrySound(k, e) ==
    /\ e.value.by = k[1]
    /\ e.value.readAt \in Nat /\ e.storedAt \in Nat
    /\ e.storedAt - e.value.readAt <= Timeout

CacheSound(c) ==
    /\ Linked(c)
    /\ \A k \in DOMAIN c.items : EntrySound(k, c.items[k])

\* A call r whose answer is a, at time t: its exchange is within the timeout,
\* what it reads it asked for, and its answer is its own and recent.
CallSound(r, a, t) ==
    /\ r.pc # "done" => a = Pending
    /\ r.pc \in OnWire => r.started <= t /\ t - r.started <= Timeout
    /\ r.pc \in Reading => r.started <= r.readAt /\ r.readAt <= t
    /\ a.status = "ok" => a.by = r.agent /\ a.age <= TTL + Timeout

CallsSound == \A c \in Calls : CallSound(call[c], answer[c], now)

IInv == TypeOK /\ CacheSound(snapshots) /\ CacheSound(results) /\ CallsSound

\* Get and Put leave a sound cache.
LEMMA GetSound ==
    ASSUME NEW c, CacheSound(c), NEW k, NEW at, NEW ttl, NEW d, d = AfterGet(c, k, at, ttl)
    PROVE  CacheSound(d) /\ (Hits(c, k, at, ttl) => k \in DOMAIN d.items)
<1>1. Linked(c)
    BY DEF CacheSound
<1>2. Linked(d) /\ Kept(d, c) /\ (Hits(c, k, at, ttl) => k \in DOMAIN d.items)
    BY <1>1, GetKeeps
<1> QED
    BY <1>2 DEF CacheSound, Kept

LEMMA PutSound ==
    ASSUME NEW c, CacheSound(c), NEW k, NEW e, EntrySound(k, e),
           NEW d, d = AfterPut(c, k, e, CacheBudget)
    PROVE  CacheSound(d) /\ (e.size \in 0 .. CacheBudget => k \in DOMAIN d.items)
<1>1. Linked(c) /\ CacheBudget \in Nat
    BY SizeAssumption, MaxPageAssumption DEF CacheSound
<1>2. /\ Linked(d)
      /\ \A x \in DOMAIN d.items :
            (x = k /\ d.items[x] = e) \/ (x \in DOMAIN c.items /\ d.items[x] = c.items[x])
      /\ e.size \in 0 .. CacheBudget => k \in DOMAIN d.items
    BY <1>1, PutKeeps
<1> QED
    BY <1>2 DEF CacheSound

LEMMA StartedIsBusy ==
    ASSUME TypeOK, NEW c \in Calls, call[c].pc # "new"
    PROVE  call[c] \in Busy
BY DEF TypeOK, Idle

\* A step of one call: the other calls stand still.
LEMMA Moved ==
    ASSUME TypeOK, CallsSound, NEW c \in Calls, NEW s \in Busy,
           call' = [call EXCEPT ![c] = s],
           DOMAIN answer' = Calls, \A x \in Calls \ {c} : answer'[x] = answer[x],
           now' = now, CallSound(s, answer'[c], now)
    PROVE  TypeOK' /\ CallsSound'
<1>1. TypeOK'
    BY DEF TypeOK
<1>2. ASSUME NEW x \in Calls PROVE CallSound(call'[x], answer'[x], now')
    <2>1. CASE x = c
        <3>1. call'[x] = s
            BY <2>1 DEF TypeOK
        <3> QED
            BY <2>1, <3>1
    <2>2. CASE x # c
        <3>1. call'[x] = call[x] /\ answer'[x] = answer[x]
            BY <2>2 DEF TypeOK
        <3> QED
            BY <3>1 DEF CallsSound
    <2> QED
        BY <2>1, <2>2
<1> QED
    BY <1>1, <1>2 DEF CallsSound

\* What every return of a call preserves.
LEMMA Returned ==
    ASSUME TypeOK, CallsSound, NEW c \in Calls, call[c].pc # "new", NEW v, Return(c, v),
           now' = now, v.status = "ok" => v.by = call[c].agent /\ v.age <= TTL + Timeout
    PROVE  /\ TypeOK' /\ CallsSound'
           /\ answer'[c] = v /\ \A x \in Calls \ {c} : answer'[x] = answer[x]
<1> DEFINE s == [call[c] EXCEPT !.pc = "done", !.started = 0, !.readAt = 0]
<1>1. s \in Busy /\ s.pc = "done" /\ s.agent = call[c].agent
    BY StartedIsBusy DEF Busy
<1>2. call' = [call EXCEPT ![c] = s]
    BY DEF Return, TypeOK
<1>3. /\ answer'[c] = v /\ DOMAIN answer' = Calls
      /\ \A x \in Calls \ {c} : answer'[x] = answer[x]
    BY DEF Return, TypeOK
<1> HIDE DEF s
<1>4. CallSound(s, answer'[c], now)
    BY <1>1, <1>3 DEF CallSound, OnWire, Reading
<1> QED
    BY <1>1, <1>2, <1>3, <1>4, Moved

-----------------------------------------------------------------------------
(* The steps.                                                              *)

\* What SuccessIsCached says of call c.
Cached(c) ==
    answer'[c].status = "ok" /\ answer[c] = Pending /\ call[c].agent # NoAgent =>
        \/ ResultKey(call[c]) \in DOMAIN results'.items
        \/ SnapKey(call[c]) \in DOMAIN snapshots'.items

\* The answers of the other calls stand.
Alone(c) == \A x \in Calls \ {c} : answer'[x] = answer[x]

LEMMA InitSound == Init => IInv
<1> SUFFICES ASSUME Init PROVE IInv
    OBVIOUS
<1>1. TypeOK
    BY ClockAssumption DEF Init, TypeOK
<1>2. Linked(EmptyCache) /\ DOMAIN EmptyCache.items = {}
    BY DEF EmptyCache, Linked, Lists, NoRepeat
<1>3. CacheSound(snapshots) /\ CacheSound(results)
    BY <1>2 DEF Init, CacheSound
<1>4. CallsSound
    BY DEF Init, CallsSound, CallSound, Idle, Pending, OnWire, Reading
<1> QED
    BY <1>1, <1>3, <1>4 DEF IInv

LEMMA StartSound ==
    ASSUME IInv, NEW agent \in Callers, NEW url \in Urls, NEW o \in Offsets,
           Start(agent, url, o)
    PROVE  IInv' /\ answer' = answer
<1> DEFINE new == {x \in Calls : call[x].pc = "new"}
           c == CHOOSE x \in new : TRUE
           s == [pc |-> IF agent = NoAgent THEN "get" ELSE "results",
                 agent |-> agent, url |-> url, offset |-> o,
                 started |-> IF agent = NoAgent THEN now ELSE 0, readAt |-> 0]
<1>1. new # {} /\ call' = [call EXCEPT ![c] = s] /\ answer' = answer /\ now' = now
      /\ snapshots' = snapshots /\ results' = results
    BY DEF Start
<1>2. c \in Calls /\ call[c].pc = "new"
    <2>1. c \in new
        BY <1>1
    <2> QED
        BY <2>1
<1>3. answer[c] = Pending
    BY <1>2 DEF IInv, CallsSound, CallSound
<1>4. now \in Nat
    BY ClockAssumption DEF IInv, TypeOK
<1>5. s \in Busy /\ s.pc \in {"get", "results"} /\ (s.pc = "get" => s.started = now)
    <2>1. CASE agent = NoAgent
        BY <1>4, <2>1 DEF Busy, OnWire
    <2>2. CASE agent # NoAgent
        BY <2>2 DEF Busy
    <2> QED
        BY <2>1, <2>2
<1> HIDE DEF new, c, s
<1>6. CallSound(s, answer'[c], now)
    BY <1>1, <1>3, <1>4, <1>5, ClockAssumption DEF CallSound, Pending, OnWire, Reading
<1>7. TypeOK /\ CallsSound /\ DOMAIN answer' = Calls
    BY <1>1 DEF IInv, TypeOK
<1>8. TypeOK' /\ CallsSound'
    BY <1>1, <1>2, <1>5, <1>6, <1>7, Moved
<1> QED
    BY <1>1, <1>8 DEF IInv

LEMMA LookupResultSound ==
    ASSUME IInv, NEW c \in Calls, LookupResult(c)
    PROVE  IInv' /\ Alone(c) /\ Cached(c)
<1> DEFINE k == ResultKey(call[c])
           v == results.items[k].value
<1>0. TypeOK /\ CallsSound /\ CacheSound(results) /\ CacheSound(snapshots)
    BY DEF IInv
<1>1. /\ call[c].pc = "results" /\ results' = AfterGet(results, k, now, TTL)
      /\ now' = now /\ snapshots' = snapshots
    BY DEF LookupResult
<1>2. CacheSound(results') /\ (Hits(results, k, now, TTL) => k \in DOMAIN results'.items)
    BY <1>0, <1>1, GetSound
<1>3. k[1] = call[c].agent
    BY DEF ResultKey
<1>4. CASE Hits(results, k, now, TTL)
    <2>1. Return(c, Ok(v, v.page))
        BY <1>4 DEF LookupResult
    <2>2. EntrySound(k, results.items[k]) /\ ~Expired(results.items[k], now, TTL)
        BY <1>0, <1>4 DEF CacheSound, Hits
    <2> HIDE DEF k
    <2>3. v.by = call[c].agent /\ now - v.readAt <= TTL + Timeout
        BY <1>0, <1>3, <2>2, ClockAssumption DEF EntrySound, Expired, TypeOK
    <2>4. /\ Ok(v, v.page).by = v.by /\ Ok(v, v.page).age = now - v.readAt
        BY DEF Ok
    <2>5. TypeOK' /\ CallsSound' /\ Alone(c)
        BY <1>0, <1>1, <2>1, <2>3, <2>4, Returned DEF Alone
    <2>6. Cached(c)
        BY <1>2, <1>4 DEF Cached, k
    <2> QED
        BY <1>0, <1>1, <1>2, <2>5, <2>6 DEF IInv
<1>5. CASE ~Hits(results, k, now, TTL)
    <2> DEFINE s == [call[c] EXCEPT !.pc = "snapshots"]
    <2>1. call' = [call EXCEPT ![c] = s] /\ answer' = answer
        BY <1>5 DEF LookupResult, Goto, IInv, TypeOK
    <2>2. s \in Busy /\ s.pc = "snapshots"
        BY <1>0, <1>1, StartedIsBusy DEF Busy
    <2>3. answer[c] = Pending
        BY <1>0, <1>1 DEF CallsSound, CallSound
    <2> HIDE DEF s, k
    <2>4. CallSound(s, answer'[c], now)
        BY <2>1, <2>2, <2>3 DEF CallSound, Pending, OnWire, Reading
    <2>5. DOMAIN answer' = Calls
        BY <1>0, <2>1 DEF TypeOK
    <2>6. TypeOK' /\ CallsSound'
        BY <1>0, <1>1, <2>1, <2>2, <2>4, <2>5, Moved
    <2>7. Alone(c) /\ Cached(c)
        BY <2>1, <2>3 DEF Alone, Cached, Pending
    <2> QED
        BY <1>0, <1>1, <1>2, <2>6, <2>7 DEF IInv
<1> QED
    BY <1>4, <1>5

LEMMA LookupSnapshotSound ==
    ASSUME IInv, NEW c \in Calls, LookupSnapshot(c)
    PROVE  IInv' /\ Alone(c) /\ Cached(c)
<1> DEFINE k == SnapKey(call[c])
           v == snapshots.items[k].value
           p == PageFrom(Body(v.readAt), v.size, call[c].offset, MaxPage)
<1>0. TypeOK /\ CallsSound /\ CacheSound(results) /\ CacheSound(snapshots)
    BY DEF IInv
<1>1. /\ call[c].pc = "snapshots" /\ snapshots' = AfterGet(snapshots, k, now, TTL)
      /\ now' = now /\ results' = results
    BY DEF LookupSnapshot
<1>2. CacheSound(snapshots') /\ (Hits(snapshots, k, now, TTL) => k \in DOMAIN snapshots'.items)
    BY <1>0, <1>1, GetSound
<1>3. k[1] = call[c].agent
    BY DEF SnapKey
<1>4. CASE Hits(snapshots, k, now, TTL)
    <2>1. Return(c, Ok(v, p))
        BY <1>4 DEF LookupSnapshot
    <2>2. EntrySound(k, snapshots.items[k]) /\ ~Expired(snapshots.items[k], now, TTL)
        BY <1>0, <1>4 DEF CacheSound, Hits
    <2> HIDE DEF k, p
    <2>3. v.by = call[c].agent /\ now - v.readAt <= TTL + Timeout
        BY <1>0, <1>3, <2>2, ClockAssumption DEF EntrySound, Expired, TypeOK
    <2>4. /\ Ok(v, p).by = v.by /\ Ok(v, p).age = now - v.readAt
        BY DEF Ok
    <2>5. TypeOK' /\ CallsSound' /\ Alone(c)
        BY <1>0, <1>1, <2>1, <2>3, <2>4, Returned DEF Alone
    <2>6. Cached(c)
        BY <1>2, <1>4 DEF Cached, k
    <2> QED
        BY <1>0, <1>1, <1>2, <2>5, <2>6 DEF IInv
<1>5. CASE ~Hits(snapshots, k, now, TTL)
    <2> DEFINE s == [call[c] EXCEPT !.pc = "get", !.started = now]
    <2>0. now \in Nat
        BY <1>0, ClockAssumption DEF TypeOK
    <2>1. call' = [call EXCEPT ![c] = s] /\ answer' = answer
        BY <1>5 DEF LookupSnapshot, IInv, TypeOK
    <2>2. s \in Busy /\ s.pc = "get" /\ s.started = now
        BY <1>0, <1>1, <2>0, StartedIsBusy DEF Busy, OnWire
    <2>3. answer[c] = Pending
        BY <1>0, <1>1 DEF CallsSound, CallSound
    <2> HIDE DEF s, k, p
    <2>4. CallSound(s, answer'[c], now)
        BY <2>0, <2>1, <2>2, <2>3, ClockAssumption DEF CallSound, Pending, OnWire, Reading
    <2>5. DOMAIN answer' = Calls
        BY <1>0, <2>1 DEF TypeOK
    <2>6. TypeOK' /\ CallsSound'
        BY <1>0, <1>1, <2>1, <2>2, <2>4, <2>5, Moved
    <2>7. Alone(c) /\ Cached(c)
        BY <2>1, <2>3 DEF Alone, Cached, Pending
    <2> QED
        BY <1>0, <1>1, <1>2, <2>6, <2>7 DEF IInv
<1> QED
    BY <1>4, <1>5

LEMMA RespondSound ==
    ASSUME IInv, NEW c \in Calls, Respond(c)
    PROVE  IInv' /\ answer' = answer
<1> DEFINE s == [call[c] EXCEPT
                   !.pc = IF Captures(call[c], Origin[now]) THEN "capture" ELSE "stream",
                   !.readAt = now]
<1>0. TypeOK /\ CallsSound /\ now \in Nat
    BY ClockAssumption DEF IInv, TypeOK
<1>1. /\ call[c].pc = "get" /\ call' = [call EXCEPT ![c] = s] /\ answer' = answer
      /\ now' = now /\ snapshots' = snapshots /\ results' = results
    BY <1>0 DEF Respond, TypeOK
<1>2. s \in Busy /\ s.pc \in {"capture", "stream"} /\ s.started = call[c].started /\ s.readAt = now
    <2>1. call[c] \in Busy
        BY <1>0, <1>1, StartedIsBusy
    <2>2. \A x \in {"capture", "stream"} :
             LET t == [call[c] EXCEPT !.pc = x, !.readAt = now]
             IN  t \in Busy /\ t.pc = x /\ t.started = call[c].started /\ t.readAt = now
        BY <1>0, <2>1 DEF Busy, OnWire
    <2>3. CASE Captures(call[c], Origin[now])
        BY <2>2, <2>3
    <2>4. CASE ~Captures(call[c], Origin[now])
        BY <2>2, <2>4
    <2> QED
        BY <2>3, <2>4
<1>3. answer[c] = Pending /\ call[c].started <= now /\ now - call[c].started <= Timeout
    BY <1>0, <1>1 DEF CallsSound, CallSound, OnWire
<1> HIDE DEF s
<1>4. CallSound(s, answer'[c], now)
    BY <1>0, <1>1, <1>2, <1>3 DEF CallSound, Pending, OnWire, Reading
<1>5. DOMAIN answer' = Calls
    BY <1>0, <1>1 DEF TypeOK
<1>6. TypeOK' /\ CallsSound'
    BY <1>0, <1>1, <1>2, <1>4, <1>5, Moved
<1> QED
    BY <1>1, <1>6 DEF IInv

LEMMA ReadFirstPageSound ==
    ASSUME IInv, NEW c \in Calls, ReadFirstPage(c)
    PROVE  IInv' /\ answer' = answer
<1> DEFINE s == [call[c] EXCEPT !.pc = "rest"]
<1>0. TypeOK /\ CallsSound
    BY DEF IInv
<1>1. /\ call[c].pc = "capture" /\ call' = [call EXCEPT ![c] = s] /\ answer' = answer
      /\ now' = now /\ snapshots' = snapshots /\ results' = results
    BY <1>0 DEF ReadFirstPage, Goto, TypeOK
<1>2. /\ s \in Busy /\ s.pc = "rest"
      /\ s.started = call[c].started /\ s.readAt = call[c].readAt
    BY <1>0, <1>1, StartedIsBusy DEF Busy, OnWire
<1>3. CallSound(call[c], answer[c], now)
    BY <1>0 DEF CallsSound
<1> HIDE DEF s
<1>4. CallSound(s, answer'[c], now)
    BY <1>1, <1>2, <1>3 DEF CallSound, Pending, OnWire, Reading
<1>5. DOMAIN answer' = Calls
    BY <1>0, <1>1 DEF TypeOK
<1>6. TypeOK' /\ CallsSound'
    BY <1>0, <1>1, <1>2, <1>4, <1>5, Moved
<1> QED
    BY <1>1, <1>6 DEF IInv

LEMMA FailSound ==
    ASSUME IInv, NEW c \in Calls, Fail(c)
    PROVE  IInv' /\ Alone(c) /\ Cached(c)
<1>0. TypeOK /\ CallsSound
    BY DEF IInv
<1>1. /\ call[c].pc # "new" /\ Return(c, Failed)
      /\ now' = now /\ snapshots' = snapshots /\ results' = results
    BY DEF Fail
<1>2. Failed.status # "ok"
    BY DEF Failed
<1>3. TypeOK' /\ CallsSound' /\ Alone(c) /\ answer'[c] = Failed
    BY <1>0, <1>1, <1>2, Returned DEF Alone
<1> QED
    BY <1>1, <1>2, <1>3 DEF IInv, Cached

\* A call that has read its document returns it: the answer is its own, read
\* within one exchange.
LEMMA ReadSound ==
    ASSUME IInv, NEW c \in Calls, call[c].pc \in Reading, NEW page,
           Return(c, Ok(Content(call[c]), page)), now' = now
    PROVE  /\ TypeOK' /\ CallsSound' /\ Alone(c)
           /\ call[c].readAt \in Nat /\ now \in Nat /\ now - call[c].readAt <= Timeout
           /\ Len(Body(call[c].readAt)) \in Nat /\ call[c].offset \in Nat
           /\ call[c].readAt \in 0 .. MaxTime
<1>0. TypeOK /\ CallsSound /\ now \in 0 .. MaxTime /\ MaxTime \in Nat
    BY ClockAssumption DEF IInv, TypeOK
<1>1. call[c].pc # "new" /\ call[c].pc \in OnWire
    BY DEF Reading, OnWire
<1>2. call[c] \in Busy
    BY <1>0, <1>1, StartedIsBusy
<1>3. /\ call[c].started \in Nat /\ call[c].readAt \in Nat /\ call[c].offset \in Nat
    BY <1>2, OffsetAssumption DEF Busy
<1>4. /\ call[c].started <= call[c].readAt /\ call[c].readAt <= now
      /\ now - call[c].started <= Timeout
    BY <1>0, <1>1 DEF CallsSound, CallSound
<1>5. now - call[c].readAt <= Timeout /\ call[c].readAt \in 0 .. MaxTime
    BY <1>0, <1>3, <1>4, ClockAssumption
<1>6. Len(Body(call[c].readAt)) \in Nat
    <2>1. Body(call[c].readAt) \in Seq(0 .. UTFMax)
        BY <1>5, OriginAssumption DEF Body, IsDocument
    <2> QED
        BY <2>1, LenProperties
<1>7. /\ Ok(Content(call[c]), page).by = call[c].agent
      /\ Ok(Content(call[c]), page).age = now - call[c].readAt
    BY DEF Ok, Content
<1>8. TypeOK' /\ CallsSound' /\ Alone(c)
    <2>1. now - call[c].readAt <= TTL + Timeout
        BY <1>0, <1>3, <1>5, ClockAssumption
    <2> QED
        BY <1>0, <1>1, <1>7, <2>1, Returned DEF Alone
<1> QED
    BY <1>0, <1>3, <1>5, <1>6, <1>8

\* storeResult of a page that fits.
LEMMA StoreSound ==
    ASSUME CacheSound(results), NEW c, NEW page, page.bytes \in 0 .. MaxPage,
           StoreResult(call[c], page), call[c].readAt \in Nat, now \in Nat,
           now - call[c].readAt <= Timeout
    PROVE  CacheSound(results') /\ Cached(c)
<1> DEFINE k == ResultKey(call[c])
           v == [readAt |-> call[c].readAt, by |-> call[c].agent, page |-> page]
           e == [value |-> v, size |-> page.bytes, storedAt |-> now]
<1>1. CASE call[c].agent = NoAgent
    BY <1>1 DEF StoreResult, Cached
<1>2. CASE call[c].agent # NoAgent
    <2>1. results' = AfterPut(results, k, e, CacheBudget)
        BY <1>2 DEF StoreResult
    <2>2. EntrySound(k, e)
        BY DEF EntrySound, ResultKey
    <2>3. e.size \in 0 .. CacheBudget
        BY SizeAssumption, MaxPageAssumption
    <2> HIDE DEF k, e
    <2>4. CacheSound(results') /\ k \in DOMAIN results'.items
        BY <2>1, <2>2, <2>3, PutSound
    <2> QED
        BY <2>4 DEF Cached, k
<1> QED
    BY <1>1, <1>2

LEMMA StreamPageSound ==
    ASSUME IInv, NEW c \in Calls, StreamPage(c)
    PROVE  IInv' /\ Alone(c) /\ Cached(c)
<1> DEFINE page == PageFromStream(Body(call[c].readAt), call[c].offset, MaxPage)
<1>1. /\ call[c].pc \in Reading /\ StoreResult(call[c], page)
      /\ Return(c, Ok(Content(call[c]), page)) /\ now' = now /\ snapshots' = snapshots
    BY DEF StreamPage, Reading
<1>2. /\ TypeOK' /\ CallsSound' /\ Alone(c)
      /\ call[c].readAt \in Nat /\ now \in Nat /\ now - call[c].readAt <= Timeout
      /\ Len(Body(call[c].readAt)) \in Nat /\ call[c].offset \in Nat
    BY <1>1, ReadSound
<1>3. page.bytes \in 0 .. MaxPage
    BY <1>2, SizeAssumption, MaxPageAssumption, PagesFit
<1> HIDE DEF page
<1>4. CacheSound(results') /\ Cached(c)
    BY <1>1, <1>2, <1>3, StoreSound DEF IInv
<1> QED
    BY <1>1, <1>2, <1>4 DEF IInv

LEMMA GiveUpCaptureSound ==
    ASSUME IInv, NEW c \in Calls, GiveUpCapture(c)
    PROVE  IInv' /\ Alone(c) /\ Cached(c)
<1> DEFINE d == Body(call[c].readAt)
           page == PageFrom(d, FirstRead(Len(d)), 0, MaxPage)
<1>1. /\ call[c].pc \in Reading /\ StoreResult(call[c], page)
      /\ Return(c, Ok(Content(call[c]), page)) /\ now' = now /\ snapshots' = snapshots
    BY DEF GiveUpCapture, ServeFirstPage, Reading
<1>2. /\ TypeOK' /\ CallsSound' /\ Alone(c)
      /\ call[c].readAt \in Nat /\ now \in Nat /\ now - call[c].readAt <= Timeout
      /\ Len(d) \in Nat
    BY <1>1, ReadSound
<1>3. page.bytes \in 0 .. MaxPage
    <2>1. FirstRead(Len(d)) \in Nat
        BY <1>2, SizeAssumption, MaxPageAssumption, MinOfTwo DEF FirstRead, ReadChunk
    <2> QED
        BY <2>1, SizeAssumption, MaxPageAssumption, PagesFit
<1> HIDE DEF page
<1>4. CacheSound(results') /\ Cached(c)
    BY <1>1, <1>2, <1>3, StoreSound DEF IInv
<1> QED
    BY <1>1, <1>2, <1>4 DEF IInv

LEMMA FinishCaptureSound ==
    ASSUME IInv, NEW c \in Calls, FinishCapture(c)
    PROVE  IInv' /\ Alone(c) /\ Cached(c)
<1> DEFINE d == Body(call[c].readAt)
           size == CapturedSize(Len(d))
           page == PageFrom(d, size, 0, MaxPage)
           k == SnapKey(call[c])
           e == [value |-> [readAt |-> call[c].readAt, by |-> call[c].agent, size |-> size],
                 size |-> size, storedAt |-> now]
<1>1. /\ call[c].pc \in Reading /\ Return(c, Ok(Content(call[c]), page)) /\ now' = now
    BY DEF FinishCapture, Reading
<1>2. /\ TypeOK' /\ CallsSound' /\ Alone(c)
      /\ call[c].readAt \in Nat /\ now \in Nat /\ now - call[c].readAt <= Timeout
      /\ Len(d) \in Nat
    BY <1>1, ReadSound
<1>3. size \in Nat
    <2>1. FirstRead(Len(d)) \in Nat
        BY <1>2, SizeAssumption, MaxPageAssumption, MinOfTwo DEF FirstRead, ReadChunk
    <2>2. Max({CacheBudget, FirstRead(Len(d))}) \in Nat
        BY <2>1, SizeAssumption, MaxPageAssumption, MaxOfTwo
    <2> DEFINE n == Len(d)
               m == Max({CacheBudget, FirstRead(Len(d))})
    <2>3. n \in Nat /\ m \in Nat /\ size = Min({n, m})
        BY <1>2, <2>2 DEF CapturedSize
    <2> HIDE DEF n, m, size
    <2>4. Min({n, m}) \in Nat
        BY <2>3, MinOfTwo
    <2> QED
        BY <2>3, <2>4
<1>4. page.bytes \in 0 .. MaxPage
    BY <1>3, SizeAssumption, MaxPageAssumption, PagesFit
<1>5. CASE size <= CacheBudget
    <2>1. snapshots' = AfterPut(snapshots, k, e, CacheBudget) /\ results' = results
        BY <1>5 DEF FinishCapture
    <2> HIDE DEF size, d
    <2>2. EntrySound(k, e) /\ e.size \in 0 .. CacheBudget
        BY <1>2, <1>3, <1>5, SizeAssumption, MaxPageAssumption DEF EntrySound, SnapKey
    <2> HIDE DEF k, e
    <2>3. CacheSound(snapshots') /\ k \in DOMAIN snapshots'.items
        BY <2>1, <2>2, PutSound DEF IInv
    <2>4. Cached(c)
        BY <2>3 DEF Cached, k
    <2> QED
        BY <1>2, <2>1, <2>3, <2>4 DEF IInv
<1>6. CASE ~(size <= CacheBudget)
    <2>1. StoreResult(call[c], page) /\ snapshots' = snapshots
        BY <1>6 DEF FinishCapture
    <2> HIDE DEF page, size
    <2>2. CacheSound(results') /\ Cached(c)
        BY <1>2, <1>4, <2>1, StoreSound DEF IInv
    <2> QED
        BY <1>2, <2>1, <2>2 DEF IInv
<1> QED
    BY <1>5, <1>6

LEMMA TickSound ==
    ASSUME IInv, Tick
    PROVE  IInv' /\ answer' = answer
<1>1. /\ now < MaxTime /\ now' = now + 1
      /\ snapshots' = snapshots /\ results' = results /\ call' = call /\ answer' = answer
      /\ \A c \in Calls : call[c].pc \in OnWire => now - call[c].started < Timeout
    BY DEF Tick, OnNetwork, OnWire
<1>2. TypeOK'
    BY <1>1, ClockAssumption DEF IInv, TypeOK
<1>3. ASSUME NEW c \in Calls PROVE CallSound(call[c], answer[c], now + 1)
    <2>1. CallSound(call[c], answer[c], now) /\ TypeOK /\ now \in Nat
        BY ClockAssumption DEF IInv, CallsSound, TypeOK
    <2>2. CASE call[c].pc \in OnWire
        <3>1. call[c] \in Busy
            BY <2>1, <2>2, StartedIsBusy DEF OnWire
        <3>2. call[c].started \in Nat /\ call[c].readAt \in Nat
            BY <3>1 DEF Busy
        <3> QED
            BY <1>1, <2>1, <2>2, <3>2, ClockAssumption DEF CallSound
    <2>3. CASE call[c].pc \notin OnWire
        BY <2>1, <2>3 DEF CallSound, OnWire, Reading
    <2> QED
        BY <2>2, <2>3
<1>4. CallsSound'
    BY <1>1, <1>3 DEF CallsSound
<1> QED
    BY <1>1, <1>2, <1>4 DEF IInv

\* Every step keeps the invariant, and gives at most one answer, a cached one.
LEMMA StepSound ==
    ASSUME IInv, [Next]_vars
    PROVE  IInv' /\ (answer' = answer \/ \E c \in Calls : Alone(c) /\ Cached(c))
<1>1. CASE \E agent \in Callers, url \in Urls, o \in Offsets : Start(agent, url, o)
    BY <1>1, StartSound
<1>2. ASSUME NEW c \in Calls, Step(c)
      PROVE  IInv' /\ (answer' = answer \/ (Alone(c) /\ Cached(c)))
    BY <1>2, LookupResultSound, LookupSnapshotSound, RespondSound, FailSound,
       StreamPageSound, ReadFirstPageSound, GiveUpCaptureSound, FinishCaptureSound DEF Step
<1>3. CASE Tick
    BY <1>3, TickSound
<1>4. CASE UNCHANGED vars
    BY <1>4 DEF vars, IInv, TypeOK, CallsSound
<1> QED
    BY <1>1, <1>2, <1>3, <1>4 DEF Next, Finished, Callers

-----------------------------------------------------------------------------
(* The theorems.                                                           *)

\* The inductive invariant holds: both caches keep their list and their map in
\* step, and every entry and every call is bound to one agent and one exchange
\* (Fetch, fetch.go).
THEOREM Invariance == Spec => []IInv
<1>1. Init => IInv
    BY InitSound
<1>2. IInv /\ [Next]_vars => IInv'
    BY StepSound
<1> QED
    BY <1>1, <1>2, PTL DEF Spec

\* Whatever the agents, the URLs and the interleaving of their calls, what a
\* call of Fetch returns was read by a call of the same agent: the caches are
\* keyed by the caller (cacheKey, fetch.go).
THEOREM AgentsKeepApart == Spec => []AgentsAreIsolated
<1>1. IInv => AgentsAreIsolated
    BY DEF IInv, CallsSound, CallSound, AgentsAreIsolated, Answered
<1> QED
    BY <1>1, Invariance, PTL

\* An answer of Fetch is at most one time to live and one exchange old, however
\* its page travelled between the network, the snapshots and the results.
THEOREM AnswersAgeOnce == Spec => []AnswersAreFresh
<1>1. IInv => AnswersAreFresh
    BY DEF IInv, CallsSound, CallSound, AnswersAreFresh, Answered
<1> QED
    BY <1>1, Invariance, PTL

\* A call of an agent that succeeds leaves its document or its page in a
\* cache: no page, and no document captured, is larger than the budget, and
\* Put never evicts what it just stored if it fits (storeResult, captureAndPage,
\* Put).
THEOREM SuccessLeavesAnEntry == Spec => SuccessIsCached
<1> DEFINE A == \A c \in Calls :
                  answer'[c].status = "ok" /\ answer[c] = Pending /\ call[c].agent # NoAgent =>
                      \/ ResultKey(call[c]) \in DOMAIN results'.items
                      \/ SnapKey(call[c]) \in DOMAIN snapshots'.items
<1>1. IInv /\ [Next]_vars => A
    <2> SUFFICES ASSUME IInv, [Next]_vars, NEW x \in Calls PROVE Cached(x)
        BY DEF Cached
    <2>1. CASE answer' = answer
        BY <2>1 DEF Cached, Pending
    <2>2. ASSUME NEW c \in Calls, Alone(c), Cached(c) PROVE Cached(x)
        <3>1. CASE x = c
            BY <2>2, <3>1
        <3>2. CASE x # c
            BY <2>2, <3>2 DEF Alone, Cached, Pending
        <3> QED
            BY <3>1, <3>2
    <2> QED
        BY <2>1, <2>2, StepSound
<1> QED
    BY <1>1, Invariance, PTL DEF Spec, SuccessIsCached

-----------------------------------------------------------------------------
(* What is in the pages.  Two things are needed of what origins serve: no  *)
(* document is one byte over the budget and sent without its length, which *)
(* bodyEnded takes for complete (the run snapshot_prefix); and, where a    *)
(* page may come from a stream, that it is the same from there, as it is   *)
(* for UTF-8 text at every offset between two runes.                       *)

NoneOneOver ==
    \A t \in 0 .. MaxTime : Origin[t].sized \/ Len(Origin[t].body) # CacheBudget + 1

WholePage(t, from) == PageFrom(Body(t), Len(Body(t)), from, MaxPage)

SourcesAgree ==
    \A t \in 0 .. MaxTime, from \in Offsets :
        PageFromStream(Body(t), from, MaxPage) = WholePage(t, from)

\* Origins serve UTF-8, and callers ask for it between two runes, as a page's
\* next_offset does, or past its end.
TextServed ==
    \A t \in 0 .. MaxTime :
        /\ IsText(Body(t))
        /\ \A from \in Offsets : from > Len(Body(t)) \/ Boundary(Body(t), from)

LEMMA TextSourcesAgree ==
    ASSUME TextServed
    PROVE  SourcesAgree
<1> SUFFICES ASSUME NEW t \in 0 .. MaxTime, NEW from \in Offsets
             PROVE  PageFromStream(Body(t), from, MaxPage)
                        = PageFrom(Body(t), Len(Body(t)), from, MaxPage)
    BY DEF SourcesAgree, WholePage
<1> DEFINE d == Body(t)
<1>1. IsText(d) /\ Len(d) \in Nat /\ from \in Nat /\ (from > Len(d) \/ Boundary(d, from))
    BY TextEnds, DocumentBytes, OffsetAssumption DEF TextServed
<1>2. MaxPage \in Nat \ {0}
    BY MaxPageAssumption
<1> HIDE DEF d
<1>3. CASE from > Len(d)
    <2>1. ReadChunk(Len(d), from, MaxPage) = 0 /\ Len(d) <= from
        BY <1>1, <1>3 DEF ReadChunk
    <2>2. Min({0, MaxPage}) = 0 /\ (0 > MaxPage) = FALSE
        BY <1>2, MinOfTwo
    <2>3. Cut(d, from, 0) = 0
        <3>1. Cut(d, from, 0) \in 0 .. 0
            BY CutFits
        <3> QED
            BY <3>1
    <2>4. PageFromStream(d, from, MaxPage) = Page(from, 0, FALSE)
        BY <2>1, <2>2, <2>3 DEF PageFromStream
    <2>5. PageFrom(d, Len(d), from, MaxPage) = Page(from, 0, FALSE)
        BY <2>1 DEF PageFrom
    <2> QED
        BY <2>4, <2>5 DEF d
<1>4. CASE ~(from > Len(d))
    <2>1. from \in 0 .. Len(d) /\ Boundary(d, from)
        BY <1>1, <1>4
    <2> QED
        BY <1>1, <1>2, <2>1, PageOfText DEF d
<1> QED
    BY <1>3, <1>4

\* A call r whose answer is a: only first pages of documents that may fit are
\* captured, and the answer is a page of the whole document if it does not matter
\* where it came from.
CallRight(r, a) ==
    /\ r.pc \in {"capture", "rest"} =>
          r.offset = 0 /\ (Origin[r.readAt].sized => Len(Body(r.readAt)) <= CacheBudget)
    /\ SourcesAgree /\ a.status = "ok" => a.page = WholePage(a.readAt, r.offset)

CallsRight == \A c \in Calls : CallRight(call[c], answer[c])

ResultsRight ==
    SourcesAgree => \A k \in DOMAIN results.items :
        results.items[k].value.page = WholePage(results.items[k].value.readAt, k[3])

PageInv == SnapshotsAreWhole /\ ResultsRight /\ CallsRight

\* A page of the first bytes of a document is the document's, if the bytes are
\* all of it or go past the page.
LEMMA PrefixServes ==
    ASSUME NEW d, NEW n \in Nat, NEW m \in 0 .. n, m = n \/ m > MaxPage
    PROVE  PageFrom(d, m, 0, MaxPage) = PageFrom(d, n, 0, MaxPage)
<1>1. CASE m = n
    BY <1>1
<1>2. CASE m > MaxPage
    <2>1. MaxPage \in Nat /\ n > MaxPage /\ m \in Nat
        BY <1>2, SizeAssumption, MaxPageAssumption
    <2>2. ASSUME NEW x \in Nat, x > MaxPage
          PROVE  PageFrom(d, x, 0, MaxPage) = Page(0, Cut(d, 0, MaxPage), TRUE)
        <3>1. ~(x <= 0) /\ x > 0 + MaxPage /\ x - 0 = x
            BY <2>1, <2>2
        <3>2. Min({MaxPage, x}) = MaxPage
            BY <2>1, <2>2, MinOfTwo
        <3> QED
            BY <3>1, <3>2 DEF PageFrom
    <2> QED
        BY <1>2, <2>1, <2>2
<1> QED
    BY <1>1, <1>2

\* The first page's read, and the read of the rest: they end with the document,
\* or past the first page and with the budget.
LEMMA ReadsAreEnough ==
    ASSUME NEW n \in Nat
    PROVE  /\ FirstRead(n) \in 0 .. n /\ (FirstRead(n) = n \/ FirstRead(n) > MaxPage)
           /\ CapturedSize(n) \in 0 .. n /\ (CapturedSize(n) = n \/ CapturedSize(n) > MaxPage)
           /\ CapturedSize(n) <= CacheBudget => CapturedSize(n) = n \/ CapturedSize(n) = CacheBudget
<1>1. FirstRead(n) = IF n <= MaxPage + 1 THEN n ELSE MaxPage + 1
    <2>1. FirstRead(n) = Min({n, MaxPage + 1})
        BY DEF FirstRead, ReadChunk
    <2> QED
        BY <2>1, SizeAssumption, MaxPageAssumption, MinOfTwo
<1>2. FirstRead(n) \in 0 .. n /\ (FirstRead(n) = n \/ FirstRead(n) = MaxPage + 1)
    BY <1>1, SizeAssumption, MaxPageAssumption
<1> DEFINE f == FirstRead(n)
           m == Max({CacheBudget, f})
<1>3. f \in Nat /\ CacheBudget \in Nat
    BY <1>2, SizeAssumption, MaxPageAssumption
<1> HIDE DEF f
<1>4. m = IF CacheBudget >= f THEN CacheBudget ELSE f
    BY <1>3, MaxOfTwo
<1>5. m \in Nat /\ m >= CacheBudget /\ m >= f
    <2> HIDE DEF m
    <2> QED
        BY <1>3, <1>4
<1>6. CapturedSize(n) = Min({n, m})
    BY DEF CapturedSize, m, f
<1> HIDE DEF m
<1>7. CapturedSize(n) = IF n <= m THEN n ELSE m
    BY <1>5, <1>6, MinOfTwo
<1>8. CapturedSize(n) \in 0 .. n /\ (CapturedSize(n) = n \/ (CapturedSize(n) = m /\ n > m))
    BY <1>5, <1>7
<1>9. n > m => f > MaxPage
    BY <1>2, <1>5, SizeAssumption, MaxPageAssumption DEF f
<1> QED
    BY <1>2, <1>3, <1>5, <1>8, <1>9, SizeAssumption, MaxPageAssumption

\* What bodyEnded lets into the snapshot cache is the document.
LEMMA CaptureIsWhole ==
    ASSUME NoneOneOver, NEW t \in 0 .. MaxTime, NEW n \in Nat, n = Len(Body(t)),
           Origin[t].sized => n <= CacheBudget,
           BodyEnded(n), CapturedSize(n) <= CacheBudget
    PROVE  CapturedSize(n) = n
<1>1. CapturedSize(n) \in 0 .. n /\ (CapturedSize(n) = n \/ CapturedSize(n) = CacheBudget)
    BY ReadsAreEnough
<1>2. n - CapturedSize(n) <= 1
    BY DEF BodyEnded
<1>3. Origin[t].sized \/ n # CacheBudget + 1
    BY DEF NoneOneOver, Body
<1> QED
    BY <1>1, <1>2, <1>3, SizeAssumption, MaxPageAssumption

\* A step of one call leaves the pages of the others right.
LEMMA MovedRight ==
    ASSUME TypeOK, CallsRight, NEW c \in Calls, NEW s, call' = [call EXCEPT ![c] = s],
           \A x \in Calls \ {c} : answer'[x] = answer[x], CallRight(s, answer'[c])
    PROVE  CallsRight'
<1> SUFFICES ASSUME NEW x \in Calls PROVE CallRight(call'[x], answer'[x])
    BY DEF CallsRight
<1>1. CASE x = c
    <2>1. call'[x] = s
        BY <1>1 DEF TypeOK
    <2> QED
        BY <1>1, <2>1
<1>2. CASE x # c
    <2>1. call'[x] = call[x] /\ answer'[x] = answer[x]
        BY <1>2 DEF TypeOK
    <2> QED
        BY <2>1 DEF CallsRight
<1> QED
    BY <1>1, <1>2

LEMMA ReturnedRight ==
    ASSUME TypeOK, CallsRight, NEW c \in Calls, call[c].pc # "new", NEW v, Return(c, v),
           SourcesAgree /\ v.status = "ok" => v.page = WholePage(v.readAt, call[c].offset)
    PROVE  CallsRight'
<1> DEFINE s == [call[c] EXCEPT !.pc = "done", !.started = 0, !.readAt = 0]
<1>1. s.pc = "done" /\ s.offset = call[c].offset
    BY StartedIsBusy DEF Busy
<1>2. call' = [call EXCEPT ![c] = s]
    BY DEF Return, TypeOK
<1>3. answer'[c] = v /\ \A x \in Calls \ {c} : answer'[x] = answer[x]
    BY DEF Return, TypeOK
<1> HIDE DEF s
<1>4. CallRight(s, answer'[c])
    BY <1>1, <1>3 DEF CallRight
<1> QED
    BY <1>2, <1>3, <1>4, MovedRight

\* A call that returns what it has read returns a page of it.
LEMMA ReadRight ==
    ASSUME IInv, CallsRight, NEW c \in Calls, call[c].pc \in Reading, NEW page,
           Return(c, Ok(Content(call[c]), page)),
           SourcesAgree => page = WholePage(call[c].readAt, call[c].offset)
    PROVE  CallsRight'
<1>1. TypeOK /\ call[c].pc # "new"
    BY DEF IInv, Reading
<1>2. /\ Ok(Content(call[c]), page).page = page
      /\ Ok(Content(call[c]), page).readAt = call[c].readAt
    BY DEF Ok, Content
<1> QED
    BY <1>1, <1>2, ReturnedRight

\* storeResult of a page of the document.
LEMMA StoreRight ==
    ASSUME IInv, ResultsRight, NEW c \in Calls, NEW page, StoreResult(call[c], page),
           SourcesAgree => page = WholePage(call[c].readAt, call[c].offset)
    PROVE  ResultsRight'
<1> DEFINE k == ResultKey(call[c])
           e == [value |-> [readAt |-> call[c].readAt, by |-> call[c].agent, page |-> page],
                 size |-> page.bytes, storedAt |-> now]
<1>1. CASE call[c].agent = NoAgent
    BY <1>1 DEF StoreResult, ResultsRight
<1>2. CASE call[c].agent # NoAgent
    <2>1. results' = AfterPut(results, k, e, CacheBudget)
        BY <1>2 DEF StoreResult
    <2>2. SourcesAgree => e.value.page = WholePage(e.value.readAt, k[3])
        BY DEF ResultKey
    <2> HIDE DEF k, e
    <2>3. Linked(results) /\ CacheBudget \in Nat
        BY SizeAssumption, MaxPageAssumption DEF IInv, CacheSound
    <2>4. \A x \in DOMAIN results'.items :
             \/ x = k /\ results'.items[x] = e
             \/ x \in DOMAIN results.items /\ results'.items[x] = results.items[x]
        BY <2>1, <2>3, PutKeeps
    <2> QED
        BY <2>2, <2>4 DEF ResultsRight
<1> QED
    BY <1>1, <1>2

-----------------------------------------------------------------------------
(* The steps.                                                              *)

LEMMA StartRight ==
    ASSUME IInv, PageInv, NEW agent \in Callers, NEW url \in Urls, NEW o \in Offsets,
           Start(agent, url, o)
    PROVE  PageInv'
<1> DEFINE new == {x \in Calls : call[x].pc = "new"}
           c == CHOOSE x \in new : TRUE
           s == [pc |-> IF agent = NoAgent THEN "get" ELSE "results",
                 agent |-> agent, url |-> url, offset |-> o,
                 started |-> IF agent = NoAgent THEN now ELSE 0, readAt |-> 0]
<1>1. new # {} /\ call' = [call EXCEPT ![c] = s] /\ answer' = answer
      /\ snapshots' = snapshots /\ results' = results
    BY DEF Start
<1>2. c \in Calls /\ call[c].pc = "new"
    <2>1. c \in new
        BY <1>1
    <2> QED
        BY <2>1
<1>3. answer[c] = Pending
    BY <1>2 DEF IInv, CallsSound, CallSound
<1>4. s.pc \notin {"capture", "rest"}
    <2>1. CASE agent = NoAgent
        BY <2>1
    <2>2. CASE agent # NoAgent
        BY <2>2
    <2> QED
        BY <2>1, <2>2
<1> HIDE DEF new, c, s
<1>5. CallRight(s, answer'[c])
    BY <1>1, <1>3, <1>4 DEF CallRight, Pending
<1>6. CallsRight'
    BY <1>1, <1>2, <1>5, MovedRight DEF IInv, PageInv
<1> QED
    BY <1>1, <1>6 DEF PageInv, SnapshotsAreWhole, ResultsRight

LEMMA LookupResultRight ==
    ASSUME IInv, PageInv, NEW c \in Calls, LookupResult(c)
    PROVE  PageInv'
<1> DEFINE k == ResultKey(call[c])
           v == results.items[k].value
<1>0. TypeOK /\ CallsRight /\ Linked(results) /\ ResultsRight
    BY DEF IInv, CacheSound, PageInv
<1>1. /\ call[c].pc = "results" /\ results' = AfterGet(results, k, now, TTL)
      /\ snapshots' = snapshots
    BY DEF LookupResult
<1>2. Kept(results', results)
    BY <1>0, <1>1, GetKeeps
<1>3. ResultsRight' /\ SnapshotsAreWhole'
    BY <1>0, <1>1, <1>2 DEF Kept, ResultsRight, SnapshotsAreWhole, PageInv
<1>4. CASE Hits(results, k, now, TTL)
    <2>1. Return(c, Ok(v, v.page))
        BY <1>4 DEF LookupResult
    <2>2. (SourcesAgree => v.page = WholePage(v.readAt, k[3])) /\ k[3] = call[c].offset
        BY <1>0, <1>4 DEF ResultsRight, Hits, ResultKey
    <2> HIDE DEF k
    <2>3. Ok(v, v.page).page = v.page /\ Ok(v, v.page).readAt = v.readAt
        BY DEF Ok
    <2>4. CallsRight'
        BY <1>0, <1>1, <2>1, <2>2, <2>3, ReturnedRight
    <2> QED
        BY <1>3, <2>4 DEF PageInv
<1>5. CASE ~Hits(results, k, now, TTL)
    <2> DEFINE s == [call[c] EXCEPT !.pc = "snapshots"]
    <2>1. call' = [call EXCEPT ![c] = s] /\ answer' = answer
        BY <1>5 DEF LookupResult, Goto, IInv, TypeOK
    <2>2. s.pc = "snapshots"
        BY <1>0, <1>1, StartedIsBusy DEF Busy
    <2>3. answer[c] = Pending
        BY <1>1 DEF IInv, CallsSound, CallSound
    <2> HIDE DEF s, k
    <2>4. CallRight(s, answer'[c])
        BY <2>1, <2>2, <2>3 DEF CallRight, Pending
    <2>5. CallsRight'
        BY <1>0, <2>1, <2>4, MovedRight
    <2> QED
        BY <1>3, <2>5 DEF PageInv
<1> QED
    BY <1>4, <1>5

LEMMA LookupSnapshotRight ==
    ASSUME IInv, PageInv, NEW c \in Calls, LookupSnapshot(c)
    PROVE  PageInv'
<1> DEFINE k == SnapKey(call[c])
           v == snapshots.items[k].value
           p == PageFrom(Body(v.readAt), v.size, call[c].offset, MaxPage)
<1>0. TypeOK /\ CallsRight /\ Linked(snapshots) /\ SnapshotsAreWhole
    BY DEF IInv, CacheSound, PageInv
<1>1. /\ call[c].pc = "snapshots" /\ snapshots' = AfterGet(snapshots, k, now, TTL)
      /\ results' = results
    BY DEF LookupSnapshot
<1>2. Kept(snapshots', snapshots)
    BY <1>0, <1>1, GetKeeps
<1>3. ResultsRight' /\ SnapshotsAreWhole'
    BY <1>0, <1>1, <1>2 DEF Kept, ResultsRight, SnapshotsAreWhole, PageInv
<1>4. CASE Hits(snapshots, k, now, TTL)
    <2>1. Return(c, Ok(v, p))
        BY <1>4 DEF LookupSnapshot
    <2>2. p = WholePage(v.readAt, call[c].offset)
        BY <1>0, <1>4 DEF SnapshotsAreWhole, Hits, WholePage
    <2> HIDE DEF k, p
    <2>3. Ok(v, p).page = p /\ Ok(v, p).readAt = v.readAt
        BY DEF Ok
    <2>4. CallsRight'
        BY <1>0, <1>1, <2>1, <2>2, <2>3, ReturnedRight
    <2> QED
        BY <1>3, <2>4 DEF PageInv
<1>5. CASE ~Hits(snapshots, k, now, TTL)
    <2> DEFINE s == [call[c] EXCEPT !.pc = "get", !.started = now]
    <2>1. call' = [call EXCEPT ![c] = s] /\ answer' = answer
        BY <1>5 DEF LookupSnapshot, IInv, TypeOK
    <2>2. s.pc = "get"
        BY <1>0, <1>1, StartedIsBusy DEF Busy
    <2>3. answer[c] = Pending
        BY <1>1 DEF IInv, CallsSound, CallSound
    <2> HIDE DEF s, k
    <2>4. CallRight(s, answer'[c])
        BY <2>1, <2>2, <2>3 DEF CallRight, Pending
    <2>5. CallsRight'
        BY <1>0, <2>1, <2>4, MovedRight
    <2> QED
        BY <1>3, <2>5 DEF PageInv
<1> QED
    BY <1>4, <1>5

LEMMA RespondRight ==
    ASSUME IInv, PageInv, NEW c \in Calls, Respond(c)
    PROVE  PageInv'
<1> DEFINE s == [call[c] EXCEPT
                   !.pc = IF Captures(call[c], Origin[now]) THEN "capture" ELSE "stream",
                   !.readAt = now]
<1>1. /\ TypeOK /\ CallsRight /\ call[c].pc = "get" /\ call' = [call EXCEPT ![c] = s]
      /\ answer' = answer /\ snapshots' = snapshots /\ results' = results
    BY DEF Respond, IInv, TypeOK, PageInv
<1>2. s.readAt = now /\ s.offset = call[c].offset
      /\ (s.pc \in {"capture", "rest"} => Captures(call[c], Origin[now]))
    <2>1. call[c] \in Busy
        BY <1>1, StartedIsBusy
    <2>2. \A x : LET t == [call[c] EXCEPT !.pc = x, !.readAt = now]
                 IN  t.pc = x /\ t.readAt = now /\ t.offset = call[c].offset
        BY <2>1 DEF Busy
    <2>3. CASE Captures(call[c], Origin[now])
        BY <2>2, <2>3
    <2>4. CASE ~Captures(call[c], Origin[now])
        BY <2>2, <2>4
    <2> QED
        BY <2>3, <2>4
<1>3. answer[c] = Pending
    BY <1>1 DEF IInv, CallsSound, CallSound
<1> HIDE DEF s
<1>4. CallRight(s, answer'[c])
    BY <1>1, <1>2, <1>3 DEF CallRight, Captures, Pending, Body
<1>5. CallsRight'
    BY <1>1, <1>4, MovedRight
<1> QED
    BY <1>1, <1>5 DEF PageInv, SnapshotsAreWhole, ResultsRight

LEMMA ReadFirstPageRight ==
    ASSUME IInv, PageInv, NEW c \in Calls, ReadFirstPage(c)
    PROVE  PageInv'
<1> DEFINE s == [call[c] EXCEPT !.pc = "rest"]
<1>1. /\ TypeOK /\ CallsRight /\ call[c].pc = "capture" /\ call' = [call EXCEPT ![c] = s]
      /\ answer' = answer /\ snapshots' = snapshots /\ results' = results
    BY DEF ReadFirstPage, Goto, IInv, TypeOK, PageInv
<1>2. s.pc = "rest" /\ s.readAt = call[c].readAt /\ s.offset = call[c].offset
    BY <1>1, StartedIsBusy DEF Busy
<1>3. CallRight(call[c], answer[c])
    BY <1>1 DEF CallsRight
<1> HIDE DEF s
<1>4. CallRight(s, answer'[c])
    BY <1>1, <1>2, <1>3 DEF CallRight
<1>5. CallsRight'
    BY <1>1, <1>4, MovedRight
<1> QED
    BY <1>1, <1>5 DEF PageInv, SnapshotsAreWhole, ResultsRight

LEMMA FailRight ==
    ASSUME IInv, PageInv, NEW c \in Calls, Fail(c)
    PROVE  PageInv'
<1>1. /\ TypeOK /\ CallsRight /\ call[c].pc # "new" /\ Return(c, Failed)
      /\ snapshots' = snapshots /\ results' = results
    BY DEF Fail, IInv, PageInv
<1>2. Failed.status # "ok"
    BY DEF Failed
<1>3. CallsRight'
    BY <1>1, <1>2, ReturnedRight
<1> QED
    BY <1>1, <1>3 DEF PageInv, SnapshotsAreWhole, ResultsRight

LEMMA StreamPageRight ==
    ASSUME IInv, PageInv, NEW c \in Calls, StreamPage(c)
    PROVE  PageInv'
<1> DEFINE page == PageFromStream(Body(call[c].readAt), call[c].offset, MaxPage)
<1>1. /\ call[c].pc \in Reading /\ StoreResult(call[c], page)
      /\ Return(c, Ok(Content(call[c]), page)) /\ now' = now /\ snapshots' = snapshots
    BY DEF StreamPage, Reading
<1>2. call[c].readAt \in 0 .. MaxTime /\ call[c].offset \in Offsets
    <2>1. call[c].readAt \in 0 .. MaxTime
        BY <1>1, ReadSound
    <2>2. call[c] \in Busy
        BY <1>1, StartedIsBusy DEF IInv, Reading
    <2> QED
        BY <2>1, <2>2 DEF Busy
<1>3. SourcesAgree => page = WholePage(call[c].readAt, call[c].offset)
    BY <1>2 DEF SourcesAgree
<1> HIDE DEF page
<1>4. ResultsRight' /\ CallsRight'
    BY <1>1, <1>3, StoreRight, ReadRight DEF PageInv
<1> QED
    BY <1>1, <1>4 DEF PageInv, SnapshotsAreWhole

LEMMA GiveUpCaptureRight ==
    ASSUME IInv, PageInv, NEW c \in Calls, GiveUpCapture(c)
    PROVE  PageInv'
<1> DEFINE d == Body(call[c].readAt)
           page == PageFrom(d, FirstRead(Len(d)), 0, MaxPage)
<1>1. /\ call[c].pc \in Reading /\ call[c].pc = "rest" /\ StoreResult(call[c], page)
      /\ Return(c, Ok(Content(call[c]), page)) /\ now' = now /\ snapshots' = snapshots
    BY DEF GiveUpCapture, ServeFirstPage, Reading
<1>2. Len(d) \in Nat /\ call[c].offset = 0
    <2>1. Len(d) \in Nat
        BY <1>1, ReadSound
    <2> QED
        BY <1>1, <2>1 DEF PageInv, CallsRight, CallRight
<1>3. page = WholePage(call[c].readAt, call[c].offset)
    <2> DEFINE n == Len(d)
    <2>1. FirstRead(n) \in 0 .. n /\ (FirstRead(n) = n \/ FirstRead(n) > MaxPage)
        BY <1>2, ReadsAreEnough
    <2>2. PageFrom(d, FirstRead(n), 0, MaxPage) = PageFrom(d, n, 0, MaxPage)
        BY <1>2, <2>1, PrefixServes
    <2> QED
        BY <1>2, <2>2 DEF WholePage
<1> HIDE DEF page
<1>4. ResultsRight' /\ CallsRight'
    BY <1>1, <1>3, StoreRight, ReadRight DEF PageInv
<1> QED
    BY <1>1, <1>4 DEF PageInv, SnapshotsAreWhole

LEMMA FinishCaptureRight ==
    ASSUME IInv, PageInv, NoneOneOver, NEW c \in Calls, FinishCapture(c)
    PROVE  PageInv'
<1> DEFINE d == Body(call[c].readAt)
           size == CapturedSize(Len(d))
           page == PageFrom(d, size, 0, MaxPage)
           k == SnapKey(call[c])
           e == [value |-> [readAt |-> call[c].readAt, by |-> call[c].agent, size |-> size],
                 size |-> size, storedAt |-> now]
<1>1. /\ call[c].pc \in Reading /\ call[c].pc = "rest" /\ BodyEnded(Len(d))
      /\ Return(c, Ok(Content(call[c]), page)) /\ now' = now
    BY DEF FinishCapture, Reading
<1>2. /\ Len(d) \in Nat /\ call[c].readAt \in 0 .. MaxTime /\ call[c].offset = 0
      /\ Origin[call[c].readAt].sized => Len(d) <= CacheBudget
    <2>1. Len(d) \in Nat /\ call[c].readAt \in 0 .. MaxTime
        BY <1>1, ReadSound
    <2> QED
        BY <1>1, <2>1 DEF PageInv, CallsRight, CallRight
<1>3. page = WholePage(call[c].readAt, call[c].offset)
    <2> DEFINE n == Len(d)
    <2>1. size \in 0 .. n /\ (size = n \/ size > MaxPage)
        BY <1>2, ReadsAreEnough
    <2> HIDE DEF size
    <2>2. PageFrom(d, size, 0, MaxPage) = PageFrom(d, n, 0, MaxPage)
        BY <1>2, <2>1, PrefixServes
    <2> QED
        BY <1>2, <2>2 DEF WholePage
<1>4. CallsRight'
    <2> HIDE DEF page
    <2> QED
        BY <1>1, <1>3, ReadRight DEF PageInv
<1>5. CASE size <= CacheBudget
    <2>1. snapshots' = AfterPut(snapshots, k, e, CacheBudget) /\ results' = results
        BY <1>5 DEF FinishCapture
    <2>2. size = Len(d)
        BY <1>1, <1>2, <1>5, CaptureIsWhole
    <2>3. e.value.size = Len(Body(e.value.readAt))
        BY <2>2
    <2> HIDE DEF k, e
    <2>4. Linked(snapshots) /\ CacheBudget \in Nat
        BY SizeAssumption, MaxPageAssumption DEF IInv, CacheSound
    <2>5. \A x \in DOMAIN snapshots'.items :
             \/ x = k /\ snapshots'.items[x] = e
             \/ x \in DOMAIN snapshots.items /\ snapshots'.items[x] = snapshots.items[x]
        BY <2>1, <2>4, PutKeeps
    <2>6. SnapshotsAreWhole'
        BY <2>3, <2>5 DEF PageInv, SnapshotsAreWhole
    <2> QED
        BY <1>4, <2>1, <2>6 DEF PageInv, ResultsRight
<1>6. CASE ~(size <= CacheBudget)
    <2>1. StoreResult(call[c], page) /\ snapshots' = snapshots
        BY <1>6 DEF FinishCapture
    <2> HIDE DEF page, size
    <2>2. ResultsRight'
        BY <1>3, <2>1, StoreRight DEF PageInv
    <2> QED
        BY <1>4, <2>1, <2>2 DEF PageInv, SnapshotsAreWhole
<1> QED
    BY <1>5, <1>6

LEMMA StepRight ==
    ASSUME IInv, PageInv, NoneOneOver, [Next]_vars
    PROVE  PageInv'
<1>1. CASE \E agent \in Callers, url \in Urls, o \in Offsets : Start(agent, url, o)
    BY <1>1, StartRight
<1>2. ASSUME NEW c \in Calls, Step(c) PROVE PageInv'
    BY <1>2, LookupResultRight, LookupSnapshotRight, RespondRight, FailRight,
       StreamPageRight, ReadFirstPageRight, GiveUpCaptureRight, FinishCaptureRight DEF Step
<1>3. CASE Tick \/ UNCHANGED vars
    BY <1>3 DEF Tick, vars, PageInv, SnapshotsAreWhole, ResultsRight, CallsRight
<1> QED
    BY <1>1, <1>2, <1>3 DEF Next, Finished, Callers

LEMMA PageInvariance == NoneOneOver => (Spec => []PageInv)
<1> SUFFICES ASSUME NoneOneOver PROVE Spec => []PageInv
    OBVIOUS
<1>1. Init => PageInv
    <2> SUFFICES ASSUME Init PROVE PageInv
        OBVIOUS
    <2>1. DOMAIN snapshots.items = {} /\ DOMAIN results.items = {}
        BY DEF Init, EmptyCache
    <2>2. CallsRight
        BY DEF Init, CallsRight, CallRight, Idle, Pending
    <2> QED
        BY <2>1, <2>2 DEF PageInv, SnapshotsAreWhole, ResultsRight
<1>2. IInv /\ PageInv /\ [Next]_vars => PageInv'
    BY StepRight
<1> QED
    BY <1>1, <1>2, Invariance, PTL DEF Spec

\* Every snapshot is the whole document its call read, if no document is one
\* byte over the budget and sent without its length (captureRest, bodyEnded,
\* fetch.go).
THEOREM SnapshotsAreDocuments == NoneOneOver => (Spec => []SnapshotsAreWhole)
<1>1. PageInv => SnapshotsAreWhole
    BY DEF PageInv
<1> QED
    BY <1>1, PageInvariance, PTL

\* Every answer is the page of the whole document at the offset asked for,
\* whether it comes from the network, a snapshot, a first page given up or an
\* earlier call's result (Fetch, fetch.go).
THEOREM AnswersArePages == NoneOneOver /\ SourcesAgree => (Spec => []PagesAreRight)
<1> SUFFICES ASSUME NoneOneOver, SourcesAgree PROVE Spec => []PagesAreRight
    OBVIOUS
<1>1. PageInv => PagesAreRight
    BY DEF PageInv, CallsRight, CallRight, PagesAreRight, Answered, WholePage
<1> QED
    BY <1>1, PageInvariance, PTL

\* So it is for every origin of UTF-8 text and every agent that follows
\* next_offset, with nothing supposed of where pages come from (pageFrom,
\* pageFromStream, fetch.go).
THEOREM TextAnswersArePages == NoneOneOver /\ TextServed => (Spec => []PagesAreRight)
BY TextSourcesAgree, AnswersArePages

-----------------------------------------------------------------------------
(* The walk.  That its bytes are the document up to the next offset is not *)
(* inductive without the offset being between two runes: a cut that starts *)
(* inside a rune may keep nothing of a document's end.                     *)

\* The origin serves UTF-8.
Texts == \A d \in Documents : IsText(d)

WalkInv ==
    /\ doc \in Documents
    /\ offset \in 0 .. Len(doc)
    /\ taken \in 0 .. Len(doc)
    /\ done \in BOOLEAN
    /\ PagesAreText
    /\ WalkIsWhole

\* The first page begins the document.
LEMMA WalkInitSound ==
    ASSUME Texts, WalkInit
    PROVE  WalkInv
<1>1. doc \in Documents /\ offset = 0 /\ taken = 0 /\ done = FALSE
    BY DEF WalkInit
<1>2. Len(doc) \in Nat
    BY <1>1, TextEnds, DocumentBytes DEF Texts
<1>3. PagesAreText /\ WalkIsWhole
    BY <1>1 DEF PagesAreText, WalkIsWhole, Boundary
<1>4. offset \in 0 .. Len(doc) /\ taken \in 0 .. Len(doc)
    BY <1>1, <1>2
<1>5. done \in BOOLEAN
    BY <1>1
<1> QED
    BY <1>1, <1>3, <1>4, <1>5 DEF WalkInv

\* A page of n bytes that ends between two runes.
LEMMA ReceiveSound ==
    ASSUME WalkInv, Texts, NEW n \in 0 .. Len(doc) - offset, Boundary(doc, offset + n),
           \/ Receive(Page(offset, n, TRUE))
           \/ Receive(Page(offset, n, FALSE)) /\ offset + n = Len(doc)
    PROVE  WalkInv'
<1>1. /\ ~done /\ doc' = doc /\ taken' = taken + n /\ doc \in Documents
      /\ taken = offset /\ offset \in 0 .. Len(doc)
    BY DEF Receive, Page, WalkInv, WalkIsWhole
<1>2. Len(doc) \in Nat
    BY <1>1, TextEnds, DocumentBytes DEF Texts
<1>3. taken' = offset + n /\ taken' \in 0 .. Len(doc)
    BY <1>1, <1>2
<1>4. CASE Receive(Page(offset, n, TRUE))
    <2>1. done' = FALSE /\ offset' = offset + n
        BY <1>4, Zenon DEF Receive, Page
    <2> QED
        BY <1>1, <1>3, <2>1 DEF WalkInv, PagesAreText, WalkIsWhole
<1>5. CASE Receive(Page(offset, n, FALSE)) /\ offset + n = Len(doc)
    <2>1. done' = TRUE /\ offset' = 0
        BY <1>5, Zenon DEF Receive, Page
    <2> QED
        BY <1>1, <1>2, <1>3, <1>5, <2>1 DEF WalkInv, PagesAreText, WalkIsWhole, Boundary
<1> QED
    BY <1>4, <1>5

LEMMA WalkNextSound ==
    ASSUME Texts, WalkInv, [WalkNext]_walkVars
    PROVE  WalkInv'
<1>1. /\ IsText(doc) /\ offset \in 0 .. Len(doc) /\ Boundary(doc, offset)
      /\ MaxPage \in Nat \ {0}
    BY MaxPageAssumption DEF WalkInv, Texts, PagesAreText
<1>2. CASE TakeFromSnapshot \/ TakeFromStream
    <2>1. Receive(PageFrom(doc, Len(doc), offset, MaxPage))
        BY <1>1, <1>2, PageOfText DEF TakeFromSnapshot, TakeFromStream
    <2>2. PICK n \in 0 .. Len(doc) - offset :
              /\ Boundary(doc, offset + n)
              /\ \/ PageFrom(doc, Len(doc), offset, MaxPage) = Page(offset, n, TRUE)
                 \/ /\ PageFrom(doc, Len(doc), offset, MaxPage) = Page(offset, n, FALSE)
                    /\ offset + n = Len(doc)
        BY <1>1, PageOfText
    <2> QED
        BY <2>1, <2>2, ReceiveSound
<1>3. CASE UNCHANGED walkVars
    BY <1>3 DEF walkVars, WalkInv, PagesAreText, WalkIsWhole
<1> QED
    BY <1>2, <1>3 DEF WalkNext, WalkFinished

LEMMA WalkInvariance == Texts => (WalkSpec => []WalkInv)
<1> SUFFICES ASSUME Texts PROVE WalkSpec => []WalkInv
    OBVIOUS
<1>1. WalkInit => WalkInv
    BY WalkInitSound
<1>2. WalkInv /\ [WalkNext]_walkVars => WalkInv'
    BY WalkNextSound
<1> QED
    BY <1>1, <1>2, PTL DEF WalkSpec

-----------------------------------------------------------------------------
(* What the walk shows.                                                    *)

\* Every page of a text starts and ends between two runes, wherever the agent's
\* loop has got to (cutToUTF8Boundary, fetch.go).
THEOREM EveryPageIsText == Texts => (WalkSpec => []PagesAreText)
<1>1. WalkInv => PagesAreText
    BY DEF WalkInv
<1> QED
    BY <1>1, WalkInvariance, PTL

\* Page by page, in any mix of snapshot and stream, an agent gets a text whole:
\* no byte lost and none twice, for every page size (pageFrom, pageFromStream,
\* fetch.go).
THEOREM PagesMakeTheWhole == Texts => (WalkSpec => []WalkIsWhole)
<1>1. WalkInv => WalkIsWhole
    BY DEF WalkInv
<1> QED
    BY <1>1, WalkInvariance, PTL

\* The next page of a text is the same from the snapshot and from the stream
\* (pageFrom against pageFromStream and readChunk, fetch.go).
THEOREM SourcesGiveOnePage == Texts => (WalkSpec => []SnapshotAndStreamAgree)
<1> SUFFICES ASSUME Texts PROVE WalkSpec => []SnapshotAndStreamAgree
    OBVIOUS
<1>1. WalkInv => SnapshotAndStreamAgree
    BY PageOfText, MaxPageAssumption
       DEF WalkInv, Texts, PagesAreText, SnapshotAndStreamAgree, FromSnapshot, FromStream
<1> QED
    BY <1>1, WalkInvariance, PTL

\* The recorder's preview of a text is as long as its limit and the runes allow,
\* for every setting of the limit (PreviewLimit, TruncateUTF8, recorder.go).
THEOREM PreviewsAreLongest == Texts => (WalkSpec => []PreviewIsLongest)
<1> SUFFICES ASSUME Texts PROVE WalkSpec => []PreviewIsLongest
    OBVIOUS
<1>1. WalkInv => PreviewIsLongest
    <2> SUFFICES ASSUME WalkInv, NEW previewBytes \in -1 .. MaxPage
                 PROVE  LET limit   == PreviewLimit(previewBytes, DefaultPreview)
                            preview == TruncateUTF8(doc, limit)
                        IN  /\ preview.bytes
                                  = Max({n \in 0 .. Min({limit, Len(doc)}) : Boundary(doc, n)})
                            /\ preview.truncated <=> preview.bytes < Len(doc)
        BY DEF PreviewIsLongest
    <2> DEFINE limit == PreviewLimit(previewBytes, DefaultPreview)
    <2>1. limit \in Nat
        BY MaxPageAssumption, PreviewAssumption DEF PreviewLimit
    <2>2. IsText(doc)
        BY DEF WalkInv, Texts
    <2> HIDE DEF limit
    <2>3. /\ TruncateUTF8(doc, limit).bytes
                = Max({n \in 0 .. Min({limit, Len(doc)}) : Boundary(doc, n)})
          /\ TruncateUTF8(doc, limit).truncated <=> TruncateUTF8(doc, limit).bytes < Len(doc)
        BY <2>1, <2>2, PreviewOfText
    <2> QED
        BY <2>3 DEF limit
<1> QED
    BY <1>1, WalkInvariance, PTL
=============================================================================
