------------------------------- MODULE Pages -------------------------------
(***************************************************************************)
(* Cutting a document into pages: the pure part of                         *)
(* internal/tools/fetch/fetch.go (pageFrom, pageFromStream, readChunk,     *)
(* cutToUTF8Boundary), and the preview that internal/recorder stores of an *)
(* answer, cut the same way.                                               *)
(*                                                                         *)
(* A document is a sequence d with one element per byte: d[i] is the width *)
(* of the valid UTF-8 rune whose last byte is byte i, and 0 when no valid  *)
(* rune ends there.  That is all the code looks at: DecodeLastRune of a    *)
(* slice succeeds iff a valid rune ends at its end and starts inside it.   *)
(***************************************************************************)
EXTENDS Integers, Sequences, FiniteSetsExt

CONSTANT MaxPage    \* the Fetcher's maxBytes: the size of a page

ASSUME MaxPageAssumption == MaxPage \in Nat \ {0}

\* UTF-8 encodes a rune in 1 to 4 bytes (utf8.UTFMax).
UTFMax == 4

\* A byte sequence: two valid runes never share a byte.
IsDocument(d) ==
    /\ d \in Seq(0 .. UTFMax)
    /\ \A i \in 1 .. Len(d) :
          d[i] > 0 => d[i] <= i /\ \A j \in (i - d[i] + 1) .. (i - 1) : d[j] = 0

\* Valid UTF-8 throughout: every byte belongs to a rune.
IsText(d) ==
    /\ IsDocument(d)
    /\ \A j \in 1 .. Len(d) : \E i \in j .. Len(d) : d[i] > i - j

\* A rune ends at (or the document starts at) byte offset o.
Boundary(d, o) == o = 0 \/ d[o] > 0

\* A trim that never keeps a rune which fills the slice (mutant).
DecodableStrictly(d, from, n) == d[from + n] \in 1 .. n - 1

\* DecodeLastRune of the n bytes after offset from finds a rune.
Decodable(d, from, n) == d[from + n] \in 1 .. n

\* The trim that counts one byte too many (mutant).
CutLongByOne(d, from, n) ==
    LET kept == Max({0} \cup {m \in 1 .. n : Decodable(d, from, m)})
    IN  IF kept < n THEN kept + 1 ELSE kept

\* cutToUTF8Boundary of the n bytes after offset from: how many it keeps.
Cut(d, from, n) == Max({0} \cup {m \in 1 .. n : Decodable(d, from, m)})

\* A page whose NextOffset is relative to the page (mutant).
PageRelative(offset, bytes, truncated) ==
    [offset |-> offset, bytes |-> bytes, truncated |-> truncated,
     next |-> IF truncated THEN bytes ELSE 0]

\* One page, as Result reports it: Offset, Bytes, Truncated, NextOffset.
Page(offset, bytes, truncated) ==
    [offset |-> offset, bytes |-> bytes, truncated |-> truncated,
     next |-> IF truncated THEN offset + bytes ELSE 0]

\* readChunk: the bytes read after skipping offset, one more than a page at
\* most so that a body ending exactly on the page is not called truncated.
\* Skipping past the end leaves nothing to read.
ReadChunk(size, offset, maxBytes) ==
    IF size < offset THEN 0 ELSE Min({size - offset, maxBytes + 1})

\* pageFromStream: the trim applies to every page, the last one too.
PageFromStream(d, offset, maxBytes) ==
    LET read == ReadChunk(Len(d), offset, maxBytes)
    IN  Page(offset, Cut(d, offset, Min({read, maxBytes})), read > maxBytes)

\* pageFrom that calls a body ending on the page truncated (mutant).
PageFromOffByOne(d, size, offset, maxBytes) ==
    IF size <= offset
    THEN Page(offset, 0, FALSE)
    ELSE LET n         == Min({maxBytes, size - offset})
             truncated == size >= offset + maxBytes
         IN  Page(offset, IF truncated THEN Cut(d, offset, n) ELSE n, truncated)

\* pageFrom of a body that is the first size bytes of d: only a page that the
\* body continues past is trimmed.
PageFrom(d, size, offset, maxBytes) ==
    IF size <= offset
    THEN Page(offset, 0, FALSE)
    ELSE LET n         == Min({maxBytes, size - offset})
             truncated == size > offset + maxBytes
         IN  Page(offset, IF truncated THEN Cut(d, offset, n) ELSE n, truncated)

\* PreviewLimit: a limit that is not positive means the default.
PreviewLimit(previewBytes, default) == IF previewBytes <= 0 THEN default ELSE previewBytes

\* A preview cut at the limit, whatever is there (mutant).
TruncateAnywhere(d, limit) == [bytes |-> Min({Len(d), limit}), truncated |-> Len(d) > limit]

\* TruncateUTF8 of an encoded answer, which is valid UTF-8.
TruncateUTF8(d, limit) ==
    IF Len(d) <= limit
    THEN [bytes |-> Len(d), truncated |-> FALSE]
    ELSE [bytes |-> Cut(d, 0, limit), truncated |-> TRUE]
=============================================================================
