-------------------------------- MODULE Walk --------------------------------
(***************************************************************************)
(* An agent reading a document the way Result describes: "call with the    *)
(* last next_offset, stop when truncated is false".  Each call may be      *)
(* served from a snapshot (pageFrom) or from the live stream               *)
(* (pageFromStream): which one depends on the caches, and the agent cannot *)
(* tell.  The document does not change during the walk.                    *)
(***************************************************************************)
EXTENDS Pages

CONSTANTS
    Documents,  \* the documents an origin may serve
    DefaultPreview \* DefaultPreviewBytes of the recorder

ASSUME DocumentsAssumption == \A d \in Documents : IsDocument(d)
ASSUME PreviewAssumption == DefaultPreview \in Nat \ {0}

VARIABLES
    doc,        \* the document walked
    offset,     \* the offset of the next call
    taken,      \* bytes received so far
    done        \* the last page had truncated = false

walkVars == <<doc, offset, taken, done>>

WalkInit ==
    /\ doc \in Documents
    /\ offset = 0
    /\ taken = 0
    /\ done = FALSE

\* The agent receives a page and follows it.
Receive(page) ==
    /\ ~done
    /\ taken' = taken + page.bytes
    /\ done' = ~page.truncated
    /\ offset' = page.next
    /\ UNCHANGED doc

TakeFromSnapshot == Receive(PageFrom(doc, Len(doc), offset, MaxPage))

TakeFromStream == Receive(PageFromStream(doc, offset, MaxPage))

\* The walk is over: the agent makes no further call.
WalkFinished == done /\ UNCHANGED walkVars

WalkNext == TakeFromSnapshot \/ TakeFromStream \/ WalkFinished

\* An agent that has not seen the end keeps calling.
WalkSpec == WalkInit /\ [][WalkNext]_walkVars /\ WF_walkVars(TakeFromSnapshot \/ TakeFromStream)

-----------------------------------------------------------------------------

\* "truncation lands on a UTF-8 rune boundary so every page - and the
\* continuation, which resumes at the cut - is valid text": every page starts
\* and ends between two runes.
PagesAreText ==
    Boundary(doc, offset) /\ Boundary(doc, taken)

\* "Walking a document to the end page by page must return it whole, in order,
\* with no lost or duplicated bytes": at every moment the bytes received are
\* the document up to the next offset, and all of it at the end.
WalkIsWhole ==
    IF done THEN taken = Len(doc) ELSE taken = offset

\* The page the next call returns from the snapshot, and from the stream.
FromSnapshot == PageFrom(doc, Len(doc), offset, MaxPage)
FromStream == PageFromStream(doc, offset, MaxPage)

\* A page does not depend on whether the snapshot or the stream served it.
SnapshotAndStreamAgree == FromSnapshot = FromStream

\* "cuts s to at most limit bytes without splitting a rune, and reports whether
\* anything was dropped": whatever PreviewBytes is set to, zero and negative
\* included, a stored preview is the longest prefix of the answer within the
\* limit that ends between two runes, and it is marked truncated exactly when it
\* is not the whole answer.
PreviewIsLongest ==
    \A previewBytes \in -1 .. MaxPage :
        LET limit   == PreviewLimit(previewBytes, DefaultPreview)
            preview == TruncateUTF8(doc, limit)
        IN  /\ preview.bytes = Max({n \in 0 .. Min({limit, Len(doc)}) : Boundary(doc, n)})
            /\ preview.truncated <=> preview.bytes < Len(doc)

\* The loop "stop when truncated is false" ends.
WalkEnds == <>done
=============================================================================
