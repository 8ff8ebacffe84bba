---------------------------- MODULE HistoryPage ----------------------------
(***************************************************************************)
(* The history page of web/src/pages/History.jsx over the listing of       *)
(* internal/restapi/history.go.  A change of the filter cancels the first  *)
(* page under way and asks for another; "Load more" asks for the page      *)
(* after the last one, is never cancelled and may be clicked again before  *)
(* it is answered.  Requests are answered in any order, by a server that   *)
(* reads the cursor's row and the page in two statements, over a table     *)
(* that recorders and the sweep change (ToolCalls).                        *)
(***************************************************************************)
EXTENDS ToolCalls, Sequences

CONSTANTS
    Table,      \* the calls recorded before the page is opened: the possible tables
    OpenedAt,   \* when the page is opened
    MaxMore,    \* bound on the Load more requests under way, for TLC
    MaxClicks   \* bound on the user's clicks, for TLC

\* Tables are finite and have a primary key.
ASSUME TableAssumption ==
    /\ OpenedAt \in Nat
    /\ \A T \in Table :
          /\ T \subseteq Row /\ IsFiniteSet(T)
          /\ \A x, y \in T : x.id = y.id => x = y
ASSUME RequestsAssumption == MaxMore \in Nat /\ MaxClicks \in Nat

\* The requests that may be under way: the first page's is number 0.
Slots == 0 .. MaxMore

VARIABLES
    page,       \* the component's state, and its clicks
    request,    \* request[q]: a request under way
    crossed,    \* a Load more overlapped another one or a change of the filter
    cut,        \* a Load more met an error answer
    start       \* rows of the filter that were there when its first page was read

pageVars == <<page, request, crossed, cut, start>>
vars == <<tableVars, pageVars>>

Free == [pc |-> "free"]

Request(f, cursor) ==
    [pc |-> IF cursor = Absent THEN "page" ELSE "cursor", filter |-> f,
     cursor |-> cursor, after |-> Absent]

Busy(q) == request[q].pc # "free"
MoreSlots == Slots \ {0}
MoreUnderWay == \E q \in MoreSlots : Busy(q)

\* The page is opened: its effect asks for the first page.
Init ==
    /\ now = OpenedAt
    /\ rows \in Table
    /\ used = {r.id : r \in rows}
    /\ pending = {}
    /\ \E f \in Filters :
          /\ page = [filter |-> f, calls |-> << >>, next |-> Absent, loading |-> TRUE,
                     error |-> FALSE, clicks |-> 0]
          /\ request = [q \in Slots |-> IF q = 0 THEN Request(f, Absent) ELSE Free]
    /\ crossed = FALSE
    /\ cut = FALSE
    /\ start = {}

-----------------------------------------------------------------------------
(* The user.                                                               *)

\* The effect that does not run again while a first page is under way (mutant).
FirstRequested(f) == IF Busy(0) THEN request ELSE [request EXCEPT ![0] = Request(f, Absent)]

\* The effect asks for the first page of the filter; its cleanup has cancelled
\* the one under way, whose answer will be ignored.
FirstRequest(f) == [request EXCEPT ![0] = Request(f, Absent)]

\* setFilter changes the search parameters and the effect runs again.  The
\* list stays, hidden by the loading state.
ChooseFilter(f) ==
    /\ page.clicks < MaxClicks
    /\ f # page.filter
    /\ page' = [page EXCEPT !.filter = f, !.loading = TRUE, !.error = FALSE, !.clicks = @ + 1]
    /\ request' = FirstRequest(f)
    /\ crossed' = MoreUnderWay
    /\ cut' = FALSE
    /\ UNCHANGED <<tableVars, start>>

\* The button is there while the list is and a next cursor is known.
LoadMore(q) ==
    /\ \A p \in MoreSlots : p < q => Busy(p)
    /\ page.clicks < MaxClicks
    /\ ~page.loading /\ page.calls # << >> /\ page.next # Absent
    /\ ~Busy(q)
    /\ request' = [request EXCEPT ![q] = Request(page.filter, page.next)]
    /\ crossed' = (crossed \/ MoreUnderWay)
    /\ page' = [page EXCEPT !.clicks = @ + 1]
    /\ UNCHANGED <<tableVars, cut, start>>

-----------------------------------------------------------------------------
(* The server.                                                             *)

\* The answers that carry no page.
Without(pc) == [pc |-> pc]

\* ListToolCalls looks the cursor's row up; an unknown one answers 400.
ReadCursor(q) ==
    /\ request[q].pc = "cursor"
    /\ IF CursorRows(request[q].cursor) = {}
       THEN request' = [request EXCEPT ![q] = Without("refused")]
       ELSE \E r \in CursorRows(request[q].cursor) :
              request' = [request EXCEPT ![q].pc = "page", ![q].after = r]
    /\ UNCHANGED <<tableVars, page, crossed, cut, start>>

\* ... and reads the page after it.
ReadPage(q) ==
    /\ request[q].pc = "page"
    /\ LET C == Selected(request[q].filter, request[q].after)
       IN  \E P \in SUBSET C :
             /\ IsPage(P, C)
             /\ request' = [request EXCEPT ![q] =
                   [pc |-> "ok", calls |-> Listing(P), next |-> NextCursor(P), there |-> C]]
    /\ UNCHANGED <<tableVars, page, crossed, cut, start>>

\* A query fails: an error answer in JSON.
Fail(q) ==
    /\ request[q].pc \in {"cursor", "page"}
    /\ request' = [request EXCEPT ![q] = Without("failed")]
    /\ UNCHANGED <<tableVars, page, crossed, cut, start>>

\* No answer, or none that is JSON, such as the 401 of an ended session.
Disconnect(q) ==
    /\ request[q].pc \in {"cursor", "page"}
    /\ request' = [request EXCEPT ![q] = Without("broken")]
    /\ UNCHANGED <<tableVars, page, crossed, cut, start>>

-----------------------------------------------------------------------------
(* The answers.                                                            *)

Answered(q) == request[q].pc \in {"ok", "refused", "failed", "broken"}

\* The first page that only a good answer ends the loading of (mutant).
FirstPageStuck ==
    /\ Answered(0)
    /\ IF request[0].pc = "ok"
       THEN /\ page' = [page EXCEPT !.calls = request[0].calls, !.next = request[0].next,
                                    !.loading = FALSE]
            /\ start' = request[0].there
       ELSE page' = [page EXCEPT !.error = TRUE] /\ UNCHANGED start
    /\ request' = [request EXCEPT ![0] = Free]
    /\ UNCHANGED <<tableVars, crossed, cut>>

\* The first page replaces the list; any failure leaves it and shows the error.
FirstPage ==
    /\ Answered(0)
    /\ IF request[0].pc = "ok"
       THEN /\ page' = [page EXCEPT !.calls = request[0].calls, !.next = request[0].next,
                                    !.loading = FALSE]
            /\ start' = request[0].there
       ELSE page' = [page EXCEPT !.error = TRUE, !.loading = FALSE] /\ UNCHANGED start
    /\ request' = [request EXCEPT ![0] = Free]
    /\ UNCHANGED <<tableVars, crossed, cut>>

\* The cursor of an answer; an error body has none.
CursorOf(q) == IF request[q].pc = "ok" THEN request[q].next ELSE Absent

\* An answer whose calls replace the list (mutant).
ReplacedBy(q) == IF request[q].pc = "ok" THEN request[q].calls ELSE << >>

\* Another page is appended to whatever the list is by now; an error body has
\* no calls.
ListWith(q) == IF request[q].pc = "ok" THEN page.calls \o request[q].calls ELSE page.calls

\* The status of the answer is not looked at, so that an error reads as the end
\* of the history; only a broken connection is shown.
MorePage(q) ==
    /\ q # 0 /\ Answered(q)
    /\ page' = IF request[q].pc = "broken"
               THEN [page EXCEPT !.error = TRUE]
               ELSE [page EXCEPT !.calls = ListWith(q), !.next = CursorOf(q)]
    /\ cut' = (cut \/ request[q].pc = "failed")
    /\ request' = [request EXCEPT ![q] = Free]
    /\ UNCHANGED <<tableVars, crossed, start>>

Serve(q) ==
    \/ ReadCursor(q)
    \/ ReadPage(q)
    \/ q = 0 /\ FirstPage
    \/ MorePage(q)

Next ==
    \/ TableNext /\ UNCHANGED pageVars
    \/ \E f \in Filters : ChooseFilter(f)
    \/ \E q \in MoreSlots : LoadMore(q)
    \/ \E q \in Slots : Serve(q) \/ Fail(q) \/ Disconnect(q)

\* Requests are answered, or their connections break.
Spec == Init /\ [][Next]_vars /\ \A q \in Slots : WF_vars(Serve(q))

-----------------------------------------------------------------------------
(* Properties.                                                             *)

\* A list nobody warned the user about.
Shown == ~page.loading /\ ~page.error

\* "browse and filter history": the list shows calls of the filter selected and
\* no others, newest first and none twice, whatever order answers come in and
\* however the table changes; except after a Load more overlapped a second one
\* or a change of the filter, which nothing in the page keeps apart.
ListIsOfFilter ==
    Shown /\ ~crossed =>
        /\ \A i \in DOMAIN page.calls : Matches(page.filter, page.calls[i])
        /\ \A i, j \in DOMAIN page.calls : i < j => Older(page.calls[j], page.calls[i])

\* Older than the retention, if there is one.
Outlived(r) == Retention > 0 /\ now - r.calledAt > Retention

\* "an OFFSET page would silently shift as new calls arrive": a list that offers
\* no more is all there is.  Every call of the filter that was there when its
\* first page was read is in the list, or gone because it outlived the retention
\* ("prune everything must never be what an unset flag means"), also where the
\* row of a cursor was pruned between two pages.  Except after a Load more was
\* answered with a server error, which the page takes for the end.
EndIsTheEnd ==
    Shown /\ ~crossed /\ ~cut /\ page.next = Absent =>
        \A r \in start : \/ \E i \in DOMAIN page.calls : page.calls[i] = r
                         \/ r \notin rows /\ Outlived(r)

\* "Loading..." ends, whatever the server answers and the user clicks.
LoadingEnds == []( page.loading => <>~page.loading )
=============================================================================
