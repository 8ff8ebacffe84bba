------------------------------ MODULE ToolCalls ------------------------------
(***************************************************************************)
(* The tool_calls table of internal/storage/history_repo.go: concurrent    *)
(* recorders append rows, the retention sweep deletes old ones, and a      *)
(* listing query reads one page newest first, after the row of a cursor.   *)
(* Who reads, and in how many statements, is up to the module that extends *)
(* this one.                                                               *)
(***************************************************************************)
EXTENDS Integers, FiniteSets

CONSTANTS
    Ids,        \* row ids; random UUIDs in the code, so any unused one comes next
    Actors, Tools,
    MaxPending, \* tool calls being recorded at the same time
    Absent,     \* an absent filter field, or an absent cursor
    Filters,    \* the filters readers use
    Limit,      \* the limit the reader asks for; 0 when it names none
    DefaultPageSize, MaxPageSize,
    Retention,  \* --history-retention; <= 0 keeps everything
    MaxTime     \* bound on the clock, for TLC

\* The rows of the table.
Row == [id : Ids, actor : Actors, tool : Tools, isError : BOOLEAN, calledAt : Nat]

ASSUME IdsAssumption == Ids \subseteq Nat
ASSUME AbsentAssumption ==
    Absent \notin Actors /\ Absent \notin Tools /\ Absent \notin BOOLEAN
        /\ Absent \notin Ids /\ Absent \notin Row
ASSUME FiltersAssumption ==
    Filters \subseteq [actor : Actors \cup {Absent}, tool : Tools \cup {Absent},
                       isError : BOOLEAN \cup {Absent}]
ASSUME PageSizeAssumption ==
    /\ DefaultPageSize \in Nat \ {0} /\ MaxPageSize \in Nat
    /\ Limit \in Int
ASSUME RetentionAssumption == Retention \in Int /\ MaxTime \in Nat /\ MaxPending \in Nat

VARIABLES
    now,
    rows,       \* the table: a set of rows
    used,       \* ids ever given out
    pending     \* rows with an id and a time whose insert has not committed

tableVars == <<now, rows, used, pending>>

Matches(f, r) ==
    /\ f.actor \in {Absent, r.actor}
    /\ f.tool \in {Absent, r.tool}
    /\ f.isError \in {Absent, r.isError}

\* The keyset condition (called_at < ?) OR (called_at = ? AND id < ?), which is
\* also the order of the listing, called_at DESC, id DESC.
Older(x, y) ==
    \/ x.calledAt < y.calledAt
    \/ x.calledAt = y.calledAt /\ x.id < y.id

\* The page size of ListToolCalls.
PageSize == IF Limit <= 0 \/ Limit > MaxPageSize THEN DefaultPageSize ELSE Limit

-----------------------------------------------------------------------------
(* Recording.                                                              *)

\* RecordToolCall gives the call an id and the time.
Stamp(id, actor, tool, isError) ==
    /\ Cardinality(pending) < MaxPending
    /\ id \notin used
    /\ used' = used \cup {id}
    /\ pending' = pending \cup
          {[id |-> id, actor |-> actor, tool |-> tool, isError |-> isError, calledAt |-> now]}
    /\ UNCHANGED <<now, rows>>

\* Its insert commits later, and not necessarily in the order of the stamps.
Insert(r) ==
    /\ pending' = pending \ {r}
    /\ rows' = rows \cup {r}
    /\ UNCHANGED <<now, used>>

\* A failed insert is logged by the recorder and the row is lost.
InsertFails(r) ==
    /\ pending' = pending \ {r}
    /\ UNCHANGED <<now, rows, used>>

\* The sweep that also takes the rows exactly at the limit (mutant).
ExpiredAtLimit(r) == Retention > 0 /\ r.calledAt <= now - Retention

\* Rows PruneToolCalls deletes: nothing unless a retention is set.
Expired(r) == Retention > 0 /\ r.calledAt < now - Retention

Prune ==
    /\ rows' = {r \in rows : ~Expired(r)}
    /\ UNCHANGED <<now, used, pending>>

-----------------------------------------------------------------------------
(* One page of the listing.                                                *)

\* The listing that starts at the cursor's row instead of after it (mutant).
SelectedFromCursor(f, after) ==
    {r \in rows : Matches(f, r) /\ (after = Absent \/ Older(r, after) \/ r = after)}

\* A keyset on the time alone (mutant).
SelectedByTime(f, after) ==
    {r \in rows : Matches(f, r) /\ (after = Absent \/ r.calledAt < after.calledAt)}

\* The rows the query selects before LIMIT; after is the row of the cursor.
Selected(f, after) ==
    {r \in rows : Matches(f, r) /\ (after = Absent \/ Older(r, after))}

\* The row of a cursor, read by its id: no row is ErrUnknownCursor.
CursorRows(cursor) == {r \in rows : r.id = cursor}

\* P is what ORDER BY called_at DESC, id DESC LIMIT returns of C.
IsPage(P, C) ==
    /\ P \subseteq C
    /\ \A x \in P, y \in C \ P : Older(y, x)
    /\ IF Cardinality(C) <= PageSize THEN P = C ELSE Cardinality(P) = PageSize

\* ... and in its order: as many rows of P are newer as come before.
Listing(P) ==
    [i \in 1 .. Cardinality(P) |->
        CHOOSE r \in P : Cardinality({x \in P : Older(r, x)}) = i - 1]

\* next: the last row of a full page; a short page is the last one.
NextCursor(P) ==
    IF Cardinality(P) = PageSize THEN Listing(P)[PageSize].id ELSE Absent

Tick ==
    /\ now < MaxTime
    /\ now' = now + 1
    /\ UNCHANGED <<rows, used, pending>>

TableNext ==
    \/ \E id \in Ids, a \in Actors, t \in Tools, e \in BOOLEAN : Stamp(id, a, t, e)
    \/ \E r \in pending : Insert(r)
    \/ \E r \in pending : InsertFails(r)
    \/ Prune
    \/ Tick

=============================================================================
