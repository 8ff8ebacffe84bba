----------------------------- MODULE Migration -----------------------------
(***************************************************************************)
(* storage.Open of internal/storage/db.go and db_postgres.go: replicas of  *)
(* the service open one Postgres database, take the session-level advisory *)
(* lock, let AutoMigrate add what the tool_calls table lacks and carry the *)
(* rows of the old schema over, one statement at a time.  Replicas of the  *)
(* old version go on writing during a rolling update; statements fail,     *)
(* processes crash and start again.                                        *)
(*                                                                         *)
(* A row keeps what its writer said, for the properties, next to its       *)
(* columns.  SQLite takes no lock and has one replica: the instance with   *)
(* one replica covers it.                                                  *)
(***************************************************************************)
EXTENDS Sequences, Naturals, FiniteSets

CONSTANTS
    Replicas,   \* processes of this version
    NoReplica,  \* "the advisory lock is free"
    NotNulls,   \* the sets of old columns that may be declared NOT NULL
    Calls,      \* what writers say: records with the fields of NewColumns
    MaxRows,    \* bound on the rows of the table, for TLC
    MaxFaults   \* bound on failed statements and crashes, for TLC

ASSUME ReplicasAssumption == NoReplica \notin Replicas
ASSUME BoundsAssumption == MaxRows \in Nat /\ MaxFaults \in Nat

VARIABLES
    columns,    \* columns of tool_calls; {} before the table exists
    notNull,    \* old columns declared NOT NULL
    rows,       \* a set of [id, by, said, cols]
    oldRuns,    \* a replica of the old version still serves
    holder,     \* the replica whose session holds the advisory lock
    leaked,     \* ... in a session that went back to the pool
    open,       \* open[r]: where the Open of r stands
    owed,       \* ids that some Open has promised to have carried over
    refused,    \* why inserts of this version were refused
    faults

vars == <<columns, notNull, rows, oldRuns, holder, leaked, open, owed, refused, faults>>

Null == "NULL"
Empty == ""

\* Columns of the old table that ToolCall has under another name; error_message,
\* for which it has no field at all, is left out.
OldColumns == {"args", "response_preview", "response_bytes", "created_at", "status"}

\* Fields of ToolCall that the old table lacks, in the order AutoMigrate adds them.
NewColumns == <<"input_json", "is_error", "output_size", "output_json", "called_at">>
NewColumnSet == {NewColumns[i] : i \in DOMAIN NewColumns}

\* A recorded call has arguments and an outcome; its answer may be NULL.
ASSUME CallsAssumption ==
    \A call \in Calls : call.input_json # Null /\ call.is_error \in {"true", "false"}

\* A column added to the table: default:'' on input_json, NULL elsewhere.
Default(c) == IF c = "input_json" THEN Empty ELSE Null

\* What the old version inserts: it names its own columns only.
OldCols(call) ==
    [c \in OldColumns \cup NewColumnSet |->
        CASE c = "args" -> call.input_json
          [] c = "response_preview" -> call.output_json
          [] c = "response_bytes" -> call.output_size
          [] c = "created_at" -> call.called_at
          [] c = "status" -> IF call.is_error = "true" THEN "error" ELSE "ok"
          [] c \in NewColumnSet -> IF c \in columns THEN Default(c) ELSE Null]

\* What this version inserts.
NewCols(call) ==
    [c \in OldColumns \cup NewColumnSet |-> IF c \in NewColumnSet THEN call[c] ELSE Null]

Closed == [pc |-> "down", plan |-> {}, stmt |-> 0, failed |-> FALSE,
           cause |-> "none", since |-> {}]

\* The next row of the table.
Row(by, call, cols) == [id |-> Cardinality(rows) + 1, by |-> by, said |-> call, cols |-> cols]

\* A database nobody has used, or one the old version has written to.
Init ==
    /\ columns \in {{}, OldColumns}
    /\ notNull \in IF columns = {} THEN {{}} ELSE NotNulls
    /\ oldRuns = (columns # {})
    /\ rows \in IF columns = {} THEN {{}}
               ELSE {{[id |-> 1, by |-> "old", said |-> call, cols |-> OldCols(call)]} : call \in Calls}
    /\ holder = NoReplica
    /\ leaked = FALSE
    /\ open = [r \in Replicas |-> Closed]
    /\ owed = {}
    /\ refused = {}
    /\ faults = 0

-----------------------------------------------------------------------------
(* Writers.                                                                *)

\* A call recorded by a replica of the old version.
OldWrites(call) ==
    /\ oldRuns /\ Cardinality(rows) < MaxRows
    /\ rows' = rows \cup {Row("old", call, OldCols(call))}
    /\ UNCHANGED <<columns, notNull, oldRuns, holder, leaked, open, owed, refused, faults>>

\* The rolling update stops the last of them.
OldStops ==
    /\ oldRuns
    /\ oldRuns' = FALSE
    /\ UNCHANGED <<columns, notNull, rows, holder, leaked, open, owed, refused, faults>>

\* RecordToolCall of a replica that serves.  The insert leaves the old columns
\* out, so it is refused where one of them may not be NULL.
Writes(r, call) ==
    /\ open[r].pc = "up" /\ Cardinality(rows) < MaxRows
    /\ CASE ~(NewColumnSet \subseteq columns) ->
              refused' = refused \cup {"schema"} /\ UNCHANGED rows
         [] NewColumnSet \subseteq columns /\ notNull # {} ->
              refused' = refused \cup {"not null"} /\ UNCHANGED rows
         [] OTHER ->
              /\ rows' = rows \cup {Row("new", call, NewCols(call))}
              /\ UNCHANGED refused
    /\ UNCHANGED <<columns, notNull, oldRuns, holder, leaked, open, owed, faults>>

-----------------------------------------------------------------------------
(* Open.                                                                   *)

At(r, pc) == open[r].pc = pc

\* openPostgres succeeds; pg_advisory_lock is called and waits.
Connect(r) ==
    /\ At(r, "down")
    /\ open' = [open EXCEPT ![r] = [Closed EXCEPT !.pc = "lock"]]
    /\ UNCHANGED <<columns, notNull, rows, oldRuns, holder, leaked, owed, refused, faults>>

\* Migrating without the lock (mutant).
AcquireNothing(r) ==
    /\ At(r, "lock")
    /\ open' = [open EXCEPT ![r].pc = "inspect", ![r].since = {row.id : row \in rows}]
    /\ UNCHANGED <<columns, notNull, rows, oldRuns, holder, leaked, owed, refused, faults>>

\* withMigrationLock: the lock is granted to the session of r.
Acquire(r) ==
    /\ At(r, "lock")
    /\ holder = NoReplica
    /\ holder' = r
    /\ open' = [open EXCEPT ![r].pc = "inspect", ![r].since = {row.id : row \in rows}]
    /\ UNCHANGED <<columns, notNull, rows, oldRuns, leaked, owed, refused, faults>>

\* AutoMigrate looks for the table, and for the columns it lacks.
Inspect(r) ==
    /\ At(r, "inspect")
    /\ open' = IF columns = {}
               THEN [open EXCEPT ![r].pc = "create"]
               ELSE [open EXCEPT ![r].pc = "alter", ![r].plan = NewColumnSet \ columns]
    /\ UNCHANGED <<columns, notNull, rows, oldRuns, holder, leaked, owed, refused, faults>>

\* An error ends migrate; the deferred unlock still runs.
Fail(r, cause) ==
    open' = [open EXCEPT ![r].pc = "unlock", ![r].failed = TRUE, ![r].cause = cause]

\* CREATE TABLE with every column; a table another migration has created since
\* is an error.
Create(r) ==
    /\ At(r, "create")
    /\ IF columns # {}
       THEN Fail(r, "collision") /\ UNCHANGED columns
       ELSE /\ columns' = NewColumnSet
            /\ open' = [open EXCEPT ![r].pc = "alter"]
    /\ UNCHANGED <<notNull, rows, oldRuns, holder, leaked, owed, refused, faults>>

\* The row after the column c was added.
Added(c, row) == [row EXCEPT !.cols[c] = Default(c)]

\* The missing column that comes first among the fields of ToolCall.
IsFirst(c, plan) ==
    \E i \in DOMAIN NewColumns :
        /\ c = NewColumns[i] /\ c \in plan
        /\ \A j \in 1..(i - 1) : NewColumns[j] \notin plan

\* The next ADD COLUMN; a column another migration has added since is an error.
AddColumn(r, c) ==
    /\ At(r, "alter") /\ IsFirst(c, open[r].plan)
    /\ IF c \in columns
       THEN Fail(r, "collision") /\ UNCHANGED <<columns, rows>>
       ELSE /\ columns' = columns \cup {c}
            /\ rows' = {Added(c, row) : row \in rows}
            /\ open' = [open EXCEPT ![r].plan = @ \ {c}]
    /\ UNCHANGED <<notNull, oldRuns, holder, leaked, owed, refused, faults>>

\* AutoMigrate is done.
Altered(r) ==
    /\ At(r, "alter") /\ open[r].plan = {}
    /\ open' = [open EXCEPT ![r].pc = "backfill", ![r].stmt = 1]
    /\ UNCHANGED <<columns, notNull, rows, oldRuns, holder, leaked, owed, refused, faults>>

-----------------------------------------------------------------------------
(* backfillToolCallRename.                                                 *)

\* SET to = from WHERE to is still unset AND from IS NOT NULL.
Copy(row, from, to, unset) ==
    IF row.cols[to] \in unset /\ row.cols[from] # Null
    THEN [row EXCEPT !.cols[to] = row.cols[from]]
    ELSE row

\* SET is_error = (status = 'error') without its guard (mutant).
SetIsErrorOfAll(row) ==
    [row EXCEPT !.cols["is_error"] = IF row.cols["status"] = "error" THEN "true" ELSE "false"]

\* SET is_error = (status = 'error') WHERE status IS NOT NULL.
SetIsError(row) ==
    IF row.cols["status"] # Null
    THEN [row EXCEPT !.cols["is_error"] = IF row.cols["status"] = "error" THEN "true" ELSE "false"]
    ELSE row

\* Rows counted as unset only when NULL (mutant).
BackfilledWhenNull(stmt, row) ==
    CASE stmt = 1 -> Copy(row, "args", "input_json", {Null})
      [] stmt = 2 -> Copy(row, "response_preview", "output_json", {Null})
      [] stmt = 3 -> Copy(row, "created_at", "called_at", {Null})
      [] stmt = 4 -> SetIsError(row)

\* The four UPDATE statements, on one row.
Backfilled(stmt, row) ==
    CASE stmt = 1 -> Copy(row, "args", "input_json", {Null, Empty})
      [] stmt = 2 -> Copy(row, "response_preview", "output_json", {Null, Empty})
      [] stmt = 3 -> Copy(row, "created_at", "called_at", {Null})
      [] stmt = 4 -> SetIsError(row)

\* One statement; each is skipped where the old column does not exist, and the
\* old columns come and go together.
Backfill(r) ==
    /\ At(r, "backfill")
    /\ rows' = IF OldColumns \subseteq columns
               THEN {Backfilled(open[r].stmt, row) : row \in rows} ELSE rows
    /\ open' = [open EXCEPT ![r].pc = IF open[r].stmt = 4 THEN "unlock" ELSE "backfill",
                            ![r].stmt = IF open[r].stmt = 4 THEN 0 ELSE @ + 1]
    /\ UNCHANGED <<columns, notNull, oldRuns, holder, leaked, owed, refused, faults>>

-----------------------------------------------------------------------------
(* The end of Open.                                                        *)

\* What Open answers: a failed one is tried again (main.go retries it).
Returned(r) ==
    [open EXCEPT ![r] = [Closed EXCEPT !.pc = IF open[r].failed THEN "down" ELSE "up",
                                       !.cause = open[r].cause]]
Promise(r) == IF open[r].failed THEN owed ELSE owed \cup open[r].since

\* The lock kept by a migration that failed (mutant).
UnlockIfDone(r) ==
    /\ At(r, "unlock")
    /\ holder' = IF open[r].failed THEN holder ELSE NoReplica
    /\ open' = Returned(r)
    /\ owed' = Promise(r)
    /\ UNCHANGED <<columns, notNull, rows, oldRuns, leaked, refused, faults>>

\* pg_advisory_unlock succeeds.
Unlock(r) ==
    /\ At(r, "unlock")
    /\ holder' = NoReplica
    /\ open' = Returned(r)
    /\ owed' = Promise(r)
    /\ UNCHANGED <<columns, notNull, rows, oldRuns, leaked, refused, faults>>

\* It fails and the error is dropped.  A broken connection ends the session and
\* frees the lock; otherwise conn.Close hands the live session back to the pool.
UnlockFails(r) ==
    /\ At(r, "unlock") /\ faults < MaxFaults
    /\ \/ holder' = NoReplica /\ UNCHANGED leaked
       \/ leaked' = TRUE /\ UNCHANGED holder
    /\ open' = Returned(r)
    /\ owed' = Promise(r)
    /\ faults' = faults + 1
    /\ UNCHANGED <<columns, notNull, rows, oldRuns, refused>>

\* A statement of the migration fails and changes nothing.
StatementFails(r) ==
    /\ open[r].pc \in {"inspect", "create", "alter", "backfill"} /\ faults < MaxFaults
    /\ Fail(r, "statement")
    /\ faults' = faults + 1
    /\ UNCHANGED <<columns, notNull, rows, oldRuns, holder, leaked, owed, refused>>

\* The connection or the call of pg_advisory_lock fails.
ConnectFails(r) ==
    /\ At(r, "lock") /\ faults < MaxFaults
    /\ open' = [open EXCEPT ![r] = [Closed EXCEPT !.cause = "statement"]]
    /\ faults' = faults + 1
    /\ UNCHANGED <<columns, notNull, rows, oldRuns, holder, leaked, owed, refused>>

\* The process dies; Postgres ends its sessions and with them the lock.
Crash(r) ==
    /\ ~At(r, "down") \/ holder = r
    /\ faults < MaxFaults
    /\ open' = [open EXCEPT ![r] = Closed]
    /\ holder' = IF holder = r THEN NoReplica ELSE holder
    /\ leaked' = (leaked /\ holder # r)
    /\ faults' = faults + 1
    /\ UNCHANGED <<columns, notNull, rows, oldRuns, owed, refused>>

\* The code's own steps of an Open.
Step(r) ==
    \/ Connect(r)
    \/ Inspect(r)
    \/ Create(r)
    \/ \E c \in NewColumnSet : AddColumn(r, c)
    \/ Altered(r)
    \/ Backfill(r)
    \/ Unlock(r)

Next ==
    \/ \E call \in Calls : OldWrites(call)
    \/ \E r \in Replicas, call \in Calls : Writes(r, call)
    \/ OldStops
    \/ \E r \in Replicas :
          \/ Step(r)
          \/ Acquire(r)
          \/ UnlockFails(r)
          \/ StatementFails(r)
          \/ ConnectFails(r)
          \/ Crash(r)

\* Postgres answers every statement and grants a lock in the order of the queue.
Spec ==
    /\ Init /\ [][Next]_vars
    /\ \A r \in Replicas : WF_vars(Step(r)) /\ SF_vars(Acquire(r))

-----------------------------------------------------------------------------
(* Properties.                                                             *)

\* The columns that a statement of the backfill fills.  output_size is in none
\* of them: AutoMigrate adds it, and what the old row held in response_bytes is
\* lost to readers.
Renamed == {"input_json", "output_json", "called_at", "is_error"}

ReadsAsWritten(row, columnsRead) == \A c \in columnsRead : row.cols[c] = row.said[c]

\* "carry the old values into the renamed columns": a row of the old version
\* reads as it was written, in the columns the backfill knows, once an Open that
\* took the lock after its insert has returned, whichever statements failed,
\* processes crashed between or other replicas wrote meanwhile; and no backfill
\* ever changes what this version wrote, however often it runs again.
RenamesReadAsWritten ==
    \A row \in rows :
        /\ row.by = "new" => ReadsAsWritten(row, NewColumnSet)
        /\ row.id \in owed => ReadsAsWritten(row, Renamed)

\* "so two replicas migrating the same schema concurrently serialize instead of
\* racing each other": an Open fails only with the database, never over what
\* another replica has just created, and no replica serves a table that lacks a
\* column.
ReplicasDoNotCollide ==
    /\ \A r \in Replicas : open[r].cause # "collision"
    /\ "schema" \notin refused

\* "the lock must be free afterwards, or the next replica hangs forever": every
\* Open ends, also the one that waits behind a failed or crashed migration.  The
\* exception is an unlock that failed on a connection that stayed alive.
OpenEnds ==
    \A r \in Replicas : []( At(r, "lock") => <>(~At(r, "lock") \/ leaked) )

\* "Every MCP tool call writes a history row": no insert of a replica that
\* serves is refused by the schema it migrated.
CallsAreStored == refused = {}
=============================================================================
