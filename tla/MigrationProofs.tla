-------------------------- MODULE MigrationProofs --------------------------
(***************************************************************************)
(* Proofs about Migration: for any number of replicas, calls and rows, two *)
(* migrations never collide, and every row reads as it was written, in the *)
(* columns the backfill knows, once an Open has promised it.               *)
(*                                                                         *)
(* The inductive invariant has a part for the lock and the schema, which   *)
(* knows nothing of rows, and a part for the rows: what a row's columns    *)
(* hold given the columns the table has, and how far the backfill under    *)
(* way has settled the rows that were there when its lock was granted.     *)
(***************************************************************************)
EXTENDS Migration, FiniteSetTheorems, TLAPS

Columns == OldColumns \cup NewColumnSet

\* Whatever a column can hold.
Cells ==
    {Null, Empty, "true", "false", "ok", "error"}
        \cup UNION {{call.input_json, call.output_json, call.output_size, call.is_error, call.called_at} : call \in Calls}

RowType == [id : Nat, by : {"old", "new"}, said : Calls, cols : [Columns -> Cells]]

OpenType ==
    [pc : {"down", "lock", "inspect", "create", "alter", "backfill", "unlock", "up"},
     plan : SUBSET NewColumnSet, stmt : 0..4, failed : BOOLEAN,
     cause : {"none", "statement", "collision"}, since : SUBSET Nat]

TypeOK ==
    /\ columns \subseteq Columns
    /\ rows \subseteq RowType
    /\ holder \in Replicas \cup {NoReplica}
    /\ open \in [Replicas -> OpenType]
    /\ owed \subseteq Nat

-----------------------------------------------------------------------------
(* The lock and the schema.                                                *)

Critical == {"inspect", "create", "alter", "backfill", "unlock"}

\* The schema part of the migration of r is over and has not failed.
Migrated(r) ==
    open[r].pc \in {"backfill", "up"} \/ (open[r].pc = "unlock" /\ ~open[r].failed)

\* What an Open has read of the schema is still so.
OpenSound(r) ==
    /\ open[r].pc \in Critical => holder = r
    /\ open[r].pc \in {"lock", "inspect", "create"} => open[r].plan = {}
    /\ open[r].pc = "create" => columns = {}
    /\ open[r].pc = "alter" =>
          open[r].plan \cap columns = {} /\ NewColumnSet \subseteq columns \cup open[r].plan
    /\ Migrated(r) => NewColumnSet \subseteq columns
    /\ open[r].pc = "backfill" => open[r].stmt \in 1..4
    /\ open[r].cause # "collision"

OpensSound == \A r \in Replicas : OpenSound(r)

\* The old version runs on its own columns.
OldSound == oldRuns => OldColumns \subseteq columns

Control == OpensSound /\ OldSound /\ "schema" \notin refused

-----------------------------------------------------------------------------
(* The rows.                                                               *)

\* The first k - 1 of the four UPDATE statements have nothing left to do.
Settled(k, row) ==
    /\ k > 1 => row.cols["input_json"] = row.said.input_json
    /\ k > 2 => row.cols["output_json"] = row.said.output_json
    /\ k > 3 => row.cols["called_at"] = row.said.called_at
    /\ k > 4 => row.cols["is_error"] = row.said.is_error

\* What the old columns of an old row say.
OldPart(row) ==
    /\ row.cols["args"] = row.said.input_json
    /\ row.cols["response_preview"] = row.said.output_json
    /\ row.cols["response_bytes"] = row.said.output_size
    /\ row.cols["created_at"] = row.said.called_at
    /\ row.cols["status"] = IF row.said.is_error = "true" THEN "error" ELSE "ok"

\* A row of a table with the columns cs.
RowSound(row, cs) ==
    /\ row.by = "new" =>
          /\ NewColumnSet \subseteq cs
          /\ Settled(5, row)
          /\ row.cols["output_size"] = row.said.output_size
          /\ \A c \in OldColumns : row.cols[c] = Null
    /\ row.by = "old" =>
          /\ OldColumns \subseteq cs
          /\ OldPart(row)
          /\ \A c \in NewColumnSet :
                /\ c \in cs => row.cols[c] = Default(c) \/ row.cols[c] = row.said[c]
                /\ c \notin cs => row.cols[c] = Null

RowsSound == \A row \in rows : RowSound(row, columns)

Ids == 1..Cardinality(rows)

\* Rows are numbered, and nobody speaks of a row before it is inserted.
IdsSound ==
    /\ IsFiniteSet(rows)
    /\ \A row \in rows : row.id \in Ids
    /\ \A row1, row2 \in rows : row1.id = row2.id => row1 = row2
    /\ owed \subseteq Ids
    /\ \A r \in Replicas : open[r].since \subseteq Ids

\* How far the backfill of r has come with the rows it owes.
Progress(r) ==
    \A row \in rows : row.id \in open[r].since =>
        /\ open[r].pc = "backfill" => Settled(open[r].stmt, row)
        /\ open[r].pc = "unlock" /\ ~open[r].failed => Settled(5, row)

OwedSound == \A row \in rows : row.id \in owed => Settled(5, row)

Data == RowsSound /\ IdsSound /\ (\A r \in Replicas : Progress(r)) /\ OwedSound

\* The inductive invariant.
IInv == TypeOK /\ Control /\ Data

-----------------------------------------------------------------------------
(* What the operators do.                                                  *)

LEMMA TheColumns ==
    /\ NewColumnSet = {"input_json", "is_error", "output_size", "output_json", "called_at"}
    /\ \A i \in DOMAIN NewColumns : NewColumns[i] \in NewColumnSet
BY DEF NewColumnSet, NewColumns

\* A row may be carried over in four steps; the size of its output is beyond them.
LEMMA SettledReadsAsWritten ==
    ASSUME NEW row
    PROVE  /\ Settled(5, row) <=> ReadsAsWritten(row, Renamed)
           /\ Settled(5, row) /\ row.cols["output_size"] = row.said.output_size
                 => ReadsAsWritten(row, NewColumnSet)
BY TheColumns DEF Settled, ReadsAsWritten, Renamed

\* A fresh row of the old version is as its columns are declared.
LEMMA OldRowIsSound ==
    ASSUME NEW call \in Calls, NEW id \in Nat, NEW row,
           columns \subseteq Columns, OldColumns \subseteq columns,
           row = [id |-> id, by |-> "old", said |-> call, cols |-> OldCols(call)]
    PROVE  row \in RowType /\ RowSound(row, columns)
<1>1. OldCols(call) \in [Columns -> Cells]
    <2> SUFFICES ASSUME NEW c \in Columns
                 PROVE  OldCols(call)[c] \in Cells
        BY DEF OldCols, Columns
    <2>1. Default(c) \in Cells /\ Null \in Cells
        BY DEF Default, Cells
    <2>2. /\ call.input_json \in Cells /\ call.output_json \in Cells
          /\ call.output_size \in Cells /\ call.called_at \in Cells
        BY DEF Cells
    <2>3. "ok" \in Cells /\ "error" \in Cells
        BY DEF Cells
    <2> QED
        BY <2>1, <2>2, <2>3, TheColumns DEF OldCols, Columns, OldColumns
<1>2. row \in RowType
    BY <1>1 DEF RowType
<1>3. OldPart(row)
    BY TheColumns DEF OldPart, OldCols, OldColumns
<1>4. ASSUME NEW c \in NewColumnSet
      PROVE  row.cols[c] = IF c \in columns THEN Default(c) ELSE Null
    BY TheColumns, <1>4 DEF OldCols, OldColumns
<1> QED
    BY <1>2, <1>3, <1>4 DEF RowSound

\* So is one of this version.
LEMMA NewRowIsSound ==
    ASSUME NEW call \in Calls, NEW id \in Nat, NEW row,
           NewColumnSet \subseteq columns,
           row = [id |-> id, by |-> "new", said |-> call, cols |-> NewCols(call)]
    PROVE  row \in RowType /\ RowSound(row, columns)
<1>1. NewCols(call) \in [Columns -> Cells]
    <2> SUFFICES ASSUME NEW c \in Columns
                 PROVE  NewCols(call)[c] \in Cells
        BY DEF NewCols, Columns
    <2>1. Null \in Cells
        BY DEF Cells
    <2>2. ASSUME c \in NewColumnSet PROVE call[c] \in Cells
        BY <2>2, TheColumns DEF Cells
    <2> QED
        BY <2>1, <2>2 DEF NewCols, Columns
<1>2. row \in RowType
    BY <1>1 DEF RowType
<1>3. Settled(5, row) /\ row.cols["output_size"] = row.said.output_size
    BY TheColumns DEF Settled, NewCols
<1>4. \A c \in OldColumns : row.cols[c] = Null
    BY TheColumns DEF NewCols, OldColumns
<1> QED
    BY <1>2, <1>3, <1>4 DEF RowSound

\* Of what a statement makes of a row, this is what the other replicas see.
Keeps(row, new) ==
    /\ new \in RowType
    /\ new.id = row.id /\ new.by = row.by /\ new.said = row.said
    /\ \A k \in 1..5 : Settled(k, row) => Settled(k, new)

\* ADD COLUMN leaves sound rows: only rows of the old version can be there.
LEMMA AddedRow ==
    ASSUME NEW row \in RowType, RowSound(row, columns),
           NEW c \in NewColumnSet, c \notin columns
    PROVE  Keeps(row, Added(c, row)) /\ RowSound(Added(c, row), columns \cup {c})
<1> DEFINE new == Added(c, row)
<1>1. row.by = "old"
    BY DEF RowSound, RowType
<1>2. c \in Columns /\ Default(c) \in Cells
    BY DEF Columns, Default, Cells
<1>3. /\ new \in RowType
      /\ new.id = row.id /\ new.by = row.by /\ new.said = row.said
      /\ new.cols = [row.cols EXCEPT ![c] = Default(c)]
    BY <1>2 DEF RowType, Added
<1>4. /\ new.cols[c] = Default(c)
      /\ \A d \in Columns : d # c => new.cols[d] = row.cols[d]
    BY <1>2, <1>3 DEF RowType
<1> HIDE DEF new
<1>5. row.cols[c] = Null
    BY <1>1 DEF RowSound
<1>6. row.said.input_json # Null
    BY CallsAssumption DEF RowType
<1>7. c # "input_json" => \A d \in Columns : new.cols[d] = row.cols[d]
    BY <1>4, <1>5 DEF Default
<1>8. ASSUME NEW k \in 1..5, Settled(k, row) PROVE Settled(k, new)
    <2>1. CASE c # "input_json"
        BY <2>1, <1>3, <1>7, <1>8, TheColumns DEF Settled, Columns
    <2>2. CASE c = "input_json"
        <3>1. ~(k > 1)
            BY <2>2, <1>5, <1>6, <1>8 DEF Settled
        <3> QED
            BY <3>1 DEF Settled
    <2> QED
        BY <2>1, <2>2
<1>9. RowSound(new, columns \cup {c})
    <2>1. OldColumns \subseteq columns /\ OldPart(row)
        BY <1>1 DEF RowSound
    <2>2. OldPart(new)
        BY <2>1, <1>3, <1>4, TheColumns DEF OldPart, OldColumns, Columns
    <2>3. ASSUME NEW d \in NewColumnSet
          PROVE  /\ d \in columns \cup {c} => new.cols[d] = Default(d) \/ new.cols[d] = new.said[d]
                 /\ d \notin columns \cup {c} => new.cols[d] = Null
        <3>1. CASE d = c
            BY <3>1, <1>4
        <3>2. CASE d # c
            <4>1. new.cols[d] = row.cols[d]
                BY <3>2, <1>4 DEF Columns
            <4> QED
                BY <4>1, <3>2, <1>1, <1>3 DEF RowSound
        <3> QED
            BY <3>1, <3>2
    <2> QED
        BY <2>1, <2>2, <2>3, <1>1, <1>3 DEF RowSound
<1> QED
    BY <1>3, <1>8, <1>9 DEF Keeps, new

\* One statement copies one cell of a row of the old version, or nothing.
LEMMA CopiedRow ==
    ASSUME NEW row \in RowType, NEW from \in OldColumns, NEW to \in NewColumnSet, NEW unset,
           NEW new, new = Copy(row, from, to, unset)
    PROVE  /\ new \in RowType
           /\ new.id = row.id /\ new.by = row.by /\ new.said = row.said
           /\ \A d \in Columns : d # to => new.cols[d] = row.cols[d]
           /\ new.cols[to] = IF row.cols[to] \in unset /\ row.cols[from] # Null
                            THEN row.cols[from] ELSE row.cols[to]
<1>1. to \in Columns /\ from \in Columns
    BY DEF Columns
<1>2. row.cols[from] \in Cells
    BY <1>1 DEF RowType
<1>3. CASE row.cols[to] \in unset /\ row.cols[from] # Null
    <2>1. new = [row EXCEPT !.cols[to] = row.cols[from]]
        BY <1>3 DEF Copy
    <2>2. new.cols = [row.cols EXCEPT ![to] = row.cols[from]]
        BY <2>1 DEF RowType
    <2>3. new \in RowType /\ new.id = row.id /\ new.by = row.by /\ new.said = row.said
        BY <2>1, <1>1, <1>2 DEF RowType
    <2> QED
        BY <2>2, <2>3, <1>1, <1>3 DEF RowType
<1>4. CASE ~(row.cols[to] \in unset /\ row.cols[from] # Null)
    BY <1>4 DEF Copy
<1> QED
    BY <1>3, <1>4

LEMMA StatusRow ==
    ASSUME NEW row \in RowType, NEW new, new = SetIsError(row)
    PROVE  /\ new \in RowType
           /\ new.id = row.id /\ new.by = row.by /\ new.said = row.said
           /\ \A d \in Columns : d # "is_error" => new.cols[d] = row.cols[d]
           /\ new.cols["is_error"] =
                 IF row.cols["status"] = Null THEN row.cols["is_error"]
                 ELSE IF row.cols["status"] = "error" THEN "true" ELSE "false"
<1>1. "is_error" \in Columns
    BY TheColumns DEF Columns
<1>2. "true" \in Cells /\ "false" \in Cells
    BY DEF Cells
<1> DEFINE v == IF row.cols["status"] = "error" THEN "true" ELSE "false"
<1>3. v \in Cells
    BY <1>2
<1>4. CASE row.cols["status"] # Null
    <2>1. new = [row EXCEPT !.cols["is_error"] = v]
        BY <1>4 DEF SetIsError
    <2> HIDE DEF v
    <2>2. new.cols = [row.cols EXCEPT !["is_error"] = v]
        BY <2>1 DEF RowType
    <2>3. new \in RowType /\ new.id = row.id /\ new.by = row.by /\ new.said = row.said
        BY <2>1, <1>1, <1>3 DEF RowType
    <2>4. new.cols["is_error"] = v /\ \A d \in Columns : d # "is_error" => new.cols[d] = row.cols[d]
        BY <2>2, <1>1 DEF RowType
    <2> QED
        BY <2>3, <2>4, <1>4 DEF v
<1>5. CASE row.cols["status"] = Null
    BY <1>5 DEF SetIsError
<1> QED
    BY <1>4, <1>5

\* UPDATE statement k settles a row that the statements before it have settled,
\* and leaves alone what an earlier migration or this version wrote.
LEMMA BackfilledRow ==
    ASSUME NEW row \in RowType, RowSound(row, columns), NewColumnSet \subseteq columns,
           NEW k \in 1..4, NEW new, new = Backfilled(k, row)
    PROVE  /\ Keeps(row, new)
           /\ RowSound(new, columns)
           /\ Settled(k, row) => Settled(k + 1, new)
<1> USE TheColumns
<1>0. /\ row.said \in Calls /\ row.by \in {"old", "new"}
      /\ row.said.input_json # Null /\ row.said.is_error \in {"true", "false"}
    BY CallsAssumption DEF RowType
<1> DEFINE from == CASE k = 1 -> "args" [] k = 2 -> "response_preview" [] k = 3 -> "created_at" [] k = 4 -> "status"
           to == CASE k = 1 -> "input_json" [] k = 2 -> "output_json" [] k = 3 -> "called_at" [] k = 4 -> "is_error"
<1>1. /\ new \in RowType
      /\ new.id = row.id /\ new.by = row.by /\ new.said = row.said
      /\ \A d \in Columns : d # to => new.cols[d] = row.cols[d]
    <2>1. CASE k = 1
        BY <2>1, CopiedRow DEF Backfilled, OldColumns
    <2>2. CASE k = 2
        BY <2>2, CopiedRow DEF Backfilled, OldColumns
    <2>3. CASE k = 3
        BY <2>3, CopiedRow DEF Backfilled, OldColumns
    <2>4. CASE k = 4
        BY <2>4, StatusRow DEF Backfilled
    <2> QED
        BY <2>1, <2>2, <2>3, <2>4
<1>2. to \in NewColumnSet /\ to \in Columns
    BY DEF Columns
<1>3. CASE row.by = "new"
    <2>1. Settled(5, row) /\ \A c \in OldColumns : row.cols[c] = Null
        BY <1>3 DEF RowSound
    <2>2. new.cols[to] = row.cols[to]
        <3>1. CASE k = 1
            BY <3>1, <2>1, CopiedRow DEF Backfilled, OldColumns
        <3>2. CASE k = 2
            BY <3>2, <2>1, CopiedRow DEF Backfilled, OldColumns
        <3>3. CASE k = 3
            BY <3>3, <2>1, CopiedRow DEF Backfilled, OldColumns
        <3>4. CASE k = 4
            BY <3>4, <2>1, StatusRow DEF Backfilled, OldColumns
        <3> QED
            BY <3>1, <3>2, <3>3, <3>4
    <2>3. \A d \in Columns : new.cols[d] = row.cols[d]
        BY <2>2, <1>1
    <2> HIDE DEF from, to
    <2>4. \A j \in 1..5 : Settled(j, new)
        BY <2>1, <2>3, <1>1 DEF Settled, Columns
    <2>5. \A c \in OldColumns : new.cols[c] = Null
        BY <2>1, <2>3 DEF Columns
    <2>6. new.cols["output_size"] = new.said.output_size /\ NewColumnSet \subseteq columns
        BY <2>3, <1>1, <1>3 DEF Columns, RowSound
    <2> QED
        BY <2>4, <2>5, <2>6, <1>1, <1>3 DEF Keeps, RowSound
<1>4. CASE row.by = "old"
    <2>1. OldColumns \subseteq columns /\ OldPart(row)
        BY <1>4 DEF RowSound
    <2>2. \A c \in NewColumnSet : row.cols[c] = Default(c) \/ row.cols[c] = row.said[c]
        BY <1>4 DEF RowSound
    <2>3. new.cols[to] = row.said[to]
        <3>1. CASE k = 1
            <4>1. new.cols["input_json"] =
                     IF row.cols["input_json"] \in {Null, Empty} /\ row.cols["args"] # Null
                     THEN row.cols["args"] ELSE row.cols["input_json"]
                BY <3>1, CopiedRow DEF Backfilled, OldColumns
            <4> QED
                BY <4>1, <3>1, <2>1, <2>2, <1>0 DEF OldPart, Default
        <3>2. CASE k = 2
            <4>1. new.cols["output_json"] =
                     IF row.cols["output_json"] \in {Null, Empty} /\ row.cols["response_preview"] # Null
                     THEN row.cols["response_preview"] ELSE row.cols["output_json"]
                BY <3>2, CopiedRow DEF Backfilled, OldColumns
            <4> QED
                BY <4>1, <3>2, <2>1, <2>2 DEF OldPart, Default
        <3>3. CASE k = 3
            <4>1. new.cols["called_at"] =
                     IF row.cols["called_at"] \in {Null} /\ row.cols["created_at"] # Null
                     THEN row.cols["created_at"] ELSE row.cols["called_at"]
                BY <3>3, CopiedRow DEF Backfilled, OldColumns
            <4> QED
                BY <4>1, <3>3, <2>1, <2>2 DEF OldPart, Default
        <3>4. CASE k = 4
            <4>1. new.cols["is_error"] =
                     IF row.cols["status"] = Null THEN row.cols["is_error"]
                     ELSE IF row.cols["status"] = "error" THEN "true" ELSE "false"
                BY <3>4, StatusRow DEF Backfilled
            <4>2. row.cols["status"] = IF row.said.is_error = "true" THEN "error" ELSE "ok"
                BY <2>1 DEF OldPart
            <4> QED
                BY <4>1, <4>2, <3>4, <1>0 DEF Null
        <3> QED
            BY <3>1, <3>2, <3>3, <3>4
    <2>4. ASSUME NEW j \in 1..5, Settled(j, row) PROVE Settled(j, new)
        BY <2>3, <2>4, <1>1 DEF Settled, Columns
    <2>5. ASSUME Settled(k, row) PROVE Settled(k + 1, new)
        BY <2>3, <2>5, <1>1 DEF Settled, Columns
    <2>6. OldPart(new)
        BY <2>1, <1>1 DEF OldPart, Columns, OldColumns
    <2> HIDE DEF from, to
    <2>7. \A c \in NewColumnSet : new.cols[c] = Default(c) \/ new.cols[c] = new.said[c]
        BY <2>2, <2>3, <1>1 DEF Columns
    <2> QED
        BY <2>1, <2>4, <2>5, <2>6, <2>7, <1>1, <1>4 DEF Keeps, RowSound
<1> QED
    BY <1>0, <1>3, <1>4

\* A statement that gives every row its successor leaves as many rows as before.
LEMMA SameNumber ==
    ASSUME NEW S, IsFiniteSet(S), NEW T, NEW f \in [S -> T],
           \A x, y \in S : f[x] = f[y] => x = y,
           \A t \in T : \E x \in S : f[x] = t
    PROVE  IsFiniteSet(T) /\ Cardinality(T) = Cardinality(S)
<1>1. f \in Bijection(S, T)
    BY DEF Bijection, Injection, Surjection, IsInjective
<1>2. ExistsBijection(S, T)
    BY <1>1 DEF ExistsBijection
<1> QED
    BY <1>2, FS_Bijection

-----------------------------------------------------------------------------
(* The lock and the schema.                                                *)

\* An Open that no step has touched stays sound while the columns it has read
\* stay and the lock is not taken from it.
LEMMA OthersStaySound ==
    ASSUME NEW q \in Replicas, OpenSound(q), open'[q] = open[q],
           open[q].pc \in Critical => holder' = q /\ columns' = columns,
           columns \subseteq columns'
    PROVE  OpenSound(q)'
BY DEF OpenSound, Migrated, Critical

\* Rows may come and change without an Open noticing.
LEMMA WritersKeepControl ==
    ASSUME Control, UNCHANGED <<columns, holder, open>>,
           oldRuns' => oldRuns, "schema" \in refused' => "schema" \in refused
    PROVE  Control'
<1>1. ASSUME NEW q \in Replicas PROVE OpenSound(q)'
    BY OthersStaySound DEF Control, OpensSound, OpenSound
<1> QED
    BY <1>1 DEF Control, OpensSound, OldSound

\* A step of the Open of r that keeps the lock and the schema.
LEMMA StepKeepsControl ==
    ASSUME Control, NEW r \in Replicas, UNCHANGED <<columns, oldRuns, refused>>,
           \A q \in Replicas \ {r} : open'[q] = open[q],
           holder' = holder \/ holder = r \/ (holder = NoReplica /\ holder' = r),
           OpenSound(r)'
    PROVE  Control'
<1>1. ASSUME NEW q \in Replicas, q # r PROVE OpenSound(q)'
    <2>1. OpenSound(q)
        BY DEF Control, OpensSound
    <2>2. open[q].pc \in Critical => holder' = q
        BY <1>1, <2>1, ReplicasAssumption DEF OpenSound
    <2> QED
        BY <1>1, <2>1, <2>2, OthersStaySound
<1> QED
    BY <1>1 DEF Control, OpensSound, OldSound

\* A step of the migration of r that changes the schema.
LEMMA MigrationKeepsControl ==
    ASSUME Control, NEW r \in Replicas, open[r].pc \in Critical,
           UNCHANGED <<holder, oldRuns, refused>>,
           columns \subseteq columns',
           \A q \in Replicas \ {r} : open'[q] = open[q],
           OpenSound(r)'
    PROVE  Control'
<1>1. ASSUME NEW q \in Replicas, q # r PROVE OpenSound(q)'
    <2>1. OpenSound(q) /\ OpenSound(r)
        BY DEF Control, OpensSound
    <2>2. open[q].pc \notin Critical
        BY <1>1, <2>1 DEF OpenSound
    <2> QED
        BY <1>1, <2>1, <2>2, OthersStaySound
<1> QED
    BY <1>1 DEF Control, OpensSound, OldSound

LEMMA InitControl ==
    ASSUME Init PROVE Control
BY DEF Init, Control, OpensSound, OldSound, OpenSound, Migrated, Critical, Closed

\* Each action, by where the Open it belongs to stands before and after.
LEMMA NextControl ==
    ASSUME TypeOK, Control, [Next]_vars
    PROVE  Control'
<1> USE DEF At
<1>0. CASE UNCHANGED vars
    BY <1>0, WritersKeepControl DEF vars
<1>1. CASE \E call \in Calls : OldWrites(call)
    BY <1>1, WritersKeepControl DEF OldWrites
<1>2. CASE OldStops
    BY <1>2, WritersKeepControl DEF OldStops
<1>3. ASSUME NEW r \in Replicas, NEW call \in Calls, Writes(r, call)
      PROVE  Control'
    <2>1. NewColumnSet \subseteq columns
        BY <1>3 DEF Writes, Control, OpensSound, OpenSound, Migrated
    <2>2. "schema" \in refused' => "schema" \in refused
        <3>1. CASE notNull # {}
            <4>1. refused' = refused \cup {"not null"}
                BY <1>3, <2>1, <3>1, Zenon DEF Writes
            <4> QED
                BY <4>1
        <3>2. CASE notNull = {}
            BY <1>3, <2>1, <3>2 DEF Writes
        <3> QED
            BY <3>1, <3>2
    <2> QED
        BY <1>3, <2>2, WritersKeepControl DEF Writes
<1>4. ASSUME NEW r \in Replicas,
             Step(r) \/ Acquire(r) \/ UnlockFails(r) \/ StatementFails(r)
                 \/ ConnectFails(r) \/ Crash(r)
      PROVE  Control'
    <2>0. OpenSound(r) /\ open[r] \in OpenType
        BY DEF Control, OpensSound, TypeOK
    <2>1. CASE Connect(r)
        <3>1. open'[r] = [Closed EXCEPT !.pc = "lock"]
            BY <2>1 DEF Connect, TypeOK
        <3>2. OpenSound(r)'
            BY <3>1 DEF OpenSound, Migrated, Critical, Closed
        <3> QED
            BY <2>1, <3>2, StepKeepsControl DEF Connect, TypeOK
    <2>2. CASE Acquire(r)
        <3> DEFINE new == [open[r] EXCEPT !.pc = "inspect", !.since = {row.id : row \in rows}]
        <3>0. open'[r] = new
            BY <2>2 DEF Acquire, TypeOK
        <3>1. /\ open'[r].pc = "inspect" /\ open'[r].plan = open[r].plan
              /\ open'[r].cause = open[r].cause
            BY <2>0, <3>0 DEF OpenType
        <3>2. OpenSound(r)'
            BY <2>0, <2>2, <3>1 DEF OpenSound, Migrated, Critical, Acquire
        <3> QED
            BY <2>2, <3>2, StepKeepsControl DEF Acquire, TypeOK
    <2>3. CASE Inspect(r)
        <3>1. /\ open'[r].cause = open[r].cause
              /\ columns = {} => open'[r].pc = "create" /\ open'[r].plan = open[r].plan
              /\ columns # {} => open'[r].pc = "alter" /\ open'[r].plan = NewColumnSet \ columns
            BY <2>0, <2>3 DEF Inspect, TypeOK, OpenType
        <3>2. OpenSound(r)'
            BY <2>0, <2>3, <3>1 DEF OpenSound, Migrated, Critical, Inspect
        <3> QED
            BY <2>3, <3>2, StepKeepsControl DEF Inspect, TypeOK
    <2>4. CASE Create(r)
        <3>1. columns = {} /\ open[r].plan = {}
            BY <2>0, <2>4 DEF OpenSound, Create
        <3>2. columns' = NewColumnSet /\ open'[r] = [open[r] EXCEPT !.pc = "alter"]
            BY <2>4, <3>1 DEF Create, TypeOK
        <3>3. OpenSound(r)'
            BY <2>0, <2>4, <3>1, <3>2 DEF OpenSound, Migrated, Critical, OpenType, Create
        <3> QED
            BY <2>4, <3>1, <3>2, <3>3, MigrationKeepsControl DEF Create, TypeOK, Critical
    <2>5. ASSUME NEW c \in NewColumnSet, AddColumn(r, c) PROVE Control'
        <3>1. c \in open[r].plan /\ c \notin columns
            BY <2>0, <2>5 DEF OpenSound, AddColumn, IsFirst
        <3>2. columns' = columns \cup {c} /\ open'[r] = [open[r] EXCEPT !.plan = @ \ {c}]
            BY <2>5, <3>1 DEF AddColumn, TypeOK
        <3>3. OpenSound(r)'
            BY <2>0, <2>5, <3>1, <3>2 DEF OpenSound, Migrated, Critical, OpenType, AddColumn
        <3> QED
            BY <2>5, <3>1, <3>2, <3>3, MigrationKeepsControl DEF AddColumn, TypeOK, Critical
    <2>6. CASE Altered(r)
        <3>1. /\ open'[r].pc = "backfill" /\ open'[r].stmt = 1
              /\ open'[r].cause = open[r].cause
            BY <2>0, <2>6 DEF Altered, TypeOK, OpenType
        <3>2. OpenSound(r)'
            BY <2>0, <2>6, <3>1 DEF OpenSound, Migrated, Critical, Altered
        <3> QED
            BY <2>6, <3>2, StepKeepsControl DEF Altered, TypeOK
    <2>7. CASE Backfill(r)
        <3> DEFINE k == open[r].stmt
        <3>1. /\ open'[r].pc = IF k = 4 THEN "unlock" ELSE "backfill"
              /\ open'[r].stmt = IF k = 4 THEN 0 ELSE k + 1
              /\ open'[r].cause = open[r].cause
            BY <2>0, <2>7 DEF Backfill, TypeOK, OpenType
        <3>2. k \in 1..4
            BY <2>0, <2>7 DEF OpenSound, Backfill
        <3>3. OpenSound(r)'
            BY <2>0, <2>7, <3>1, <3>2 DEF OpenSound, Migrated, Critical, Backfill
        <3> QED
            BY <2>7, <3>3, StepKeepsControl DEF Backfill, TypeOK
    <2>8. CASE Unlock(r) \/ UnlockFails(r)
        <3>1. open'[r] = [Closed EXCEPT !.pc = IF open[r].failed THEN "down" ELSE "up",
                                        !.cause = open[r].cause]
            BY <2>8 DEF Unlock, UnlockFails, Returned, TypeOK
        <3>2. open[r].pc = "unlock" /\ UNCHANGED <<columns, oldRuns, refused>>
            BY <2>8 DEF Unlock, UnlockFails
        <3>3. holder = r
            BY <2>0, <3>2 DEF OpenSound, Critical
        <3>4. OpenSound(r)'
            BY <2>0, <3>1, <3>2 DEF OpenSound, Migrated, Critical, Closed
        <3>5. \A q \in Replicas \ {r} : open'[q] = open[q]
            BY <2>8 DEF Unlock, UnlockFails, Returned, TypeOK
        <3> QED
            BY <3>2, <3>3, <3>4, <3>5, StepKeepsControl
    <2>9. CASE StatementFails(r)
        <3>1. open'[r] = [open[r] EXCEPT !.pc = "unlock", !.failed = TRUE, !.cause = "statement"]
            BY <2>9 DEF StatementFails, Fail, TypeOK
        <3>2. OpenSound(r)'
            BY <2>0, <2>9, <3>1 DEF OpenSound, Migrated, Critical, OpenType, StatementFails
        <3> QED
            BY <2>9, <3>2, StepKeepsControl DEF StatementFails, Fail, TypeOK
    <2>10. CASE ConnectFails(r)
        <3>1. open'[r] = [Closed EXCEPT !.cause = "statement"]
            BY <2>10 DEF ConnectFails, TypeOK
        <3>2. OpenSound(r)'
            BY <3>1 DEF OpenSound, Migrated, Critical, Closed
        <3> QED
            BY <2>10, <3>2, StepKeepsControl DEF ConnectFails, TypeOK
    <2>11. CASE Crash(r)
        <3>1. open'[r] = Closed
            BY <2>11 DEF Crash, TypeOK
        <3>2. OpenSound(r)'
            BY <3>1 DEF OpenSound, Migrated, Critical, Closed
        <3> QED
            BY <2>11, <3>2, StepKeepsControl DEF Crash, TypeOK
    <2> QED
        BY <1>4, <2>1, <2>2, <2>3, <2>4, <2>5, <2>6, <2>7, <2>8, <2>9, <2>10, <2>11 DEF Step
<1> QED
    BY <1>0, <1>1, <1>2, <1>3, <1>4 DEF Next

-----------------------------------------------------------------------------
(* Types.                                                                  *)

LEMMA NextTypes ==
    ASSUME TypeOK, [Next]_vars
    PROVE  /\ columns' \subseteq Columns
           /\ holder' \in Replicas \cup {NoReplica}
           /\ open' \in [Replicas -> OpenType]
           /\ owed' \subseteq Nat
<1> USE DEF At
<1>1. CASE UNCHANGED vars
    BY <1>1 DEF TypeOK, vars
<1>2. CASE OldStops \/ \E call \in Calls : OldWrites(call)
    BY <1>2 DEF TypeOK, OldStops, OldWrites
<1>3. CASE \E r \in Replicas, call \in Calls : Writes(r, call)
    BY <1>3 DEF TypeOK, Writes
<1>4. ASSUME NEW r \in Replicas,
             Step(r) \/ Acquire(r) \/ UnlockFails(r) \/ StatementFails(r)
                 \/ ConnectFails(r) \/ Crash(r)
      PROVE  /\ columns' \subseteq Columns
             /\ holder' \in Replicas \cup {NoReplica}
             /\ open' \in [Replicas -> OpenType]
             /\ owed' \subseteq Nat
    <2>0. /\ open \in [Replicas -> OpenType] /\ open[r] \in OpenType
          /\ Closed \in OpenType /\ {row.id : row \in rows} \in SUBSET Nat
        BY DEF TypeOK, OpenType, Closed, RowType
    <2>1. CASE Connect(r)
        BY <2>0, <2>1 DEF Connect, TypeOK, OpenType
    <2>2. CASE Acquire(r)
        <3> DEFINE ids == {row.id : row \in rows}
        <3>1. ids \in SUBSET Nat /\ open' = [open EXCEPT ![r].pc = "inspect", ![r].since = ids]
            BY <2>0, <2>2 DEF Acquire
        <3> HIDE DEF ids
        <3>2. open' \in [Replicas -> OpenType]
            BY <2>0, <3>1 DEF OpenType
        <3> QED
            BY <2>2, <3>2 DEF Acquire, TypeOK
    <2>3. CASE Inspect(r)
        BY <2>0, <2>3 DEF Inspect, TypeOK, OpenType
    <2>4. CASE Create(r)
        <3>1. open' \in [Replicas -> OpenType]
            BY <2>0, <2>4 DEF Create, Fail, OpenType
        <3> QED
            BY <2>4, <3>1 DEF Create, TypeOK, Columns
    <2>5. ASSUME NEW c \in NewColumnSet, AddColumn(r, c)
          PROVE  /\ columns' \subseteq Columns
                 /\ holder' \in Replicas \cup {NoReplica}
                 /\ open' \in [Replicas -> OpenType]
                 /\ owed' \subseteq Nat
        <3>1. open' \in [Replicas -> OpenType]
            BY <2>0, <2>5 DEF AddColumn, Fail, OpenType
        <3>2. columns' = columns \cup {c} \/ columns' = columns
            BY <2>5 DEF AddColumn
        <3>3. columns' \subseteq Columns
            BY <3>2 DEF TypeOK, Columns
        <3> QED
            BY <2>5, <3>1, <3>3 DEF AddColumn, TypeOK
    <2>6. CASE Altered(r)
        <3> DEFINE pc == "backfill"
                   stmt == 1
        <3>1. pc \in {"unlock", "backfill"} /\ stmt \in 0..4
            OBVIOUS
        <3>2. open' = [open EXCEPT ![r].pc = pc, ![r].stmt = stmt]
            BY <2>6 DEF Altered
        <3> HIDE DEF pc, stmt
        <3>3. open' \in [Replicas -> OpenType]
            BY <2>0, <3>1, <3>2 DEF OpenType
        <3> QED
            BY <2>6, <3>3 DEF Altered, TypeOK
    <2>7. CASE Backfill(r)
        <3> DEFINE k == open[r].stmt
                   pc == IF k = 4 THEN "unlock" ELSE "backfill"
                   stmt == IF k = 4 THEN 0 ELSE k + 1
        <3>1. pc \in {"unlock", "backfill"} /\ stmt \in 0..4
            BY <2>0 DEF OpenType
        <3>2. open' = [open EXCEPT ![r].pc = pc, ![r].stmt = stmt]
            BY <2>0, <2>7 DEF Backfill
        <3> HIDE DEF pc, stmt, k
        <3>3. open' \in [Replicas -> OpenType]
            BY <2>0, <3>1, <3>2 DEF OpenType
        <3> QED
            BY <2>7, <3>3 DEF Backfill, TypeOK
    <2>8. CASE Unlock(r) \/ UnlockFails(r)
        <3>1. open' = Returned(r) /\ owed' = Promise(r) /\ UNCHANGED columns
            BY <2>8 DEF Unlock, UnlockFails
        <3>2. open' \in [Replicas -> OpenType]
            BY <2>0, <3>1 DEF Returned, OpenType
        <3>3. owed' \subseteq Nat
            BY <2>0, <3>1 DEF Promise, OpenType, TypeOK
        <3>4. holder' \in Replicas \cup {NoReplica}
            BY <2>8 DEF Unlock, UnlockFails, TypeOK
        <3> QED
            BY <3>1, <3>2, <3>3, <3>4 DEF TypeOK
    <2>9. CASE StatementFails(r)
        BY <2>0, <2>9 DEF StatementFails, Fail, TypeOK, OpenType
    <2>10. CASE ConnectFails(r)
        BY <2>0, <2>10 DEF ConnectFails, TypeOK, OpenType
    <2>11. CASE Crash(r)
        BY <2>0, <2>11 DEF Crash, TypeOK
    <2> QED
        BY <1>4, <2>1, <2>2, <2>3, <2>4, <2>5, <2>6, <2>7, <2>8, <2>9, <2>10, <2>11
        DEF Step
<1> QED
    BY <1>1, <1>2, <1>3, <1>4 DEF Next

-----------------------------------------------------------------------------
(* The rows.                                                               *)

RowsTyped == rows \subseteq RowType

\* A step of r that gives every row its successor: the rows keep their numbers,
\* and what any other Open has settled stays settled.
LEMMA DataKept ==
    ASSUME TypeOK, Data, NEW r \in Replicas,
           NEW f \in [rows -> rows'], \A new \in rows' : \E row \in rows : f[row] = new,
           \A row \in rows : Keeps(row, f[row]) /\ RowSound(f[row], columns'),
           \A q \in Replicas \ {r} : open'[q] = open[q],
           open'[r].since \subseteq Ids,
           \A row \in rows : row.id \in open'[r].since =>
               /\ open'[r].pc = "backfill" => open'[r].stmt \in 1..4 /\ Settled(open'[r].stmt, f[row])
               /\ open'[r].pc = "unlock" /\ ~open'[r].failed => Settled(5, f[row]),
           \A q \in Replicas : open[q].pc = "backfill" => open[q].stmt \in 1..4,
           owed' \subseteq Ids,
           \A row \in rows : row.id \in owed' => Settled(5, f[row])
    PROVE  RowsTyped' /\ Data'
<1>1. \A row \in rows : f[row].id = row.id
    BY DEF Keeps
<1>2. IsFiniteSet(rows') /\ Cardinality(rows') = Cardinality(rows)
    <2>1. IsFiniteSet(rows) /\ \A x, y \in rows : f[x] = f[y] => x = y
        BY <1>1 DEF Data, IdsSound
    <2> QED
        BY <2>1, SameNumber
<1>3. Ids' = Ids
    BY <1>2 DEF Ids
<1>4. RowsTyped'
    BY DEF RowsTyped, Keeps
<1>5. RowsSound'
    BY DEF RowsSound
<1>6. IdsSound'
    <2>1. \A new \in rows' : new.id \in Ids
        BY <1>1 DEF Data, IdsSound
    <2>2. \A new1, new2 \in rows' : new1.id = new2.id => new1 = new2
        BY <1>1 DEF Data, IdsSound
    <2>3. ASSUME NEW q \in Replicas PROVE open'[q].since \subseteq Ids
        BY DEF Data, IdsSound
    <2> QED
        BY <1>2, <1>3, <2>1, <2>2, <2>3 DEF IdsSound
<1>7. ASSUME NEW q \in Replicas PROVE Progress(q)'
    <2>1. CASE q = r
        BY <2>1, <1>1 DEF Progress
    <2>2. CASE q # r
        <3>1. Progress(q) /\ open'[q] = open[q]
            BY <2>2 DEF Data
        <3>2. \A row \in rows : \A k \in 1..5 : Settled(k, row) => Settled(k, f[row])
            BY DEF Keeps
        <3> QED
            BY <3>1, <3>2, <1>1 DEF Progress
    <2> QED
        BY <2>1, <2>2
<1>8. OwedSound'
    BY <1>1 DEF OwedSound
<1> QED
    BY <1>4, <1>5, <1>6, <1>7, <1>8 DEF Data

\* A step of r that leaves the rows alone.
LEMMA DataUnchanged ==
    ASSUME TypeOK, Data, Control, NEW r \in Replicas, UNCHANGED <<columns, rows>>,
           \A q \in Replicas \ {r} : open'[q] = open[q],
           open'[r].since \subseteq Ids,
           \A row \in rows : row.id \in open'[r].since =>
               /\ open'[r].pc = "backfill" => open'[r].stmt \in 1..4 /\ Settled(open'[r].stmt, row)
               /\ open'[r].pc = "unlock" /\ ~open'[r].failed => Settled(5, row),
           owed' \subseteq Ids,
           \A row \in rows : row.id \in owed' => Settled(5, row)
    PROVE  RowsTyped' /\ Data'
<1> DEFINE f == [row \in rows |-> row]
<1>1. f \in [rows -> rows'] /\ (\A row \in rows : f[row] = row)
    OBVIOUS
<1> HIDE DEF f
<1>2. \A row \in rows : Keeps(row, f[row]) /\ RowSound(f[row], columns')
    BY <1>1 DEF Keeps, TypeOK, Data, RowsSound
<1>3. \A q \in Replicas : open[q].pc = "backfill" => open[q].stmt \in 1..4
    BY DEF Control, OpensSound, OpenSound
<1>4. \A new \in rows' : \E row \in rows : f[row] = new
    BY <1>1
<1>5. \A row \in rows : row.id \in open'[r].since =>
               /\ open'[r].pc = "backfill" => open'[r].stmt \in 1..4 /\ Settled(open'[r].stmt, f[row])
               /\ open'[r].pc = "unlock" /\ ~open'[r].failed => Settled(5, f[row])
    BY <1>1
<1>6. \A row \in rows : row.id \in owed' => Settled(5, f[row])
    BY <1>1
<1> QED
    BY <1>1, <1>2, <1>3, <1>4, <1>5, <1>6, DataKept

\* An insert: nobody owes a row of that number yet.
LEMMA DataInserted ==
    ASSUME TypeOK, Data, NEW new \in RowType, RowSound(new, columns),
           new.id = Cardinality(rows) + 1, rows' = rows \cup {new},
           UNCHANGED <<columns, open, owed>>
    PROVE  RowsTyped' /\ Data'
<1>1. IsFiniteSet(rows) /\ \A row \in rows : row.id \in Ids
    BY DEF Data, IdsSound
<1>2. Cardinality(rows) \in Nat
    BY <1>1, FS_CardinalityType
<1>3. new.id \notin Ids /\ new \notin rows
    BY <1>1, <1>2 DEF Ids
<1>4. IsFiniteSet(rows') /\ Cardinality(rows') = Cardinality(rows) + 1
    BY <1>1, <1>3, FS_AddElement
<1>5. Ids \subseteq Ids' /\ new.id \in Ids'
    BY <1>2, <1>4 DEF Ids
<1>6. RowsTyped'
    BY DEF RowsTyped, TypeOK
<1>7. RowsSound'
    BY DEF RowsSound, Data
<1>8. IdsSound'
    BY <1>1, <1>3, <1>4, <1>5 DEF IdsSound, Data
<1>9. ASSUME NEW q \in Replicas PROVE Progress(q)'
    <2>1. Progress(q) /\ open[q].since \subseteq Ids
        BY DEF Data, IdsSound
    <2> QED
        BY <2>1, <1>3 DEF Progress
<1>10. OwedSound'
    BY <1>3 DEF OwedSound, Data, IdsSound
<1> QED
    BY <1>6, <1>7, <1>8, <1>9, <1>10 DEF Data

LEMMA InitTypesAndData ==
    ASSUME Init PROVE TypeOK /\ Data
<1>1. columns \subseteq Columns
    BY DEF Init, Columns
<1>2. open = [r \in Replicas |-> Closed] /\ Closed \in OpenType /\ Closed.since = {} /\ owed = {}
    BY DEF Init, Closed, OpenType
<1>3. CASE rows = {}
    <2>1. IsFiniteSet(rows)
        BY <1>3, FS_EmptySet
    <2> QED
        BY <1>1, <1>2, <1>3, <2>1
        DEF Init, TypeOK, Data, RowsSound, IdsSound, Progress, OwedSound
<1>4. CASE rows # {}
    <2>1. columns = OldColumns
        BY <1>4 DEF Init
    <2>2. PICK call \in Calls :
              rows = {[id |-> 1, by |-> "old", said |-> call, cols |-> OldCols(call)]}
        BY <1>4, <2>1 DEF Init
    <2> DEFINE row == [id |-> 1, by |-> "old", said |-> call, cols |-> OldCols(call)]
    <2>3. row \in RowType /\ RowSound(row, columns)
        BY <1>1, <2>1, OldRowIsSound
    <2>4. row.id = 1
        OBVIOUS
    <2>5. rows = {row}
        BY <2>2
    <2> HIDE DEF row
    <2>6. IsFiniteSet(rows) /\ Cardinality(rows) = 1
        BY <2>5, FS_Singleton
    <2>7. TypeOK
        BY <1>1, <1>2, <2>3, <2>5 DEF Init, TypeOK
    <2>8. RowsSound
        BY <2>3, <2>5 DEF RowsSound
    <2>9. IdsSound
        BY <1>2, <2>4, <2>5, <2>6 DEF IdsSound, Ids
    <2>10. OwedSound /\ \A r \in Replicas : Progress(r)
        BY <1>2 DEF OwedSound, Progress
    <2> QED
        BY <2>7, <2>8, <2>9, <2>10 DEF Data
<1> QED
    BY <1>3, <1>4

\* Each action, by what it does to the rows and to what is owed.
LEMMA NextData ==
    ASSUME IInv, [Next]_vars
    PROVE  RowsTyped' /\ Data'
<1> USE DEF At
<1>0. TypeOK /\ Control /\ Data
    BY DEF IInv
<1>00. IsFiniteSet(rows) /\ Cardinality(rows) \in Nat /\ Cardinality(rows) + 1 \in Nat
    BY <1>0, FS_CardinalityType DEF Data, IdsSound
<1>1. CASE UNCHANGED <<columns, rows, open, owed>>
    <2>1. Ids' = Ids
        BY <1>1 DEF Ids
    <2> QED
        BY <1>0, <1>1, <2>1
        DEF RowsTyped, TypeOK, Data, RowsSound, IdsSound, Progress, OwedSound
<1>2. ASSUME NEW call \in Calls, OldWrites(call)
      PROVE  RowsTyped' /\ Data'
    <2> DEFINE new == Row("old", call, OldCols(call))
    <2>1. /\ new = [id |-> Cardinality(rows) + 1, by |-> "old", said |-> call, cols |-> OldCols(call)]
          /\ OldColumns \subseteq columns
        BY <1>0, <1>2 DEF OldWrites, Control, OldSound, Row
    <2> HIDE DEF new
    <2>2. new \in RowType /\ RowSound(new, columns)
        BY <1>0, <1>00, <2>1, OldRowIsSound DEF TypeOK
    <2>3. rows' = rows \cup {new} /\ UNCHANGED <<columns, open, owed>>
        BY <1>2 DEF OldWrites, new
    <2> QED
        BY <1>0, <2>1, <2>2, <2>3, DataInserted
<1>3. ASSUME NEW r \in Replicas, NEW call \in Calls, Writes(r, call), rows' # rows
      PROVE  RowsTyped' /\ Data'
    <2> DEFINE new == Row("new", call, NewCols(call))
    <2>1. new = [id |-> Cardinality(rows) + 1, by |-> "new", said |-> call, cols |-> NewCols(call)]
        BY DEF Row
    <2>2. NewColumnSet \subseteq columns
        BY <1>0, <1>3 DEF Writes, Control, OpensSound, OpenSound, Migrated
    <2>3. rows' = rows \cup {new} /\ UNCHANGED <<columns, open, owed>>
        BY <1>3, Zenon DEF Writes
    <2> HIDE DEF new
    <2>4. new \in RowType /\ RowSound(new, columns)
        BY <1>00, <2>1, <2>2, NewRowIsSound
    <2> QED
        BY <1>0, <2>1, <2>3, <2>4, DataInserted
<1>4. ASSUME NEW r \in Replicas,
             Step(r) \/ Acquire(r) \/ UnlockFails(r) \/ StatementFails(r)
                 \/ ConnectFails(r) \/ Crash(r)
      PROVE  RowsTyped' /\ Data'
    <2>0. /\ OpenSound(r) /\ open[r] \in OpenType /\ Progress(r)
          /\ open[r].since \subseteq Ids /\ owed \subseteq Ids
          /\ \A row \in rows : row.id \in Ids
          /\ \A row \in rows : row.id \in owed => Settled(5, row)
        BY <1>0 DEF Control, OpensSound, TypeOK, Data, IdsSound, OwedSound
    <2>1. CASE Connect(r) \/ ConnectFails(r) \/ Crash(r)
        <3>1. open'[r].since = {} /\ (\A q \in Replicas \ {r} : open'[q] = open[q])
              /\ UNCHANGED <<columns, rows, owed>>
            BY <1>0, <2>1 DEF Connect, ConnectFails, Crash, Closed, TypeOK
        <3> QED
            BY <1>0, <2>0, <3>1, DataUnchanged
    <2>2. CASE Acquire(r)
        <3> DEFINE ids == {row.id : row \in rows}
        <3>0. ids \subseteq Ids /\ open' = [open EXCEPT ![r].pc = "inspect", ![r].since = ids]
            BY <2>0, <2>2 DEF Acquire
        <3> HIDE DEF ids
        <3>1. open'[r].since = ids /\ open'[r].pc = "inspect"
              /\ \A q \in Replicas \ {r} : open'[q] = open[q]
            BY <1>0, <2>0, <3>0 DEF TypeOK, OpenType
        <3>2. UNCHANGED <<columns, rows, owed>>
            BY <2>2 DEF Acquire
        <3> QED
            BY <1>0, <2>0, <3>0, <3>1, <3>2, DataUnchanged
    <2>3. CASE Inspect(r)
        <3>1. open'[r].since = open[r].since /\ open'[r].pc \in {"create", "alter"}
              /\ \A q \in Replicas \ {r} : open'[q] = open[q]
            BY <1>0, <2>0, <2>3 DEF Inspect, TypeOK, OpenType
        <3>2. UNCHANGED <<columns, rows, owed>>
            BY <2>3 DEF Inspect
        <3> QED
            BY <1>0, <2>0, <3>1, <3>2, DataUnchanged
    <2>4. CASE Create(r)
        <3>1. columns = {}
            BY <2>0, <2>4 DEF OpenSound, Create
        <3>2. /\ open' = [open EXCEPT ![r].pc = "alter"]
              /\ rows' = rows /\ owed' = owed
            BY <2>4, <3>1 DEF Create
        <3>3. ASSUME NEW row \in rows PROVE FALSE
            <4>1. RowSound(row, columns) /\ row.by \in {"old", "new"}
                BY <1>0 DEF Data, RowsSound, TypeOK, RowType
            <4> QED
                BY <3>1, <4>1, TheColumns DEF RowSound, OldColumns
        <3>4. rows = {}
            BY <3>3
        <3>5. Ids' = Ids
            BY <3>2 DEF Ids
        <3>6. \A q \in Replicas : open'[q].since = open[q].since
            BY <1>0, <2>0, <3>2 DEF TypeOK, OpenType
        <3> QED
            BY <1>0, <3>2, <3>4, <3>5, <3>6
            DEF RowsTyped, Data, RowsSound, IdsSound, Progress, OwedSound
    <2>5. ASSUME NEW c \in NewColumnSet, AddColumn(r, c) PROVE RowsTyped' /\ Data'
        <3>1. c \in open[r].plan /\ c \notin columns
            BY <2>0, <2>5 DEF OpenSound, AddColumn, IsFirst
        <3>2. /\ columns' = columns \cup {c}
              /\ rows' = {Added(c, row) : row \in rows}
              /\ open' = [open EXCEPT ![r].plan = @ \ {c}]
              /\ owed' = owed
            BY <2>5, <3>1 DEF AddColumn
        <3>3. /\ open'[r].since = open[r].since /\ open'[r].pc = "alter"
              /\ \A q \in Replicas \ {r} : open'[q] = open[q]
            BY <1>0, <2>0, <2>5, <3>2 DEF AddColumn, TypeOK, OpenType
        <3> DEFINE f == [row \in rows |-> Added(c, row)]
        <3>4. f \in [rows -> rows'] /\ \A new \in rows' : \E row \in rows : f[row] = new
            BY <3>2
        <3>5. \A row \in rows : f[row] = Added(c, row)
            OBVIOUS
        <3> HIDE DEF f
        <3>6. \A row \in rows : Keeps(row, f[row]) /\ RowSound(f[row], columns')
            BY <1>0, <3>1, <3>2, <3>5, AddedRow DEF Data, RowsSound, TypeOK
        <3>7. \A row \in rows : row.id \in owed' => Settled(5, f[row])
            BY <2>0, <3>2, <3>6 DEF Keeps
        <3>8. \A q \in Replicas : open[q].pc = "backfill" => open[q].stmt \in 1..4
            BY <1>0 DEF Control, OpensSound, OpenSound
        <3> QED
            BY <1>0, <2>0, <3>2, <3>3, <3>4, <3>6, <3>7, <3>8, DataKept
    <2>6. CASE Altered(r)
        <3>1. /\ open'[r].since = open[r].since /\ open'[r].pc = "backfill" /\ open'[r].stmt = 1
              /\ \A q \in Replicas \ {r} : open'[q] = open[q]
            BY <1>0, <2>0, <2>6 DEF Altered, TypeOK, OpenType
        <3>2. UNCHANGED <<columns, rows, owed>>
            BY <2>6 DEF Altered
        <3>3. \A row \in rows : Settled(1, row)
            BY DEF Settled
        <3> QED
            BY <1>0, <2>0, <3>1, <3>2, <3>3, DataUnchanged
    <2>7. CASE Backfill(r)
        <3> DEFINE k == open[r].stmt
        <3>1. k \in 1..4 /\ NewColumnSet \subseteq columns
            BY <2>0, <2>7 DEF OpenSound, Backfill, Migrated
        <3>2. /\ open'[r].pc = IF k = 4 THEN "unlock" ELSE "backfill"
              /\ open'[r].stmt = IF k = 4 THEN 0 ELSE k + 1
              /\ open'[r].since = open[r].since
              /\ \A q \in Replicas \ {r} : open'[q] = open[q]
            BY <1>0, <2>0, <2>7 DEF Backfill, TypeOK, OpenType
        <3>3. UNCHANGED <<columns, owed>> /\ open[r].pc = "backfill"
            BY <2>7 DEF Backfill
        <3> DEFINE f == [row \in rows |-> IF OldColumns \subseteq columns THEN Backfilled(k, row) ELSE row]
        <3>4. rows' = {f[row] : row \in rows}
            <4>1. CASE OldColumns \subseteq columns
                BY <2>7, <4>1 DEF Backfill
            <4>2. CASE ~(OldColumns \subseteq columns)
                BY <2>7, <4>2 DEF Backfill
            <4> QED
                BY <4>1, <4>2
        <3>5. \A row \in rows : f[row] = IF OldColumns \subseteq columns THEN Backfilled(k, row) ELSE row
            OBVIOUS
        <3>6. f \in [rows -> rows'] /\ \A new \in rows' : \E row \in rows : f[row] = new
            BY <3>4
        <3> HIDE DEF f, k
        <3>7. ASSUME NEW row \in rows
              PROVE  /\ Keeps(row, f[row]) /\ RowSound(f[row], columns')
                     /\ Settled(k, row) => Settled(k + 1, f[row])
            <4>1. RowSound(row, columns) /\ row \in RowType /\ row.by \in {"old", "new"}
                BY <1>0 DEF Data, RowsSound, TypeOK, RowType
            <4>2. CASE OldColumns \subseteq columns
                BY <3>1, <3>3, <3>5, <4>1, <4>2, BackfilledRow
            <4>3. CASE ~(OldColumns \subseteq columns)
                <5>1. Settled(5, row)
                    BY <4>1, <4>3 DEF RowSound
                <5>2. Settled(k + 1, row)
                    BY <3>1, <5>1 DEF Settled
                <5> QED
                    BY <3>3, <3>5, <4>1, <4>3, <5>2 DEF Keeps
            <4> QED
                BY <4>2, <4>3
        <3>8. \A row \in rows : row.id \in open'[r].since =>
                 /\ open'[r].pc = "backfill" =>
                       open'[r].stmt \in 1..4 /\ Settled(open'[r].stmt, f[row])
                 /\ open'[r].pc = "unlock" /\ ~open'[r].failed => Settled(5, f[row])
            <4>1. \A row \in rows : row.id \in open[r].since => Settled(k + 1, f[row])
                BY <2>0, <3>3, <3>7 DEF Progress, k
            <4>2. CASE k = 4
                BY <3>2, <4>1, <4>2
            <4>3. CASE k # 4
                BY <3>1, <3>2, <4>1, <4>3
            <4> QED
                BY <4>2, <4>3
        <3>9. \A row \in rows : row.id \in owed' => Settled(5, f[row])
            BY <2>0, <3>3, <3>7 DEF Keeps
        <3>10. \A q \in Replicas : open[q].pc = "backfill" => open[q].stmt \in 1..4
            BY <1>0 DEF Control, OpensSound, OpenSound
        <3>11. \A row \in rows : Keeps(row, f[row]) /\ RowSound(f[row], columns')
            BY <3>7
        <3> QED
            BY <1>0, <2>0, <3>2, <3>3, <3>6, <3>8, <3>9, <3>10, <3>11, DataKept
    <2>8. CASE Unlock(r) \/ UnlockFails(r)
        <3>1. /\ open' = Returned(r) /\ owed' = Promise(r)
              /\ UNCHANGED <<columns, rows>> /\ open[r].pc = "unlock"
            BY <2>8 DEF Unlock, UnlockFails
        <3>2. open'[r].since = {} /\ \A q \in Replicas \ {r} : open'[q] = open[q]
            BY <1>0, <3>1 DEF Returned, Closed, TypeOK
        <3>3. owed' \subseteq Ids
            BY <2>0, <3>1 DEF Promise
        <3>4. \A row \in rows : row.id \in owed' => Settled(5, row)
            BY <2>0, <3>1 DEF Promise, Progress
        <3> QED
            BY <1>0, <3>1, <3>2, <3>3, <3>4, DataUnchanged
    <2>9. CASE StatementFails(r)
        <3>1. /\ open'[r].since = open[r].since /\ open'[r].pc = "unlock" /\ open'[r].failed = TRUE
              /\ \A q \in Replicas \ {r} : open'[q] = open[q]
            BY <1>0, <2>0, <2>9 DEF StatementFails, Fail, TypeOK, OpenType
        <3>2. UNCHANGED <<columns, rows, owed>>
            BY <2>9 DEF StatementFails
        <3> QED
            BY <1>0, <2>0, <3>1, <3>2, DataUnchanged
    <2> QED
        BY <1>4, <2>1, <2>2, <2>3, <2>4, <2>5, <2>6, <2>7, <2>8, <2>9 DEF Step
<1>5. CASE UNCHANGED vars \/ OldStops
    BY <1>1, <1>5 DEF vars, OldStops
<1>6. ASSUME NEW r \in Replicas, NEW call \in Calls, Writes(r, call)
      PROVE  RowsTyped' /\ Data'
    BY <1>1, <1>3, <1>6 DEF Writes
<1> QED
    BY <1>2, <1>4, <1>5, <1>6 DEF Next

-----------------------------------------------------------------------------
(* The theorems.                                                           *)

\* What an Open has read under the advisory lock stays true until it lets go,
\* and each UPDATE of the backfill settles its column of the rows it owes.
THEOREM Invariance == Spec => []IInv
<1>1. Init => IInv
    BY InitTypesAndData, InitControl DEF IInv
<1>2. IInv /\ [Next]_vars => IInv'
    <2> SUFFICES ASSUME IInv, [Next]_vars PROVE IInv'
        OBVIOUS
    <2>1. RowsTyped' /\ Data'
        BY NextData
    <2>2. TypeOK'
        BY <2>1, NextTypes DEF IInv, TypeOK, RowsTyped
    <2> QED
        BY <2>1, <2>2, NextControl DEF IInv
<1> QED
    BY <1>1, <1>2, PTL DEF Spec

\* withMigrationLock serialises migrations: no statement of AutoMigrate meets
\* what another replica has just created, and no replica serves a table that
\* lacks a column, however replicas crash, fail and overlap.
THEOREM MigrationsSerialise == Spec => []ReplicasDoNotCollide
<1>1. IInv => ReplicasDoNotCollide
    BY DEF IInv, Control, OpensSound, OpenSound, ReplicasDoNotCollide
<1> QED
    BY <1>1, Invariance, PTL

\* backfillToolCallRename carries every old row over in the columns it has a
\* statement for, and changes no row of this version in any, whichever of its runs
\* fail, crash or repeat.
THEOREM BackfillCarriesOver == Spec => []RenamesReadAsWritten
<1>1. IInv => RenamesReadAsWritten
    <2> SUFFICES ASSUME IInv, NEW row \in rows
                 PROVE  /\ row.by = "new" => ReadsAsWritten(row, NewColumnSet)
                        /\ row.id \in owed => ReadsAsWritten(row, Renamed)
        BY DEF RenamesReadAsWritten
    <2>1. row.by = "new" => Settled(5, row) /\ row.cols["output_size"] = row.said.output_size
        BY DEF IInv, Data, RowsSound, RowSound
    <2>2. row.id \in owed => Settled(5, row)
        BY DEF IInv, Data, OwedSound
    <2> QED
        BY <2>1, <2>2, SettledReadsAsWritten
<1> QED
    BY <1>1, Invariance, PTL
=============================================================================
