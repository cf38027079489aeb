------------------------------- MODULE Drift --------------------------------
(***************************************************************************)
(* engine/drift.py: the four drift operations, statement by statement, on  *)
(* the auto-commit connection of an episode.  A statement is atomic; an    *)
(* operation is not: any of its statements may raise, and the environment  *)
(* applies the operation again on its next step, to what is left.          *)
(*                                                                         *)
(* A column is its data type and one value per row.  Values are numbers:   *)
(* iso dates are days, names are their rank in collation order, 0 is NULL. *)
(* DuckDB is external: it refuses to create a column or table that exists. *)
(***************************************************************************)
EXTENDS Integers, Sequences, FiniteSets, FiniteSetsExt

CONSTANTS
    NumRows,       \* bound: rows of the table
    Value,         \* the values its column may hold before the drift
    OldValue,      \* enum_rule: the value that is split
    NewValues,     \* enum_rule: what it is split into, in order
    Faults,        \* TRUE: any statement may raise
    MaxAttempts    \* bound: calls of apply_drift

NULL == 0

Kind == {"column_rename", "date_format", "enum_rule", "field_deprecation"}

ASSUME DriftAssumption ==
    /\ NumRows \in Nat \ {0}
    /\ Value \subseteq Nat /\ OldValue \in Value \ {NULL}
    /\ NewValues \in Seq(Nat) /\ NewValues # <<>>
    /\ \A i \in 1..Len(NewValues) : NewValues[i] \notin Value
    /\ Faults \in BOOLEAN /\ MaxAttempts \in Nat

Row == 0..(NumRows - 1)

VARIABLES
    kind,       \* the DriftConfig's kind
    table,      \* column name -> its type and rows
    lookup,     \* the lookup table, id -> name, or NoTable
    remap,      \* the temporary table _enum_remap, row -> value, or NoTable
    pc,         \* the statement the operation is at, or "idle"
    outcome,    \* how the last call ended
    faulted,    \* a statement of the last call failed by itself
    attempts,
    original,   \* the column's rows before any drift
    before      \* the database when the last call began

database == <<table, lookup, remap>>
vars == <<kind, database, pc, outcome, faulted, attempts, original, before>>

\* A table that does not exist; an empty one has no row.
NoTable == [i \in {-1} |-> NULL]
EmptyTable == [i \in {} |-> NULL]
Created(tab) == tab # NoTable

Cols == DOMAIN table
AddColumn(c, type, rows) ==
    [d \in Cols \cup {c} |-> IF d = c THEN [type |-> type, rows |-> rows] ELSE table[d]]
RenameColumn(old, new) ==
    [d \in (Cols \ {old}) \cup {new} |-> IF d = new THEN table[old] ELSE table[d]]
DropColumn(c) == [d \in Cols \ {c} |-> table[d]]
SetRows(c, rows) == [table EXCEPT ![c].rows = rows]

Cells(c) == {table[c].rows[r] : r \in Row}

\* Milliseconds of a day, in units TLC's integers can hold.
EpochMs(v) == IF v = NULL THEN NULL ELSE 1000 * v

-----------------------------------------------------------------------------
(* apply_drift: dispatch and the probe at the head of each operation *)

\* The lookup's name of the foreign-key column.
FK == "users_id"

\* Mutant: the foreign-key column alone is taken for the end of the operation.
DeprecationAppliedByFK == FK \in Cols

\* The post-condition probes: a second call is answered without a change.
RenameApplied == "new" \in Cols /\ "col" \notin Cols
DateFormatApplied == "col" \in Cols /\ table["col"].type = "BIGINT"
EnumRuleApplied == /\ OldValue \notin Cells("col")
                   /\ \E i \in 1..Len(NewValues) : NewValues[i] \in Cells("col")
DeprecationApplied == "col" \notin Cols /\ FK \in Cols

AlreadyApplied ==
    CASE kind = "column_rename" -> RenameApplied
      [] kind = "date_format" -> DateFormatApplied
      [] kind = "enum_rule" -> EnumRuleApplied
      [] kind = "field_deprecation" -> DeprecationApplied

FirstStatement ==
    CASE kind = "column_rename" -> "rename"
      [] kind = "date_format" -> "add tmp"
      [] kind = "enum_rule" -> "create remap"
      [] kind = "field_deprecation" -> IF Created(lookup) THEN "seed lookup" ELSE "create lookup"

Return(how) == pc' = "idle" /\ outcome' = how

Apply ==
    /\ pc = "idle" /\ attempts < MaxAttempts
    /\ attempts' = attempts + 1
    /\ before' = database
    /\ faulted' = FALSE
    /\ \/ AlreadyApplied /\ Return("already")
       \/ ~AlreadyApplied /\ "col" \notin Cols /\ Return("raised")
       \/ ~AlreadyApplied /\ "col" \in Cols /\ pc' = FirstStatement /\ outcome' = "running"
    /\ UNCHANGED <<kind, database, original>>

-----------------------------------------------------------------------------
(* The statements.  At(s, next) runs statement s and goes on to next. *)

At(s, next) ==
    /\ pc = s
    /\ IF next = "end" THEN Return("applied") ELSE pc' = next /\ UNCHANGED outcome
    /\ UNCHANGED <<kind, faulted, attempts, original, before>>

\* apply_column_rename
RenameStep ==
    /\ At("rename", "end")
    /\ table' = RenameColumn("col", "new")
    /\ UNCHANGED <<lookup, remap>>

\* apply_date_format_change; the temporary column is {col}_epoch_ms.

\* Mutant: the UPDATE that fills the temporary column is left out.
AddTmpUnfilled ==
    /\ "tmp" \notin Cols
    /\ At("add tmp", "drop col")
    /\ table' = AddColumn("tmp", "BIGINT", [r \in Row |-> NULL])
    /\ UNCHANGED <<lookup, remap>>

AddTmp ==
    /\ "tmp" \notin Cols
    /\ At("add tmp", "fill tmp")
    /\ table' = AddColumn("tmp", "BIGINT", [r \in Row |-> NULL])
    /\ UNCHANGED <<lookup, remap>>

FillTmp ==
    /\ At("fill tmp", "drop col")
    /\ table' = SetRows("tmp", [r \in Row |-> EpochMs(table["col"].rows[r])])
    /\ UNCHANGED <<lookup, remap>>

DropCol ==
    /\ At("drop col", "rename tmp")
    /\ table' = DropColumn("col")
    /\ UNCHANGED <<lookup, remap>>

RenameTmp ==
    /\ At("rename tmp", "end")
    /\ table' = RenameColumn("tmp", "col")
    /\ UNCHANGED <<lookup, remap>>

\* apply_enum_rule_change

\* WHEN mod(rid, N) = i THEN the i-th new value
NewValue(r) == NewValues[(r % Len(NewValues)) + 1]

CreateRemap ==
    /\ ~Created(remap)
    /\ At("create remap", "update")
    /\ remap' = [r \in {s \in Row : table["col"].rows[s] = OldValue} |-> NewValue(r)]
    /\ UNCHANGED <<table, lookup>>

UpdateEnum ==
    /\ At("update", "drop remap")
    /\ table' = SetRows("col", [r \in Row |-> IF r \in DOMAIN remap THEN remap[r]
                                              ELSE table["col"].rows[r]])
    /\ UNCHANGED <<lookup, remap>>

DropRemap ==
    /\ At("drop remap", "end")
    /\ remap' = NoTable
    /\ UNCHANGED <<table, lookup>>

\* apply_field_deprecation

Names == {lookup[i] : i \in DOMAIN lookup}
LargestId == IF DOMAIN lookup = {} THEN 0 ELSE Max(DOMAIN lookup)

CreateLookup ==
    /\ At("create lookup", "seed lookup")
    /\ lookup' = EmptyTable
    /\ UNCHANGED <<table, remap>>

\* The names the lookup table does not have yet.
Unlisted == Cells("col") \ (Names \cup {NULL})

\* ROW_NUMBER() OVER (ORDER BY v) + MAX(id)
SeedLookup ==
    /\ At("seed lookup", "add fk")
    /\ LET IdOf(v) == LargestId + Cardinality({w \in Unlisted : w <= v})
       IN lookup' = [i \in DOMAIN lookup \cup {IdOf(v) : v \in Unlisted} |->
                         IF i \in DOMAIN lookup THEN lookup[i]
                         ELSE CHOOSE v \in Unlisted : IdOf(v) = i]
    /\ UNCHANGED <<table, remap>>

AddFK ==
    /\ FK \notin Cols
    /\ At("add fk", "backfill")
    /\ table' = AddColumn(FK, "BIGINT", [r \in Row |-> NULL])
    /\ UNCHANGED <<lookup, remap>>

Backfill ==
    /\ At("backfill", "drop orig")
    /\ \E fk \in [Row -> DOMAIN lookup \cup {NULL}] :
           /\ \A r \in Row : LET ids == {i \in DOMAIN lookup : lookup[i] = table["col"].rows[r]}
                            IN IF ids = {} THEN fk[r] = NULL ELSE fk[r] \in ids
           /\ table' = SetRows(FK, fk)
    /\ UNCHANGED <<lookup, remap>>

DropOrig ==
    /\ At("drop orig", "end")
    /\ table' = DropColumn("col")
    /\ UNCHANGED <<lookup, remap>>

Statement ==
    \/ RenameStep
    \/ AddTmp \/ FillTmp \/ DropCol \/ RenameTmp
    \/ CreateRemap \/ UpdateEnum \/ DropRemap
    \/ CreateLookup \/ SeedLookup \/ AddFK \/ Backfill \/ DropOrig

-----------------------------------------------------------------------------
(* Statements that raise *)

\* The catalog refuses to create what a failed attempt has left behind.
CatalogError ==
    /\ \/ pc = "add tmp" /\ "tmp" \in Cols
       \/ pc = "create remap" /\ Created(remap)
       \/ pc = "add fk" /\ FK \in Cols
    /\ Return("raised")
    /\ UNCHANGED <<kind, database, faulted, attempts, original, before>>

\* A statement raises by itself: a cast, memory, an interrupt.
StatementRaises ==
    /\ Faults /\ pc # "idle"
    /\ Return("raised")
    /\ faulted' = TRUE
    /\ UNCHANGED <<kind, database, attempts, original, before>>

-----------------------------------------------------------------------------
(* The specification *)

Init ==
    /\ kind \in Kind
    /\ original \in [Row -> Value]
    /\ table = [c \in {"col"} |-> [type |-> "VARCHAR", rows |-> original]]
    /\ lookup = NoTable
    /\ remap = NoTable
    /\ pc = "idle"
    /\ outcome = "none"
    /\ faulted = FALSE
    /\ attempts = 0
    /\ before = database

Next == Apply \/ Statement \/ CatalogError \/ StatementRaises

Spec == Init /\ [][Next]_vars

-----------------------------------------------------------------------------
(* Properties *)

\* The data after each kind of drift, said without the statements.
Migrated ==
    CASE kind = "column_rename" ->
             Cols = {"new"} /\ table["new"].rows = original
      [] kind = "date_format" ->
             /\ Cols = {"col"} /\ table["col"].type = "BIGINT"
             /\ \A r \in Row : table["col"].rows[r] = EpochMs(original[r])
      [] kind = "enum_rule" ->
             /\ Cols = {"col"}
             /\ \A r \in Row :
                    IF original[r] # OldValue THEN table["col"].rows[r] = original[r]
                    ELSE table["col"].rows[r] = NewValues[(r % Len(NewValues)) + 1]
      [] kind = "field_deprecation" ->
             /\ Cols = {FK}
             /\ \A i, j \in DOMAIN lookup : lookup[i] = lookup[j] => i = j
             /\ \A r \in Row : IF original[r] = NULL THEN table[FK].rows[r] = NULL
                              ELSE /\ table[FK].rows[r] \in DOMAIN lookup
                                   /\ lookup[table[FK].rows[r]] = original[r]

ReturnsMigrated == outcome \in {"applied", "already"} => Migrated

NewValueSet == {NewValues[i] : i \in 1..Len(NewValues)}

NothingLost ==
    CASE kind = "column_rename" ->
             \E c \in Cols : table[c].rows = original
      [] kind = "date_format" ->
             \E c \in Cols : IF table[c].type = "VARCHAR" THEN table[c].rows = original
                            ELSE \A r \in Row : table[c].rows[r] = EpochMs(original[r])
      [] kind = "enum_rule" ->
             \A r \in Row : \/ table["col"].rows[r] = original[r]
                           \/ (original[r] = OldValue /\ table["col"].rows[r] \in NewValueSet)
      [] kind = "field_deprecation" ->
             \/ "col" \in Cols /\ table["col"].rows = original
             \/ /\ FK \in Cols
                /\ \A r \in Row : IF original[r] = NULL THEN table[FK].rows[r] = NULL
                                 ELSE /\ table[FK].rows[r] \in DOMAIN lookup
                                      /\ lookup[table[FK].rows[r]] = original[r]

\* A call that returns, the first one or a later one and after any failures of
\* earlier ones, leaves the drift fully applied, once (the probes of apply_*);
\* and nothing the column held is lost in between: a failed call leaves every
\* value in the column, in its converted copy or behind the foreign key.
MigratesWithoutLoss == ReturnsMigrated /\ NothingLost
=============================================================================
