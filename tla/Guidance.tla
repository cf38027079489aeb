------------------------------ MODULE Guidance ------------------------------
(***************************************************************************)
(* What an agent is told of a drift: the synopsis at reset(), the entry of *)
(* actors/engineering_manager.py that read_changelog returns and the three *)
(* hints per scenario of actors/dba_oracle.py.  All three are written by   *)
(* hand, apart from the drift operation and from the marker sets that pay. *)
(*                                                                         *)
(* Of a text the identifiers and literals it says to use or to give up are *)
(* kept, and of the third hint the query it spells out.                    *)
(***************************************************************************)
EXTENDS Scenarios

\* DriftConfig.payload of the four SPECs.
Payload ==
    CASE kind = "column_rename" -> [old |-> "user_id", new |-> "account_id"]
      [] kind = "date_format" -> [col |-> "ts"]
      [] kind = "enum_rule" -> [old_value |-> "active", new_values |-> {"ACTIVE", "ACTIVE_V2"}]
      [] kind = "field_deprecation" ->
             [orig |-> "author_name", table |-> "users", id |-> "id", name |-> "full_name"]

\* Mutant: the parts of the foreign key's name are swapped.
FkColumnSwapped(p) == p.id \o "_" \o p.table

\* author_changelog builds the name as apply_field_deprecation does.
FkColumn(p) == p.table \o "_" \o p.id

\* How f"{table}_{id}" comes out: a fact of strings, which the provers do not know.
ASSUME FkNameAssumption == "users" \o "_" \o "id" = FK

\* author_changelog: what fails from now on, and what to use.
Changelog ==
    CASE kind = "column_rename" -> [gone |-> {Payload.old}, use |-> {Payload.new}]
      [] kind = "date_format" -> [gone |-> {"iso anchor"}, use |-> {Payload.col, "epoch bound"}]
      [] kind = "enum_rule" -> [gone |-> {Payload.old_value}, use |-> Payload.new_values]
      [] kind = "field_deprecation" ->
             [gone |-> {Payload.orig},
              use |-> {FkColumn(Payload), Payload.table, Payload.id, Payload.name}]

\* _initial_schema_synopsis: the text up to " Under drift".
InitialSynopsis ==
    CASE kind = "column_rename" -> {"id", "signup_month", "user_id", "amount"}
      [] kind = "date_format" -> {"id", "ts", "kind"}
      [] kind = "enum_rule" -> {"id", "status", "tier"}
      [] kind = "field_deprecation" -> {"id", "author_name", "body"}

-----------------------------------------------------------------------------
(* The oracle *)

\* _HINTS: what each tier says to use.
HINTS ==
    CASE kind = "column_rename" -> <<{}, {"account_id"}, {"account_id", "amount"}>>
      [] kind = "date_format" ->
             <<{"ts"}, {"ts", "epoch bound"}, {"ts", "kind", "epoch bound"}>>
      [] kind = "enum_rule" -> <<{"status"}, {"tier"}, {"tier", "status", "ACTIVE", "ACTIVE_V2"}>>
      [] kind = "field_deprecation" ->
             <<{"users_id", "users"}, {"full_name"}, {"full_name", "id", "users_id"}>>

\* get_hint clamps the tier; consult_dba passes the number of consultations.
Hint(consultations) == HINTS[IF consultations > 3 THEN 3 ELSE consultations]

\* The third hints of 01 to 06 are the text of the ground truth.
StaticHint(f) == StaticTruth(f)

\* Mutant: the hint's upper bound is the last second of the day.
HintUntilShort == EpochMs(AnchorNext) - 1000

\* "1776729600000 <= ts < 1776816000000", 2026-04-21 and the midnight after it.
HintUntil == EpochMs(AnchorNext)

\* The rows of the third hint's query on the tables as they are.
HintNow ==
    CASE kind = "column_rename" -> ColumnOrRaises("new", Groups)
      [] kind = "date_format" ->
             IF "col" \in Cols /\ table["col"].type = "BIGINT"
             THEN InWindow(table["col"].rows, EpochMs(Anchor), HintUntil) ELSE Raises
      [] kind = "enum_rule" ->
             ColumnOrRaises("col", LAMBDA rows : Labelled(rows, NewValueSet))
      [] kind = "field_deprecation" ->
             IF FK \in Cols /\ Created(lookup) THEN Truth10 ELSE Raises

-----------------------------------------------------------------------------
(* The tables under the names the texts use *)

\* The real name of a column of Drift's table.
NameOf(c) ==
    CASE c = "new" -> "account_id"
      [] c = "col" /\ kind = "column_rename" -> "user_id"
      [] c = "col" /\ kind = "date_format" -> "ts"
      [] c = "col" /\ kind = "enum_rule" -> "status"
      [] c = "col" /\ kind = "field_deprecation" -> "author_name"
      [] OTHER -> c

\* The other columns of the scenario's tables.
Others ==
    CASE kind = "column_rename" -> {"id", "amount"}
      [] kind = "date_format" -> {"id", "kind"}
      [] kind = "enum_rule" -> {"id", "tier"}
      [] kind = "field_deprecation" -> {"id", "body"}

\* The label of a value of the enum; the second of three new ones is not used.
LabelsFor(value) ==
    IF value = OldValue THEN {"active"}
    ELSE IF value \in NewValueSet THEN {"ACTIVE", "ACTIVE_V2"} ELSE {}

\* What a query may name now and mean something: columns, tables, literals a
\* comparison with the column's cells can hit.
Meaningful ==
    {NameOf(c) : c \in Cols} \cup Others
    \cup (IF Created(lookup) THEN {"users", "full_name"} ELSE {})
    \cup (IF kind = "date_format" /\ "col" \in Cols
          THEN {IF table["col"].type = "BIGINT" THEN "epoch bound" ELSE "iso anchor"} ELSE {})
    \cup (IF kind = "enum_rule" THEN UNION {LabelsFor(v) : v \in Cells("col")} ELSE {})

\* The data give every label a row to hit.
Populated == kind = "enum_rule" => OldValue \in {original[r] : r \in Row}

\* The table is as the builder left it.
Undrifted == Cols = {"col"} /\ table["col"].type = "VARCHAR" /\ table["col"].rows = original

-----------------------------------------------------------------------------
(* Properties *)

\* An agent that does what it is told is right and is paid.  Once the drift is
\* applied, the changelog is true of the tables as they are: what it gives up
\* means nothing any more, what it and the hints say to use does.  It covers the
\* marker sets: nothing pays or costs that it does not name.  The third hint is a
\* right answer that scores the full adaptation reward, and before the drift it is
\* none; and the synopsis at reset names nothing the drift will pay for.
GuidanceIsTrue ==
    /\ ~DriftScenario => StaticHint(fixture) = StaticBaseline(fixture)
    /\ DriftScenario => InitialSynopsis \cap Markers.post_ids = {}
    /\ DriftScenario => Markers.post_ids \subseteq Changelog.use
                        /\ Markers.pre_ids \subseteq Changelog.gone
    /\ Drifted =>
           /\ Changelog.gone \cap Meaningful = {}
           /\ Populated => Changelog.use \cup UNION {Hint(n) : n \in 1..4} \subseteq Meaningful
           /\ DriftScore(HintNow, Hint(3)) = 500
    /\ DriftScenario /\ Undrifted /\ Populated => HintNow # BaselineNow
=============================================================================
