----------------------------- MODULE Scenarios ------------------------------
(***************************************************************************)
(* The ten authored scenarios: the tables a builder fills and the results  *)
(* of its baseline query and its ground truths.                            *)
(*                                                                         *)
(* 01-06 do not drift.  Their ground truth is a faster form of the         *)
(* baseline, and both must give the same bag of rows on every database the *)
(* builder may draw.  07-10 drift by an operation of Drift, and there the  *)
(* queries are evaluated on Drift's table, at every statement of it.       *)
(*                                                                         *)
(* A query result is a bag: a function from rows to how often they occur.  *)
(* A group is the set of its source rows, which stands for every aggregate *)
(* over them.  What a random fixture may hold is a set of functions, from  *)
(* the ids of a table to what the builder draws for each.                  *)
(***************************************************************************)
EXTENDS Drift

CONSTANTS
    Parent,       \* bound: ids of a referenced table
    Child,        \* bound: ids of a referencing table
    NoFixture,    \* a drift scenario: the data are Drift's
    Raises        \* a query that names a missing column or compares it wrongly

ASSUME ScenariosAssumption ==
    /\ IsFiniteSet(Parent) /\ Parent \subseteq Nat
    /\ IsFiniteSet(Child) /\ Child \subseteq Nat
    /\ NULL \notin Parent

VARIABLE fixture  \* the database of a scenario without drift

scenarioVars == <<vars, fixture>>

Reward == INSTANCE Rubric

-----------------------------------------------------------------------------
(* SQL *)

\* One row for each derivation, equal rows counted.
Rows(derivations, Project(_)) ==
    [row \in {Project(d) : d \in derivations} |->
        Cardinality({d \in derivations : Project(d) = row})]

\* SELECT f(row) FROM (subquery).
Projected(bag, Project(_)) ==
    [row \in {Project(r) : r \in DOMAIN bag} |->
        FoldSet(LAMBDA r, n : n + bag[r], 0, {r \in DOMAIN bag : Project(r) = row})]

Distinct(bag) == [row \in DOMAIN bag |-> 1]

\* GROUP BY Key: a pair of the key and the group's source rows for each key.
GroupBy(source, Key(_)) ==
    {<<key, {r \in source : Key(r) = key}>> : key \in {Key(r) : r \in source}}

-----------------------------------------------------------------------------
(* _fixtures.py: what a builder may draw *)

ZipfianChoices(population, ids) == [ids -> population]
CategoricalChoices(categories, ids) == [ids -> categories]

\* Mutant: names are drawn without regard to one another.
UniqueNamesDrawn(ids) == [ids -> Child]

\* 64 random bits each: taken as distinct.
UniqueNames(ids) == {f \in [ids -> Child] : \A i, j \in ids : f[i] = f[j] => i = j}

-----------------------------------------------------------------------------
(* The builders of 01 to 06, and the queries *)

\* 01: users and their orders.
CorrelatedSubquery ==
    [id : {1}, tier : CategoricalChoices({"free", "pro"}, Parent),
     user_id : ZipfianChoices(Parent, Child),
     status : CategoricalChoices({"fulfilled", "placed"}, Child)]

Fulfilled(f) == {o \in Child : f.status[o] = "fulfilled"}

\* A COUNT(*) subquery for each user.
Baseline01(f) ==
    Rows(Parent, LAMBDA u :
             <<u, f.tier[u], Cardinality({o \in Fulfilled(f) : f.user_id[o] = u})>>)

\* LEFT JOIN on the grouped orders, COALESCE(c.n, 0).
Truth01(f) ==
    LET c == GroupBy(Fulfilled(f), LAMBDA o : f.user_id[o])
        joined == {d \in Parent \X c : d[2][1] = d[1]}
        unmatched == {u \in Parent : \A g \in c : g[1] # u}
    IN  Rows(joined \cup {<<u, <<NULL, {}>>>> : u \in unmatched},
             LAMBDA d : <<d[1], f.tier[d[1]], Cardinality(d[2][2])>>)

\* 02: order items with their product and order.
SelectStarJoin ==
    [id : {2}, name : UniqueNames(Parent),
     category : CategoricalChoices({"books", "home"}, Parent),
     order_id : ZipfianChoices(Parent, Child), product_id : ZipfianChoices(Parent, Child),
     qty : ZipfianChoices({1, 2}, Child)]

JoinedItems(f) ==
    {d \in Child \X Parent \X Parent :
        /\ d[2] = f.product_id[d[1]] /\ d[3] = f.order_id[d[1]]
        /\ f.category[d[2]] = "books" /\ f.qty[d[1]] >= 2}

\* The outer query projects the wide rows of SELECT *; items have no key.
Baseline02(f) ==
    Projected(Rows(JoinedItems(f), LAMBDA d :
                       <<f.order_id[d[1]], f.qty[d[1]], d[2], f.name[d[2]], d[3]>>),
              LAMBDA wide : <<wide[1], wide[4], wide[2]>>)

Truth02(f) ==
    Rows(JoinedItems(f), LAMBDA d : <<f.order_id[d[1]], f.name[d[2]], f.qty[d[1]]>>)

\* 03: events and their tenants.
CartesianJoin ==
    [id : {3}, tier : CategoricalChoices({"free", "pro"}, Parent),
     tenant_id : ZipfianChoices(Parent, Child),
     severity : CategoricalChoices({"info", "error", "critical"}, Child)]

Severe(f) == {e \in Child : f.severity[e] \in {"error", "critical"}}

CountByTier(f, pairs) ==
    Rows(GroupBy(pairs, LAMBDA d : f.tier[d[2]]), LAMBDA g : <<g[1], Cardinality(g[2])>>)

\* The product of the tables, filtered; the rewrite looks the tenant up.
Baseline03(f) ==
    CountByTier(f, {d \in Child \X Parent : d[2] = f.tenant_id[d[1]] + 0 /\ d[1] \in Severe(f)})

Truth03(f) == CountByTier(f, {<<e, f.tenant_id[e]>> : e \in Severe(f)})

\* 04: page views of sessions.
DistinctGroupBy ==
    [id : {4}, session_id : ZipfianChoices(Parent, Child),
     path : CategoricalChoices({"home", "cart"}, Child)]

Truth04(f) ==
    Rows(GroupBy(Child, LAMBDA v : <<f.session_id[v], f.path[v]>>),
         LAMBDA g : <<g[1], Cardinality(g[2])>>)

Baseline04(f) == Distinct(Truth04(f))

\* 05: authors, the articles and who commented on them.
NestedSubquery ==
    [id : {5}, display_name : UniqueNames(Parent),
     status : CategoricalChoices({"published", "draft"}, Parent),
     article_id : ZipfianChoices(Parent, Child), author_id : ZipfianChoices(Parent, Child)]

Published(f) == {a \in Parent : f.status[a] = "published"}

\* Authors in the authors of the comments on published articles.
Baseline05(f) ==
    LET commenters == {f.author_id[c] : c \in {c \in Child : f.article_id[c] \in Published(f)}}
    IN  Rows(Parent \cap commenters, LAMBDA a : f.display_name[a])

\* DISTINCT over the join names each commenter once, by display name.
Truth05(f) ==
    Distinct(Rows({d \in Parent \X Child :
                      f.author_id[d[2]] = d[1] /\ f.article_id[d[2]] \in Published(f)},
                  LAMBDA d : f.display_name[d[1]]))

\* 06: orders of tenants.
HavingAsWhere ==
    [id : {6}, tenant_id : ZipfianChoices(Parent, Child),
     status : CategoricalChoices({"fulfilled", "placed"}, Child),
     amount_cents : ZipfianChoices({1, 2}, Child)]

\* HAVING SUM(amount_cents) >= 100000, in the units of the fixture.
HAVING_FLOOR == 3

TotalCents(f, orders) == FoldSet(LAMBDA o, sum : sum + f.amount_cents[o], 0, orders)

Totals(f, orders, Having(_)) ==
    Rows({g \in GroupBy(orders, LAMBDA o : <<f.tenant_id[o], f.status[o]>>) :
             Having(g[1]) /\ TotalCents(f, g[2]) >= HAVING_FLOOR},
         LAMBDA g : <<g[1], TotalCents(f, g[2])>>)

Baseline06(f) == Totals(f, Child, LAMBDA key : key[2] = "fulfilled")

Truth06(f) == Totals(f, Fulfilled(f), LAMBDA key : TRUE)

StaticFixture == CorrelatedSubquery \cup SelectStarJoin \cup CartesianJoin
                 \cup DistinctGroupBy \cup NestedSubquery \cup HavingAsWhere

StaticBaseline(f) ==
    CASE f.id = 1 -> Baseline01(f) [] f.id = 2 -> Baseline02(f) [] f.id = 3 -> Baseline03(f)
      [] f.id = 4 -> Baseline04(f) [] f.id = 5 -> Baseline05(f) [] f.id = 6 -> Baseline06(f)

StaticTruth(f) ==
    CASE f.id = 1 -> Truth01(f) [] f.id = 2 -> Truth02(f) [] f.id = 3 -> Truth03(f)
      [] f.id = 4 -> Truth04(f) [] f.id = 5 -> Truth05(f) [] f.id = 6 -> Truth06(f)

-----------------------------------------------------------------------------
(* 07 to 10: the column that drifts, the queries and the marker sets.      *)
(* A query reads the tables as they are; markers are column references and *)
(* string literals: an alias or a table's name is none.                    *)

Drawn == Value \ {NULL}

Groups(rows) == GroupBy(Row, LAMBDA r : rows[r])
Selected(keep) == {<<"selected", keep>>}
ColumnOrRaises(c, Query(_)) == IF c \in Cols THEN Query(table[c].rows) ELSE Raises

\* 07: orders by user.
ColumnRename == ZipfianChoices(Drawn, Row)
Baseline07(rows, type) == Groups(rows)
Truth07 == ColumnOrRaises("new", Groups)
Markers07 == [post_ids |-> {"account_id"}, pre_ids |-> {"user_id"},
              truth |-> {"account_id", "amount"}, baseline |-> {"user_id", "amount"}]

\* 08: the events of one day, in days and in milliseconds.
DateFormat == ZipfianChoices(Drawn, Row)
Anchor == 1
AnchorNext == 2

\* Mutant: the anchors of the post-drift window are left in days.
AnchorMsInDays(day) == day

\* _ANCHOR_MS, _ANCHOR_NEXT_MS.
AnchorMs(day) == EpochMs(day)

InWindow(rows, from, to) ==
    Selected({r \in Row : rows[r] # NULL /\ from <= rows[r] /\ rows[r] < to})

\* Mutant: the type of the column is not looked at.
Baseline08AnyType(rows, type) == InWindow(rows, Anchor, AnchorNext)

\* A number is not comparable with an ISO string, nor an ISO string with one.
Baseline08(rows, type) ==
    IF type = "VARCHAR" THEN InWindow(rows, Anchor, AnchorNext) ELSE Raises

Truth08 ==
    IF "col" \in Cols /\ table["col"].type = "BIGINT"
    THEN InWindow(table["col"].rows, AnchorMs(Anchor), AnchorMs(AnchorNext)) ELSE Raises

\* Mutant: the column name, which the drift keeps, is taken for a marker.
Markers08Loose == [post_ids |-> {}, pre_ids |-> {"ts", "iso anchor"},
                   truth |-> {"kind", "ts"}, baseline |-> {"kind", "ts", "iso anchor"}]

Markers08 == [post_ids |-> {}, pre_ids |-> {"iso anchor"},
              truth |-> {"kind", "ts"}, baseline |-> {"kind", "ts", "iso anchor"}]

\* 09: the active tenants.
EnumRule == CategoricalChoices(Drawn, Row)
Labelled(rows, labels) == Selected({r \in Row : rows[r] \in labels})
Baseline09(rows, type) == Labelled(rows, {OldValue})
Truth09 == ColumnOrRaises("col", LAMBDA rows : Labelled(rows, NewValueSet))
Markers09 == [post_ids |-> {"ACTIVE", "ACTIVE_V2"}, pre_ids |-> {"active"},
              truth |-> {"tier", "status", "ACTIVE", "ACTIVE_V2"},
              baseline |-> {"tier", "status", "active"}]

\* 10: posts by author, whose names move to a table of users.
FieldDeprecation == ZipfianChoices(Drawn, Row)
Baseline10(rows, type) == Groups(rows)

\* posts JOIN users ON users.id = posts.users_id
Truth10 ==
    IF FK \in Cols /\ Created(lookup)
    THEN GroupBy({r \in Row : table[FK].rows[r] \in DOMAIN lookup},
                 LAMBDA r : lookup[table[FK].rows[r]])
    ELSE Raises

Markers10 == [post_ids |-> {"users", "users_id", "full_name"}, pre_ids |-> {"author_name"},
              truth |-> {"full_name", "id", "users_id"}, baseline |-> {"author_name"}]

\* A query that raises has no result, whatever the rows.
ASSUME RaisesAssumption ==
    /\ \A rows \in [Row -> Value] : Raises # Groups(rows)
    /\ \A keep \in SUBSET Row : Raises # Selected(keep)

DriftFixture ==
    CASE kind = "column_rename" -> ColumnRename [] kind = "date_format" -> DateFormat
      [] kind = "enum_rule" -> EnumRule [] kind = "field_deprecation" -> FieldDeprecation

\* The baseline, which is the pre-drift ground truth too, on a column.
BaselineOver(rows, type) ==
    CASE kind = "column_rename" -> Baseline07(rows, type)
      [] kind = "date_format" -> Baseline08(rows, type)
      [] kind = "enum_rule" -> Baseline09(rows, type)
      [] kind = "field_deprecation" -> Baseline10(rows, type)

BaselineNow == ColumnOrRaises("col", LAMBDA rows : BaselineOver(rows, table["col"].type))

TruthNow ==
    CASE kind = "column_rename" -> Truth07 [] kind = "date_format" -> Truth08
      [] kind = "enum_rule" -> Truth09 [] kind = "field_deprecation" -> Truth10

Markers ==
    CASE kind = "column_rename" -> Markers07 [] kind = "date_format" -> Markers08
      [] kind = "enum_rule" -> Markers09 [] kind = "field_deprecation" -> Markers10

\* What DriftAdapt gives a submission with this result and these markers.
DriftScore(result, markers) ==
    Reward!DriftAdapt(TRUE, result = TruthNow, Markers.post_ids \cap markers # {},
                      Markers.post_ids # {}, Markers.pre_ids \cap markers # {})

-----------------------------------------------------------------------------
(* The specification *)

DriftScenario == fixture = NoFixture

DriftInit == Init /\ fixture = NoFixture

\* Drift's variables are idle for a scenario that does not drift.
StaticInit ==
    /\ fixture \in StaticFixture
    /\ Init /\ kind = "column_rename" /\ original = [r \in Row |-> OldValue]

ScenariosInit == DriftInit \/ StaticInit

ScenariosNext == DriftScenario /\ Next /\ UNCHANGED fixture

ScenariosSpec == ScenariosInit /\ [][ScenariosNext]_scenarioVars

-----------------------------------------------------------------------------
(* Properties *)

\* A drift scenario that has drifted, on rows its builder may have drawn: none
\* puts a NULL into the column.
Drifted == DriftScenario /\ Migrated /\ original \in DriftFixture

\* A scenario's baseline and its ground truth agree on every database its
\* builder may draw: parents without children, children that share every value,
\* empty groups, ties.  The baseline resubmitted is slow, never wrong.
RewriteEquivalent ==
    ~DriftScenario => StaticBaseline(fixture) = StaticTruth(fixture)

\* After a drift, however many failed attempts it took, the post-drift ground
\* truth gives what the pre-drift one gave on the rows before: the agent is asked
\* the same question again.  The baseline is never silently right: it raises, or,
\* for the enum rule, loses every row it counted.  (baseline_postdrift_raises and
\* with it the infinite speedup hang on which of the two.)
OnlyTruthSurvivesDrift ==
    Drifted =>
        /\ TruthNow = BaselineOver(original, "VARCHAR")
        /\ BaselineNow = IF kind = "enum_rule" THEN Selected({}) ELSE Raises

\* The authored marker sets pay the adapted ground truth and never the
\* unadapted baseline, which is punished where it still runs and is wrong.
MarkersTellAdaptation ==
    Drifted =>
        /\ DriftScore(TruthNow, Markers.truth) = 500
        /\ DriftScore(BaselineNow, Markers.baseline) =
               IF BaselineNow = TruthNow THEN 0 ELSE -500
=============================================================================
