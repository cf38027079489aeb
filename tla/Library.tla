------------------------------ MODULE Library ------------------------------
(***************************************************************************)
(* skill_library/: the pre-seeded playbook and drift cards, and retrieval  *)
(* over them and the entries a session learned.                            *)
(*                                                                         *)
(* A playbook entry is its tag set, its speedup in thousandths, the rank   *)
(* of its before_snippet in the lexicographic order of all of them, and    *)
(* where it comes from.  Texts are left out: a hint is the entry it is     *)
(* rendered from (render() cuts the text at 800 characters, at most eleven *)
(* off the end of the last hint).                                          *)
(***************************************************************************)
EXTENDS Integers, Sequences, FiniteSets, SequencesExt

\* The tags of the scenario specs 01 to 10.
Tags == <<
    {"correlated_subquery", "projection_subquery", "ecommerce"},
    {"select_star", "over_projection", "join", "ecommerce"},
    {"cartesian", "missing_join_condition", "events"},
    {"distinct", "redundant_distinct", "group_by", "saas_logs"},
    {"nested_subquery", "in_subquery", "cms"},
    {"having_as_where", "aggregate_filter", "ecommerce"},
    {"drift", "column_rename", "ecommerce"},
    {"drift", "date_format", "iso_to_epoch", "events"},
    {"drift", "enum_rule", "business_rule", "multitenant"},
    {"drift", "field_deprecation", "fk_backfill", "cms"} >>

\* drift_config.kind; None for 01 to 06.
NoKind == "none"
DriftKinds == <<"column_rename", "date_format", "enum_rule", "field_deprecation">>
KindOf(scenario) == IF scenario <= 6 THEN NoKind ELSE DriftKinds[scenario - 6]

\* Rank of the baseline's first 200 characters among all before_snippets.
BeforeOf == <<15, 10, 11, 5, 8, 12, 16, 9, 13, 7>>

Preseed(tags, speedup, before) ==
    [tags |-> tags, speedup |-> speedup, before |-> before, source |-> "preseed"]

\* PRESEED_PLAYBOOK; the first six are written for scenarios 01 to 06.
PRESEED_PLAYBOOK == <<
    Preseed({"correlated_subquery", "projection_subquery"}, 6000, 14),
    Preseed({"select_star", "over_projection", "join"}, 2500, 3),
    Preseed({"cartesian", "missing_join_condition"}, 50000, 4),
    Preseed({"distinct", "redundant_distinct", "group_by"}, 1400, 6),
    Preseed({"nested_subquery", "in_subquery"}, 3000, 17),
    Preseed({"having_as_where", "aggregate_filter"}, 2000, 1),
    Preseed({"subquery", "generic"}, 4000, 18),
    Preseed({"over_projection", "generic"}, 1800, 2) >>

\* PRESEED_DRIFT_CARDS, one for each kind.
PRESEED_DRIFT_CARDS == <<
    [drift_kind |-> "column_rename", success_rate |-> 900],
    [drift_kind |-> "date_format", success_rate |-> 850],
    [drift_kind |-> "enum_rule", success_rate |-> 800],
    [drift_kind |-> "field_deprecation", success_rate |-> 750] >>

-----------------------------------------------------------------------------
(* retrieval.py *)

\* jaccard, as a fraction.
Jaccard(a, b) ==
    IF a = {} /\ b = {} THEN [num |-> 1, den |-> 1]
    ELSE IF a = {} \/ b = {} THEN [num |-> 0, den |-> 1]
    ELSE [num |-> Cardinality(a \cap b), den |-> Cardinality(a \cup b)]

Exceeds(j, l) == j.num * l.den > l.num * j.den

\* j >= JACCARD_MIN, which is 0.3.
Qualifies(query_tags, entry) ==
    LET j == Jaccard(query_tags, entry.tags) IN 10 * j.num >= 3 * j.den

\* The sort key (-j, -avg_speedup, before_snippet), and the stable order of equals.
RanksAbove(query_tags, entries, i, l) ==
    LET j == Jaccard(query_tags, entries[i].tags)
        m == Jaccard(query_tags, entries[l].tags)
        a == entries[i]
        b == entries[l]
    IN  \/ Exceeds(j, m)
        \/ /\ ~Exceeds(m, j)
           /\ \/ a.speedup > b.speedup
              \/ a.speedup = b.speedup /\ a.before < b.before
              \/ a.speedup = b.speedup /\ a.before = b.before /\ i < l

\* sort(): what comes n-th has n - 1 before it.
InOrder(S, Before(_, _)) ==
    LET Place(l) == 1 + Cardinality({i \in S : Before(i, l)})
    IN  [n \in 1..Cardinality(S) |-> CHOOSE l \in S : Place(l) = n]

FirstOf(seq, k) == SubSeq(seq, 1, IF Len(seq) < k THEN Len(seq) ELSE k)

\* top_k_playbook, as indices into the entries.
TopK(query_tags, entries, k) ==
    LET matches == {i \in DOMAIN entries : Qualifies(query_tags, entries[i])}
    IN  FirstOf(InOrder(matches, LAMBDA i, l : RanksAbove(query_tags, entries, i, l)), k)

\* top_k_drift_cards.
TopKCards(kind, cards, k) ==
    LET matches == {i \in DOMAIN cards : cards[i].drift_kind = kind}
        before(i, l) == \/ cards[i].success_rate > cards[l].success_rate
                        \/ cards[i].success_rate = cards[l].success_rate /\ i < l
        order == InOrder(matches, before)
    IN  IF kind = NoKind THEN <<>> ELSE FirstOf([n \in DOMAIN order |-> cards[order[n]]], k)

\* retrieve: three rewrites and one card.
Retrieve(query_tags, kind, playbook, cards) ==
    LET top == TopK(query_tags, playbook, 3)
    IN  [playbook |-> [i \in DOMAIN top |-> playbook[top[i]]],
         drift_cards |-> TopKCards(kind, cards, 1)]

\* load_all: the seeds, then what the store holds (the server stores no cards).
LoadAll(learned) == PRESEED_PLAYBOOK \o learned
=============================================================================
