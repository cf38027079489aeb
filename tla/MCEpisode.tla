----------------------------- MODULE MCEpisode ------------------------------
(***************************************************************************)
(* Small instances of Episode.  The scenarios are the three shapes the     *)
(* registry has, reduced to what the properties tell apart: no drift, a    *)
(* drift that breaks the baseline (column rename), and a drift the         *)
(* baseline survives with a wrong answer (enum rule).                      *)
(***************************************************************************)
EXTENDS Episode, TLC

CONSTANTS t1, t2, hOld, hNew, hBad

MCHash == {hOld, hNew, hBad}
MCTable == {t1, t2}

Sql(id, lex, pre, post, big, usesPre, usesPost) ==
    [id |-> id, lex |-> lex,
     rows |-> ("pre" :> pre @@ "partial" :> DbError @@ "post" :> post),
     big |-> big, uses_pre |-> usesPre, uses_post |-> usesPost]

\* The baseline and a rewrite of it: they run until the column is renamed.
Baseline == Sql("baseline", "accepted", hOld, DbError, FALSE, TRUE, FALSE)
Rewrite  == Sql("rewrite", "accepted", hOld, DbError, FALSE, TRUE, FALSE)
\* The adapted rewrite: an unknown column before the drift.
Adapted  == Sql("adapted", "accepted", DbError, hNew, FALSE, FALSE, TRUE)
\* A baseline that still runs after an enum split, with a stale answer.
Survivor == Sql("survivor", "accepted", hOld, hBad, FALSE, TRUE, FALSE)
\* A query that reads too much, one that is rejected, one sqlglot cannot lex.
Wide     == Sql("wide", "accepted", hBad, hBad, TRUE, FALSE, FALSE)
Rejected == Sql("rejected", "rejected", DbError, DbError, FALSE, FALSE, FALSE)
Unlexed  == Sql("unlexed", "raises", DbError, DbError, FALSE, FALSE, FALSE)

Tables(pre, post) == ("pre" :> pre @@ "partial" :> pre @@ "post" :> post)

Static ==
    [drifts |-> FALSE, min_step |-> 1, max_step |-> 1, cooldown_steps |-> 0,
     baseline |-> Baseline, gt_pre |-> Rewrite, gt_post |-> NoQuery,
     tables |-> Tables({t1}, {t1}), post_ids |-> FALSE, hints |-> FALSE]

Rename ==
    [drifts |-> TRUE, min_step |-> 2, max_step |-> 4, cooldown_steps |-> 2,
     baseline |-> Baseline, gt_pre |-> Rewrite, gt_post |-> Adapted,
     tables |-> Tables({t1}, {t1, t2}), post_ids |-> TRUE, hints |-> TRUE]

Split == [Rename EXCEPT !.baseline = Survivor, !.cooldown_steps = 0]

\* Run "episode": everything an agent can do around a drift.
EpisodeScenarios == {Static, Rename, Split}
EpisodeQueries == {Baseline, Adapted, Survivor, Wide, Rejected, Unlexed}
=============================================================================
