----------------------------- MODULE MCRollout ------------------------------
(***************************************************************************)
(* Two generations of one tool environment, with steps that raise: a drift *)
(* that fails part way, a ground truth that does not run, SQL the          *)
(* tokenizer rejects, an escalation.                                       *)
(***************************************************************************)
EXTENDS MCEpisode, Rollout

\* The drift comes in the second step at the earliest, in the third at the latest.
Brisk == [Rename EXCEPT !.max_step = 3, !.cooldown_steps = 1]

SessionScenarios == {Brisk, [Brisk EXCEPT !.gt_post = Rewrite]}
SessionQueries == {Baseline, Adapted, Unlexed}
SessionTools == {"read_changelog", "run_query", "submit_rewrite"}
=============================================================================
