----------------------------- MODULE MCPipeline -----------------------------
(***************************************************************************)
(* A job, or two runs of two steps over one directory, and sweeps over a   *)
(* static scenario and one that drifts in its second step and breaks the   *)
(* baseline.                                                               *)
(***************************************************************************)
EXTENDS MCEpisode, MCTraining, Pipeline

\* SELECT * of a table: it runs on every schema and matches no ground truth.
Star == Sql("star", "accepted", hBad, hBad, FALSE, FALSE, FALSE)
PipelineStar == [t \in Table |-> Star]

Quick == [Rename EXCEPT !.max_step = 2, !.cooldown_steps = 0]

PipelineScenarios == {Static, Quick}
PipelineQueries == {Baseline, Adapted, Star}
PipelineTools == {"list_tables", "describe_table", "run_query", "submit_rewrite"}

PipelineSweeps ==
    {[scenarios |-> <<Quick>>, seeds |-> 1, max_steps |-> 4],
     [scenarios |-> <<Static, Quick>>, seeds |-> 1, max_steps |-> 2],
     [scenarios |-> <<Static, UnknownScenario>>, seeds |-> 1, max_steps |-> 2],
     [scenarios |-> <<Quick>>, seeds |-> 0, max_steps |-> 4]}

Long == {w \in Sweeps : Planned(w) > 0}

\* What a sweep does, and what becomes of it, does not depend on the run its
\* weights are from.  So the sweeps with episodes start before any training or
\* after one that is done, and the one without, which loads the agent all the
\* same, at any point of any run.
BoundedNext ==
    /\ PipelineNext
    /\ sweep.pc = "off" /\ sweep'.pc # "off" /\ sweep'.of \in Long =>
           \/ host = "none"
           \/ Run = 1 /\ train.phase = "done" /\ train.runs[1].curriculum.mode = "weighted"

BoundedSpec == PipelineInit /\ [][BoundedNext]_pipelineVars /\ PipelineFairness
=============================================================================
