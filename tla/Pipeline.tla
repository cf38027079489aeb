------------------------------ MODULE Pipeline ------------------------------
(***************************************************************************)
(* Training and evaluation together: the runs of train() leave a           *)
(* directory, training/eval.py is given that directory or a checkpoint-N   *)
(* in it, or "base".  Nothing keeps a user from evaluating it while a      *)
(* later run trains over it, or after one crashed there.                   *)
(*                                                                         *)
(* Three bounds keep the instance small and lose nothing, since a sweep    *)
(* reads the directory once, when it loads it, and writes nothing there:   *)
(* "base" is evaluated when nothing has been trained, training rests while *)
(* a sweep runs, and no run is started after the first sweep.              *)
(***************************************************************************)
EXTENDS Training, Evaluation

VARIABLE source      \* where the weights that are evaluated come from

pipelineVars == <<vars, sweepVars, trainingVars, source>>

\* The run and the step of the weights, and if they are the saved model.
Source(r, n, final) == [run |-> r, step |-> n, final |-> final]
NoSource == Source(0, 0, FALSE)

\* The run whose weights are in the output directory itself, for n = 0, or in
\* checkpoint-n.
Writer(n) == IF n = 0 THEN run_dir.model ELSE run_dir.checkpoints[n]

\* What load_agent finds there; LLMAgent does not look at grpo_config.json.
Checkpoint(n) ==
    IF host = "local" /\ Writer(n) > 0 THEN "saved"
    ELSE IF host = "local" /\ n = 0 /\ run_dir.config > 0 THEN "config" ELSE "absent"

Weights(n) == Source(Writer(n), IF n = 0 THEN TrainSteps ELSE n, n = 0)

PipelineInit == Init /\ SweepInit /\ TrainingInit /\ source = NoSource

EvaluateBase ==
    /\ host = "none" /\ runner.pc = "off"
    /\ \E w \in Sweeps : StartSweep("random", w, "absent") \/ StartRollout(w)
    /\ UNCHANGED <<trainingVars, source>>

EvaluateTrained ==
    /\ host = "local"
    /\ \E w \in Sweeps, n \in 0..TrainSteps :
           /\ StartSweep("llm", w, Checkpoint(n))
           /\ source' = IF sweep'.pc = "off" THEN NoSource ELSE Weights(n)
    /\ UNCHANGED trainingVars

\* The agent goes with its process.
Evaluates ==
    /\ SweepStep
    /\ source' = IF sweep'.pc = "off" THEN NoSource ELSE source
    /\ UNCHANGED trainingVars

Launches ==
    /\ sweep = Idle(0)
    /\ Launch
    /\ UNCHANGED <<vars, sweepVars, source>>

Trains ==
    /\ sweep.pc = "off"
    /\ TrainingStep
    /\ UNCHANGED <<vars, sweepVars, source>>

PipelineNext ==
    EvaluateBase \/ EvaluateTrained \/ Evaluates \/ Launches \/ Trains

PipelineSpec == PipelineInit /\ [][PipelineNext]_pipelineVars

\* Processes that run go on: the loops of the runner, the job and train(), and
\* the loop of a sweep.  Nobody has to start one, and nothing has to go wrong.
PipelineFairness ==
    /\ WF_pipelineVars(Evaluates)
    /\ WF_pipelineVars(Trains /\ RunnerGoesOn)
    /\ WF_pipelineVars(Trains /\ (JobGoesOn \/ TrainStep))

\* What is evaluated as a trained agent has its training on record, also when it
\* is a checkpoint of a run that crashed later, or a model that an earlier run left
\* in a directory where another one trains or failed: the log holds what its run
\* recorded up to the step of the weights, and the summary when it is the saved
\* model; a directory without weights is never taken for one (load_agent,
\* LLMAgent.__init__, _FlushLogHistory.on_log, train).
EvaluatesSavedModel ==
    sweep.pc # "off" /\ sweep.agent = "llm" =>
        /\ source.run \in 1..Run
        /\ LogCovers(source.run, source.step)
        /\ source.final => Finished(source.run)

\* A sweep comes to an end, also one whose agent never submits, whose steps
\* raise or whose files cannot be written; and so does the runner of a submitted
\* job, also when the job fails or is cancelled between two polls.
RunsEnd == SweepEnds /\ RunnerEnds
=============================================================================
