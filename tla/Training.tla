------------------------------ MODULE Training ------------------------------
(***************************************************************************)
(* A GRPO training run: train() of training/grpo_train.py, either on this  *)
(* machine or as the last command of the shell script of a remote job      *)
(* (utilities/run_training_job.py), with the local process that submits    *)
(* the job and watches it.                                                 *)
(*                                                                         *)
(* The job service and pip are external.  A job may be killed at any time; *)
(* any command of the script and any phase of train() may fail.            *)
(*                                                                         *)
(* Runs on this machine follow one another in one output directory, each   *)
(* over what the runs before it have left there; a run is known by its     *)
(* number.  The output directory of a job is the container's, so jobs and  *)
(* local runs share nothing and a behaviour has one kind of them.  Two     *)
(* train() at a time in one directory are left out.                        *)
(***************************************************************************)
EXTENDS Integers, Sequences, Curriculum

CONSTANTS
    TrainSteps,      \* max_steps of every run
    MaxRuns          \* bound on the runs started on this machine

\* GRPOConfig.__post_init__
ASSUME TrainStepsAssumption ==
    /\ TrainSteps \in Nat \ {0} /\ MaxRuns \in Nat
    /\ \A m \in Manifests : m.max_steps = TrainSteps

VARIABLES
    runner,      \* the local process of run_training_job.main
    stage,       \* the job's stage at the job service
    script,      \* number of the script's next command
    stack,       \* what torch and the libraries in the environment are
    host,        \* where train() runs: "none", "job" or "local"
    train,       \* train(): its phase, its manifest, the optimizer steps done, and
                 \* as a history the manifests of all runs, the last one included
    run_dir      \* the output directory: of grpo_config.json, the checkpoints and
                 \* the model the number of the run that wrote them, 0 for none

NoManifest == [fp16 |-> FALSE]

trainingVars == <<runner, stage, script, stack, host, train, run_dir>>
jobVars == <<runner, stage, script>>

\* The number of the run, or of the last one.
Run == Len(train.runs)

-----------------------------------------------------------------------------
(* The runner *)

JobOver == {"COMPLETED", "ERROR", "CANCELED"}

\* Mutant: the runner waits until it sees the job run.
WaitsForRunning == stage # "RUNNING"

\* _PRE_RUN_STAGES, of which "SCHEDULING" stands for the four.
Waits == stage = "SCHEDULING"

Exits(code, why) == runner' = [runner EXCEPT !.pc = "exited", !.exit = code, !.why = why]

\* _required_env: SystemExit before anything is submitted.
MissingEnv ==
    /\ runner.pc = "off" /\ host = "none"
    /\ Exits(1, "environment")
    /\ UNCHANGED <<stage, script, stack, host, train, run_dir>>

SubmitJob ==
    /\ runner.pc = "off" /\ host = "none"
    /\ runner' = [runner EXCEPT !.pc = "polling"]
    /\ stage' = "SCHEDULING"
    /\ host' = "job"
    /\ UNCHANGED <<script, stack, train, run_dir>>

\* A poll that finds the job past its queue; any other poll changes nothing.
PollDone ==
    /\ runner.pc = "polling" /\ ~Waits
    /\ runner' = [runner EXCEPT !.pc = "streaming", !.seen = stage]
    /\ UNCHANGED <<stage, script, stack, host, train, run_dir>>

\* The log stream ends with the job.
StreamEnds ==
    /\ runner.pc = "streaming" /\ stage \in JobOver
    /\ runner' = [runner EXCEPT !.pc = "inspecting"]
    /\ UNCHANGED <<stage, script, stack, host, train, run_dir>>

\* The service closes the stream while the job goes on.
StreamCut ==
    /\ runner.pc = "streaming" /\ stage \notin JobOver
    /\ runner' = [runner EXCEPT !.pc = "inspecting", !.cut = TRUE]
    /\ UNCHANGED <<stage, script, stack, host, train, run_dir>>

\* Mutant: the stage seen before the log stream decides.
FinalStageSeen == runner.seen

\* inspect_job after the stream.
FinalStage == stage

Inspect ==
    /\ runner.pc = "inspecting"
    /\ Exits(IF FinalStage = "ERROR" THEN 1 ELSE 0, "inspected")
    /\ UNCHANGED <<stage, script, stack, host, train, run_dir>>

\* Ctrl-C on the stream: the job goes on, the runner returns.
Interrupted ==
    /\ runner.pc = "streaming"
    /\ Exits(0, "interrupted")
    /\ UNCHANGED <<stage, script, stack, host, train, run_dir>>

\* A call of the job service raises, or Ctrl-C outside the stream.
ServiceRaises ==
    /\ runner.pc \in {"polling", "streaming", "inspecting"}
    /\ Exits(1, "raised")
    /\ UNCHANGED <<stage, script, stack, host, train, run_dir>>

-----------------------------------------------------------------------------
(* The script of the container *)

Script == <<"system", "torch", "pin", "unsloth", "kernels", "upgrade", "timm",
            "helpers", "repo", "runtime", "preflight", "run">>

\* Installs under the constraints file, and installs without dependencies: pip
\* changes torch in neither.
Constrained == {"unsloth", "kernels", "helpers", "runtime"}
NoDeps == {"upgrade", "timm", "repo"}

TorchTag == {"none", "cu126", "other"}

Command == Script[script]

Runs == stage = "RUNNING" /\ host = "job" /\ train.phase = "off"

\* The container comes up, with or without a usable CUDA device.
JobStarts ==
    /\ stage = "SCHEDULING"
    /\ stage' = "RUNNING"
    /\ \E cuda \in BOOLEAN : stack' = [stack EXCEPT !.cuda = cuda]
    /\ UNCHANGED <<runner, script, host, train, run_dir>>

\* The version that goes into the constraints file.
PinHolds == stack.torch = "cu126"

\* _build_preflight_script.
Preflight == stack.cuda /\ stack.torch = "cu126" /\ stack.imports

\* What a command that succeeds leaves installed.
Effect ==
    \/ /\ Command \in {"system", "pin"}
       /\ Command = "pin" => PinHolds
       /\ UNCHANGED stack
    \/ /\ Command = "torch"
       /\ \E tag \in {"cu126", "other"} :
              stack' = [stack EXCEPT !.torch = tag, !.imports = TRUE]
    \/ /\ Command \in Constrained \cup NoDeps
       /\ \E ok \in BOOLEAN : stack' = [stack EXCEPT !.imports = ok]
    \/ Command = "preflight" /\ Preflight /\ UNCHANGED stack

CommandSucceeds ==
    /\ Runs /\ Command # "run"
    /\ Effect
    /\ script' = script + 1
    /\ UNCHANGED <<runner, stage, host, train, run_dir>>

\* Mutant: without "set -e" the script goes on, except after its own exit 1.
GoesOn ==
    IF Command \in {"pin", "run"} THEN stage' = "ERROR" /\ UNCHANGED script
    ELSE script' = script + 1 /\ UNCHANGED stage

\* set -euo pipefail, the explicit exit 1 of the pin, and the last command.
Aborts == stage' = "ERROR" /\ UNCHANGED script

CommandFails ==
    /\ Runs
    /\ Aborts
    /\ UNCHANGED <<runner, stack, host, train, run_dir>>

\* The configuration written into run.py.  Its weights are for ten scenarios.
JobManifest ==
    [group_size |-> 2, gradient_accumulation_steps |-> 2, max_steps |-> TrainSteps,
     fp16 |-> TRUE, bf16 |-> FALSE, logging_steps |-> 1, save_steps |-> 20,
     curriculum |-> [scenarios |-> ALL_SCENARIOS, mode |-> "weighted",
                     weights |-> <<1, 1, 1, 1, 1, 1, 2, 2, 2, 2>>,
                     seed_range |-> <<0, 2147483647>>]]

\* A process that has called train(m); the weights may come up in bfloat16.
Starts(m) ==
    \E bf16 \in BOOLEAN :
        train' = [train EXCEPT !.phase = "dir", !.of = m, !.runs = Append(@, m),
                               !.steps = 0, !.bf16_weights = bf16]

\* The process is gone, and what it had in memory.
Ended(phase) == [train EXCEPT !.phase = phase, !.of = NoManifest, !.bf16_weights = FALSE]

\* run.py: it leaves without CUDA and with a configuration that is not valid,
\* else it calls train(cfg).
RunTrain ==
    /\ Runs /\ Command = "run" /\ stack.cuda /\ ConfigValid(JobManifest)
    /\ Starts(JobManifest)
    /\ UNCHANGED <<runner, stage, script, stack, host, run_dir>>

\* The user cancels the job, or it runs into its timeout.
JobKilled ==
    /\ stage \in {"SCHEDULING", "RUNNING"}
    /\ stage' \in {"ERROR", "CANCELED"}
    /\ train' = IF train.phase = "off" THEN train ELSE Ended("failed")
    /\ UNCHANGED <<runner, script, stack, host, run_dir>>

JobCompletes ==
    /\ stage = "RUNNING" /\ train.phase = "done"
    /\ stage' = "COMPLETED"
    /\ UNCHANGED <<runner, script, stack, host, train, run_dir>>

-----------------------------------------------------------------------------
(* train() *)

\* The phases up to the loop, each with the one after it.
Setup == [dir |-> "dataset", dataset |-> "args", args |-> "model", model |-> "trainer",
          trainer |-> "training"]

\* python -m training.grpo_train --config on this machine, also over the output
\* directory of earlier runs: _parse_args raises on a manifest that is not valid,
\* before train() makes the directory.
StartLocal ==
    /\ runner.pc = "off" /\ host \in {"none", "local"}
    /\ train.phase \in {"off", "done", "failed"} /\ Run < MaxRuns
    /\ host' = "local"
    /\ \E m \in Manifests : IF ConfigValid(m) THEN Starts(m) ELSE train' = Ended("failed")
    /\ UNCHANGED <<runner, stage, script, stack, run_dir>>

\* Mutant: the weights stay as they came up.
CoercedNever == train.bf16_weights

\* coerce_trainable_from_bfloat16_to_float32, called under fp16 AMP only.
Coerced == train.bf16_weights /\ ~(train.of.fp16 /\ ~train.of.bf16)

SetUp ==
    /\ train.phase \in DOMAIN Setup
    /\ train.phase = "args" => BatchesDivide(train.of)
    /\ train' = [train EXCEPT !.phase = Setup[@],
                              !.bf16_weights = IF train.phase = "trainer" THEN Coerced ELSE @]
    /\ run_dir' = [run_dir EXCEPT !.config = IF train.phase = "dir" THEN Run ELSE @]
    /\ UNCHANGED <<jobVars, stack, host>>

\* A step over a row of the dataset; a rollout of an id that is not registered
\* raises in reset().
OptimizerStep ==
    /\ train.phase = "training" /\ train.steps < TrainSteps
    /\ \E s \in RowScenarios(train.of) \cap Elements(ALL_SCENARIOS) :
           train' = [train EXCEPT !.phase = "logging", !.steps = @ + 1,
                                  !.strayed = @ \/ ~Wanted(train.of.curriculum, s)]
    /\ UNCHANGED <<jobVars, stack, host, run_dir>>

\* Records of log_history.jsonl: of a step, and the summary after the last one.
StepRecord(r, n) == [run |-> r, step |-> n, summary |-> FALSE]
Summary(r) == [run |-> r, step |-> TrainSteps, summary |-> TRUE]

\* Mutant: the history is kept in memory.
LoggedInMemory(record) == run_dir.log

\* Mutant: a run opens the log anew.
LoggedAnew(record) ==
    IF \E i \in DOMAIN run_dir.log : run_dir.log[i].run = record.run
    THEN Append(run_dir.log, record) ELSE <<record>>

\* _FlushLogHistory.on_log appends, whoever wrote what is there.
Logged(record) == Append(run_dir.log, record)

\* The trainer calls on_log after every logging_steps-th step.
OnLog ==
    /\ train.phase = "logging"
    /\ run_dir' = [run_dir EXCEPT
           !.log = IF train.steps % train.of.logging_steps = 0
                   THEN Logged(StepRecord(Run, train.steps)) ELSE @]
    /\ train' = [train EXCEPT !.phase = "saving"]
    /\ UNCHANGED <<jobVars, stack, host>>

\* After on_log, the trainer writes checkpoint-N every save_steps and at the end.
SaveCheckpoint ==
    /\ train.phase = "saving"
    /\ run_dir' = [run_dir EXCEPT
           !.checkpoints[train.steps] =
               IF train.steps % train.of.save_steps = 0 \/ train.steps = TrainSteps
               THEN Run ELSE @]
    /\ train' = [train EXCEPT !.phase = "training"]
    /\ UNCHANGED <<jobVars, stack, host>>

\* on_log is called once more with the summary when the loop is over.
OnLogSummary ==
    /\ train.phase = "training" /\ train.steps = TrainSteps
    /\ run_dir' = [run_dir EXCEPT !.log = Logged(Summary(Run))]
    /\ train' = [train EXCEPT !.phase = "trained"]
    /\ UNCHANGED <<jobVars, stack, host>>

\* Mutant: train() returns without saving.
SavedNever == run_dir.model

\* trainer.save_model after the last step.
Saved == Run

SaveModel ==
    /\ train.phase = "trained"
    /\ train' = Ended("done")
    /\ run_dir' = [run_dir EXCEPT !.model = Saved]
    /\ UNCHANGED <<jobVars, stack, host>>

\* Anything train() does may raise; the log keeps what was flushed.
TrainRaises ==
    /\ train.phase \notin {"off", "done", "failed"}
    /\ train' = Ended("failed")
    /\ stage' = IF host = "job" THEN "ERROR" ELSE stage
    /\ UNCHANGED <<runner, script, stack, host, run_dir>>

-----------------------------------------------------------------------------
(* The specification *)

TrainingInit ==
    /\ runner = [pc |-> "off", exit |-> 0, why |-> "none", seen |-> "none", cut |-> FALSE]
    /\ stage = "none"
    /\ script = 1
    /\ stack = [cuda |-> FALSE, torch |-> "none", imports |-> FALSE]
    /\ host = "none"
    /\ train = [phase |-> "off", of |-> NoManifest, runs |-> <<>>, steps |-> 0,
                bf16_weights |-> FALSE, strayed |-> FALSE]
    /\ run_dir = [config |-> 0, log |-> <<>>, checkpoints |-> [n \in 1..TrainSteps |-> 0],
                  model |-> 0]

\* What the runner's loops do by themselves, and what may happen to them.
RunnerGoesOn == PollDone \/ StreamEnds \/ Inspect
RunnerStep == RunnerGoesOn \/ StreamCut \/ Interrupted \/ ServiceRaises

JobGoesOn == JobStarts \/ CommandSucceeds \/ CommandFails \/ RunTrain \/ JobCompletes
JobStep == JobGoesOn \/ JobKilled

TrainGoesOn == SetUp \/ OptimizerStep \/ OnLog \/ SaveCheckpoint \/ OnLogSummary \/ SaveModel
TrainStep == TrainGoesOn \/ TrainRaises

Launch == MissingEnv \/ SubmitJob \/ StartLocal

TrainingStep == RunnerStep \/ JobStep \/ TrainStep

TrainingSpec == TrainingInit /\ [][Launch \/ TrainingStep]_trainingVars

-----------------------------------------------------------------------------
(* Properties *)

\* A job trains only on the cu126 wheel it pinned, on a CUDA device and with
\* libraries that import, whatever the later installs did or which of them
\* failed; and no optimizer step is taken with bfloat16 weights under the fp16
\* gradient scaler, which cannot unscale them.
TrainsOnSoundStack ==
    /\ host = "job" /\ train.phase # "off" =>
           stack.cuda /\ stack.torch = "cu126" /\ stack.imports
    /\ train.steps > 0 => ~(train.of.fp16 /\ train.bf16_weights)

\* The log has every record that run r owes for its first n steps.
LogCovers(r, n) ==
    \A k \in 1..n : k % train.runs[r].logging_steps = 0 =>
        StepRecord(r, k) \in Elements(run_dir.log)

Finished(r) == Summary(r) \in Elements(run_dir.log)

\* Runs in their order, the steps of each in theirs, the summary last.
Precedes(a, b) ==
    \/ a.run < b.run
    \/ a.run = b.run /\ (a.step < b.step \/ (a.step = b.step /\ ~a.summary /\ b.summary))

LogKeepsSteps ==
    /\ \A i, j \in DOMAIN run_dir.log : i < j => Precedes(run_dir.log[i], run_dir.log[j])
    /\ \A entry \in Elements(run_dir.log) :
           entry.run \in 1..Run /\ LogCovers(entry.run, entry.step)
    /\ Run > 0 =>
           LogCovers(Run, IF train.phase \in {"logging", "failed"} THEN train.steps - 1
                                                                  ELSE train.steps)

CompletedMeansSaved ==
    /\ stage = "COMPLETED" \/ train.phase = "done" =>
           Run > 0 /\ run_dir.model = Run /\ run_dir.config = Run
    /\ run_dir.model > 0 => Finished(run_dir.model) /\ run_dir.model <= run_dir.config
    /\ \A n \in 1..TrainSteps : run_dir.checkpoints[n] > 0 => LogCovers(run_dir.checkpoints[n], n)
    /\ ~train.strayed

\* log_history.jsonl keeps the runs of its directory apart and loses nothing of
\* any: the records are in the order of runs and steps, none is there twice, none
\* that logging_steps asks for is missing before another one, and of the run that
\* goes on or crashed only the record of the last step may be.  Behind every
\* checkpoint-N there are the records up to N, behind the model those of a whole
\* run and its summary, and COMPLETED tells that the model and the manifest are
\* those of this run; nothing was trained on a scenario that its manifest does
\* not list or gives no weight (on_log, iter_curriculum, train).
TrainingIsKept == LogKeepsSteps /\ CompletedMeansSaved

\* The exit status of a runner that saw its stream end is the job's outcome,
\* unless the stream was cut off while the job was still running.
ExitTellsOutcome ==
    runner.why = "inspected" =>
        /\ runner.exit = 1 => stage = "ERROR"
        /\ stage = "ERROR" /\ runner.exit = 0 => runner.cut

RunnerEnds == runner.pc = "polling" ~> runner.pc = "exited"
=============================================================================
