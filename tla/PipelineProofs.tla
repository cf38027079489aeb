--------------------------- MODULE PipelineProofs ---------------------------
(***************************************************************************)
(* Proofs about a machine that trains, evaluates and publishes what came   *)
(* out, for every number of steps and runs, registry, set of manifests and *)
(* sweep.                                                                  *)
(*                                                                         *)
(* A training starts on a sound stack only, what runs leave in the         *)
(* directory they share is kept, and the runner's exit status is the job's *)
(* outcome.  None of the three is inductive: stacks need the script's      *)
(* progress, the directory needs the phase train() is in and that no       *)
(* record is ahead of the run that goes on, the exit status needs that a   *)
(* stage which is over stays over.                                         *)
(*                                                                         *)
(* What is published by the notebook and by plot_curves.py is of trainings *)
(* that ended well or is what the log begins with; the weights that are    *)
(* evaluated have their training on record; a sweep writes its files whole *)
(* or not at all; what they report is what happened; and the agents keep   *)
(* to their prompts.                                                       *)
(* A step of a sweep is a step of Episode or leaves it alone, so what      *)
(* EpisodeProofs shows holds here too (PipelineIsEpisode).                 *)
(***************************************************************************)
EXTENDS Pipeline, Evidence, EpisodeProofs, SequenceTheorems, TLAPS

Stage == {"none", "SCHEDULING", "RUNNING"} \cup JobOver
RunnerPc == {"off", "polling", "streaming", "inspecting", "exited"}
Why == {"none", "environment", "inspected", "interrupted", "raised"}

\* train() before its loop, in it, and not running.
Preparing == {"dir", "dataset", "args", "model", "trainer"}
Looping == {"training", "logging", "saving", "trained"}
Resting == {"off", "done", "failed"}

\* What train() may have been called with.
Accepted == {m \in Manifests \cup {JobManifest} : ConfigValid(m)}

TrainType ==
    [phase : Preparing \cup Looping \cup Resting, of : Accepted \cup {NoManifest},
     runs : Seq(Accepted), steps : Nat, bf16_weights : BOOLEAN, strayed : BOOLEAN]

LogRecord == [run : Nat, step : Nat, summary : BOOLEAN]

DirType ==
    [config : Nat, log : Seq(LogRecord), checkpoints : [1..TrainSteps -> Nat], model : Nat]

TypeInv ==
    /\ runner \in [pc : RunnerPc, exit : {0, 1}, why : Why, seen : Stage, cut : BOOLEAN]
    /\ stage \in Stage
    /\ script \in 1..12
    /\ stack \in [cuda : BOOLEAN, torch : TorchTag, imports : BOOLEAN]
    /\ host \in {"none", "job", "local"}
    /\ train \in TrainType
    /\ run_dir \in DirType

\* Where train() runs and how far the script and the job are.
HostInv ==
    /\ host = "none" => train.phase = "off"
    /\ host # "job" => stage = "none" /\ script = 1
    /\ script > 1 => stage # "SCHEDULING"
    /\ host = "job" /\ train.phase # "off" => script = 12 /\ stage # "SCHEDULING"
    /\ script = 12 => stack.torch = "cu126" /\ stack.imports /\ stack.cuda
    /\ stage \in JobOver => train.phase \in Resting

\* The manifest and the weights while train() runs.
PrecisionInv ==
    /\ train.phase \in Resting => train.of = NoManifest
    /\ train.phase \notin Resting => Run > 0 /\ train.of = train.runs[Run]
    /\ train.phase \in Looping => ~(train.of.fp16 /\ train.bf16_weights)
    /\ train.steps > 0 => train.phase \notin Preparing \cup {"off"}

\* No record of the run that goes on is ahead of it.
LastRun ==
    \A entry \in Elements(run_dir.log) : entry.run = Run =>
        /\ entry.step <= train.steps
        /\ train.phase = "logging" => entry.step < train.steps
        /\ entry.summary => train.phase \in {"trained", "done", "failed"}

RecordsInv == LastRun /\ LogKeepsSteps

\* The output directory follows the phase.
DirInv ==
    /\ run_dir.config <= Run
    /\ \A n \in 1..TrainSteps : run_dir.checkpoints[n] <= Run
    /\ train.phase \in (Preparing \ {"dir"}) \cup Looping => run_dir.config = Run
    /\ train.phase = "trained" => Finished(Run)
    /\ CompletedMeansSaved

RunnerInv ==
    /\ runner.why = "inspected" => runner.pc = "exited"
    /\ runner.pc = "inspecting" \/ runner.why = "inspected" =>
           stage \in JobOver \/ runner.cut
    /\ ExitTellsOutcome

TrainingInv == TypeInv /\ HostInv /\ PrecisionInv /\ RecordsInv /\ DirInv /\ RunnerInv

-----------------------------------------------------------------------------
(* The curriculum *)

\* An accepted manifest names one precision, has a step to do, and a scenario to
\* draw.
LEMMA AcceptedManifest ==
  ASSUME NEW m \in Accepted
  PROVE  /\ ~(m.fp16 /\ m.bf16)
         /\ m.fp16 \in BOOLEAN /\ m.bf16 \in BOOLEAN
         /\ m.curriculum.scenarios \in Seq(STRING)
         /\ m.curriculum.scenarios # <<>>
         /\ m.logging_steps \in Nat \ {0}
<1>1. ConfigValid(m)
  BY DEF Accepted
<1>2. ~(m.fp16 /\ m.bf16) /\ m.curriculum.scenarios # <<>>
  BY <1>1 DEF ConfigValid, CurriculumValid
<1>3. CASE m \in Manifests
  BY <1>2, <1>3, ManifestAssumption
<1>4. CASE m = JobManifest
  BY <1>2, <1>4, ManifestAssumption DEF JobManifest
<1> QED BY <1>3, <1>4 DEF Accepted

LEMMA RoundRobin ==
  ASSUME NEW i \in Nat, NEW n \in Nat \ {0}
  PROVE  (i % n) + 1 \in 1 .. n
  OBVIOUS

\* Whatever is drawn was asked for: in round-robin order because the index stays
\* within the list, by weight because nothing of weight zero is drawn.
LEMMA DrawnIsWanted ==
  ASSUME NEW m \in Accepted, NEW s \in RowScenarios(m)
  PROVE  Wanted(m.curriculum, s)
<1> DEFINE c == m.curriculum
<1>1. PICK i \in 0 .. NumRows(m) - 1 : s \in Drawn(c, i)
  BY DEF RowScenarios
<1>2. i \in Nat
  BY <1>1
<1>3. c.scenarios \in Seq(STRING) /\ c.scenarios # <<>>
  BY AcceptedManifest
<1>4. CASE c.mode = "uniform"
  BY <1>1, <1>4 DEF Drawn, Wanted, Elements
<1>5. CASE c.mode = "weighted"
  BY <1>1, <1>5 DEF Drawn, Wanted
<1>6. CASE c.mode \notin {"uniform", "weighted"}
  <2> DEFINE k == (i % Len(c.scenarios)) + 1
  <2>1. s = c.scenarios[k]
    BY <1>1, <1>6 DEF Drawn
  <2>2. k \in DOMAIN c.scenarios
    <3>1. Len(c.scenarios) \in Nat \ {0}
      BY <1>3, EmptySeq
    <3>2. k \in 1 .. Len(c.scenarios)
      BY <1>2, <3>1, RoundRobin
    <3>3. DOMAIN c.scenarios = 1 .. Len(c.scenarios)
      BY <1>3, LenProperties
    <3> QED BY <3>2, <3>3
  <2> QED BY <1>6, <2>1, <2>2 DEF Wanted
<1> QED BY <1>4, <1>5, <1>6

-----------------------------------------------------------------------------
(* The records *)

\* A log that covers n steps covers fewer, and still does when it has more records
\* or there are more runs.
LEMMA CoversFewer ==
  ASSUME NEW r, NEW n \in Int, NEW k \in Int, k <= n, LogCovers(r, n)
  PROVE  LogCovers(r, k)
BY DEF LogCovers

LEMMA CoversStill ==
  ASSUME Elements(run_dir.log) \subseteq Elements(run_dir.log)',
         NEW r, train'.runs[r] = train.runs[r]
  PROVE  /\ \A n : LogCovers(r, n) => LogCovers(r, n)'
         /\ Finished(r) => Finished(r)'
BY DEF LogCovers, Finished, StepRecord, Summary

\* Steps that write no record and start no run.
LEMMA SameRecords ==
  ASSUME run_dir'.log = run_dir.log, train'.runs = train.runs
  PROVE  /\ Run' = Run /\ Elements(run_dir.log)' = Elements(run_dir.log)
         /\ \A r, n : LogCovers(r, n)' <=> LogCovers(r, n)
         /\ \A r : Finished(r)' <=> Finished(r)
         /\ \A i, j : Precedes(run_dir.log[i], run_dir.log[j])'
                      <=> Precedes(run_dir.log[i], run_dir.log[j])
BY DEF Run, Elements, LogCovers, Finished, StepRecord, Summary, Precedes

LEMMA RecordsStay ==
  ASSUME TypeInv, RecordsInv, run_dir'.log = run_dir.log, train'.runs = train.runs,
         train'.steps = train.steps,
         train'.phase = "logging" => train.phase = "logging",
         train.phase \in {"trained", "done", "failed"} =>
             train'.phase \in {"trained", "done", "failed"},
         train.phase \in {"logging", "failed"} => train'.phase \in {"logging", "failed"}
  PROVE  RecordsInv'
<1>1. LastRun'
  <2>1. Run' = Run /\ Elements(run_dir.log)' = Elements(run_dir.log)
    BY SameRecords
  <2> QED BY <2>1 DEF RecordsInv, LastRun
<1>2. LogKeepsSteps'
  <2>1. \A i, j \in DOMAIN run_dir'.log : i < j => Precedes(run_dir.log[i], run_dir.log[j])'
    BY SameRecords DEF RecordsInv, LogKeepsSteps
  <2>2. \A entry \in Elements(run_dir.log)' :
            entry.run \in 1..Run' /\ LogCovers(entry.run, entry.step)'
    BY SameRecords DEF RecordsInv, LogKeepsSteps
  <2>3. ASSUME Run' > 0
        PROVE  LogCovers(Run, IF train.phase \in {"logging", "failed"} THEN train.steps - 1
                                                                      ELSE train.steps)'
    <3>1. train.steps \in Nat /\ Run > 0
      BY <2>3, SameRecords DEF TypeInv, TrainType
    <3>2. CASE train'.phase \in {"logging", "failed"}
      <4>1. LogCovers(Run, train.steps - 1)
        BY <3>1, CoversFewer DEF RecordsInv, LogKeepsSteps
      <4> QED BY <3>2, <4>1, SameRecords DEF LogCovers, Run
    <3>3. CASE train'.phase \notin {"logging", "failed"}
      <4>1. LogCovers(Run, train.steps)
        BY <3>1, <3>3 DEF RecordsInv, LogKeepsSteps
      <4> QED BY <3>3, <4>1, SameRecords DEF LogCovers, Run
    <3> QED BY <3>2, <3>3
  <2> QED BY <2>1, <2>2, <2>3 DEF LogKeepsSteps
<1> QED BY <1>1, <1>2 DEF RecordsInv

\* Steps that leave the directory alone.
LEMMA DirStays ==
  ASSUME DirInv, run_dir' = run_dir, train'.runs = train.runs, train'.strayed = train.strayed,
         train'.phase \in (Preparing \ {"dir"}) \cup Looping => run_dir.config = Run,
         train'.phase = "trained" => train.phase = "trained",
         stage' = "COMPLETED" \/ train'.phase = "done" =>
             stage = "COMPLETED" \/ train.phase = "done"
  PROVE  DirInv'
<1>1. CompletedMeansSaved'
  BY SameRecords DEF DirInv, CompletedMeansSaved
<1> QED BY <1>1, SameRecords DEF DirInv

-----------------------------------------------------------------------------
(* The runner *)

\* A step of the runner alone leaves the job, train() and the directory alone.
LEMMA RunnerAlone ==
  ASSUME TrainingInv, UNCHANGED <<stage, script, stack, host, train, run_dir>>,
         runner' \in [pc : RunnerPc, exit : {0, 1}, why : Why, seen : Stage,
                      cut : BOOLEAN],
         RunnerInv'
  PROVE  TrainingInv'
<1>1. TypeInv'
  BY DEF TrainingInv, TypeInv
<1>2. HostInv' /\ PrecisionInv'
  BY DEF TrainingInv, HostInv, PrecisionInv, Run
<1>3. RecordsInv' /\ DirInv'
  BY RecordsStay, DirStays DEF TrainingInv, DirInv
<1> QED BY <1>1, <1>2, <1>3 DEF TrainingInv

LEMMA RunnerSteps ==
  ASSUME TrainingInv, RunnerStep \/ MissingEnv
  PROVE  TrainingInv'
<1> USE DEF TrainingInv, TypeInv, RunnerInv, ExitTellsOutcome, RunnerPc, Why, Stage, JobOver
<1>1. CASE MissingEnv
  <2>1. RunnerInv'
    BY <1>1 DEF MissingEnv, Exits
  <2> QED BY <1>1, <2>1, RunnerAlone DEF MissingEnv, Exits
<1>2. CASE PollDone
  <2>1. RunnerInv'
    BY <1>2 DEF PollDone
  <2> QED BY <1>2, <2>1, RunnerAlone DEF PollDone
<1>3. CASE StreamEnds
  <2>1. RunnerInv'
    BY <1>3 DEF StreamEnds
  <2> QED BY <1>3, <2>1, RunnerAlone DEF StreamEnds
<1>4. CASE StreamCut
  <2>1. RunnerInv'
    BY <1>4 DEF StreamCut
  <2> QED BY <1>4, <2>1, RunnerAlone DEF StreamCut
<1>5. CASE Inspect
  <2>1. RunnerInv'
    BY <1>5 DEF Inspect, Exits, FinalStage
  <2> QED BY <1>5, <2>1, RunnerAlone DEF Inspect, Exits
<1>6. CASE Interrupted
  <2>1. RunnerInv'
    BY <1>6 DEF Interrupted, Exits
  <2> QED BY <1>6, <2>1, RunnerAlone DEF Interrupted, Exits
<1>7. CASE ServiceRaises
  <2>1. RunnerInv'
    BY <1>7 DEF ServiceRaises, Exits
  <2> QED BY <1>7, <2>1, RunnerAlone DEF ServiceRaises, Exits
<1> QED
  BY <1>1, <1>2, <1>3, <1>4, <1>5, <1>6, <1>7 DEF RunnerStep, RunnerGoesOn

-----------------------------------------------------------------------------
(* The job *)

\* A step of the job that leaves train() and the directory alone.
LEMMA JobAlone ==
  ASSUME TrainingInv, UNCHANGED <<train, run_dir>>, TypeInv', HostInv', RunnerInv',
         stage' = "COMPLETED" => stage = "COMPLETED" \/ train.phase = "done"
  PROVE  TrainingInv'
<1>1. PrecisionInv'
  BY DEF TrainingInv, PrecisionInv, Run
<1>2. RecordsInv' /\ DirInv'
  BY RecordsStay, DirStays DEF TrainingInv, DirInv
<1> QED BY <1>1, <1>2 DEF TrainingInv

LEMMA JobSteps ==
  ASSUME TrainingInv,
         JobStarts \/ CommandSucceeds \/ CommandFails \/ JobCompletes \/ SubmitJob
  PROVE  TrainingInv'
<1> USE DEF TrainingInv, TypeInv, HostInv, RunnerInv, ExitTellsOutcome, Stage, JobOver
<1>1. CASE JobStarts
  <2>1. TypeInv'
    BY <1>1 DEF JobStarts
  <2>2. HostInv' /\ RunnerInv'
    BY <1>1 DEF JobStarts
  <2> QED BY <1>1, <2>1, <2>2, JobAlone DEF JobStarts
<1>2. CASE CommandSucceeds
  <2>1. /\ stage = "RUNNING" /\ host = "job" /\ train.phase = "off"
        /\ script' = script + 1 /\ script \in 1..11
        /\ UNCHANGED <<runner, stage, host, train, run_dir>>
    BY <1>2 DEF CommandSucceeds, Runs, Command, Script
  <2>2. stack' \in [cuda : BOOLEAN, torch : TorchTag, imports : BOOLEAN]
    BY <1>2 DEF CommandSucceeds, Effect, TorchTag
  <2>3. script' = 12 => stack'.torch = "cu126" /\ stack'.imports /\ stack'.cuda
    <3>1. SUFFICES ASSUME script = 11 PROVE stack'.torch = "cu126" /\ stack'.imports /\ stack'.cuda
      BY <2>1
    <3>2. Command = "preflight"
      BY <3>1 DEF Command, Script
    <3> QED BY <1>2, <3>2 DEF CommandSucceeds, Effect, Constrained, NoDeps, Preflight
  <2>4. TypeInv'
    BY <2>1, <2>2
  <2>5. HostInv' /\ RunnerInv'
    BY <2>1, <2>3
  <2> QED BY <2>1, <2>4, <2>5, JobAlone DEF DirInv
<1>3. CASE CommandFails
  <2>1. TypeInv'
    BY <1>3 DEF CommandFails, Aborts
  <2>2. HostInv' /\ RunnerInv'
    BY <1>3 DEF CommandFails, Aborts, Runs, Resting
  <2> QED BY <1>3, <2>1, <2>2, JobAlone DEF CommandFails, Aborts
<1>4. CASE JobCompletes
  <2>1. TypeInv'
    BY <1>4 DEF JobCompletes
  <2>2. HostInv' /\ RunnerInv'
    BY <1>4 DEF JobCompletes, Resting
  <2> QED BY <1>4, <2>1, <2>2, JobAlone DEF JobCompletes, DirInv
<1>5. CASE SubmitJob
  <2>1. TypeInv'
    BY <1>5 DEF SubmitJob, RunnerPc
  <2>2. HostInv' /\ RunnerInv'
    BY <1>5 DEF SubmitJob
  <2> QED BY <1>5, <2>1, <2>2, JobAlone DEF SubmitJob
<1> QED BY <1>1, <1>2, <1>3, <1>4, <1>5

-----------------------------------------------------------------------------
(* train() *)

\* What concerns the runner and the script is untouched by a step of train()
\* that does not end the job.
LEMMA TrainAlone ==
  ASSUME TrainingInv, UNCHANGED <<runner, stage, script, stack>>
  PROVE  RunnerInv'
  BY DEF TrainingInv, RunnerInv, ExitTellsOutcome

\* A run gets the next number; what is in the directory is of the runs before it.
LEMMA Started ==
  ASSUME TrainingInv, train.phase \in Resting, stage \notin JobOver,
         NEW m \in Accepted, Starts(m), UNCHANGED <<stage, run_dir>>
  PROVE  train' \in TrainType /\ train'.phase = "dir"
         /\ PrecisionInv' /\ RecordsInv' /\ DirInv'
<1>1. PICK bf16 \in BOOLEAN :
          train' = [train EXCEPT !.phase = "dir", !.of = m, !.runs = Append(train.runs, m),
                                 !.steps = 0, !.bf16_weights = bf16]
  BY DEF Starts, TrainingInv, TypeInv, TrainType
<1>2. train.runs \in Seq(Accepted) /\ Run \in Nat
  BY DEF TrainingInv, TypeInv, TrainType, Run
<1>3. Append(train.runs, m) \in Seq(Accepted)
  BY <1>2
<1>4. train' \in TrainType
  BY <1>1, <1>3 DEF TrainingInv, TypeInv, TrainType, Preparing
<1>5. /\ train'.phase = "dir" /\ train'.of = m /\ train'.runs = Append(train.runs, m)
      /\ train'.steps = 0 /\ train'.strayed = train.strayed
  BY <1>1 DEF TrainingInv, TypeInv, TrainType
<1>6. Run' = Run + 1 /\ train'.runs[Run + 1] = m
      /\ \A r \in 1..Run : train'.runs[r] = train.runs[r]
  BY <1>2, <1>5 DEF Run
<1>7. PrecisionInv'
  BY <1>2, <1>5, <1>6 DEF PrecisionInv, Resting, Looping
<1>8. \A r \in 1..Run : /\ \A n : LogCovers(r, n) => LogCovers(r, n)'
                        /\ Finished(r) => Finished(r)'
  BY <1>6, CoversStill DEF Elements
<1>9. RecordsInv'
  <2>1. Elements(run_dir.log)' = Elements(run_dir.log)
        /\ \A entry \in Elements(run_dir.log) :
              entry.run \in 1..Run /\ LogCovers(entry.run, entry.step)
    BY DEF TrainingInv, RecordsInv, LogKeepsSteps, Elements
  <2>2. LastRun'
    BY <1>2, <1>6, <2>1 DEF LastRun
  <2>3. \A i, j \in DOMAIN run_dir'.log : i < j => Precedes(run_dir.log[i], run_dir.log[j])'
    BY DEF TrainingInv, RecordsInv, LogKeepsSteps, Precedes
  <2>4. \A entry \in Elements(run_dir.log)' :
            entry.run \in 1..Run' /\ LogCovers(entry.run, entry.step)'
    BY <1>2, <1>6, <1>8, <2>1
  <2>5. LogCovers(Run, 0)'
    BY DEF LogCovers
  <2> QED BY <1>5, <2>2, <2>3, <2>4, <2>5 DEF RecordsInv, LogKeepsSteps
<1>10. DirInv'
  <2>1. /\ run_dir.config \in Nat /\ run_dir.config <= Run
        /\ run_dir.model \in Nat
        /\ \A n \in 1..TrainSteps : run_dir.checkpoints[n] \in Nat
                                    /\ run_dir.checkpoints[n] <= Run
    BY DEF TrainingInv, TypeInv, DirType, DirInv
  <2>2. CompletedMeansSaved
    BY DEF TrainingInv, DirInv
  <2>3. run_dir'.model > 0 => /\ run_dir.model \in 1..Run
                              /\ Finished(run_dir.model)' /\ run_dir.model <= run_dir.config
    BY <1>2, <1>8, <2>1, <2>2 DEF CompletedMeansSaved
  <2>4. \A n \in 1..TrainSteps : run_dir.checkpoints[n] > 0 =>
                                     LogCovers(run_dir.checkpoints[n], n)'
    BY <1>2, <1>8, <2>1, <2>2 DEF CompletedMeansSaved
  <2>5. CompletedMeansSaved'
    BY <1>5, <2>2, <2>3, <2>4 DEF CompletedMeansSaved, JobOver, Finished
  <2> QED BY <1>2, <1>5, <1>6, <2>1, <2>5 DEF DirInv, Preparing, Looping
<1> QED BY <1>4, <1>5, <1>7, <1>9, <1>10

\* A process that is gone leaves the directory as it was.
LEMMA Gone ==
  ASSUME TrainingInv, train' = Ended("failed"), UNCHANGED run_dir,
         stage' # stage => stage' # "COMPLETED"
  PROVE  train' \in TrainType /\ train'.phase = "failed"
         /\ PrecisionInv' /\ RecordsInv' /\ DirInv'
<1>1. /\ train'.phase = "failed" /\ train'.of = NoManifest /\ train'.runs = train.runs
      /\ train'.steps = train.steps /\ train'.strayed = train.strayed
  BY DEF Ended, TrainingInv, TypeInv, TrainType
<1>2. train' \in TrainType
  BY DEF Ended, TrainingInv, TypeInv, TrainType, Resting
<1>3. PrecisionInv'
  BY <1>1 DEF PrecisionInv, Resting, Looping, Preparing
<1>4. RecordsInv'
  BY <1>1, RecordsStay DEF TrainingInv
<1>5. DirInv'
  BY <1>1, DirStays DEF TrainingInv, Preparing, Looping
<1> QED BY <1>1, <1>2, <1>3, <1>4, <1>5

LEMMA StartSteps ==
  ASSUME TrainingInv, RunTrain \/ StartLocal
  PROVE  TrainingInv'
<1> USE DEF TrainingInv
<1>1. CASE RunTrain
  <2>1. /\ script = 12 /\ stage = "RUNNING" /\ host = "job" /\ train.phase = "off"
        /\ UNCHANGED <<runner, stage, script, stack, host, run_dir>>
    BY <1>1 DEF RunTrain, Runs, Command, Script, TypeInv
  <2>2. JobManifest \in Accepted /\ Starts(JobManifest)
    BY <1>1 DEF RunTrain, Accepted
  <2>3. train' \in TrainType /\ train'.phase = "dir"
        /\ PrecisionInv' /\ RecordsInv' /\ DirInv'
    BY <2>1, <2>2, Started DEF Resting, JobOver
  <2>4. TypeInv'
    BY <2>1, <2>3 DEF TypeInv
  <2>5. HostInv'
    BY <2>1, <2>3 DEF HostInv, JobOver
  <2>6. RunnerInv'
    BY <2>1, TrainAlone
  <2> QED BY <2>3, <2>4, <2>5, <2>6
<1>2. CASE StartLocal
  <2>1. /\ host' = "local" /\ host # "job" /\ train.phase \in Resting /\ stage = "none"
        /\ script = 1 /\ UNCHANGED <<runner, stage, script, stack, run_dir>>
    BY <1>2 DEF StartLocal, HostInv, Resting
  <2>2. PICK m \in Manifests :
            IF ConfigValid(m) THEN Starts(m) ELSE train' = Ended("failed")
    BY <1>2 DEF StartLocal
  <2>3. train' \in TrainType /\ PrecisionInv' /\ RecordsInv' /\ DirInv'
    <3>1. CASE ConfigValid(m)
      <4>1. m \in Accepted /\ Starts(m)
        BY <2>2, <3>1 DEF Accepted
      <4> QED BY <2>1, <4>1, Started DEF JobOver
    <3>2. CASE ~ConfigValid(m)
      BY <2>1, <2>2, <3>2, Gone
    <3> QED BY <3>1, <3>2
  <2>4. TypeInv'
    BY <2>1, <2>3 DEF TypeInv
  <2>5. HostInv'
    BY <2>1 DEF HostInv, JobOver
  <2>6. RunnerInv'
    BY <2>1, TrainAlone
  <2> QED BY <2>3, <2>4, <2>5, <2>6
<1> QED BY <1>1, <1>2

\* A job that is killed, or a phase that raises, takes train() with it.
LEMMA EndSteps ==
  ASSUME TrainingInv, JobKilled \/ TrainRaises
  PROVE  TrainingInv'
<1> USE DEF TrainingInv
<1>1. CASE JobKilled
  <2>1. /\ stage \in {"SCHEDULING", "RUNNING"} /\ stage' \in {"ERROR", "CANCELED"}
        /\ UNCHANGED <<runner, script, stack, host, run_dir>>
    BY <1>1 DEF JobKilled
  <2>2. train' \in TrainType /\ train'.phase \in Resting
        /\ (train.phase = "off" <=> train'.phase = "off")
        /\ PrecisionInv' /\ RecordsInv' /\ DirInv'
    <3>1. CASE train.phase = "off"
      <4>1. train' = train
        BY <1>1, <3>1 DEF JobKilled
      <4>2. PrecisionInv'
        BY <4>1 DEF PrecisionInv, Run
      <4>3. RecordsInv'
        BY <2>1, <4>1, RecordsStay
      <4>4. DirInv'
        BY <2>1, <3>1, <4>1, DirStays DEF Preparing, Looping
      <4> QED BY <3>1, <4>1, <4>2, <4>3, <4>4 DEF TypeInv, Resting
    <3>2. CASE train.phase # "off"
      <4>1. train' = Ended("failed")
        BY <1>1, <3>2 DEF JobKilled
      <4> QED BY <2>1, <3>2, <4>1, Gone DEF Resting
    <3> QED BY <3>1, <3>2
  <2>3. TypeInv'
    BY <2>1, <2>2 DEF TypeInv, Stage, JobOver
  <2>4. HostInv'
    BY <2>1, <2>2 DEF HostInv
  <2>5. RunnerInv'
    BY <2>1 DEF RunnerInv, ExitTellsOutcome, JobOver
  <2> QED BY <2>2, <2>3, <2>4, <2>5
<1>2. CASE TrainRaises
  <2>1. /\ train.phase \notin Resting /\ train' = Ended("failed")
        /\ stage' = IF host = "job" THEN "ERROR" ELSE stage
        /\ UNCHANGED <<runner, script, stack, host, run_dir>>
    BY <1>2 DEF TrainRaises, Resting
  <2>2. train' \in TrainType /\ train'.phase = "failed"
        /\ PrecisionInv' /\ RecordsInv' /\ DirInv'
    BY <2>1, Gone DEF Resting
  <2>3. TypeInv'
    BY <2>1, <2>2 DEF TypeInv, Stage, JobOver
  <2>4. HostInv'
    BY <2>1, <2>2 DEF HostInv, Resting, JobOver
  <2>5. stage \notin JobOver
    BY <2>1 DEF HostInv
  <2>6. RunnerInv'
    BY <2>1, <2>5 DEF RunnerInv, ExitTellsOutcome, JobOver
  <2> QED BY <2>2, <2>3, <2>4, <2>6
<1> QED BY <1>1, <1>2

\* What a record more changes.
LEMMA Grown ==
  ASSUME TypeInv, NEW rec \in LogRecord, run_dir'.log = Append(run_dir.log, rec),
         train'.runs = train.runs
  PROVE  /\ Elements(run_dir.log)' = Elements(run_dir.log) \cup {rec} /\ Run' = Run
         /\ \A r, n : LogCovers(r, n) => LogCovers(r, n)'
         /\ \A r : Finished(r) => Finished(r)'
<1>1. run_dir.log \in Seq(LogRecord)
  BY DEF TypeInv, DirType
<1>2. /\ DOMAIN run_dir.log = 1..Len(run_dir.log) /\ Len(run_dir.log) \in Nat
      /\ DOMAIN run_dir'.log = 1..Len(run_dir.log) + 1
      /\ run_dir'.log[Len(run_dir.log) + 1] = rec
      /\ \A i \in 1..Len(run_dir.log) : run_dir'.log[i] = run_dir.log[i]
  BY <1>1
<1>3. Elements(run_dir.log)' = Elements(run_dir.log) \cup {rec}
  BY <1>2 DEF Elements
<1> QED BY <1>3, CoversStill DEF Run

\* A record that comes after every other one, of steps whose records are there.
LEMMA RecordAdded ==
  ASSUME TypeInv, RecordsInv, Run > 0, NEW rec \in LogRecord, rec.run = Run,
         run_dir'.log = Append(run_dir.log, rec), train'.runs = train.runs,
         \A entry \in Elements(run_dir.log) : entry.run = Run => Precedes(entry, rec),
         LogCovers(Run, rec.step)'
  PROVE  /\ \A i, j \in DOMAIN run_dir'.log :
                i < j => Precedes(run_dir'.log[i], run_dir'.log[j])
         /\ \A entry \in Elements(run_dir.log)' :
                entry.run \in 1..Run' /\ LogCovers(entry.run, entry.step)'
<1> DEFINE L == Len(run_dir.log)
<1>1. run_dir.log \in Seq(LogRecord) /\ Run \in Nat
  BY DEF TypeInv, DirType, TrainType, Run
<1>2. /\ DOMAIN run_dir.log = 1..L /\ L \in Nat /\ DOMAIN run_dir'.log = 1..L + 1
      /\ run_dir'.log[L + 1] = rec
      /\ \A i \in 1..L : run_dir'.log[i] = run_dir.log[i]
  BY <1>1
<1>3. ASSUME NEW i \in DOMAIN run_dir'.log, NEW j \in DOMAIN run_dir'.log, i < j
      PROVE  Precedes(run_dir'.log[i], run_dir'.log[j])
  <2>1. i \in 1..L /\ run_dir'.log[i] = run_dir.log[i]
    BY <1>2, <1>3
  <2>2. CASE j = L + 1
    <3>1. run_dir.log[i] \in Elements(run_dir.log) /\ run_dir.log[i].run \in 1..Run
      BY <1>2, <2>1 DEF Elements, RecordsInv, LogKeepsSteps
    <3>2. CASE run_dir.log[i].run = Run
      BY <1>2, <2>1, <2>2, <3>1, <3>2
    <3>3. CASE run_dir.log[i].run # Run
      BY <1>1, <1>2, <2>1, <2>2, <3>1, <3>3 DEF Precedes
    <3> QED BY <3>2, <3>3
  <2>3. CASE j # L + 1
    <3>1. j \in 1..L
      BY <1>2, <1>3, <2>3
    <3> QED BY <1>2, <1>3, <2>1, <3>1 DEF RecordsInv, LogKeepsSteps
  <2> QED BY <2>2, <2>3
<1>4. ASSUME NEW entry \in Elements(run_dir.log)'
      PROVE  entry.run \in 1..Run' /\ LogCovers(entry.run, entry.step)'
  <2>1. CASE entry \in Elements(run_dir.log)
    BY <2>1, Grown DEF RecordsInv, LogKeepsSteps
  <2>2. CASE entry = rec
    <3>1. LogCovers(entry.run, entry.step)'
      BY <2>2 DEF LogCovers, Run
    <3> QED BY <1>1, <2>2, <3>1, Grown
  <2> QED BY <2>1, <2>2, Grown
<1> QED BY <1>3, <1>4

\* The directory when train() goes on, whatever it has written.
LEMMA DirGoesOn ==
  ASSUME TrainingInv, train'.runs = train.runs, train'.strayed = train.strayed,
         \/ run_dir'.log = run_dir.log
         \/ \E rec \in LogRecord : run_dir'.log = Append(run_dir.log, rec),
         run_dir'.config \in {run_dir.config, Run}, run_dir'.model \in {run_dir.model, Run},
         run_dir'.model # run_dir.model => Finished(Run) /\ run_dir'.config = Run,
         run_dir'.checkpoints \in [1..TrainSteps -> Nat],
         \A n \in 1..TrainSteps : run_dir'.checkpoints[n] # run_dir.checkpoints[n] =>
                                      run_dir'.checkpoints[n] = Run /\ LogCovers(Run, n),
         train'.phase \in (Preparing \ {"dir"}) \cup Looping => run_dir'.config = Run,
         train'.phase = "trained" => Finished(Run)',
         stage' # "COMPLETED",
         train'.phase = "done" => Run > 0 /\ run_dir'.model = Run /\ run_dir'.config = Run
  PROVE  DirInv'
<1>1. /\ Run' = Run /\ Run \in Nat
      /\ \A r, n : LogCovers(r, n) => LogCovers(r, n)'
      /\ \A r : Finished(r) => Finished(r)'
  BY SameRecords, Grown DEF TrainingInv, TypeInv, TrainType, Run
<1>2. /\ run_dir.config \in Nat /\ run_dir.model \in Nat /\ run_dir.config <= Run
      /\ \A n \in 1..TrainSteps : run_dir.checkpoints[n] \in Nat
                                  /\ run_dir.checkpoints[n] <= Run
  BY DEF TrainingInv, TypeInv, DirType, DirInv
<1>3. CompletedMeansSaved
  BY DEF TrainingInv, DirInv
<1>4. run_dir'.model > 0 => Finished(run_dir.model)' /\ run_dir'.model <= run_dir'.config
  <2>1. CASE run_dir'.model = run_dir.model
    <3>1. run_dir.model > 0 => /\ Finished(run_dir.model) /\ run_dir.model <= run_dir.config
      BY <1>3 DEF CompletedMeansSaved
    <3>2. run_dir.config <= run_dir'.config
      BY <1>1, <1>2
    <3>3. Finished(run_dir.model) => Finished(run_dir.model)'
      BY <1>1, <2>1 DEF Finished
    <3>4. run_dir'.config \in Nat
      BY <1>1, <1>2
    <3> QED BY <1>2, <2>1, <3>1, <3>2, <3>3, <3>4
  <2>2. CASE run_dir'.model # run_dir.model
    <3>1. run_dir'.model = Run /\ run_dir'.config = Run /\ Finished(Run)'
      BY <1>1, <2>2
    <3>2. Finished(run_dir.model)'
      BY <1>1, <3>1 DEF Finished, Run
    <3> QED BY <1>1, <3>1, <3>2
  <2> QED BY <2>1, <2>2
<1>5. ASSUME NEW n \in 1..TrainSteps, run_dir'.checkpoints[n] > 0
      PROVE  LogCovers(run_dir.checkpoints[n], n)'
  <2>1. CASE run_dir'.checkpoints[n] = run_dir.checkpoints[n]
    <3>1. LogCovers(run_dir.checkpoints[n], n)
      BY <1>3, <1>5, <2>1 DEF CompletedMeansSaved
    <3> QED BY <1>1, <2>1, <3>1 DEF LogCovers
  <2>2. CASE run_dir'.checkpoints[n] # run_dir.checkpoints[n]
    <3>1. run_dir'.checkpoints[n] = Run /\ LogCovers(Run, n)'
      BY <1>1, <2>2
    <3> QED BY <1>1, <3>1 DEF LogCovers, Run
  <2> QED BY <2>1, <2>2
<1>6. CompletedMeansSaved'
  BY <1>1, <1>3, <1>4, <1>5 DEF CompletedMeansSaved
<1> QED BY <1>1, <1>2, <1>6 DEF DirInv

LEMMA EntryTypes ==
  ASSUME TypeInv
  PROVE  \A entry \in Elements(run_dir.log) :
             entry.run \in Nat /\ entry.step \in Nat /\ entry.summary \in BOOLEAN
<1>1. run_dir.log \in Seq(LogRecord)
  BY DEF TypeInv, DirType
<1>2. \A i \in DOMAIN run_dir.log : run_dir.log[i] \in LogRecord
  BY <1>1
<1> QED BY <1>2 DEF Elements, LogRecord

\* A step of train() that neither starts nor ends it.
LEMMA OnlyTrain ==
  ASSUME TrainingInv, train.phase \notin Resting,
         UNCHANGED <<runner, stage, script, stack, host>>, train'.phase # "off",
         train' \in TrainType, run_dir' \in DirType, PrecisionInv', RecordsInv', DirInv'
  PROVE  TrainingInv'
<1>1. TypeInv' /\ RunnerInv'
  BY TrainAlone DEF TrainingInv, TypeInv
<1>2. HostInv'
  BY DEF TrainingInv, HostInv, Resting
<1> QED BY <1>1, <1>2 DEF TrainingInv

LEMMA SetUpStep ==
  ASSUME TrainingInv, SetUp
  PROVE  TrainingInv'
<1> USE DEF TrainingInv
<1>1. /\ train.phase \in Preparing /\ UNCHANGED <<runner, stage, script, stack, host>>
      /\ train.phase \notin Resting
  BY DEF SetUp, Setup, Preparing, Resting, jobVars
<1>2. Run > 0 /\ Run \in Nat /\ train.of = train.runs[Run] /\ train.of \in Accepted
  BY <1>1 DEF PrecisionInv, TypeInv, TrainType, Run
<1>3. Coerced \in BOOLEAN /\ (train.of.fp16 => ~Coerced)
  BY <1>2, AcceptedManifest DEF Coerced, TypeInv, TrainType
<1>4. PICK p \in (Preparing \ {"dir"}) \cup {"training"}, b \in BOOLEAN :
          /\ train' = [train EXCEPT !.phase = p, !.bf16_weights = b]
          /\ p = "training" => train.phase = "trainer" /\ b = Coerced
          /\ p # "dataset" => train.phase # "dir"
  <2>1. train.phase \in DOMAIN Setup
        /\ train' = [train EXCEPT
                 !.phase = Setup[train.phase],
                 !.bf16_weights = IF train.phase = "trainer" THEN Coerced
                                                             ELSE train.bf16_weights]
    BY DEF SetUp, TypeInv, TrainType
  <2>2. /\ Setup[train.phase] \in (Preparing \ {"dir"}) \cup {"training"}
        /\ Setup[train.phase] = "training" => train.phase = "trainer"
        /\ Setup[train.phase] # "dataset" => train.phase # "dir"
    BY <2>1 DEF Setup, Preparing
  <2>3. (IF train.phase = "trainer" THEN Coerced ELSE train.bf16_weights) \in BOOLEAN
    BY <1>3 DEF TypeInv, TrainType
  <2> QED BY <2>1, <2>2, <2>3
<1>5. /\ train' \in TrainType /\ train'.phase = p /\ train'.bf16_weights = b
      /\ train'.of = train.of /\ train'.steps = train.steps
      /\ train'.strayed = train.strayed /\ train'.runs = train.runs
  BY <1>4 DEF TypeInv, TrainType, Looping
<1>6. PICK c \in {run_dir.config, Run} :
          run_dir' = [run_dir EXCEPT !.config = c] /\ (train.phase = "dir" => c = Run)
  BY DEF SetUp, TypeInv, DirType
<1>7. /\ run_dir' \in DirType /\ run_dir'.config = c /\ run_dir'.log = run_dir.log
      /\ run_dir'.model = run_dir.model /\ run_dir'.checkpoints = run_dir.checkpoints
      /\ run_dir.checkpoints \in [1..TrainSteps -> Nat]
  BY <1>2, <1>6 DEF TypeInv, DirType
<1>8. PrecisionInv'
  BY <1>1, <1>2, <1>3, <1>4, <1>5 DEF PrecisionInv, Run, Preparing, Looping, Resting
<1>9. RecordsInv'
  BY <1>1, <1>5, <1>7, RecordsStay DEF Preparing
<1>10. stage # "COMPLETED"
  BY <1>1 DEF HostInv, JobOver
<1>11. p \in (Preparing \ {"dir"}) \cup Looping => c = Run
  BY <1>1, <1>4, <1>6 DEF DirInv
<1>12. DirInv'
  BY <1>1, <1>5, <1>6, <1>7, <1>10, <1>11, DirGoesOn DEF Preparing
<1> QED BY <1>1, <1>5, <1>7, <1>8, <1>9, <1>12, OnlyTrain DEF Preparing

LEMMA OptimizerStepStep ==
  ASSUME TrainingInv, OptimizerStep
  PROVE  TrainingInv'
<1> USE DEF TrainingInv
<1>1. /\ train.phase = "training" /\ UNCHANGED <<runner, stage, script, stack, host, run_dir>>
      /\ train.phase \notin Resting
  BY DEF OptimizerStep, Resting, jobVars
<1>2. /\ Run > 0 /\ Run \in Nat /\ train.of = train.runs[Run] /\ train.of \in Accepted
      /\ train.steps \in Nat
  BY <1>1 DEF PrecisionInv, TypeInv, TrainType, Run
<1>3. train' = [train EXCEPT !.phase = "logging", !.steps = train.steps + 1]
  <2>1. PICK s \in RowScenarios(train.of) :
            train' = [train EXCEPT !.phase = "logging", !.steps = train.steps + 1,
                         !.strayed = train.strayed \/ ~Wanted(train.of.curriculum, s)]
    BY DEF OptimizerStep, TypeInv, TrainType
  <2>2. Wanted(train.of.curriculum, s)
    BY <1>2, DrawnIsWanted
  <2>3. (train.strayed \/ ~Wanted(train.of.curriculum, s)) = train.strayed
    BY <2>2 DEF TypeInv, TrainType
  <2> QED BY <2>1, <2>3 DEF TypeInv, TrainType
<1>4. /\ train' \in TrainType /\ train'.phase = "logging" /\ train'.of = train.of
      /\ train'.steps = train.steps + 1 /\ train'.bf16_weights = train.bf16_weights
      /\ train'.strayed = train.strayed /\ train'.runs = train.runs
  <2>1. train.steps + 1 \in Nat
    BY <1>2
  <2> QED BY <1>3, <2>1 DEF TypeInv, TrainType, Looping
<1>5. PrecisionInv'
  BY <1>1, <1>2, <1>4 DEF PrecisionInv, Run, Preparing, Looping, Resting
<1>6. RecordsInv'
  <2>1. Run' = Run /\ Elements(run_dir.log)' = Elements(run_dir.log)
    BY <1>1, <1>4, SameRecords
  <2>2. \A entry \in Elements(run_dir.log) : entry.step \in Nat
    BY EntryTypes
  <2>3. LastRun'
    BY <1>1, <1>2, <1>4, <2>1, <2>2 DEF RecordsInv, LastRun
  <2>4. \A i, j \in DOMAIN run_dir'.log : i < j => Precedes(run_dir.log[i], run_dir.log[j])'
    BY <1>1, <1>4, SameRecords DEF RecordsInv, LogKeepsSteps
  <2>5. \A entry \in Elements(run_dir.log)' :
            entry.run \in 1..Run' /\ LogCovers(entry.run, entry.step)'
    BY <1>1, <1>4, SameRecords DEF RecordsInv, LogKeepsSteps
  <2>6. LogCovers(Run, train.steps - 1)'
    <3>1. LogCovers(Run, train.steps)
      BY <1>1, <1>2 DEF RecordsInv, LogKeepsSteps
    <3>2. train'.steps - 1 = train.steps
      BY <1>2, <1>4
    <3> QED BY <1>1, <1>4, <3>1, <3>2, SameRecords DEF LogCovers, Run
  <2> QED BY <1>4, <2>3, <2>4, <2>5, <2>6 DEF RecordsInv, LogKeepsSteps
<1>7. run_dir.config = Run
  BY <1>1 DEF DirInv, Looping
<1>8. DirInv'
  BY <1>1, <1>4, <1>7, DirStays
<1> QED BY <1>1, <1>4, <1>5, <1>6, <1>8, OnlyTrain DEF TypeInv

LEMMA OnLogStep ==
  ASSUME TrainingInv, OnLog
  PROVE  TrainingInv'
<1> USE DEF TrainingInv
<1>1. /\ train.phase = "logging" /\ UNCHANGED <<runner, stage, script, stack, host>>
      /\ train.phase \notin Resting
  BY DEF OnLog, Resting, jobVars
<1>2. /\ Run > 0 /\ Run \in Nat /\ train.of = train.runs[Run] /\ train.of \in Accepted
      /\ train.steps \in Nat
  BY <1>1 DEF PrecisionInv, TypeInv, TrainType, Run
<1>3. /\ train' \in TrainType /\ train'.phase = "saving" /\ train'.of = train.of
      /\ train'.steps = train.steps /\ train'.bf16_weights = train.bf16_weights
      /\ train'.strayed = train.strayed /\ train'.runs = train.runs
  BY DEF OnLog, TypeInv, TrainType, Looping
<1> DEFINE due == train.steps % train.of.logging_steps = 0
<1>4. PICK rec \in LogRecord :
          /\ rec = StepRecord(Run, train.steps)
          /\ rec.run = Run /\ rec.step = train.steps /\ ~rec.summary
  <2>1. StepRecord(Run, train.steps) \in LogRecord
    BY <1>2 DEF StepRecord, LogRecord
  <2> QED BY <2>1 DEF StepRecord
<1>5. run_dir'.log = (IF due THEN Append(run_dir.log, rec) ELSE run_dir.log)
      /\ run_dir' \in DirType /\ run_dir'.config = run_dir.config
      /\ run_dir'.model = run_dir.model /\ run_dir'.checkpoints = run_dir.checkpoints
      /\ run_dir.checkpoints \in [1..TrainSteps -> Nat]
  <2>1. Append(run_dir.log, rec) \in Seq(LogRecord)
    BY <1>4 DEF TypeInv, DirType
  <2>2. PICK l \in Seq(LogRecord) :
            /\ run_dir' = [run_dir EXCEPT !.log = l]
            /\ l = IF due THEN Append(run_dir.log, rec) ELSE run_dir.log
    BY <1>4, <2>1 DEF OnLog, Logged, TypeInv, DirType
  <2> QED BY <2>2 DEF TypeInv, DirType
<1>6. PrecisionInv'
  BY <1>1, <1>2, <1>3 DEF PrecisionInv, Run, Preparing, Looping, Resting
<1>7. \A entry \in Elements(run_dir.log) :
          /\ entry.run = Run => entry.step < train.steps /\ ~entry.summary
          /\ entry.step \in Nat
  BY <1>1, EntryTypes DEF RecordsInv, LastRun
<1>8. LogCovers(Run, train.steps - 1)
  BY <1>1, <1>2 DEF RecordsInv, LogKeepsSteps
<1>9. /\ Run' = Run /\ (\A r, n : LogCovers(r, n) => LogCovers(r, n)')
      /\ Elements(run_dir.log)' = Elements(run_dir.log) \cup (IF due THEN {rec} ELSE {})
  <2> HIDE DEF due
  <2>1. CASE due
    BY <1>3, <1>4, <1>5, <2>1, Grown
  <2>2. CASE ~due
    BY <1>3, <1>5, <2>2, SameRecords
  <2> QED BY <2>1, <2>2
<1>10. LogCovers(Run, train.steps)'
  <2>1. ASSUME NEW k \in 1..train.steps, k % train.of.logging_steps = 0
        PROVE  StepRecord(Run, k) \in Elements(run_dir.log)'
    <3>1. CASE k = train.steps
      BY <1>4, <1>9, <2>1, <3>1
    <3>2. CASE k # train.steps
      <4>1. k \in 1..train.steps - 1
        BY <1>2, <2>1, <3>2
      <4> QED BY <1>2, <1>8, <1>9, <2>1, <4>1 DEF LogCovers
    <3> QED BY <3>1, <3>2
  <2>2. StepRecord(Run, 0)' = StepRecord(Run, 0) /\ train'.runs[Run] = train.of
    BY <1>2, <1>3, <1>9 DEF StepRecord
  <2> QED BY <1>3, <1>9, <2>1, <2>2 DEF LogCovers, StepRecord
<1>11. RecordsInv'
  <2>1. LastRun'
    BY <1>2, <1>3, <1>4, <1>7, <1>9 DEF LastRun
  <2>2. /\ \A i, j \in DOMAIN run_dir'.log :
               i < j => Precedes(run_dir'.log[i], run_dir'.log[j])
        /\ \A entry \in Elements(run_dir.log)' :
               entry.run \in 1..Run' /\ LogCovers(entry.run, entry.step)'
    <3>1. CASE due
      <4>1. \A entry \in Elements(run_dir.log) : entry.run = Run => Precedes(entry, rec)
        BY <1>4, <1>7 DEF Precedes
      <4>2. LogCovers(Run, rec.step)'
        BY <1>3, <1>4, <1>10 DEF LogCovers
      <4> HIDE DEF due
      <4> QED BY <1>2, <1>3, <1>4, <1>5, <3>1, <4>1, <4>2, RecordAdded
    <3>2. CASE ~due
      <4>1. run_dir'.log = run_dir.log
        BY <1>5, <3>2
      <4> QED BY <1>3, <4>1, SameRecords DEF RecordsInv, LogKeepsSteps, Precedes
    <3> QED BY <3>1, <3>2
  <2> QED BY <1>3, <1>10, <2>1, <2>2 DEF RecordsInv, LogKeepsSteps, Precedes
<1>12. stage # "COMPLETED"
  BY <1>1 DEF HostInv, JobOver, Resting
<1>13. run_dir.config = Run
  BY <1>1 DEF DirInv, Looping
<1>14. DirInv'
  <2>1. \/ run_dir'.log = run_dir.log
        \/ \E r \in LogRecord : run_dir'.log = Append(run_dir.log, r)
    BY <1>4, <1>5
  <2> HIDE DEF due
  <2> QED BY <1>1, <1>3, <1>5, <1>12, <1>13, <2>1, DirGoesOn DEF TypeInv, DirType
<1> QED BY <1>1, <1>3, <1>5, <1>6, <1>11, <1>14, OnlyTrain

LEMMA CheckpointStep ==
  ASSUME TrainingInv, SaveCheckpoint
  PROVE  TrainingInv'
<1> USE DEF TrainingInv
<1>1. /\ train.phase = "saving" /\ UNCHANGED <<runner, stage, script, stack, host>>
      /\ train.phase \notin Resting
  BY DEF SaveCheckpoint, Resting, jobVars
<1>2. /\ Run > 0 /\ Run \in Nat /\ train.of = train.runs[Run] /\ train.steps \in Nat
  BY <1>1 DEF PrecisionInv, TypeInv, TrainType, Run
<1>3. /\ train' \in TrainType /\ train'.phase = "training" /\ train'.of = train.of
      /\ train'.steps = train.steps /\ train'.bf16_weights = train.bf16_weights
      /\ train'.strayed = train.strayed /\ train'.runs = train.runs
  BY DEF SaveCheckpoint, TypeInv, TrainType, Looping
<1>4. /\ run_dir' \in DirType /\ run_dir'.log = run_dir.log
      /\ run_dir'.config = run_dir.config /\ run_dir'.model = run_dir.model
      /\ run_dir'.checkpoints \in [1..TrainSteps -> Nat]
      /\ \A n \in 1..TrainSteps : run_dir'.checkpoints[n] # run_dir.checkpoints[n] =>
                                      n = train.steps /\ run_dir'.checkpoints[n] = Run
  <2> DEFINE old == run_dir.checkpoints
  <2>1. old \in [1..TrainSteps -> Nat]
    BY DEF TypeInv, DirType
  <2>2. PICK x : /\ run_dir' = [run_dir EXCEPT !.checkpoints = [old EXCEPT ![train.steps] = x]]
                 /\ x \in {Run, old[train.steps]}
    BY DEF SaveCheckpoint, TypeInv, DirType
  <2>3. [old EXCEPT ![train.steps] = x] \in [1..TrainSteps -> Nat]
        /\ \A n \in 1..TrainSteps : [old EXCEPT ![train.steps] = x][n] # old[n] =>
                                        n = train.steps /\ [old EXCEPT ![train.steps] = x][n] = Run
    <3> HIDE DEF old
    <3> QED BY <1>2, <2>1, <2>2
  <2>4. run_dir'.checkpoints = [old EXCEPT ![train.steps] = x]
    BY <2>2 DEF TypeInv, DirType
  <2> QED BY <2>2, <2>3, <2>4 DEF TypeInv, DirType
<1>5. PrecisionInv'
  BY <1>1, <1>2, <1>3 DEF PrecisionInv, Run, Preparing, Looping, Resting
<1>6. RecordsInv'
  BY <1>1, <1>3, <1>4, RecordsStay
<1>7. LogCovers(Run, train.steps)
  BY <1>1, <1>2 DEF RecordsInv, LogKeepsSteps
<1>8. stage # "COMPLETED"
  BY <1>1 DEF HostInv, JobOver, Resting
<1>9. run_dir.config = Run
  BY <1>1 DEF DirInv, Looping
<1>10. DirInv'
  BY <1>1, <1>3, <1>4, <1>7, <1>8, <1>9, DirGoesOn
<1> QED BY <1>1, <1>3, <1>4, <1>5, <1>6, <1>10, OnlyTrain

LEMMA SummaryStep ==
  ASSUME TrainingInv, OnLogSummary
  PROVE  TrainingInv'
<1> USE DEF TrainingInv
<1>1. /\ train.phase = "training" /\ train.steps = TrainSteps
      /\ UNCHANGED <<runner, stage, script, stack, host>> /\ train.phase \notin Resting
  BY DEF OnLogSummary, Resting, jobVars
<1>2. /\ Run > 0 /\ Run \in Nat /\ train.of = train.runs[Run] /\ train.steps \in Nat
  BY <1>1 DEF PrecisionInv, TypeInv, TrainType, Run
<1>3. /\ train' \in TrainType /\ train'.phase = "trained" /\ train'.of = train.of
      /\ train'.steps = train.steps /\ train'.bf16_weights = train.bf16_weights
      /\ train'.strayed = train.strayed /\ train'.runs = train.runs
  BY DEF OnLogSummary, TypeInv, TrainType, Looping
<1>4. PICK rec \in LogRecord :
          rec = Summary(Run) /\ rec.run = Run /\ rec.step = TrainSteps /\ rec.summary
  <2>1. Summary(Run) \in LogRecord
    BY <1>1, <1>2 DEF Summary, LogRecord
  <2> QED BY <2>1 DEF Summary
<1>5. /\ run_dir'.log = Append(run_dir.log, rec)
      /\ run_dir' \in DirType /\ run_dir'.config = run_dir.config
      /\ run_dir'.model = run_dir.model /\ run_dir'.checkpoints = run_dir.checkpoints
      /\ run_dir.checkpoints \in [1..TrainSteps -> Nat]
  <2>1. Append(run_dir.log, rec) \in Seq(LogRecord)
    BY <1>4 DEF TypeInv, DirType
  <2>2. run_dir' = [run_dir EXCEPT !.log = Append(run_dir.log, rec)]
    BY <1>4 DEF OnLogSummary, Logged, TypeInv, DirType
  <2> QED BY <2>1, <2>2 DEF TypeInv, DirType
<1>6. PrecisionInv'
  BY <1>1, <1>2, <1>3 DEF PrecisionInv, Run, Preparing, Looping, Resting
<1>7. \A entry \in Elements(run_dir.log) :
          entry.run = Run => entry.step <= TrainSteps /\ ~entry.summary /\ entry.step \in Nat
  BY <1>1, EntryTypes DEF RecordsInv, LastRun
<1>8. /\ Run' = Run /\ (\A r, n : LogCovers(r, n) => LogCovers(r, n)')
      /\ Elements(run_dir.log)' = Elements(run_dir.log) \cup {rec}
  BY <1>3, <1>4, <1>5, Grown
<1>9. LogCovers(Run, TrainSteps)'
  <2>1. LogCovers(Run, TrainSteps)
    BY <1>1, <1>2 DEF RecordsInv, LogKeepsSteps
  <2> QED BY <1>8, <2>1 DEF LogCovers
<1>10. RecordsInv'
  <2>1. LastRun'
    BY <1>1, <1>2, <1>3, <1>4, <1>7, <1>8 DEF LastRun
  <2>2. \A entry \in Elements(run_dir.log) : entry.run = Run => Precedes(entry, rec)
    BY <1>1, <1>2, <1>4, <1>7 DEF Precedes
  <2>3. LogCovers(Run, rec.step)'
    BY <1>4, <1>9 DEF LogCovers
  <2>4. /\ \A i, j \in DOMAIN run_dir'.log :
               i < j => Precedes(run_dir'.log[i], run_dir'.log[j])
        /\ \A entry \in Elements(run_dir.log)' :
               entry.run \in 1..Run' /\ LogCovers(entry.run, entry.step)'
    BY <1>2, <1>3, <1>4, <1>5, <2>2, <2>3, RecordAdded
  <2>5. LogCovers(Run, train.steps)'
    BY <1>1, <1>3, <1>9 DEF LogCovers
  <2> QED BY <1>3, <2>1, <2>4, <2>5 DEF RecordsInv, LogKeepsSteps, Precedes
<1>11. stage # "COMPLETED"
  BY <1>1 DEF HostInv, JobOver, Resting
<1>12. run_dir.config = Run
  BY <1>1 DEF DirInv, Looping
<1>13. Finished(Run)'
  BY <1>4, <1>8 DEF Finished, Summary
<1>14. DirInv'
  BY <1>1, <1>3, <1>4, <1>5, <1>11, <1>12, <1>13, DirGoesOn
<1> QED BY <1>1, <1>3, <1>5, <1>6, <1>10, <1>14, OnlyTrain

LEMMA SaveModelStep ==
  ASSUME TrainingInv, SaveModel
  PROVE  TrainingInv'
<1> USE DEF TrainingInv
<1>1. /\ train.phase = "trained" /\ UNCHANGED <<runner, stage, script, stack, host>>
      /\ train.phase \notin Resting
  BY DEF SaveModel, Resting, jobVars
<1>2. Run > 0 /\ Run \in Nat /\ Finished(Run) /\ run_dir.config = Run
  BY <1>1 DEF PrecisionInv, TypeInv, TrainType, Run, DirInv, Looping
<1>3. /\ train' \in TrainType /\ train'.phase = "done" /\ train'.of = NoManifest
      /\ train'.steps = train.steps /\ train'.strayed = train.strayed
      /\ train'.runs = train.runs
  BY DEF SaveModel, Ended, TypeInv, TrainType, Resting
<1>4. /\ run_dir' \in DirType /\ run_dir'.log = run_dir.log
      /\ run_dir'.config = run_dir.config /\ run_dir'.model = Run
      /\ run_dir'.checkpoints = run_dir.checkpoints
      /\ run_dir.checkpoints \in [1..TrainSteps -> Nat]
  <2>1. run_dir' = [run_dir EXCEPT !.model = Run]
    BY DEF SaveModel, Saved
  <2> QED BY <1>2, <2>1 DEF TypeInv, DirType
<1>5. PrecisionInv'
  BY <1>3 DEF PrecisionInv, Preparing, Looping, Resting
<1>6. RecordsInv'
  BY <1>1, <1>3, <1>4, RecordsStay
<1>7. stage # "COMPLETED"
  BY <1>1 DEF HostInv, JobOver
<1>8. DirInv'
  BY <1>1, <1>2, <1>3, <1>4, <1>7, DirGoesOn DEF Preparing, Looping
<1> QED BY <1>1, <1>3, <1>4, <1>5, <1>6, <1>8, OnlyTrain

-----------------------------------------------------------------------------
(* The theorems *)

LEMMA InitTraining == TrainingInit => TrainingInv
<1> SUFFICES ASSUME TrainingInit PROVE TrainingInv
  OBVIOUS
<1> USE DEF TrainingInit
<1>1. TypeInv
  <2>1. <<>> \in Seq(Accepted) /\ <<>> \in Seq(LogRecord)
    OBVIOUS
  <2> QED
    BY <2>1 DEF TypeInv, TrainType, DirType, RunnerPc, Why, Stage, TorchTag, Resting
<1>2. HostInv /\ RunnerInv
  BY DEF HostInv, RunnerInv, ExitTellsOutcome, JobOver
<1>3. Run = 0 /\ Elements(run_dir.log) = {}
  BY DEF Run, Elements
<1>4. PrecisionInv
  BY <1>3 DEF PrecisionInv, Preparing, Looping, Resting
<1>5. RecordsInv
  BY <1>3 DEF RecordsInv, LastRun, LogKeepsSteps
<1>6. DirInv
  BY <1>3 DEF DirInv, CompletedMeansSaved, Preparing, Looping
<1> QED BY <1>1, <1>2, <1>4, <1>5, <1>6 DEF TrainingInv

LEMMA StepTraining == TrainingInv /\ [Launch \/ TrainingStep]_trainingVars => TrainingInv'
<1> SUFFICES ASSUME TrainingInv, [Launch \/ TrainingStep]_trainingVars PROVE TrainingInv'
  OBVIOUS
<1>1. CASE UNCHANGED trainingVars
  <2>1. HostInv' /\ PrecisionInv' /\ TypeInv' /\ RunnerInv'
    BY <1>1 DEF trainingVars, TrainingInv, TypeInv, HostInv, PrecisionInv, RunnerInv,
                ExitTellsOutcome, Run
  <2>2. RecordsInv' /\ DirInv'
    BY <1>1, RecordsStay, DirStays DEF trainingVars, TrainingInv, DirInv
  <2> QED BY <2>1, <2>2 DEF TrainingInv
<1>2. CASE RunnerStep \/ MissingEnv
  BY <1>2, RunnerSteps
<1>3. CASE JobStarts \/ CommandSucceeds \/ CommandFails \/ JobCompletes \/ SubmitJob
  BY <1>3, JobSteps
<1>4. CASE RunTrain \/ StartLocal
  BY <1>4, StartSteps
<1>5. CASE JobKilled \/ TrainRaises
  BY <1>5, EndSteps
<1>6. CASE TrainGoesOn
  BY <1>6, SetUpStep, OptimizerStepStep, OnLogStep, CheckpointStep, SummaryStep, SaveModelStep
  DEF TrainGoesOn
<1> QED
  BY <1>1, <1>2, <1>3, <1>4, <1>5, <1>6
  DEF Launch, TrainingStep, JobStep, JobGoesOn, TrainStep

LEMMA Invariant == TrainingSpec => []TrainingInv
<1>1. TrainingInit => TrainingInv
  BY InitTraining
<1>2. TrainingInv /\ [Launch \/ TrainingStep]_trainingVars => TrainingInv'
  BY StepTraining
<1> QED BY <1>1, <1>2, PTL DEF TrainingSpec

\* A job trains on the stack it checked, and no optimizer step meets bfloat16
\* weights under the fp16 scaler, for every set of manifests and any number of
\* steps: the script reaches its last command through the preflight, a running
\* job changes no package, and one manifest names one precision
\* (_build_command, coerce_trainable_from_bfloat16_to_float32).
THEOREM TrainsSoundly == TrainingSpec => []TrainsOnSoundStack
<1>1. TrainingInv => TrainsOnSoundStack
  <2> SUFFICES ASSUME TrainingInv PROVE TrainsOnSoundStack
    OBVIOUS
  <2>1. host = "job" /\ train.phase # "off" =>
            stack.cuda /\ stack.torch = "cu126" /\ stack.imports
    BY DEF TrainingInv, HostInv
  <2>2. train.phase \in Resting => ~train.of.fp16
    BY DEF TrainingInv, PrecisionInv, NoManifest
  <2>3. train.steps > 0 => train.phase \in Looping \cup Resting
    BY DEF TrainingInv, TypeInv, TrainType, PrecisionInv
  <2> QED BY <2>1, <2>2, <2>3 DEF TrainingInv, PrecisionInv, TrainsOnSoundStack
<1> QED BY <1>1, Invariant, PTL

\* What trainings leave in their directory is whole and true of them, for every
\* number of runs over one another, every interval between records and every
\* interval between checkpoints, wherever a run breaks off: the log is only
\* appended to, by a run whose number is greater than those in it, and a step is
\* counted before its record is due (_FlushLogHistory.on_log, train,
\* iter_curriculum).
THEOREM TrainingKept == TrainingSpec => []TrainingIsKept
<1>1. TrainingInv => TrainingIsKept
  BY DEF TrainingInv, RecordsInv, DirInv, TrainingIsKept
<1> QED BY <1>1, Invariant, PTL

\* The exit status of a runner that saw its stream end is the job's outcome,
\* because a stage that is over stays over (main of run_training_job.py).
THEOREM ExitIsOutcome == TrainingSpec => []ExitTellsOutcome
<1>1. TrainingInv => ExitTellsOutcome
  BY DEF TrainingInv, RunnerInv
<1> QED BY <1>1, Invariant, PTL

-----------------------------------------------------------------------------
(* The pipeline trains as Training says *)

\* A step that is not one of a training leaves it alone; a step of a training
\* leaves the environment and the sweep alone.
LEMMA StepTrains ==
  ASSUME [PipelineNext]_pipelineVars
  PROVE  \/ UNCHANGED trainingVars
         \/ /\ Launch \/ TrainingStep
            /\ sweep.pc = "off" /\ UNCHANGED <<vars, sweepVars>>
<1>1. CASE Launches
  BY <1>1 DEF Launches, Idle
<1>2. CASE Trains
  BY <1>2 DEF Trains
<1>3. CASE UNCHANGED pipelineVars \/ EvaluateBase \/ EvaluateTrained \/ Evaluates
  BY <1>3 DEF pipelineVars, EvaluateBase, EvaluateTrained, Evaluates
<1> QED BY <1>1, <1>2, <1>3 DEF PipelineNext

LEMMA PipelineTrains == PipelineSpec => TrainingSpec
<1>1. PipelineInit => TrainingInit
  BY DEF PipelineInit
<1>2. [PipelineNext]_pipelineVars => [Launch \/ TrainingStep]_trainingVars
  BY StepTrains
<1> QED BY <1>1, <1>2, PTL DEF PipelineSpec, TrainingSpec

-----------------------------------------------------------------------------
(* The notebook, plot_curves.py and the evidence *)

\* The log only grows.
LEMMA LogGrows ==
  ASSUME TrainingInv, Launch \/ TrainingStep
  PROVE  \/ run_dir'.log = run_dir.log
         \/ \E rec \in LogRecord : run_dir'.log = Append(run_dir.log, rec)
<1> USE DEF TrainingInv, TypeInv, DirType
<1>1. CASE OnLog
  <2>1. Run \in Nat /\ train.steps \in Nat
    BY DEF TrainType, Run
  <2>2. StepRecord(Run, train.steps) \in LogRecord
    BY <2>1 DEF StepRecord, LogRecord
  <2> QED BY <1>1, <2>2 DEF OnLog, Logged
<1>2. CASE OnLogSummary
  <2>1. Run \in Nat /\ TrainSteps \in Nat
    BY TrainStepsAssumption DEF TrainType, Run
  <2>2. Summary(Run) \in LogRecord
    BY <2>1 DEF Summary, LogRecord
  <2> QED BY <1>2, <2>2 DEF OnLogSummary, Logged
<1>3. CASE SetUp \/ SaveModel \/ SaveCheckpoint
  BY <1>3 DEF SetUp, SaveModel, SaveCheckpoint
<1>4. CASE run_dir' = run_dir
  BY <1>4
<1>5. ~(OnLog \/ OnLogSummary \/ SetUp \/ SaveModel \/ SaveCheckpoint) => run_dir' = run_dir
  BY DEF Launch, MissingEnv, SubmitJob, StartLocal, TrainingStep, RunnerStep, RunnerGoesOn,
     PollDone, StreamEnds, Inspect, StreamCut, Interrupted, ServiceRaises, JobStep, JobGoesOn,
     JobStarts, CommandSucceeds, CommandFails, RunTrain, JobCompletes, JobKilled, TrainStep,
     TrainGoesOn, OptimizerStep, TrainRaises
<1> QED BY <1>1, <1>2, <1>3, <1>4, <1>5

KernelType ==
    [installed : BOOLEAN, url : BOOLEAN, cfg : Nat, dataset : Nat, model : Nat,
     trainer : Nat, cast : BOOLEAN, history : Nat]

Figure == [config : Nat, records : Seq(LogRecord)]

NotebookType ==
    /\ kernel \in KernelType /\ configs \in Nat /\ adapter \in Nat
    /\ evidence \in [config : Nat, metrics : Figure, loss : Figure, reward : Figure]

PlotType == plot \in [pc : {"off", "metrics", "loss", "reward"}, records : Seq(LogRecord)]

\* The configuration the kernel has is the last one made, so what it trains is at
\* least as new as what was saved.
KernelInv ==
    /\ kernel.cfg \in {0, configs} /\ kernel.trainer <= configs
    /\ kernel.trainer > 0 => adapter <= kernel.trainer
    /\ kernel.history <= adapter /\ adapter <= configs /\ evidence.config <= configs

\* A history is at least as new as what was published; what plot_curves.py has
\* read has all records that were.
FiguresInv ==
    /\ \A figure \in Figures :
           /\ figure.config <= adapter
           /\ kernel.history > 0 => figure.config <= kernel.history
           /\ plot.pc # "off" => Len(figure.records) <= Len(plot.records)
    /\ NotNewer(evidence.loss, evidence.metrics) /\ NotNewer(evidence.reward, evidence.metrics)
    /\ plot.pc \in {"loss", "reward"} /\ evidence.metrics.records # <<>> =>
           Len(evidence.metrics.records) = Len(plot.records)

\* What the log begins with.
Prefix(records) ==
    Len(records) <= Len(run_dir.log) /\ records = SubSeq(run_dir.log, 1, Len(records))

PrefixInv ==
    /\ Prefix(plot.records)
    /\ \A figure \in Figures : Prefix(figure.records)

EvidenceInv == NotebookType /\ PlotType /\ KernelInv /\ FiguresInv /\ PrefixInv

\* The beginning of a sequence stays when it grows, and a whole one is its own.
LEMMA BeginningStays ==
  ASSUME NEW s \in Seq(LogRecord), NEW x \in LogRecord, NEW n \in 0 .. Len(s)
  PROVE  /\ SubSeq(Append(s, x), 1, n) = SubSeq(s, 1, n)
         /\ SubSeq(s, 1, Len(s)) = s
         /\ Len(Append(s, x)) = Len(s) + 1
OBVIOUS

LEMMA PrefixStays ==
  ASSUME TrainingInv, Launch \/ TrainingStep,
         NEW records \in Seq(LogRecord), Prefix(records)
  PROVE  Prefix(records)'
<1>1. run_dir.log \in Seq(LogRecord) /\ Len(records) \in 0 .. Len(run_dir.log)
  BY DEF TrainingInv, TypeInv, DirType, Prefix
<1>2. CASE run_dir'.log = run_dir.log
  BY <1>2 DEF Prefix
<1>3. ASSUME NEW rec \in LogRecord, run_dir'.log = Append(run_dir.log, rec)
      PROVE  Prefix(records)'
  BY <1>1, <1>3, BeginningStays DEF Prefix
<1> QED BY <1>2, <1>3, LogGrows

LEMMA FigureTypes ==
  ASSUME NotebookType
  PROVE  \A figure \in Figures : figure \in Figure /\ figure.config \in Nat
                                 /\ figure.records \in Seq(LogRecord)
BY DEF NotebookType, Figures, Figure

\* A step of a training grows the log under what was published.
LEMMA TrainingGrows ==
  ASSUME TrainingInv, EvidenceInv, Launch \/ TrainingStep, UNCHANGED <<notebookVars, plot>>
  PROVE  EvidenceInv'
<1>1. NotebookType' /\ PlotType' /\ KernelInv' /\ FiguresInv' /\ Figures' = Figures
  BY DEF EvidenceInv, NotebookType, PlotType, KernelInv, FiguresInv, NotNewer, Figures,
         notebookVars
<1>2. PrefixInv'
  <2>1. plot.records \in Seq(LogRecord)
    BY DEF EvidenceInv, PlotType
  <2>2. \A figure \in Figures : figure.records \in Seq(LogRecord)
    BY FigureTypes DEF EvidenceInv
  <2>3. \A records \in Seq(LogRecord) : Prefix(records) => Prefix(records)'
    BY PrefixStays
  <2>4. Prefix(plot.records)' /\ \A figure \in Figures : Prefix(figure.records)'
    BY <2>1, <2>2, <2>3 DEF EvidenceInv, PrefixInv, Prefix, notebookVars
  <2> QED BY <1>1, <2>4 DEF PrefixInv, Prefix
<1> QED BY <1>1, <1>2 DEF EvidenceInv

\* A step of the notebook that publishes nothing.
LEMMA SameFigures ==
  ASSUME EvidenceInv, UNCHANGED <<plot, run_dir>>, NotebookType', KernelInv',
         evidence'.metrics = evidence.metrics, evidence'.loss = evidence.loss,
         evidence'.reward = evidence.reward, adapter <= adapter',
         kernel'.history > 0 =>
             kernel'.history = kernel.history \/ adapter <= kernel'.history
  PROVE  EvidenceInv'
<1>1. Figures' = Figures
  BY DEF Figures
<1>2. PlotType' /\ PrefixInv'
  BY <1>1 DEF EvidenceInv, PlotType, PrefixInv, Prefix
<1>3. /\ adapter \in Nat /\ adapter' \in Nat /\ kernel.history \in Nat /\ kernel'.history \in Nat
      /\ \A figure \in Figures : figure.config \in Nat
  BY FigureTypes DEF EvidenceInv, NotebookType, KernelType
<1>4. \A figure \in Figures' :
          /\ figure.config <= adapter'
          /\ kernel'.history > 0 => figure.config <= kernel'.history
          /\ plot'.pc # "off" => Len(figure.records) <= Len(plot'.records)
  BY <1>1, <1>3 DEF EvidenceInv, FiguresInv
<1>5. FiguresInv'
  BY <1>4 DEF EvidenceInv, FiguresInv, NotNewer
<1> QED BY <1>2, <1>5 DEF EvidenceInv

\* The cells but the last, and a kernel that dies.
LEMMA CellSteps ==
  ASSUME EvidenceInv, UNCHANGED <<plot, run_dir>>,
         \/ InstallCell \/ HealthCell \/ ConfigCell \/ ModelCell \/ TrainerCell \/ TrainCell
         \/ KernelDies
  PROVE  EvidenceInv'
<1> USE DEF EvidenceInv, NotebookType, KernelType, KernelInv
<1>1. CASE InstallCell \/ HealthCell \/ ModelCell
  <2>1. NotebookType' /\ KernelInv' /\ kernel'.history = kernel.history
    BY <1>1 DEF InstallCell, HealthCell, ModelCell
  <2> QED BY <1>1, <2>1, SameFigures DEF InstallCell, HealthCell, ModelCell
<1>2. CASE ConfigCell
  <2>1. PICK done \in {"cfg", "dataset", "file"} :
          /\ kernel' = [kernel EXCEPT !.cfg = configs',
                            !.dataset = IF done = "cfg" THEN kernel.dataset ELSE configs']
          /\ evidence' = [evidence EXCEPT
                            !.config = IF done = "file" THEN configs' ELSE evidence.config]
    BY <1>2 DEF ConfigCell
  <2>2. configs' = configs + 1 /\ adapter' = adapter
    BY <1>2 DEF ConfigCell
  <2>3. PICK d \in Nat, c \in {evidence.config, configs'} :
          /\ kernel' = [kernel EXCEPT !.cfg = configs', !.dataset = d]
          /\ evidence' = [evidence EXCEPT !.config = c]
    <3>1. kernel.dataset \in Nat /\ configs' \in Nat
      BY <2>2
    <3> QED BY <2>1, <3>1
  <2>4. /\ kernel'.cfg = configs' /\ kernel'.trainer = kernel.trainer
        /\ kernel'.history = kernel.history
        /\ evidence'.metrics = evidence.metrics /\ evidence'.loss = evidence.loss
        /\ evidence'.reward = evidence.reward /\ evidence'.config = c
    BY <2>3
  <2>5. NotebookType'
    <3>1. configs' \in Nat /\ c \in Nat
      BY <2>2, <2>3
    <3> QED BY <2>2, <2>3, <3>1
  <2>6. KernelInv'
    BY <2>2, <2>3, <2>4
  <2> QED BY <2>2, <2>4, <2>5, <2>6, SameFigures
<1>3. CASE TrainerCell
  <2>1. PICK cast \in BOOLEAN :
          kernel' = [kernel EXCEPT !.trainer = kernel.cfg, !.cast = cast]
    BY <1>3 DEF TrainerCell
  <2>2. UNCHANGED <<configs, adapter, evidence>> /\ kernel.cfg = configs
    <3>1. kernel.cfg \in {0, configs}
      OBVIOUS
    <3>2. kernel.cfg > 0 /\ UNCHANGED <<configs, adapter, evidence>>
      BY <1>3 DEF TrainerCell
    <3> QED BY <3>1, <3>2
  <2>3. /\ kernel'.cfg = configs /\ kernel'.trainer = configs
        /\ kernel'.history = kernel.history
    BY <2>1, <2>2
  <2>4. NotebookType'
    BY <2>1, <2>2
  <2>5. KernelInv'
    <3>1. adapter <= configs /\ kernel.history <= adapter /\ evidence.config <= configs
          /\ configs \in Nat
      OBVIOUS
    <3> QED BY <2>2, <2>3, <3>1
  <2> QED BY <2>2, <2>3, <2>4, <2>5, SameFigures
<1>4. CASE TrainCell
  <2>1. PICK h \in {kernel.trainer, kernel.history} : kernel' = [kernel EXCEPT !.history = h]
    BY <1>4 DEF TrainCell, AfterTraining
  <2>2. UNCHANGED <<configs, evidence>> /\ kernel.trainer > 0 /\ adapter' = kernel.trainer
    BY <1>4 DEF TrainCell, AfterTraining
  <2>3. kernel'.cfg = kernel.cfg /\ kernel'.trainer = kernel.trainer /\ kernel'.history = h
    BY <2>1
  <2>4. NotebookType' /\ KernelInv'
    BY <2>1, <2>2, <2>3
  <2> QED BY <2>1, <2>2, <2>3, <2>4, SameFigures
<1>5. CASE KernelDies
  <2>1. kernel'.history = 0 /\ UNCHANGED <<configs, adapter, evidence>>
    BY <1>5 DEF KernelDies, FreshKernel
  <2>2. NotebookType' /\ KernelInv'
    BY <1>5 DEF KernelDies, FreshKernel
  <2> QED BY <2>1, <2>2, SameFigures
<1> QED BY <1>1, <1>2, <1>3, <1>4, <1>5

LEMMA OfTypes ==
  /\ \A n \in Nat : /\ OfConfig(n) \in Figure
                    /\ OfConfig(n).config = n /\ OfConfig(n).records = <<>>
  /\ \A records \in Seq(LogRecord) : /\ OfLog(records) \in Figure
                                     /\ OfLog(records).config = 0
                                     /\ OfLog(records).records = records
<1>1. <<>> \in Seq(LogRecord)
  OBVIOUS
<1> QED BY <1>1 DEF OfConfig, OfLog, Figure

LEMMA EvidenceCellStep ==
  ASSUME TypeInv, EvidenceInv, EvidenceCell, UNCHANGED <<plot, run_dir>>
  PROVE  EvidenceInv'
<1> DEFINE new == OfConfig(kernel.history)
<1>1. /\ kernel.history > 0 /\ UNCHANGED <<kernel, configs, adapter>>
      /\ kernel.history \in Nat /\ adapter \in Nat /\ kernel.history <= adapter
  BY DEF EvidenceCell, EvidenceInv, NotebookType, KernelType, KernelInv
<1>2. new \in Figure /\ new.config = kernel.history /\ new.records = <<>>
  BY <1>1, OfTypes
<1>3. PICK l \in {evidence.loss, new}, r \in {evidence.reward, new} :
          evidence' = [evidence EXCEPT !.metrics = new, !.loss = l, !.reward = r]
  <2>1. PICK done \in {"metrics", "loss", "reward"} :
          evidence' = [evidence EXCEPT !.metrics = new,
                           !.loss = IF done = "metrics" THEN evidence.loss ELSE new,
                           !.reward = IF done = "reward" THEN new ELSE evidence.reward]
    BY DEF EvidenceCell
  <2> QED BY <2>1
<1> HIDE DEF new
<1>4. /\ NotebookType' /\ evidence'.metrics = new /\ evidence'.loss = l /\ evidence'.reward = r
      /\ evidence'.config = evidence.config
  BY <1>1, <1>2, <1>3 DEF EvidenceInv, NotebookType
<1>5. \A figure \in Figures' : figure \in Figures \/ figure = new
  BY <1>3, <1>4 DEF Figures
<1>6. /\ Len(new.records) = 0 /\ Len(run_dir.log) \in Nat /\ Len(plot.records) \in Nat
      /\ SubSeq(run_dir.log, 1, 0) = <<>>
  BY <1>2 DEF TypeInv, DirType, EvidenceInv, PlotType
<1>7. PrefixInv' /\ PlotType' /\ KernelInv'
  <2>1. Prefix(new.records)
    BY <1>2, <1>6 DEF Prefix
  <2>2. \A figure \in Figures' : Prefix(figure.records)
    BY <1>5, <2>1 DEF EvidenceInv, PrefixInv
  <2>3. PrefixInv'
    BY <2>2 DEF EvidenceInv, PrefixInv, Prefix
  <2>4. PlotType' /\ KernelInv'
    BY <1>1, <1>4 DEF EvidenceInv, PlotType, KernelInv
  <2> QED BY <2>3, <2>4
<1>8. FiguresInv'
  <2>1. \A figure \in Figures' :
            /\ figure.config <= adapter /\ figure.config <= kernel.history
            /\ plot.pc # "off" => Len(figure.records) <= Len(plot.records)
    BY <1>1, <1>2, <1>5, <1>6 DEF EvidenceInv, FiguresInv
  <2>2. evidence'.metrics.records = <<>> /\ evidence'.metrics.config = kernel.history
    BY <1>2, <1>4
  <2>3. evidence'.loss \in Figures' /\ evidence'.reward \in Figures'
    BY DEF Figures
  <2> QED BY <1>1, <2>1, <2>2, <2>3 DEF FiguresInv, NotNewer
<1> QED BY <1>4, <1>7, <1>8 DEF EvidenceInv

LEMMA PlotSteps ==
  ASSUME TypeInv, EvidenceInv, Plots
  PROVE  EvidenceInv'
<1>1. /\ run_dir.log \in Seq(LogRecord) /\ Len(run_dir.log) \in Nat
      /\ plot.records \in Seq(LogRecord) /\ Len(plot.records) \in Nat
  BY DEF TypeInv, DirType, EvidenceInv, PlotType
<1>2. UNCHANGED <<run_dir, kernel, configs, adapter>>
  BY DEF Plots, ReadLog, WriteMetrics, DrawCurve, PlotRaises, trainingVars, notebookVars
<1>3. KernelInv' /\ evidence'.config = evidence.config
  BY <1>2 DEF EvidenceInv, KernelInv, NotebookType, Plots, ReadLog, WriteMetrics, CsvWritten,
              DrawCurve, PlotRaises, notebookVars
<1>4. CASE ReadLog
  <2>1. /\ plot'.pc = "metrics" /\ plot'.records = run_dir.log /\ evidence' = evidence
        /\ PlotType' /\ Figures' = Figures
    BY <1>1, <1>4 DEF ReadLog, notebookVars, PlotType, Figures
  <2>2. \A figure \in Figures : Len(figure.records) <= Len(run_dir.log)
    BY DEF EvidenceInv, PrefixInv, Prefix
  <2>3. Prefix(run_dir.log)
    BY <1>1, BeginningStays DEF Prefix
  <2>4. FiguresInv' /\ PrefixInv'
    BY <1>2, <2>1, <2>2, <2>3 DEF EvidenceInv, FiguresInv, NotNewer, PrefixInv, Prefix
  <2> QED BY <1>2, <1>3, <2>1, <2>4 DEF EvidenceInv, NotebookType
<1>5. CASE WriteMetrics
  <2> DEFINE new == OfLog(plot.records)
  <2>1. new \in Figure /\ new.config = 0 /\ new.records = plot.records
    BY <1>1, OfTypes
  <2>2. /\ plot.pc = "metrics" /\ evidence' = [evidence EXCEPT !.metrics = new]
        /\ plot' = [plot EXCEPT !.pc = "loss"]
    BY <1>5 DEF WriteMetrics, CsvWritten
  <2> HIDE DEF new
  <2>3. /\ evidence'.metrics = new /\ evidence'.loss = evidence.loss
        /\ evidence'.reward = evidence.reward /\ NotebookType'
    BY <1>2, <2>1, <2>2 DEF EvidenceInv, NotebookType
  <2>4. PlotType' /\ plot'.pc = "loss" /\ plot'.records = plot.records
    BY <2>2 DEF EvidenceInv, PlotType
  <2>5. \A figure \in Figures' : figure \in Figures \/ figure = new
    BY <2>3 DEF Figures
  <2>6. PrefixInv'
    BY <1>2, <2>1, <2>4, <2>5 DEF EvidenceInv, PrefixInv, Prefix
  <2>7. \A figure \in Figures' :
            /\ figure.config <= adapter
            /\ kernel.history > 0 => figure.config <= kernel.history
            /\ Len(figure.records) <= Len(plot.records)
    BY <1>1, <2>1, <2>2, <2>5 DEF EvidenceInv, FiguresInv, NotebookType, KernelType
  <2>8. evidence'.loss \in Figures' /\ evidence'.reward \in Figures'
    BY DEF Figures
  <2>9. FiguresInv'
    BY <1>2, <2>1, <2>3, <2>4, <2>7, <2>8 DEF FiguresInv, NotNewer
  <2> QED BY <1>3, <2>3, <2>4, <2>6, <2>9 DEF EvidenceInv
<1>6. CASE DrawCurve
  <2> DEFINE new == OfLog(plot.records)
  <2>1. new \in Figure /\ new.config = 0 /\ new.records = plot.records
    BY <1>1, OfTypes
  <2> HIDE DEF new
  <2>2. PICK l \in {evidence.loss, new}, r \in {evidence.reward, new} :
            evidence' = [evidence EXCEPT !.loss = l, !.reward = r]
    <3>1. CASE evidence' = evidence
      BY <3>1 DEF EvidenceInv, NotebookType
    <3>2. CASE evidence' # evidence
      BY <1>6, <3>2 DEF DrawCurve, EvidenceInv, NotebookType, new
    <3> QED BY <3>1, <3>2
  <2>3. /\ evidence'.metrics = evidence.metrics /\ evidence'.loss = l
        /\ evidence'.reward = r /\ NotebookType'
    BY <1>2, <2>1, <2>2 DEF EvidenceInv, NotebookType
  <2>4. /\ PlotType' /\ plot'.pc \in {"off", "reward"} /\ plot.pc \in {"loss", "reward"}
        /\ plot'.pc = "reward" => plot'.records = plot.records
        /\ plot'.records \in {plot.records, <<>>}
    <3>1. <<>> \in Seq(LogRecord)
      OBVIOUS
    <3> QED BY <1>6, <3>1 DEF DrawCurve, Away, EvidenceInv, PlotType
  <2>5. \A figure \in Figures' : figure \in Figures \/ figure = new
    BY <2>2, <2>3 DEF Figures
  <2>6. PrefixInv'
    <3>1. Prefix(plot.records) /\ Prefix(<<>>)
      BY <1>1 DEF EvidenceInv, PrefixInv, Prefix
    <3> QED BY <1>2, <2>1, <2>4, <2>5, <3>1 DEF EvidenceInv, PrefixInv, Prefix
  <2>7. \A figure \in Figures' :
            /\ figure.config <= adapter
            /\ kernel.history > 0 => figure.config <= kernel.history
            /\ Len(figure.records) <= Len(plot.records)
    BY <1>1, <2>1, <2>4, <2>5 DEF EvidenceInv, FiguresInv, NotebookType, KernelType
  <2>8. NotNewer(l, evidence.metrics) /\ NotNewer(r, evidence.metrics)
    <3>1. NotNewer(new, evidence.metrics)
      BY <1>1, <2>1, <2>4 DEF EvidenceInv, FiguresInv, NotNewer
    <3> QED BY <2>2, <3>1 DEF EvidenceInv, FiguresInv
  <2>9. FiguresInv'
    <3>1. plot'.pc # "off" => plot'.records = plot.records
      BY <2>4
    <3>2. plot'.pc \in {"loss", "reward"} /\ evidence'.metrics.records # <<>> =>
              Len(evidence'.metrics.records) = Len(plot'.records)
      BY <2>3, <2>4, <3>1 DEF EvidenceInv, FiguresInv
    <3> QED BY <1>2, <2>3, <2>7, <2>8, <3>1, <3>2 DEF FiguresInv, NotNewer
  <2> QED BY <1>3, <2>3, <2>4, <2>6, <2>9 DEF EvidenceInv
<1>7. CASE PlotRaises
  <2>1. <<>> \in Seq(LogRecord)
    OBVIOUS
  <2>2. PlotType' /\ plot'.pc = "off" /\ plot'.records = <<>> /\ evidence' = evidence
        /\ Figures' = Figures
    BY <1>7, <2>1 DEF PlotRaises, Away, notebookVars, PlotType, Figures
  <2>3. PrefixInv'
    <3>1. Prefix(<<>>)
      BY <1>1 DEF Prefix
    <3> QED BY <1>2, <2>2, <3>1 DEF EvidenceInv, PrefixInv, Prefix
  <2>4. FiguresInv'
    BY <1>2, <2>2 DEF EvidenceInv, FiguresInv, NotNewer
  <2> QED BY <1>2, <1>3, <2>2, <2>3, <2>4 DEF EvidenceInv, NotebookType
<1> QED BY <1>4, <1>5, <1>6, <1>7 DEF Plots

LEMMA EvidenceTrains == EvidenceSpec => TrainingSpec
<1>1. EvidenceInit => TrainingInit
  BY DEF EvidenceInit
<1>2. [EvidenceNext]_evidenceVars => [Launch \/ TrainingStep]_trainingVars
  BY DEF EvidenceNext, evidenceVars, Launch, TrainingStep, Plots, ReadLog, WriteMetrics,
         DrawCurve, PlotRaises, trainingVars
<1> QED BY <1>1, <1>2, PTL DEF EvidenceSpec, TrainingSpec

LEMMA EvidenceStep ==
  ASSUME TrainingInv, EvidenceInv, [EvidenceNext]_evidenceVars
  PROVE  EvidenceInv'
<1>1. TypeInv
  BY DEF TrainingInv
<1>2. CASE UNCHANGED evidenceVars
  BY <1>2 DEF evidenceVars, trainingVars, notebookVars, EvidenceInv, NotebookType, PlotType,
              KernelInv, FiguresInv, PrefixInv, Prefix, NotNewer, Figures
<1>3. CASE (StartLocal \/ TrainStep) /\ UNCHANGED <<notebookVars, plot>>
  BY <1>3, TrainingGrows DEF Launch, TrainingStep
<1>4. CASE NotebookStep /\ UNCHANGED <<trainingVars, plot>>
  BY <1>1, <1>4, CellSteps, EvidenceCellStep DEF NotebookStep, trainingVars
<1>5. CASE Plots
  BY <1>1, <1>5, PlotSteps
<1> QED BY <1>2, <1>3, <1>4, <1>5 DEF EvidenceNext

\* Published evidence stays true in every order of cells, plots and runs, for
\* every number of configurations, runs and steps, although the notebook and
\* plot_curves.py write the same files: the kernel's configuration is the last one
\* made, so an adapter is never newer than the trainer in memory; the log is only
\* appended to; and what plot_curves.py writes it has read before it writes the
\* first file (_FlushLogHistory.on_log, plot_curves.py, cells 3 to 7).
THEOREM EvidenceStaysTrue == EvidenceSpec => []EvidenceIsTrue
<1>1. EvidenceInit => EvidenceInv
  <2> SUFFICES ASSUME EvidenceInit PROVE EvidenceInv
    OBVIOUS
  <2>1. /\ kernel = FreshKernel /\ configs = 0 /\ adapter = 0 /\ evidence = NoEvidence
        /\ plot = Away /\ run_dir.log = <<>>
    BY DEF EvidenceInit, NotebookInit, TrainingInit
  <2>2. <<>> \in Seq(LogRecord) /\ Len(<<>>) = 0 /\ SubSeq(<<>>, 1, 0) = <<>>
    OBVIOUS
  <2>3. NoFigure \in Figure /\ NoFigure.config = 0 /\ NoFigure.records = <<>>
    BY OfTypes DEF NoFigure
  <2>4. NotebookType /\ PlotType /\ KernelInv
    BY <2>1, <2>2, <2>3 DEF NotebookType, KernelType, PlotType, KernelInv, FreshKernel, NoEvidence,
                      Away
  <2>5. Figures = {NoFigure}
    BY <2>1 DEF Figures, NoEvidence
  <2>6. PrefixInv
    <3>1. Prefix(<<>>)
      BY <2>1, <2>2 DEF Prefix
    <3> QED BY <2>1, <2>3, <2>5, <3>1 DEF PrefixInv, Away
  <2>7. plot.pc = "off" /\ evidence.metrics = NoFigure /\ evidence.loss = NoFigure
        /\ evidence.reward = NoFigure /\ kernel.history = 0
    BY <2>1 DEF Away, NoEvidence, FreshKernel
  <2>8. FiguresInv
    BY <2>1, <2>3, <2>5, <2>7 DEF FiguresInv, NotNewer
  <2> QED BY <2>4, <2>6, <2>8 DEF EvidenceInv
<1>2. TrainingInv /\ EvidenceInv /\ [EvidenceNext]_evidenceVars => EvidenceInv'
  BY EvidenceStep
<1>3. EvidenceInv => EvidenceIsTrue
  BY DEF EvidenceInv, KernelInv, FiguresInv, PrefixInv, Prefix, EvidenceIsTrue
<1> QED BY <1>1, <1>2, <1>3, EvidenceTrains, Invariant, PTL DEF EvidenceSpec

-----------------------------------------------------------------------------
(* The sweep: what its steps do to the environment *)

SweepPc == {"off", "reset", "act", "raised", "close"} \cup FileName
Agent == {"none", "random", "llm", "api"}

SweepRecord == [pc : SweepPc, agent : Agent, of : Sweeps \cup {NoSweep}, number : Nat]

Tally == [steps : Nat, terminal_reward : Int, episode_return : Int]

ReportRow ==
    [scenario : Scenario, seed : Nat, steps : Nat, terminal_reward : Int, episode_return : Int,
     passed : BOOLEAN, submitted : BOOLEAN, drift_fired : BOOLEAN, effective_speedup : Nat]

Prompt == [written : {TRUE}, nudge : {PHASE_NUDGES[p] : p \in EpisodePhase},
           budget : Nat, says_drift : BOOLEAN, catalog : {Catalog(FALSE)}, contract : {ToolName}]

Mind == [known_tables : SUBSET Table, submitted : BOOLEAN, system : Prompt \cup {NoPrompt},
         history : Seq(Message), submits : Nat]

\* How far a sweep is and how many rows it has, and when its environment is open.
SweepInv ==
    /\ sweep \in SweepRecord /\ tally \in Tally /\ results \in Seq(ReportRow) /\ mind \in Mind
    /\ sweep.pc # "off" => sweep.of \in Sweeps /\ sweep.number > 0
    /\ sweep.pc = "off" \/ sweep.agent = "api" => results = <<>>
    /\ sweep.agent = "api" => sweep.pc \notin FileName /\ Planned(sweep.of) = 1
    /\ sweep.pc \in {"reset", "act"} => Len(results) < Planned(sweep.of)
    /\ (sweep.pc = "close" /\ sweep.agent # "api") \/ sweep.pc \in FileName =>
           Len(results) = Planned(sweep.of)
    /\ sweep.pc = "act" => live /\ cfg.scenario = NextScenario
    /\ sweep.pc \in {"off"} \cup FileName => ~live

LEMMA SweepOfList ==
  ASSUME NEW w \in Sweeps
  PROVE  /\ w.scenarios \in Seq(Scenario \cup {UnknownScenario})
         /\ Len(w.scenarios) \in Nat /\ w.seeds \in Nat /\ Planned(w) \in Nat
<1>1. w.scenarios \in Seq(Scenario \cup {UnknownScenario}) /\ w.seeds \in Nat
  BY SweepAssumption
<1>2. Len(w.scenarios) \in Nat
  BY <1>1
<1> QED BY <1>1, <1>2 DEF Planned

\* The k-th of n lists of s rows is one of the n.
LEMMA Quotient ==
  ASSUME NEW k \in Nat, NEW n \in Nat, NEW s \in Nat, k < n * s
  PROVE  s > 0 /\ (k \div s) + 1 \in 1 .. n /\ k % s \in Nat
<1>1. s > 0
  OBVIOUS
<1>2. k \div s \in Nat
  BY <1>1
<1>3. k \div s < n
  BY <1>1
<1>4. k % s \in 0 .. s - 1
  BY <1>1
<1> QED BY <1>1, <1>2, <1>3, <1>4

LEMMA NextListed ==
  ASSUME SweepInv, sweep.pc \in {"reset", "act"}
  PROVE  NextScenario \in Scenario \cup {UnknownScenario} /\ NextSeed \in Nat
<1>1. sweep.of \in Sweeps /\ Len(results) < Len(sweep.of.scenarios) * sweep.of.seeds
  BY DEF SweepInv, Planned
<1>2. Len(results) \in Nat
  BY DEF SweepInv
<1>3. /\ sweep.of.scenarios \in Seq(Scenario \cup {UnknownScenario})
      /\ Len(sweep.of.scenarios) \in Nat /\ sweep.of.seeds \in Nat
  BY <1>1, SweepOfList
<1>4. /\ (Len(results) \div sweep.of.seeds) + 1 \in 1 .. Len(sweep.of.scenarios)
      /\ Len(results) % sweep.of.seeds \in Nat
  BY <1>1, <1>2, <1>3, Quotient
<1> QED BY <1>3, <1>4 DEF NextScenario, NextSeed

LEMMA FewerIsStep ==
  ASSUME NEW T \in SUBSET Table, NEW Q \in SUBSET Query, StepOn(T, Q)
  PROVE  Step
BY DEF Step, StepOn

\* The random agent knows no table that is not one.
LEMMA KnownTables ==
  ASSUME TypeOK, mind \in Mind, live
  PROVE  Known \in SUBSET Table
<1>1. cfg.scenario.tables[db] \subseteq Table
  BY ScenarioAssumption DEF TypeOK, Config, live, ScenarioInstance
<1> QED BY <1>1 DEF Known, Mind

LEMMA ActsStep ==
  ASSUME TypeOK, mind \in Mind, live, Acts
  PROVE  Step
<1>1. CASE sweep.agent = "random"
  <2>1. Known \in SUBSET Table
    BY KnownTables
  <2>2. {StarQuery[t] : t \in Known} \in SUBSET Query
    BY <2>1, SweepAssumption
  <2>3. StepOn(Known, {StarQuery[t] : t \in Known})
    BY <1>1 DEF Acts, RandomActs
  <2> QED BY <2>1, <2>2, <2>3, FewerIsStep
<1>2. CASE sweep.agent # "random"
  BY <1>2 DEF Acts, ChatActs
<1> QED BY <1>1, <1>2

LEMMA OptionsType ==
  ASSUME NEW option \in Options
  PROVE  option[1] \in Budget /\ option[2] \in BOOLEAN
<1>1. CASE sweep.agent = "api"
  BY <1>1 DEF Options
<1>2. CASE sweep.agent # "api"
  <2>1. option = <<DefaultBudget, FALSE>>
    BY <1>2 DEF Options
  <2> QED BY <2>1, SweepAssumption
<1> QED BY <1>1, <1>2

\* What the steps of a sweep are to the environment: a step of an agent, a reset,
\* a close, or nothing.
LEMMA SweepSteps ==
  ASSUME TypeOK, SweepInv, SweepStep
  PROVE  \/ /\ Turn \/ TurnRaises
            /\ Step
         \/ /\ BeginEpisode
            /\ \E n \in ScheduledSteps(NextScenario), b \in Budget, o \in BOOLEAN :
                   NextScenario \in Scenario /\ Reset(NextScenario, b, n, o)
         \/ /\ Unwind \/ CloseSweep
            /\ ~live' /\ (Close \/ UNCHANGED vars)
         \/ /\ ResetRaises \/ AgentRaises \/ EndEpisode \/ EndRollout \/ Write \/ WriteFails
            /\ UNCHANGED vars
<1>1. CASE Turn \/ TurnRaises
  <2>1. live /\ mind \in Mind /\ Acts
    BY <1>1 DEF Turn, TurnRaises, SweepInv
  <2> QED BY <1>1, <2>1, ActsStep
<1>2. CASE BeginEpisode
  <2>1. PICK n \in ScheduledSteps(NextScenario), option \in Options :
            Reset(NextScenario, option[1], n, option[2])
    BY <1>2 DEF BeginEpisode
  <2>2. NextScenario \in Scenario
    BY <1>2, NextListed DEF BeginEpisode
  <2> QED BY <1>2, <2>1, <2>2, OptionsType
<1>3. CASE Unwind \/ CloseSweep
  <2>1. ClosesEnv
    BY <1>3 DEF Unwind, CloseSweep, RaisedCloses
  <2>2. ~live' /\ (Close \/ UNCHANGED vars)
    BY <2>1 DEF ClosesEnv, Close, live, vars, sessionVars
  <2> QED BY <1>3, <2>2
<1>4. CASE ResetRaises \/ AgentRaises \/ EndEpisode \/ EndRollout \/ Write \/ WriteFails
  BY <1>4 DEF ResetRaises, AgentRaises, EndEpisode, EndRollout, Write, WriteFails
<1> QED BY <1>1, <1>2, <1>3, <1>4 DEF SweepStep

\* A pipeline step starts a sweep, goes on with one, or leaves sweep and
\* environment alone.
LEMMA StepSweeps ==
  ASSUME [PipelineNext]_pipelineVars
  PROVE  \/ /\ \E w \in Sweeps : \/ StartSweep("random", w, "absent")
                                 \/ StartRollout(w)
                                 \/ \E n : StartSweep("llm", w, Checkpoint(n))
            /\ UNCHANGED <<vars, trainingVars>>
         \/ SweepStep /\ UNCHANGED trainingVars
         \/ UNCHANGED <<vars, sweepVars>>
<1>1. CASE EvaluateBase
  BY <1>1 DEF EvaluateBase, StartSweep, StartRollout
<1>2. CASE EvaluateTrained
  BY <1>2 DEF EvaluateTrained, StartSweep
<1>3. CASE UNCHANGED pipelineVars \/ Evaluates \/ Launches \/ Trains
  BY <1>3 DEF pipelineVars, Evaluates, Launches, Trains
<1> QED BY <1>1, <1>2, <1>3 DEF PipelineNext

LEMMA SweepsInEpisode ==
  ASSUME TypeOK, SweepInv, [PipelineNext]_pipelineVars
  PROVE  [Next]_vars
<1>1. CASE SweepStep
  BY <1>1, SweepSteps DEF Next
<1>2. CASE UNCHANGED vars
  BY <1>2
<1> QED BY <1>1, <1>2, StepSweeps

-----------------------------------------------------------------------------
(* The agents' memory *)

LEMMA MessageTypes ==
  ASSUME NEW agent, NEW history \in Seq(Message), NEW fired \in BOOLEAN, NEW parsed
  PROVE  MessageOf(agent, history, fired) \in Message /\ Recorded(parsed) \in Message
<1>1. RecentUserSilent(history) \in BOOLEAN /\ HistoryMentionsDrift(history) \in BOOLEAN
  BY DEF RecentUserSilent, HistoryMentionsDrift
<1>2. UserMessage(history, fired) \in Message /\ ApiUserMessage(history, fired) \in Message
  BY <1>1 DEF UserMessage, ApiUserMessage, User, Message
<1> QED BY <1>2 DEF MessageOf, Recorded, Message

LEMMA TurnsType == Turns \in Nat \ {0}
BY HistoryTurnsAssumption DEF Turns

LEMMA TrimmedType ==
  ASSUME NEW history \in Seq(Message)
  PROVE  Trimmed(history) \in Seq(Message)
<1>1. Len(history) \in Nat /\ 2 * Turns \in Nat
  BY TurnsType
<1> DEFINE m == Len(history) - 2 * Turns + 1
<1>2. CASE Len(history) > 2 * Turns
  <2>1. m \in 1 .. Len(history) + 1
    BY <1>1, <1>2, TurnsType
  <2>2. SubSeq(history, m, Len(history)) \in Seq(Message)
    <3> HIDE DEF m
    <3> QED BY <2>1, <1>1, SubSeqProperties
  <2> QED BY <1>2, <2>2 DEF Trimmed
<1>3. CASE ~(Len(history) > 2 * Turns)
  BY <1>3 DEF Trimmed
<1> QED BY <1>2, <1>3

LEMMA AfterTurnType ==
  ASSUME NEW agent, NEW history \in Seq(Message), NEW fired \in BOOLEAN, NEW parsed
  PROVE  AfterTurn(agent, history, fired, parsed) \in Seq(Message)
<1> DEFINE u == MessageOf(agent, history, fired)
           r == Recorded(parsed)
<1>1. u \in Message /\ r \in Message
  BY MessageTypes
<1> HIDE DEF u, r
<1>2. <<u, r>> \in Seq(Message)
  BY <1>1
<1>3. history \o <<u, r>> \in Seq(Message)
  BY <1>2
<1>4. Trimmed(history \o <<u, r>>) \in Seq(Message)
  BY <1>3, TrimmedType
<1> QED BY <1>4 DEF AfterTurn, u, r

LEMMA PromptType ==
  ASSUME TypeOK, live
  PROVE  SystemPrompt(phase, budget_steps_remaining, drift_fired) \in Prompt
<1>1. PHASE_NUDGES[phase] \in {PHASE_NUDGES[p] : p \in EpisodePhase}
  BY DEF TypeOK
<1>2. budget_steps_remaining \in Nat
  BY LiveConfig DEF TypeOK, budget_steps_remaining, Larger
<1>3. drift_fired \in BOOLEAN
  BY DEF drift_fired
<1>4. SystemPrompt(phase, budget_steps_remaining, drift_fired)
        = [written |-> TRUE, nudge |-> PHASE_NUDGES[phase], budget |-> budget_steps_remaining,
           says_drift |-> drift_fired, catalog |-> Catalog(FALSE), contract |-> ToolName]
  BY DEF SystemPrompt
<1>5. \A n \in {PHASE_NUDGES[p] : p \in EpisodePhase}, b \in Nat, f \in BOOLEAN :
          [written |-> TRUE, nudge |-> n, budget |-> b, says_drift |-> f,
           catalog |-> Catalog(FALSE), contract |-> ToolName] \in Prompt
  BY DEF Prompt
<1> QED BY <1>1, <1>2, <1>3, <1>4, <1>5

LEMMA FreshMindType == FreshMind \in Mind
<1>1. <<>> \in Seq(Message)
  OBVIOUS
<1> QED BY <1>1 DEF FreshMind, Mind

\* An agent takes what it knows from the last observation and its own turn.
LEMMA ActsMind ==
  ASSUME TypeOK, mind \in Mind, live, Acts
  PROVE  mind' \in Mind
<1> DEFINE more == IF outcome'.tool = "submit_rewrite" THEN 1 ELSE 0
<1>1. mind.submits + more \in Nat
  BY DEF Mind
<1> HIDE DEF more
<1>2. CASE sweep.agent = "random"
  <2>1. Known \in SUBSET Table
    BY KnownTables
  <2>2. PICK b \in BOOLEAN :
            mind' = [mind EXCEPT !.known_tables = Known, !.submitted = b,
                                 !.submits = mind.submits + more]
    <3>1. (mind.submitted \/ outcome'.tool = "submit_rewrite") \in BOOLEAN
      OBVIOUS
    <3> QED BY <1>2, <3>1 DEF Acts, RandomActs, Mind, more
  <2> QED BY <1>1, <2>1, <2>2 DEF Mind
<1>3. CASE sweep.agent # "random"
  <2> DEFINE p == PromptKept(mind.system,
                     SystemPrompt(phase, budget_steps_remaining, drift_fired))
  <2>1. p \in Prompt \cup {NoPrompt}
    BY PromptType DEF PromptKept, Mind
  <2>2. \A parsed : AfterTurn(sweep.agent, mind.history, drift_fired, parsed) \in Seq(Message)
    <3>1. drift_fired \in BOOLEAN /\ mind.history \in Seq(Message)
      BY DEF drift_fired, Mind
    <3> QED BY <3>1, AfterTurnType
  <2>3. PICK h \in Seq(Message) :
            mind' = [mind EXCEPT !.system = p, !.history = h, !.submits = mind.submits + more]
    BY <1>3, <2>2 DEF Acts, ChatActs, more
  <2> HIDE DEF p
  <2> QED BY <1>1, <2>1, <2>3 DEF Mind
<1> QED BY <1>2, <1>3

-----------------------------------------------------------------------------
(* The sweep: its progress *)

LEMMA GoesRecord ==
  ASSUME sweep \in SweepRecord, NEW p \in SweepPc
  PROVE  /\ Goes(p) \in SweepRecord
         /\ Goes(p).pc = p /\ Goes(p).agent = sweep.agent
         /\ Goes(p).of = sweep.of /\ Goes(p).number = sweep.number
BY DEF Goes, SweepRecord

LEMMA IdleRecord ==
  ASSUME NEW n \in Nat
  PROVE  /\ Idle(n) \in SweepRecord /\ Idle(n).pc = "off"
         /\ Idle(n).agent = "none" /\ Idle(n).number = n
BY DEF Idle, SweepRecord, SweepPc, Agent

LEMMA RestSweep ==
  ASSUME SweepInv, UNCHANGED <<vars, sweepVars>>
  PROVE  SweepInv'
<1>1. UNCHANGED <<sweep, tally, results, mind, cfg>>
  BY DEF vars, sessionVars, sweepVars
<1> QED BY <1>1 DEF SweepInv, live, NextScenario

LEMMA StartsSweep ==
  ASSUME SweepInv, NEW w \in Sweeps,
         StartRollout(w) \/ \E agent \in {"random", "llm"} : \E c : StartSweep(agent, w, c)
  PROVE  SweepInv'
<1>1. /\ sweep.pc = "off" /\ results' = <<>> /\ tally' = tally /\ mind' = mind /\ cfg' = cfg
      /\ results = <<>> /\ Len(results) = 0
  BY DEF StartRollout, StartSweep, vars, sessionVars, SweepInv
<1>2. Planned(w) \in Nat
  BY SweepOfList
<1>3. sweep.number \in Nat
  BY DEF SweepInv, SweepRecord
<1>4. CASE sweep' = Idle(sweep.number + 1)
  BY <1>1, <1>3, <1>4, IdleRecord DEF SweepInv, live, FileName
<1>5. ASSUME NEW p \in {"reset", "close"}, NEW a \in {"random", "llm", "api"},
             sweep' = [pc |-> p, agent |-> a, of |-> w, number |-> sweep.number + 1],
             p = "reset" => Planned(w) > 0, p = "close" => Planned(w) = 0,
             a = "api" => Planned(w) = 1
      PROVE  SweepInv'
  <2>1. sweep' \in SweepRecord
    BY <1>3, <1>5 DEF SweepRecord, SweepPc, Agent
  <2>2. /\ sweep'.pc = p /\ sweep'.agent = a /\ sweep'.of = w
        /\ sweep'.number = sweep.number + 1
    BY <1>5
  <2> QED BY <1>1, <1>2, <1>3, <1>5, <2>1, <2>2 DEF SweepInv, FileName
<1>6. CASE StartRollout(w)
  BY <1>4, <1>5, <1>6 DEF StartRollout
<1>7. ASSUME NEW agent \in {"random", "llm"}, NEW c, StartSweep(agent, w, c)
      PROVE  SweepInv'
  <2>1. CASE Planned(w) = 0
    BY <1>4, <1>5, <1>7, <2>1 DEF StartSweep
  <2>2. CASE Planned(w) # 0
    BY <1>2, <1>4, <1>5, <1>7, <2>2 DEF StartSweep
  <2> QED BY <2>1, <2>2
<1> QED BY <1>6, <1>7

LEMMA BeginsEpisode ==
  ASSUME TypeOK, SweepInv, BeginEpisode
  PROVE  SweepInv'
<1>1. PICK n \in ScheduledSteps(NextScenario), b \in Budget, o \in BOOLEAN :
          NextScenario \in Scenario /\ Reset(NextScenario, b, n, o)
  <2>1. SweepStep
    BY DEF SweepStep
  <2>2. sweep.pc = "reset"
    BY DEF BeginEpisode
  <2>3. ~(Turn \/ TurnRaises \/ Unwind \/ CloseSweep \/ AgentRaises \/ EndEpisode \/ EndRollout)
    BY <2>2 DEF Turn, TurnRaises, Unwind, CloseSweep, AgentRaises, EndEpisode, EndRollout
  <2>4. ~(ResetRaises \/ Write \/ WriteFails)
    BY <2>2, GoesRecord DEF BeginEpisode, ResetRaises, Write, WriteFails, FileName, SweepInv,
       SweepPc
  <2> QED BY <2>1, <2>3, <2>4, SweepSteps
<1>2. live' /\ cfg'.scenario = NextScenario
  BY <1>1, ResetLive DEF Reset
<1>3. /\ sweep.pc = "reset" /\ sweep' = Goes("act") /\ tally' = FreshTally
      /\ mind' = FreshMind /\ results' = results
  BY DEF BeginEpisode, TallyAtStart
<1>4. /\ sweep' \in SweepRecord /\ sweep'.pc = "act" /\ sweep'.agent = sweep.agent
      /\ sweep'.of = sweep.of /\ sweep'.number = sweep.number
  BY <1>3, GoesRecord DEF SweepInv, SweepPc
<1>5. NextScenario' = NextScenario
  BY <1>3, <1>4 DEF NextScenario
<1>6. tally' \in Tally /\ mind' \in Mind
  BY <1>3, FreshMindType DEF FreshTally, Tally
<1> QED BY <1>2, <1>3, <1>4, <1>5, <1>6 DEF SweepInv, FileName

LEMMA TakesTurn ==
  ASSUME TypeOK, TypeOK', SweepInv, Turn \/ TurnRaises
  PROVE  SweepInv'
<1>1. live /\ mind \in Mind /\ Acts /\ sweep.pc = "act" /\ results' = results
  BY DEF SweepInv, Turn, TurnRaises
<1>2. live' /\ cfg' = cfg
  BY <1>1, ActsStep, StepOpen
<1>3. mind' \in Mind
  BY <1>1, ActsMind
<1>4. CASE Turn
  <2>1. sweep' = sweep
    BY <1>4 DEF Turn
  <2>2. tally' \in Tally
    <3>1. Total(outcome'.reward) \in Int
      BY RewardTotals DEF TypeOK, OutcomeType
    <3>2. tally' = [steps |-> tally.steps + 1, terminal_reward |-> Total(outcome'.reward),
                    episode_return |-> tally.episode_return + Total(outcome'.reward)]
      BY <1>4 DEF Turn
    <3> QED BY <3>1, <3>2 DEF SweepInv, Tally
  <2>3. NextScenario' = NextScenario
    BY <1>1, <2>1 DEF NextScenario
  <2> QED BY <1>1, <1>2, <1>3, <2>1, <2>2, <2>3 DEF SweepInv, FileName
<1>5. CASE TurnRaises
  <2>1. sweep' = Goes("raised") /\ tally' = tally
    BY <1>5 DEF TurnRaises
  <2>2. /\ sweep' \in SweepRecord /\ sweep'.pc = "raised" /\ sweep'.agent = sweep.agent
        /\ sweep'.of = sweep.of /\ sweep'.number = sweep.number
    BY <2>1, GoesRecord DEF SweepInv, SweepPc
  <2> QED BY <1>1, <1>3, <2>1, <2>2 DEF SweepInv, FileName
<1> QED BY <1>4, <1>5

LEMMA MovesOn ==
  ASSUME SweepInv, ResetRaises \/ AgentRaises \/ EndRollout
  PROVE  SweepInv'
<1>1. PICK p \in {"raised", "close"} :
          /\ sweep' = Goes(p) /\ (p = "close" => sweep.agent = "api")
          /\ sweep.pc \in {"reset", "act"}
          /\ UNCHANGED <<vars, tally, results, mind>>
  BY DEF ResetRaises, AgentRaises, EndRollout
<1>2. /\ sweep' \in SweepRecord /\ sweep'.pc = p /\ sweep'.agent = sweep.agent
      /\ sweep'.of = sweep.of /\ sweep'.number = sweep.number
  BY <1>1, GoesRecord DEF SweepInv, SweepPc
<1> QED BY <1>1, <1>2 DEF SweepInv, FileName

LEMMA RowType ==
  ASSUME TypeOK, SweepInv, sweep.pc = "act"
  PROVE  Row \in ReportRow
<1>1. NextScenario \in Scenario
  BY DEF SweepInv, live, TypeOK, Config
<1>2. NextSeed \in Nat
  BY NextListed
<1>3. tally.steps \in Nat /\ tally.terminal_reward \in Int /\ tally.episode_return \in Int
  BY DEF SweepInv, Tally
<1>4. MeasuredSpeedup \in Nat
  BY BoundAssumption DEF MeasuredSpeedup, TypeOK, RatioPoint, INFTY
<1>5. Passes \in BOOLEAN /\ submitted \in BOOLEAN /\ drift_fired \in BOOLEAN
  BY DEF Passes, TypeOK, drift_fired
<1> QED BY <1>1, <1>2, <1>3, <1>4, <1>5 DEF Row, ReportRow

LEMMA EndsEpisode ==
  ASSUME TypeOK, SweepInv, EndEpisode
  PROVE  SweepInv'
<1>1. /\ sweep.pc = "act" /\ sweep.agent # "api" /\ results' = Append(results, Row)
      /\ UNCHANGED <<vars, tally, mind>>
      /\ sweep' = Goes(IF Len(results') = Planned(sweep.of) THEN "close" ELSE "reset")
  BY DEF EndEpisode
<1>2. Row \in ReportRow /\ results \in Seq(ReportRow)
  BY <1>1, RowType DEF SweepInv
<1> HIDE DEF Row
<1>3. results' \in Seq(ReportRow) /\ Len(results') = Len(results) + 1 /\ Len(results) \in Nat
  BY <1>1, <1>2
<1>4. PICK p \in {"close", "reset"} :
          sweep' = Goes(p) /\ (p = "close" <=> Len(results') = Planned(sweep.of))
  BY <1>1
<1>5. /\ sweep' \in SweepRecord /\ sweep'.pc = p /\ sweep'.agent = sweep.agent
      /\ sweep'.of = sweep.of /\ sweep'.number = sweep.number
  BY <1>4, GoesRecord DEF SweepInv, SweepPc
<1>6. Planned(sweep.of) \in Nat
  BY <1>1, SweepOfList DEF SweepInv
<1> QED BY <1>1, <1>3, <1>4, <1>5, <1>6 DEF SweepInv, FileName

LEMMA ClosesDown ==
  ASSUME SweepInv, Unwind \/ CloseSweep, ~live'
  PROVE  SweepInv'
<1>1. tally' \in Tally /\ mind' \in Mind
  BY FreshMindType DEF Unwind, CloseSweep, Forgets, FreshTally, Tally
<1>2. CASE sweep' = Idle(sweep.number) /\ results' = <<>>
  BY <1>1, <1>2, IdleRecord DEF SweepInv, FileName, SweepRecord
<1>3. CASE /\ sweep' = Goes("per_episode.csv") /\ results' = results
           /\ sweep.pc = "close" /\ sweep.agent # "api"
  <2>1. /\ sweep' \in SweepRecord /\ sweep'.pc = "per_episode.csv"
        /\ sweep'.agent = sweep.agent /\ sweep'.of = sweep.of /\ sweep'.number = sweep.number
    BY <1>3, GoesRecord DEF SweepInv, SweepPc, FileName
  <2> QED BY <1>1, <1>3, <2>1 DEF SweepInv, FileName
<1>4. CASE Unwind
  BY <1>2, <1>4 DEF Unwind, AfterRaise, Idle
<1>5. CASE CloseSweep
  BY <1>2, <1>3, <1>5 DEF CloseSweep, SweepInv
<1> QED BY <1>4, <1>5

LEMMA WritesFile ==
  ASSUME SweepInv, Write \/ WriteFails
  PROVE  SweepInv'
<1>1. sweep.pc \in FileName /\ UNCHANGED <<vars, tally, mind>>
  BY DEF Write, WriteFails
<1>2. UNCHANGED cfg
  BY <1>1 DEF vars, sessionVars
<1>3. CASE sweep' = Idle(sweep.number) /\ results' = <<>>
  BY <1>1, <1>2, <1>3, IdleRecord DEF SweepInv, FileName, live, SweepRecord
<1>4. ASSUME NEW p \in FileName, sweep' = Goes(p), results' = results
      PROVE  SweepInv'
  <2>1. /\ sweep' \in SweepRecord /\ sweep'.pc = p
        /\ sweep'.agent = sweep.agent /\ sweep'.of = sweep.of /\ sweep'.number = sweep.number
    BY <1>4, GoesRecord DEF SweepInv, SweepPc
  <2> QED BY <1>1, <1>2, <1>4, <2>1 DEF SweepInv, FileName, live
<1>5. CASE Write
  BY <1>1, <1>3, <1>4, <1>5 DEF Write, FileAfter, FileName
<1> QED BY <1>3, <1>5 DEF WriteFails

LEMMA SweepGoesOn ==
  ASSUME TypeOK, TypeOK', SweepInv, [PipelineNext]_pipelineVars
  PROVE  SweepInv'
<1>1. CASE SweepStep
  BY <1>1, SweepSteps, BeginsEpisode, TakesTurn, MovesOn, EndsEpisode, ClosesDown, WritesFile
<1>2. CASE \E w \in Sweeps : \/ StartSweep("random", w, "absent")
                             \/ StartRollout(w)
                             \/ \E n : StartSweep("llm", w, Checkpoint(n))
  BY <1>2, StartsSweep
<1>3. CASE UNCHANGED <<vars, sweepVars>>
  BY <1>3, RestSweep
<1> QED BY <1>1, <1>2, <1>3, StepSweeps

LEMMA SweepInit0 == PipelineInit => TypeOK /\ SweepInv
<1> SUFFICES ASSUME PipelineInit PROVE TypeOK /\ SweepInv
  OBVIOUS
<1>1. TypeOK
  BY InitType DEF PipelineInit
<1>2. sweep = Idle(0) /\ tally = FreshTally /\ results = <<>> /\ mind = FreshMind /\ ~live
  BY DEF PipelineInit, SweepInit, Init, live
<1>3. <<>> \in Seq(ReportRow)
  OBVIOUS
<1>4. SweepInv
  BY <1>2, <1>3, IdleRecord, FreshMindType DEF SweepInv, FreshTally, Tally, FileName
<1> QED BY <1>1, <1>4

LEMMA SweepInvariant == PipelineSpec => [](TypeOK /\ SweepInv)
<1>1. PipelineInit => TypeOK /\ SweepInv
  BY SweepInit0
<1>2. (TypeOK /\ SweepInv) /\ [PipelineNext]_pipelineVars => (TypeOK /\ SweepInv)'
  BY SweepsInEpisode, TypeStep, SweepGoesOn
<1> QED BY <1>1, <1>2, PTL DEF PipelineSpec

\* The environment of the sweeps is the environment of Episode.
LEMMA PipelineIsEpisode == PipelineSpec => Spec
<1>1. PipelineInit => Init
  BY DEF PipelineInit
<1>2. TypeOK /\ SweepInv /\ [PipelineNext]_pipelineVars => [Next]_vars
  BY SweepsInEpisode
<1> QED BY <1>1, <1>2, SweepInvariant, PTL DEF PipelineSpec, Spec

-----------------------------------------------------------------------------
(* What is evaluated *)

\* What training/eval.py finds is of a run whose records are there: a checkpoint
\* with those up to its step, the model with those of a whole run.
LEMMA FoundIsRecorded ==
  ASSUME TrainingInv, NEW n \in 0..TrainSteps, Checkpoint(n) = "saved"
  PROVE  /\ Weights(n).run \in 1..Run
         /\ LogCovers(Weights(n).run, Weights(n).step)
         /\ Weights(n).final => Finished(Weights(n).run)
<1>1. /\ run_dir.model \in Nat /\ run_dir.config \in Nat /\ Run \in Nat /\ TrainSteps \in Nat
      /\ \A k \in 1..TrainSteps : run_dir.checkpoints[k] \in Nat
      /\ run_dir.config <= Run
      /\ \A k \in 1..TrainSteps : run_dir.checkpoints[k] <= Run
  BY TrainStepsAssumption DEF TrainingInv, TypeInv, DirType, TrainType, DirInv, Run
<1>2. CASE n = 0
  <2>1. run_dir.model > 0
    BY <1>2 DEF Checkpoint, Writer
  <2>2. Finished(run_dir.model) /\ run_dir.model \in 1..Run
    BY <1>1, <2>1 DEF TrainingInv, DirInv, CompletedMeansSaved
  <2>3. LogCovers(run_dir.model, TrainSteps)
    <3>1. Summary(run_dir.model) \in Elements(run_dir.log)
      BY <2>2 DEF Finished
    <3>2. LogCovers(Summary(run_dir.model).run, Summary(run_dir.model).step)
      BY <3>1 DEF TrainingInv, RecordsInv, LogKeepsSteps
    <3> QED BY <3>2 DEF Summary
  <2>4. Weights(n) = [run |-> run_dir.model, step |-> TrainSteps, final |-> TRUE]
    BY <1>2 DEF Weights, Writer, Source
  <2> QED BY <2>2, <2>3, <2>4
<1>3. CASE n # 0
  <2>1. n \in 1..TrainSteps /\ run_dir.checkpoints[n] > 0
    BY <1>1, <1>3 DEF Checkpoint, Writer
  <2>2. LogCovers(run_dir.checkpoints[n], n) /\ run_dir.checkpoints[n] \in 1..Run
    BY <1>1, <2>1 DEF TrainingInv, DirInv, CompletedMeansSaved
  <2>3. Weights(n) = [run |-> run_dir.checkpoints[n], step |-> n, final |-> FALSE]
    BY <1>3 DEF Weights, Writer, Source
  <2> QED BY <2>2, <2>3
<1> QED BY <1>2, <1>3

\* A sweep that goes on has the agent it began with.
LEMMA AgentStays ==
  ASSUME SweepInv, SweepStep
  PROVE  sweep.pc # "off" /\ (sweep'.pc = "off" \/ sweep'.agent = sweep.agent)
<1>1. sweep.pc # "off"
  BY DEF SweepStep, BeginEpisode, ResetRaises, Turn, TurnRaises, AgentRaises, EndEpisode,
     EndRollout, Unwind, CloseSweep, Write, WriteFails, FileName
<1>2. \/ sweep' = sweep
      \/ \E n : sweep' = Idle(n)
      \/ \E p : sweep' = Goes(p)
  BY DEF SweepStep, BeginEpisode, ResetRaises, Turn, TurnRaises, AgentRaises, EndEpisode,
     EndRollout, Unwind, AfterRaise, CloseSweep, Write, WriteFails
<1>3. \A p : Goes(p).agent = sweep.agent
  BY DEF Goes, SweepInv, SweepRecord
<1> QED BY <1>1, <1>2, <1>3 DEF Idle

\* What is on record of the weights under evaluation.
OnRecord(s) ==
    s.run \in 1..Run /\ LogCovers(s.run, s.step) /\ (s.final => Finished(s.run))

LEMMA RecordRests ==
  ASSUME UNCHANGED trainingVars
  PROVE  \A s : OnRecord(s)' <=> OnRecord(s)
BY SameRecords DEF trainingVars, OnRecord

LEMMA SavedStep ==
  ASSUME TrainingInv, SweepInv, EvaluatesSavedModel, [PipelineNext]_pipelineVars
  PROVE  EvaluatesSavedModel'
<1>1. CASE EvaluateBase
  <2>1. sweep'.pc = "off" \/ sweep'.agent # "llm"
    BY <1>1 DEF EvaluateBase, StartSweep, StartRollout, Idle
  <2> QED BY <2>1 DEF EvaluatesSavedModel
<1>2. CASE EvaluateTrained
  <2>1. PICK w \in Sweeps, n \in 0..TrainSteps :
            /\ StartSweep("llm", w, Checkpoint(n))
            /\ source' = IF sweep'.pc = "off" THEN NoSource ELSE Weights(n)
            /\ UNCHANGED trainingVars
    BY <1>2 DEF EvaluateTrained
  <2>2. CASE Checkpoint(n) = "saved"
    <3>1. OnRecord(Weights(n))
      BY <2>2, FoundIsRecorded DEF OnRecord
    <3>2. SUFFICES ASSUME sweep'.pc # "off" PROVE EvaluatesSavedModel'
      BY DEF EvaluatesSavedModel
    <3>3. source' = Weights(n)
      BY <2>1, <3>2
    <3>4. PICK s : s = Weights(n)
      OBVIOUS
    <3>5. OnRecord(s)' /\ source' = s
      BY <2>1, <3>1, <3>3, <3>4, RecordRests
    <3> QED BY <3>5 DEF EvaluatesSavedModel, OnRecord
  <2>3. CASE Checkpoint(n) # "saved"
    BY <2>1, <2>3 DEF StartSweep, Loads, Idle, EvaluatesSavedModel
  <2> QED BY <2>2, <2>3
<1>3. CASE Evaluates
  <2>1. /\ sweep.pc # "off" /\ (sweep'.pc = "off" \/ sweep'.agent = sweep.agent)
        /\ UNCHANGED trainingVars /\ (sweep'.pc # "off" => source' = source)
    BY <1>3, AgentStays DEF Evaluates
  <2>2. SUFFICES ASSUME sweep'.pc # "off", sweep'.agent = "llm" PROVE OnRecord(source)'
    BY DEF EvaluatesSavedModel, OnRecord
  <2>3. PICK s : s = source
    OBVIOUS
  <2>4. OnRecord(s)
    BY <2>1, <2>2, <2>3 DEF EvaluatesSavedModel, OnRecord
  <2>5. OnRecord(s)' /\ source' = s
    BY <2>1, <2>2, <2>3, <2>4, RecordRests
  <2> QED BY <2>5 DEF OnRecord
<1>4. CASE Launches \/ Trains
  <2>1. sweep'.pc = "off"
    BY <1>4 DEF Launches, Trains, sweepVars, Idle
  <2> QED BY <2>1 DEF EvaluatesSavedModel
<1>5. CASE UNCHANGED pipelineVars
  <2>1. UNCHANGED <<trainingVars, sweep, source>>
    BY <1>5 DEF pipelineVars, sweepVars
  <2>2. SUFFICES ASSUME sweep'.pc # "off", sweep'.agent = "llm" PROVE OnRecord(source)'
    BY DEF EvaluatesSavedModel, OnRecord
  <2>3. PICK s : s = source
    OBVIOUS
  <2>4. OnRecord(s)
    BY <2>1, <2>2, <2>3 DEF EvaluatesSavedModel, OnRecord
  <2>5. OnRecord(s)' /\ source' = s
    BY <2>1, <2>3, <2>4, RecordRests
  <2> QED BY <2>5 DEF OnRecord
<1> QED BY <1>1, <1>2, <1>3, <1>4, <1>5 DEF PipelineNext

\* What is evaluated as a trained agent has its training on record, for every
\* number of runs over one another, and also for a checkpoint of a run that
\* crashed and for the model an earlier run left behind: load_agent finds weights
\* only where a run wrote them, and a run writes them after the records they
\* stand for (load_agent, train).
THEOREM EvaluatesSaved == PipelineSpec => []EvaluatesSavedModel
<1>1. PipelineInit => EvaluatesSavedModel
  BY DEF PipelineInit, SweepInit, Idle, EvaluatesSavedModel
<1>2. TrainingInv /\ SweepInv /\ EvaluatesSavedModel /\ [PipelineNext]_pipelineVars
        => EvaluatesSavedModel'
  BY SavedStep
<1> QED BY <1>1, <1>2, PipelineTrains, Invariant, SweepInvariant, PTL DEF PipelineSpec

-----------------------------------------------------------------------------
(* The files of a sweep *)

File == [sweep : Nat, episodes : Nat, planned : Nat, whole : BOOLEAN]

\* No file is of a later sweep than the one written before it; a sweep that runs
\* has not written its report yet, and whole are the files it has written.
FilesInv ==
    /\ out_dir \in [FileName -> File]
    /\ \A name \in FileName : /\ out_dir[name].whole =>
                                     out_dir[name].episodes = out_dir[name].planned
                              /\ out_dir[name].sweep <= sweep.number
    /\ out_dir["summary.json"].sweep <= out_dir["per_episode.csv"].sweep
    /\ out_dir["report.md"].sweep <= out_dir["summary.json"].sweep
    /\ sweep.pc # "off" => out_dir["report.md"].sweep < sweep.number
    /\ sweep.pc \in {"summary.json", "report.md"} =>
           out_dir["per_episode.csv"].whole /\ out_dir["per_episode.csv"].sweep = sweep.number
    /\ sweep.pc = "report.md" =>
           out_dir["summary.json"].whole /\ out_dir["summary.json"].sweep = sweep.number
    /\ sweep.pc = "off" /\ out_dir["report.md"].whole
       /\ out_dir["report.md"].sweep = sweep.number =>
           \A name \in FileName : out_dir[name].whole

LEMMA FilesWritten ==
  ASSUME SweepInv, FilesInv, Write \/ WriteFails
  PROVE  FilesInv'
<1>1. sweep.pc \in FileName /\ sweep.number \in Nat /\ results \in Seq(ReportRow)
      /\ sweep.of \in Sweeps /\ Len(results) = Planned(sweep.of)
  BY DEF Write, WriteFails, SweepInv, SweepRecord, FileName
<1>2. Planned(sweep.of) \in Nat
  BY <1>1, SweepOfList
<1>3. out_dir["report.md"].sweep < sweep.number
  BY <1>1 DEF FilesInv, FileName
<1>4. CASE Write
  <2> DEFINE f == [sweep |-> sweep.number, episodes |-> Len(results),
                   planned |-> Planned(sweep.of), whole |-> TRUE]
  <2>1. out_dir' = [out_dir EXCEPT ![sweep.pc] = f]
    BY <1>4 DEF Write
  <2>2. /\ f \in File /\ f.whole = TRUE /\ f.episodes = f.planned /\ f.sweep = sweep.number
    BY <1>1, <1>2 DEF File
  <2> HIDE DEF f
  <2>3. /\ out_dir' \in [FileName -> File] /\ out_dir'[sweep.pc] = f
        /\ \A name \in FileName : name # sweep.pc => out_dir'[name] = out_dir[name]
    BY <1>1, <2>1, <2>2 DEF FilesInv
  <2>4. CASE sweep.pc = "per_episode.csv"
    <3>1. sweep' = Goes("summary.json")
      BY <1>4, <2>4 DEF Write, FileAfter, FileName
    <3>2. sweep'.pc = "summary.json" /\ sweep'.number = sweep.number
      BY <3>1, GoesRecord DEF SweepInv, SweepPc, FileName
    <3> QED BY <1>1, <1>3, <2>2, <2>3, <2>4, <3>2 DEF FilesInv, FileName, File
  <2>5. CASE sweep.pc = "summary.json"
    <3>1. sweep' = Goes("report.md")
      BY <1>4, <2>5 DEF Write, FileAfter, FileName
    <3>2. sweep'.pc = "report.md" /\ sweep'.number = sweep.number
      BY <3>1, GoesRecord DEF SweepInv, SweepPc, FileName
    <3> QED BY <1>1, <1>3, <2>2, <2>3, <2>5, <3>2 DEF FilesInv, FileName, File
  <2>6. CASE sweep.pc = "report.md"
    <3>1. sweep' = Idle(sweep.number)
      BY <1>4, <2>6 DEF Write, FileAfter, FileName
    <3>2. sweep'.pc = "off" /\ sweep'.number = sweep.number
      BY <1>1, <3>1, IdleRecord
    <3> QED BY <1>1, <1>3, <2>2, <2>3, <2>6, <3>2 DEF FilesInv, FileName, File
  <2> QED BY <1>1, <2>4, <2>5, <2>6 DEF FileName
<1>5. CASE WriteFails
  <2> DEFINE f == [sweep |-> sweep.number, episodes |-> 0,
                   planned |-> Planned(sweep.of), whole |-> FALSE]
  <2>1. out_dir' = [out_dir EXCEPT ![sweep.pc] = f]
    BY <1>5 DEF WriteFails
  <2>2. f \in File /\ f.whole = FALSE /\ f.sweep = sweep.number
    BY <1>1, <1>2 DEF File
  <2> HIDE DEF f
  <2>3. /\ out_dir' \in [FileName -> File] /\ out_dir'[sweep.pc] = f
        /\ \A name \in FileName : name # sweep.pc => out_dir'[name] = out_dir[name]
    BY <1>1, <2>1, <2>2 DEF FilesInv
  <2>4. sweep'.pc = "off" /\ sweep'.number = sweep.number
    BY <1>1, <1>5, IdleRecord DEF WriteFails
  <2>5. CASE sweep.pc = "per_episode.csv"
    BY <1>1, <1>3, <2>2, <2>3, <2>4, <2>5 DEF FilesInv, FileName, File
  <2>6. CASE sweep.pc = "summary.json"
    BY <1>1, <1>3, <2>2, <2>3, <2>4, <2>6 DEF FilesInv, FileName, File
  <2>7. CASE sweep.pc = "report.md"
    BY <1>1, <1>3, <2>2, <2>3, <2>4, <2>7 DEF FilesInv, FileName, File
  <2> QED BY <1>1, <2>5, <2>6, <2>7 DEF FileName
<1> QED BY <1>4, <1>5

\* Steps that write no file: a new sweep gets a new number, another one moves on
\* to the first file or ends before it.
LEMMA FilesStay ==
  ASSUME SweepInv, FilesInv, out_dir' = out_dir,
         \/ sweep' = sweep
         \/ sweep.pc = "off" /\ sweep'.number = sweep.number + 1
            /\ sweep'.pc \notin FileName
         \/ sweep.pc # "off" /\ sweep'.number = sweep.number
            /\ sweep'.pc \notin {"summary.json", "report.md"}
  PROVE  FilesInv'
<1>1. sweep.number \in Nat /\ out_dir \in [FileName -> File]
  BY DEF SweepInv, SweepRecord, FilesInv
<1>2. \A name \in FileName : out_dir[name].sweep \in Nat
  BY <1>1 DEF File
<1>3. CASE sweep' = sweep
  BY <1>3 DEF FilesInv
<1>4. CASE sweep.pc = "off" /\ sweep'.number = sweep.number + 1 /\ sweep'.pc \notin FileName
  BY <1>1, <1>2, <1>4 DEF FilesInv, FileName
<1>5. CASE sweep.pc # "off" /\ sweep'.number = sweep.number
           /\ sweep'.pc \notin {"summary.json", "report.md"}
  BY <1>1, <1>2, <1>5 DEF FilesInv, FileName
<1> QED BY <1>3, <1>4, <1>5

LEMMA FilesStep ==
  ASSUME SweepInv, FilesInv, [PipelineNext]_pipelineVars
  PROVE  FilesInv'
<1>1. sweep \in SweepRecord /\ sweep.number \in Nat
  BY DEF SweepInv, SweepRecord
<1>2. CASE Write \/ WriteFails
  BY <1>2, FilesWritten
<1>3. CASE SweepStep /\ ~(Write \/ WriteFails)
  <2>1. out_dir' = out_dir /\ sweep.pc # "off"
    BY <1>3, AgentStays DEF SweepStep, BeginEpisode, ResetRaises, Turn, TurnRaises, AgentRaises,
       EndEpisode, EndRollout, Unwind, CloseSweep
  <2>2. \/ sweep' = sweep
        \/ sweep' = Idle(sweep.number)
        \/ \E p \in {"act", "raised", "close", "reset", "per_episode.csv"} : sweep' = Goes(p)
    BY <1>3 DEF SweepStep, BeginEpisode, ResetRaises, Turn, TurnRaises, AgentRaises, EndEpisode,
       EndRollout, Unwind, AfterRaise, CloseSweep
  <2>3. \A p \in {"act", "raised", "close", "reset", "per_episode.csv"} :
            Goes(p).pc = p /\ Goes(p).number = sweep.number
    BY <1>1, GoesRecord DEF SweepPc, FileName
  <2>4. Idle(sweep.number).pc = "off" /\ Idle(sweep.number).number = sweep.number
    BY <1>1, IdleRecord
  <2> QED BY <2>1, <2>2, <2>3, <2>4, FilesStay
<1>4. CASE \E w \in Sweeps : \/ StartSweep("random", w, "absent")
                             \/ StartRollout(w)
                             \/ \E n : StartSweep("llm", w, Checkpoint(n))
  <2>1. out_dir' = out_dir /\ sweep.pc = "off"
    BY <1>4 DEF StartSweep, StartRollout
  <2>2. sweep'.number = sweep.number + 1 /\ sweep'.pc \in {"off", "close", "reset"}
    BY <1>4 DEF StartSweep, StartRollout, Idle
  <2> QED BY <2>1, <2>2, FilesStay DEF FileName
<1>5. CASE UNCHANGED <<vars, sweepVars>>
  BY <1>5, FilesStay DEF sweepVars
<1> QED BY <1>2, <1>3, <1>4, <1>5, StepSweeps

\* Whatever raises in a sweep and whichever of its files cannot be written: a file
\* is torn or of all its episodes, none is newer than the one before it, a report
\* comes with whole data, and files are written when the database is closed.
THEOREM SweepsAreAllOrNothing == PipelineSpec => []SweepIsAllOrNothing
<1>1. PipelineInit => FilesInv
  <2> SUFFICES ASSUME PipelineInit PROVE FilesInv
    OBVIOUS
  <2>1. sweep = Idle(0) /\ out_dir = [name \in FileName |-> NoFile]
    BY DEF PipelineInit, SweepInit
  <2> QED BY <2>1 DEF FilesInv, Idle, NoFile, File, FileName
<1>2. SweepInv /\ FilesInv /\ [PipelineNext]_pipelineVars => FilesInv'
  BY FilesStep
<1>3. SweepInv /\ FilesInv /\ ConnectionsAccounted => SweepIsAllOrNothing
  <2> SUFFICES ASSUME SweepInv, FilesInv, ConnectionsAccounted PROVE SweepIsAllOrNothing
    OBVIOUS
  <2>1. ReportIsWhole
    <3>1. \A name \in FileName : FileAfter[name] \in FileName =>
              out_dir[FileAfter[name]].sweep <= out_dir[name].sweep
      BY DEF FilesInv, FileAfter, FileName
    <3> QED BY <3>1 DEF ReportIsWhole, FilesInv
  <2>2. SweepReleases
    BY DEF SweepReleases, SweepInv, ConnectionsAccounted
  <2> QED BY <2>1, <2>2 DEF SweepIsAllOrNothing
<1> QED
  BY <1>1, <1>2, <1>3, SweepInvariant, PipelineIsEpisode, ConnectionsKept, PTL DEF PipelineSpec

-----------------------------------------------------------------------------
(* The chat agents' prompts *)

\* A sequence with two more elements.
LEMMA TwoMore ==
  ASSUME NEW S, NEW s \in Seq(S), NEW t \in Seq(S), Len(t) = 2
  PROVE  LET n == Len(s)
         IN  /\ s \o t \in Seq(S) /\ Len(s \o t) = n + 2 /\ DOMAIN (s \o t) = 1 .. n + 2
             /\ \A i \in 1 .. n : (s \o t)[i] = s[i]
             /\ (s \o t)[n + 1] = t[1] /\ (s \o t)[n + 2] = t[2]
<1> DEFINE all == s \o t
           n == Len(s)
<1>1. /\ all \in Seq(S) /\ Len(all) = n + 2
      /\ \A i \in 1 .. n + 2 : all[i] = IF i <= n THEN s[i] ELSE t[i - n]
  <2>1. /\ s \o t \in Seq(S)
        /\ Len(s \o t) = Len(s) + Len(t)
        /\ \A i \in 1 .. Len(s) + Len(t) :
               (s \o t)[i] = IF i <= Len(s) THEN s[i] ELSE t[i - Len(s)]
    BY ConcatProperties, Zenon
  <2> QED BY <2>1, Zenon
<1>2. n \in Nat
  BY LenProperties
<1> HIDE DEF all, n
<1>3. \A i \in 1 .. n : all[i] = s[i]
  BY <1>1, <1>2
<1>4. /\ n + 1 \in 1 .. n + 2 /\ ~(n + 1 <= n) /\ (n + 1) - n = 1
      /\ n + 2 \in 1 .. n + 2 /\ ~(n + 2 <= n) /\ (n + 2) - n = 2
  BY <1>2
<1>5. all[n + 1] = t[1] /\ all[n + 2] = t[2]
  BY <1>1, <1>4
<1>6. DOMAIN all = 1 .. n + 2
  BY <1>1, LenProperties
<1> QED BY <1>1, <1>3, <1>5, <1>6 DEF all, n

\* A turn is a user message and the action that answers it; what is trimmed are
\* whole turns, and what the context still says of the drift it said before.
LEMMA TurnKeepsWhole ==
  ASSUME NEW agent, NEW history \in Seq(Message), WholeTurns(history),
         NEW fired \in BOOLEAN, NEW parsed
  PROVE  LET after == AfterTurn(agent, history, fired, parsed)
         IN  /\ WholeTurns(after)
             /\ \A i \in DOMAIN after : after[i].says_drift =>
                    fired \/ \E j \in DOMAIN history : history[j].says_drift
<1> DEFINE u == MessageOf(agent, history, fired)
           r == Recorded(parsed)
           n == Len(history)
           turn == <<u, r>>
           all == history \o turn
           said == fired \/ \E j \in DOMAIN history : history[j].says_drift
<1>1. /\ u \in Message /\ u.role = "user" /\ u.parses = TRUE /\ (u.says_drift => fired)
      /\ r \in Message /\ r.role = "assistant" /\ r.parses = TRUE /\ r.says_drift = FALSE
  <2>1. u \in Message /\ r \in Message
    BY MessageTypes
  <2>2. r.role = "assistant" /\ r.parses = TRUE /\ r.says_drift = FALSE
    BY DEF Recorded
  <2>3. \E b : u = User(fired /\ b)
    BY DEF MessageOf, UserMessage, ApiUserMessage
  <2> QED BY <2>1, <2>2, <2>3 DEF User
<1>2. n \in Nat /\ n <= 2 * Turns /\ n % 2 = 0 /\ DOMAIN history = 1 .. n
  BY LenProperties DEF WholeTurns
<1>3. \A i \in 1 .. n : /\ history[i].role = (IF i % 2 = 1 THEN "user" ELSE "assistant")
                        /\ history[i].parses
                        /\ history[i].says_drift => said
  BY <1>2 DEF WholeTurns
<1> HIDE DEF u, r
<1>4. /\ turn \in Seq(Message) /\ Len(turn) = 2 /\ turn[1] = u /\ turn[2] = r
  BY <1>1
<1> HIDE DEF turn, said
<1>5. /\ all \in Seq(Message) /\ Len(all) = n + 2 /\ DOMAIN all = 1 .. n + 2
      /\ \A i \in 1 .. n : all[i] = history[i]
      /\ all[n + 1] = u /\ all[n + 2] = r
  BY <1>4, TwoMore
<1>6. u.says_drift => said
  BY <1>1 DEF said
<1> HIDE DEF all, n
<1>7. \A i \in 1 .. n + 2 : /\ all[i].role = (IF i % 2 = 1 THEN "user" ELSE "assistant")
                            /\ all[i].parses
                            /\ all[i].says_drift => said
  <2> TAKE i \in 1 .. n + 2
  <2>1. CASE i \in 1 .. n
    BY <1>3, <1>5, <2>1
  <2>2. CASE i = n + 1
    <3>1. i % 2 = 1
      BY <1>2, <2>2
    <3> QED BY <1>1, <1>5, <1>6, <2>2, <3>1
  <2>3. CASE i = n + 2
    <3>1. i % 2 = 0
      BY <1>2, <2>3
    <3> QED BY <1>1, <1>5, <2>3, <3>1
  <2> QED BY <1>2, <2>1, <2>2, <2>3
<1>8. SUFFICES /\ WholeTurns(Trimmed(all))
               /\ \A i \in DOMAIN Trimmed(all) : Trimmed(all)[i].says_drift => said
  BY DEF AfterTurn, all, turn, u, r, said
<1>9. Turns \in Nat \ {0}
  BY TurnsType
<1>10. CASE ~(n + 2 > 2 * Turns)
  <2>1. Trimmed(all) = all
    BY <1>5, <1>10 DEF Trimmed
  <2>2. (n + 2) % 2 = 0
    BY <1>2
  <2>3. Len(all) <= 2 * Turns
    BY <1>2, <1>5, <1>9, <1>10
  <2> QED BY <1>5, <1>7, <2>1, <2>2, <2>3 DEF WholeTurns
<1>11. CASE n + 2 > 2 * Turns
  <2> DEFINE d == n + 2 - 2 * Turns
             tail == SubSeq(all, d + 1, n + 2)
  <2>1. Trimmed(all) = tail
    <3>1. Len(all) - 2 * Turns + 1 = d + 1
      BY <1>2, <1>5, <1>9
    <3> QED BY <1>5, <1>11, <3>1 DEF Trimmed
  <2>2. d \in Nat /\ d % 2 = 0 /\ d + 1 \in 1 .. n + 2 /\ n + 2 - d = 2 * Turns
    BY <1>2, <1>9, <1>11
  <2> HIDE DEF d
  <2>3. Len(tail) = 2 * Turns /\ DOMAIN tail = 1 .. 2 * Turns
        /\ \A i \in 1 .. 2 * Turns : tail[i] = all[d + i]
    BY <1>2, <1>5, <1>9, <2>2
  <2> HIDE DEF tail
  <2>4. \A i \in 1 .. 2 * Turns : d + i \in 1 .. n + 2 /\ (d + i) % 2 = i % 2
    BY <1>2, <1>9, <2>2
  <2>5. (2 * Turns) % 2 = 0
    BY <1>9
  <2>6. \A i \in 1 .. 2 * Turns :
            /\ tail[i].role = (IF i % 2 = 1 THEN "user" ELSE "assistant")
            /\ tail[i].parses /\ (tail[i].says_drift => said)
    BY <1>7, <2>3, <2>4
  <2>7. Len(tail) <= 2 * Turns
    BY <1>9, <2>3
  <2> QED BY <2>1, <2>3, <2>5, <2>6, <2>7 DEF WholeTurns
<1> QED BY <1>2, <1>10, <1>11

\* When nothing the context holds says so, the next message does.
LEMMA NextMessageTells ==
  ASSUME NEW agent, NEW history \in Seq(Message), NEW fired \in BOOLEAN,
         NEW system, system.written => ~system.says_drift,
         \A i \in DOMAIN history : history[i].says_drift => fired
  PROVE  TellsDrift(agent, system, history, fired)
<1> DEFINE u == MessageOf(agent, history, fired)
           messages == Append(history, u)
<1>1. u \in Message /\ (u.says_drift => fired)
  <2>1. \E b : u = User(fired /\ b)
    BY DEF MessageOf, UserMessage, ApiUserMessage
  <2>2. u.says_drift => fired
    BY <2>1 DEF User
  <2>3. u \in Message
    BY MessageTypes
  <2> QED BY <2>2, <2>3
<1>2. fired => u.says_drift \/ \E i \in DOMAIN history : history[i].says_drift
  <2>1. CASE agent = "api"
    BY <2>1 DEF MessageOf, ApiUserMessage, HistoryMentionsDrift, User
  <2>2. CASE agent # "api"
    BY <2>2 DEF MessageOf, UserMessage, RecentUserSilent, User
  <2> QED BY <2>1, <2>2
<1> HIDE DEF u
<1>3. /\ DOMAIN messages = 1 .. Len(history) + 1 /\ DOMAIN history = 1 .. Len(history)
      /\ Len(history) \in Nat
      /\ \A i \in 1 .. Len(history) : messages[i] = history[i]
      /\ messages[Len(history) + 1] = u
  BY <1>1, LenProperties
<1> HIDE DEF messages
<1>4. (\E i \in DOMAIN messages : messages[i].says_drift) <=> fired
  BY <1>1, <1>2, <1>3
<1> QED BY <1>4 DEF TellsDrift, messages, u

\* The context of a chat agent is whole and says of the drift only what is true;
\* its system prompt was written before any drift.
PromptInv ==
    sweep.pc = "act" /\ sweep.agent # "random" =>
        /\ WholeTurns(mind.history)
        /\ \A i \in DOMAIN mind.history : mind.history[i].says_drift => drift_fired
        /\ mind.system.written => ~mind.system.says_drift
        /\ ~mind.system.written => ~drift_fired

LEMMA ChatTurn ==
  ASSUME TypeOK, SweepInv, PromptInv, Turn, sweep.agent # "random"
  PROVE  PromptInv'
<1>1. /\ live /\ mind \in Mind /\ sweep.pc = "act" /\ sweep' = sweep /\ Acts
  BY DEF SweepInv, Turn
<1>2. Step
  BY <1>1, ActsStep
<1>3. drift_fired => drift_fired'
  BY <1>2, DriftStays
<1>4. drift_fired \in BOOLEAN /\ mind.history \in Seq(Message)
  BY <1>1 DEF drift_fired, Mind
<1> DEFINE p == SystemPrompt(phase, budget_steps_remaining, drift_fired)
<1>5. PICK reply \in Replies :
        /\ mind'.history = AfterTurn(sweep.agent, mind.history, drift_fired, reply.parsed_ok)
        /\ mind'.system = PromptKept(mind.system, p)
  BY <1>1 DEF Acts, ChatActs, Mind
<1>6. p.written = TRUE /\ p.says_drift = drift_fired
  BY DEF SystemPrompt
<1> HIDE DEF p
<1>7. /\ WholeTurns(mind'.history)
      /\ \A i \in DOMAIN mind'.history : mind'.history[i].says_drift => drift_fired'
  <2>1. /\ WholeTurns(mind.history)
        /\ \A i \in DOMAIN mind.history : mind.history[i].says_drift => drift_fired
    BY <1>1 DEF PromptInv
  <2> DEFINE after == AfterTurn(sweep.agent, mind.history, drift_fired, reply.parsed_ok)
  <2>2. /\ WholeTurns(after)
        /\ \A i \in DOMAIN after : after[i].says_drift =>
               drift_fired \/ \E j \in DOMAIN mind.history : mind.history[j].says_drift
    BY <1>4, <2>1, TurnKeepsWhole
  <2>3. mind'.history = after
    BY <1>5
  <2> HIDE DEF after
  <2> QED BY <1>3, <2>1, <2>2, <2>3
<1>8. mind'.system.written /\ ~mind'.system.says_drift
  BY <1>1, <1>5, <1>6 DEF PromptInv, PromptKept
<1> QED BY <1>7, <1>8 DEF PromptInv

-----------------------------------------------------------------------------
(* The random agent *)

\* What the random agent can rely on in an answer.
LEMMA AnswersOf ==
  ASSUME TypeOK, NEW T \in SUBSET Table, NEW Q \in SUBSET Query, StepOn(T, Q),
         outcome'.code # "raised"
  PROVE  /\ outcome'.code = "unknown_table" => \E t \in T : t \notin cfg.scenario.tables[db']
         /\ outcome'.code = "submit_before_diagnose" =>
                outcome'.tool = "submit_rewrite" /\ diagnostic_actions_taken = 0
         /\ outcome'.tool = "list_tables" => diagnostic_actions_taken' > 0
         /\ diagnostic_actions_taken' \in {diagnostic_actions_taken, diagnostic_actions_taken + 1}
         /\ db' \in {db, "post"}
<1>1. live /\ cfg' = cfg /\ diagnostic_actions_taken \in Nat
  BY FewerIsStep, StepOpen DEF TypeOK
<1>2. db' \in {db, "post"}
  <2>1. ~\E tool \in ToolName : DriftRaises(tool)
    BY RaisedOutcome DEF DriftRaises
  <2>2. MaybeFireDrift
    BY <2>1 DEF StepOn, ListTables, DescribeTable, SampleRows, RunQuery, ExplainQuery, ReadChangelog,
       SubmitRewrite, ConsultDba, ValidatorRaises, Escalates, StepHead
  <2> QED BY <2>2 DEF MaybeFireDrift, FireDrift, DriftApplied, driftVars
<1>3. CASE ListTables
  <2>1. outcome'.tool = "list_tables" /\ outcome'.code = "ok" /\ MarkDiagnostic
    BY <1>3, DiagnosisOutcome DEF ListTables, DiagnosticOnce
  <2> QED BY <1>1, <1>2, <2>1 DEF MarkDiagnostic
<1>4. ASSUME NEW t \in T, DescribeTable(t) \/ SampleRows(t)
      PROVE  /\ outcome'.code = "unknown_table" => t \notin cfg.scenario.tables[db']
             /\ outcome'.code \in {"ok", "unknown_table"}
             /\ outcome'.tool \in {"describe_table", "sample_rows"}
             /\ diagnostic_actions_taken'
                    \in {diagnostic_actions_taken, diagnostic_actions_taken + 1}
  <2>1. CASE ~KnownTable(t)
    BY <1>4, <2>1, ErrorOutcome DEF DescribeTable, SampleRows, ToolError, KnownTable
  <2>2. CASE KnownTable(t)
    BY <1>4, <2>2, ReturnedOutcome DEF DescribeTable, SampleRows, MarkDiagnostic
  <2> QED BY <2>1, <2>2
<1>5. ASSUME NEW q \in Q, RunQuery(q) \/ ExplainQuery(q)
      PROVE  /\ outcome'.tool \in {"run_query", "explain_query"}
             /\ outcome'.code \notin {"unknown_table", "submit_before_diagnose"}
             /\ diagnostic_actions_taken'
                    \in {diagnostic_actions_taken, diagnostic_actions_taken + 1}
  <2> DEFINE codes == {"invalid_tool_argument", "query_timeout", "db_error",
                       "result_too_large"}
  <2>1. ASSUME NEW tool \in {"run_query", "explain_query"}, NEW code \in codes, NEW n,
               ToolError(tool, code, n)
        PROVE  /\ outcome'.tool = tool /\ outcome'.code = code
               /\ diagnostic_actions_taken' = diagnostic_actions_taken
    BY <2>1, ErrorOutcome DEF ToolError
  <2>2. ASSUME NEW tool \in {"run_query", "explain_query"}, NEW attr, NEW amount,
               DiagnosticOnce(tool, attr, amount)
        PROVE  outcome'.tool = tool /\ outcome'.code = "ok" /\ MarkDiagnostic
    BY <2>2, DiagnosisOutcome DEF DiagnosticOnce
  <2>3. PICK tool \in {"run_query", "explain_query"} :
           \/ \E code \in codes : \E n : ToolError(tool, code, n)
           \/ \E attr, amount : DiagnosticOnce(tool, attr, amount)
    BY <1>5, Zenon DEF RunQuery, ExplainQuery
  <2>4. CASE \E code \in codes : \E n : ToolError(tool, code, n)
    BY <2>1, <2>4
  <2>5. CASE \E attr, amount : DiagnosticOnce(tool, attr, amount)
    BY <2>2, <2>5 DEF MarkDiagnostic
  <2> QED BY <2>3, <2>4, <2>5
<1>6. CASE ReadChangelog
  <2>1. outcome'.tool = "read_changelog" /\ outcome'.code = "ok" /\ MarkDiagnostic
    BY <1>6, DiagnosisOutcome, ReturnedOutcome DEF ReadChangelog, Acknowledge, DiagnosticOnce
  <2> QED BY <1>2, <2>1 DEF MarkDiagnostic
<1>7. ASSUME NEW q \in Q, SubmitRewrite(q)
      PROVE  /\ outcome'.tool = "submit_rewrite" /\ outcome'.code # "unknown_table"
             /\ outcome'.code = "submit_before_diagnose" => diagnostic_actions_taken = 0
             /\ diagnostic_actions_taken' = diagnostic_actions_taken
  <2>1. CASE MayNotSubmit /\ ToolError("submit_rewrite", "submit_before_diagnose", 0)
    BY <2>1, ErrorOutcome DEF ToolError, MayNotSubmit
  <2>2. CASE \E code \in {"invalid_tool_argument", "query_timeout", "db_error"} :
                ToolError("submit_rewrite", code, 0)
    BY <2>2, ErrorOutcome DEF ToolError
  <2>3. CASE \E ratio \in Ratio : AcceptSubmission(q, ratio)
    BY <2>3 DEF AcceptSubmission
  <2> QED BY <1>7, <2>1, <2>2, <2>3 DEF SubmitRewrite
<1>8. CASE ConsultDba
  <2>1. CASE ToolError("consult_dba", "invalid_tool_argument", 0)
    BY <1>2, <2>1, ErrorOutcome DEF ToolError
  <2>2. CASE Returns("consult_dba", "ok", 0, 0) /\ UNCHANGED diagnostic_actions_taken
    BY <1>2, <2>2, ReturnedOutcome
  <2> QED BY <1>8, <2>1, <2>2 DEF ConsultDba
<1>9. ~\E tool : Raises(tool)
  BY RaisedOutcome
<1> QED
  BY <1>2, <1>3, <1>4, <1>5, <1>6, <1>7, <1>8, <1>9
  DEF StepOn, DriftRaises, ValidatorRaises, Escalates

\* What the random agent knows holds of the database on either side of the drift.
RandomInv ==
    sweep.pc = "act" /\ sweep.agent = "random" =>
        /\ mind.submits <= IF mind.submitted THEN 1 ELSE 0
        /\ mind.known_tables \subseteq cfg.scenario.tables[db]
        /\ db \in {"pre", "post"}
        /\ mind.known_tables # {} => diagnostic_actions_taken > 0
        /\ outcome.tool = "list_tables" => diagnostic_actions_taken > 0
        /\ outcome.code \notin {"unknown_table", "submit_before_diagnose"}

LEMMA RandomTurn ==
  ASSUME TypeOK, SweepInv, RandomInv, Turn, sweep.agent = "random"
  PROVE  RandomInv'
<1>1. /\ live /\ mind \in Mind /\ sweep.pc = "act" /\ sweep' = sweep /\ Acts
      /\ outcome'.code # "raised"
  BY DEF SweepInv, Turn
<1>2. /\ StepOn(Known, {StarQuery[t] : t \in Known})
      /\ Known = {} => outcome'.tool = "list_tables"
      /\ outcome'.tool = "submit_rewrite" => ~mind.submitted
      /\ mind' = [mind EXCEPT
                    !.known_tables = Known,
                    !.submitted = mind.submitted \/ outcome'.tool = "submit_rewrite",
                    !.submits = mind.submits + IF outcome'.tool = "submit_rewrite" THEN 1 ELSE 0]
  BY <1>1 DEF Acts, RandomActs, MaySubmit
<1>3. Known \in SUBSET Table /\ {StarQuery[t] : t \in Known} \in SUBSET Query
  BY <1>1, KnownTables, SweepAssumption
<1>4. cfg' = cfg
  BY <1>1, ActsStep, StepOpen
<1>5. /\ outcome'.code = "unknown_table" => \E t \in Known : t \notin cfg.scenario.tables[db']
      /\ outcome'.code = "submit_before_diagnose" =>
             outcome'.tool = "submit_rewrite" /\ diagnostic_actions_taken = 0
      /\ outcome'.tool = "list_tables" => diagnostic_actions_taken' > 0
      /\ diagnostic_actions_taken' \in {diagnostic_actions_taken, diagnostic_actions_taken + 1}
      /\ db' \in {db, "post"}
  BY <1>1, <1>2, <1>3, AnswersOf
<1>6. Known \subseteq cfg.scenario.tables[db] /\ db \in {"pre", "post"}
  BY <1>1 DEF RandomInv, Known
<1>7. Known \subseteq cfg.scenario.tables[db']
  <2>1. cfg.scenario \in Scenario
    BY <1>1 DEF live, TypeOK, Config
  <2>2. cfg.scenario.tables["pre"] \subseteq cfg.scenario.tables["post"]
    BY <2>1, ScenarioAssumption
  <2> QED BY <1>5, <1>6, <2>2
<1>8. Known # {} => diagnostic_actions_taken > 0
  BY <1>1 DEF RandomInv, Known
<1>9. diagnostic_actions_taken \in Nat
  BY DEF TypeOK
<1>10. mind'.submits <= IF mind'.submitted THEN 1 ELSE 0
  <2>1. CASE outcome'.tool = "submit_rewrite"
    <3>1. mind'.submitted = TRUE /\ mind'.submits = mind.submits + 1
      BY <1>1, <1>2, <2>1 DEF Mind
    <3>2. mind.submits <= 0
      BY <1>1, <1>2, <2>1 DEF RandomInv
    <3> QED BY <1>1, <3>1, <3>2 DEF Mind
  <2>2. CASE outcome'.tool # "submit_rewrite"
    <3>1. mind'.submitted = mind.submitted
      BY <1>1, <1>2, <2>2 DEF Mind
    <3>2. mind'.submits = mind.submits
      BY <1>1, <1>2, <2>2 DEF Mind
    <3> QED BY <1>1, <3>1, <3>2 DEF RandomInv
  <2> QED BY <2>1, <2>2
<1>11. mind'.known_tables = Known
  BY <1>1, <1>2 DEF Mind
<1>12. /\ Known # {} => diagnostic_actions_taken' > 0
       /\ outcome'.code \notin {"unknown_table", "submit_before_diagnose"}
  BY <1>2, <1>5, <1>7, <1>8, <1>9
<1> QED BY <1>4, <1>5, <1>6, <1>7, <1>10, <1>11, <1>12 DEF RandomInv

-----------------------------------------------------------------------------
(* Both *)

LEMMA FreshAgents ==
  ASSUME BeginEpisode, SweepInv
  PROVE  PromptInv' /\ RandomInv'
<1>1. /\ FreshRuntime /\ mind' = FreshMind /\ sweep' = Goes("act")
  BY DEF BeginEpisode, Reset
<1>2. /\ mind'.history = <<>> /\ mind'.system = NoPrompt /\ mind'.submits = 0
      /\ mind'.known_tables = {}
  BY <1>1 DEF FreshMind
<1>3. /\ ~drift_fired' /\ db' = "pre" /\ outcome'.tool = "reset" /\ outcome'.code = "ok"
  BY <1>1 DEF FreshRuntime, drift_fired, NoOutcome
<1>4. WholeTurns(<<>>)
  BY TurnsType DEF WholeTurns
<1>5. PromptInv'
  BY <1>2, <1>3, <1>4 DEF PromptInv, NoPrompt
<1>6. RandomInv'
  BY <1>2, <1>3 DEF RandomInv
<1> QED BY <1>5, <1>6

LEMMA AgentsStep ==
  ASSUME TypeOK, SweepInv, PromptInv, RandomInv, [PipelineNext]_pipelineVars
  PROVE  PromptInv' /\ RandomInv'
<1>1. CASE BeginEpisode
  BY <1>1, FreshAgents
<1>2. CASE Turn
  <2>1. sweep' = sweep
    BY <1>2 DEF Turn
  <2>2. CASE sweep.agent = "random"
    BY <1>2, <2>1, <2>2, RandomTurn DEF PromptInv
  <2>3. CASE sweep.agent # "random"
    BY <1>2, <2>1, <2>3, ChatTurn DEF RandomInv
  <2> QED BY <2>2, <2>3
<1>3. CASE UNCHANGED <<vars, sweepVars>>
  BY <1>3 DEF vars, sessionVars, driftVars, sweepVars, PromptInv, RandomInv, drift_fired
<1>4. CASE sweep'.pc # "act"
  BY <1>4 DEF PromptInv, RandomInv
<1>5. CASE \E w \in Sweeps : \/ StartSweep("random", w, "absent")
                             \/ StartRollout(w)
                             \/ \E n : StartSweep("llm", w, Checkpoint(n))
  <2>1. sweep'.pc # "act"
    BY <1>5 DEF StartSweep, StartRollout, Idle
  <2> QED BY <1>4, <2>1
<1>6. CASE SweepStep /\ ~(BeginEpisode \/ Turn)
  <2>1. \/ sweep' = Idle(sweep.number)
        \/ \E p \in {"raised", "close", "reset"} \cup FileName : sweep' = Goes(p)
    BY <1>6 DEF SweepStep, ResetRaises, TurnRaises, AgentRaises, EndEpisode, EndRollout, Unwind,
       AfterRaise, CloseSweep, Write, WriteFails, FileAfter, FileName
  <2>2. \A p \in {"raised", "close", "reset"} \cup FileName : Goes(p).pc = p
    BY GoesRecord DEF SweepInv, SweepPc
  <2>3. sweep'.pc # "act"
    BY <2>1, <2>2 DEF Idle, FileName
  <2> QED BY <1>4, <2>3
<1> QED BY <1>1, <1>2, <1>3, <1>5, <1>6, StepSweeps

\* Whatever the model answers, whatever is drawn and wherever the drift falls: the
\* random agent names tables that exist on either side of it, diagnoses first and
\* submits once; and a chat agent's context, trimmed to any number of turns, holds
\* whole turns and says that the drift has fired exactly when it has
\* (RandomAgent.act, _trim_history, _render_user_message).
THEOREM AgentsArePromising == PipelineSpec => []AgentsKeepPromises
<1>1. PipelineInit => PromptInv /\ RandomInv
  BY DEF PipelineInit, SweepInit, Idle, PromptInv, RandomInv
<1>2. TypeOK /\ SweepInv /\ PromptInv /\ RandomInv /\ [PipelineNext]_pipelineVars
        => (PromptInv /\ RandomInv)'
  BY AgentsStep
<1>3. SweepInv /\ PromptInv /\ RandomInv => AgentsKeepPromises
  <2> SUFFICES ASSUME SweepInv, PromptInv, RandomInv PROVE AgentsKeepPromises
    OBVIOUS
  <2>1. RandomAgentBehaves
    <3>1. mind.submits \in Nat
      BY DEF SweepInv, Mind
    <3> QED BY <3>1 DEF RandomInv, RandomAgentBehaves
  <2>2. PromptIsSound
    <3>1. mind.history \in Seq(Message) /\ drift_fired \in BOOLEAN
      BY DEF SweepInv, Mind, drift_fired
    <3> QED BY <3>1, NextMessageTells DEF PromptInv, PromptIsSound
  <2> QED BY <2>1, <2>2 DEF AgentsKeepPromises
<1> QED BY <1>1, <1>2, <1>3, SweepInvariant, PTL DEF PipelineSpec

-----------------------------------------------------------------------------
(* The rows *)

\* What was measured is a ratio, and the baseline is said to fail after the drift
\* only if it does.
MeasuredInv ==
    live => /\ submitted => submitted_speedup \in Ratio
            /\ baseline_postdrift_raises => cfg.scenario.baseline.rows["post"] = DbError

LEMMA MeasuredStep ==
  ASSUME TypeOK, MeasuredInv, [Next]_vars
  PROVE  MeasuredInv'
<1>1. CASE Step
  <2>1. /\ live /\ ~submitted /\ cfg' = cfg /\ DriftStep
        /\ Submits \/ UNCHANGED submitVars
    BY <1>1, StepShape
  <2>2. submitted' => submitted_speedup' \in Ratio
    BY <2>1 DEF Submits, AcceptSubmission, submitVars
  <2>3. baseline_postdrift_raises' => cfg.scenario.baseline.rows["post"] = DbError
    BY <2>1 DEF MeasuredInv, DriftStep, MaybeFireDrift, FireDrift, DriftApplied, driftVars
  <2> QED BY <2>1, <2>2, <2>3 DEF MeasuredInv
<1>2. CASE Close
  BY <1>2 DEF Close, MeasuredInv, live
<1>3. ASSUME NEW s \in Scenario, NEW n \in ScheduledSteps(s), NEW b \in Budget,
             NEW o \in BOOLEAN, Reset(s, b, n, o)
      PROVE  MeasuredInv'
  BY <1>3 DEF Reset, FreshRuntime, MeasuredInv
<1>4. CASE UNCHANGED vars
  BY <1>4 DEF vars, sessionVars, driftVars, submitVars, MeasuredInv, live
<1> QED BY <1>1, <1>2, <1>3, <1>4 DEF Next

\* A step that returned was counted.
LEMMA ReturnedIsCounted ==
  ASSUME Step, outcome'.code # "raised"
  PROVE  step_count' = step_count + 1
<1>1. /\ ~\E tool \in ToolName : DriftRaises(tool)
      /\ ~\E tool \in SqlTool, q \in Query : Escalates(tool, q)
  BY RaisedOutcome DEF DriftRaises, Escalates
<1> QED
  BY <1>1 DEF Step, StepOn, ListTables, DescribeTable, SampleRows, RunQuery, ExplainQuery,
     ReadChangelog, SubmitRewrite, ConsultDba, ValidatorRaises, StepHead, NextStep

\* The locals of the episode's loop tell what the environment has seen.
TallyInv ==
    sweep.pc = "act" =>
        /\ tally.steps = step_count
        /\ ~submitted => tally.terminal_reward < 500
        /\ submitted /\ WellAuthored(cfg.scenario) =>
               /\ tally.terminal_reward >= 500 => outcome.matches
               /\ outcome.matches /\ ~(tally.terminal_reward >= 500) =>
                      submitted_sql = cfg.scenario.baseline

LEMMA TallyTurn ==
  ASSUME TypeOK, TypeOK', RewardsAgree', SweepInv, TallyInv, Turn
  PROVE  TallyInv'
<1>1. /\ live /\ mind \in Mind /\ Acts /\ sweep.pc = "act" /\ sweep' = sweep
      /\ outcome'.code # "raised"
      /\ tally' = [steps |-> tally.steps + 1, terminal_reward |-> Total(outcome'.reward),
                   episode_return |-> tally.episode_return + Total(outcome'.reward)]
  BY DEF SweepInv, Turn
<1>2. Step
  BY <1>1, ActsStep
<1>3. live' /\ cfg' = cfg /\ ~submitted
  BY <1>2, StepOpen
<1>4. tally'.steps = step_count'
  BY <1>1, <1>2, ReturnedIsCounted DEF TallyInv
<1>5. tally'.terminal_reward = Total(outcome'.reward)
  BY <1>1
<1>6. CASE Observes
  <2>1. ~submitted'
    BY <1>3, <1>6 DEF Observes, submitVars
  <2>2. Total(outcome'.reward) <= 50 /\ Total(outcome'.reward) \in Int
    BY <1>6, ObservedReward, RewardTotals DEF TypeOK, OutcomeType
  <2> QED BY <1>4, <1>5, <2>1, <2>2 DEF TallyInv
<1>7. CASE Wins
  <2>1. submitted'
    BY <1>7 DEF Wins
  <2>2. WellAuthored(cfg.scenario) =>
            /\ Total(outcome'.reward) >= 500 => outcome'.matches
            /\ outcome'.matches /\ ~(Total(outcome'.reward) >= 500) =>
                   submitted_sql' = cfg.scenario.baseline
    BY <1>3, <1>7, WonReward
  <2> QED BY <1>3, <1>4, <1>5, <2>1, <2>2 DEF TallyInv
<1> QED BY <1>1, <1>2, <1>6, <1>7, StepReports, SubmissionWins DEF Dies

LEMMA TallyStep ==
  ASSUME TypeOK, TypeOK', RewardsAgree', SweepInv, TallyInv, [PipelineNext]_pipelineVars
  PROVE  TallyInv'
<1>1. CASE Turn
  BY <1>1, TallyTurn
<1>2. CASE BeginEpisode
  <2>1. FreshRuntime /\ tally' = FreshTally
    BY <1>2 DEF BeginEpisode, Reset, TallyAtStart
  <2> QED BY <2>1 DEF TallyInv, FreshRuntime, FreshTally
<1>3. CASE TurnRaises \/ ResetRaises \/ AgentRaises \/ EndEpisode \/ EndRollout
  <2>1. \E p \in {"raised", "close", "reset"} : sweep' = Goes(p)
    BY <1>3 DEF TurnRaises, ResetRaises, AgentRaises, EndEpisode, EndRollout
  <2>2. sweep'.pc # "act"
    BY <2>1, GoesRecord DEF SweepInv, SweepPc
  <2> QED BY <2>2 DEF TallyInv
<1>4. CASE Unwind \/ CloseSweep
  <2>1. sweep' = Idle(sweep.number) \/ sweep' = Goes("per_episode.csv")
    BY <1>4 DEF Unwind, AfterRaise, CloseSweep
  <2>2. sweep'.pc # "act"
    BY <2>1, GoesRecord, IdleRecord DEF SweepInv, SweepRecord, SweepPc, FileName
  <2> QED BY <2>2 DEF TallyInv
<1>5. CASE Write \/ WriteFails
  <2>1. sweep' = Idle(sweep.number) \/ \E p \in FileName : sweep' = Goes(p)
    BY <1>5 DEF Write, WriteFails, FileAfter, FileName
  <2>2. sweep'.pc # "act"
    BY <2>1, GoesRecord, IdleRecord DEF SweepInv, SweepRecord, SweepPc, FileName
  <2> QED BY <2>2 DEF TallyInv
<1>6. CASE \E w \in Sweeps : \/ StartSweep("random", w, "absent")
                             \/ StartRollout(w)
                             \/ \E n : StartSweep("llm", w, Checkpoint(n))
  <2>1. sweep'.pc # "act"
    BY <1>6, IdleRecord DEF StartSweep, StartRollout, SweepInv, SweepRecord
  <2> QED BY <2>1 DEF TallyInv
<1>7. CASE UNCHANGED <<vars, sweepVars>>
  BY <1>7 DEF vars, sessionVars, submitVars, sweepVars, TallyInv
<1> QED BY <1>1, <1>2, <1>3, <1>4, <1>5, <1>6, <1>7, StepSweeps DEF SweepStep

LEMMA RowEnds ==
  ASSUME TypeOK, SweepInv, MeasuredInv, TallyInv, EndEpisode
  PROVE  RowIsTrue'
<1>1. /\ sweep.pc = "act" /\ results' = Append(results, Row) /\ results \in Seq(ReportRow)
      /\ UNCHANGED vars
  BY DEF EndEpisode, SweepInv
<1>2. Row \in ReportRow /\ live /\ cfg.scenario = NextScenario
  BY <1>1, RowType DEF SweepInv
<1>3. UNCHANGED <<cfg, step_count, submitted, outcome, submitted_sql, live>>
  BY <1>1 DEF vars, sessionVars, submitVars, live
<1>4. /\ Row.scenario = cfg.scenario /\ Row.steps = step_count
      /\ Row.passed = (tally.terminal_reward >= 500) /\ Row.submitted = submitted
      /\ Row.drift_fired = drift_fired /\ Row.effective_speedup = MeasuredSpeedup
  BY <1>1, <1>2 DEF Row, Passes, TallyInv
<1>5. /\ MeasuredSpeedup # 0 <=> submitted
      /\ MeasuredSpeedup = INFTY =>
             drift_fired /\ cfg.scenario.baseline.rows["post"] = DbError
  <2>1. \A ratio \in Ratio : ratio # 0 /\ ratio # INFTY
    BY BoundAssumption DEF RatioPoint, INFTY
  <2>2. INFTY # 0
    BY DEF INFTY
  <2> QED BY <1>2, <2>1, <2>2 DEF MeasuredSpeedup, MeasuredInv
<1> DEFINE row == Row
<1> HIDE DEF row
<1>6. LastRow' = row
  <2>1. /\ results' = Append(results, row) /\ row \in ReportRow
        /\ results \in Seq(ReportRow)
    BY <1>1, <1>2 DEF row
  <2>2. Len(results') = Len(results) + 1 /\ results'[Len(results) + 1] = row
    BY <2>1, AppendProperties
  <2> QED BY <2>2 DEF LastRow
<1>7. ~submitted => ~(tally.terminal_reward >= 500)
  BY <1>1 DEF TallyInv, SweepInv, Tally
<1>8. WellAuthored(row.scenario) =>
          /\ row.scenario = cfg.scenario /\ row.steps = step_count
          /\ row.passed => submitted /\ outcome.matches
          /\ submitted /\ outcome.matches /\ ~row.passed =>
                 submitted_sql = cfg.scenario.baseline
          /\ row.effective_speedup # 0 <=> row.submitted
          /\ row.effective_speedup = INFTY =>
                 row.drift_fired /\ cfg.scenario.baseline.rows["post"] = DbError
  <2>1. WellAuthored(cfg.scenario) =>
            /\ tally.terminal_reward >= 500 => submitted /\ outcome.matches
            /\ submitted /\ outcome.matches /\ ~(tally.terminal_reward >= 500) =>
                   submitted_sql = cfg.scenario.baseline
    BY <1>1, <1>7 DEF TallyInv
  <2> QED BY <1>4, <1>5, <2>1 DEF row
<1> QED BY <1>3, <1>6, <1>8 DEF RowIsTrue, Measured

LEMMA RowStep ==
  ASSUME TypeOK, TypeOK', SweepInv, SweepInv', MeasuredInv, TallyInv, RowIsTrue,
         [PipelineNext]_pipelineVars
  PROVE  RowIsTrue'
<1>1. CASE EndEpisode
  BY <1>1, RowEnds
<1>2. CASE BeginEpisode \/ Turn \/ TurnRaises \/ ResetRaises \/ AgentRaises
  <2>1. (sweep' = sweep /\ sweep.pc = "act") \/ \E p \in {"raised", "act"} : sweep' = Goes(p)
    BY <1>2 DEF BeginEpisode, Turn, TurnRaises, ResetRaises, AgentRaises
  <2>2. sweep'.pc \notin {"reset", "close"}
    BY <2>1, GoesRecord DEF SweepInv, SweepPc
  <2> QED BY <2>2 DEF RowIsTrue, JustRecorded
<1>3. CASE EndRollout
  <2>1. results' = <<>>
    BY <1>3 DEF EndRollout, SweepInv
  <2> QED BY <2>1 DEF RowIsTrue, JustRecorded
<1>4. CASE Unwind \/ CloseSweep \/ Write \/ WriteFails
  <2>1. ~live'
    <3>1. CASE Unwind \/ CloseSweep
      BY <3>1 DEF Unwind, CloseSweep, RaisedCloses, ClosesEnv, Close, live, vars, sessionVars
    <3>2. CASE Write \/ WriteFails
      BY <3>2 DEF Write, WriteFails, SweepInv, live, vars, sessionVars
    <3> QED BY <1>4, <3>1, <3>2
  <2> QED BY <2>1 DEF RowIsTrue, JustRecorded
<1>5. CASE \E w \in Sweeps : \/ StartSweep("random", w, "absent")
                             \/ StartRollout(w)
                             \/ \E n : StartSweep("llm", w, Checkpoint(n))
  <2>1. results' = <<>>
    BY <1>5 DEF StartSweep, StartRollout, SweepInv
  <2> QED BY <2>1 DEF RowIsTrue, JustRecorded
<1>6. CASE UNCHANGED <<vars, sweepVars>>
  BY <1>6 DEF vars, sessionVars, submitVars, sweepVars, RowIsTrue, JustRecorded, LastRow, live
<1> QED BY <1>1, <1>2, <1>3, <1>4, <1>5, <1>6, StepSweeps DEF SweepStep

\* A row tells what happened in its episode and nothing of another one, for
\* every list of scenarios and seeds: the pass threshold on the last reward
\* tells the matching submissions apart, the speedup is there exactly for a
\* submission and infinite only where the baseline fails after the drift
\* (_run_one_episode, effective_speedup).
THEOREM RowsAreTrue == PipelineSpec => []RowIsTrue
<1>1. PipelineInit => MeasuredInv /\ TallyInv /\ RowIsTrue
  <2> SUFFICES ASSUME PipelineInit PROVE MeasuredInv /\ TallyInv /\ RowIsTrue
    OBVIOUS
  <2>1. ~live /\ results = <<>> /\ sweep.pc = "off"
    BY IdleRecord DEF PipelineInit, SweepInit, Init, live
  <2> QED BY <2>1 DEF MeasuredInv, TallyInv, RowIsTrue, JustRecorded
<1>2. TypeOK /\ MeasuredInv /\ [Next]_vars => MeasuredInv'
  BY MeasuredStep
<1>3. TypeOK /\ TypeOK' /\ RewardsAgree' /\ SweepInv /\ TallyInv /\ [PipelineNext]_pipelineVars
        => TallyInv'
  BY TallyStep
<1>4. TypeOK /\ TypeOK' /\ SweepInv /\ SweepInv' /\ MeasuredInv /\ TallyInv /\ RowIsTrue
      /\ [PipelineNext]_pipelineVars => RowIsTrue'
  BY RowStep
<1> QED
  BY <1>1, <1>2, <1>3, <1>4, PipelineIsEpisode, SweepInvariant, RewardsConsistent, PTL
  DEF PipelineSpec, Spec
-----------------------------------------------------------------------------
(* Sums over finite sets *)

\* Of the subsets that have a property one has no part that has it.
LEMMA LeastSubset ==
  ASSUME NEW S, IsFiniteSet(S), NEW Bad, Bad \subseteq SUBSET S, Bad # {}
  PROVE  \E T \in Bad : \A U \in SUBSET T : U # T => U \notin Bad
<1>1. IsWellFoundedOn(StrictSubsetOrdering(S), SUBSET S)
  BY FS_StrictSubsetOrderingWellFounded, FS_FiniteSubsetsOfFinite
<1>2. PICK T \in Bad : \A U \in Bad : ~(<<U, T>> \in StrictSubsetOrdering(S))
  BY <1>1, WFMin
<1>3. \A U \in SUBSET T : U # T => U \notin Bad
  BY <1>2 DEF StrictSubsetOrdering
<1> QED BY <1>3

\* sigma sums w over each subset, whatever element is taken first.
Sums(sigma, w, S) ==
    /\ sigma \in [SUBSET S -> Int]
    /\ sigma[{}] = 0
    /\ \A T \in SUBSET S : \A x \in T : sigma[T] = w[x] + sigma[T \ {x}]

LEMMA SumsExist ==
  ASSUME NEW S, IsFiniteSet(S), NEW w \in [S -> Int]
  PROVE  \E sigma : Sums(sigma, w, S)
<1> DEFINE Bad == {T \in SUBSET S : ~\E sigma : Sums(sigma, w, T)}
<1>1. SUFFICES ASSUME Bad # {} PROVE FALSE
  OBVIOUS
<1>2. PICK T \in Bad : \A U \in SUBSET T : U # T => U \notin Bad
  <2>1. Bad \subseteq SUBSET S
    OBVIOUS
  <2> HIDE DEF Bad
  <2> QED BY <1>1, <2>1, LeastSubset
<1>3. T # {}
  <2>1. Sums([U \in SUBSET {} |-> 0], w, {})
    BY DEF Sums
  <2> QED BY <1>2, <2>1
<1>4. PICK y \in T : TRUE
  BY <1>3
<1>5. PICK sigma : Sums(sigma, w, T \ {y})
  BY <1>2, <1>4
<1> DEFINE tau == [A \in SUBSET T |-> sigma[A \ {y}] + IF y \in A THEN w[y] ELSE 0]
<1>6. w[y] \in Int /\ \A x \in T : w[x] \in Int
  BY <1>2, <1>4
<1>7. \A A \in SUBSET T : sigma[A \ {y}] \in Int
  BY <1>5 DEF Sums
<1>8. tau \in [SUBSET T -> Int] /\ tau[{}] = 0
  <2>1. {} \ {y} = {} /\ y \notin {} /\ sigma[{}] = 0
    BY <1>5 DEF Sums
  <2>2. ASSUME NEW A \in SUBSET T
        PROVE  sigma[A \ {y}] + (IF y \in A THEN w[y] ELSE 0) \in Int
    <3>1. sigma[A \ {y}] \in Int
      BY <1>7
    <3>2. (IF y \in A THEN w[y] ELSE 0) \in Int
      BY <1>6
    <3> QED BY <3>1, <3>2
  <2>3. tau[{}] = sigma[{} \ {y}] + (IF y \in {} THEN w[y] ELSE 0)
    OBVIOUS
  <2>4. tau[{}] = 0
    <3> HIDE DEF tau
    <3> QED BY <2>1, <2>3
  <2> QED BY <2>2, <2>4
<1>9. ASSUME NEW A \in SUBSET T, NEW x \in A PROVE tau[A] = w[x] + tau[A \ {x}]
  <2>1. A \ {x} \in SUBSET T
    OBVIOUS
  <2>2. CASE x = y
    <3>1. (A \ {x}) \ {y} = A \ {y} /\ y \notin A \ {x} /\ y \in A
      BY <2>2
    <3>2. /\ tau[A] = sigma[A \ {y}] + (IF y \in A THEN w[y] ELSE 0)
          /\ tau[A \ {x}] = sigma[(A \ {x}) \ {y}] + (IF y \in A \ {x} THEN w[y] ELSE 0)
      BY <2>1
    <3> HIDE DEF tau
    <3>3. tau[A] = sigma[A \ {y}] + w[y] /\ tau[A \ {x}] = sigma[A \ {y}] + 0
      BY <3>1, <3>2
    <3>4. sigma[A \ {y}] \in Int
      BY <1>7
    <3> QED BY <1>6, <2>2, <3>3, <3>4
  <2>3. CASE x # y
    <3>1. (A \ {x}) \ {y} = (A \ {y}) \ {x} /\ (y \in A \ {x} <=> y \in A) /\ x \in A \ {y}
      BY <2>3
    <3>2. sigma[A \ {y}] = w[x] + sigma[(A \ {y}) \ {x}]
      BY <1>5, <3>1 DEF Sums
    <3>3. /\ tau[A] = sigma[A \ {y}] + (IF y \in A THEN w[y] ELSE 0)
          /\ tau[A \ {x}] = sigma[(A \ {y}) \ {x}] + (IF y \in A THEN w[y] ELSE 0)
      BY <2>1, <3>1
    <3>4. sigma[(A \ {y}) \ {x}] \in Int /\ w[x] \in Int
      BY <1>6, <1>7, <2>1, <3>1
    <3> HIDE DEF tau
    <3> QED BY <1>6, <3>2, <3>3, <3>4
  <2> QED BY <2>2, <2>3
<1>10. Sums(tau, w, T)
  <2> HIDE DEF tau
  <2> QED BY <1>8, <1>9 DEF Sums
<1> QED BY <1>2, <1>10

\* The library's sum is that sum.
LEMMA SumIs ==
  ASSUME NEW S, IsFiniteSet(S), NEW w \in [S -> Int], NEW sigma, Sums(sigma, w, S)
  PROVE  SumFunction(w) = sigma[S]
<1> DEFINE Folds(g) ==
               g = [T \in SUBSET S |->
                       IF T = {} THEN 0
                       ELSE LET x == CHOOSE x \in T : TRUE IN w[x] + g[T \ {x}]]
           iter == CHOOSE g : Folds(g)
<1>1. SumFunction(w) = iter[S]
  BY DEF SumFunction, SumFunctionOnSet, FoldFunctionOnSet, MapThenFoldSet
<1>2. Folds(sigma)
  <2> DEFINE first(T) == CHOOSE x \in T : TRUE
  <2>1. \A T \in SUBSET S : T # {} => first(T) \in T
    OBVIOUS
  <2> HIDE DEF first
  <2>2. \A T \in SUBSET S : sigma[T] = IF T = {} THEN 0 ELSE w[first(T)] + sigma[T \ {first(T)}]
    BY <2>1 DEF Sums
  <2>3. sigma = [T \in SUBSET S |-> IF T = {} THEN 0 ELSE w[first(T)] + sigma[T \ {first(T)}]]
    BY <2>2 DEF Sums
  <2> QED BY <2>3 DEF first
<1>3. Folds(iter)
  <2> HIDE DEF Folds
  <2> QED BY <1>2
<1> HIDE DEF iter
<1> DEFINE Bad == {T \in SUBSET S : iter[T] # sigma[T]}
<1>4. Bad = {}
  <2>1. SUFFICES ASSUME Bad # {} PROVE FALSE
    OBVIOUS
  <2>2. PICK T \in Bad : \A U \in SUBSET T : U # T => U \notin Bad
    <3>1. Bad \subseteq SUBSET S
      OBVIOUS
    <3> HIDE DEF Bad
    <3> QED BY <2>1, <3>1, LeastSubset
  <2> DEFINE x == CHOOSE x \in T : TRUE
  <2>3. /\ iter[T] = IF T = {} THEN 0 ELSE w[x] + iter[T \ {x}]
        /\ sigma[T] = IF T = {} THEN 0 ELSE w[x] + sigma[T \ {x}]
    BY <1>2, <1>3
  <2>4. T # {} => x \in T
    OBVIOUS
  <2> HIDE DEF x
  <2>5. T # {} => iter[T \ {x}] = sigma[T \ {x}]
    BY <2>2, <2>4
  <2> QED BY <2>2, <2>3, <2>5
<1> QED BY <1>1, <1>4

\* Sums of disjoint sets add up.
LEMMA SumsApart ==
  ASSUME NEW S, IsFiniteSet(S), NEW w \in [S -> Int], NEW sigma, Sums(sigma, w, S),
         NEW A \in SUBSET S, NEW B \in SUBSET S, A \cap B = {}
  PROVE  sigma[A \cup B] = sigma[A] + sigma[B]
<1> DEFINE Bad == {T \in SUBSET B : sigma[A \cup T] # sigma[A] + sigma[T]}
<1>1. SUFFICES ASSUME Bad # {} PROVE FALSE
  OBVIOUS
<1>2. IsFiniteSet(B)
  BY FS_Subset
<1>3. PICK T \in Bad : \A U \in SUBSET T : U # T => U \notin Bad
  <2>1. Bad \subseteq SUBSET B
    OBVIOUS
  <2> HIDE DEF Bad
  <2> QED BY <1>1, <1>2, <2>1, LeastSubset
<1>4. sigma[A] \in Int /\ \A U \in SUBSET S : sigma[U] \in Int
  BY DEF Sums
<1>5. T # {}
  <2>1. A \cup {} = A /\ sigma[{}] = 0
    BY DEF Sums
  <2>2. sigma[A] + 0 = sigma[A]
    BY <1>4
  <2>3. {} \notin Bad
    BY <2>1, <2>2
  <2> QED BY <1>3, <2>3
<1>6. PICK x \in T : TRUE
  BY <1>5
<1>7. sigma[A \cup (T \ {x})] = sigma[A] + sigma[T \ {x}]
  BY <1>3, <1>6
<1>8. (A \cup T) \ {x} = A \cup (T \ {x}) /\ A \cup T \in SUBSET S /\ T \in SUBSET S
  BY <1>6
<1>9. sigma[A \cup T] = w[x] + sigma[A \cup (T \ {x})] /\ sigma[T] = w[x] + sigma[T \ {x}]
  BY <1>6, <1>8 DEF Sums
<1>10. w[x] \in Int /\ sigma[T \ {x}] \in Int
  BY <1>4, <1>6, <1>8
<1>11. sigma[A \cup T] = sigma[A] + sigma[T]
  BY <1>4, <1>7, <1>9, <1>10
<1> QED BY <1>3, <1>11

\* A figure of the subsets of D that adds up over disjoint ones.
Additive(mu, D) ==
    /\ mu \in [SUBSET D -> Int] /\ mu[{}] = 0
    /\ \A A, B \in SUBSET D : A \cap B = {} => mu[A \cup B] = mu[A] + mu[B]

LEMMA SumsAddUp ==
  ASSUME NEW S, IsFiniteSet(S), NEW w \in [S -> Int], NEW sigma, Sums(sigma, w, S)
  PROVE  Additive(sigma, S)
<1>1. ASSUME NEW A \in SUBSET S, NEW B \in SUBSET S, A \cap B = {}
      PROVE  sigma[A \cup B] = sigma[A] + sigma[B]
  BY <1>1, SumsApart
<1> QED BY <1>1 DEF Additive, Sums

\* The keys, and the group of a key.
Keys(D, key) == {key[i] : i \in D}
Group(D, key, k) == {i \in D : key[i] = k}

\* It adds up over the groups of equal keys.
LEMMA PartsAddUp ==
  ASSUME NEW D, IsFiniteSet(D), NEW key, NEW mu, Additive(mu, D),
         NEW K, K = Keys(D, key), NEW w \in [K -> Int],
         \A k \in K : w[k] = mu[Group(D, key, k)]
  PROVE  SumFunction(w) = mu[D]
<1> USE DEF Keys, Group
<1> DEFINE part(k) == {i \in D : key[i] = k}
           whole(L) == {i \in D : key[i] \in L}
           sigma == [L \in SUBSET K |-> mu[whole(L)]]
<1>1. IsFiniteSet(K)
  <2> DEFINE f == [i \in D |-> key[i]]
  <2>1. f \in Surjection(D, K)
    BY DEF Surjection
  <2> QED BY <2>1, FS_Surjection
<1>2. Sums(sigma, w, K)
  <2>1. sigma \in [SUBSET K -> Int]
    BY DEF Additive
  <2>2. sigma[{}] = 0
    <3>1. whole({}) = {}
      OBVIOUS
    <3> QED BY <3>1 DEF Additive
  <2>3. ASSUME NEW L \in SUBSET K, NEW k \in L PROVE sigma[L] = w[k] + sigma[L \ {k}]
    <3>1. /\ part(k) \in SUBSET D /\ whole(L \ {k}) \in SUBSET D
          /\ part(k) \cap whole(L \ {k}) = {} /\ part(k) \cup whole(L \ {k}) = whole(L)
      OBVIOUS
    <3>2. mu[whole(L)] = mu[part(k)] + mu[whole(L \ {k})]
      <4> HIDE DEF part, whole
      <4> QED BY <3>1 DEF Additive
    <3>3. L \ {k} \in SUBSET K /\ k \in K /\ w[k] = mu[part(k)]
      OBVIOUS
    <3> HIDE DEF part, whole
    <3> QED BY <3>2, <3>3
  <2> HIDE DEF sigma
  <2> QED BY <2>1, <2>2, <2>3 DEF Sums
<1>3. sigma[K] = mu[D]
  <2>1. whole(K) = D
    OBVIOUS
  <2> QED BY <2>1
<1>4. SumFunction(w) = sigma[K]
  <2> HIDE DEF sigma
  <2> QED BY <1>1, <1>2, SumIs
<1> QED BY <1>3, <1>4

\* The sum over a part.
LEMMA SumOfPart ==
  ASSUME NEW S, IsFiniteSet(S), NEW w \in [S -> Int], NEW sigma, Sums(sigma, w, S),
         NEW T \in SUBSET S
  PROVE  SumFunction([i \in T |-> w[i]]) = sigma[T]
<1> DEFINE v == [i \in T |-> w[i]]
           tau == [U \in SUBSET T |-> sigma[U]]
<1>1. IsFiniteSet(T) /\ v \in [T -> Int]
  BY FS_Subset
<1>2. tau \in [SUBSET T -> Int] /\ tau[{}] = 0
  BY DEF Sums
<1>3. ASSUME NEW U \in SUBSET T, NEW x \in U PROVE tau[U] = v[x] + tau[U \ {x}]
  <2>1. U \in SUBSET S /\ U \ {x} \in SUBSET T /\ x \in T
    OBVIOUS
  <2> QED BY <2>1 DEF Sums
<1> HIDE DEF v, tau
<1>4. Sums(tau, v, T)
  BY <1>2, <1>3 DEF Sums
<1>5. SumFunction(v) = tau[T]
  BY <1>1, <1>4, SumIs
<1>6. tau[T] = sigma[T]
  BY DEF tau
<1> QED BY <1>5, <1>6 DEF v

\* So do counts.
Counts(D, H) == [T \in SUBSET D |-> Cardinality(T \cap H)]

LEMMA CountsAddUp ==
  ASSUME NEW D, IsFiniteSet(D), NEW H
  PROVE  Additive(Counts(D, H), D) /\ \A T \in SUBSET D : Cardinality(T \cap H) \in Nat
<1>1. ASSUME NEW T \in SUBSET D PROVE IsFiniteSet(T \cap H) /\ Cardinality(T \cap H) \in Nat
  <2>1. IsFiniteSet(T)
    BY FS_Subset
  <2>2. IsFiniteSet(T \cap H)
    BY <2>1, FS_Intersection
  <2> QED BY <2>2, FS_CardinalityType
<1>2. Counts(D, H) \in [SUBSET D -> Int]
  BY <1>1 DEF Counts
<1>3. Counts(D, H)[{}] = 0
  <2>1. {} \cap H = {} /\ {} \in SUBSET D
    OBVIOUS
  <2> QED BY <2>1, FS_EmptySet DEF Counts
<1>4. ASSUME NEW A \in SUBSET D, NEW B \in SUBSET D, A \cap B = {}
      PROVE  Counts(D, H)[A \cup B] = Counts(D, H)[A] + Counts(D, H)[B]
  <2>1. (A \cup B) \cap H = (A \cap H) \cup (B \cap H) /\ (A \cap H) \cap (B \cap H) = {}
    BY <1>4
  <2>2. /\ IsFiniteSet(A \cap H) /\ Cardinality(A \cap H) \in Nat
        /\ IsFiniteSet(B \cap H) /\ Cardinality(B \cap H) \in Nat
    BY <1>1
  <2> DEFINE a == A \cap H
             b == B \cap H
  <2>3. Cardinality(a \cup b) = Cardinality(a) + Cardinality(b)
    <3>1. IsFiniteSet(a) /\ IsFiniteSet(b) /\ Cardinality(a) \in Nat /\ Cardinality(b) \in Nat
      BY <2>2
    <3>2. a \cap b = {}
      BY <2>1
    <3> HIDE DEF a, b
    <3>3. Cardinality(a \cup b) = Cardinality(a) + Cardinality(b) - Cardinality(a \cap b)
      BY <3>1, FS_Union
    <3>4. Cardinality(a \cap b) = 0
      BY <3>2, FS_EmptySet
    <3> QED BY <3>1, <3>3, <3>4
  <2>4. A \cup B \in SUBSET D
    OBVIOUS
  <2>5. /\ Counts(D, H)[A \cup B] = Cardinality((A \cup B) \cap H)
        /\ Counts(D, H)[A] = Cardinality(a) /\ Counts(D, H)[B] = Cardinality(b)
    BY <2>4 DEF Counts
  <2>6. (A \cup B) \cap H = a \cup b
    BY <2>1
  <2> HIDE DEF a, b
  <2> QED BY <2>3, <2>5, <2>6
<1> QED BY <1>1, <1>2, <1>3, <1>4 DEF Additive

\* Values below m, where there are any, add up to less than m each.
LEMMA SumIsBelow ==
  ASSUME NEW D, IsFiniteSet(D), NEW H \in SUBSET D, NEW w \in [D -> Int],
         NEW m \in Int, \A i \in D : w[i] <= IF i \in H THEN m ELSE 0,
         NEW sigma, Sums(sigma, w, D)
  PROVE  sigma[D] <= Cardinality(D \cap H) * m
<1> DEFINE c(T) == Cardinality(T \cap H)
           Bad == {T \in SUBSET D : ~(sigma[T] <= c(T) * m)}
<1>1. SUFFICES ASSUME Bad # {} PROVE FALSE
  OBVIOUS
<1>2. PICK T \in Bad : \A U \in SUBSET T : U # T => U \notin Bad
  <2>1. Bad \subseteq SUBSET D
    OBVIOUS
  <2> HIDE DEF Bad
  <2> QED BY <1>1, <2>1, LeastSubset
<1>3. \A U \in SUBSET D : c(U) \in Nat /\ sigma[U] \in Int
  BY CountsAddUp DEF Sums
<1>4. c({}) = 0 /\ sigma[{}] = 0
  <2>1. {} \cap H = {}
    OBVIOUS
  <2> QED BY <2>1, FS_EmptySet DEF Sums
<1>5. T # {}
  <2>1. sigma[{}] <= c({}) * m
    <3> HIDE DEF c
    <3> QED BY <1>4
  <2> QED BY <1>2, <2>1
<1>6. PICK x \in T : TRUE
  BY <1>5
<1>7. T \in SUBSET D /\ T \ {x} \in SUBSET D /\ x \in D /\ w[x] \in Int
  BY <1>2, <1>6
<1>8. sigma[T] = w[x] + sigma[T \ {x}] /\ sigma[T \ {x}] <= c(T \ {x}) * m
  BY <1>2, <1>6, <1>7 DEF Sums
<1>9. c(T) = IF x \in H THEN c(T \ {x}) + 1 ELSE c(T \ {x})
  <2>1. IsFiniteSet((T \ {x}) \cap H)
    <3>1. (T \ {x}) \cap H \in SUBSET D
      BY <1>7
    <3> QED BY <3>1, FS_Subset
  <2>2. CASE x \in H
    <3>1. T \cap H = ((T \ {x}) \cap H) \cup {x} /\ x \notin (T \ {x}) \cap H
      BY <1>6, <2>2
    <3> QED BY <2>1, <2>2, <3>1, FS_AddElement
  <2>3. CASE x \notin H
    <3>1. T \cap H = (T \ {x}) \cap H
      BY <2>3
    <3> QED BY <2>3, <3>1
  <2> QED BY <2>2, <2>3
<1>10. sigma[T] <= c(T) * m
  <2>1. c(T \ {x}) \in Nat /\ sigma[T \ {x}] \in Int /\ w[x] <= IF x \in H THEN m ELSE 0
    BY <1>3, <1>7
  <2> DEFINE a == c(T \ {x})
  <2>2. (a + 1) * m = a * m + m /\ a * m \in Int
    BY <2>1
  <2> HIDE DEF c
  <2> QED BY <1>7, <1>8, <1>9, <2>1, <2>2
<1> QED BY <1>2, <1>10

-----------------------------------------------------------------------------
(* The summary *)

\* Of a row, whatever its scenario is: what passed was submitted, and what was
\* submitted has a speedup, no more than infinite.
Counted(row) ==
    /\ row.passed => row.submitted
    /\ row.effective_speedup # 0 <=> row.submitted
    /\ row.effective_speedup <= INFTY

CountedInv == \A i \in DOMAIN results : Counted(results[i])

LEMMA RowIsCounted ==
  ASSUME TypeOK, SweepInv, MeasuredInv, TallyInv, sweep.pc = "act"
  PROVE  Counted(Row)
<1>1. Row \in ReportRow /\ live
  BY RowType DEF SweepInv
<1>2. /\ Row.passed = (tally.terminal_reward >= 500) /\ Row.submitted = submitted
      /\ Row.effective_speedup = MeasuredSpeedup
  BY <1>1 DEF Row, Passes
<1>3. tally.terminal_reward >= 500 => submitted
  BY DEF TallyInv, SweepInv, Tally
<1>4. (MeasuredSpeedup # 0 <=> submitted) /\ MeasuredSpeedup <= INFTY
  <2>1. \A ratio \in Ratio : ratio # 0 /\ ratio <= INFTY
    BY BoundAssumption DEF RatioPoint, INFTY
  <2>2. INFTY # 0 /\ INFTY <= INFTY /\ 0 <= INFTY
    BY DEF INFTY
  <2> QED BY <1>1, <2>1, <2>2 DEF MeasuredSpeedup, MeasuredInv
<1> QED BY <1>2, <1>3, <1>4 DEF Counted

LEMMA CountedStep ==
  ASSUME TypeOK, SweepInv, MeasuredInv, TallyInv, CountedInv, [PipelineNext]_pipelineVars
  PROVE  CountedInv'
<1>1. CASE EndEpisode
  <2> DEFINE row == Row
  <2>1. results' = Append(results, row) /\ row \in ReportRow /\ results \in Seq(ReportRow)
    BY <1>1, RowType DEF EndEpisode, SweepInv
  <2>2. Counted(row)
    BY <1>1, RowIsCounted DEF EndEpisode
  <2> HIDE DEF row
  <2>3. ASSUME NEW i \in DOMAIN results' PROVE Counted(results'[i])
    <3>1. i \in 1 .. Len(results) + 1
      BY <2>1
    <3>2. CASE i = Len(results) + 1
      <4>1. results'[i] = row
        BY <2>1, <3>2
      <4> QED BY <2>2, <4>1
    <3>3. CASE i # Len(results) + 1
      <4>1. i \in DOMAIN results /\ results'[i] = results[i]
        BY <2>1, <3>1, <3>3
      <4> QED BY <4>1 DEF CountedInv
    <3> QED BY <3>2, <3>3
  <2> QED BY <2>3 DEF CountedInv
<1>2. CASE results' = results
  BY <1>2 DEF CountedInv
<1>3. CASE results' = <<>>
  BY <1>3 DEF CountedInv
<1>4. EndEpisode \/ results' = results \/ results' = <<>>
  BY StepSweeps
  DEF SweepStep, BeginEpisode, Turn, TurnRaises, ResetRaises, AgentRaises, EndRollout, Unwind,
      CloseSweep, Write, WriteFails, StartSweep, StartRollout, sweepVars
<1> QED BY <1>1, <1>2, <1>3, <1>4

\* The figures of the rows R, with the rows that have the property as a set.
LEMMA StatsAre ==
  ASSUME NEW R \in SUBSET DOMAIN results
  PROVE  LET D == DOMAIN results
             Infinite == {i \in D : results[i].effective_speedup = INFTY}
             Positive == {i \in D : results[i].effective_speedup # 0}
             st == Stats(R)
         IN  /\ st.n = Cardinality(R \cap D)
             /\ st.passes = Cardinality(R \cap {i \in D : results[i].passed})
             /\ st.submits = Cardinality(R \cap {i \in D : results[i].submitted})
             /\ st.terminal_sum = SumFunction([i \in R |-> results[i].terminal_reward])
             /\ st.speedup.finite_count = Cardinality(R \cap (Positive \ Infinite))
             /\ st.speedup.infinite_count =
                    Cardinality(R \cap Positive) - Cardinality(R \cap (Positive \ Infinite))
             /\ st.speedup.finite_sum =
                    SumFunction([i \in R |-> IF i \in Positive \ Infinite
                                             THEN results[i].effective_speedup ELSE 0])
<1> DEFINE D == DOMAIN results
           Infinite == {i \in D : results[i].effective_speedup = INFTY}
           Positive == {i \in D : results[i].effective_speedup # 0}
           st == Stats(R)
<1>1. R \cap D = R
  OBVIOUS
<1>2. /\ {i \in R : results[i].passed} = R \cap {i \in D : results[i].passed}
      /\ {i \in R : results[i].submitted} = R \cap {i \in D : results[i].submitted}
  OBVIOUS
<1>3. /\ {i \in R : Measured(results[i])} = R \cap Positive
      /\ {i \in R : Finite(results[i])} = R \cap (Positive \ Infinite)
  BY DEF Measured, Finite
<1>4. \A i \in R : Finite(results[i]) <=> i \in Positive \ Infinite
  BY DEF Measured, Finite
<1>5. [i \in R |-> IF Finite(results[i]) THEN results[i].effective_speedup ELSE 0] =
          [i \in R |-> IF i \in Positive \ Infinite THEN results[i].effective_speedup ELSE 0]
  <2> HIDE DEF Positive, Infinite
  <2> QED BY <1>4
<1>6. /\ st.n = Cardinality(R) /\ st.passes = Cardinality({i \in R : results[i].passed})
      /\ st.submits = Cardinality({i \in R : results[i].submitted})
      /\ st.terminal_sum = SumFunction([i \in R |-> results[i].terminal_reward])
      /\ st.speedup.finite_count = Cardinality({i \in R : Finite(results[i])})
      /\ st.speedup.infinite_count = Cardinality({i \in R : Measured(results[i])})
                                     - Cardinality({i \in R : Finite(results[i])})
      /\ st.speedup.finite_sum =
             SumFunction([i \in R |-> IF Finite(results[i])
                                      THEN results[i].effective_speedup ELSE 0])
  BY DEF Stats, SpeedupStats, CountOf, SumOver
<1> HIDE DEF Positive, Infinite, st
<1> QED BY <1>1, <1>2, <1>3, <1>5, <1>6 DEF Positive, Infinite, st

\* An additive figure of the rows adds up over the scenarios.
LEMMA ScenariosAddUp ==
  ASSUME SweepInv, NEW mu, Additive(mu, DOMAIN results)
  PROVE  SumFunction([s \in DOMAIN ByScenario |-> mu[RowsOf(s)]]) = mu[DOMAIN results]
<1> DEFINE D == DOMAIN results
           key == [i \in D |-> results[i].scenario]
           K == DOMAIN ByScenario
           w == [s \in K |-> mu[RowsOf(s)]]
<1>1. IsFiniteSet(D)
  <2>1. Len(results) \in Nat /\ D = 1 .. Len(results)
    BY DEF SweepInv
  <2> HIDE DEF D
  <2> QED BY <2>1, FS_Interval
<1>2. K = Keys(D, key)
  BY DEF ByScenario, Keys
<1>3. \A s : RowsOf(s) = Group(D, key, s) /\ RowsOf(s) \in SUBSET D
  BY DEF RowsOf, Group
<1>4. Additive(mu, D)
  OBVIOUS
<1>5. w \in [K -> Int] /\ \A s \in K : w[s] = mu[Group(D, key, s)]
  <2> HIDE DEF D, K, key
  <2>1. \A s \in K : mu[RowsOf(s)] \in Int
    BY <1>3, <1>4 DEF Additive
  <2> QED BY <1>3, <2>1
<1>6. SumFunction(w) = mu[D]
  <2> HIDE DEF D, key, K, w
  <2> QED BY <1>1, <1>2, <1>4, <1>5, PartsAddUp
<1> QED BY <1>6

\* The summary holds whatever rows there are.
LEMMA SummaryIsTrue ==
  ASSUME SweepInv, CountedInv
  PROVE  SummaryAddsUp
<1> DEFINE D == DOMAIN results
           Passed == {i \in D : results[i].passed}
           Given == {i \in D : results[i].submitted}
           Infinite == {i \in D : results[i].effective_speedup = INFTY}
           Positive == {i \in D : results[i].effective_speedup # 0}
           Bounded == Positive \ Infinite
           keys == DOMAIN ByScenario
           reward == [i \in D |-> results[i].terminal_reward]
           speedup == [i \in D |-> IF i \in Bounded THEN results[i].effective_speedup ELSE 0]
<1>1. IsFiniteSet(D) /\ \A i \in D : results[i] \in ReportRow /\ Counted(results[i])
  <2>1. Len(results) \in Nat /\ D = 1 .. Len(results)
    BY DEF SweepInv
  <2>2. IsFiniteSet(D)
    <3> HIDE DEF D
    <3> QED BY <2>1, FS_Interval
  <2>3. \A i \in D : results[i] \in ReportRow
    BY DEF SweepInv
  <2> QED BY <2>2, <2>3 DEF CountedInv
<1>2. /\ Passed \subseteq Given /\ Positive = Given /\ Bounded \subseteq Positive
      /\ Passed \in SUBSET D /\ Given \in SUBSET D /\ Bounded \in SUBSET D
  BY <1>1 DEF Counted
<1>3. reward \in [D -> Int] /\ speedup \in [D -> Int]
  <2>1. \A i \in D : results[i].terminal_reward \in Int /\ results[i].effective_speedup \in Int
    BY <1>1 DEF ReportRow
  <2> HIDE DEF D, Bounded
  <2> QED BY <2>1
<1>4. \A i \in D : speedup[i] <= IF i \in Bounded THEN INFTY - 1 ELSE 0
  <2>1. ASSUME NEW i \in Bounded PROVE results[i].effective_speedup <= INFTY - 1
    <3>1. i \in D /\ results[i].effective_speedup # INFTY
      BY <2>1
    <3>2. results[i].effective_speedup \in Nat /\ results[i].effective_speedup <= INFTY
      BY <1>1, <3>1 DEF ReportRow, Counted
    <3> QED BY <3>1, <3>2 DEF INFTY
  <2> HIDE DEF D, Bounded
  <2> QED BY <2>1
<1>5. PICK sigma : Sums(sigma, reward, D)
  <2> HIDE DEF D, reward
  <2> QED BY <1>1, <1>3, SumsExist
<1>6. PICK total : Sums(total, speedup, D)
  <2> HIDE DEF D, speedup
  <2> QED BY <1>1, <1>3, SumsExist
<1> DEFINE c(T, H) == Cardinality(T \cap H)
<1>7. /\ \A s : RowsOf(s) \in SUBSET D
      /\ \A s \in keys : ByScenario[s] = Stats(RowsOf(s))
      /\ D \in SUBSET D /\ Overall = Stats(D)
  BY DEF RowsOf, ByScenario, Overall
<1>8. \A R \in SUBSET D :
          /\ Stats(R).n = c(R, D) /\ Stats(R).passes = c(R, Passed)
          /\ Stats(R).submits = c(R, Given)
          /\ Stats(R).terminal_sum = SumFunction([i \in R |-> results[i].terminal_reward])
          /\ Stats(R).speedup.finite_count = c(R, Bounded)
          /\ Stats(R).speedup.infinite_count = c(R, Positive) - c(R, Bounded)
  BY StatsAre
<1>9. /\ \A R \in SUBSET D : Stats(R).terminal_sum = sigma[R]
      /\ Stats(D).speedup.finite_sum = total[D]
  <2>1. ASSUME NEW R \in SUBSET D PROVE Stats(R).terminal_sum = sigma[R]
    <3>1. [i \in R |-> results[i].terminal_reward] = [i \in R |-> reward[i]]
      OBVIOUS
    <3>2. SumFunction([i \in R |-> reward[i]]) = sigma[R]
      <4> HIDE DEF D, reward
      <4> QED BY <1>1, <1>3, <1>5, SumOfPart
    <3> QED BY <1>8, <3>1, <3>2
  <2>2. Stats(D).speedup.finite_sum = SumFunction(speedup)
    BY StatsAre
  <2>3. SumFunction(speedup) = total[D]
    <3> HIDE DEF D, speedup
    <3> QED BY <1>1, <1>3, <1>6, SumIs
  <2> QED BY <2>1, <2>2, <2>3
<1> DEFINE misses == [T \in SUBSET D |-> c(T, Positive) - c(T, Bounded)]
<1>10. Additive(misses, D)
  <2> DEFINE p == Counts(D, Positive)
             b == Counts(D, Bounded)
  <2>1. misses = [T \in SUBSET D |-> p[T] - b[T]]
    BY DEF Counts
  <2>2. Additive(p, D)
    <3> HIDE DEF D, Positive
    <3> QED BY <1>1, CountsAddUp
  <2>3. Additive(b, D)
    <3> HIDE DEF D, Bounded
    <3> QED BY <1>1, CountsAddUp
  <2>4. {} \in SUBSET D /\ \A A, B \in SUBSET D : A \cup B \in SUBSET D
    OBVIOUS
  <2>5. \A T \in SUBSET D : p[T] \in Int /\ b[T] \in Int /\ misses[T] = p[T] - b[T]
    <3> HIDE DEF D, p, b, misses
    <3> QED BY <2>1, <2>2, <2>3 DEF Additive
  <2>6. misses \in [SUBSET D -> Int] /\ misses[{}] = 0
    <3> HIDE DEF D, p, b, misses
    <3> QED BY <2>1, <2>2, <2>3, <2>4, <2>5 DEF Additive
  <2>7. ASSUME NEW A \in SUBSET D, NEW B \in SUBSET D, A \cap B = {}
        PROVE  misses[A \cup B] = misses[A] + misses[B]
    <3>1. /\ p[A \cup B] = p[A] + p[B] /\ b[A \cup B] = b[A] + b[B]
          /\ A \cup B \in SUBSET D
      <4> HIDE DEF D, p, b
      <4> QED BY <2>2, <2>3, <2>4, <2>7 DEF Additive
    <3> HIDE DEF D, p, b, misses
    <3> QED BY <2>5, <3>1
  <2> QED BY <2>6, <2>7 DEF Additive
<1>11. SumFunction([s \in keys |-> Stats(RowsOf(s)).n]) = Stats(D).n
  <2> DEFINE mu == Counts(D, D)
  <2>1. \A R \in SUBSET D : Stats(R).n = mu[R]
    BY <1>8 DEF Counts
  <2>2. Additive(mu, D)
    <3> HIDE DEF D
    <3> QED BY <1>1, CountsAddUp
  <2>3. SumFunction([s \in DOMAIN ByScenario |-> mu[RowsOf(s)]]) = mu[D]
    <3> HIDE DEF mu
    <3> QED BY <2>2, ScenariosAddUp
  <2>4. [s \in keys |-> Stats(RowsOf(s)).n] = [s \in DOMAIN ByScenario |-> mu[RowsOf(s)]]
    <3> HIDE DEF mu, D
    <3> QED BY <1>7, <2>1
  <2> HIDE DEF mu, D, keys
  <2> QED BY <1>7, <2>1, <2>3, <2>4
<1>12. SumFunction([s \in keys |-> Stats(RowsOf(s)).passes]) = Stats(D).passes
  <2> DEFINE mu == Counts(D, Passed)
  <2>1. \A R \in SUBSET D : Stats(R).passes = mu[R]
    BY <1>8 DEF Counts
  <2>2. Additive(mu, D)
    <3> HIDE DEF D, Passed
    <3> QED BY <1>1, CountsAddUp
  <2>3. SumFunction([s \in DOMAIN ByScenario |-> mu[RowsOf(s)]]) = mu[D]
    <3> HIDE DEF mu
    <3> QED BY <2>2, ScenariosAddUp
  <2>4. [s \in keys |-> Stats(RowsOf(s)).passes] = [s \in DOMAIN ByScenario |-> mu[RowsOf(s)]]
    <3> HIDE DEF mu, D
    <3> QED BY <1>7, <2>1
  <2> HIDE DEF mu, D, keys
  <2> QED BY <1>7, <2>1, <2>3, <2>4
<1>13. SumFunction([s \in keys |-> Stats(RowsOf(s)).terminal_sum]) = Stats(D).terminal_sum
  <2>1. Additive(sigma, D)
    <3> HIDE DEF D, reward
    <3> QED BY <1>1, <1>3, <1>5, SumsAddUp
  <2>2. SumFunction([s \in DOMAIN ByScenario |-> sigma[RowsOf(s)]]) = sigma[D]
    BY <2>1, ScenariosAddUp
  <2>3. [s \in keys |-> Stats(RowsOf(s)).terminal_sum] =
            [s \in DOMAIN ByScenario |-> sigma[RowsOf(s)]]
    <3> HIDE DEF D
    <3> QED BY <1>7, <1>9
  <2> HIDE DEF D, keys
  <2> QED BY <1>7, <1>9, <2>2, <2>3
<1>14. SumFunction([s \in keys |-> Stats(RowsOf(s)).speedup.infinite_count]) =
           Stats(D).speedup.infinite_count
  <2>1. \A R \in SUBSET D : Stats(R).speedup.infinite_count = misses[R]
    BY <1>8
  <2>2. SumFunction([s \in DOMAIN ByScenario |-> misses[RowsOf(s)]]) = misses[D]
    <3> HIDE DEF misses
    <3> QED BY <1>10, ScenariosAddUp
  <2>3. [s \in keys |-> Stats(RowsOf(s)).speedup.infinite_count] =
            [s \in DOMAIN ByScenario |-> misses[RowsOf(s)]]
    <3> HIDE DEF misses, D
    <3> QED BY <1>7, <2>1
  <2> HIDE DEF misses, D, keys
  <2> QED BY <1>7, <2>1, <2>2, <2>3
<1>15. c(D, Passed) <= c(D, Given) /\ c(D, Given) \in Nat /\ c(D, Bounded) \in Nat
  <2>1. /\ D \cap Passed \subseteq D \cap Given
        /\ D \cap Given \in SUBSET D /\ D \cap Bounded \in SUBSET D
    BY <1>2
  <2>2. IsFiniteSet(D \cap Given) /\ IsFiniteSet(D \cap Bounded)
    <3> HIDE DEF D, Given, Bounded
    <3> QED BY <1>1, <2>1, FS_Subset
  <2>3. Cardinality(D \cap Passed) <= Cardinality(D \cap Given)
    <3> HIDE DEF D, Passed, Given
    <3> QED BY <2>1, <2>2, FS_Subset
  <2> HIDE DEF D, Passed, Given, Bounded
  <2> QED BY <2>2, <2>3, FS_CardinalityType
<1>16. c(D, Bounded) > 0 => total[D] < c(D, Bounded) * INFTY
  <2>1. total[D] <= c(D, Bounded) * (INFTY - 1) /\ total[D] \in Int
    <3>1. total[D] \in Int
      BY <1>6 DEF Sums
    <3>2. INFTY - 1 \in Int
      BY DEF INFTY
    <3> HIDE DEF D, Bounded, speedup
    <3> QED BY <1>1, <1>2, <1>3, <1>4, <1>6, <3>1, <3>2, SumIsBelow
  <2> HIDE DEF D, Bounded, c
  <2> QED BY <1>15, <2>1 DEF INFTY
<1>17. /\ [s \in keys |-> ByScenario[s].n] = [s \in keys |-> Stats(RowsOf(s)).n]
       /\ [s \in keys |-> ByScenario[s].passes] = [s \in keys |-> Stats(RowsOf(s)).passes]
       /\ [s \in keys |-> ByScenario[s].terminal_sum] =
              [s \in keys |-> Stats(RowsOf(s)).terminal_sum]
       /\ [s \in keys |-> ByScenario[s].speedup.infinite_count] =
              [s \in keys |-> Stats(RowsOf(s)).speedup.infinite_count]
  <2> HIDE DEF keys, D
  <2> QED BY <1>7
<1>18. /\ Stats(D).passes = c(D, Passed) /\ Stats(D).submits = c(D, Given)
       /\ Stats(D).speedup.finite_count = c(D, Bounded)
       /\ Stats(D).speedup.infinite_count = c(D, Given) - c(D, Bounded)
  BY <1>2, <1>8
<1>19. /\ Stats(D).passes <= Stats(D).submits
       /\ Stats(D).speedup.finite_count + Stats(D).speedup.infinite_count = Stats(D).submits
       /\ Stats(D).speedup.finite_count > 0 =>
              Stats(D).speedup.finite_sum < Stats(D).speedup.finite_count * INFTY
  <2> HIDE DEF D, c, Passed, Given, Bounded
  <2> QED BY <1>9, <1>15, <1>16, <1>18
<1>20. Overall = Stats(D)
  BY <1>7
<1> HIDE DEF D
<1> QED BY <1>11, <1>12, <1>13, <1>14, <1>17, <1>19, <1>20 DEF SummaryAddsUp

\* A report is the episodes and nothing else: its rows tell what happened, its
\* overall figures are those of the scenarios added up, each submission has one
\* speedup, and the mean it gives is a finite number, for every list of
\* scenarios and seeds (_run_one_episode, _build_summary, _speedup_stats).
THEOREM ReportsAreTrue == PipelineSpec => []ReportIsTrue
<1>1. PipelineInit => MeasuredInv /\ TallyInv /\ CountedInv
  <2> SUFFICES ASSUME PipelineInit PROVE MeasuredInv /\ TallyInv /\ CountedInv
    OBVIOUS
  <2>1. ~live /\ results = <<>> /\ sweep.pc = "off"
    BY IdleRecord DEF PipelineInit, SweepInit, Init, live
  <2> QED BY <2>1 DEF MeasuredInv, TallyInv, CountedInv
<1>2. TypeOK /\ MeasuredInv /\ [Next]_vars => MeasuredInv'
  BY MeasuredStep
<1>3. TypeOK /\ TypeOK' /\ RewardsAgree' /\ SweepInv /\ TallyInv /\ [PipelineNext]_pipelineVars
        => TallyInv'
  BY TallyStep
<1>4. TypeOK /\ SweepInv /\ MeasuredInv /\ TallyInv /\ CountedInv /\ [PipelineNext]_pipelineVars
        => CountedInv'
  BY CountedStep
<1>5. SweepInv /\ CountedInv /\ RowIsTrue => ReportIsTrue
  BY SummaryIsTrue DEF ReportIsTrue
<1> QED
  BY <1>1, <1>2, <1>3, <1>4, <1>5, RowsAreTrue, PipelineIsEpisode, SweepInvariant,
     RewardsConsistent, PTL DEF PipelineSpec, Spec
=============================================================================
