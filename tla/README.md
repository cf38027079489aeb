# Verification of SQLDrift

SQLDrift is an episodic environment: an agent repairs and speeds up a SQL query
with eight tools while the schema of an in-memory DuckDB changes under it, once,
at a moment that depends on what the agent does. Around it the repository has
ten scenarios, a server, a store of learned rewrites, agents, an evaluation and
two ways of training. This directory holds TLA+ models of the program in
`src/`, the TLC configurations that check small instances of them, and proofs
about them for TLAPS. `PROJECT.json` maps every definition to the lines it
stands for.

- [Components](#components): the inventory
- [Modules](#modules): how state and actions correspond to the code
- [Runs](#runs): what is checked, on which instance, and why that is enough
- [Proofs](#proofs): what is proved, from what, and how
- [Where the code and its comments part](#where-the-code-and-its-comments-part)
- [Not modelled](#not-modelled) and [Plan](#plan)

## Components

| component | source | state it keeps | operations |
|---|---|---|---|
| Episode environment | `server/sql_drift_env_environment.py`, `engine/runtime.py` | the runtime of one episode: step count, phase, schema version, drift, submission, once-only rebates, error counts | `reset`, `step` (eight tools), `close`; read-only `state`, `render` |
| Reward rubric | `engine/reward.py` | none between steps | six partial scores and their sum, for every step |
| Drift engine | `engine/drift.py` | the tables of the episode's database | four drift operations, each a probe and several auto-commit statements |
| Scenarios | `scenarios/` | none | build tables, queries, ground truths and marker sets from a seed |
| Actors | `actors/` | none | changelog entry, DBA hint of a tier |
| Query watchdog | `engine/profiler.py`, `scenarios/base.py` | worker threads, the connections they use, a process-wide leak counter | run a statement with a deadline, interrupt, grace, escalate; materialize an episode |
| Result verifier | `engine/verifier.py`, `engine/profiler.py` | four accumulators | normalize, hash and compare results; capped fetch |
| Skill store | `skill_library/store.py` | two JSON files, a lock file, a tmp file, an mtime cache per object | append, read, remove session directories |
| Skill entries, retrieval, seeds | `skill_library/` (rest) | none | eight seed entries, four cards, top-k by Jaccard similarity |
| Server | `server/app.py`, `server/settings.py` | one environment and one store directory per session | start-up sweep, session start and end, capacity |
| Wire models, client | `models.py`, `client.py` | none | validate a call, carry a result, parse it |
| Training tool environment | `training/tool_env.py` | reward, return, components and end flags of a rollout | one method per tool, reset, close |
| Agents | `training/random_agent.py`, `llm_agent.py`, `prompt.py` | what the random agent has seen; the chat history | choose the next action |
| Evaluation, verbose rollout | `training/eval.py`, `utilities/verbose_api_rollout.py` | the rows of a sweep, three files | run an episode, run the sweep, summarize, write |
| Training | `training/grpo_train.py`, `training/config.py` | the output directory of its runs: manifest, log, checkpoints, model | validate a manifest, draw a curriculum, train, flush, save |
| Training-job runner | `utilities/run_training_job.py` | none but its poll loop | submit, poll, stream, inspect; the container's script |
| Notebook, plots | `sql_drift_grpo_training.ipynb`, `utilities/plot_curves.py` | the kernel's variables, adapter and evidence files | seven code cells, metrics and curves |
| Logging, demo | `utilities/logger.py`, `env_loader.py`, `demo_rollout.py` | none | |

How they interact. A WebSocket session owns one environment and one store
directory. `reset` asks the scenario registry to materialize an episode: it
opens a DuckDB connection, builds the tables, hashes the ground truth and times
the baseline through the watchdog. `step` first counts the step, then applies
a drift that is due (drift engine, changelog, baseline probe, new ground
truth), then calls the tool's handler, whose SQL goes through the validator
and the watchdog, then asks the rubric for the reward and, after a winning
submission, appends to the skill store; hints for the observation come from the
store and the seeds. Stores in several processes meet in the file system only.
Sessions of one process run in threads of their own and share the watchdog's
leak counter. The tool environment drives `reset` and `step` through the client
or in its own process and keeps its own picture of the episode, from which the
trainer takes its reward. The evaluation drives them directly, with an agent it
built or loaded from the directory a training has left.

What is hard, and what correctness means:

- *Episode.* Steps of one agent are sequential, so the hazards are orders of
  calls: the drift fires inside a step, before the handler, possibly in the
  step of the submission or the last step of the budget; steps raise after
  they were counted; two places pick the ground truth independently. The drift
  must come exactly when the cooldown and the schedule say, a submission be
  judged on the schema its SQL ran on, verdict and reward agree, rebates be paid
  once, phase and flags tell the history, and the episode end.
- *Drift engine and scenarios.* An operation is not a transaction and is
  retried; queries, ground truths, marker sets and prose are authored apart. A
  call that returns must have migrated every row, and what the agent is told,
  asked and paid for must fit the tables it then finds.
- *Watchdog.* The worker may end between any two of the caller's steps, or
  never. A connection has one worker at a time, is not closed under one, every
  statement returns, every leaked worker is counted.
- *Verifier.* Order and chunks must not matter, multiplicity must; the row cap
  must not be off by one.
- *Skill store and server.* Several processes, crashes, full disks, a lock with
  a deadline, a cache keyed by mtime, a sweep by age next to live sessions. The
  store is an append-only log, reads return what was acknowledged before them,
  directories follow sessions, hints fit the episode.
- *Tool environment.* A step that raises returns no observation, so the
  wrapper's picture goes stale; the reward drawn from it must still tell a
  winner from a loser.
- *Evaluation and training.* Sweeps mix locals with the environment's state and
  end at the first exception; a job is a script of installs watched from
  elsewhere; trainings follow one another in one directory, may die anywhere in it
  and leave checkpoints, a model and a log that mix with those of the next one.
  What is reported, saved, evaluated and published must be what happened.

`PROJECT.json` lists the hazards one by one, each at its line, with the
properties that watch it.

## Modules

| module | what it is |
|---|---|
| `Rubric` | the reward arithmetic as operators, in thousandths |
| `Episode` | the environment: one action is one whole `reset`, `step` or `close` |
| `EpisodeContract` | what an episode promises its driver, without tools, SQL or rewards |
| `Drift` | the drift operations, one action per statement |
| `Scenarios` | on `Drift`: fixtures and queries of the ten scenarios, markers |
| `Guidance` | on `Scenarios`: synopsis, changelog entries, DBA hints |
| `Watchdog` | sessions, workers and connections, one action per thread step |
| `Results` | row hashing and the capped fetch, one action per chunk or row |
| `SkillStore` | appends and cached reads, one action per system call |
| `AppendLog` | the log that a store implements |
| `Library` | seeds, entries and retrieval as operators |
| `Service` | on `Library`: server processes, sessions, store directories, hints |
| `Wire` | calls that validate, results, what the client parses |
| `Rollout` | on `Episode`: the training tool environment and the trainer's reward |
| `ChatAgent` | on `Wire`: prompts, history and completions of the chat agents |
| `Evaluation` | on `Episode` and `ChatAgent`: the sweep, the random agent, the files |
| `Curriculum` | a training manifest, its validation, what it draws |
| `Training` | on `Curriculum`: the runs of train(), the job's script, the runner |
| `Notebook` | the cells of the notebook |
| `Evidence` | `Training`, `Notebook` and `plot_curves.py` over the files they share |
| `Pipeline` | `Training` and `Evaluation` over the directory of a training |
| `MC*` | the instances TLC checks, and the claims that do not hold |
| `*Proofs` | theorems |

**Episode.** `step()` does not yield, so a step is one action: `StepHead`
(guard, step counter, drift), the handler, and `Returns` or
`AcceptSubmission` (error streak, rubric, observation, skill store). A handler
runs after the drift of its step and therefore reads `db'`,
`gt_result_hash_postdrift'` and `PhaseAfterDrift`. The runtime's fields keep
their names; its five once-only booleans are the set `rewarded_once`, the
`last_step_*` fields are arguments, because they live within a step. A SQL
text is a record: what the validator says of it, what it returns on each
schema version, whether it is too large, which drift markers it touches. A
result is its hash. The code's exceptional exits are actions of their own:
`DriftRaises`, `ValidatorRaises` (sqlglot cannot tokenize), `Escalates` (the
watchdog gives up, the connection is poisoned and the budget used up). Timing is
`Ratio`, any of a set of measured baseline/agent ratios. The code picks
the hash of the ground truth in two places, the handler and the rubric's
`_gt_hash`: `AcceptSubmission` takes the verdict from the one (`GtHash`),
Correctness and Speedup from the other (`RubricGtHash`), and DriftAdapt compares
with the post-drift hash. Ghost variables are
`observed_steps`, `tax_return` and `outcome`, the last observation.

What `Episode` abbreviates, other modules work out:

- *`DriftRaises`, schema version `"partial"`*: `Drift`. Any statement may
  raise, the next step calls the operation again. A table is a function from
  column names to rows; ISO dates and names are small numbers.
- *a query as what it returns on a schema version*: `Scenarios`. A builder is
  the set of databases it may draw, a query an operator on them, a result a
  bag; 07 to 10 are evaluated on `Drift`'s table at every statement of it.
  Marker sets and prose (`Guidance`) are sets of the names they mention.
- *the three ends of a statement, a `"poisoned"` connection*: `Watchdog`.
  `Join`, `Deliver`, `Interrupt`, `TimedOut`, `GraceEnds`, `ReadLeaked`,
  `WriteLeaked` are the session thread's steps in `_run_worker_with_watchdog`;
  `WorkerEnds` and `AbandonedEnds` the worker's. `Materialize`, `RunBaseline`,
  `Install`, `Step`, `Close` are the callers.
- *equality of hashes, `big`*: `Results`. The cursor hands out any number of
  rows up to what was asked for.
- *`Persist`*: `SkillStore`, where a client is one `Store` object and the file,
  tmp file and lock are shared. Between any two system calls another client may
  run, the process may die, a write may fail, the lock's deadline may pass. It
  implements `AppendLog`, where an append is one atomic step.
- *hints of an observation*: `Library` and `Service`. There an append is
  atomic, a directory has the mtime of its last append, and a sweep takes one
  directory per step while sessions of the other process play on.

**Rollout** keeps the variables of `Episode` and adds `tool_env`, the wrapper's
own picture. `Dispatch` ingests an observation; `DispatchRaises` is a step that
raises, of which the wrapper learns nothing; `DispatchRefused` and `StepRefused`
are calls after the end as the wrapper or as the environment sees it;
`CallRejected` is a call whose arguments do not validate. A remote session
gets its observations through `Wire`, where reward and done travel beside the
observation.

**Evaluation.** A sweep is a process with a program counter: reset, turn,
episode end, close, three files. `ChatAgent` keeps of a message its role,
whether it announces the drift, and whether it is a valid action.

**Training.** `runner` is the local process, `stage` the job service's view,
`script` the number of the container's next command, `train` the phase of
train(). Every command and phase may fail, a job may be killed between any two.
On this machine runs follow one another in one output directory, each over what
the earlier ones left there, so what is in `run_dir` carries the number of the
run that wrote it: `config`, the records of the log, `checkpoints` and `model`.
`OnLog` appends a record every `logging_steps` steps, `SaveCheckpoint` writes one
every `save_steps` and at the last step, `OnLogSummary` is the trainer's summary
after the loop and `SaveModel` the end of train(). Two train() at a time in one
directory are left out; a checkpoint and a model are written in one step. A job
has its container's directory to itself, which goes with it.

**Pipeline** hands the evaluation the directory itself or a `checkpoint-N` in it,
at any point of a run, after a crash, or when a later run has begun; `source` is
the run and the step of the weights that were loaded. What is there is loaded:
`LLMAgent` does not look at `grpo_config.json`, so an earlier run's model is
evaluated beside a later run's manifest, and nothing says it is not.

**Evidence.** `Notebook` numbers configurations and keeps, for each variable of
the kernel, the number of the one it belongs to. A file of `training/evidence` is
of a configuration or of records of a log, because two programs write it:
the notebook's evidence cell and `plot_curves.py`, which reads the log once
(`ReadLog`) and writes metrics, loss curve and reward curve in steps of their own,
between which cells run and trainings log. A cell is one step that may end after
any of its statements. By their defaults the notebook and train() have output
directories of their own, and so they have here. `plot_curves.py` does not
separate the runs of a reused log: what it draws is what the log begins with,
which may be of several runs.

External code modelled from its use: DuckDB (statements are atomic, the catalog
refuses duplicates, an interrupt ends the worker or is ignored), the file system
(`os.replace` is atomic, a flock dies with its process), Python threads, SHA-256,
the web framework's sessions, the job service, pip (whatever it installs may
break an import), the trainer's loop.

## Runs

TLC checks deadlock in none of them: episodes end, and calls, appends, attempts
and sweeps are bounded, so every instance legitimately stops.

| run | instance | question |
|---|---|---|
| `episode` | 3 scenarios, 6 queries, 2 tables, all 8 tools, budget 5, drift faults | everything an agent can do around a drift |
| `rollout` | 2 generations, budget 3, 3 tools, 5 tool calls, an ill-authored scenario, SQL that cannot be tokenized; fairness | what the wrapper and the connections make of resets, closes and steps that raise |
| `scenarios` | 01-06 on every database of up to 2 parents and 3 children; 07-10 on 3 rows, 3 calls, any statement may fail | migration, equivalence of what was authored apart |
| `service` | 2 sessions, 2 processes, 3 wins, 1 crash, 3 clock ticks; symmetry | hints, directories, sweeps |
| `results` | all pairs of results of up to 3 rows over 6 values, chunks of 2, caps 0 to 4 | hash equality is content equality; the cap is exact |
| `skill_store` | 2 clients, 2 appends each, 2 and 1 reads, failed writes, time-outs, equal mtimes, crashes; fairness | append-only log, fresh reads, own appends, calls end |
| `watchdog` | 2 sessions, 2 connections and 3 statements each, 1 warm run; fairness | connections under late and lost workers, the shared counter |
| `pipeline` | a job, or 2 runs of 2 steps over one directory, 5 manifests, 2 of 4 sweeps; fairness | job, runner, trainings over one another and evaluation, under failing commands, kills and raising episodes |
| `evidence` | 2 runs of 1 step in one directory, 2 notebook configurations | evidence files of two writers |
| `claim_*` | three small instances | statements of the code's comments that do not hold (below) |

What the properties say, by run; each is stated in full above its definition.

- `episode`. `DriftOnTime`: the drift fires at max(scheduled step, first valid
  query + cooldown), whatever the first query's outcome, and later only by steps
  that tried and raised. `JudgedOnCurrentSchema`: submission, verdict and ground
  truth belong to one schema version, also when the drift fires in the
  submission's step. `RewardsAgree`: verdict and rubric components, from separate
  readings of the ground truth, do not contradict. `RebateLedger`: the step-tax
  income is the tax plus each rebate once. `PhaseReflectsHistory`: phase,
  acknowledgement and changelog rebate agree with what happened.
  `KeepsContract`: refinement of `EpisodeContract`; every accepted call spends a
  step, the end is reached once and is final.
- `rollout`. `WrapperAgrees`: the wrapper's picture is the episode's and lags
  only after a step that raised. `PassedMeansWon`: the threshold on the last
  reward tells exactly the matching submissions. `DiversityKeepsSign`: the
  diversity bonus never turns a penalty into a gain. `LearnedOnlyFromWins`,
  `ConnectionsAccounted`: across episodes, closes and steps that raise.
  `GenerationEnds`: the budget runs out although the wrapper learns nothing.
- `scenarios`. `MigratesWithoutLoss`: an operation that returns has migrated
  every row once, and no value is lost in between. `RewriteEquivalent`: baseline
  and ground truth of 01-06 are one bag on every database. `OnlyTruthSurvivesDrift`:
  the post-drift ground truth answers the pre-drift question, the baseline breaks.
  `MarkersTellAdaptation`, `GuidanceIsTrue`: what is paid, and what changelog and
  hints say, fits the migrated tables.
- `service`. `HintsFit`: hints are the session's own wins of that scenario, then
  the seed. `CardsFollowTheDrift`: a card is shown once the drift is acknowledged,
  and it is that drift's. `StoresFollowSessions`, `SweepIsThorough`: directories
  hold what live sessions won, belong to somebody, and no stale one stays.
- `results`. `VerdictIsContent`, `ReadIsExact`.
- `skill_store`. `IsAppendOnly`: refinement of `AppendLog`. `ReadsAreFresh`: as
  long as no two writes got one mtime, reads return all that was acknowledged
  before them. `ReadsOwnAppends`: own appends in any case. `CallsEnd`.
- `watchdog`. `WorkersAccounted`: one worker per open connection, no leak
  missed. `ClosedOnlyWhenQuiet`: nothing but a failed materialize closes a
  connection with a worker inside. `StatementsReturn`.
- `pipeline`. `ReportIsTrue`: rows, sums and the finite mean tell what happened.
  `SweepIsAllOrNothing`: a sweep in which an episode raised writes nothing, and
  every end of one closes the environment. `AgentsKeepPromises`: the random agent
  submits once and names what exists; the chat agent's context holds whole turns
  and says that the drift has fired. `ExitTellsOutcome`: the runner's status is
  the outcome of the job, a cut stream aside. `RunsEnd`. `TrainsOnSoundStack`: a
  job trains on the pinned stack or not at all, and no step is taken with bf16
  weights under the fp16 scaler. `TrainingIsKept`: the log has the records of
  each run once, in order and without a gap, those of earlier runs included;
  behind each checkpoint, and behind the model with its summary, are the records
  of the run that wrote it; COMPLETED tells that the model is this run's.
  `EvaluatesSavedModel`: weights that are evaluated, a checkpoint of a crashed
  run or a model under a later run, have the records of their own run, up to
  their step, in the log.
- `evidence`. `EvidenceIsTrue`: each file is of a training whose adapter was saved
  or is what the log begins with, whoever wrote over whom, and of one writer no
  curve is newer than the metrics. A curve of one writer beside the metrics of the
  other is what the code does, and not ruled out.

Each of them is violated when the mapped definition it depends on is replaced
by a plausible bug (`mutants` in `PROJECT.json`; the mutated operators stand
next to the ones they mutate).

**Bounds.** Budget 5 with a drift window of 2 to 4 and cooldowns 2 and 0 lets
the drift fire in the step after the first query, in the step of the
submission, in the last step and not at all, with diagnosis, query, changelog
and submission around it, or fail and be retried (2.1 million states). The
queries are a baseline, its adapted rewrite, one that survives the drift with a
wrong answer, one over the row cap, a rejected one and one that cannot be
tokenized; the scenarios are static, breaking and surviving; the ratios lie below
and above the 1.2 bar. The rollout's ratios are the 1.0 of a no-op rewrite and
the cap of an infinite speedup; two generations are the least in which something
of the first can survive into the second, five calls let the wrapper go on after
a budget of three. In `scenarios`, two parents and three children give a parent
without children, children that share every value, ties and empty groups; three
rows over NULL and two values give the enum split both new values and an
untouched row, and the lookup two names and NULL; three calls are a failure, a
second failure and a retry. In `service`, one crash and a time to live of one
tick let a directory outlive its process, be swept, and be swept under a live
session; three wins are as many as a reset shows. Two connections per session
let an episode be poisoned and replaced; two sessions race on the counter. Three
rows and chunks of two give two chunks, a repeated row and a different
multiplicity; the digests are six bits wide, so the sums overflow. Two clients
with two appends give a lost update room to follow a good one. In `pipeline`,
a history of one turn and a budget of three let the turn in which the drift came
be trimmed; two sweeps let the second find what the first left. Two
steps give one that is logged and saved and one that is not, when a manifest does
so every second step, and a checkpoint before the last step; two runs let one
crash over the model and the checkpoints of another, or log at another rate. The
sweeps with episodes start before any training or after one that is done, the one
without episodes, which loads its agent all the same, at any point of any run
(`BoundedNext`). In `evidence`, two runs
let the log grow past what was plotted, two configurations let a cell be run over
the other one's variables. `MaxEpisodes`, `MaxToolCalls`, `MaxRejected`,
`MaxAttempts`, `MaxClock`, `MaxWins`, `MaxCrashes`, `MaxConns`, `MaxCalls`,
`MaxAppends`, `MaxReads`, `MaxSweeps`, `MaxRuns` and `MaxConfigs` bound what the
program does not. Three bounds of `Pipeline` are guards: "base" is evaluated when
nothing was trained, training rests while a sweep runs, and no run is started
after the first sweep. A sweep reads the directory once, when it starts, and
writes nothing there, so a training that went on beside it would change nothing
it does; the sweep itself starts at any point of any run.

**What stands under a configuration switch.** `DriftFaults`, `ReadFaults`,
`WriteFaults`, `Faults` say which faults an instance admits. `ReadsAreFresh` and
`ReadsOwnAppends` are about reads that do not fail, the first one until two
writes get one mtime, which the history `clock.tied` tells. `PassedMeansWon` and
`ReportIsTrue` are about scenarios whose authored ground truth runs
(`WellAuthored`), which `scenarios` shows of the ten.

**Fairness.** `Rollout`: weak fairness of `ToolCall`, the trainer's loop;
nothing is assumed of `ToolReset` and `ToolClose`, nor of which tool is called or
whether it raises. `Watchdog`: weak fairness of a session's own thread, whose
joins have time limits; nothing is assumed of workers. `SkillStore`: weak
fairness of a thread inside a call; the lock is polled against a deadline, so no
fairness of the lock is needed, and a crash also ends a call. `Pipeline`: weak
fairness of the loops of a sweep, of the runner and of the job with its
training, as processes that run; nobody has to start one, and the job may fail,
hang up on the runner or be killed.

## Proofs

TLAPS checks these for every value of the constants that satisfies the named
assumptions.

| theorem | says | argument |
|---|---|---|
| `EpisodeProofs!TypeCorrect` | `Spec => []TypeOK` | inductive as it stands; one lemma per handler, and lemmas that bound every rubric component |
| `EpisodeProofs!JudgedCorrectly` | `Spec => []JudgedOnCurrentSchema` | not inductive: the verdict compares two recorded hashes. `TruthInv` adds that after the drift the schema is `"post"` and `gt_result_hash_postdrift` the hash of the authored query on it, and that before the drift the schema is not `"post"` and there is no such hash |
| `EpisodeProofs!PhaseTellsHistory` | `Spec => []PhaseReflectsHistory` | every step goes one of four ways (`StepKinds`: answers, hands in, fails in the drift, gives its worker up); `PoisonEnds` adds that a poisoned connection has used up the budget, so no step follows one |
| `EpisodeProofs!ConnectionsKept` | `Spec => []ConnectionsAccounted` | `ConnInv` on the same ways, and `ClosedSlots`: after `_close_existing_runtime` none is open |
| `EpisodeProofs!DriftFiresOnTime` | `Spec => []DriftOnTime` | `TimeInv`: the first query ran no later than now; while the drift is awaited the step is below `DueStep` unless a faulty attempt raised. The code's threshold and `DueStep` agree because a step after the first query is at least one later |
| `EpisodeProofs!ContractKept` | `Spec => KeepsContract` | refinement of `EpisodeContract`: each of the four ways is its `Spend`, `Submit` or `Abort` |
| `EpisodeProofs!RebatesPaidOnce` | `Spec => []RebateLedger` | `StepsPay`: a step pays tax with no rebate, a flag's, a table's, or nothing; a flag or table newly set adds its rebate on both sides. Any finite `Table` |
| `EpisodeProofs!RewardsConsistent` | `Spec => []RewardsAgree` | rests on `TruthInv`: the hash `DriftAdapt` compares with is the one the verdict was computed from; `OneTruth`: the two selections of the ground truth agree |
| `EpisodeProofs!OnlyWinsLearned` | `Spec => []LearnedOnlyFromWins` | `LearnInv` adds that no entry belongs to an episode to come |
| `RolloutProofs!WrapperSeesEpisode` | `RolloutSpec => []WrapperAgrees` | a step of the rollout is one of `Episode` or leaves it alone (`RolloutIsEpisode`), so `TypeCorrect` and `RewardsConsistent` hold here. `StepReports`: a step raises, observes or wins; what the wrapper then ingests is followed through `Wire`'s parsing |
| `RolloutProofs!PassingIsWinning` | `RolloutSpec => []PassedMeansWon` | `StepReports` bounds the reward of an observation (0.05 at most) and `WonReward` that of a submission on either side of the threshold |
| `RolloutProofs!PenaltiesLowerTheReward` | `RolloutSpec => DiversityKeepsSign` | `Penalty`: a negative reward is below -0.08 or a step tax alone, whose spread is its own size; `SpreadOfComponents` gives the spread as a difference of two components |
| `DriftProofs!DriftMigratesWithoutLoss` | `Spec => []MigratesWithoutLoss` | `DriftInv`: for each operation, which columns the table has before each statement and what is in them, also after a call that failed there. For the lookup table: it has an id for every name, found by the rank of a name among those missing (`SeededLookup`), above the greatest id in use (`GreatestExists`, by a least counterexample) |
| `DriftProofs!RewritesAreEquivalent` | `ScenariosSpec => []RewriteEquivalent` | one lemma per scenario, from the fixture's set alone. 01 and 05: equal rows never meet, each side has each once (`OnceEach`). 02: a wide row names its product, so summing over the wide rows of a narrow one sums over one (`FoldOne`). 03, 06: the joined or grouped rows are the same set. 04: the key is in the row |
| `DriftProofs!TruthsSurvive` | `ScenariosSpec => []OnlyTruthSurvivesDrift` | from `Migrated`, per kind: the rewritten window bounds are monotone in the day, the split values are those of `OldValue` and no others, the foreign key leads back to the name; `LookupSurvives`: a row has a name, so the lookup table is there |
| `DriftProofs!MarkersTell`, `DriftProofs!GuidanceStaysTrue` | `ScenariosSpec => []MarkersTellAdaptation`, `ScenariosSpec => []GuidanceIsTrue` | `NamesAgree`: the four hand-written texts name the same columns and literals; `MeaningsNow`: after the drift the tables have those; `HintIsTruth`, `HintIsNew`: the third hint's query is the ground truth's then, and no answer before |
| `WatchdogProofs!WorkersKept`, `WatchdogProofs!ClosedQuietly` | `Spec => []WorkersAccounted`, `Spec => ClosedOnlyWhenQuiet` | `SessionInv`, per session: connections are numbered in order, a worker runs only while its caller waits, an abandoned worker's connection is poisoned or its caller is on the way to say so; `LockInv` and `CountInv` for the shared counter. A step of one session spares the others (`OthersSpared`). Any finite set of sessions |
| `SkillStoreProofs!CyclesExclude` | read-modify-write cycles never overlap | `MutualExclusion`: a client between `Acquire` and the end of its append holds the lock, and only one does |
| `SkillStoreProofs!StoreIsAppendOnly` | without read faults the store implements `AppendLog` | `CycleInv` adds that a client which has read the file knows its present content, and that the tmp file is what its writer put there; each system call is then one step of the log or a stutter, `os.replace` the one that appends |
| `SkillStoreProofs!ReadsFresh` | without read faults, and as long as no two writes got one mtime, reads return all that was acknowledged before them | `FreshInv` holds until then (`TiedStays`): `AckInv` (acknowledged entries are in the file), `MtimeInv` (no mtime in use is ahead of the clock), `CacheInv` (a cache with the file's mtime has its content), `ReadInv` |
| `SkillStoreProofs!ReadsOwn` | without read faults a client reads its own appends, also when two writes get one mtime | `OwnInv`: a cache that survives holds every own acknowledged entry, because an own append drops it |
| `ServiceProofs!DirectoriesFollow` | `Spec => []StoresFollowSessions` | `FollowInv`, per session: a directory that is gone holds nothing, and a session that has not begun has won nothing; `ServerMoves` says what a server's step does to one session |
| `ServiceProofs!SweepLeavesNothingOld` | `Spec => SweepIsThorough` | `Swept`: a directory older than the cutoff is on the list of what the sweep has still to look at; whatever is written meanwhile gets younger (`SessionsRenew`) |
| `ServiceProofs!CardsAreNoSpoilers` | `Spec => []CardsFollowTheDrift` | `CardInv`: the cards last shown fit the scenario played and its acknowledgement; `OneCardOfAKind`: the only card of a kind is what retrieval returns |
| `ServiceProofs!HintsAreFitting` | `Spec => []HintsFit` | `OwnInv`: a directory holds its session's own wins; `PlacesTaken`: in an order of a finite set each place is taken by one element, so the sort by place is a list of them; `WhatQualifies`: two scenarios share at most one tag (`TagsApart`), which is below the bar, and a seed has its scenario's tags but one; `HowRanked`: full overlap beats the seed's, so the seed comes after all wins |
| `ResultsProofs!CappedReadIsExact` | `Spec => []ReadIsExact` | while rows are fetched, `rows \o cursor = agent` and `budget + Len(rows) = max_rows + 1` |
| `ResultsProofs!VerdictDecides` | `QuietZeros /\ NoCollision => (Spec => []VerdictIsContent)` | `HashInv`: the accumulators are `HashOf` of the rows taken so far, and those and the ones left make up the result. `RowsSwap`: two rows may be taken in either order (sums modulo `Modulus`, exclusive or), so the fold has one value for each set of rows (`Folds`, `HashIs`). `BalancedFolds`: parts of two results that hold each content as often have one fold, by a least counterexample, taking a row from each |
| `ResultsProofs!RightIsAccepted` | `QuietZeros => (Spec => []RightRowsMatch)`: a right submission is never refused, whatever the digests | the same, without anything about SHA-256 |
| `ResultsProofs!NearMissesAreRefused` | `QuietZeros => (Spec => []NearMissesFail)`: one with more rows or fewer, or wrong in one row, is refused | `RowsCounted`: the count is the number of rows; `AddendTold`: two sums that differ by one digest differ modulo `Modulus`. The digests of the two rows must differ, no more |
| `PipelineProofs!TrainsSoundly` | `TrainingSpec => []TrainsOnSoundStack` | `HostInv`: a script at its last command has passed the preflight, and no command after it installs anything; `PrecisionInv`: an accepted manifest names one precision, and the cast stands between the trainer and the loop |
| `PipelineProofs!TrainingKept` | `TrainingSpec => []TrainingIsKept` | `LogKeepsSteps` needs `LastRun`, that no record of the run that goes on is ahead of its steps, so that the next one comes after all others; `DirInv` ties the directory to the phase train() is in. Records stay when the log grows (`RecordsStay`, `Grown`), so what earlier runs left keeps its record. `DrawnIsWanted`: each of the three curriculum modes draws a listed scenario of positive weight |
| `PipelineProofs!ExitIsOutcome` | `TrainingSpec => []ExitTellsOutcome` | `RunnerInv`: a stream that ended by itself leaves a stage that is over, and such a stage does not change |
| `PipelineProofs!EvidenceStaysTrue` | `EvidenceSpec => []EvidenceIsTrue` | `KernelInv`: the kernel's configuration is the last one made, and no adapter is newer than the trainer in memory; `FiguresInv`: a history is as new as what was published, and what plot_curves.py has read holds all records that were; `PrefixInv`: what was read or drawn is a prefix of a log that only grows (`LogGrows`). The machine trains as `Training` says (`EvidenceTrains`) |
| `PipelineProofs!EvaluatesSaved` | `PipelineSpec => []EvaluatesSavedModel` | inductive with `TrainingInv` and `SweepInv`: `FoundIsRecorded` takes from `DirInv` and `RecordsInv` that a checkpoint, or the model, of whichever run has the records of that run up to its step; they rest while the sweep goes on (`RecordRests`) |
| `PipelineProofs!SweepsAreAllOrNothing` | `PipelineSpec => []SweepIsAllOrNothing` | `SweepInv` ties the rows taken and the open environment to the sweep's program counter, `FilesInv` the files to each other and to the counter. A step of a sweep is one of `Episode` or leaves it alone (`PipelineIsEpisode`), so `ConnectionsKept` holds here |
| `PipelineProofs!ReportsAreTrue` | `PipelineSpec => []ReportIsTrue` | rows (`RowsAreTrue`): `TallyInv` ties the loop's locals to the environment's counters; `MeasuredInv`: what was measured is a ratio, and a baseline said to fail after the drift does; `WonReward` puts the threshold between a win and the rest. Summary (`SummaryIsTrue`): `CountedInv`, of every row: what passed was submitted, what was submitted has a speedup. `Sums` characterises the fold by its values on the subsets, `PartsAddUp` adds an additive figure up over the groups of a key, both by a least counterexample among the subsets instead of an induction |
| `PipelineProofs!AgentsArePromising` | `PipelineSpec => []AgentsKeepPromises` | `PromptInv`: a history is whole turns, for every limit it is trimmed to (`TurnKeepsWhole`), and says no drift before it fired. `RandomInv`: the tables the agent knows are in the database, as a drift drops none; it knows none before a diagnosis; and no answer was one it has not earned (`AnswersOf`) |

The assumptions are those of the modules (`HashAssumption`,
`ScenarioAssumption`, `SweepAssumption`, `DriftAssumption`, `SentinelAssumption`,
`WatchdogAssumption`, `StoreAssumption`, `ManifestAssumption`, ...): constants
have their types, the tables of a fixture are finite, a query that raises has no
result (`RaisesAssumption`), `users`, `_` and `id` make `users_id`
(`FkNameAssumption`: the provers do not look into strings, TLC does), the values that stand for "none" are no session, entry or
configuration, the pre-drift ground truth and the baseline run before the
drift (`materialize` would have failed otherwise), a drift drops no table, the
drift window is ordered, a manifest's numbers are natural, a digest is below the
modulus and an exclusive or keeps it there, whatever the order
(`DigestAssumption`). Faults excluded by a theorem are hypotheses of its
statement. Those about the hash are `QuietZeros`, that no float below zero
rounds to zero (`claim_noise_ignored` shows what happens to one), and
`NoCollision`, that results of different content differ in some accumulator.
The second cannot hold of all results there are, only of those that occur, which
is what `Result` stands for; nothing in the code but SHA-256 speaks for it. The
`results` run meets both, and the two theorems that do without `NoCollision` say
what is true without it.

What a step of the environment reports is stated once and used above it:
`StepKinds` (it answers, hands in, fails in the drift or gives its worker up),
`StepReports` (it raises, observes or wins, with bounds on each reward) and
`StepShape` (the drift comes first).

Model-checked only:

- liveness (`GenerationEnds`, `StatementsReturn`, `CallsEnd`, `RunsEnd`), which
  needs fairness and `ENABLED`.

## Where the code and its comments part

Shown by a run each:

- `claim_drift_retry`: `engine/drift.py:12` says the operations are safe to
  retry. A failure after ADD COLUMN, CREATE TEMP TABLE or DROP COLUMN leaves a
  schema on which the retry itself is refused by the catalog, on every later
  step of the episode.
- `claim_noise_ignored`: `engine/verifier.py:5` says floating-point noise does
  not change a digest. Noise below zero is rounded to `-0.0`, which does.
- `claim_nothing_lost`: `skill_library/store.py:114` calls the store
  append-only. A read error under the lock counts as an empty store, which the
  append then writes back.

Seen while the models were written, without a run of their own:

*Environment*

- `README.md:82` places the drift in a configured window; the cooldown after
  the first query can move it past the end (`sql_drift_env_environment.py:611`).
- `README.md:84` says the observation signals `drift_recovery`; when the drift
  fires in the step of an accepted submission the phase is already `finalize`.
- `engine/runtime.py:67` describes DIAGNOSE to REWRITE at the first diagnostic
  call; after a drift the phase stays `drift_recovery` (`:890`).
- `engine/runtime.py:87` counts a query among what acknowledges a drift; only
  `read_changelog` sets the flag (`:817`).
- `engine/reward.py:331` caps a no-op rewrite at the lower tier; its speedup is
  measured, so a lucky timing above 1.2 earns the full one (`:224`).
- `engine/drift.py:3` speaks of a transaction; the statements auto-commit.
- `engine/profiler.py:146` speaks of waiting unconditionally; the wait ends
  after the grace period.
- `engine/profiler.py:67` says a connection whose worker survived the interrupt
  is no longer safe; `materialize` closes it when the baseline run escalates
  (`scenarios/base.py:184`), the exception `ClosedOnlyWhenQuiet` names.

*Server and skill library*

- `server/app.py:30` speaks of directories left by previous runs; the sweep goes
  by age and also takes the directory of a live session of another process that
  has not learned anything lately (`store.py:249`).
- `skill_library/seeds.py:3` promises a relevant entry for each of the ten
  scenarios; the tags of 07 to 10 reach the 0.3 bar with none.
- A rewrite learned after a drift is offered at the next reset of the scenario,
  before the drift, when it cannot run yet.
- A hint text cut at 800 characters loses up to eleven of its last hint.

*Agents and evaluation*

- `training/prompt.py:48` says to read the changelog once the drift is announced
  in an observation; the texts of the training tool environment never announce it.
- `training/prompt.py:60` says `submit_rewrite` ends the episode; a rejected one
  does not. A random agent whose submission was rejected plays to its budget.
- The contract in `training/llm_agent.py:57` lists `consult_dba`, the catalog of
  the same prompt leaves it out; the system prompt of `DIAGNOSE` ("Do NOT submit
  a rewrite yet") stays for the whole episode.
- `_most_recent_user_mentions_drift` (`llm_agent.py:229`) is true when it does
  not: hence every other message announces the drift.
- Braces in a SQL text can make a valid action unparseable (`llm_agent.py:73`).
- `training/eval.py:292` says `json.dumps` rejects infinity; it writes it.
- An unknown raw scenario id is refused only when its turn comes
  (`eval.py:457`), after the episodes before it, which then are lost.
- `demo_rollout.py:104` expects full correctness from its script, whose
  submission does not match the ground truth.

*Training*

- `training/grpo_train.py:266` says a crash in step N leaves N records on disk.
  The trainer calls `on_log` every `logging_steps` steps; with 10, a crash in the
  ninth step leaves none.
- The runner exits 0 for a cancelled job, and for one that still runs when its
  stream was cut (`run_training_job.py:473`).
- A job's model is saved in the container only.
- The ten weights of the job's manifest stand against the live list of
  scenarios (`run_training_job.py:172`): an eleventh scenario is refused in the
  container, after all installs.
- A group size that does not come out even is refused after `grpo_config.json`
  was written (`grpo_train.py:315`); an unknown scenario id at a rollout's reset.
- `log_history.jsonl` is opened for appending: a second run in the directory
  continues the curve of the first, and one that crashes leaves its own
  `grpo_config.json` beside the first one's adapter, which `eval.py` then loads as
  the trained agent. `plot_curves.py` draws both runs as one.
- The notebook's comment on `dtype` says float32, its code passes float16; its
  evidence cell and `plot_curves.py` write the same `grpo_metrics.csv` and curves,
  so a curve of one may lie beside the metrics of the other.

## Not modelled

- Query texts, random distributions and row counts of fixtures, wording of hints
  and changelogs beyond the names they mention, rendering of observations, reports
  and plots: data that no decision depends on. `canonicalize_sql` appears as the
  rule that two texts with one canonical form are one query; `row_set_jaccard` is
  not called by the server; the SQL validator is three verdicts.
- The notebook's saved outputs, which are most of its lines and most of the
  repository's.
- Durations. A statement has three ends, a measurement any ratio of a set. The
  drift's own statements run without the watchdog; nothing here bounds them.
- Collisions of SHA-256, platforms without `fcntl`, store files damaged by another
  program, a read error that is cached (`store.py:184`), an `rmtree` that fails.
- The web framework, the data-model library, the trainer and the language model:
  any sequence of actions is a behaviour of `Episode`, which covers every policy.
- Two train() at a time in one directory, a checkpoint or a model that is torn by
  a crash, `resume_from_checkpoint` (which train() does not use), a rotation of
  checkpoints (which it does not ask for), and a notebook and a train() given one
  output directory against their defaults.
- The component curves of `plot_curves.py` and of the notebook, and a crash
  between two writes of one notebook cell's statement.
- Hints a caller passes in place of the library's, the seeding of random
  generators, standard deviations, a kill of the evaluation between two steps.
- Logger, `.env` loader and demo script: no state that anything depends on.

## Plan

Done, in this order: `Rubric`, `Episode` with its contract; `SkillStore` and
`AppendLog`; `Drift`; `Watchdog`; `Results`; then `Wire` and `Rollout`;
`Scenarios` and `Guidance`; `Library` and `Service`; `ChatAgent` and
`Evaluation`; `Curriculum` and `Training`; `Notebook`, `Evidence` and `Pipeline`;
and the proofs above.

Next, models: drift statements that take time, with the watchdog's joins, if the
code comes to guard them.
