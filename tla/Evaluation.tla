----------------------------- MODULE Evaluation -----------------------------
(***************************************************************************)
(* training/eval.py: a sweep of one agent over scenarios and seeds, in one *)
(* SqlDriftEnvironment, and the three files it leaves.  The agents are     *)
(* RandomAgent (training/random_agent.py) and LLMAgent (ChatAgent).        *)
(* utilities/verbose_api_rollout.py is a sweep of one episode with the API *)
(* agent, which prints and leaves no files.                                *)
(*                                                                         *)
(* Each sweep is a process of its own.  Its environment is the one of      *)
(* Episode: fresh at the start because the sweep before closed it.  An     *)
(* exception of reset(), act() or step() leaves the loop; the finally      *)
(* clause closes the environment and nothing is written.                   *)
(***************************************************************************)
EXTENDS Episode, ChatAgent, Functions

CONSTANTS
    UnknownScenario,  \* an id that is not in the registry
    Sweeps,           \* command lines: scenarios, seeds per scenario, max_steps
    StarQuery,        \* per table, the SELECT * the random agent sends
    DefaultBudget,    \* settings.DEFAULT_STEP_BUDGET
    MaxSweeps         \* bound on the number of sweeps

ASSUME SweepAssumption ==
    /\ \A w \in Sweeps :
           /\ {w.seeds, w.max_steps} \subseteq Nat
           /\ w.scenarios \in Seq(Scenario \cup {UnknownScenario})
    /\ StarQuery \in [Table -> Query]
    /\ DefaultBudget \in Budget
    /\ MaxSweeps \in Nat

VARIABLES
    sweep,      \* the running sweep
    tally,      \* _run_one_episode's locals
    results,    \* EpisodeResults so far
    mind,       \* the agent's attributes
    out_dir     \* the files of the output directory

sweepVars == <<sweep, tally, results, mind, out_dir>>

NoSweep == [scenarios |-> <<>>, seeds |-> 0, max_steps |-> 0]
Idle(n) == [pc |-> "off", agent |-> "none", of |-> NoSweep, number |-> n]

FreshTally == [steps |-> 0, terminal_reward |-> 0, episode_return |-> 0]

\* submits is a ghost: submit_rewrite calls the agent made.
FreshMind == [known_tables |-> {}, submitted |-> FALSE, system |-> NoPrompt,
              history |-> <<>>, submits |-> 0]

NoFile == [sweep |-> 0, episodes |-> 0, planned |-> 0, whole |-> TRUE]
FileName == {"per_episode.csv", "summary.json", "report.md"}

Planned(w) == Len(w.scenarios) * w.seeds

\* The scenario and the seed of the next episode of a sweep.
NextScenario == sweep.of.scenarios[(Len(results) \div sweep.of.seeds) + 1]
NextSeed == Len(results) % sweep.of.seeds

Goes(pc) == [sweep EXCEPT !.pc = pc]

-----------------------------------------------------------------------------
(* main() and load_agent() *)

\* Mutant: a directory is taken for a model.
LoadsIfPresent(agent, checkpoint) == agent = "random" \/ checkpoint # "absent"

\* load_agent raises without a directory, LLMAgent.__init__ without a model in it.
Loads(agent, checkpoint) == agent = "random" \/ checkpoint = "saved"

StartSweep(agent, w, checkpoint) ==
    /\ sweep.pc = "off" /\ sweep.number < MaxSweeps
    /\ episode + Planned(w) <= MaxEpisodes
    /\ IF Loads(agent, checkpoint)
       THEN sweep' = [pc |-> IF Planned(w) = 0 THEN "close" ELSE "reset",
                      agent |-> agent, of |-> w, number |-> sweep.number + 1]
       ELSE sweep' = Idle(sweep.number + 1)
    /\ UNCHANGED <<vars, tally, results, mind, out_dir>>

\* main() of verbose_api_rollout.py: without the variables of the API it raises
\* before there is an environment.
StartRollout(w) ==
    /\ sweep.pc = "off" /\ sweep.number < MaxSweeps
    /\ Planned(w) = 1 /\ episode < MaxEpisodes
    /\ sweep' \in {Idle(sweep.number + 1),
                  [pc |-> "reset", agent |-> "api", of |-> w, number |-> sweep.number + 1]}
    /\ UNCHANGED <<vars, tally, results, mind, out_dir>>

-----------------------------------------------------------------------------
(* _run_one_episode: reset *)

\* Mutant: the locals live outside the loop over the episodes.
TallyKept == tally

\* The locals of _run_one_episode before its loop.
TallyAtStart == FreshTally

\* env.reset(seed, scenario_id) leaves the other options at their defaults; the
\* API rollout passes its own.
Options ==
    IF sweep.agent = "api" THEN Budget \X BOOLEAN ELSE {<<DefaultBudget, FALSE>>}

BeginEpisode ==
    /\ sweep.pc = "reset" /\ NextScenario # UnknownScenario
    /\ \E n \in ScheduledSteps(NextScenario), option \in Options :
           Reset(NextScenario, option[1], n, option[2])
    /\ sweep' = Goes("act")
    /\ tally' = TallyAtStart
    /\ mind' = FreshMind
    /\ UNCHANGED <<results, out_dir>>

\* An unknown id is met only when its turn comes; a builder may fail as well.
ResetRaises ==
    /\ sweep.pc = "reset"
    /\ sweep' = Goes("raised")
    /\ UNCHANGED <<vars, tally, results, mind, out_dir>>

-----------------------------------------------------------------------------
(* The agents *)

\* RandomAgent.observe on the last observation.
Known == mind.known_tables \cup
    IF outcome.tool = "list_tables" /\ outcome.code = "ok"
    THEN cfg.scenario.tables[db] ELSE {}

\* Mutant: the flag that a submission was drawn is not looked at.
MaySubmitAlways == TRUE

\* A submission is drawn at most once, whatever came of it.
MaySubmit == ~mind.submitted

\* RandomAgent.act: list_tables until a table is known, then anything about
\* the known tables.
RandomActs ==
    LET submits == outcome'.tool = "submit_rewrite"
    IN  /\ StepOn(Known, {StarQuery[t] : t \in Known})
        /\ Known = {} => outcome'.tool = "list_tables"
        /\ submits => MaySubmit
        /\ mind' = [mind EXCEPT !.known_tables = Known,
                                !.submitted = @ \/ submits,
                                !.submits = @ + IF submits THEN 1 ELSE 0]

\* LLMAgent.act and ApiEpisodeAgent.act: whatever the model answers.
ChatActs ==
    /\ Step
    /\ \E reply \in Replies :
           /\ reply.tool = outcome'.tool
           /\ mind' = [mind EXCEPT
                 !.system = PromptKept(@, SystemPrompt(phase, budget_steps_remaining, drift_fired)),
                 !.history = AfterTurn(sweep.agent, @, drift_fired, reply.parsed_ok),
                 !.submits = @ + IF outcome'.tool = "submit_rewrite" THEN 1 ELSE 0]

Acts == IF sweep.agent = "random" THEN RandomActs ELSE ChatActs

-----------------------------------------------------------------------------
(* _run_one_episode: the loop *)

\* Mutant: only a submission ends the loop.
LoopGoesOnUnsubmitted == ~submitted

LoopGoesOn == ~outcome.done /\ tally.steps < sweep.of.max_steps

Turn ==
    /\ sweep.pc = "act" /\ LoopGoesOn
    /\ Acts
    /\ outcome'.code # "raised"
    /\ LET reward == Total(outcome'.reward)
       IN  tally' = [steps |-> tally.steps + 1, terminal_reward |-> reward,
                     episode_return |-> tally.episode_return + reward]
    /\ UNCHANGED <<sweep, results, out_dir>>

TurnRaises ==
    /\ sweep.pc = "act" /\ LoopGoesOn
    /\ Acts
    /\ outcome'.code = "raised"
    /\ sweep' = Goes("raised")
    /\ UNCHANGED <<tally, results, out_dir>>

\* Generation fails: act() raises before there is an action.
AgentRaises ==
    /\ sweep.pc = "act" /\ LoopGoesOn /\ sweep.agent # "random"
    /\ sweep' = Goes("raised")
    /\ UNCHANGED <<vars, tally, results, mind, out_dir>>

\* PASS_REWARD_THRESHOLD on the reward of the last step.
Passes == tally.terminal_reward >= 500

\* effective_speedup(): None (0) before a submission.
MeasuredSpeedup ==
    IF ~submitted THEN 0
    ELSE IF drift_fired /\ baseline_postdrift_raises THEN INFTY ELSE submitted_speedup

Row == [scenario |-> NextScenario, seed |-> NextSeed, steps |-> tally.steps,
        terminal_reward |-> tally.terminal_reward,
        episode_return |-> tally.episode_return, passed |-> Passes,
        submitted |-> submitted, drift_fired |-> drift_fired,
        effective_speedup |-> MeasuredSpeedup]

EndEpisode ==
    /\ sweep.pc = "act" /\ ~LoopGoesOn /\ sweep.agent # "api"
    /\ results' = Append(results, Row)
    /\ sweep' = Goes(IF Len(results') = Planned(sweep.of) THEN "close" ELSE "reset")
    /\ UNCHANGED <<vars, tally, mind, out_dir>>

EndRollout ==
    /\ sweep.pc = "act" /\ ~LoopGoesOn /\ sweep.agent = "api"
    /\ sweep' = Goes("close")
    /\ UNCHANGED <<vars, tally, results, mind, out_dir>>

-----------------------------------------------------------------------------
(* The finally clause and the files *)

ClosesEnv == IF live THEN Close ELSE UNCHANGED vars

\* Mutant: the environment is closed only after a sweep without exception.
RaisedLeavesOpen == UNCHANGED vars

RaisedCloses == ClosesEnv

\* Mutant: what there is of the sweep is written all the same.
AfterRaiseWrites == Goes("per_episode.csv")

AfterRaise == Idle(sweep.number)

Forgets == tally' = FreshTally /\ mind' = FreshMind

\* The exception leaves run_eval and ends the process.
Unwind ==
    /\ sweep.pc = "raised"
    /\ RaisedCloses
    /\ sweep' = AfterRaise
    /\ results' = IF sweep'.pc = "off" THEN <<>> ELSE results
    /\ Forgets
    /\ UNCHANGED out_dir

CloseSweep ==
    /\ sweep.pc = "close"
    /\ ClosesEnv
    /\ sweep' = IF sweep.agent = "api" THEN Idle(sweep.number) ELSE Goes("per_episode.csv")
    /\ Forgets
    /\ UNCHANGED <<results, out_dir>>

FileAfter == [name \in FileName |->
                IF name = "per_episode.csv" THEN "summary.json"
                ELSE IF name = "summary.json" THEN "report.md" ELSE "off"]

\* One file is truncated and written.
Write ==
    /\ sweep.pc \in FileName
    /\ out_dir' = [out_dir EXCEPT ![sweep.pc] =
                     [sweep |-> sweep.number, episodes |-> Len(results),
                      planned |-> Planned(sweep.of), whole |-> TRUE]]
    /\ IF FileAfter[sweep.pc] = "off"
       THEN sweep' = Idle(sweep.number) /\ results' = <<>>
       ELSE sweep' = Goes(FileAfter[sweep.pc]) /\ UNCHANGED results
    /\ UNCHANGED <<vars, tally, mind>>

\* Writing fails, or the process is killed, after the file was truncated.
WriteFails ==
    /\ sweep.pc \in FileName
    /\ out_dir' = [out_dir EXCEPT ![sweep.pc] =
                     [sweep |-> sweep.number, episodes |-> 0,
                      planned |-> Planned(sweep.of), whole |-> FALSE]]
    /\ sweep' = Idle(sweep.number)
    /\ results' = <<>>
    /\ UNCHANGED <<vars, tally, mind>>

-----------------------------------------------------------------------------
(* _speedup_stats and _build_summary, as counts and sums *)

SumOver(rows, Value(_)) == SumFunction([i \in rows |-> Value(results[i])])

CountOf(rows, Holds(_)) == Cardinality({i \in rows : Holds(results[i])})

Measured(row) == row.effective_speedup # 0

\* Mutant: an infinite speedup goes into the mean.
FiniteOrNot(row) == Measured(row)

\* not math.isinf, of the episodes that measured a speedup.
Finite(row) == Measured(row) /\ row.effective_speedup # INFTY

\* _speedup_stats: the mean is finite_sum / finite_count, or None.
SpeedupStats(rows) ==
    [finite_count |-> CountOf(rows, Finite),
     finite_sum |-> SumOver(rows, LAMBDA r : IF Finite(r) THEN r.effective_speedup ELSE 0),
     infinite_count |-> CountOf(rows, Measured) - CountOf(rows, Finite)]

Stats(rows) ==
    [n |-> Cardinality(rows),
     passes |-> CountOf(rows, LAMBDA r : r.passed),
     submits |-> CountOf(rows, LAMBDA r : r.submitted),
     terminal_sum |-> SumOver(rows, LAMBDA r : r.terminal_reward),
     return_sum |-> SumOver(rows, LAMBDA r : r.episode_return),
     speedup |-> SpeedupStats(rows)]

Overall == Stats(DOMAIN results)

\* by_scenario, keyed by id: an id that is listed twice has one entry.
RowsOf(s) == {i \in DOMAIN results : results[i].scenario = s}

ByScenario == [s \in {results[i].scenario : i \in DOMAIN results} |-> Stats(RowsOf(s))]

-----------------------------------------------------------------------------
(* The specification *)

SweepInit ==
    /\ sweep = Idle(0)
    /\ tally = FreshTally
    /\ results = <<>>
    /\ mind = FreshMind
    /\ out_dir = [name \in FileName |-> NoFile]

SweepStep ==
    \/ BeginEpisode
    \/ ResetRaises
    \/ Turn
    \/ TurnRaises
    \/ AgentRaises
    \/ EndEpisode
    \/ EndRollout
    \/ Unwind
    \/ CloseSweep
    \/ Write
    \/ WriteFails

-----------------------------------------------------------------------------
(* Properties *)

LastRow == results[Len(results)]

JustRecorded == results # <<>> /\ live /\ sweep.pc \in {"reset", "close"}

RowIsTrue ==
    JustRecorded /\ WellAuthored(LastRow.scenario) =>
        /\ LastRow.scenario = cfg.scenario
        /\ LastRow.steps = step_count
        /\ LastRow.passed => submitted /\ outcome.matches
        /\ submitted /\ outcome.matches /\ ~LastRow.passed =>
               submitted_sql = cfg.scenario.baseline
        /\ Measured(LastRow) <=> LastRow.submitted
        /\ LastRow.effective_speedup = INFTY =>
               LastRow.drift_fired /\ cfg.scenario.baseline.rows["post"] = DbError

SummaryAddsUp ==
    LET Added(Part(_)) == SumFunction([s \in DOMAIN ByScenario |-> Part(ByScenario[s])])
        sp == Overall.speedup
    IN  /\ Added(LAMBDA p : p.n) = Overall.n
        /\ Added(LAMBDA p : p.passes) = Overall.passes
        /\ Added(LAMBDA p : p.terminal_sum) = Overall.terminal_sum
        /\ Added(LAMBDA p : p.speedup.infinite_count) = sp.infinite_count
        /\ Overall.passes <= Overall.submits
        /\ sp.finite_count + sp.infinite_count = Overall.submits
        /\ sp.finite_count > 0 => sp.finite_sum < sp.finite_count * INFTY

\* A row tells what happened in its episode and nothing of another one: it
\* passed if and only if the submission matched the ground truth (the baseline
\* sent back aside), it has a speedup if and only if there was a submission,
\* and its steps are the environment's, also when --max-steps cut it short.  The
\* overall figures are those of the scenarios added up, every submission has
\* exactly one speedup, finite or infinite, and the mean that goes into
\* summary.json is a finite number (_run_one_episode, _build_summary).
ReportIsTrue == RowIsTrue /\ SummaryAddsUp

ReportIsWhole ==
    /\ \A name \in FileName : out_dir[name].whole =>
           out_dir[name].episodes = out_dir[name].planned
    /\ \A name \in FileName : FileAfter[name] \in FileName =>
           out_dir[FileAfter[name]].sweep <= out_dir[name].sweep
    /\ sweep.pc = "off" /\ out_dir["report.md"].whole
       /\ out_dir["report.md"].sweep = sweep.number =>
           \A name \in FileName : out_dir[name].whole

SweepReleases ==
    /\ sweep.pc \in {"off"} \cup FileName => ~live
    /\ ~live => \A e \in 1..MaxEpisodes : conns[e] # "open"

\* A file is either torn by a write that failed or of a sweep that ran all its
\* episodes; a sweep in which one raised writes none; and no file is newer
\* than the one written before it, so a whole report.md comes with data at
\* least as new.  The environment is open only between the reset of an episode
\* and the end of the sweep, however the sweep ends: what is written is written
\* when the database is closed, and no connection is left open (run_eval).
SweepIsAllOrNothing == ReportIsWhole /\ SweepReleases

RandomAgentBehaves ==
    sweep.pc = "act" /\ sweep.agent = "random" =>
        /\ outcome.code \notin {"unknown_table", "submit_before_diagnose"}
        /\ mind.submits <= 1
        /\ mind.known_tables \subseteq cfg.scenario.tables[db]

PromptIsSound ==
    sweep.pc = "act" /\ sweep.agent \in {"llm", "api"} =>
        /\ WholeTurns(mind.history)
        /\ TellsDrift(sweep.agent, mind.system, mind.history, drift_fired)

\* The random agent keeps the promise of its docstrings: it never names a table
\* that does not exist, never submits before a diagnosis, and calls
\* submit_rewrite at most once, also when that call was rejected.  And whatever
\* the model behind the chat agent answers, however few turns the context holds:
\* it holds whole turns, and the prompt says that the drift has fired as soon as
\* it has, although only every other message says so (_trim_history,
\* _render_user_message).
AgentsKeepPromises == RandomAgentBehaves /\ PromptIsSound

SweepEnds == sweep.pc # "off" ~> sweep.pc = "off"
=============================================================================
