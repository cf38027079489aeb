------------------------------ MODULE Episode -------------------------------
(***************************************************************************)
(* The episode state machine of server/sql_drift_env_environment.py: one   *)
(* SqlDriftEnvironment, its RuntimeEpisodeState (engine/runtime.py), the   *)
(* eight tool handlers, the drift event and the reward of every step.      *)
(*                                                                         *)
(* step() runs without yielding, so one action is one whole step(): the    *)
(* guard, the step counter, a drift that is due, the handler, the          *)
(* tool-error streak, the rubric and the skill-store write.  A handler     *)
(* runs after the drift of the same step, so it reads the primed drift     *)
(* variables.  The last_step_* fields of the runtime live only within a    *)
(* step (it clears them first and the rubric reads them last); they are    *)
(* the arguments "rebate" and "repeats" of Returns.                        *)
(*                                                                         *)
(* SQL is a record: what the validator says of it, what DuckDB answers on  *)
(* each schema version, and which drift markers it touches.  Two texts     *)
(* with one canonical form (canonicalize_sql) are one query.               *)
(***************************************************************************)
EXTENDS Integers, FiniteSets, Rubric, Wire

CONSTANTS
    Table,        \* table names an agent may ask about
    Hash,         \* result-set hashes (canonical_row_hash)
    NoHash,       \* None where a hash is expected
    DbError,      \* the query raises duckdb.Error
    Query,        \* SQL texts an agent may send, up to canonical form
    NoQuery,      \* None where a query is expected
    Scenario,     \* materialized scenario instances
    Budget,       \* step budgets reset() is called with
    Ratio,        \* baseline_ms / agent_ms a submission may measure
    Tools,        \* the tools the agent of this run uses
    DriftFaults,  \* TRUE: drift DDL may raise part way (engine/drift.py)
    MaxEpisodes,  \* bound on the number of resets
    NoConfig      \* no runtime: before reset() or after close()

None == 0         \* a step number that is None; steps count from 1

\* What the schema looks like: before drift, after drift, or after a drift
\* operation that raised between two of its statements.
Schema == {"pre", "partial", "post"}

QueryText == [id : STRING, lex : {"accepted", "rejected", "raises"},
              rows : [Schema -> Hash \cup {DbError}], big : BOOLEAN,
              uses_pre : BOOLEAN, uses_post : BOOLEAN]

ScenarioInstance ==
    [drifts : BOOLEAN, min_step : Nat, max_step : Nat, cooldown_steps : Nat,
     baseline : QueryText, gt_pre : QueryText, gt_post : QueryText \cup {NoQuery},
     tables : [Schema -> SUBSET Table], post_ids : BOOLEAN, hints : BOOLEAN]

ASSUME HashAssumption == DbError \notin Hash /\ NoHash \notin Hash

ASSUME QueryAssumption == Query \subseteq QueryText /\ NoQuery \notin QueryText

\* materialize() runs the pre-drift ground truth and the baseline once, so both
\* succeed on the pre-drift schema; DriftConfig.__post_init__ orders its steps;
\* the operations of engine/drift.py drop no table they did not create.
ASSUME ScenarioAssumption ==
    /\ Scenario \subseteq ScenarioInstance
    /\ \A s \in Scenario : /\ s.gt_pre.rows["pre"] \in Hash
                           /\ s.baseline.rows["pre"] \in Hash
                           /\ 1 <= s.min_step /\ s.min_step <= s.max_step
                           /\ s.tables["pre"] \subseteq s.tables["post"]

ASSUME BoundAssumption ==
    /\ Budget \subseteq Nat \ {0}
    /\ Ratio \subseteq RatioPoint
    /\ Tools \subseteq ToolName
    /\ DriftFaults \in BOOLEAN
    /\ MaxEpisodes \in Nat \ {0}
    /\ IsFiniteSet(Table)

VARIABLES
    cfg,            \* what reset() fixed for the episode, NoConfig without one
    episode,        \* number of resets so far
    conns,          \* the DuckDB connection of each episode
    step_count,
    phase,
    first_run_query_step,
    db,             \* schema version of the episode's database
    drift_fired_step,
    changelog_entries,           \* their number
    baseline_postdrift_raises,
    gt_result_hash_postdrift,
    drift_acknowledged,
    diagnostic_actions_taken,
    rewarded_once,  \* listed_tables_rewarded, run_query_rewarded, ... as a set
    described_tables_rewarded,
    sampled_tables_rewarded,
    failed_query_counts,
    consecutive_tool_errors,
    consultations_used,
    submitted,
    submitted_sql,
    submitted_result_hash,
    submitted_speedup,           \* measured ratio, 0 before a submission
    outcome,        \* what the caller of the last step() or reset() got
    observed_steps, \* steps of this episode that returned an observation
    tax_return,     \* sum of their r_step_tax
    learned         \* playbook entries appended to the skill store

sessionVars == <<cfg, episode, conns>>
driftVars == <<db, drift_fired_step, changelog_entries,
               baseline_postdrift_raises, gt_result_hash_postdrift>>
rewardedVars == <<rewarded_once, described_tables_rewarded, sampled_tables_rewarded>>
submitVars == <<submitted, submitted_sql, submitted_result_hash, submitted_speedup>>
ledgerVars == <<observed_steps, tax_return>>
vars == <<sessionVars, step_count, phase, first_run_query_step, driftVars,
          drift_acknowledged, diagnostic_actions_taken, rewardedVars,
          failed_query_counts, consecutive_tool_errors, consultations_used,
          submitVars, outcome, ledgerVars, learned>>

-----------------------------------------------------------------------------
(* Derived fields of the runtime *)

live == cfg # NoConfig
drift_fired == drift_fired_step # None
budget_steps_remaining == Larger(0, cfg.budget - step_count)
connection_poisoned == episode > 0 /\ conns[episode] = "poisoned"

\* Mutant: only the budget ends an episode.
OverBudgetOnly == budget_steps_remaining <= 0

\* step() refuses to run: the episode was submitted or its budget is used up.
Over == submitted \/ budget_steps_remaining <= 0

\* The runtime's listed_tables_rewarded, run_query_rewarded, ... flags.
OnceAttr == {"list_tables", "run_query", "explain_query", "read_changelog"}

NextStep == step_count + 1

-----------------------------------------------------------------------------
(* reset() and close() *)

ScheduledSteps(s) == IF s.drifts THEN s.min_step .. s.max_step ELSE {None}

\* _close_existing_runtime: a poisoned connection is abandoned, not closed.
Closed(cs) ==
    IF live /\ cs[episode] = "open" THEN [cs EXCEPT ![episode] = "closed"] ELSE cs

NoOutcome == [tool |-> "reset", code |-> "ok", matches |-> FALSE, done |-> FALSE,
              cards |-> FALSE, reward |-> NoReward]

FreshRuntime ==
    /\ step_count' = 0
    /\ phase' = "diagnose"
    /\ first_run_query_step' = None
    /\ db' = "pre"
    /\ drift_fired_step' = None
    /\ changelog_entries' = 0
    /\ baseline_postdrift_raises' = FALSE
    /\ gt_result_hash_postdrift' = NoHash
    /\ drift_acknowledged' = FALSE
    /\ diagnostic_actions_taken' = 0
    /\ rewarded_once' = {}
    /\ described_tables_rewarded' = {}
    /\ sampled_tables_rewarded' = {}
    /\ failed_query_counts' = [q \in Query |-> 0]
    /\ consecutive_tool_errors' = 0
    /\ consultations_used' = 0
    /\ submitted' = FALSE
    /\ submitted_sql' = NoQuery
    /\ submitted_result_hash' = NoHash
    /\ submitted_speedup' = 0
    /\ observed_steps' = 0
    /\ tax_return' = 0
    /\ outcome' = NoOutcome

\* A reset that succeeds.  One that raises (bad options, unknown scenario, a
\* builder that fails) does so before it touches the running episode.
Reset(s, b, n, o) ==
    /\ episode < MaxEpisodes
    /\ n \in ScheduledSteps(s)
    /\ cfg' = [scenario |-> s, budget |-> b, scheduled |-> n, oracle |-> o]
    /\ episode' = episode + 1
    /\ conns' = [Closed(conns) EXCEPT ![episode + 1] = "open"]
    /\ FreshRuntime
    /\ UNCHANGED learned

Close ==
    /\ live
    /\ cfg' = NoConfig
    /\ conns' = Closed(conns)
    /\ UNCHANGED <<episode, step_count, phase, first_run_query_step, driftVars,
                   drift_acknowledged, diagnostic_actions_taken, rewardedVars,
                   failed_query_counts, consecutive_tool_errors,
                   consultations_used, submitVars, outcome, ledgerVars, learned>>

-----------------------------------------------------------------------------
(* The drift event *)

\* _maybe_fire_drift's early returns and threshold.
DriftDue ==
    /\ cfg.scenario.drifts
    /\ ~drift_fired
    /\ first_run_query_step # None
    /\ NextStep >= Larger(cfg.scheduled,
                          first_run_query_step + cfg.scenario.cooldown_steps)

\* The authored gt_sql_postdrift runs on the drifted schema.
TruthResolves ==
    \/ cfg.scenario.gt_post = NoQuery
    \/ cfg.scenario.gt_post.rows["post"] # DbError

\* _fire_drift up to and including the baseline probe.
DriftApplied ==
    /\ db' = "post"
    /\ drift_fired_step' = NextStep
    /\ changelog_entries' = changelog_entries + 1
    /\ baseline_postdrift_raises' = (cfg.scenario.baseline.rows["post"] = DbError)

\* Mutant: the post-drift ground truth is never computed.
FireDriftStaleTruth ==
    /\ TruthResolves
    /\ DriftApplied
    /\ UNCHANGED gt_result_hash_postdrift

FireDrift ==
    /\ TruthResolves
    /\ DriftApplied
    /\ gt_result_hash_postdrift' = IF cfg.scenario.gt_post = NoQuery THEN NoHash
                                   ELSE cfg.scenario.gt_post.rows["post"]

MaybeFireDrift == IF DriftDue THEN FireDrift ELSE UNCHANGED driftVars

\* The phase a handler finds.
PhaseAfterDrift == IF DriftDue THEN "drift_recovery" ELSE phase

-----------------------------------------------------------------------------
(* The head and the tail of step() *)

CanStep == live /\ ~Over

StepHead(tool) ==
    /\ tool \in Tools
    /\ CanStep
    /\ step_count' = NextStep
    /\ MaybeFireDrift
    /\ UNCHANGED sessionVars

\* The tail of a step whose handler returned: "ok" is a result, any other code
\* a ToolError.  repeats and rebate are this step's signals to the rubric.
Returns(tool, code, rebate, repeats) ==
    LET isError == code # "ok"
        streak == IF isError THEN consecutive_tool_errors + 1 ELSE 0
    IN  /\ consecutive_tool_errors' = streak
        /\ outcome' =
             [tool |-> tool, code |-> code, matches |-> FALSE,
              done |-> step_count' >= cfg.budget, cards |-> drift_acknowledged',
              reward |-> StepReward(StepTax(FALSE, rebate),
                                    Gatekeepers(isError, streak, repeats, FALSE),
                                    ConsultDBA(cfg.oracle, tool = "consult_dba",
                                               consultations_used'))]
        /\ observed_steps' = observed_steps + 1
        /\ tax_return' = tax_return + StepTax(FALSE, rebate)
        /\ UNCHANGED <<submitVars, learned>>

\* A step that raises: the caller gets no observation, the step is spent.
Raises(tool) ==
    /\ outcome' = [NoOutcome EXCEPT !.tool = tool, !.code = "raised"]
    /\ UNCHANGED <<drift_acknowledged, diagnostic_actions_taken, rewardedVars,
                   failed_query_counts, consecutive_tool_errors,
                   consultations_used, submitVars, ledgerVars, learned>>

MarkDiagnostic ==
    /\ diagnostic_actions_taken' = diagnostic_actions_taken + 1
    /\ phase' = IF PhaseAfterDrift = "diagnose" THEN "rewrite" ELSE PhaseAfterDrift

\* The handler returned a ToolError: no rebate, no diagnostic credit.
ToolError(tool, code, repeats) ==
    /\ phase' = PhaseAfterDrift
    /\ Returns(tool, code, 0, repeats)
    /\ UNCHANGED <<diagnostic_actions_taken, rewardedVars>>

\* Mutant: the once-only flag is tested but never set.
GrantOnceForgets(attr) ==
    UNCHANGED rewardedVars

\* _grant_step_rebate_once sets the flag; OnceRebate is what this step earns.
GrantOnce(attr) ==
    /\ rewarded_once' = rewarded_once \cup {attr}
    /\ UNCHANGED <<described_tables_rewarded, sampled_tables_rewarded>>

OnceRebate(attr, amount) == IF attr \in rewarded_once THEN 0 ELSE amount

\* A diagnostic tool with a once-only rebate succeeds.
DiagnosticOnce(tool, attr, amount) ==
    /\ GrantOnce(attr)
    /\ MarkDiagnostic
    /\ Returns(tool, "ok", OnceRebate(attr, amount), 0)

-----------------------------------------------------------------------------
(* The tool handlers *)

ListTables ==
    /\ StepHead("list_tables")
    /\ UNCHANGED <<first_run_query_step, drift_acknowledged, failed_query_counts,
                   consultations_used>>
    /\ DiagnosticOnce("list_tables", "list_tables", STEP_REBATE_LIST_TABLES)

KnownTable(t) == t \in cfg.scenario.tables[db']

DescribeTable(t) ==
    /\ StepHead("describe_table")
    /\ UNCHANGED <<first_run_query_step, drift_acknowledged, failed_query_counts,
                   consultations_used>>
    /\ \/ /\ ~KnownTable(t)
          /\ ToolError("describe_table", "unknown_table", 0)
       \/ /\ KnownTable(t)
          /\ described_tables_rewarded' = described_tables_rewarded \cup {t}
          /\ UNCHANGED <<rewarded_once, sampled_tables_rewarded>>
          /\ MarkDiagnostic
          /\ Returns("describe_table", "ok",
                     IF t \in described_tables_rewarded THEN 0
                     ELSE STEP_REBATE_DESCRIBE_TABLE, 0)

SampleRows(t) ==
    /\ StepHead("sample_rows")
    /\ UNCHANGED <<first_run_query_step, drift_acknowledged, failed_query_counts,
                   consultations_used>>
    /\ \/ /\ ~KnownTable(t)
          /\ ToolError("sample_rows", "unknown_table", 0)
       \/ /\ KnownTable(t)
          /\ sampled_tables_rewarded' = sampled_tables_rewarded \cup {t}
          /\ UNCHANGED <<rewarded_once, described_tables_rewarded>>
          /\ MarkDiagnostic
          /\ Returns("sample_rows", "ok",
                     IF t \in sampled_tables_rewarded THEN 0
                     ELSE STEP_REBATE_SAMPLE_ROWS, 0)

\* Mutant: only a query that returned rows counts as the first run.
NoteFirstRunOnSuccess(q) ==
    first_run_query_step' =
        IF first_run_query_step = None /\ q.rows[db'] \in Hash /\ ~q.big
        THEN NextStep ELSE first_run_query_step

\* A run_query that passes the validator arms the drift, whatever its outcome.
NoteFirstRun(q) ==
    first_run_query_step' =
        IF first_run_query_step = None THEN NextStep ELSE first_run_query_step

RunQuery(q) ==
    /\ StepHead("run_query")
    /\ UNCHANGED <<drift_acknowledged, consultations_used>>
    /\ \/ /\ q.lex = "rejected"
          /\ ToolError("run_query", "invalid_tool_argument", 0)
          /\ UNCHANGED <<first_run_query_step, failed_query_counts>>
       \/ /\ q.lex = "accepted"
          /\ NoteFirstRun(q)
          /\ \/ /\ ToolError("run_query", "query_timeout", 0)
                /\ UNCHANGED failed_query_counts
             \/ /\ q.rows[db'] = DbError
                /\ failed_query_counts' = [failed_query_counts EXCEPT ![q] = @ + 1]
                /\ ToolError("run_query", "db_error", failed_query_counts'[q])
             \/ /\ q.rows[db'] # DbError /\ q.big
                /\ ToolError("run_query", "result_too_large", 0)
                /\ UNCHANGED failed_query_counts
             \/ /\ q.rows[db'] # DbError /\ ~q.big
                /\ DiagnosticOnce("run_query", "run_query", STEP_REBATE_RUN_QUERY)
                /\ UNCHANGED failed_query_counts

\* EXPLAIN only plans: a query that fails while it runs may still have a plan.
ExplainQuery(q) ==
    /\ StepHead("explain_query")
    /\ UNCHANGED <<first_run_query_step, drift_acknowledged, failed_query_counts,
                   consultations_used>>
    /\ \/ /\ q.lex = "rejected"
          /\ ToolError("explain_query", "invalid_tool_argument", 0)
       \/ /\ q.lex = "accepted"
          /\ \/ ToolError("explain_query", "query_timeout", 0)
             \/ /\ q.rows[db'] = DbError
                /\ ToolError("explain_query", "db_error", 0)
             \/ DiagnosticOnce("explain_query", "explain_query",
                               STEP_REBATE_EXPLAIN_QUERY)

\* Mutant: an empty changelog already acknowledges the drift.
AcknowledgeAlways ==
    /\ drift_acknowledged' = TRUE
    /\ DiagnosticOnce("read_changelog", "read_changelog",
                      STEP_REBATE_READ_CHANGELOG)

\* read_changelog acknowledges and is rewarded once there is an entry to read.
Acknowledge ==
    IF changelog_entries' > 0
    THEN /\ drift_acknowledged' = TRUE
         /\ DiagnosticOnce("read_changelog", "read_changelog",
                           STEP_REBATE_READ_CHANGELOG)
    ELSE /\ UNCHANGED <<drift_acknowledged, rewardedVars>>
         /\ MarkDiagnostic
         /\ Returns("read_changelog", "ok", 0, 0)

ReadChangelog ==
    /\ StepHead("read_changelog")
    /\ UNCHANGED <<first_run_query_step, failed_query_counts, consultations_used>>
    /\ Acknowledge

ConsultDba ==
    /\ StepHead("consult_dba")
    /\ UNCHANGED <<first_run_query_step, drift_acknowledged, failed_query_counts>>
    /\ \/ /\ ~(cfg.oracle /\ cfg.scenario.hints)
          /\ UNCHANGED consultations_used
          /\ ToolError("consult_dba", "invalid_tool_argument", 0)
       \/ /\ cfg.oracle /\ cfg.scenario.hints
          /\ consultations_used' = consultations_used + 1
          /\ phase' = PhaseAfterDrift
          /\ Returns("consult_dba", "ok", 0, 0)
          /\ UNCHANGED <<diagnostic_actions_taken, rewardedVars>>

-----------------------------------------------------------------------------
(* submit_rewrite *)

\* The ground truth that the handler's verdict takes after this step's drift.
GtHash == IF drift_fired_step' # None /\ gt_result_hash_postdrift' # NoHash
          THEN gt_result_hash_postdrift'
          ELSE cfg.scenario.gt_pre.rows["pre"]

\* Mutant: the rubric goes on with the ground truth of before the drift.
RubricGtHashStale == cfg.scenario.gt_pre.rows["pre"]

\* _gt_hash: the rubric's own selection, for Correctness and Speedup.
RubricGtHash ==
    IF drift_fired_step' = None \/ gt_result_hash_postdrift' = NoHash
    THEN cfg.scenario.gt_pre.rows["pre"] ELSE gt_result_hash_postdrift'

\* The avg_speedup of the playbook entry: an infinite ratio is capped.
StoredSpeedup(speedup) == IF speedup = INFTY THEN SPEEDUP_CAP_FOR_INFTY ELSE speedup

\* Mutant: every accepted submission is persisted.
PersistAny(correct, speedup) ==
    \/ UNCHANGED learned
    \/ learned' = learned \cup {[episode |-> episode, avg_speedup |-> StoredSpeedup(speedup)]}

\* _maybe_persist_learned_entry: a store that is absent or fails is tolerated.
Persist(correct, speedup) ==
    \/ UNCHANGED learned
    \/ /\ correct >= 1000
       /\ learned' = learned \cup {[episode |-> episode,
                                    avg_speedup |-> StoredSpeedup(speedup)]}

\* effective_speedup of a submission that measured this ratio.
EffectiveSpeedup(ratio) ==
    IF drift_fired_step' # None /\ baseline_postdrift_raises' THEN INFTY ELSE ratio

AcceptSubmission(q, ratio) ==
    LET hash == q.rows[db']
        right == hash = RubricGtHash
        speedup == EffectiveSpeedup(ratio)
        correct == Correctness(right, speedup)
    IN  /\ submitted' = TRUE
        /\ submitted_sql' = q
        /\ submitted_result_hash' = hash
        /\ submitted_speedup' = ratio
        /\ phase' = "finalize"
        /\ consecutive_tool_errors' = 0
        /\ outcome' =
             [tool |-> "submit_rewrite", code |-> "submitted", matches |-> hash = GtHash,
              done |-> TRUE, cards |-> drift_acknowledged',
              reward |-> SubmissionReward(
                  correct,
                  DriftAdapt(drift_fired_step' # None,
                             hash = gt_result_hash_postdrift',
                             q.uses_post, cfg.scenario.post_ids, q.uses_pre),
                  Speedup(right, speedup),
                  Gatekeepers(FALSE, 0, 0, q = cfg.scenario.baseline))]
        /\ Persist(correct, speedup)
        /\ observed_steps' = observed_steps + 1
        /\ UNCHANGED <<tax_return, diagnostic_actions_taken, rewardedVars>>

\* submit_rewrite before any successful diagnostic call is rejected.
MayNotSubmit == diagnostic_actions_taken = 0

SubmitRewrite(q) ==
    /\ StepHead("submit_rewrite")
    /\ UNCHANGED <<first_run_query_step, drift_acknowledged, failed_query_counts,
                   consultations_used>>
    /\ \/ /\ MayNotSubmit
          /\ ToolError("submit_rewrite", "submit_before_diagnose", 0)
       \/ /\ ~MayNotSubmit /\ q.lex = "rejected"
          /\ ToolError("submit_rewrite", "invalid_tool_argument", 0)
       \/ /\ ~MayNotSubmit /\ q.lex = "accepted"
          /\ \/ ToolError("submit_rewrite", "query_timeout", 0)
             \/ /\ q.rows[db'] = DbError
                /\ ToolError("submit_rewrite", "db_error", 0)
             \/ /\ q.rows[db'] # DbError
                /\ \E ratio \in Ratio : AcceptSubmission(q, ratio)

-----------------------------------------------------------------------------
(* Steps that raise *)

SqlTool == {"run_query", "explain_query", "submit_rewrite"}

\* The handler gets as far as the validator.
ReachesValidator(tool) == tool = "submit_rewrite" => ~MayNotSubmit

\* _fire_drift raises out of step(): a drift operation failed part way, or the
\* authored post-drift ground truth does not run on the drifted schema.
DriftRaises(tool) ==
    /\ tool \in Tools
    /\ CanStep
    /\ step_count' = NextStep
    /\ DriftDue
    /\ \/ /\ DriftFaults
          /\ db' \in {db, "partial"}
          /\ UNCHANGED <<drift_fired_step, changelog_entries, phase,
                         baseline_postdrift_raises, gt_result_hash_postdrift>>
       \/ /\ ~TruthResolves
          /\ DriftApplied
          /\ phase' = "drift_recovery"
          /\ UNCHANGED gt_result_hash_postdrift
    /\ Raises(tool)
    /\ UNCHANGED <<sessionVars, first_run_query_step>>

\* Mutant: a step that raises is not counted.
ValidatorRaisesUncounted(tool, q) ==
    /\ tool \in SqlTool \cap Tools
    /\ CanStep
    /\ ReachesValidator(tool)
    /\ q.lex = "raises"
    /\ MaybeFireDrift
    /\ phase' = PhaseAfterDrift
    /\ Raises(tool)
    /\ UNCHANGED <<sessionVars, step_count, first_run_query_step>>

\* sqlglot fails to tokenize the SQL: a TokenError is no ParseError, so the
\* validator does not turn it into a ValueError and it leaves step().
ValidatorRaises(tool, q) ==
    /\ tool \in SqlTool
    /\ ReachesValidator(tool)
    /\ q.lex = "raises"
    /\ StepHead(tool)
    /\ phase' = PhaseAfterDrift
    /\ Raises(tool)
    /\ UNCHANGED first_run_query_step

\* Mutant: the escalation leaves the rest of the budget usable.
AbortedStepCountUnspent == NextStep

AbortedStepCount == Larger(NextStep, cfg.budget)

\* The watchdog could not stop the worker: the connection is poisoned and the
\* rest of the budget is forfeited (QueryWatchdogEscalationError in step()).
Escalates(tool, q) ==
    /\ tool \in SqlTool \cap Tools
    /\ CanStep
    /\ ReachesValidator(tool)
    /\ q.lex = "accepted"
    /\ MaybeFireDrift
    /\ conns' = [conns EXCEPT ![episode] = "poisoned"]
    /\ step_count' = AbortedStepCount
    /\ phase' = "finalize"
    /\ IF tool = "run_query" THEN NoteFirstRun(q) ELSE UNCHANGED first_run_query_step
    /\ Raises(tool)
    /\ UNCHANGED <<cfg, episode>>

-----------------------------------------------------------------------------
(* The specification *)

ConnState == {"none", "open", "poisoned", "closed"}

Init ==
    /\ cfg = NoConfig
    /\ episode = 0
    /\ conns = [e \in 1..MaxEpisodes |-> "none"]
    /\ step_count = 0
    /\ phase = "diagnose"
    /\ first_run_query_step = None
    /\ db = "pre"
    /\ drift_fired_step = None
    /\ changelog_entries = 0
    /\ baseline_postdrift_raises = FALSE
    /\ gt_result_hash_postdrift = NoHash
    /\ drift_acknowledged = FALSE
    /\ diagnostic_actions_taken = 0
    /\ rewarded_once = {}
    /\ described_tables_rewarded = {}
    /\ sampled_tables_rewarded = {}
    /\ failed_query_counts = [q \in Query |-> 0]
    /\ consecutive_tool_errors = 0
    /\ consultations_used = 0
    /\ submitted = FALSE
    /\ submitted_sql = NoQuery
    /\ submitted_result_hash = NoHash
    /\ submitted_speedup = 0
    /\ outcome = NoOutcome
    /\ observed_steps = 0
    /\ tax_return = 0
    /\ learned = {}

\* One call of step() about tables of T or with SQL of Q.
StepOn(T, Q) ==
    \/ ListTables
    \/ \E t \in T : DescribeTable(t)
    \/ \E t \in T : SampleRows(t)
    \/ \E q \in Q : RunQuery(q)
    \/ \E q \in Q : ExplainQuery(q)
    \/ ReadChangelog
    \/ \E q \in Q : SubmitRewrite(q)
    \/ ConsultDba
    \/ \E tool \in ToolName : DriftRaises(tool)
    \/ \E tool \in SqlTool, q \in Q : ValidatorRaises(tool, q)
    \/ \E tool \in SqlTool, q \in Q : Escalates(tool, q)

Step == StepOn(Table, Query)

Next ==
    \/ \E s \in Scenario : \E n \in ScheduledSteps(s) :
           \E b \in Budget, o \in BOOLEAN : Reset(s, b, n, o)
    \/ Close
    \/ Step

Spec == Init /\ [][Next]_vars

-----------------------------------------------------------------------------
(* Type invariant *)

Config == [scenario : Scenario, budget : Budget, scheduled : Nat, oracle : BOOLEAN]

\* No reset builds the value that stands for a missing runtime.
ASSUME ConfigAssumption == NoConfig \notin Config

OutcomeType ==
    [tool : ToolName \cup {"reset"},
     code : ToolErrorCode \cup {"ok", "submitted", "raised"},
     matches : BOOLEAN, done : BOOLEAN, cards : BOOLEAN, reward : RewardType]

TypeOK ==
    /\ cfg \in Config \cup {NoConfig}
    /\ episode \in 0..MaxEpisodes
    /\ conns \in [1..MaxEpisodes -> ConnState]
    /\ step_count \in Nat
    /\ phase \in EpisodePhase
    /\ first_run_query_step \in Nat
    /\ db \in Schema
    /\ drift_fired_step \in Nat
    /\ changelog_entries \in Nat
    /\ baseline_postdrift_raises \in BOOLEAN
    /\ gt_result_hash_postdrift \in Hash \cup {NoHash}
    /\ drift_acknowledged \in BOOLEAN
    /\ diagnostic_actions_taken \in Nat
    /\ rewarded_once \subseteq OnceAttr
    /\ described_tables_rewarded \subseteq Table
    /\ sampled_tables_rewarded \subseteq Table
    /\ failed_query_counts \in [Query -> Nat]
    /\ consecutive_tool_errors \in Nat
    /\ consultations_used \in Nat
    /\ submitted \in BOOLEAN
    /\ submitted_sql \in Query \cup {NoQuery}
    /\ submitted_result_hash \in Hash \cup {NoHash}
    /\ submitted_speedup \in Ratio \cup {0}
    /\ outcome \in OutcomeType
    /\ observed_steps \in Nat
    /\ tax_return \in Int
    /\ learned \subseteq [episode : 0..MaxEpisodes, avg_speedup : Nat]

-----------------------------------------------------------------------------
(* Safety *)

\* The step at which a drift scenario drifts once its first query has run.
DueStep == Larger(cfg.scheduled,
                  first_run_query_step + Larger(1, cfg.scenario.cooldown_steps))

\* The drift fires at the later of its scheduled step and the cooldown after the
\* first valid run_query: never before the agent has probed the pre-drift
\* database, and late only by steps that raised, each of which tried; without
\* faults exactly then.  A query that failed, timed out or was too large arms it
\* as well (_maybe_fire_drift, the early first_run_query_step of run_query).
DriftOnTime ==
    live /\ cfg.scenario.drifts =>
        /\ drift_fired =>
               /\ first_run_query_step # None /\ drift_fired_step >= DueStep
               /\ ~DriftFaults => drift_fired_step = DueStep
        /\ ~drift_fired /\ first_run_query_step # None /\ ~connection_poisoned =>
               step_count < DueStep \/ outcome.code = "raised"
        /\ outcome.tool = "run_query"
           /\ outcome.code \notin {"invalid_tool_argument", "raised"} =>
               first_run_query_step # None

\* The scenario's post-drift ground truth exists and runs after the drift.
WellAuthored(s) ==
    s.drifts => s.gt_post # NoQuery /\ s.gt_post.rows["post"] \in Hash

\* The result the scenario calls right on the schema the episode has now.
Truth == IF db = "post" THEN cfg.scenario.gt_post.rows["post"]
         ELSE cfg.scenario.gt_pre.rows["pre"]

\* A submission is judged against the ground truth of the schema its SQL ran
\* on, also when the drift fired in the very step of the submission.
JudgedOnCurrentSchema ==
    live /\ submitted /\ WellAuthored(cfg.scenario) /\ db # "partial" =>
        /\ submitted_result_hash = submitted_sql.rows[db]
        /\ outcome.matches <=> submitted_result_hash = Truth

\* The tool result's verdict, Correctness and Speedup, and DriftAdapt select the
\* ground truth each for itself and never contradict one another
\* (_handle_submit_rewrite, _gt_hash, DriftAdapt).
RewardsAgree ==
    LET r == outcome.reward
    IN  live /\ submitted /\ WellAuthored(cfg.scenario) =>
            /\ outcome.matches <=> r.r_correct > 0
            /\ r.r_speedup > 0 => outcome.matches
            /\ r.r_drift > 0 => outcome.matches /\ drift_fired
            /\ r.r_drift < 0 => ~outcome.matches /\ drift_fired
            /\ r.r_correct = 1000 /\ submitted_speedup < SPEEDUP_MIN =>
                   drift_fired /\ baseline_postdrift_raises

\* The phase tells the history: "rewrite" means a diagnostic call succeeded and
\* no drift yet, "drift_recovery" an unanswered drift, "finalize" a submission
\* or a poisoned connection; a submission was preceded by a diagnosis.  And the
\* drift is acknowledged only by a changelog read after it fired: drift cards
\* and the changelog rebate are handed out on the same condition.
PhaseReflectsHistory ==
    live =>
        /\ phase = "diagnose" => diagnostic_actions_taken = 0 /\ ~drift_fired
        /\ phase = "rewrite" => diagnostic_actions_taken > 0 /\ ~drift_fired
        /\ phase = "drift_recovery" => drift_fired
        /\ phase = "finalize" <=> submitted \/ connection_poisoned
        /\ submitted => diagnostic_actions_taken > 0
        /\ changelog_entries = IF drift_fired THEN 1 ELSE 0
        /\ drift_acknowledged => drift_fired
        /\ drift_acknowledged <=> "read_changelog" \in rewarded_once
        /\ outcome.cards => drift_acknowledged

Earned(attr, amount) == IF attr \in rewarded_once THEN amount ELSE 0

\* The step-tax income of an episode is the tax of its observed steps plus each
\* rebate once: repeating a productive call, in any order and across a drift,
\* never earns its rebate again.
RebateLedger ==
    tax_return =
        STEP_TAX * (observed_steps - (IF submitted THEN 1 ELSE 0))
        + Earned("list_tables", STEP_REBATE_LIST_TABLES)
        + Earned("run_query", STEP_REBATE_RUN_QUERY)
        + Earned("explain_query", STEP_REBATE_EXPLAIN_QUERY)
        + Earned("read_changelog", STEP_REBATE_READ_CHANGELOG)
        + STEP_REBATE_DESCRIBE_TABLE * Cardinality(described_tables_rewarded)
        + STEP_REBATE_SAMPLE_ROWS * Cardinality(sampled_tables_rewarded)

\* A playbook entry comes from an accepted submission that matched and cleared
\* the bar, at most one per episode, and its speedup can be written as JSON.
LearnedOnlyFromWins ==
    /\ \A e \in learned : SPEEDUP_MIN <= e.avg_speedup /\ e.avg_speedup < INFTY
    /\ \A e, f \in learned : e.episode = f.episode => e = f
    /\ \A e \in learned : e.episode = episode /\ live =>
           submitted /\ outcome.matches /\ outcome.reward.r_correct = 1000

\* At most the current episode's connection is open, every earlier one was
\* closed or abandoned as poisoned, and no step runs on a poisoned one.
ConnectionsAccounted ==
    /\ \A e \in 1..MaxEpisodes :
           /\ conns[e] = "none" <=> e > episode
           /\ conns[e] = "open" => live /\ e = episode
    /\ live /\ connection_poisoned => Over

-----------------------------------------------------------------------------
(* Refinement *)

\* How an episode appears to the contract of EpisodeContract.
ContractStatus ==
    IF ~live THEN "none"
    ELSE IF submitted THEN "submitted"
    ELSE IF step_count >= cfg.budget THEN "exhausted" ELSE "open"

ContractLeft == IF live THEN budget_steps_remaining ELSE 0

ContractDrift ==
    IF ~live \/ ~drift_fired THEN "pending"
    ELSE IF drift_acknowledged THEN "acknowledged" ELSE "fired"

Contract == INSTANCE EpisodeContract
            WITH status <- ContractStatus, left <- ContractLeft, drift <- ContractDrift

\* The environment keeps the contract: every call that is accepted spends a
\* step, an ended episode stays as it ended until reset() or close(), and the
\* drift only moves forward.
KeepsContract == Contract!Spec
=============================================================================
