--------------------------- MODULE EpisodeProofs ----------------------------
(***************************************************************************)
(* Proofs about Episode, for every set of scenarios, queries, tables and   *)
(* budgets that satisfies the assumptions of that module.  Four parts:     *)
(* types; safety, resting on inductive strengthenings that tie the schema  *)
(* version, the drift and the recorded ground truth together; history:     *)
(* when the drift fires, what the phase and the flags tell of what         *)
(* happened, which connections are open, and that the environment          *)
(* implements EpisodeContract; and what an episode pays: the step tax and  *)
(* its rebates, the rewards of a submission, and what it learns.           *)
(***************************************************************************)
EXTENDS Episode, FiniteSetTheorems, TLAPS

Rebate == {0, 40, 50, 60, 80}

\* The ranges of the terminal components.
CorrectScore == {-1000, 0, 500, 1000}
DriftScore == {-500, 0, 500}
SpeedScore == 0..294
GateScore == -900..0

-----------------------------------------------------------------------------
(* Types: the reward operators stay in their ranges *)

\* A rebated step costs at most the tax and earns at most 0.05 (StepTax).
LEMMA StepTaxType ==
    ASSUME NEW rebate \in Rebate
    PROVE  StepTax(FALSE, rebate) \in -30..50
  BY DEF StepTax, STEP_TAX, Larger, Rebate

\* A failing step costs at most 0.9 (Gatekeepers).
LEMMA GatekeepersType ==
    ASSUME NEW isError, NEW streak \in Nat, NEW repeats \in Nat
    PROVE  Gatekeepers(isError, streak, repeats, FALSE) \in -900..0
  <1> DEFINE m1 == (-100) * Smaller(Larger(0, streak - 1), MAX_ESCALATION_STEPS)
             m2 == (-100) * Smaller(Larger(0, repeats - 1), MAX_ESCALATION_STEPS)
  <1>1. \A k \in {0, 1, 2, 3} : (-100) * k \in -300..0
    OBVIOUS
  <1>2. \A n \in Nat : Smaller(Larger(0, n - 1), MAX_ESCALATION_STEPS) \in {0, 1, 2, 3}
    BY DEF Smaller, Larger, MAX_ESCALATION_STEPS
  <1>3. m1 \in -300..0 /\ m2 \in -300..0
    BY <1>1, <1>2
  <1>4. Gatekeepers(isError, streak, repeats, FALSE) =
           (IF isError THEN -300 + m1 ELSE 0) + m2 + 0
    BY DEF Gatekeepers, GATE_MALFORMED_TOOL_CALL, GATE_CONSECUTIVE_TOOL_ERROR,
           GATE_REPEAT_FAILING_QUERY
  <1> DEFINE a == IF isError THEN -300 + m1 ELSE 0
  <1>5. a \in -600..0
    <2> HIDE DEF m1
    <2> QED  BY <1>3
  <1> DEFINE g == Gatekeepers(isError, streak, repeats, FALSE)
  <1>6. g = a + m2 + 0
    BY <1>4
  <1>7. m2 \in -300..0
    BY <1>3
  <1>8. g \in -900..0
    <2> HIDE DEF g, a, m2
    <2> QED  BY <1>5, <1>6, <1>7
  <1> QED
    BY <1>8

\* An accepted submission pays at most for handing in the baseline itself.
LEMMA VerbatimGate ==
    ASSUME NEW verbatim
    PROVE  Gatekeepers(FALSE, 0, 0, verbatim) \in -900..0
  <1>1. Smaller(Larger(0, 0 - 1), MAX_ESCALATION_STEPS) = 0
    BY DEF Smaller, Larger, MAX_ESCALATION_STEPS
  <1> DEFINE g == Gatekeepers(FALSE, 0, 0, verbatim)
             v == IF verbatim THEN -200 ELSE 0
  <1>2. g = 0 + (-100) * 0 + v
    BY <1>1 DEF Gatekeepers, GATE_REPEAT_FAILING_QUERY, GATE_BASELINE_VERBATIM
  <1>3. v \in -200..0
    OBVIOUS
  <1>4. g \in -900..0
    <2> HIDE DEF g, v
    <2> QED  BY <1>2, <1>3
  <1> QED
    BY <1>4

\* A tier of CONSULT_ESCALATION (ConsultDBA clamps the index at both ends).
LEMMA ConsultTier ==
    ASSUME NEW used \in Nat
    PROVE  CONSULT_ESCALATION[Larger(1, Smaller(used, 3))] \in -800..0
  <1>1. Larger(1, Smaller(used, 3)) \in {1, 2, 3}
    BY DEF Larger, Smaller
  <1> QED
    BY <1>1 DEF CONSULT_ESCALATION

LEMMA StepRewardType ==
    ASSUME NEW tax \in -30..50, NEW gates \in -900..0, NEW consult \in -800..0
    PROVE  StepReward(tax, gates, consult) \in RewardType
  <1>1. 0 \in 0..294
    OBVIOUS
  <1> QED
    BY <1>1 DEF StepReward, RewardType

\* A speedup component is between 0 and 0.294 (Speedup).
LEMMA SpeedupType ==
    ASSUME NEW match, NEW speedup \in RatioPoint \cup {INFTY}
    PROVE  Speedup(match, speedup) \in 0..294
  <1>1. \A r \in RatioPoint \cup {INFTY} : TanhScore(r) \in 0..294
    BY DEF TanhScore, RatioPoint, INFTY
  <1>2. SPEEDUP_CAP_FOR_INFTY \in RatioPoint
    BY DEF SPEEDUP_CAP_FOR_INFTY, RatioPoint
  <1> QED
    BY <1>1, <1>2 DEF Speedup

LEMMA SubmissionRewardType ==
    ASSUME NEW correct \in CorrectScore, NEW adapt \in DriftScore,
           NEW fast \in SpeedScore, NEW gates \in GateScore
    PROVE  SubmissionReward(correct, adapt, fast, gates) \in RewardType
  <1> DEFINE tax == StepTax(TRUE, 0)
  <1>1. 0 \in -800..0
    OBVIOUS
  <1>2. tax \in -30..50
    BY DEF StepTax
  <1>3. SubmissionReward(correct, adapt, fast, gates) =
           [r_correct |-> correct, r_drift |-> adapt, r_speedup |-> fast,
            r_step_tax |-> tax, r_gatekeepers |-> gates, r_consult_dba |-> 0]
    BY DEF SubmissionReward
  <1> HIDE DEF tax
  <1> QED
    BY <1>1, <1>2, <1>3 DEF RewardType, CorrectScore, DriftScore, SpeedScore, GateScore

-----------------------------------------------------------------------------
(* Type correctness, lemma by lemma along the parts of step() *)

\* The part of the state the head of a step writes.
HeadTypeOK ==
    /\ cfg \in Config \cup {NoConfig}
    /\ episode \in 0..MaxEpisodes
    /\ conns \in [1..MaxEpisodes -> ConnState]
    /\ step_count \in Nat
    /\ db \in Schema
    /\ drift_fired_step \in Nat
    /\ changelog_entries \in Nat
    /\ baseline_postdrift_raises \in BOOLEAN
    /\ gt_result_hash_postdrift \in Hash \cup {NoHash}

\* The part the tail of a step writes.
TailTypeOK ==
    /\ consecutive_tool_errors \in Nat
    /\ submitted \in BOOLEAN
    /\ submitted_sql \in Query \cup {NoQuery}
    /\ submitted_result_hash \in Hash \cup {NoHash}
    /\ submitted_speedup \in Ratio \cup {0}
    /\ outcome \in OutcomeType
    /\ observed_steps \in Nat
    /\ tax_return \in Int
    /\ learned \subseteq [episode : 0..MaxEpisodes, avg_speedup : Nat]

\* The part the handlers write.
HandlerTypeOK ==
    /\ phase \in EpisodePhase
    /\ first_run_query_step \in Nat
    /\ drift_acknowledged \in BOOLEAN
    /\ diagnostic_actions_taken \in Nat
    /\ rewarded_once \subseteq OnceAttr
    /\ described_tables_rewarded \subseteq Table
    /\ sampled_tables_rewarded \subseteq Table
    /\ failed_query_counts \in [Query -> Nat]
    /\ consultations_used \in Nat

LEMMA TypeParts == HeadTypeOK' /\ TailTypeOK' /\ HandlerTypeOK' => TypeOK'
  BY DEF TypeOK, HeadTypeOK, TailTypeOK, HandlerTypeOK

\* The current configuration, once there is an episode.
LEMMA LiveConfig ==
    ASSUME TypeOK, live
    PROVE  /\ cfg \in Config
           /\ cfg.scenario \in Scenario /\ cfg.scenario \in ScenarioInstance
           /\ cfg.budget \in Nat /\ cfg.scheduled \in Nat /\ cfg.oracle \in BOOLEAN
  BY ScenarioAssumption, BoundAssumption DEF TypeOK, live, Config

LEMMA DriftAppliedType ==
    ASSUME TypeOK, live, DriftApplied
    PROVE  /\ db' \in Schema /\ drift_fired_step' \in Nat
           /\ changelog_entries' \in Nat /\ baseline_postdrift_raises' \in BOOLEAN
  BY DEF DriftApplied, TypeOK, Schema, NextStep

LEMMA MaybeFireDriftType ==
    ASSUME TypeOK, live, MaybeFireDrift
    PROVE  /\ db' \in Schema /\ drift_fired_step' \in Nat
           /\ changelog_entries' \in Nat /\ baseline_postdrift_raises' \in BOOLEAN
           /\ gt_result_hash_postdrift' \in Hash \cup {NoHash}
  <1>1. CASE DriftDue
    <2>1. FireDrift
      BY <1>1 DEF MaybeFireDrift
    <2>2. cfg.scenario.gt_post \in QueryText \cup {NoQuery}
      BY LiveConfig DEF ScenarioInstance
    <2>3. gt_result_hash_postdrift' \in Hash \cup {NoHash}
      BY <2>1, <2>2 DEF FireDrift, TruthResolves, QueryText, Schema
    <2> QED
      BY <2>1, <2>3, DriftAppliedType DEF FireDrift
  <1>2. CASE ~DriftDue
    BY <1>2 DEF MaybeFireDrift, driftVars, TypeOK
  <1> QED
    BY <1>1, <1>2

LEMMA StepHeadType ==
    ASSUME TypeOK, NEW tool \in ToolName, StepHead(tool)
    PROVE  HeadTypeOK' /\ live /\ step_count' \in Nat
  <1>1. live
    BY DEF StepHead, CanStep
  <1>2. step_count' \in Nat
    BY DEF StepHead, NextStep, TypeOK
  <1>3. cfg' = cfg /\ episode' = episode /\ conns' = conns
    BY DEF StepHead, sessionVars
  <1>4. MaybeFireDrift
    BY DEF StepHead
  <1> QED
    BY <1>1, <1>2, <1>3, <1>4, MaybeFireDriftType DEF TypeOK, HeadTypeOK

\* The tail of a step that returned an observation without submitting.
LEMMA ReturnsType ==
    ASSUME TypeOK, live, NEW tool \in ToolName, NEW code \in ToolErrorCode \cup {"ok"},
           NEW rebate \in Rebate, NEW repeats \in Nat,
           step_count' \in Nat, drift_acknowledged' \in BOOLEAN,
           consultations_used' \in Nat,
           Returns(tool, code, rebate, repeats)
    PROVE  TailTypeOK'
  <1> DEFINE isError == code # "ok"
             streak == IF isError THEN consecutive_tool_errors + 1 ELSE 0
             tax == StepTax(FALSE, rebate)
             gate == Gatekeepers(isError, streak, repeats, FALSE)
             consult == ConsultDBA(cfg.oracle, tool = "consult_dba", consultations_used')
  <1>1. streak \in Nat
    BY DEF TypeOK
  <1>2. tax \in -30..50
    BY StepTaxType
  <1>3. gate \in -900..0
    <2> HIDE DEF streak, isError
    <2> QED  BY <1>1, GatekeepersType
  <1>4. consult \in -800..0
    BY ConsultTier DEF ConsultDBA
  <1>5. StepReward(tax, gate, consult) \in RewardType
    <2> HIDE DEF tax, gate, consult
    <2> QED  BY <1>2, <1>3, <1>4, StepRewardType
  <1>6. cfg.budget \in Nat
    BY LiveConfig
  <1>7. outcome' \in OutcomeType
    <2>1. (step_count' >= cfg.budget) \in BOOLEAN
      OBVIOUS
    <2> QED  BY <1>5, <2>1 DEF Returns, OutcomeType
  <1>8. consecutive_tool_errors' \in Nat
    BY <1>1 DEF Returns
  <1>9. observed_steps' \in Nat /\ tax_return' \in Int
    <2>1. observed_steps' = observed_steps + 1 /\ tax_return' = tax_return + tax
      BY DEF Returns
    <2> HIDE DEF tax
    <2> QED  BY <1>2, <2>1 DEF TypeOK
  <1>10. UNCHANGED <<submitVars, learned>>
    BY DEF Returns
  <1> QED
    BY <1>7, <1>8, <1>9, <1>10 DEF TailTypeOK, TypeOK, submitVars

\* The tail of a step that raised.
LEMMA RaisesType ==
    ASSUME TypeOK, NEW tool \in ToolName, Raises(tool)
    PROVE  /\ TailTypeOK'
           /\ drift_acknowledged' \in BOOLEAN /\ diagnostic_actions_taken' \in Nat
           /\ rewarded_once' \subseteq OnceAttr
           /\ described_tables_rewarded' \subseteq Table
           /\ sampled_tables_rewarded' \subseteq Table
           /\ failed_query_counts' \in [Query -> Nat]
           /\ consultations_used' \in Nat
  <1>1. NoReward \in RewardType
    <2>1. 0 \in -30..50 /\ 0 \in -900..0 /\ 0 \in -800..0
      OBVIOUS
    <2> QED  BY <2>1, StepRewardType DEF NoReward
  <1>2. outcome' \in OutcomeType
    BY <1>1 DEF Raises, NoOutcome, OutcomeType
  <1> QED
    BY <1>2 DEF Raises, TailTypeOK, TypeOK, rewardedVars, submitVars, ledgerVars

LEMMA PhaseTypes ==
    ASSUME TypeOK
    PROVE  PhaseAfterDrift \in EpisodePhase /\ "rewrite" \in EpisodePhase
  BY DEF TypeOK, PhaseAfterDrift, EpisodePhase

\* A handler that answered with a ToolError.
LEMMA ToolErrorType ==
    ASSUME TypeOK, live, NEW tool \in ToolName, NEW code \in ToolErrorCode,
           NEW repeats \in Nat, step_count' \in Nat, drift_acknowledged' \in BOOLEAN,
           consultations_used' \in Nat, ToolError(tool, code, repeats)
    PROVE  /\ TailTypeOK' /\ phase' \in EpisodePhase
           /\ diagnostic_actions_taken' \in Nat
           /\ rewarded_once' \subseteq OnceAttr
           /\ described_tables_rewarded' \subseteq Table
           /\ sampled_tables_rewarded' \subseteq Table
  <1>1. Returns(tool, code, 0, repeats) /\ 0 \in Rebate
    BY DEF ToolError, Rebate
  <1>2. TailTypeOK'
    BY <1>1, ReturnsType
  <1> QED
    BY <1>2, PhaseTypes DEF ToolError, TypeOK, rewardedVars

LEMMA MarkDiagnosticType ==
    ASSUME TypeOK, MarkDiagnostic
    PROVE  phase' \in EpisodePhase /\ diagnostic_actions_taken' \in Nat
  BY PhaseTypes DEF MarkDiagnostic, TypeOK

\* A diagnostic tool that succeeded with a once-only rebate.
LEMMA DiagnosticOnceType ==
    ASSUME TypeOK, live, NEW tool \in ToolName, NEW attr \in OnceAttr,
           NEW amount \in Rebate, step_count' \in Nat,
           drift_acknowledged' \in BOOLEAN, consultations_used' \in Nat,
           DiagnosticOnce(tool, attr, amount)
    PROVE  /\ TailTypeOK' /\ phase' \in EpisodePhase
           /\ diagnostic_actions_taken' \in Nat
           /\ rewarded_once' \subseteq OnceAttr
           /\ described_tables_rewarded' \subseteq Table
           /\ sampled_tables_rewarded' \subseteq Table
  <1>1. OnceRebate(attr, amount) \in Rebate
    BY DEF OnceRebate, Rebate
  <1>2. Returns(tool, "ok", OnceRebate(attr, amount), 0)
    BY DEF DiagnosticOnce
  <1>3. TailTypeOK'
    BY <1>1, <1>2, ReturnsType
  <1>4. MarkDiagnostic /\ GrantOnce(attr)
    BY DEF DiagnosticOnce
  <1> QED
    BY <1>3, <1>4, MarkDiagnosticType DEF GrantOnce, TypeOK

\* The ground truth of the verdict and the one the rubric selects for itself are
\* the same.
LEMMA OneTruth == RubricGtHash = GtHash
  BY DEF RubricGtHash, GtHash

\* The tail of an accepted submission.
LEMMA AcceptSubmissionType ==
    ASSUME TypeOK, live, NEW q \in Query, NEW ratio \in Ratio,
           q.rows[db'] \in Hash, drift_fired_step' \in Nat,
           baseline_postdrift_raises' \in BOOLEAN, drift_acknowledged' \in BOOLEAN,
           AcceptSubmission(q, ratio)
    PROVE  /\ TailTypeOK' /\ phase' \in EpisodePhase
           /\ diagnostic_actions_taken' \in Nat
           /\ rewarded_once' \subseteq OnceAttr
           /\ described_tables_rewarded' \subseteq Table
           /\ sampled_tables_rewarded' \subseteq Table
  <1> DEFINE match == q.rows[db'] = GtHash
             speedup == EffectiveSpeedup(ratio)
             fired == drift_fired_step' # None
             matchesPost == q.rows[db'] = gt_result_hash_postdrift'
             correct == Correctness(match, speedup)
             adapt == DriftAdapt(fired, matchesPost, q.uses_post,
                                 cfg.scenario.post_ids, q.uses_pre)
             fast == Speedup(match, speedup)
             verbatim == q = cfg.scenario.baseline
             gate == Gatekeepers(FALSE, 0, 0, verbatim)
  <1>1. speedup \in RatioPoint \cup {INFTY}
    BY BoundAssumption DEF EffectiveSpeedup
  <1>2. correct \in CorrectScore
    BY DEF Correctness, CorrectScore
  <1>3. adapt \in DriftScore
    BY DEF DriftAdapt, DriftScore
  <1>4. fast \in SpeedScore
    <2> HIDE DEF match, speedup
    <2> QED  BY <1>1, SpeedupType DEF SpeedScore
  <1>5. gate \in GateScore
    <2> HIDE DEF verbatim
    <2> QED  BY VerbatimGate DEF GateScore
  <1>6. match \in BOOLEAN
    OBVIOUS
  <1> HIDE DEF match, correct, adapt, fast, verbatim, gate
  <1>7. SubmissionReward(correct, adapt, fast, gate) \in RewardType
    BY <1>2, <1>3, <1>4, <1>5, SubmissionRewardType
  <1>8. outcome' \in OutcomeType
    <2>1. outcome' = [tool |-> "submit_rewrite", code |-> "submitted",
                      matches |-> match, done |-> TRUE,
                      cards |-> drift_acknowledged',
                      reward |-> SubmissionReward(correct, adapt, fast, gate)]
      BY OneTruth DEF AcceptSubmission, match, correct, adapt, fast, gate, verbatim
    <2> QED  BY <1>6, <1>7, <2>1 DEF OutcomeType, ToolName
  <1>9. learned' \subseteq [episode : 0..MaxEpisodes, avg_speedup : Nat]
    <2>1. StoredSpeedup(speedup) \in Nat
      BY <1>1 DEF StoredSpeedup, SPEEDUP_CAP_FOR_INFTY, RatioPoint, INFTY
    <2>2. episode \in 0..MaxEpisodes
      BY DEF TypeOK
    <2>3. learned' \subseteq learned \cup {[episode |-> episode,
                                          avg_speedup |-> StoredSpeedup(speedup)]}
      BY DEF AcceptSubmission, Persist
    <2> QED  BY <2>1, <2>2, <2>3 DEF TypeOK
  <1>10. observed_steps' \in Nat /\ tax_return' \in Int
    BY DEF AcceptSubmission, TypeOK
  <1>11. TailTypeOK'
    BY <1>8, <1>9, <1>10 DEF AcceptSubmission, TailTypeOK, TypeOK
  <1> QED
    BY <1>11 DEF AcceptSubmission, TypeOK, rewardedVars, EpisodePhase

-----------------------------------------------------------------------------
(* One lemma per action *)

LEMMA CatalogType ==
    ASSUME TypeOK,
           \/ ListTables
           \/ \E t \in Table : DescribeTable(t)
           \/ \E t \in Table : SampleRows(t)
    PROVE  TypeOK'
  <1>1. CASE ListTables
    <2>1. StepHead("list_tables") /\ "list_tables" \in ToolName
      BY <1>1 DEF ListTables, ToolName
    <2>2. HeadTypeOK' /\ live /\ step_count' \in Nat
      BY <2>1, StepHeadType
    <2>3. /\ first_run_query_step' \in Nat /\ drift_acknowledged' \in BOOLEAN
          /\ failed_query_counts' \in [Query -> Nat] /\ consultations_used' \in Nat
      BY <1>1 DEF ListTables, TypeOK
    <2>4. DiagnosticOnce("list_tables", "list_tables", STEP_REBATE_LIST_TABLES)
      BY <1>1 DEF ListTables
    <2>5. "list_tables" \in OnceAttr /\ STEP_REBATE_LIST_TABLES \in Rebate
      BY DEF OnceAttr, STEP_REBATE_LIST_TABLES, Rebate
    <2> QED
      BY <2>1, <2>2, <2>3, <2>4, <2>5, DiagnosticOnceType, TypeParts DEF HandlerTypeOK
  <1>2. ASSUME NEW t \in Table, DescribeTable(t)
        PROVE  TypeOK'
    <2>1. StepHead("describe_table") /\ "describe_table" \in ToolName
      BY <1>2 DEF DescribeTable, ToolName
    <2>2. HeadTypeOK' /\ live /\ step_count' \in Nat
      BY <2>1, StepHeadType
    <2>3. /\ first_run_query_step' \in Nat /\ drift_acknowledged' \in BOOLEAN
          /\ failed_query_counts' \in [Query -> Nat] /\ consultations_used' \in Nat
      BY <1>2 DEF DescribeTable, TypeOK
    <2>4. CASE ToolError("describe_table", "unknown_table", 0)
      <3>1. "unknown_table" \in ToolErrorCode
        BY DEF ToolErrorCode
      <3> QED
        BY <2>1, <2>2, <2>3, <2>4, <3>1, ToolErrorType, TypeParts DEF HandlerTypeOK
    <2>5. CASE ~ToolError("describe_table", "unknown_table", 0)
      <3> DEFINE rebate == IF t \in described_tables_rewarded THEN 0
                           ELSE STEP_REBATE_DESCRIBE_TABLE
      <3>1. /\ described_tables_rewarded' = described_tables_rewarded \cup {t}
            /\ UNCHANGED <<rewarded_once, sampled_tables_rewarded>>
            /\ MarkDiagnostic
            /\ Returns("describe_table", "ok", rebate, 0)
        BY <1>2, <2>5 DEF DescribeTable
      <3>2. rebate \in Rebate
        BY DEF STEP_REBATE_DESCRIBE_TABLE, Rebate
      <3> HIDE DEF rebate
      <3>3. TailTypeOK'
        BY <2>1, <2>2, <2>3, <3>1, <3>2, ReturnsType
      <3> QED
        BY <2>2, <2>3, <3>1, <3>3, MarkDiagnosticType, TypeParts DEF HandlerTypeOK, TypeOK
    <2> QED
      BY <2>4, <2>5
  <1>3. ASSUME NEW t \in Table, SampleRows(t)
        PROVE  TypeOK'
    <2>1. StepHead("sample_rows") /\ "sample_rows" \in ToolName
      BY <1>3 DEF SampleRows, ToolName
    <2>2. HeadTypeOK' /\ live /\ step_count' \in Nat
      BY <2>1, StepHeadType
    <2>3. /\ first_run_query_step' \in Nat /\ drift_acknowledged' \in BOOLEAN
          /\ failed_query_counts' \in [Query -> Nat] /\ consultations_used' \in Nat
      BY <1>3 DEF SampleRows, TypeOK
    <2>4. CASE ToolError("sample_rows", "unknown_table", 0)
      <3>1. "unknown_table" \in ToolErrorCode
        BY DEF ToolErrorCode
      <3> QED
        BY <2>1, <2>2, <2>3, <2>4, <3>1, ToolErrorType, TypeParts DEF HandlerTypeOK
    <2>5. CASE ~ToolError("sample_rows", "unknown_table", 0)
      <3> DEFINE rebate == IF t \in sampled_tables_rewarded THEN 0
                           ELSE STEP_REBATE_SAMPLE_ROWS
      <3>1. /\ sampled_tables_rewarded' = sampled_tables_rewarded \cup {t}
            /\ UNCHANGED <<rewarded_once, described_tables_rewarded>>
            /\ MarkDiagnostic
            /\ Returns("sample_rows", "ok", rebate, 0)
        BY <1>3, <2>5 DEF SampleRows
      <3>2. rebate \in Rebate
        BY DEF STEP_REBATE_SAMPLE_ROWS, Rebate
      <3> HIDE DEF rebate
      <3>3. TailTypeOK'
        BY <2>1, <2>2, <2>3, <3>1, <3>2, ReturnsType
      <3> QED
        BY <2>2, <2>3, <3>1, <3>3, MarkDiagnosticType, TypeParts DEF HandlerTypeOK, TypeOK
    <2> QED
      BY <2>4, <2>5
  <1> QED
    BY <1>1, <1>2, <1>3

LEMMA ExplainQueryType ==
    ASSUME TypeOK, NEW q \in Query, ExplainQuery(q)
    PROVE  TypeOK'
  <1>1. StepHead("explain_query") /\ "explain_query" \in ToolName
    BY DEF ExplainQuery, ToolName
  <1>2. HeadTypeOK' /\ live /\ step_count' \in Nat
    BY <1>1, StepHeadType
  <1>3. /\ first_run_query_step' \in Nat /\ drift_acknowledged' \in BOOLEAN
        /\ failed_query_counts' \in [Query -> Nat] /\ consultations_used' \in Nat
    BY DEF ExplainQuery, TypeOK
  <1>4. CASE \E code \in ToolErrorCode : ToolError("explain_query", code, 0)
    BY <1>1, <1>2, <1>3, <1>4, ToolErrorType, TypeParts DEF HandlerTypeOK
  <1>5. CASE DiagnosticOnce("explain_query", "explain_query", STEP_REBATE_EXPLAIN_QUERY)
    <2>1. "explain_query" \in OnceAttr /\ STEP_REBATE_EXPLAIN_QUERY \in Rebate
      BY DEF OnceAttr, STEP_REBATE_EXPLAIN_QUERY, Rebate
    <2> QED
      BY <1>1, <1>2, <1>3, <1>5, <2>1, DiagnosticOnceType, TypeParts DEF HandlerTypeOK
  <1>6. {"invalid_tool_argument", "query_timeout", "db_error"} \subseteq ToolErrorCode
    BY DEF ToolErrorCode
  <1> QED
    BY <1>4, <1>5, <1>6 DEF ExplainQuery

LEMMA ReadChangelogType ==
    ASSUME TypeOK, ReadChangelog
    PROVE  TypeOK'
  <1>1. StepHead("read_changelog") /\ "read_changelog" \in ToolName
    BY DEF ReadChangelog, ToolName
  <1>2. HeadTypeOK' /\ live /\ step_count' \in Nat
    BY <1>1, StepHeadType
  <1>3. /\ first_run_query_step' \in Nat /\ drift_acknowledged' \in BOOLEAN
        /\ failed_query_counts' \in [Query -> Nat] /\ consultations_used' \in Nat
    BY DEF ReadChangelog, Acknowledge, TypeOK
  <1>4. CASE changelog_entries' > 0
    <2>1. DiagnosticOnce("read_changelog", "read_changelog", STEP_REBATE_READ_CHANGELOG)
      BY <1>4 DEF ReadChangelog, Acknowledge
    <2>2. "read_changelog" \in OnceAttr /\ STEP_REBATE_READ_CHANGELOG \in Rebate
      BY DEF OnceAttr, STEP_REBATE_READ_CHANGELOG, Rebate
    <2> QED
      BY <1>1, <1>2, <1>3, <2>1, <2>2, DiagnosticOnceType, TypeParts DEF HandlerTypeOK
  <1>5. CASE ~(changelog_entries' > 0)
    <2>1. /\ UNCHANGED rewardedVars /\ MarkDiagnostic
          /\ Returns("read_changelog", "ok", 0, 0)
      BY <1>5 DEF ReadChangelog, Acknowledge
    <2>2. TailTypeOK'
      BY <1>1, <1>2, <1>3, <2>1, ReturnsType DEF Rebate
    <2> QED
      BY <1>2, <1>3, <2>1, <2>2, MarkDiagnosticType, TypeParts
      DEF HandlerTypeOK, TypeOK, rewardedVars
  <1> QED
    BY <1>4, <1>5

LEMMA ConsultDbaType ==
    ASSUME TypeOK, ConsultDba
    PROVE  TypeOK'
  <1>1. StepHead("consult_dba") /\ "consult_dba" \in ToolName
    BY DEF ConsultDba, ToolName
  <1>2. HeadTypeOK' /\ live /\ step_count' \in Nat
    BY <1>1, StepHeadType
  <1>3. /\ first_run_query_step' \in Nat /\ drift_acknowledged' \in BOOLEAN
        /\ failed_query_counts' \in [Query -> Nat] /\ consultations_used' \in Nat
    BY DEF ConsultDba, TypeOK
  <1>4. CASE ToolError("consult_dba", "invalid_tool_argument", 0)
    <2>1. "invalid_tool_argument" \in ToolErrorCode
      BY DEF ToolErrorCode
    <2> QED
      BY <1>1, <1>2, <1>3, <1>4, <2>1, ToolErrorType, TypeParts DEF HandlerTypeOK
  <1>5. CASE ~ToolError("consult_dba", "invalid_tool_argument", 0)
    <2>1. /\ phase' = PhaseAfterDrift
          /\ Returns("consult_dba", "ok", 0, 0)
          /\ UNCHANGED <<diagnostic_actions_taken, rewardedVars>>
      BY <1>5 DEF ConsultDba
    <2>2. TailTypeOK'
      BY <1>1, <1>2, <1>3, <2>1, ReturnsType DEF Rebate
    <2> QED
      BY <1>2, <1>3, <2>1, <2>2, PhaseTypes, TypeParts
      DEF HandlerTypeOK, TypeOK, rewardedVars
  <1> QED
    BY <1>4, <1>5

LEMMA RunQueryType ==
    ASSUME TypeOK, NEW q \in Query, RunQuery(q)
    PROVE  TypeOK'
  <1>1. StepHead("run_query") /\ "run_query" \in ToolName
    BY DEF RunQuery, ToolName
  <1>2. HeadTypeOK' /\ live /\ step_count' \in Nat
    BY <1>1, StepHeadType
  <1>3. first_run_query_step' \in Nat
    BY DEF RunQuery, NoteFirstRun, NextStep, TypeOK
  <1>4. drift_acknowledged' \in BOOLEAN /\ consultations_used' \in Nat
    BY DEF RunQuery, TypeOK
  <1>5. failed_query_counts' \in [Query -> Nat]
    BY DEF RunQuery, TypeOK
  <1>6. CASE \E code \in ToolErrorCode, n \in Nat : ToolError("run_query", code, n)
    BY <1>1, <1>2, <1>3, <1>4, <1>5, <1>6, ToolErrorType, TypeParts DEF HandlerTypeOK
  <1>7. CASE DiagnosticOnce("run_query", "run_query", STEP_REBATE_RUN_QUERY)
    <2>1. "run_query" \in OnceAttr /\ STEP_REBATE_RUN_QUERY \in Rebate
      BY DEF OnceAttr, STEP_REBATE_RUN_QUERY, Rebate
    <2> QED
      BY <1>1, <1>2, <1>3, <1>4, <1>5, <1>7, <2>1, DiagnosticOnceType, TypeParts
      DEF HandlerTypeOK
  <1>8. {"invalid_tool_argument", "query_timeout", "db_error", "result_too_large"}
            \subseteq ToolErrorCode
    BY DEF ToolErrorCode
  <1>9. failed_query_counts'[q] \in Nat
    BY <1>5
  <1> QED
    BY <1>6, <1>7, <1>8, <1>9 DEF RunQuery

LEMMA SubmitRewriteType ==
    ASSUME TypeOK, NEW q \in Query, SubmitRewrite(q)
    PROVE  TypeOK'
  <1>1. StepHead("submit_rewrite") /\ "submit_rewrite" \in ToolName
    BY DEF SubmitRewrite, ToolName
  <1>2. HeadTypeOK' /\ live /\ step_count' \in Nat
    BY <1>1, StepHeadType
  <1>3. /\ first_run_query_step' \in Nat /\ drift_acknowledged' \in BOOLEAN
        /\ failed_query_counts' \in [Query -> Nat] /\ consultations_used' \in Nat
    BY DEF SubmitRewrite, TypeOK
  <1>4. CASE \E code \in ToolErrorCode : ToolError("submit_rewrite", code, 0)
    BY <1>1, <1>2, <1>3, <1>4, ToolErrorType, TypeParts DEF HandlerTypeOK
  <1>5. CASE q.rows[db'] # DbError /\ \E ratio \in Ratio : AcceptSubmission(q, ratio)
    <2>1. PICK ratio \in Ratio : AcceptSubmission(q, ratio)
      BY <1>5
    <2>2. q.rows[db'] \in Hash
      <3>1. db' \in Schema
        BY <1>2 DEF HeadTypeOK
      <3> QED
        BY <1>5, <3>1, QueryAssumption DEF QueryText
    <2>3. drift_fired_step' \in Nat /\ baseline_postdrift_raises' \in BOOLEAN
      BY <1>2 DEF HeadTypeOK
    <2> QED
      BY <1>2, <1>3, <2>1, <2>2, <2>3, AcceptSubmissionType, TypeParts DEF HandlerTypeOK
  <1>6. {"submit_before_diagnose", "invalid_tool_argument", "query_timeout", "db_error"}
            \subseteq ToolErrorCode
    BY DEF ToolErrorCode
  <1> QED
    BY <1>4, <1>5, <1>6 DEF SubmitRewrite

LEMMA SqlTools == SqlTool \subseteq ToolName
  BY DEF SqlTool, ToolName

LEMMA DriftRaisesType ==
    ASSUME TypeOK, NEW tool \in ToolName, DriftRaises(tool)
    PROVE  TypeOK'
  <1>1. live /\ Raises(tool)
    BY DEF DriftRaises, CanStep
  <1>2. HeadTypeOK'
    <2>1. /\ cfg' = cfg /\ episode' = episode /\ conns' = conns
          /\ step_count' \in Nat
      BY DEF DriftRaises, sessionVars, NextStep, TypeOK
    <2>2. CASE DriftApplied /\ UNCHANGED gt_result_hash_postdrift
      BY <1>1, <2>1, <2>2, DriftAppliedType DEF HeadTypeOK, TypeOK
    <2>3. CASE /\ db' \in {db, "partial"}
               /\ UNCHANGED <<drift_fired_step, changelog_entries,
                              baseline_postdrift_raises, gt_result_hash_postdrift>>
      BY <2>1, <2>3 DEF HeadTypeOK, TypeOK, Schema
    <2> QED
      BY <2>2, <2>3 DEF DriftRaises
  <1>3. phase' \in EpisodePhase
    BY DEF DriftRaises, EpisodePhase, TypeOK
  <1>4. first_run_query_step' \in Nat
    BY DEF DriftRaises, TypeOK
  <1> QED
    BY <1>1, <1>2, <1>3, <1>4, RaisesType, TypeParts DEF HandlerTypeOK

LEMMA ValidatorRaisesType ==
    ASSUME TypeOK, NEW tool \in SqlTool, NEW q \in Query, ValidatorRaises(tool, q)
    PROVE  TypeOK'
  <1>1. tool \in ToolName /\ StepHead(tool) /\ Raises(tool)
    BY SqlTools DEF ValidatorRaises
  <1>2. HeadTypeOK'
    BY <1>1, StepHeadType
  <1>3. phase' \in EpisodePhase /\ first_run_query_step' \in Nat
    BY PhaseTypes DEF ValidatorRaises, TypeOK
  <1> QED
    BY <1>1, <1>2, <1>3, RaisesType, TypeParts DEF HandlerTypeOK

LEMMA EscalatesType ==
    ASSUME TypeOK, NEW tool \in SqlTool, NEW q \in Query, Escalates(tool, q)
    PROVE  TypeOK'
  <1>1. tool \in ToolName /\ live /\ Raises(tool) /\ MaybeFireDrift
    BY SqlTools DEF Escalates, CanStep
  <1>2. cfg' = cfg /\ episode' = episode /\ conns' \in [1..MaxEpisodes -> ConnState]
    BY DEF Escalates, TypeOK, ConnState
  <1>3. step_count' \in Nat
    BY <1>1, LiveConfig DEF Escalates, AbortedStepCount, Larger, NextStep, TypeOK
  <1>4. HeadTypeOK'
    BY <1>1, <1>2, <1>3, MaybeFireDriftType DEF HeadTypeOK, TypeOK
  <1>5. phase' \in EpisodePhase
    BY DEF Escalates, EpisodePhase
  <1>6. first_run_query_step' \in Nat
    BY DEF Escalates, NoteFirstRun, NextStep, TypeOK
  <1> QED
    BY <1>1, <1>4, <1>5, <1>6, RaisesType, TypeParts DEF HandlerTypeOK

\* The outcome a caller of reset() sees.
LEMMA NoOutcomeType == NoOutcome \in OutcomeType
  <1>1. NoReward \in RewardType
    <2>1. 0 \in -30..50 /\ 0 \in -900..0 /\ 0 \in -800..0
      OBVIOUS
    <2> QED  BY <2>1, StepRewardType DEF NoReward
  <1> QED
    BY <1>1 DEF NoOutcome, OutcomeType

LEMMA ClosedType ==
    ASSUME TypeOK
    PROVE  Closed(conns) \in [1..MaxEpisodes -> ConnState]
  BY DEF Closed, TypeOK, ConnState

LEMMA ResetType ==
    ASSUME TypeOK, NEW s \in Scenario, NEW n \in ScheduledSteps(s),
           NEW b \in Budget, NEW o \in BOOLEAN, Reset(s, b, n, o)
    PROVE  TypeOK'
  <1>1. cfg' \in Config
    <2>1. s \in ScenarioInstance
      BY ScenarioAssumption
    <2>2. n \in Nat
      BY <2>1 DEF ScheduledSteps, ScenarioInstance, None
    <2> QED
      BY <2>2 DEF Reset, Config
  <1>2. episode' \in 0..MaxEpisodes /\ conns' \in [1..MaxEpisodes -> ConnState]
    BY ClosedType, BoundAssumption DEF Reset, TypeOK, ConnState
  <1>3. FreshRuntime /\ learned' = learned
    BY DEF Reset
  <1>4. HeadTypeOK'
    BY <1>1, <1>2, <1>3 DEF HeadTypeOK, FreshRuntime, Schema, None
  <1>5. outcome' \in OutcomeType /\ learned' \subseteq [episode : 0..MaxEpisodes,
                                                       avg_speedup : Nat]
    BY <1>3, NoOutcomeType DEF FreshRuntime, TypeOK
  <1>6. TailTypeOK'
    <2>1. /\ submitted_result_hash' \in Hash \cup {NoHash}
          /\ submitted_sql' \in Query \cup {NoQuery}
          /\ submitted_speedup' \in Ratio \cup {0}
      BY <1>3 DEF FreshRuntime
    <2>2. /\ consecutive_tool_errors' \in Nat
          /\ observed_steps' \in Nat /\ tax_return' \in Int
      BY <1>3 DEF FreshRuntime
    <2>3. submitted' \in BOOLEAN
      BY <1>3 DEF FreshRuntime
    <2> QED
      BY <1>5, <2>1, <2>2, <2>3 DEF TailTypeOK
  <1>7. HandlerTypeOK'
    BY <1>3 DEF HandlerTypeOK, FreshRuntime, EpisodePhase, None
  <1> QED
    BY <1>4, <1>6, <1>7, TypeParts

LEMMA CloseType ==
    ASSUME TypeOK, Close
    PROVE  TypeOK'
  <1>1. cfg' = NoConfig /\ conns' \in [1..MaxEpisodes -> ConnState]
    BY ClosedType DEF Close
  <1> QED
    BY <1>1 DEF Close, TypeOK, driftVars, rewardedVars, submitVars, ledgerVars

LEMMA InitType == Init => TypeOK
  <1> SUFFICES ASSUME Init PROVE TypeOK
    OBVIOUS
  <1>1. /\ cfg \in Config \cup {NoConfig} /\ episode \in 0..MaxEpisodes
        /\ conns \in [1..MaxEpisodes -> ConnState]
    BY BoundAssumption DEF Init, ConnState
  <1>2. outcome \in OutcomeType
    BY NoOutcomeType DEF Init
  <1>3. failed_query_counts \in [Query -> Nat]
        /\ learned \subseteq [episode : 0..MaxEpisodes, avg_speedup : Nat]
    BY DEF Init
  <1>4. /\ submitted_result_hash \in Hash \cup {NoHash}
        /\ submitted_sql \in Query \cup {NoQuery}
        /\ gt_result_hash_postdrift \in Hash \cup {NoHash}
        /\ submitted_speedup \in Ratio \cup {0}
    BY DEF Init
  <1>5. /\ step_count \in Nat /\ first_run_query_step \in Nat
        /\ drift_fired_step \in Nat /\ changelog_entries \in Nat
        /\ diagnostic_actions_taken \in Nat /\ consecutive_tool_errors \in Nat
        /\ consultations_used \in Nat /\ observed_steps \in Nat
        /\ tax_return \in Int
    BY DEF Init, None
  <1>6. /\ phase \in EpisodePhase /\ db \in Schema
        /\ baseline_postdrift_raises \in BOOLEAN
        /\ drift_acknowledged \in BOOLEAN /\ submitted \in BOOLEAN
    BY DEF Init, EpisodePhase, Schema
  <1>7. /\ rewarded_once \subseteq OnceAttr
        /\ described_tables_rewarded \subseteq Table
        /\ sampled_tables_rewarded \subseteq Table
    BY DEF Init
  <1> QED
    BY <1>1, <1>2, <1>3, <1>4, <1>5, <1>6, <1>7 DEF TypeOK

LEMMA StutterType == TypeOK /\ UNCHANGED vars => TypeOK'
  BY DEF TypeOK, vars, sessionVars, driftVars, rewardedVars, submitVars, ledgerVars

\* No step, reset, close or stutter leaves the type invariant.
LEMMA TypeStep == TypeOK /\ [Next]_vars => TypeOK'
  <1> SUFFICES ASSUME TypeOK, [Next]_vars PROVE TypeOK'
    OBVIOUS
  <1>1. CASE Step
    BY <1>1, CatalogType, RunQueryType, ExplainQueryType, ReadChangelogType,
       SubmitRewriteType, ConsultDbaType, DriftRaisesType, ValidatorRaisesType,
       EscalatesType DEF Step, StepOn
  <1>2. CASE Close
    BY <1>2, CloseType
  <1>3. CASE \E s \in Scenario : \E n \in ScheduledSteps(s) :
                 \E b \in Budget, o \in BOOLEAN : Reset(s, b, n, o)
    BY <1>3, ResetType
  <1>4. CASE UNCHANGED vars
    BY <1>4, StutterType
  <1> QED
    BY <1>1, <1>2, <1>3, <1>4 DEF Next

-----------------------------------------------------------------------------
(* The theorem *)

\* Every state of every episode is well typed: no handler, drift, raise, reset
\* or close leaves a counter, a rebate set, a reward component or the skill
\* store outside its range, whatever the SQL and the scenario (step(), reset()).
THEOREM TypeCorrect == Spec => []TypeOK
  BY InitType, TypeStep, PTL DEF Spec

-----------------------------------------------------------------------------
(* Safety: what an action does to the state the invariants relate *)

\* The drift of one step: nothing, the event, or a failed attempt that left
\* the tables half changed or the ground truth unresolved.
DriftStep ==
    \/ MaybeFireDrift
    \/ /\ DriftDue /\ DriftFaults
       /\ db' \in {db, "partial"}
       /\ UNCHANGED <<drift_fired_step, changelog_entries,
                      baseline_postdrift_raises, gt_result_hash_postdrift>>
    \/ /\ DriftDue /\ ~TruthResolves
       /\ DriftApplied
       /\ UNCHANGED gt_result_hash_postdrift

\* An accepted submission.
Submits == \E q \in Query : \E ratio \in Ratio :
              q.rows[db'] # DbError /\ AcceptSubmission(q, ratio)

\* Every step is taken in an episode that is not over, keeps the episode's
\* configuration, makes one drift step, and submits or leaves the submission.
LEMMA StepShape ==
    ASSUME Step
    PROVE  /\ live /\ ~submitted
           /\ UNCHANGED <<cfg, episode>>
           /\ DriftStep
           /\ Submits \/ UNCHANGED submitVars
  <1>1. ASSUME NEW tool, StepHead(tool)
        PROVE  live /\ ~submitted /\ UNCHANGED <<cfg, episode>> /\ MaybeFireDrift
    BY <1>1 DEF StepHead, CanStep, Over, sessionVars
  <1>2. ASSUME NEW tool, NEW code, NEW n, ToolError(tool, code, n)
        PROVE  UNCHANGED submitVars
    BY <1>2 DEF ToolError, Returns
  <1>3. ASSUME NEW tool, NEW attr, NEW amount, DiagnosticOnce(tool, attr, amount)
        PROVE  UNCHANGED submitVars
    BY <1>3 DEF DiagnosticOnce, Returns
  <1>4. CASE ListTables
    BY <1>1, <1>3, <1>4 DEF ListTables, DriftStep
  <1>5. ASSUME NEW t \in Table, DescribeTable(t) \/ SampleRows(t)
        PROVE  /\ live /\ ~submitted /\ UNCHANGED <<cfg, episode>> /\ DriftStep
               /\ UNCHANGED submitVars
    BY <1>1, <1>2, <1>5 DEF DescribeTable, SampleRows, DriftStep, Returns
  <1>6. ASSUME NEW q \in Query, RunQuery(q) \/ ExplainQuery(q)
        PROVE  /\ live /\ ~submitted /\ UNCHANGED <<cfg, episode>> /\ DriftStep
               /\ UNCHANGED submitVars
    BY <1>1, <1>2, <1>3, <1>6 DEF RunQuery, ExplainQuery, DriftStep
  <1>7. CASE ReadChangelog
    BY <1>1, <1>3, <1>7 DEF ReadChangelog, Acknowledge, DriftStep, Returns
  <1>8. ASSUME NEW q \in Query, SubmitRewrite(q)
        PROVE  /\ live /\ ~submitted /\ UNCHANGED <<cfg, episode>> /\ DriftStep
               /\ Submits \/ UNCHANGED submitVars
    BY <1>1, <1>2, <1>8 DEF SubmitRewrite, DriftStep, Submits
  <1>9. CASE ConsultDba
    BY <1>1, <1>2, <1>9 DEF ConsultDba, DriftStep, Returns
  <1>10. ASSUME NEW tool \in ToolName, DriftRaises(tool)
         PROVE  /\ live /\ ~submitted /\ UNCHANGED <<cfg, episode>> /\ DriftStep
                /\ UNCHANGED submitVars
    BY <1>10 DEF DriftRaises, CanStep, Over, sessionVars, Raises, DriftStep
  <1>11. ASSUME NEW tool \in SqlTool, NEW q \in Query, ValidatorRaises(tool, q)
         PROVE  /\ live /\ ~submitted /\ UNCHANGED <<cfg, episode>> /\ DriftStep
                /\ UNCHANGED submitVars
    BY <1>1, <1>11 DEF ValidatorRaises, Raises, DriftStep
  <1>12. ASSUME NEW tool \in SqlTool, NEW q \in Query, Escalates(tool, q)
         PROVE  /\ live /\ ~submitted /\ UNCHANGED <<cfg, episode>> /\ DriftStep
                /\ UNCHANGED submitVars
    BY <1>12 DEF Escalates, CanStep, Over, Raises, DriftStep
  <1> QED
    BY <1>4, <1>5, <1>6, <1>7, <1>8, <1>9, <1>10, <1>11, <1>12 DEF Step, StepOn

-----------------------------------------------------------------------------
(* The recorded ground truth *)

\* The drift has fired exactly when the database has the post-drift schema, and
\* then the recorded hash is the one the scenario calls right.
TruthInv ==
    live =>
        /\ drift_fired => db = "post" /\ cfg.scenario.drifts
        /\ ~drift_fired => db # "post" /\ gt_result_hash_postdrift = NoHash
        /\ drift_fired /\ WellAuthored(cfg.scenario) =>
               gt_result_hash_postdrift = cfg.scenario.gt_post.rows["post"]

LEMMA TruthStep ==
    ASSUME TypeOK, TruthInv, live, cfg' = cfg, DriftStep
    PROVE  TruthInv'
  <1>1. step_count \in Nat
    BY DEF TypeOK
  <1>2. CASE DriftDue /\ FireDrift
    BY <1>1, <1>2 DEF FireDrift, DriftApplied, DriftDue, NextStep, None, TruthInv,
       drift_fired, WellAuthored, live
  <1>3. CASE UNCHANGED driftVars
    BY <1>3 DEF driftVars, TruthInv, drift_fired, WellAuthored, live
  <1>4. CASE /\ DriftDue
             /\ db' \in {db, "partial"}
             /\ UNCHANGED <<drift_fired_step, gt_result_hash_postdrift>>
    BY <1>4 DEF DriftDue, TruthInv, drift_fired, live
  <1>5. CASE /\ DriftDue /\ ~TruthResolves /\ DriftApplied
             /\ UNCHANGED gt_result_hash_postdrift
    <2>1. cfg.scenario.drifts
      BY <1>5 DEF DriftDue
    <2>2. ~WellAuthored(cfg.scenario)
      BY <1>5, <2>1, HashAssumption DEF TruthResolves, WellAuthored
    <2> QED
      BY <1>1, <1>5, <2>1, <2>2 DEF DriftApplied, NextStep, None, TruthInv,
         drift_fired, WellAuthored, live
  <1> QED
    BY <1>2, <1>3, <1>4, <1>5 DEF DriftStep, MaybeFireDrift

\* The hash a submission is compared with is the ground truth of the schema it
\* ran on, unless a drift failed half way.
LEMMA GtHashIsTruth ==
    ASSUME TypeOK, TruthInv', live', cfg' = cfg, WellAuthored(cfg.scenario),
           db' # "partial", db' \in Schema, drift_fired_step' \in Nat
    PROVE  GtHash = IF db' = "post" THEN cfg.scenario.gt_post.rows["post"]
                    ELSE cfg.scenario.gt_pre.rows["pre"]
  <1>1. CASE drift_fired'
    <2>1. db' = "post" /\ cfg.scenario.drifts
      BY <1>1 DEF TruthInv
    <2>2. cfg.scenario.gt_post.rows["post"] \in Hash
      BY <2>1 DEF WellAuthored
    <2>3. gt_result_hash_postdrift' = cfg.scenario.gt_post.rows["post"]
      BY <1>1 DEF TruthInv
    <2> QED
      BY <1>1, <2>1, <2>2, <2>3, HashAssumption DEF GtHash, drift_fired
  <1>2. CASE ~drift_fired'
    BY <1>2 DEF TruthInv, GtHash, drift_fired
  <1> QED
    BY <1>1, <1>2

LEMMA JudgedStep ==
    ASSUME TypeOK, TypeOK', TruthInv, TruthInv', Step
    PROVE  JudgedOnCurrentSchema'
  <1>1. live /\ ~submitted /\ cfg' = cfg
    BY StepShape
  <1>2. CASE UNCHANGED submitVars
    BY <1>1, <1>2 DEF submitVars, JudgedOnCurrentSchema
  <1>3. CASE Submits
    <2>1. PICK q \in Query, ratio \in Ratio : AcceptSubmission(q, ratio)
      BY <1>3 DEF Submits
    <2> SUFFICES ASSUME WellAuthored(cfg.scenario), db' # "partial"
                 PROVE  /\ submitted_result_hash' = submitted_sql'.rows[db']
                        /\ outcome'.matches <=> submitted_result_hash' = Truth'
      BY <1>1 DEF JudgedOnCurrentSchema
    <2>2. submitted_sql' = q /\ submitted_result_hash' = q.rows[db']
      BY <2>1 DEF AcceptSubmission
    <2>3. outcome'.matches = (q.rows[db'] = GtHash)
      BY <2>1 DEF AcceptSubmission
    <2>4. GtHash = Truth'
      BY <1>1, GtHashIsTruth DEF Truth, TypeOK, live
    <2> QED
      BY <2>2, <2>3, <2>4
  <1> QED
    BY <1>2, <1>3, StepShape

JudgedInv == TypeOK /\ TruthInv /\ JudgedOnCurrentSchema

LEMMA JudgedInvariant == Spec => []JudgedInv
  <1>1. Init => JudgedInv
    BY InitType DEF Init, JudgedInv, TruthInv, JudgedOnCurrentSchema, live
  <1>2. JudgedInv /\ [Next]_vars => JudgedInv'
    <2> SUFFICES ASSUME JudgedInv, [Next]_vars PROVE JudgedInv'
      OBVIOUS
    <2>1. TypeOK'
      BY TypeStep DEF JudgedInv
    <2>2. CASE Step
      <3>1. TruthInv'
        BY <2>2, StepShape, TruthStep DEF JudgedInv
      <3> QED
        BY <2>1, <2>2, <3>1, JudgedStep DEF JudgedInv
    <2>3. CASE Close
      BY <2>1, <2>3 DEF Close, JudgedInv, TruthInv, JudgedOnCurrentSchema, live
    <2>4. ASSUME NEW s \in Scenario, NEW n \in ScheduledSteps(s),
                 NEW b \in Budget, NEW o \in BOOLEAN, Reset(s, b, n, o)
          PROVE  JudgedInv'
      <3>1. TruthInv'
        BY <2>4 DEF Reset, FreshRuntime, TruthInv, drift_fired
      <3>2. JudgedOnCurrentSchema'
        BY <2>4 DEF Reset, FreshRuntime, JudgedOnCurrentSchema
      <3> QED
        BY <2>1, <3>1, <3>2 DEF JudgedInv
    <2>5. CASE UNCHANGED vars
      BY <2>1, <2>5 DEF JudgedInv, TruthInv, JudgedOnCurrentSchema, vars, sessionVars,
         driftVars, submitVars, live, drift_fired, WellAuthored, Truth
    <2> QED
      BY <2>2, <2>3, <2>4, <2>5 DEF Next
  <1> QED
    BY <1>1, <1>2, PTL DEF Spec

\* For every scenario, agent and budget: a submission is judged against the
\* ground truth of the schema its SQL ran on, also when the drift fired in the
\* very step of the submission (_maybe_fire_drift before _handle_submit_rewrite).
THEOREM JudgedCorrectly == Spec => []JudgedOnCurrentSchema
  <1>1. JudgedInv => JudgedOnCurrentSchema
    BY DEF JudgedInv
  <1> QED
    BY <1>1, JudgedInvariant, PTL

-----------------------------------------------------------------------------
(* History: the four ways a step() goes *)

\* The flags a handler may set besides the phase.
HistoryFlags == <<diagnostic_actions_taken, drift_acknowledged, rewarded_once>>

\* A handler that leaves the flags, one that counts a diagnosis, and a changelog
\* that had an entry.
Leaves == phase' = PhaseAfterDrift /\ UNCHANGED HistoryFlags

Diagnoses ==
    /\ MarkDiagnostic
    /\ UNCHANGED drift_acknowledged
    /\ "read_changelog" \in rewarded_once' <=> "read_changelog" \in rewarded_once

Learns ==
    /\ MarkDiagnostic
    /\ changelog_entries' > 0
    /\ drift_acknowledged' = TRUE
    /\ "read_changelog" \in rewarded_once'

\* A step after whose head nothing ended the episode.
Answers ==
    /\ step_count' = NextStep
    /\ MaybeFireDrift
    /\ UNCHANGED <<conns, submitted>>
    /\ outcome'.cards => drift_acknowledged'
    /\ Leaves \/ Diagnoses \/ Learns

\* An accepted submission.
Hands ==
    /\ step_count' = NextStep
    /\ MaybeFireDrift
    /\ submitted' = TRUE
    /\ phase' = "finalize"
    /\ diagnostic_actions_taken # 0
    /\ outcome'.cards => drift_acknowledged'
    /\ UNCHANGED <<conns, HistoryFlags>>

\* The drift raises: nothing of it is recorded, or all but the ground truth.
Fails ==
    /\ step_count' = NextStep
    /\ DriftDue
    /\ \/ DriftFaults /\ UNCHANGED <<drift_fired_step, changelog_entries, phase>>
       \/ DriftApplied /\ phase' = "drift_recovery"
    /\ outcome'.code = "raised"
    /\ outcome'.cards = FALSE
    /\ UNCHANGED <<conns, submitted, HistoryFlags, first_run_query_step>>

\* The watchdog gives the worker up.
GivesUp ==
    /\ step_count' = AbortedStepCount
    /\ MaybeFireDrift
    /\ conns' = [conns EXCEPT ![episode] = "poisoned"]
    /\ phase' = "finalize"
    /\ outcome'.cards = FALSE
    /\ UNCHANGED <<submitted, HistoryFlags>>

LEMMA HeadAnswers ==
    ASSUME NEW tool, StepHead(tool)
    PROVE  /\ live /\ ~Over /\ cfg' = cfg /\ episode' = episode
           /\ step_count' = NextStep /\ MaybeFireDrift /\ conns' = conns
  BY DEF StepHead, CanStep, sessionVars

LEMMA ErrorAnswers ==
    ASSUME NEW tool, NEW code, NEW n, ToolError(tool, code, n),
           UNCHANGED drift_acknowledged
    PROVE  Leaves /\ submitted' = submitted /\ (outcome'.cards => drift_acknowledged')
  BY DEF ToolError, Returns, Leaves, HistoryFlags, rewardedVars, submitVars

LEMMA DiagnosisAnswers ==
    ASSUME NEW tool, NEW attr, NEW amount, DiagnosticOnce(tool, attr, amount)
    PROVE  /\ MarkDiagnostic /\ rewarded_once' = rewarded_once \cup {attr}
           /\ submitted' = submitted /\ (outcome'.cards => drift_acknowledged')
  BY DEF DiagnosticOnce, GrantOnce, Returns, submitVars

\* Every step goes one of the four ways, in an episode that is not over.
LEMMA StepKinds ==
    ASSUME Step
    PROVE  /\ live /\ ~Over /\ cfg' = cfg /\ episode' = episode
           /\ Answers \/ Hands \/ Fails \/ GivesUp
  <1> USE DEF Answers
  <1>1. CASE ListTables
    BY <1>1, HeadAnswers, DiagnosisAnswers DEF ListTables, Diagnoses
  <1>2. ASSUME NEW t \in Table, DescribeTable(t) \/ SampleRows(t)
        PROVE  /\ live /\ ~Over /\ cfg' = cfg /\ episode' = episode /\ Answers
    <2>1. /\ live /\ ~Over /\ cfg' = cfg /\ episode' = episode
          /\ step_count' = NextStep /\ MaybeFireDrift /\ conns' = conns
          /\ UNCHANGED drift_acknowledged
      BY <1>2, HeadAnswers DEF DescribeTable, SampleRows
    <2>2. CASE \E tool, code : ToolError(tool, code, 0)
      BY <2>1, <2>2, ErrorAnswers
    <2>3. CASE ~\E tool, code : ToolError(tool, code, 0)
      <3>1. /\ MarkDiagnostic /\ UNCHANGED rewarded_once
            /\ \E tool, rebate : Returns(tool, "ok", rebate, 0)
        BY <1>2, <2>3 DEF DescribeTable, SampleRows
      <3>2. submitted' = submitted /\ outcome'.cards = drift_acknowledged'
        BY <3>1 DEF Returns, submitVars
      <3> QED
        BY <2>1, <3>1, <3>2 DEF Diagnoses
    <2> QED
      BY <2>1, <2>2, <2>3
  <1>3. ASSUME NEW q \in Query, RunQuery(q) \/ ExplainQuery(q)
        PROVE  /\ live /\ ~Over /\ cfg' = cfg /\ episode' = episode /\ Answers
    <2>1. /\ live /\ ~Over /\ cfg' = cfg /\ episode' = episode
          /\ step_count' = NextStep /\ MaybeFireDrift /\ conns' = conns
          /\ UNCHANGED drift_acknowledged
      BY <1>3, HeadAnswers DEF RunQuery, ExplainQuery
    <2>2. CASE \E tool, code, n : ToolError(tool, code, n)
      BY <2>1, <2>2, ErrorAnswers
    <2>3. CASE ~\E tool, code, n : ToolError(tool, code, n)
      <3>1. \/ DiagnosticOnce("run_query", "run_query", STEP_REBATE_RUN_QUERY)
            \/ DiagnosticOnce("explain_query", "explain_query",
                              STEP_REBATE_EXPLAIN_QUERY)
        BY <1>3, <2>3 DEF RunQuery, ExplainQuery
      <3> QED
        BY <2>1, <3>1, DiagnosisAnswers DEF Diagnoses
    <2> QED
      BY <2>1, <2>2, <2>3
  <1>4. CASE ReadChangelog
    <2>1. CASE changelog_entries' > 0
      BY <1>4, <2>1, HeadAnswers, DiagnosisAnswers
         DEF ReadChangelog, Acknowledge, Learns
    <2>2. CASE ~(changelog_entries' > 0)
      BY <1>4, <2>2, HeadAnswers
         DEF ReadChangelog, Acknowledge, Diagnoses, Returns, submitVars, rewardedVars
    <2> QED
      BY <2>1, <2>2
  <1>5. ASSUME NEW q \in Query, SubmitRewrite(q)
        PROVE  /\ live /\ ~Over /\ cfg' = cfg /\ episode' = episode /\ (Answers \/ Hands)
    <2>1. /\ live /\ ~Over /\ cfg' = cfg /\ episode' = episode
          /\ step_count' = NextStep /\ MaybeFireDrift /\ conns' = conns
          /\ UNCHANGED drift_acknowledged
      BY <1>5, HeadAnswers DEF SubmitRewrite
    <2>2. CASE \E tool, code : ToolError(tool, code, 0)
      BY <2>1, <2>2, ErrorAnswers
    <2>3. CASE ~\E tool, code : ToolError(tool, code, 0)
      <3>1. ~MayNotSubmit /\ \E ratio \in Ratio : AcceptSubmission(q, ratio)
        BY <1>5, <2>3 DEF SubmitRewrite
      <3>2. /\ submitted' = TRUE /\ phase' = "finalize"
            /\ outcome'.cards = drift_acknowledged'
            /\ UNCHANGED <<diagnostic_actions_taken, rewarded_once>>
        BY <3>1 DEF AcceptSubmission, rewardedVars
      <3> QED
        BY <2>1, <3>1, <3>2 DEF Hands, MayNotSubmit, HistoryFlags
    <2> QED
      BY <2>1, <2>2, <2>3
  <1>6. CASE ConsultDba
    <2>1. UNCHANGED drift_acknowledged
      BY <1>6 DEF ConsultDba
    <2>2. CASE \E tool, code : ToolError(tool, code, 0)
      BY <1>6, <2>1, <2>2, HeadAnswers, ErrorAnswers DEF ConsultDba
    <2>3. CASE ~\E tool, code : ToolError(tool, code, 0)
      <3>1. /\ phase' = PhaseAfterDrift
            /\ Returns("consult_dba", "ok", 0, 0)
            /\ UNCHANGED <<diagnostic_actions_taken, rewardedVars>>
        BY <1>6, <2>3 DEF ConsultDba
      <3>2. submitted' = submitted /\ outcome'.cards = drift_acknowledged'
        BY <3>1 DEF Returns, submitVars
      <3>3. Leaves
        BY <2>1, <3>1 DEF Leaves, HistoryFlags, rewardedVars
      <3> QED
        BY <1>6, <3>2, <3>3, HeadAnswers DEF ConsultDba
    <2> QED
      BY <2>2, <2>3
  <1>7. ASSUME NEW tool \in ToolName, DriftRaises(tool)
        PROVE  /\ live /\ ~Over /\ cfg' = cfg /\ episode' = episode /\ Fails
    BY <1>7 DEF DriftRaises, CanStep, sessionVars, Raises, NoOutcome, Fails,
       HistoryFlags, rewardedVars, submitVars
  <1>8. ASSUME NEW tool \in SqlTool, NEW q \in Query, ValidatorRaises(tool, q)
        PROVE  /\ live /\ ~Over /\ cfg' = cfg /\ episode' = episode /\ Answers
    BY <1>8, HeadAnswers
       DEF ValidatorRaises, Raises, NoOutcome, Leaves, HistoryFlags, rewardedVars, submitVars
  <1>9. ASSUME NEW tool \in SqlTool, NEW q \in Query, Escalates(tool, q)
        PROVE  /\ live /\ ~Over /\ cfg' = cfg /\ episode' = episode /\ GivesUp
    BY <1>9 DEF Escalates, CanStep, Raises, NoOutcome, GivesUp, HistoryFlags,
       rewardedVars, submitVars
  <1> QED
    BY <1>1, <1>2, <1>3, <1>4, <1>5, <1>6, <1>7, <1>8, <1>9 DEF Step, StepOn

-----------------------------------------------------------------------------
(* Phase and flags *)

\* An episode has a number, and a poisoned connection ends it: the budget is used
\* up.
PoisonEnds ==
    live => /\ episode > 0
            /\ connection_poisoned => step_count >= cfg.budget

PhaseInv == PhaseReflectsHistory /\ PoisonEnds

\* What a drift does to the log, and the phase a handler then finds.
LEMMA DriftedPhase ==
    ASSUME TypeOK, PhaseInv, live, ~submitted, ~connection_poisoned, MaybeFireDrift
    PROVE  /\ changelog_entries' = IF drift_fired' THEN 1 ELSE 0
           /\ drift_fired => drift_fired'
           /\ PhaseAfterDrift = "diagnose" =>
                  diagnostic_actions_taken = 0 /\ ~drift_fired'
           /\ PhaseAfterDrift = "rewrite" =>
                  diagnostic_actions_taken > 0 /\ ~drift_fired'
           /\ PhaseAfterDrift = "drift_recovery" => drift_fired'
           /\ PhaseAfterDrift # "finalize"
  <1>1. CASE DriftDue
    <2>1. drift_fired' /\ changelog_entries' = changelog_entries + 1
      BY <1>1 DEF MaybeFireDrift, FireDrift, DriftApplied, drift_fired, NextStep, None,
         TypeOK
    <2> QED
      BY <1>1, <2>1 DEF DriftDue, PhaseAfterDrift, PhaseInv, PhaseReflectsHistory
  <1>2. CASE ~DriftDue
    <2>1. drift_fired' = drift_fired /\ changelog_entries' = changelog_entries
      BY <1>2 DEF MaybeFireDrift, driftVars, drift_fired
    <2> QED
      BY <1>2, <2>1 DEF PhaseAfterDrift, PhaseInv, PhaseReflectsHistory
  <1> QED
    BY <1>1, <1>2

\* Where a step is taken the episode has steps left.
LEMMA StepOpen ==
    ASSUME TypeOK, Step
    PROVE  /\ live /\ ~submitted /\ step_count < cfg.budget /\ cfg.budget \in Nat
           /\ cfg' = cfg /\ episode' = episode /\ live' /\ step_count \in Nat
  <1>1. live /\ ~Over /\ cfg' = cfg /\ episode' = episode
    BY StepKinds
  <1>2. cfg.budget \in Nat /\ step_count \in Nat
    BY <1>1, LiveConfig DEF TypeOK
  <1>3. ~submitted /\ ~(budget_steps_remaining <= 0)
    BY <1>1 DEF Over
  <1>4. step_count < cfg.budget
    BY <1>2, <1>3 DEF budget_steps_remaining, Larger
  <1> QED
    BY <1>1, <1>2, <1>3, <1>4 DEF live

LEMMA PhaseStep ==
    ASSUME TypeOK, TypeOK', PhaseInv, Step
    PROVE  PhaseInv'
  <1>1. /\ live /\ ~submitted /\ step_count < cfg.budget /\ cfg.budget \in Nat
        /\ cfg' = cfg /\ episode' = episode /\ live' /\ step_count \in Nat
    BY StepOpen
  <1>2. ~connection_poisoned
    BY <1>1 DEF PhaseInv, PoisonEnds
  <1>3. /\ drift_acknowledged => drift_fired
        /\ drift_acknowledged <=> "read_changelog" \in rewarded_once
    BY <1>1 DEF PhaseInv, PhaseReflectsHistory
  <1>4. CASE Answers
    <2>1. submitted' = submitted /\ ~connection_poisoned'
      BY <1>1, <1>2, <1>4 DEF Answers, connection_poisoned
    <2>2. MaybeFireDrift
      BY <1>4 DEF Answers
    <2>3. CASE Leaves
      BY <1>1, <1>2, <1>3, <1>4, <2>1, <2>2, <2>3, DriftedPhase
         DEF Answers, Leaves, HistoryFlags, PhaseInv, PoisonEnds, PhaseReflectsHistory
    <2>4. CASE Diagnoses
      BY <1>1, <1>2, <1>3, <1>4, <2>1, <2>2, <2>4, DriftedPhase
         DEF Answers, Diagnoses, MarkDiagnostic, PhaseInv, PoisonEnds,
             PhaseReflectsHistory, TypeOK
    <2>5. CASE Learns
      BY <1>1, <1>2, <1>3, <1>4, <2>1, <2>2, <2>5, DriftedPhase
         DEF Answers, Learns, MarkDiagnostic, PhaseInv, PoisonEnds,
             PhaseReflectsHistory, TypeOK
    <2> QED
      BY <1>4, <2>3, <2>4, <2>5 DEF Answers
  <1>5. CASE Hands
    <2>1. ~connection_poisoned'
      BY <1>1, <1>2, <1>5 DEF Hands, connection_poisoned
    <2> QED
      BY <1>1, <1>2, <1>3, <1>5, <2>1, DriftedPhase
         DEF Hands, HistoryFlags, PhaseInv, PoisonEnds, PhaseReflectsHistory, TypeOK
  <1>6. CASE Fails
    <2>1. ~connection_poisoned'
      BY <1>1, <1>2, <1>6 DEF Fails, connection_poisoned
    <2>2. CASE UNCHANGED <<drift_fired_step, changelog_entries, phase>>
      BY <1>1, <1>2, <1>3, <1>6, <2>1, <2>2
         DEF Fails, HistoryFlags, PhaseInv, PoisonEnds, PhaseReflectsHistory, drift_fired
    <2>3. CASE DriftApplied /\ phase' = "drift_recovery"
      <3>1. drift_fired' /\ ~drift_fired /\ changelog_entries' = changelog_entries + 1
        BY <1>6, <2>3 DEF Fails, DriftDue, DriftApplied, drift_fired, NextStep, None,
           TypeOK
      <3> QED
        BY <1>1, <1>2, <1>3, <1>6, <2>1, <2>3, <3>1
           DEF Fails, HistoryFlags, PhaseInv, PoisonEnds, PhaseReflectsHistory
    <2> QED
      BY <1>6, <2>2, <2>3 DEF Fails
  <1>7. CASE GivesUp
    <2>1. connection_poisoned' /\ submitted' = FALSE
      <3>1. episode \in 1..MaxEpisodes
        BY <1>1 DEF PhaseInv, PoisonEnds, TypeOK
      <3> QED
        BY <1>1, <1>7 DEF GivesUp, connection_poisoned, TypeOK
    <2>2. step_count' >= cfg'.budget
      BY <1>1, <1>7 DEF GivesUp, AbortedStepCount, NextStep, Larger, TypeOK
    <2> QED
      BY <1>1, <1>2, <1>3, <1>7, <2>1, <2>2, DriftedPhase
         DEF GivesUp, HistoryFlags, PhaseInv, PoisonEnds, PhaseReflectsHistory
  <1> QED
    BY <1>4, <1>5, <1>6, <1>7, StepKinds

LEMMA SlotTypes ==
    ASSUME TypeOK
    PROVE  /\ MaxEpisodes \in Nat /\ episode \in Nat /\ episode <= MaxEpisodes
           /\ conns \in [1..MaxEpisodes -> ConnState]
  BY BoundAssumption DEF TypeOK

\* What a reset does to the connections.
LEMMA ResetSlots ==
    ASSUME TypeOK, NEW s \in Scenario, NEW n \in ScheduledSteps(s),
           NEW b \in Budget, NEW o \in BOOLEAN, Reset(s, b, n, o)
    PROVE  /\ episode' = episode + 1 /\ episode' \in 1..MaxEpisodes
           /\ conns' = [Closed(conns) EXCEPT ![episode'] = "open"]
           /\ conns'[episode'] = "open"
  <1>1. /\ episode < MaxEpisodes /\ episode' = episode + 1
        /\ conns' = [Closed(conns) EXCEPT ![episode + 1] = "open"]
    BY DEF Reset
  <1>2. episode' \in 1..MaxEpisodes
    BY <1>1, SlotTypes
  <1>3. Closed(conns) \in [1..MaxEpisodes -> ConnState]
    BY ClosedType
  <1> QED
    BY <1>1, <1>2, <1>3

LEMMA ResetLive ==
    ASSUME NEW s \in Scenario, NEW n \in ScheduledSteps(s),
           NEW b \in Budget, NEW o \in BOOLEAN, Reset(s, b, n, o)
    PROVE  live'
  <1>1. cfg' = [scenario |-> s, budget |-> b, scheduled |-> n, oracle |-> o]
    BY DEF Reset
  <1>2. n \in Nat
    BY ScenarioAssumption DEF ScheduledSteps, ScenarioInstance, None
  <1>3. cfg' \in Config
    BY <1>1, <1>2 DEF Config
  <1> QED
    BY <1>3, ConfigAssumption DEF live

\* Between steps the invariant is set up anew or nothing it speaks of changes.
LEMMA PhaseRest ==
    ASSUME TypeOK, PhaseInv,
           \/ UNCHANGED vars
           \/ Close
           \/ \E s \in Scenario : \E n \in ScheduledSteps(s) :
                  \E b \in Budget, o \in BOOLEAN : Reset(s, b, n, o)
    PROVE  PhaseInv'
  <1>1. CASE UNCHANGED vars
    BY <1>1 DEF PhaseInv, PhaseReflectsHistory, PoisonEnds, vars, sessionVars, driftVars,
       submitVars, rewardedVars, live, drift_fired, connection_poisoned
  <1>2. CASE Close
    BY <1>2 DEF Close, PhaseInv, PhaseReflectsHistory, PoisonEnds, live
  <1>3. ASSUME NEW s \in Scenario, NEW n \in ScheduledSteps(s),
               NEW b \in Budget, NEW o \in BOOLEAN, Reset(s, b, n, o)
        PROVE  PhaseInv'
    <2>1. episode' \in 1..MaxEpisodes /\ conns'[episode'] = "open"
      BY <1>3, ResetSlots
    <2>2. episode' > 0 /\ ~connection_poisoned'
      BY <2>1 DEF connection_poisoned
    <2> QED
      BY <1>3, <2>2 DEF Reset, FreshRuntime, NoOutcome, PhaseInv, PhaseReflectsHistory,
         PoisonEnds, drift_fired, None
  <1> QED
    BY <1>1, <1>2, <1>3

LEMMA PhaseInvariant == Spec => [](TypeOK /\ PhaseInv)
  <1>1. Init => TypeOK /\ PhaseInv
    BY InitType DEF Init, PhaseInv, PhaseReflectsHistory, PoisonEnds, live
  <1>2. (TypeOK /\ PhaseInv) /\ [Next]_vars => (TypeOK /\ PhaseInv)'
    BY TypeStep, PhaseStep, PhaseRest DEF Next
  <1> QED
    BY <1>1, <1>2, PTL DEF Spec

\* For every scenario, agent and budget: phase, acknowledgement, changelog and
\* once-only rebate tell one history (_mark_diagnostic_action, _fire_drift,
\* _handle_read_changelog, _handle_submit_rewrite).
THEOREM PhaseTellsHistory == Spec => []PhaseReflectsHistory
  <1>1. PhaseInv => PhaseReflectsHistory
    BY DEF PhaseInv
  <1> QED
    BY <1>1, PhaseInvariant, PTL

-----------------------------------------------------------------------------
(* Connections *)

ConnInv ==
    \A e \in 1..MaxEpisodes :
        /\ conns[e] = "none" <=> e > episode
        /\ conns[e] = "open" => live /\ e = episode

\* Once the runtime in use is closed no connection is open.
LEMMA ClosedSlots ==
    ASSUME TypeOK, PhaseInv, ConnInv
    PROVE  \A e \in 1..MaxEpisodes :
               /\ Closed(conns)[e] # "open"
               /\ Closed(conns)[e] = "none" <=> e > episode
  <1>1. conns \in [1..MaxEpisodes -> ConnState] /\ episode \in Nat
    BY SlotTypes
  <1>2. CASE live /\ conns[episode] = "open"
    <2>1. Closed(conns) = [conns EXCEPT ![episode] = "closed"]
      BY <1>2 DEF Closed
    <2> QED
      BY <1>1, <1>2, <2>1 DEF ConnInv
  <1>3. CASE ~(live /\ conns[episode] = "open")
    <2>1. Closed(conns) = conns
      BY <1>3 DEF Closed
    <2> QED
      BY <1>1, <1>3, <2>1 DEF ConnInv
  <1> QED
    BY <1>2, <1>3

LEMMA ConnStep ==
    ASSUME TypeOK, TypeOK', PhaseInv, ConnInv, [Next]_vars
    PROVE  ConnInv'
  <1>1. CASE Step
    <2>1. live /\ live' /\ episode' = episode
      BY <1>1, StepOpen
    <2>2. conns' = conns \/ conns' = [conns EXCEPT ![episode] = "poisoned"]
      BY <1>1, StepKinds DEF Answers, Hands, Fails, GivesUp
    <2>3. episode \in 1..MaxEpisodes
      BY <2>1, SlotTypes DEF PhaseInv, PoisonEnds
    <2> QED
      BY <2>1, <2>2, <2>3, SlotTypes DEF ConnInv
  <1>2. CASE Close
    <2>1. episode' = episode /\ conns' = Closed(conns)
      BY <1>2 DEF Close
    <2> QED
      BY <2>1, ClosedSlots DEF ConnInv
  <1>3. ASSUME NEW s \in Scenario, NEW n \in ScheduledSteps(s),
               NEW b \in Budget, NEW o \in BOOLEAN, Reset(s, b, n, o)
        PROVE  ConnInv'
    <2>1. /\ episode' = episode + 1 /\ episode' \in 1..MaxEpisodes
          /\ conns' = [Closed(conns) EXCEPT ![episode'] = "open"]
      BY <1>3, ResetSlots
    <2>2. live'
      BY <1>3, ResetLive
    <2>3. Closed(conns) \in [1..MaxEpisodes -> ConnState] /\ episode \in Nat
      BY ClosedType, SlotTypes
    <2> QED
      BY <2>1, <2>2, <2>3, ClosedSlots DEF ConnInv
  <1>4. CASE UNCHANGED vars
    BY <1>4 DEF vars, sessionVars, ConnInv, live
  <1> QED
    BY <1>1, <1>2, <1>3, <1>4 DEF Next

\* For every sequence of resets, steps and closes: at most the current episode's
\* connection is open, and no step runs on a poisoned one
\* (_close_existing_runtime, step).
THEOREM ConnectionsKept == Spec => []ConnectionsAccounted
  <1>1. Init => ConnInv
    BY DEF Init, ConnInv
  <1>2. TypeOK /\ TypeOK' /\ PhaseInv /\ ConnInv /\ [Next]_vars => ConnInv'
    BY ConnStep
  <1>3. TypeOK /\ PhaseInv /\ ConnInv => ConnectionsAccounted
    <2> SUFFICES ASSUME TypeOK, PhaseInv, ConnInv, live, connection_poisoned PROVE Over
      BY DEF ConnectionsAccounted, ConnInv
    <2>1. cfg.budget \in Nat /\ step_count \in Nat /\ step_count >= cfg.budget
      BY LiveConfig DEF TypeOK, PhaseInv, PoisonEnds
    <2> QED
      BY <2>1 DEF Over, budget_steps_remaining, Larger
  <1> QED
    BY <1>1, <1>2, <1>3, PhaseInvariant, PTL DEF Spec

-----------------------------------------------------------------------------
(* The time of the drift *)

\* run_query notes the first run, and nothing else does.
Notes ==
    /\ \/ first_run_query_step' = first_run_query_step
       \/ first_run_query_step = None /\ first_run_query_step' = NextStep
    /\ outcome'.tool = "run_query"
       /\ outcome'.code \notin {"invalid_tool_argument", "raised"} =>
           first_run_query_step' # None

LEMMA ReturnedOutcome ==
    ASSUME NEW tool, NEW code, NEW rebate, NEW n, Returns(tool, code, rebate, n)
    PROVE  outcome'.tool = tool /\ outcome'.code = code
  BY DEF Returns

LEMMA ErrorOutcome ==
    ASSUME NEW tool, NEW code, NEW n, ToolError(tool, code, n)
    PROVE  outcome'.tool = tool /\ outcome'.code = code
  BY ReturnedOutcome DEF ToolError

LEMMA DiagnosisOutcome ==
    ASSUME NEW tool, NEW attr, NEW amount, DiagnosticOnce(tool, attr, amount)
    PROVE  outcome'.tool = tool /\ outcome'.code = "ok"
  BY ReturnedOutcome DEF DiagnosticOnce

LEMMA RaisedOutcome ==
    ASSUME NEW tool, Raises(tool)
    PROVE  outcome'.code = "raised"
  BY DEF Raises, NoOutcome

LEMMA StepNotes ==
    ASSUME TypeOK, Step
    PROVE  Notes
  <1>1. NextStep # None
    BY DEF TypeOK, NextStep, None
  <1> HIDE DEF NextStep, None
  <1> USE DEF Notes
  <1>2. CASE ListTables
    BY <1>2, DiagnosisOutcome DEF ListTables
  <1>3. ASSUME NEW t \in Table, DescribeTable(t) PROVE Notes
    <2>1. outcome'.tool = "describe_table"
      BY <1>3, ErrorOutcome, ReturnedOutcome DEF DescribeTable
    <2> QED
      BY <1>3, <2>1 DEF DescribeTable
  <1>4. ASSUME NEW t \in Table, SampleRows(t) PROVE Notes
    <2>1. outcome'.tool = "sample_rows"
      BY <1>4, ErrorOutcome, ReturnedOutcome DEF SampleRows
    <2> QED
      BY <1>4, <2>1 DEF SampleRows
  <1>5. ASSUME NEW q \in Query, RunQuery(q) PROVE Notes
    <2>1. CASE NoteFirstRun(q)
      BY <1>1, <2>1 DEF NoteFirstRun
    <2>2. CASE /\ ToolError("run_query", "invalid_tool_argument", 0)
               /\ UNCHANGED first_run_query_step
      BY <2>2, ErrorOutcome
    <2> QED
      BY <1>5, <2>1, <2>2 DEF RunQuery
  <1>6. ASSUME NEW q \in Query, ExplainQuery(q) PROVE Notes
    <2>1. outcome'.tool = "explain_query"
      BY <1>6, ErrorOutcome, DiagnosisOutcome DEF ExplainQuery
    <2> QED
      BY <1>6, <2>1 DEF ExplainQuery
  <1>7. CASE ReadChangelog
    <2>1. outcome'.tool = "read_changelog"
      BY <1>7, DiagnosisOutcome, ReturnedOutcome DEF ReadChangelog, Acknowledge
    <2> QED
      BY <1>7, <2>1 DEF ReadChangelog
  <1>8. ASSUME NEW q \in Query, SubmitRewrite(q) PROVE Notes
    <2>1. ASSUME NEW ratio \in Ratio, AcceptSubmission(q, ratio)
          PROVE  outcome'.tool = "submit_rewrite"
      BY <2>1 DEF AcceptSubmission
    <2>2. outcome'.tool = "submit_rewrite"
      BY <1>8, <2>1, ErrorOutcome DEF SubmitRewrite
    <2> QED
      BY <1>8, <2>2 DEF SubmitRewrite
  <1>9. CASE ConsultDba
    <2>1. outcome'.tool = "consult_dba"
      BY <1>9, ErrorOutcome, ReturnedOutcome DEF ConsultDba
    <2> QED
      BY <1>9, <2>1 DEF ConsultDba
  <1>10. ASSUME NEW tool \in ToolName, DriftRaises(tool) PROVE Notes
    BY <1>10, RaisedOutcome DEF DriftRaises
  <1>11. ASSUME NEW tool \in SqlTool, NEW q \in Query, ValidatorRaises(tool, q)
         PROVE  Notes
    BY <1>11, RaisedOutcome DEF ValidatorRaises
  <1>12. ASSUME NEW tool \in SqlTool, NEW q \in Query, Escalates(tool, q)
         PROVE  Notes
    BY <1>12, RaisedOutcome DEF Escalates, NoteFirstRun
  <1> QED
    BY <1>2, <1>3, <1>4, <1>5, <1>6, <1>7, <1>8, <1>9, <1>10, <1>11, <1>12
       DEF Step, StepOn

\* The first query ran at some step so far; the drift fires when it is due or, if
\* it raised then, at a later step; while it is awaited, it is not due yet.
TimeInv ==
    live /\ cfg.scenario.drifts =>
        /\ first_run_query_step <= step_count
        /\ drift_fired =>
               /\ first_run_query_step # None /\ drift_fired_step >= DueStep
               /\ ~DriftFaults => drift_fired_step = DueStep
        /\ ~drift_fired /\ first_run_query_step # None /\ ~connection_poisoned =>
               step_count < DueStep \/ (DriftFaults /\ outcome.code = "raised")
        /\ outcome.tool = "run_query"
           /\ outcome.code \notin {"invalid_tool_argument", "raised"} =>
               first_run_query_step # None

\* The due step of a query that has run, in numbers.
LEMMA DueStepBound ==
    ASSUME TypeOK, live
    PROVE  /\ DueStep \in Nat /\ cfg.scheduled <= DueStep
           /\ first_run_query_step < DueStep
           /\ first_run_query_step <= step_count =>
                  (NextStep >= DueStep <=>
                   NextStep >= Larger(cfg.scheduled,
                                      first_run_query_step + cfg.scenario.cooldown_steps))
  <1>1. /\ cfg.scheduled \in Nat /\ cfg.scenario.cooldown_steps \in Nat
        /\ first_run_query_step \in Nat /\ step_count \in Nat
    <2>1. cfg.scheduled \in Nat /\ cfg.scenario \in Scenario
      BY LiveConfig DEF Config
    <2>2. cfg.scenario.cooldown_steps \in Nat
      BY <2>1, ScenarioAssumption DEF ScenarioInstance
    <2> QED
      BY <2>1, <2>2 DEF TypeOK
  <1> QED
    BY <1>1 DEF DueStep, Larger, NextStep

LEMMA LargerIsLater ==
    ASSUME NEW a \in Nat, NEW b \in Nat, NEW c \in Nat
    PROVE  Larger(a, b + Larger(1, c)) \in Nat /\ b < Larger(a, b + Larger(1, c))
  BY DEF Larger

LEMMA DueStepNext ==
    ASSUME TypeOK', live'
    PROVE  DueStep' \in Nat /\ first_run_query_step' < DueStep'
  <1>1. cfg'.scheduled \in Nat /\ cfg'.scenario \in Scenario
    BY DEF TypeOK, live, Config
  <1>2. cfg'.scenario.cooldown_steps \in Nat
    BY <1>1, ScenarioAssumption DEF ScenarioInstance
  <1>3. first_run_query_step' \in Nat
    BY DEF TypeOK
  <1>4. DueStep' = Larger(cfg'.scheduled,
                          first_run_query_step' + Larger(1, cfg'.scenario.cooldown_steps))
    BY DEF DueStep
  <1> HIDE DEF DueStep
  <1> QED
    BY <1>1, <1>2, <1>3, <1>4, LargerIsLater

LEMMA TimeStep ==
    ASSUME TypeOK, TypeOK', PhaseInv, TimeInv, Step
    PROVE  TimeInv'
  <1>1. /\ live /\ cfg' = cfg /\ live'
        /\ step_count \in Nat /\ first_run_query_step \in Nat
        /\ ~connection_poisoned
    <2>1. /\ live /\ step_count < cfg.budget /\ cfg.budget \in Nat
          /\ cfg' = cfg /\ live' /\ step_count \in Nat
      BY StepOpen
    <2>2. ~connection_poisoned
      BY <2>1 DEF PhaseInv, PoisonEnds
    <2> QED
      BY <2>1, <2>2 DEF TypeOK
  <1> SUFFICES ASSUME cfg.scenario.drifts PROVE TimeInv'
    BY <1>1 DEF TimeInv
  <1>2. Notes
    BY StepNotes
  <1>3. /\ DueStep \in Nat /\ first_run_query_step < DueStep
        /\ DueStep' \in Nat /\ first_run_query_step' < DueStep'
        /\ first_run_query_step' = first_run_query_step => DueStep' = DueStep
    BY <1>1, DueStepBound, DueStepNext DEF DueStep
  <1>4. DriftDue <=> ~drift_fired /\ first_run_query_step # None /\ NextStep >= DueStep
    BY <1>1, DueStepBound DEF DriftDue, TimeInv
  <1>5. NextStep \in Nat /\ NextStep = step_count + 1 /\ NextStep # None
    BY <1>1 DEF NextStep, None
  <1>6. step_count' \in Nat /\ step_count' >= NextStep
    <2>1. step_count' = NextStep \/ step_count' = AbortedStepCount
      BY StepKinds DEF Answers, Hands, Fails, GivesUp
    <2>2. cfg.budget \in Nat
      BY <1>1, LiveConfig
    <2> QED
      BY <1>5, <2>1, <2>2 DEF AbortedStepCount, Larger
  <1>7. first_run_query_step' <= step_count'
    BY <1>1, <1>2, <1>5, <1>6 DEF Notes, TimeInv
  <1>8. CASE DriftDue
    <2>1. /\ ~drift_fired /\ first_run_query_step # None /\ NextStep >= DueStep
          /\ first_run_query_step' = first_run_query_step /\ DueStep' = DueStep
      BY <1>2, <1>3, <1>4, <1>8 DEF Notes
    <2>2. ~DriftFaults => NextStep = DueStep
      BY <1>1, <1>3, <1>5, <2>1 DEF TimeInv
    <2>3. CASE drift_fired_step' = NextStep
      BY <1>2, <1>5, <1>7, <2>1, <2>2, <2>3 DEF Notes, TimeInv, drift_fired
    <2>4. CASE DriftFaults /\ drift_fired_step' = drift_fired_step /\ outcome'.code = "raised"
      BY <1>2, <1>7, <2>1, <2>4 DEF Notes, TimeInv, drift_fired
    <2> QED
      BY <1>8, <2>3, <2>4, StepKinds
         DEF Answers, Hands, Fails, GivesUp, MaybeFireDrift, FireDrift, DriftApplied
  <1>9. CASE ~DriftDue
    <2>1. drift_fired_step' = drift_fired_step
      BY <1>9, StepKinds DEF Answers, Hands, Fails, GivesUp, MaybeFireDrift, driftVars
    <2>2. CASE drift_fired
      <3>1. first_run_query_step # None /\ drift_fired_step >= DueStep
        BY <1>1, <2>2 DEF TimeInv
      <3>2. first_run_query_step' = first_run_query_step /\ DueStep' = DueStep
        BY <1>2, <1>3, <3>1 DEF Notes
      <3> QED
        BY <1>1, <1>2, <1>7, <2>1, <2>2, <3>1, <3>2 DEF Notes, TimeInv, drift_fired
    <2>3. CASE ~drift_fired
      <3>1. ~drift_fired'
        BY <2>1, <2>3 DEF drift_fired
      <3>2. ASSUME first_run_query_step' # None, ~connection_poisoned'
            PROVE  step_count' < DueStep'
        <4>1. step_count' = NextStep
          <5>1. ~GivesUp
            <6>1. episode \in 1..MaxEpisodes /\ episode' = episode
              BY <1>1, SlotTypes, StepOpen DEF PhaseInv, PoisonEnds
            <6> QED
              BY <3>2, <6>1, SlotTypes DEF GivesUp, connection_poisoned
          <5> QED
            BY <5>1, StepKinds DEF Answers, Hands, Fails
        <4>2. CASE first_run_query_step' = first_run_query_step
          BY <1>3, <1>4, <1>5, <1>9, <2>3, <3>2, <4>1, <4>2
        <4>3. CASE first_run_query_step' = NextStep
          BY <1>3, <4>1, <4>3
        <4> QED
          BY <1>2, <4>2, <4>3 DEF Notes
      <3> QED
        BY <1>2, <1>7, <3>1, <3>2 DEF Notes, TimeInv
    <2> QED
      BY <2>2, <2>3
  <1> QED
    BY <1>8, <1>9

LEMMA TimeRest ==
    ASSUME TypeOK, PhaseInv, TimeInv,
           \/ UNCHANGED vars
           \/ Close
           \/ \E s \in Scenario : \E n \in ScheduledSteps(s) :
                  \E b \in Budget, o \in BOOLEAN : Reset(s, b, n, o)
    PROVE  TimeInv'
  <1>1. CASE UNCHANGED vars
    BY <1>1 DEF TimeInv, DueStep, vars, sessionVars, driftVars, live, drift_fired,
       connection_poisoned
  <1>2. CASE Close
    BY <1>2 DEF Close, TimeInv, live
  <1>3. ASSUME NEW s \in Scenario, NEW n \in ScheduledSteps(s),
               NEW b \in Budget, NEW o \in BOOLEAN, Reset(s, b, n, o)
        PROVE  TimeInv'
    BY <1>3 DEF Reset, FreshRuntime, NoOutcome, TimeInv, drift_fired, None
  <1> QED
    BY <1>1, <1>2, <1>3

\* For every schedule, cooldown, agent and budget: the drift fires when it is due,
\* later only by steps that raised (_maybe_fire_drift, _fire_drift).
THEOREM DriftFiresOnTime == Spec => []DriftOnTime
  <1>1. Init => TimeInv
    BY DEF Init, TimeInv, live
  <1>2. TypeOK /\ TypeOK' /\ PhaseInv /\ TimeInv /\ [Next]_vars => TimeInv'
    BY TimeStep, TimeRest DEF Next
  <1>3. TimeInv => DriftOnTime
    BY DEF TimeInv, DriftOnTime
  <1> QED
    BY <1>1, <1>2, <1>3, PhaseInvariant, PTL DEF Spec

-----------------------------------------------------------------------------
(* The contract *)

\* Whatever a step does, the drift moves forward.
LEMMA DriftAdvances ==
    ASSUME TypeOK, PhaseInv, Step
    PROVE  Contract!DriftMayAdvance
  <1>1. live /\ live' /\ ~submitted
    BY StepOpen
  <1>2. drift_fired => drift_fired'
    BY StepKinds
       DEF Answers, Hands, Fails, GivesUp, MaybeFireDrift, FireDrift, DriftApplied,
           DriftDue, driftVars, drift_fired
  <1>3. drift_acknowledged => drift_acknowledged'
    BY StepKinds DEF Answers, Hands, Fails, GivesUp, Leaves, Diagnoses, Learns, HistoryFlags
  <1> QED
    BY <1>1, <1>2, <1>3 DEF Contract!DriftMayAdvance, ContractDrift

LEMMA ContractStepped ==
    ASSUME TypeOK, TypeOK', PhaseInv, Step
    PROVE  Contract!Next
  <1>1. /\ live /\ ~submitted /\ step_count < cfg.budget /\ cfg.budget \in Nat
        /\ cfg' = cfg /\ episode' = episode /\ live' /\ step_count \in Nat
    BY StepOpen
  <1>2. Contract!DriftMayAdvance
    BY DriftAdvances
  <1>3. ContractStatus = "open" /\ ContractLeft = cfg.budget - step_count
    BY <1>1 DEF ContractStatus, ContractLeft, budget_steps_remaining, Larger
  <1>4. CASE step_count' = NextStep
    <2>1. ContractLeft' = cfg.budget - (step_count + 1)
      BY <1>1, <1>4 DEF ContractLeft, budget_steps_remaining, NextStep, Larger
    <2>2. CASE submitted'
      <3>1. ContractStatus' = "submitted"
        BY <1>1, <2>2 DEF ContractStatus
      <3> QED
        BY <1>1, <1>2, <1>3, <2>1, <3>1 DEF Contract!Submit, Contract!Next
    <2>3. CASE ~submitted'
      <3>1. ContractStatus' = IF ContractLeft' = 0 THEN "exhausted" ELSE "open"
        BY <1>1, <1>4, <2>1, <2>3 DEF ContractStatus, NextStep
      <3> QED
        BY <1>1, <1>2, <1>3, <2>1, <3>1 DEF Contract!Spend, Contract!Next
    <2> QED
      BY <2>2, <2>3
  <1>5. CASE GivesUp
    <2>1. step_count' = cfg.budget /\ ~submitted'
      BY <1>1, <1>5 DEF GivesUp, AbortedStepCount, NextStep, Larger
    <2>2. ContractLeft' = 0 /\ ContractStatus' = "exhausted"
      BY <1>1, <2>1 DEF ContractLeft, ContractStatus, budget_steps_remaining, Larger
    <2> QED
      BY <1>2, <1>3, <2>2 DEF Contract!Abort, Contract!Next
  <1> QED
    BY <1>4, <1>5, StepKinds DEF Answers, Hands, Fails

LEMMA ContractRests ==
    ASSUME TypeOK, PhaseInv,
           \/ UNCHANGED vars
           \/ Close
           \/ \E s \in Scenario : \E n \in ScheduledSteps(s) :
                  \E b \in Budget, o \in BOOLEAN : Reset(s, b, n, o)
    PROVE  [Contract!Next]_(Contract!vars)
  <1>1. CASE UNCHANGED vars
    BY <1>1 DEF vars, sessionVars, driftVars, submitVars, Contract!vars, ContractStatus,
       ContractLeft, ContractDrift, live, drift_fired, budget_steps_remaining
  <1>2. CASE Close
    BY <1>2 DEF Close, live, ContractStatus, ContractLeft, ContractDrift,
       Contract!Stop, Contract!Next
  <1>3. ASSUME NEW s \in Scenario, NEW n \in ScheduledSteps(s),
               NEW b \in Budget, NEW o \in BOOLEAN, Reset(s, b, n, o)
        PROVE  Contract!Start
    <2>1. cfg' = [scenario |-> s, budget |-> b, scheduled |-> n, oracle |-> o]
      BY <1>3 DEF Reset
    <2>2. live'
      BY <1>3, ResetLive
    <2>3. step_count' = 0 /\ ~submitted' /\ ~drift_fired'
      BY <1>3 DEF Reset, FreshRuntime, drift_fired
    <2>4. b \in Nat \ {0} /\ cfg'.budget = b
      BY <2>1, BoundAssumption
    <2>5. ContractStatus' = "open" /\ ContractDrift' = "pending"
      BY <2>2, <2>3, <2>4 DEF ContractStatus, ContractDrift
    <2>6. ContractLeft' = b
      BY <2>2, <2>3, <2>4 DEF ContractLeft, budget_steps_remaining, Larger
    <2> QED
      BY <2>5, <2>6 DEF Contract!Start
  <1> QED
    BY <1>1, <1>2, <1>3 DEF Contract!Next

\* For every scenario, agent, budget and fault the environment implements the
\* contract: accepted calls spend the budget one by one, an end is final until
\* reset() or close(), the drift moves forward only (step, reset, close).
THEOREM ContractKept == Spec => KeepsContract
  <1>1. Init => Contract!Init
    BY DEF Init, Contract!Init, live, ContractStatus, ContractLeft, ContractDrift
  <1>2. TypeOK /\ TypeOK' /\ PhaseInv /\ [Next]_vars => [Contract!Next]_(Contract!vars)
    BY ContractStepped, ContractRests DEF Next
  <1> QED
    BY <1>1, <1>2, PhaseInvariant, PTL DEF Spec, KeepsContract, Contract!Spec

-----------------------------------------------------------------------------
(* Rewards: what a step pays *)

\* The handlers that grant a once-only rebate, and its amount.
OnceAmount ==
    {<<"list_tables", STEP_REBATE_LIST_TABLES>>, <<"run_query", STEP_REBATE_RUN_QUERY>>,
     <<"explain_query", STEP_REBATE_EXPLAIN_QUERY>>,
     <<"read_changelog", STEP_REBATE_READ_CHANGELOG>>}

\* A step that returned an observation with this rebate.
Pays(rebate) ==
    /\ observed_steps' = observed_steps + 1
    /\ tax_return' = tax_return + StepTax(FALSE, rebate)
    /\ UNCHANGED <<submitVars, learned>>

PaysNoRebate == Pays(0) /\ UNCHANGED rewardedVars

PaysOnce ==
    \E p \in OnceAmount :
        /\ Pays(OnceRebate(p[1], p[2]))
        /\ rewarded_once' = rewarded_once \cup {p[1]}
        /\ UNCHANGED <<described_tables_rewarded, sampled_tables_rewarded>>

PaysForDescribe ==
    \E t \in Table :
        /\ Pays(IF t \in described_tables_rewarded THEN 0 ELSE STEP_REBATE_DESCRIBE_TABLE)
        /\ described_tables_rewarded' = described_tables_rewarded \cup {t}
        /\ UNCHANGED <<rewarded_once, sampled_tables_rewarded>>

PaysForSample ==
    \E t \in Table :
        /\ Pays(IF t \in sampled_tables_rewarded THEN 0 ELSE STEP_REBATE_SAMPLE_ROWS)
        /\ sampled_tables_rewarded' = sampled_tables_rewarded \cup {t}
        /\ UNCHANGED <<rewarded_once, described_tables_rewarded>>

\* A step that raised.
PaysNothing == UNCHANGED <<rewardedVars, ledgerVars, submitVars, learned>>

StepPays ==
    \/ PaysNoRebate
    \/ PaysOnce
    \/ PaysForDescribe
    \/ PaysForSample
    \/ PaysNothing
    \/ Submits

LEMMA ReturnsPays ==
    ASSUME NEW tool, NEW code, NEW rebate, NEW n, Returns(tool, code, rebate, n)
    PROVE  Pays(rebate)
  BY DEF Returns, Pays

LEMMA ErrorPays ==
    ASSUME NEW tool, NEW code, NEW n, ToolError(tool, code, n)
    PROVE  PaysNoRebate
  BY ReturnsPays DEF ToolError, PaysNoRebate

LEMMA DiagnosisPays ==
    ASSUME NEW tool, NEW attr, NEW amount, DiagnosticOnce(tool, attr, amount),
           <<attr, amount>> \in OnceAmount
    PROVE  PaysOnce
  <1>1. Pays(OnceRebate(attr, amount))
    BY ReturnsPays DEF DiagnosticOnce
  <1>2. GrantOnce(attr)
    BY DEF DiagnosticOnce
  <1> QED
    BY <1>1, <1>2, Zenon DEF GrantOnce, PaysOnce

LEMMA RaisedPays ==
    ASSUME NEW tool, Raises(tool)
    PROVE  PaysNothing
  BY DEF Raises, PaysNothing

\* Every step pays in one of these ways.
LEMMA StepsPay ==
    ASSUME Step
    PROVE  StepPays
  <1> USE DEF StepPays
  <1>1. CASE ListTables
    BY <1>1, DiagnosisPays DEF ListTables, OnceAmount
  <1>2. ASSUME NEW t \in Table, DescribeTable(t) PROVE StepPays
    <2>1. CASE ToolError("describe_table", "unknown_table", 0)
      BY <2>1, ErrorPays
    <2>2. CASE ~ToolError("describe_table", "unknown_table", 0)
      <3> DEFINE rebate == IF t \in described_tables_rewarded THEN 0
                           ELSE STEP_REBATE_DESCRIBE_TABLE
      <3>1. /\ Returns("describe_table", "ok", rebate, 0)
            /\ described_tables_rewarded' = described_tables_rewarded \cup {t}
            /\ UNCHANGED <<rewarded_once, sampled_tables_rewarded>>
        BY <1>2, <2>2 DEF DescribeTable
      <3>2. Pays(rebate)
        BY <3>1, ReturnsPays
      <3> QED
        BY <3>1, <3>2 DEF PaysForDescribe
    <2> QED
      BY <2>1, <2>2
  <1>3. ASSUME NEW t \in Table, SampleRows(t) PROVE StepPays
    <2>1. CASE ToolError("sample_rows", "unknown_table", 0)
      BY <2>1, ErrorPays
    <2>2. CASE ~ToolError("sample_rows", "unknown_table", 0)
      <3> DEFINE rebate == IF t \in sampled_tables_rewarded THEN 0
                           ELSE STEP_REBATE_SAMPLE_ROWS
      <3>1. /\ Returns("sample_rows", "ok", rebate, 0)
            /\ sampled_tables_rewarded' = sampled_tables_rewarded \cup {t}
            /\ UNCHANGED <<rewarded_once, described_tables_rewarded>>
        BY <1>3, <2>2 DEF SampleRows
      <3>2. Pays(rebate)
        BY <3>1, ReturnsPays
      <3> QED
        BY <3>1, <3>2 DEF PaysForSample
    <2> QED
      BY <2>1, <2>2
  <1>4. ASSUME NEW q \in Query, RunQuery(q) PROVE StepPays
    <2>1. CASE \E code, n : ToolError("run_query", code, n)
      BY <2>1, ErrorPays
    <2>2. CASE DiagnosticOnce("run_query", "run_query", STEP_REBATE_RUN_QUERY)
      BY <2>2, DiagnosisPays DEF OnceAmount
    <2> QED
      BY <1>4, <2>1, <2>2 DEF RunQuery
  <1>5. ASSUME NEW q \in Query, ExplainQuery(q) PROVE StepPays
    <2>1. CASE \E code : ToolError("explain_query", code, 0)
      BY <2>1, ErrorPays
    <2>2. CASE DiagnosticOnce("explain_query", "explain_query", STEP_REBATE_EXPLAIN_QUERY)
      BY <2>2, DiagnosisPays DEF OnceAmount
    <2> QED
      BY <1>5, <2>1, <2>2 DEF ExplainQuery
  <1>6. CASE ReadChangelog
    <2>1. CASE DiagnosticOnce("read_changelog", "read_changelog",
                              STEP_REBATE_READ_CHANGELOG)
      BY <2>1, DiagnosisPays DEF OnceAmount
    <2>2. CASE UNCHANGED rewardedVars /\ Returns("read_changelog", "ok", 0, 0)
      BY <2>2, ReturnsPays DEF PaysNoRebate
    <2> QED
      BY <1>6, <2>1, <2>2 DEF ReadChangelog, Acknowledge, rewardedVars
  <1>7. ASSUME NEW q \in Query, SubmitRewrite(q) PROVE StepPays
    <2>1. CASE \E code : ToolError("submit_rewrite", code, 0)
      BY <2>1, ErrorPays
    <2> QED
      BY <1>7, <2>1 DEF SubmitRewrite, Submits
  <1>8. CASE ConsultDba
    <2>1. CASE ToolError("consult_dba", "invalid_tool_argument", 0)
      BY <2>1, ErrorPays
    <2>2. CASE UNCHANGED rewardedVars /\ Returns("consult_dba", "ok", 0, 0)
      BY <2>2, ReturnsPays DEF PaysNoRebate
    <2> QED
      BY <1>8, <2>1, <2>2 DEF ConsultDba, rewardedVars
  <1>9. ASSUME NEW tool \in ToolName, DriftRaises(tool) PROVE StepPays
    BY <1>9, RaisedPays DEF DriftRaises
  <1>10. ASSUME NEW tool \in SqlTool, NEW q \in Query, ValidatorRaises(tool, q)
         PROVE  StepPays
    BY <1>10, RaisedPays DEF ValidatorRaises
  <1>11. ASSUME NEW tool \in SqlTool, NEW q \in Query, Escalates(tool, q)
         PROVE  StepPays
    BY <1>11, RaisedPays DEF Escalates
  <1> QED
    BY <1>1, <1>2, <1>3, <1>4, <1>5, <1>6, <1>7, <1>8, <1>9, <1>10, <1>11
       DEF Step, StepOn

-----------------------------------------------------------------------------
(* The ledger of rebates *)

OnceIncome ==
    Earned("list_tables", STEP_REBATE_LIST_TABLES)
    + Earned("run_query", STEP_REBATE_RUN_QUERY)
    + Earned("explain_query", STEP_REBATE_EXPLAIN_QUERY)
    + Earned("read_changelog", STEP_REBATE_READ_CHANGELOG)

\* RebateLedger with the once-only rebates as one term.
LedgerSum ==
    tax_return = STEP_TAX * (observed_steps - (IF submitted THEN 1 ELSE 0)) + OnceIncome
                 + STEP_REBATE_DESCRIBE_TABLE * Cardinality(described_tables_rewarded)
                 + STEP_REBATE_SAMPLE_ROWS * Cardinality(sampled_tables_rewarded)

LEMMA OnceIncomeType ==
    OnceIncome \in Int
  BY DEF OnceIncome, Earned, STEP_REBATE_LIST_TABLES, STEP_REBATE_RUN_QUERY,
     STEP_REBATE_EXPLAIN_QUERY, STEP_REBATE_READ_CHANGELOG

\* A once-only rebate is paid exactly when its flag is set for the first time.
LEMMA OncePaid ==
    ASSUME NEW p \in OnceAmount, rewarded_once' = rewarded_once \cup {p[1]}
    PROVE  /\ OnceIncome' = OnceIncome + OnceRebate(p[1], p[2])
           /\ OnceRebate(p[1], p[2]) \in Nat
  <1>1. \/ p = <<"list_tables", STEP_REBATE_LIST_TABLES>>
        \/ p = <<"run_query", STEP_REBATE_RUN_QUERY>>
        \/ p = <<"explain_query", STEP_REBATE_EXPLAIN_QUERY>>
        \/ p = <<"read_changelog", STEP_REBATE_READ_CHANGELOG>>
    BY DEF OnceAmount
  <1> QED
    BY <1>1 DEF OnceIncome, Earned, OnceRebate, STEP_REBATE_LIST_TABLES,
       STEP_REBATE_RUN_QUERY, STEP_REBATE_EXPLAIN_QUERY, STEP_REBATE_READ_CHANGELOG

\* The rewarded tables are finitely many, and a new one counts one more.
LEMMA RewardedTables ==
    ASSUME NEW T \in SUBSET Table, NEW t
    PROVE  /\ Cardinality(T) \in Nat
           /\ Cardinality(T \cup {t}) = Cardinality(T) + (IF t \in T THEN 0 ELSE 1)
  <1>1. IsFiniteSet(T)
    BY BoundAssumption, FS_Subset
  <1>2. Cardinality(T) \in Nat
    BY <1>1, FS_CardinalityType
  <1>3. Cardinality(T \cup {t}) = IF t \in T THEN Cardinality(T) ELSE Cardinality(T) + 1
    BY <1>1, FS_AddElement
  <1> QED
    BY <1>2, <1>3

LEMMA TaxOfRebate ==
    ASSUME NEW r \in Nat
    PROVE  StepTax(FALSE, r) = STEP_TAX + r
  BY DEF StepTax, Larger, STEP_TAX

LEMMA LedgerTypes ==
    ASSUME TypeOK
    PROVE  /\ observed_steps \in Int /\ tax_return \in Int
           /\ described_tables_rewarded \in SUBSET Table
           /\ sampled_tables_rewarded \in SUBSET Table
           /\ Cardinality(described_tables_rewarded) \in Nat
           /\ Cardinality(sampled_tables_rewarded) \in Nat
           /\ OnceIncome \in Int
  <1>1. /\ observed_steps \in Int /\ tax_return \in Int
        /\ described_tables_rewarded \in SUBSET Table
        /\ sampled_tables_rewarded \in SUBSET Table
    BY DEF TypeOK
  <1> QED
    BY <1>1, RewardedTables, OnceIncomeType

LEMMA LedgerSums ==
    ASSUME TypeOK, LedgerSum
    PROVE  RebateLedger
  <1>1. /\ observed_steps \in Int
        /\ Cardinality(described_tables_rewarded) \in Nat
        /\ Cardinality(sampled_tables_rewarded) \in Nat
    BY LedgerTypes
  <1> QED
    BY <1>1
       DEF RebateLedger, LedgerSum, OnceIncome, Earned, STEP_REBATE_LIST_TABLES,
           STEP_REBATE_RUN_QUERY, STEP_REBATE_EXPLAIN_QUERY, STEP_REBATE_READ_CHANGELOG,
           STEP_TAX, STEP_REBATE_DESCRIBE_TABLE, STEP_REBATE_SAMPLE_ROWS

LEMMA LedgerStep ==
    ASSUME TypeOK, LedgerSum, Step
    PROVE  LedgerSum'
  <1> DEFINE o == observed_steps
             d == Cardinality(described_tables_rewarded)
             s == Cardinality(sampled_tables_rewarded)
             e == OnceIncome
             x == tax_return
  <1>1. o \in Int /\ x \in Int /\ d \in Nat /\ s \in Nat /\ e \in Int
    BY LedgerTypes
  <1>2. ~submitted /\ x = STEP_TAX * o + e + STEP_REBATE_DESCRIBE_TABLE * d
                            + STEP_REBATE_SAMPLE_ROWS * s
    <2>1. ~submitted
      BY StepShape
    <2> QED
      BY <1>1, <2>1 DEF LedgerSum, STEP_TAX
  <1>3. SUFFICES x' = STEP_TAX * (o' - (IF submitted' THEN 1 ELSE 0)) + e'
                      + STEP_REBATE_DESCRIBE_TABLE * d' + STEP_REBATE_SAMPLE_ROWS * s'
    BY DEF LedgerSum
  <1>4. UNCHANGED rewarded_once => e' = e
    BY DEF OnceIncome, Earned
  <1>5. /\ UNCHANGED described_tables_rewarded => d' = d
        /\ UNCHANGED sampled_tables_rewarded => s' = s
    OBVIOUS
  <1> HIDE DEF d, s, e
  <1> USE DEF STEP_TAX, STEP_REBATE_DESCRIBE_TABLE, STEP_REBATE_SAMPLE_ROWS
  <1>6. ASSUME NEW r \in Nat, Pays(r)
        PROVE  o' = o + 1 /\ x' = x - 30 + r /\ ~submitted'
    <2>1. StepTax(FALSE, r) = -30 + r
      BY TaxOfRebate
    <2>2. o' = o + 1 /\ submitted' = submitted
      BY <1>6 DEF Pays, submitVars
    <2>3. x' = x + StepTax(FALSE, r)
      BY <1>6 DEF Pays
    <2>4. x' = x + (-30 + r)
      BY <2>1, <2>3
    <2>5. x' = x - 30 + r
      BY <1>1, <2>4
    <2> QED
      BY <1>2, <2>2, <2>5, Zenon
  <1>7. CASE PaysNoRebate
    BY <1>1, <1>2, <1>4, <1>5, <1>6, <1>7 DEF PaysNoRebate, rewardedVars
  <1>8. CASE PaysOnce
    <2>1. PICK p \in OnceAmount :
              /\ Pays(OnceRebate(p[1], p[2]))
              /\ rewarded_once' = rewarded_once \cup {p[1]}
              /\ UNCHANGED <<described_tables_rewarded, sampled_tables_rewarded>>
      BY <1>8 DEF PaysOnce
    <2>2. e' = e + OnceRebate(p[1], p[2]) /\ OnceRebate(p[1], p[2]) \in Nat
      BY <2>1, OncePaid DEF e
    <2>3. o' = o + 1 /\ x' = x - 30 + OnceRebate(p[1], p[2]) /\ ~submitted'
      BY <1>6, <2>1, <2>2
    <2> QED
      BY <1>1, <1>2, <1>5, <2>1, <2>2, <2>3
  <1>9. CASE PaysForDescribe
    <2>1. PICK t \in Table :
              /\ Pays(IF t \in described_tables_rewarded THEN 0
                      ELSE STEP_REBATE_DESCRIBE_TABLE)
              /\ described_tables_rewarded' = described_tables_rewarded \cup {t}
              /\ UNCHANGED <<rewarded_once, sampled_tables_rewarded>>
      BY <1>9 DEF PaysForDescribe
    <2>2. d' = d + (IF t \in described_tables_rewarded THEN 0 ELSE 1)
      BY <2>1, LedgerTypes, RewardedTables DEF d
    <2>3. /\ o' = o + 1 /\ ~submitted'
          /\ x' = x - 30 + (IF t \in described_tables_rewarded THEN 0 ELSE 60)
      BY <1>6, <2>1
    <2> QED
      BY <1>1, <1>2, <1>4, <1>5, <2>1, <2>2, <2>3
  <1>10. CASE PaysForSample
    <2>1. PICK t \in Table :
              /\ Pays(IF t \in sampled_tables_rewarded THEN 0 ELSE STEP_REBATE_SAMPLE_ROWS)
              /\ sampled_tables_rewarded' = sampled_tables_rewarded \cup {t}
              /\ UNCHANGED <<rewarded_once, described_tables_rewarded>>
      BY <1>10 DEF PaysForSample
    <2>2. s' = s + (IF t \in sampled_tables_rewarded THEN 0 ELSE 1)
      BY <2>1, LedgerTypes, RewardedTables DEF s
    <2>3. /\ o' = o + 1 /\ ~submitted'
          /\ x' = x - 30 + (IF t \in sampled_tables_rewarded THEN 0 ELSE 50)
      BY <1>6, <2>1
    <2> QED
      BY <1>1, <1>2, <1>4, <1>5, <2>1, <2>2, <2>3
  <1>11. CASE PaysNothing
    BY <1>1, <1>2, <1>4, <1>5, <1>11 DEF PaysNothing, rewardedVars, ledgerVars, submitVars
  <1>12. CASE Submits
    <2>1. PICK q \in Query, ratio \in Ratio : AcceptSubmission(q, ratio)
      BY <1>12 DEF Submits
    <2>2. o' = o + 1 /\ x' = x /\ submitted' /\ UNCHANGED rewardedVars
      BY <2>1 DEF AcceptSubmission
    <2> QED
      BY <1>1, <1>2, <1>4, <1>5, <2>2 DEF rewardedVars
  <1> QED
    BY <1>7, <1>8, <1>9, <1>10, <1>11, <1>12, StepsPay DEF StepPays

\* For every episode and agent: the step-tax income is the tax of the observed
\* steps plus each rebate once (_grant_step_rebate_once, StepTax).
THEOREM RebatesPaidOnce == Spec => []RebateLedger
  <1>1. Init => LedgerSum
    BY FS_EmptySet DEF Init, LedgerSum, OnceIncome, Earned, STEP_TAX, STEP_REBATE_DESCRIBE_TABLE,
       STEP_REBATE_SAMPLE_ROWS
  <1>2. TypeOK /\ LedgerSum /\ [Next]_vars => LedgerSum'
    <2> SUFFICES ASSUME TypeOK, LedgerSum, [Next]_vars PROVE LedgerSum'
      OBVIOUS
    <2>1. CASE Step
      BY <2>1, LedgerStep
    <2>2. CASE Close
      BY <2>2 DEF Close, rewardedVars, submitVars, ledgerVars, LedgerSum, OnceIncome, Earned
    <2>3. ASSUME NEW s \in Scenario, NEW n \in ScheduledSteps(s),
                 NEW b \in Budget, NEW o \in BOOLEAN, Reset(s, b, n, o)
          PROVE  LedgerSum'
      BY <2>3, FS_EmptySet
         DEF Reset, FreshRuntime, LedgerSum, OnceIncome, Earned, STEP_TAX,
             STEP_REBATE_DESCRIBE_TABLE, STEP_REBATE_SAMPLE_ROWS
    <2>4. CASE UNCHANGED vars
      BY <2>4 DEF vars, rewardedVars, submitVars, ledgerVars, LedgerSum, OnceIncome, Earned
    <2> QED
      BY <2>1, <2>2, <2>3, <2>4 DEF Next
  <1>3. TypeOK /\ LedgerSum => RebateLedger
    BY LedgerSums
  <1> QED
    BY <1>1, <1>2, <1>3, TypeCorrect, PTL DEF Spec

-----------------------------------------------------------------------------
(* The rewards of a submission *)

LEMMA RewardOfSubmission ==
    ASSUME NEW q \in Query, NEW ratio \in Ratio, AcceptSubmission(q, ratio)
    PROVE  LET match == q.rows[db'] = GtHash
               speedup == EffectiveSpeedup(ratio)
           IN  /\ outcome'.matches = match
               /\ outcome'.reward.r_correct = Correctness(match, speedup)
               /\ outcome'.reward.r_speedup = Speedup(match, speedup)
               /\ outcome'.reward.r_drift =
                      DriftAdapt(drift_fired_step' # None,
                                 q.rows[db'] = gt_result_hash_postdrift',
                                 q.uses_post, cfg.scenario.post_ids, q.uses_pre)
               /\ submitted_speedup' = ratio
               /\ Persist(Correctness(match, speedup), speedup)
  BY OneTruth DEF AcceptSubmission, SubmissionReward

LEMMA RewardsStep ==
    ASSUME TypeOK, TypeOK', TruthInv', RewardsAgree, Step
    PROVE  RewardsAgree'
  <1>1. live /\ ~submitted /\ cfg' = cfg
    BY StepShape
  <1>2. CASE UNCHANGED submitVars
    BY <1>1, <1>2 DEF submitVars, RewardsAgree
  <1>3. CASE Submits
    <2>1. PICK q \in Query, ratio \in Ratio : AcceptSubmission(q, ratio)
      BY <1>3 DEF Submits
    <2> DEFINE match == q.rows[db'] = GtHash
               speedup == EffectiveSpeedup(ratio)
               fired == drift_fired_step' # None
               matchesPost == q.rows[db'] = gt_result_hash_postdrift'
               r == outcome'.reward
    <2>2. /\ outcome'.matches = match
          /\ r.r_correct = Correctness(match, speedup)
          /\ r.r_speedup = Speedup(match, speedup)
          /\ r.r_drift = DriftAdapt(fired, matchesPost, q.uses_post,
                                    cfg.scenario.post_ids, q.uses_pre)
          /\ submitted_speedup' = ratio
      BY <2>1, RewardOfSubmission
    <2>3. drift_fired' <=> fired
      BY DEF drift_fired
    <2>4. ASSUME WellAuthored(cfg.scenario), fired PROVE matchesPost <=> match
      <3>1. /\ cfg.scenario.drifts
            /\ gt_result_hash_postdrift' = cfg.scenario.gt_post.rows["post"]
        BY <1>1, <2>3, <2>4 DEF TruthInv, live
      <3>2. gt_result_hash_postdrift' # NoHash
        BY <2>4, <3>1, HashAssumption DEF WellAuthored
      <3> QED
        BY <2>4, <3>2 DEF GtHash
    <2>5. match <=> r.r_correct > 0
      BY <2>2 DEF Correctness
    <2>6. r.r_speedup > 0 => match
      BY <2>2 DEF Speedup
    <2>7. /\ r.r_drift > 0 => fired /\ matchesPost
          /\ r.r_drift < 0 => fired /\ ~matchesPost
      BY <2>2 DEF DriftAdapt
    <2>8. r.r_correct = 1000 /\ submitted_speedup' < SPEEDUP_MIN =>
              fired /\ baseline_postdrift_raises'
      BY <2>2, BoundAssumption
         DEF Correctness, EffectiveSpeedup, SPEEDUP_MIN, RatioPoint
    <2> HIDE DEF match, speedup, fired, matchesPost
    <2> QED
      BY <1>1, <2>2, <2>3, <2>4, <2>5, <2>6, <2>7, <2>8 DEF RewardsAgree
  <1> QED
    BY <1>2, <1>3, StepShape

\* For every scenario, agent, budget and measured ratio: the tool result's verdict
\* and the rubric components never contradict one another (engine/reward.py,
\* _handle_submit_rewrite).
THEOREM RewardsConsistent == Spec => []RewardsAgree
  <1>1. Init => RewardsAgree
    BY DEF Init, RewardsAgree
  <1>2. JudgedInv /\ JudgedInv' /\ RewardsAgree /\ [Next]_vars => RewardsAgree'
    <2> SUFFICES ASSUME JudgedInv, JudgedInv', RewardsAgree, [Next]_vars
                 PROVE  RewardsAgree'
      OBVIOUS
    <2>1. CASE Step
      BY <2>1, RewardsStep DEF JudgedInv
    <2>2. CASE Close
      BY <2>2 DEF Close, RewardsAgree, live
    <2>3. ASSUME NEW s \in Scenario, NEW n \in ScheduledSteps(s),
                 NEW b \in Budget, NEW o \in BOOLEAN, Reset(s, b, n, o)
          PROVE  RewardsAgree'
      BY <2>3 DEF Reset, FreshRuntime, RewardsAgree
    <2>4. CASE UNCHANGED vars
      BY <2>4 DEF vars, sessionVars, driftVars, submitVars, RewardsAgree, live, drift_fired
    <2> QED
      BY <2>1, <2>2, <2>3, <2>4 DEF Next
  <1> QED
    BY <1>1, <1>2, JudgedInvariant, PTL DEF Spec

-----------------------------------------------------------------------------
(* The playbook *)

\* Entries of episodes to come do not exist yet.
LearnInv ==
    /\ LearnedOnlyFromWins
    /\ \A e \in learned : e.episode <= episode

\* What is persisted cleared the bar, with a speedup JSON can write.
LEMMA PersistedSpeedup ==
    ASSUME NEW ratio \in Ratio, NEW match,
           Correctness(match, EffectiveSpeedup(ratio)) >= 1000
    PROVE  /\ match /\ Correctness(match, EffectiveSpeedup(ratio)) = 1000
           /\ SPEEDUP_MIN <= StoredSpeedup(EffectiveSpeedup(ratio))
           /\ StoredSpeedup(EffectiveSpeedup(ratio)) < INFTY
  <1> DEFINE speedup == EffectiveSpeedup(ratio)
  <1>1. speedup = INFTY \/ speedup \in RatioPoint
    BY BoundAssumption DEF EffectiveSpeedup
  <1> HIDE DEF speedup
  <1>2. match /\ speedup >= SPEEDUP_MIN
    BY DEF Correctness, speedup
  <1>3. SPEEDUP_MIN <= StoredSpeedup(speedup) /\ StoredSpeedup(speedup) < INFTY
    BY <1>1, <1>2 DEF StoredSpeedup, SPEEDUP_MIN, SPEEDUP_CAP_FOR_INFTY, INFTY, RatioPoint
  <1> QED
    BY <1>2, <1>3 DEF Correctness, speedup

LEMMA LearnStep ==
    ASSUME TypeOK, LearnInv, Step
    PROVE  LearnInv'
  <1>1. live /\ ~submitted /\ cfg' = cfg /\ episode' = episode
    BY StepShape
  <1>2. \A e \in learned : e.episode # episode
    BY <1>1 DEF LearnInv, LearnedOnlyFromWins
  <1>3. CASE learned' = learned
    BY <1>1, <1>2, <1>3 DEF LearnInv, LearnedOnlyFromWins
  <1>4. CASE Submits
    <2>1. PICK q \in Query, ratio \in Ratio : AcceptSubmission(q, ratio)
      BY <1>4 DEF Submits
    <2> DEFINE match == q.rows[db'] = GtHash
               speedup == EffectiveSpeedup(ratio)
               entry == [episode |-> episode, avg_speedup |-> StoredSpeedup(speedup)]
    <2>2. /\ outcome'.matches = match
          /\ outcome'.reward.r_correct = Correctness(match, speedup)
          /\ Persist(Correctness(match, speedup), speedup)
      BY <2>1, RewardOfSubmission
    <2>3. CASE Correctness(match, speedup) >= 1000 /\ learned' = learned \cup {entry}
      <3>1. /\ match /\ Correctness(match, speedup) = 1000
            /\ SPEEDUP_MIN <= entry.avg_speedup /\ entry.avg_speedup < INFTY
        <4>1. entry.avg_speedup = StoredSpeedup(EffectiveSpeedup(ratio))
          OBVIOUS
        <4>2. Correctness(match, EffectiveSpeedup(ratio)) >= 1000
          BY <2>3
        <4> HIDE DEF match, entry
        <4> QED
          BY <4>1, <4>2, PersistedSpeedup
      <3>2. entry.episode = episode /\ submitted'
        BY <2>1 DEF AcceptSubmission
      <3>3. episode \in Nat
        BY BoundAssumption DEF TypeOK
      <3> HIDE DEF entry, match, speedup
      <3>4. \A e \in learned' : SPEEDUP_MIN <= e.avg_speedup /\ e.avg_speedup < INFTY
        BY <2>3, <3>1 DEF LearnInv, LearnedOnlyFromWins
      <3>5. \A e, f \in learned' : e.episode = f.episode => e = f
        BY <1>2, <2>3, <3>2 DEF LearnInv, LearnedOnlyFromWins
      <3>6. \A e \in learned' : e.episode <= episode'
        BY <1>1, <2>3, <3>2, <3>3 DEF LearnInv
      <3>7. submitted' /\ outcome'.matches /\ outcome'.reward.r_correct = 1000
        BY <2>2, <3>1, <3>2
      <3> QED
        BY <3>4, <3>5, <3>6, <3>7 DEF LearnInv, LearnedOnlyFromWins
    <2> QED
      BY <1>3, <2>2, <2>3 DEF Persist
  <1> QED
    BY <1>3, <1>4, StepsPay
       DEF StepPays, PaysNoRebate, PaysOnce, PaysForDescribe, PaysForSample, PaysNothing, Pays

\* For every episode, agent and measured ratio: a playbook entry comes from a
\* winning submission, one per episode at most (_maybe_persist_learned_entry).
THEOREM OnlyWinsLearned == Spec => []LearnedOnlyFromWins
  <1>1. Init => LearnInv
    BY DEF Init, LearnInv, LearnedOnlyFromWins
  <1>2. TypeOK /\ LearnInv /\ [Next]_vars => LearnInv'
    <2> SUFFICES ASSUME TypeOK, LearnInv, [Next]_vars PROVE LearnInv'
      OBVIOUS
    <2>1. CASE Step
      BY <2>1, LearnStep
    <2>2. CASE Close
      BY <2>2 DEF Close, LearnInv, LearnedOnlyFromWins, live
    <2>3. ASSUME NEW s \in Scenario, NEW n \in ScheduledSteps(s),
                 NEW b \in Budget, NEW o \in BOOLEAN, Reset(s, b, n, o)
          PROVE  LearnInv'
      <3>1. episode' = episode + 1 /\ learned' = learned
        BY <2>3 DEF Reset
      <3>2. episode \in Nat /\ \A e \in learned : e.episode \in Nat
        BY BoundAssumption DEF TypeOK
      <3>3. \A e \in learned : e.episode <= episode' /\ e.episode # episode'
        BY <3>1, <3>2 DEF LearnInv
      <3> QED
        BY <3>1, <3>3 DEF LearnInv, LearnedOnlyFromWins
    <2>4. CASE UNCHANGED vars
      BY <2>4 DEF vars, sessionVars, submitVars, LearnInv, LearnedOnlyFromWins, live
    <2> QED
      BY <2>1, <2>2, <2>3, <2>4 DEF Next
  <1>3. LearnInv => LearnedOnlyFromWins
    BY DEF LearnInv
  <1> QED
    BY <1>1, <1>2, <1>3, TypeCorrect, PTL DEF Spec

-----------------------------------------------------------------------------
(* What a step reports *)

\* The step tax alone, or a reward below -0.08: what keeps a small penalty from
\* being outweighed by the diversity term.
Modest(tax, gates, consult) ==
    \/ gates = 0 /\ consult = 0
    \/ tax + gates + consult < -80

\* A step that returned an observation which is no accepted submission.
Observes ==
    /\ UNCHANGED submitVars
    /\ outcome'.code \in ToolErrorCode \cup {"ok"}
    /\ outcome'.code = "ok" => outcome'.tool # "submit_rewrite"
    /\ outcome'.done = (step_count' >= cfg.budget)
    /\ \E tax \in -30..50, gates \in -900..0, consult \in -800..0 :
           /\ outcome'.reward = StepReward(tax, gates, consult)
           /\ Modest(tax, gates, consult)

\* A step that raised.
Dies == outcome'.code = "raised" /\ UNCHANGED submitVars

\* An error costs at least 0.3, a result costs no gate.
LEMMA GateOfError ==
    ASSUME NEW streak \in Nat, NEW repeats \in Nat
    PROVE  /\ Gatekeepers(TRUE, streak, repeats, FALSE) <= -300
           /\ Gatekeepers(FALSE, streak, 0, FALSE) = 0
  <1> DEFINE m1 == (-100) * Smaller(Larger(0, streak - 1), MAX_ESCALATION_STEPS)
             m2 == (-100) * Smaller(Larger(0, repeats - 1), MAX_ESCALATION_STEPS)
  <1>1. m1 \in -300..0 /\ m2 \in -300..0
    <2>1. \A k \in {0, 1, 2, 3} : (-100) * k \in -300..0
      OBVIOUS
    <2>2. \A n \in Nat : Smaller(Larger(0, n - 1), MAX_ESCALATION_STEPS) \in {0, 1, 2, 3}
      BY DEF Smaller, Larger, MAX_ESCALATION_STEPS
    <2> QED
      BY <2>1, <2>2
  <1>2. Smaller(Larger(0, 0 - 1), MAX_ESCALATION_STEPS) = 0
    BY DEF Smaller, Larger, MAX_ESCALATION_STEPS
  <1>3. Gatekeepers(TRUE, streak, repeats, FALSE) = -300 + m1 + m2 + 0
    BY DEF Gatekeepers, GATE_MALFORMED_TOOL_CALL, GATE_CONSECUTIVE_TOOL_ERROR,
       GATE_REPEAT_FAILING_QUERY
  <1>4. Gatekeepers(FALSE, streak, 0, FALSE) = 0
    BY <1>2 DEF Gatekeepers, GATE_REPEAT_FAILING_QUERY
  <1> DEFINE error == Gatekeepers(TRUE, streak, repeats, FALSE)
             result == Gatekeepers(FALSE, streak, 0, FALSE)
  <1>5. error = -300 + m1 + m2 + 0 /\ result = 0
    BY <1>3, <1>4
  <1> HIDE DEF m1, m2, error, result
  <1>6. error <= -300 /\ result = 0
    BY <1>1, <1>5
  <1> QED
    BY <1>6, Zenon DEF error, result

\* A consultation that costs costs at least 0.1.
LEMMA PriceOfAdvice ==
    ASSUME NEW used \in Nat
    PROVE  CONSULT_ESCALATION[Larger(1, Smaller(used, 3))] \in -800..-100
  <1>1. Larger(1, Smaller(used, 3)) \in {1, 2, 3}
    BY DEF Larger, Smaller
  <1> QED
    BY <1>1 DEF CONSULT_ESCALATION

LEMMA ReturnsObserves ==
    ASSUME TypeOK, live, consultations_used' \in Nat,
           NEW tool, NEW code \in ToolErrorCode \cup {"ok"},
           NEW rebate \in Rebate, NEW repeats \in Nat,
           code = "ok" => repeats = 0 /\ tool # "submit_rewrite",
           code # "ok" \/ tool = "consult_dba" => rebate = 0,
           Returns(tool, code, rebate, repeats)
    PROVE  Observes
  <1> DEFINE isError == code # "ok"
             streak == IF isError THEN consecutive_tool_errors + 1 ELSE 0
             tax == StepTax(FALSE, rebate)
             gates == Gatekeepers(isError, streak, repeats, FALSE)
             consult == ConsultDBA(cfg.oracle, tool = "consult_dba", consultations_used')
  <1>1. streak \in Nat
    BY DEF TypeOK
  <1>2. tax \in -30..50 /\ (rebate = 0 => tax = -30)
    BY StepTaxType DEF StepTax, STEP_TAX, Larger
  <1>3. gates \in -900..0
    <2> HIDE DEF streak, isError
    <2> QED
      BY <1>1, GatekeepersType
  <1>4. IF isError THEN gates <= -300 ELSE gates = 0
    <2> HIDE DEF streak
    <2>1. CASE isError
      <3>1. gates = Gatekeepers(TRUE, streak, repeats, FALSE)
        BY <2>1
      <3> QED
        BY <1>1, <2>1, <3>1, GateOfError
    <2>2. CASE ~isError
      <3>1. gates = Gatekeepers(FALSE, streak, 0, FALSE)
        BY <2>2
      <3> QED
        BY <1>1, <2>2, <3>1, GateOfError
    <2> QED
      BY <2>1, <2>2
  <1>5. consult \in -800..0 /\ (consult = 0 \/ (tool = "consult_dba" /\ consult <= -100))
    <2> DEFINE price == CONSULT_ESCALATION[Larger(1, Smaller(consultations_used', 3))]
    <2>1. price \in -800..-100
      BY PriceOfAdvice
    <2>2. consult = IF cfg.oracle /\ tool = "consult_dba" THEN price ELSE 0
      BY DEF ConsultDBA
    <2> HIDE DEF price, consult
    <2> QED
      BY <2>1, <2>2
  <1>6. /\ outcome'.tool = tool /\ outcome'.code = code
        /\ outcome'.done = (step_count' >= cfg.budget)
        /\ outcome'.reward = StepReward(tax, gates, consult)
        /\ UNCHANGED submitVars
    BY DEF Returns
  <1> HIDE DEF streak, tax, gates, consult
  <1>7. Modest(tax, gates, consult)
    BY <1>2, <1>3, <1>4, <1>5 DEF Modest
  <1> QED
    BY <1>2, <1>3, <1>5, <1>6, <1>7 DEF Observes

LEMMA ErrorObserves ==
    ASSUME TypeOK, live, consultations_used' \in Nat,
           NEW tool, NEW code \in ToolErrorCode, NEW repeats \in Nat,
           ToolError(tool, code, repeats)
    PROVE  Observes
  <1>1. code # "ok" /\ 0 \in Rebate
    BY DEF ToolErrorCode, Rebate
  <1> QED
    BY <1>1, ReturnsObserves DEF ToolError

LEMMA DiagnosisObserves ==
    ASSUME TypeOK, live, consultations_used' \in Nat,
           NEW tool, tool \notin {"submit_rewrite", "consult_dba"},
           NEW attr, NEW amount \in Rebate, DiagnosticOnce(tool, attr, amount)
    PROVE  Observes
  <1>1. OnceRebate(attr, amount) \in Rebate
    BY DEF OnceRebate, Rebate
  <1>2. Returns(tool, "ok", OnceRebate(attr, amount), 0)
    BY DEF DiagnosticOnce
  <1> QED
    BY <1>1, <1>2, ReturnsObserves

LEMMA RaisedDies ==
    ASSUME NEW tool, Raises(tool)
    PROVE  Dies
  BY DEF Raises, NoOutcome, Dies

\* A step raises, reports an observation, or is an accepted submission.
LEMMA StepReports ==
    ASSUME TypeOK, TypeOK', Step
    PROVE  Dies \/ Observes \/ Submits
  <1>1. live
    BY StepShape
  <1>2. consultations_used' \in Nat /\ failed_query_counts' \in [Query -> Nat]
    BY DEF TypeOK
  <1>3. /\ 0 \in Nat /\ 0 \in Rebate
        /\ "unknown_table" \in ToolErrorCode /\ "invalid_tool_argument" \in ToolErrorCode
        /\ "query_timeout" \in ToolErrorCode /\ "db_error" \in ToolErrorCode
        /\ "result_too_large" \in ToolErrorCode
        /\ "submit_before_diagnose" \in ToolErrorCode
    BY DEF Rebate, ToolErrorCode
  <1>4. /\ STEP_REBATE_LIST_TABLES \in Rebate /\ STEP_REBATE_DESCRIBE_TABLE \in Rebate
        /\ STEP_REBATE_SAMPLE_ROWS \in Rebate /\ STEP_REBATE_RUN_QUERY \in Rebate
        /\ STEP_REBATE_EXPLAIN_QUERY \in Rebate /\ STEP_REBATE_READ_CHANGELOG \in Rebate
    BY DEF Rebate, STEP_REBATE_LIST_TABLES, STEP_REBATE_DESCRIBE_TABLE,
       STEP_REBATE_SAMPLE_ROWS, STEP_REBATE_RUN_QUERY, STEP_REBATE_EXPLAIN_QUERY,
       STEP_REBATE_READ_CHANGELOG
  <1>5. CASE ListTables
    BY <1>1, <1>2, <1>4, <1>5, DiagnosisObserves DEF ListTables
  <1>6. ASSUME NEW t \in Table, DescribeTable(t) PROVE Observes
    <2> DEFINE rebate == IF t \in described_tables_rewarded THEN 0
                         ELSE STEP_REBATE_DESCRIBE_TABLE
    <2>1. rebate \in Rebate
      BY <1>3, <1>4
    <2>2. \/ ToolError("describe_table", "unknown_table", 0)
          \/ Returns("describe_table", "ok", rebate, 0)
      BY <1>6 DEF DescribeTable
    <2> HIDE DEF rebate
    <2> QED
      BY <1>1, <1>2, <1>3, <2>1, <2>2, ErrorObserves, ReturnsObserves
  <1>7. ASSUME NEW t \in Table, SampleRows(t) PROVE Observes
    <2> DEFINE rebate == IF t \in sampled_tables_rewarded THEN 0
                         ELSE STEP_REBATE_SAMPLE_ROWS
    <2>1. rebate \in Rebate
      BY <1>3, <1>4
    <2>2. \/ ToolError("sample_rows", "unknown_table", 0)
          \/ Returns("sample_rows", "ok", rebate, 0)
      BY <1>7 DEF SampleRows
    <2> HIDE DEF rebate
    <2> QED
      BY <1>1, <1>2, <1>3, <2>1, <2>2, ErrorObserves, ReturnsObserves
  <1>8. ASSUME NEW q \in Query, RunQuery(q) PROVE Observes
    <2>1. \/ \E code \in ToolErrorCode, n \in Nat : ToolError("run_query", code, n)
          \/ DiagnosticOnce("run_query", "run_query", STEP_REBATE_RUN_QUERY)
      <3>1. failed_query_counts'[q] \in Nat
        BY <1>2
      <3> QED
        BY <1>3, <1>8, <3>1 DEF RunQuery
    <2> QED
      BY <1>1, <1>2, <1>4, <2>1, ErrorObserves, DiagnosisObserves
  <1>9. ASSUME NEW q \in Query, ExplainQuery(q) PROVE Observes
    <2>1. \/ \E code \in ToolErrorCode : ToolError("explain_query", code, 0)
          \/ DiagnosticOnce("explain_query", "explain_query", STEP_REBATE_EXPLAIN_QUERY)
      BY <1>3, <1>9 DEF ExplainQuery
    <2> QED
      BY <1>1, <1>2, <1>3, <1>4, <2>1, ErrorObserves, DiagnosisObserves
  <1>10. CASE ReadChangelog
    <2>1. \/ DiagnosticOnce("read_changelog", "read_changelog", STEP_REBATE_READ_CHANGELOG)
          \/ Returns("read_changelog", "ok", 0, 0)
      BY <1>10 DEF ReadChangelog, Acknowledge
    <2> QED
      BY <1>1, <1>2, <1>3, <1>4, <2>1, ReturnsObserves, DiagnosisObserves
  <1>11. ASSUME NEW q \in Query, SubmitRewrite(q) PROVE Observes \/ Submits
    <2>1. \/ \E code \in ToolErrorCode : ToolError("submit_rewrite", code, 0)
          \/ q.rows[db'] # DbError /\ \E ratio \in Ratio : AcceptSubmission(q, ratio)
      BY <1>3, <1>11 DEF SubmitRewrite
    <2> QED
      BY <1>1, <1>2, <1>3, <2>1, ErrorObserves DEF Submits
  <1>12. CASE ConsultDba
    <2>1. \/ ToolError("consult_dba", "invalid_tool_argument", 0)
          \/ Returns("consult_dba", "ok", 0, 0)
      BY <1>12 DEF ConsultDba
    <2> QED
      BY <1>1, <1>2, <1>3, <2>1, ErrorObserves, ReturnsObserves
  <1>13. ASSUME NEW tool \in ToolName, DriftRaises(tool) PROVE Dies
    BY <1>13, RaisedDies DEF DriftRaises
  <1>14. ASSUME NEW tool \in SqlTool, NEW q \in Query,
                ValidatorRaises(tool, q) \/ Escalates(tool, q)
         PROVE  Dies
    BY <1>14, RaisedDies DEF ValidatorRaises, Escalates
  <1> QED
    BY <1>5, <1>6, <1>7, <1>8, <1>9, <1>10, <1>11, <1>12, <1>13, <1>14 DEF Step, StepOn

\* An accepted submission, with the reward it is paid.
Wins ==
    LET r == outcome'.reward
    IN  /\ submitted' = TRUE
        /\ outcome'.tool = "submit_rewrite" /\ outcome'.code = "submitted"
        /\ outcome'.done = TRUE
        /\ outcome'.matches \in BOOLEAN
        /\ outcome'.matches => r.r_correct \in {500, 1000}
        /\ ~outcome'.matches => r.r_correct = -1000 /\ r.r_speedup = 0
        /\ r.r_correct = 500 => r.r_speedup <= 14
        /\ r.r_step_tax = 0 /\ r.r_consult_dba = 0
        /\ r.r_gatekeepers = IF submitted_sql' = cfg.scenario.baseline THEN -200 ELSE 0

LEMMA SubmissionWins ==
    ASSUME Submits
    PROVE  Wins
  <1>1. PICK q \in Query, ratio \in Ratio : AcceptSubmission(q, ratio)
    BY DEF Submits
  <1> DEFINE match == q.rows[db'] = GtHash
             speedup == EffectiveSpeedup(ratio)
             r == outcome'.reward
             verbatim == q = cfg.scenario.baseline
  <1>2. /\ outcome'.matches = match
        /\ r.r_correct = Correctness(match, speedup)
        /\ r.r_speedup = Speedup(match, speedup)
    BY <1>1, RewardOfSubmission
  <1>3. /\ submitted' = TRUE /\ submitted_sql' = q
        /\ outcome'.tool = "submit_rewrite" /\ outcome'.code = "submitted"
        /\ outcome'.done = TRUE
        /\ r.r_step_tax = StepTax(TRUE, 0) /\ r.r_consult_dba = 0
        /\ r.r_gatekeepers = Gatekeepers(FALSE, 0, 0, verbatim)
    BY <1>1 DEF AcceptSubmission, SubmissionReward
  <1>4. r.r_step_tax = 0
    BY <1>3 DEF StepTax
  <1>5. r.r_gatekeepers = IF verbatim THEN -200 ELSE 0
    <2>1. Smaller(Larger(0, 0 - 1), MAX_ESCALATION_STEPS) = 0
      BY DEF Smaller, Larger, MAX_ESCALATION_STEPS
    <2> QED
      BY <1>3, <2>1 DEF Gatekeepers, GATE_REPEAT_FAILING_QUERY, GATE_BASELINE_VERBATIM
  <1>6. speedup = INFTY \/ speedup \in RatioPoint
    BY BoundAssumption DEF EffectiveSpeedup
  <1>0. outcome'.matches \in BOOLEAN
    BY <1>2
  <1> HIDE DEF match, speedup
  <1>7. /\ match => r.r_correct \in {500, 1000}
        /\ ~match => r.r_correct = -1000 /\ r.r_speedup = 0
    BY <1>2 DEF Correctness, Speedup
  <1>8. ASSUME r.r_correct = 500 PROVE r.r_speedup <= 14
    <2>1. match /\ speedup < SPEEDUP_MIN
      BY <1>2, <1>6, <1>8 DEF Correctness, SPEEDUP_MIN, RatioPoint, INFTY
    <2>2. speedup \in {500, 1000, 1100}
      BY <1>6, <2>1 DEF SPEEDUP_MIN, RatioPoint, INFTY
    <2>3. \A x \in {500, 1000, 1100} : TanhScore(x) <= 14 /\ x # INFTY
      BY DEF TanhScore, INFTY
    <2>4. r.r_speedup = TanhScore(speedup)
      BY <1>2, <2>1, <2>2, <2>3 DEF Speedup
    <2> QED
      BY <2>2, <2>3, <2>4
  <1>9. /\ outcome'.matches => r.r_correct \in {500, 1000}
        /\ ~outcome'.matches => r.r_correct = -1000 /\ r.r_speedup = 0
    BY <1>2, <1>7
  <1>10. r.r_gatekeepers = IF submitted_sql' = cfg.scenario.baseline THEN -200 ELSE 0
    BY <1>3, <1>5
  <1> QED
    BY <1>0, <1>3, <1>4, <1>8, <1>9, <1>10, Zenon DEF Wins

\* A reward is an integer.
LEMMA RewardTotals ==
    ASSUME NEW r \in RewardType
    PROVE  Total(r) \in Int
  <1>1. /\ r.r_correct \in Int /\ r.r_drift \in Int /\ r.r_speedup \in Int
        /\ r.r_step_tax \in Int /\ r.r_gatekeepers \in Int /\ r.r_consult_dba \in Int
    BY DEF RewardType
  <1> QED
    BY <1>1 DEF Total

\* A drift that has fired stays fired until the episode ends.
LEMMA DriftStays ==
    ASSUME TypeOK, Step, drift_fired
    PROVE  drift_fired'
  <1>1. NextStep # None
    BY DEF TypeOK, NextStep, None
  <1>2. DriftStep
    BY StepShape
  <1> QED
    BY <1>1, <1>2 DEF DriftStep, MaybeFireDrift, FireDrift, DriftApplied, driftVars,
       drift_fired

\* An episode that goes on has steps left.
LEMMA OverSpelled ==
    ASSUME TypeOK', live'
    PROVE  Over' <=> submitted' \/ step_count' >= cfg'.budget
  <1>1. cfg'.budget \in Nat /\ step_count' \in Nat
    BY BoundAssumption DEF TypeOK, live, Config
  <1> QED
    BY <1>1 DEF Over, budget_steps_remaining, Larger

\* What the reward of an observed step says of the submission.
LEMMA ObservedReward ==
    ASSUME Observes
    PROVE  Total(outcome'.reward) <= 50
  <1>1. PICK tax \in -30..50, gates \in -900..0, consult \in -800..0 :
            outcome'.reward = StepReward(tax, gates, consult)
    BY DEF Observes
  <1>2. Total(outcome'.reward) = tax + gates + consult
    BY <1>1 DEF StepReward, Total
  <1> QED
    BY <1>2

\* The reward of an accepted submission says whether it matches, but for the
\* baseline, whose reward the gatekeepers lower below the threshold.
LEMMA WonReward ==
    ASSUME TypeOK', RewardsAgree', live', cfg' = cfg, WellAuthored(cfg.scenario), Wins
    PROVE  /\ Total(outcome'.reward) >= 500 => outcome'.matches
           /\ outcome'.matches /\ ~(Total(outcome'.reward) >= 500) =>
                  submitted_sql' = cfg.scenario.baseline /\ outcome'.reward.r_correct = 500
  <1> DEFINE r == outcome'.reward
  <1>1. /\ r.r_drift \in {-500, 0, 500} /\ r.r_speedup \in 0..294
        /\ r.r_step_tax = 0 /\ r.r_consult_dba = 0
        /\ r.r_gatekeepers = IF submitted_sql' = cfg.scenario.baseline THEN -200 ELSE 0
        /\ outcome'.matches => r.r_correct \in {500, 1000}
        /\ ~outcome'.matches => r.r_correct = -1000 /\ r.r_speedup = 0
    <2>1. r \in RewardType
      BY DEF TypeOK, OutcomeType
    <2>2. r.r_drift \in {-500, 0, 500} /\ r.r_speedup \in 0..294
      BY <2>1 DEF RewardType
    <2> HIDE DEF r
    <2> QED
      BY <2>2 DEF Wins, r
  <1>2. /\ r.r_drift > 0 => outcome'.matches
        /\ r.r_drift < 0 => ~outcome'.matches
    BY DEF RewardsAgree, Wins
  <1>3. Total(r) = r.r_correct + r.r_drift + r.r_speedup + r.r_step_tax
                   + r.r_gatekeepers + r.r_consult_dba
    BY DEF Total
  <1>4. Total(r) \in Int
    BY RewardTotals DEF TypeOK, OutcomeType
  <1> HIDE DEF r
  <1>5. CASE outcome'.matches
    <2>1. r.r_drift \in {0, 500} /\ r.r_correct \in {500, 1000}
      BY <1>1, <1>2, <1>5
    <2>2. Total(r) >= r.r_correct + r.r_gatekeepers
      BY <1>1, <1>3, <2>1
    <2>3. ~(Total(r) >= 500) =>
              submitted_sql' = cfg.scenario.baseline /\ r.r_correct = 500
      BY <1>1, <1>5, <1>4, <2>1, <2>2
    <2> QED
      BY <1>5, <2>3 DEF r
  <1>6. CASE ~outcome'.matches
    <2>1. r.r_drift \in {-500, 0}
      BY <1>1, <1>2, <1>6
    <2>2. Total(r) < 500
      BY <1>1, <1>3, <1>6, <2>1
    <2>3. ~(Total(r) >= 500)
      BY <1>4, <2>2
    <2> QED
      BY <1>6, <2>3 DEF r
  <1> QED
    BY <1>5, <1>6
=============================================================================
