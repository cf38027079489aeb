------------------------------- MODULE Rubric -------------------------------
(***************************************************************************)
(* The composite reward of engine/reward.py as pure operators.  Every      *)
(* score is in thousandths, so -0.03 is -30 and +1.0 is 1000.  A speedup   *)
(* is the ratio baseline_runtime_ms / submitted_runtime_ms, also in        *)
(* thousandths; INFTY stands for math.inf and is above every finite ratio. *)
(*                                                                         *)
(* The operators take what the rubric reads from the runtime snapshot.     *)
(* "terminal" is _is_terminal_submission: this step's submit_rewrite was   *)
(* accepted.                                                               *)
(***************************************************************************)
EXTENDS Integers

-----------------------------------------------------------------------------
(* Constants of the module *)

SPEEDUP_MIN == 1200
SPEEDUP_CAP_FOR_INFTY == 64000
INFTY == 1000000

STEP_TAX == -30
STEP_REBATE_LIST_TABLES == 40
STEP_REBATE_DESCRIBE_TABLE == 60
STEP_REBATE_SAMPLE_ROWS == 50
STEP_REBATE_RUN_QUERY == 40
STEP_REBATE_EXPLAIN_QUERY == 40
STEP_REBATE_READ_CHANGELOG == 80

GATE_MALFORMED_TOOL_CALL == -300
GATE_CONSECUTIVE_TOOL_ERROR == -100
GATE_REPEAT_FAILING_QUERY == -100
GATE_BASELINE_VERBATIM == -200
MAX_ESCALATION_STEPS == 3

CONSULT_ESCALATION == <<-100, -300, -800>>

\* The measured ratios the score table below knows.
RatioPoint == {500, 1000, 1100, 1200, 2000, 8000, 64000, 128000}

Smaller(a, b) == IF a <= b THEN a ELSE b
Larger(a, b) == IF a >= b THEN a ELSE b

-----------------------------------------------------------------------------
(* Child rubrics *)

\* Correctness: +1.0 with the speedup bar cleared, +0.5 without, -1.0 wrong.
Correctness(match, speedup) ==
    IF ~match THEN -1000 ELSE IF speedup >= SPEEDUP_MIN THEN 1000 ELSE 500

\* DriftAdapt: matchesPost is agent_hash == gt_result_hash_postdrift, usesPost
\* and usesPre tell which of the scenario's marker sets the SQL touches.
DriftAdapt(fired, matchesPost, usesPost, hasPostIds, usesPre) ==
    LET adapted == (usesPost \/ ~hasPostIds) /\ ~usesPre
    IN  IF fired /\ matchesPost /\ adapted THEN 500
        ELSE IF fired /\ usesPre /\ ~matchesPost THEN -500
        ELSE 0

\* Round(300 * tanh(log2(ratio) / 3)) at the table's points.
TanhScore(ratio) ==
    CASE ratio <= 1000   -> 0
      [] ratio = 1100    -> 14
      [] ratio = 1200    -> 26
      [] ratio = 2000    -> 96
      [] ratio = 8000    -> 228
      [] ratio = 64000   -> 289
      [] OTHER           -> 294

\* Mutant: a wrong but fast submission still earns the speedup component.
SpeedupUngated(match, speedup) ==
    TanhScore(IF speedup = INFTY THEN SPEEDUP_CAP_FOR_INFTY ELSE speedup)

\* Speedup: only a matching submission, an infinite ratio scored as 64x.
Speedup(match, speedup) ==
    IF ~match THEN 0
    ELSE TanhScore(IF speedup = INFTY THEN SPEEDUP_CAP_FOR_INFTY ELSE speedup)

\* StepTax on every step that is not the accepted submission.
StepTax(terminal, rebate) ==
    IF terminal THEN 0 ELSE STEP_TAX + Larger(0, rebate)

\* Mutant: the escalation has no cap.
GatekeepersUncapped(isError, streak, repeats, verbatim) ==
    (IF isError
     THEN GATE_MALFORMED_TOOL_CALL
          + GATE_CONSECUTIVE_TOOL_ERROR * Larger(0, streak - 1)
     ELSE 0)
    + GATE_REPEAT_FAILING_QUERY * Larger(0, repeats - 1)
    + (IF verbatim THEN GATE_BASELINE_VERBATIM ELSE 0)

\* Gatekeepers: streak is consecutive_tool_errors after this step, repeats the
\* failure count of this step's query (0 when the step was no failed query).
Gatekeepers(isError, streak, repeats, verbatim) ==
    (IF isError
     THEN GATE_MALFORMED_TOOL_CALL
          + GATE_CONSECUTIVE_TOOL_ERROR
            * Smaller(Larger(0, streak - 1), MAX_ESCALATION_STEPS)
     ELSE 0)
    + GATE_REPEAT_FAILING_QUERY
      * Smaller(Larger(0, repeats - 1), MAX_ESCALATION_STEPS)
    + (IF verbatim THEN GATE_BASELINE_VERBATIM ELSE 0)

\* ConsultDBA: the penalty of the tier reached by this consultation.
ConsultDBA(enabled, isConsult, used) ==
    IF enabled /\ isConsult
    THEN CONSULT_ESCALATION[Larger(1, Smaller(used, 3))]
    ELSE 0

-----------------------------------------------------------------------------
(* SqlDriftRubric: six components, the reward is their sum *)

Total(r) == r.r_correct + r.r_drift + r.r_speedup + r.r_step_tax
            + r.r_gatekeepers + r.r_consult_dba

\* The components of a step without an accepted submission, and of one with.
StepReward(tax, gates, consult) ==
    [r_correct |-> 0, r_drift |-> 0, r_speedup |-> 0,
     r_step_tax |-> tax, r_gatekeepers |-> gates, r_consult_dba |-> consult]

SubmissionReward(correct, drift, speedup, gates) ==
    [r_correct |-> correct, r_drift |-> drift, r_speedup |-> speedup,
     r_step_tax |-> StepTax(TRUE, 0), r_gatekeepers |-> gates, r_consult_dba |-> 0]

NoReward == StepReward(0, 0, 0)

RewardType == [r_correct : {-1000, 0, 500, 1000}, r_drift : {-500, 0, 500},
               r_speedup : 0..294, r_step_tax : -30..50,
               r_gatekeepers : -900..0, r_consult_dba : -800..0]
=============================================================================
