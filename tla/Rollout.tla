------------------------------ MODULE Rollout ------------------------------
(***************************************************************************)
(* training/tool_env.py: SqlDriftToolEnv, the wrapper a GRPO generation    *)
(* drives, over one session of Episode.                                    *)
(*                                                                         *)
(* The wrapper keeps its own picture of the episode - last reward, running *)
(* return, done, submitted, drift_fired - and updates it only from the     *)
(* observations that reach it.  A step of the environment that raises      *)
(* returns none: the server answers with an error and the client raises.   *)
(* The trainer calls tools until its own limit (max_tool_calling_          *)
(* iterations); a tool that raises is reported to the model, which goes on.*)
(*                                                                         *)
(* A call whose arguments no payload accepts raises in the wrapper itself. *)
(***************************************************************************)
EXTENDS Episode

CONSTANTS
    MaxToolCalls,    \* max_tool_calling_iterations
    MaxRejected      \* bound on the calls with bad arguments in a generation

ASSUME MaxToolCallsAssumption == MaxToolCalls \in Nat /\ MaxRejected \in Nat

VARIABLES
    tool_env,     \* the attributes of SqlDriftToolEnv
    tool_calls,   \* tool calls of the current generation
    rejected      \* those of them whose arguments were rejected

rolloutVars == <<vars, tool_env, tool_calls, rejected>>

\* eval.py: PASS_REWARD_THRESHOLD.
PASS_REWARD_THRESHOLD == 500

-----------------------------------------------------------------------------
(* reset() and close() *)

FreshToolEnv ==
    [reward |-> 0, terminal_reward |-> 0, episode_return |-> 0, done |-> FALSE,
     submitted |-> FALSE, drift_fired |-> FALSE, components |-> NoReward]

\* Mutant: the rewards of the previous generation are carried over.
StartedWithOldRewards ==
    [FreshToolEnv EXCEPT !.reward = tool_env.reward,
                         !.episode_return = tool_env.episode_return]

\* What reset() leaves in the wrapper once the client's reset has returned; a
\* reset that raises changes nothing, in the wrapper or in the environment.
Started == FreshToolEnv

ToolReset(s, b, n, o) ==
    /\ Reset(s, b, n, o)
    /\ tool_env' = Started
    /\ tool_calls' = 0
    /\ rejected' = 0

ToolClose ==
    /\ Close
    /\ UNCHANGED <<tool_env, tool_calls, rejected>>

-----------------------------------------------------------------------------
(* _dispatch *)

\* The observation step() makes.
Observation ==
    [kind |-> ResultKind(outcome'.tool, outcome'.code),
     drift_fired |-> drift_fired_step' # None,
     components |-> outcome'.reward,
     reward |-> Total(outcome'.reward),
     done |-> outcome'.done]

\* Mutant: the submission is recorded whatever the step that ends the episode was.
AcceptedAtEnd(obs) == TRUE

\* tool_result has an attribute "accepted", which only an accepted submission's has.
Accepted(obs) == SaysAccepted(obs.kind)

\* _ingest_observation.
Ingested(obs) ==
    [reward |-> obs.reward,
     terminal_reward |-> IF obs.done THEN obs.reward ELSE tool_env.terminal_reward,
     episode_return |-> tool_env.episode_return + obs.reward,
     done |-> tool_env.done \/ obs.done,
     submitted |-> tool_env.submitted \/ (obs.done /\ Accepted(obs)),
     drift_fired |-> obs.drift_fired,
     components |-> obs.components]

MayCall == tool_calls < MaxToolCalls

Called == tool_calls' = tool_calls + 1 /\ UNCHANGED rejected

\* The payload of a call does not validate: the tool method raises before
\* _dispatch looks at anything.
CallRejected ==
    /\ MayCall /\ rejected < MaxRejected
    /\ \E tool \in Tools : \E args \in Arguments(tool) : ~ActionValid(Action(tool, args))
    /\ tool_calls' = tool_calls + 1
    /\ rejected' = rejected + 1
    /\ UNCHANGED <<vars, tool_env>>

\* A tool call whose step returns an observation: from the server through the
\* client, or, in the training job, from an environment in the same process.
Dispatch ==
    /\ MayCall /\ ~tool_env.done
    /\ Called
    /\ Step
    /\ outcome'.code # "raised"
    /\ \E obs \in {Observation, Parsed(Served(Observation))} : tool_env' = Ingested(obs)

\* A tool call whose step raises: nothing is ingested, the reward, the
\* components and done of the call before stay.
DispatchRaises ==
    /\ MayCall /\ ~tool_env.done
    /\ Called
    /\ Step
    /\ outcome'.code = "raised"
    /\ UNCHANGED tool_env

\* The wrapper knows that the episode is finished and raises by itself.
DispatchRefused ==
    /\ MayCall /\ tool_env.done
    /\ Called
    /\ UNCHANGED <<vars, tool_env>>

\* The wrapper does not know, and step() refuses: the episode ended in a step
\* that raised, or there is no episode.
StepRefused ==
    /\ MayCall /\ ~tool_env.done /\ ~CanStep
    /\ Called
    /\ UNCHANGED <<vars, tool_env>>

-----------------------------------------------------------------------------
(* The rewards drawn from a generation *)

\* eval.py and EpisodeResult.passed: the last observed reward clears the bar.
Passed == tool_env.reward >= PASS_REWARD_THRESHOLD

Component == {"r_correct", "r_drift", "r_speedup", "r_step_tax",
              "r_gatekeepers", "r_consult_dba"}

\* The spread of the last components; 0 before the first observation.
Spread(env) ==
    LET gaps == {env.components[k] - env.components[l] : k, l \in Component}
    IN  CHOOSE gap \in gaps : \A other \in gaps : other <= gap

\* Mutant: the diversity term is not scaled down.
DIVERSITY_WEIGHT_FULL == 100

DIVERSITY_WEIGHT == 4

\* reward_from_environments, in hundred-thousandths: the return of the episode
\* plus 0.04 of the spread, itself capped at 2.
TrainingReward(env) ==
    100 * env.episode_return + DIVERSITY_WEIGHT * Smaller(2000, Spread(env))

-----------------------------------------------------------------------------
(* The specification *)

RolloutInit ==
    /\ Init
    /\ tool_env = FreshToolEnv
    /\ tool_calls = 0
    /\ rejected = 0

ToolCall == Dispatch \/ DispatchRaises \/ DispatchRefused \/ StepRefused \/ CallRejected

RolloutNext ==
    \/ \E s \in Scenario : \E n \in ScheduledSteps(s) :
           \E b \in Budget, o \in BOOLEAN : ToolReset(s, b, n, o)
    \/ ToolClose
    \/ ToolCall

RolloutSpec == RolloutInit /\ [][RolloutNext]_rolloutVars

\* The trainer's loop goes on as long as it may call.  Nothing is assumed of
\* reset() and close().
FairRolloutSpec == RolloutSpec /\ WF_rolloutVars(ToolCall)

-----------------------------------------------------------------------------
(* Properties *)

\* The wrapper's picture is the episode's.  It says done only of an episode that
\* is over, submitted only of one that was, and drifted only of one that did; and
\* it lags behind only when a step raised: after a drift that raised in the last
\* step of the budget, or an escalation, done stays false and every further call
\* raises until the trainer's limit (_dispatch, _ingest_observation).
WrapperAgrees ==
    live =>
        /\ tool_env.done => Over
        /\ Over /\ ~tool_env.done => outcome.code = "raised"
        /\ tool_env.submitted <=> submitted
        /\ tool_env.drift_fired => drift_fired
        /\ drift_fired /\ ~tool_env.drift_fired => outcome.code = "raised"

\* The threshold on the last reward tells exactly the episodes whose submission
\* matched, the baseline resubmitted below the speedup bar aside: no shaping
\* reward, stale reward of an earlier call or later step that raised makes a
\* loser pass or a winner fail (EpisodeResult.passed, demo_rollout).
PassedMeansWon ==
    live /\ WellAuthored(cfg.scenario) =>
        /\ Passed => submitted /\ outcome.matches
        /\ submitted /\ outcome.matches /\ ~Passed =>
               submitted_sql = cfg.scenario.baseline /\ outcome.reward.r_correct = 500

\* The diversity bonus never turns a penalised step into a gain: as long as the
\* generation is not reset, a step with a negative reward lowers the reward the
\* trainer sees (reward_from_environments).
DiversityKeepsSign ==
    [][tool_env'.episode_return < tool_env.episode_return /\ episode' = episode
       => TrainingReward(tool_env') < TrainingReward(tool_env)]_rolloutVars

\* A generation comes to an end also when its steps raise: the environment's
\* budget runs out although the wrapper learns nothing of it, if the trainer
\* allows the budget and the rejected calls, which use up none of it.
GenerationEnds == live ~> (~live \/ Over)
=============================================================================
