--------------------------- MODULE RolloutProofs ---------------------------
(***************************************************************************)
(* Proofs about Rollout, the training rollout on top of the environment:   *)
(* what its tool wrapper believes is what the environment is in, what it   *)
(* reports as passed was won, and the diversity term of the trainer does   *)
(* not reward a penalty.                                                   *)
(*                                                                         *)
(* A step of the rollout is a step of Episode or leaves it alone, so what  *)
(* EpisodeProofs shows holds here too (RolloutIsEpisode).                  *)
(***************************************************************************)
EXTENDS Rollout, EpisodeProofs

-----------------------------------------------------------------------------
(* The wrapper's picture *)

\* The attributes of the wrapper between two calls.
ToolEnv ==
    [reward : Int, terminal_reward : Int, episode_return : Int, done : BOOLEAN,
     submitted : BOOLEAN, drift_fired : BOOLEAN, components : RewardType]

\* The wire keeps what the wrapper reads of an observation.
LEMMA ObservationParsed ==
    ASSUME NEW obs \in {Observation, Parsed(Served(Observation))}
    PROVE  /\ obs.kind = ResultKind(outcome'.tool, outcome'.code)
           /\ obs.drift_fired = (drift_fired_step' # None)
           /\ obs.components = outcome'.reward
           /\ obs.reward = Total(outcome'.reward)
           /\ obs.done = outcome'.done
  <1> DEFINE o == Observation
             dict == Served(o).observation
             valid == Validated(dict)
             kept == {"kind", "drift_fired", "components"}
  <1>1. /\ o.kind = ResultKind(outcome'.tool, outcome'.code)
        /\ o.drift_fired = (drift_fired_step' # None)
        /\ o.components = outcome'.reward
        /\ o.reward = Total(outcome'.reward)
        /\ o.done = outcome'.done
    BY DEF Observation
  <1>2. DOMAIN o = kept \cup {"reward", "done"}
    BY DEF Observation
  <1> HIDE DEF o
  <1>3. dict = [f \in kept |-> o[f]] /\ Served(o).reward = o.reward /\ Served(o).done = o.done
    <2>1. DOMAIN o \ {"reward", "done"} = kept
      BY <1>2
    <2> QED
      BY <2>1 DEF Served
  <1>4. valid = [f \in kept \cup {"reward", "done"} |->
                    IF f = "reward" THEN 0 ELSE IF f = "done" THEN FALSE ELSE dict[f]]
    <2>1. DOMAIN dict = kept
      BY <1>3
    <2> HIDE DEF dict
    <2> QED
      BY <2>1 DEF Validated
  <1>5. Parsed(Served(o)) = [valid EXCEPT !.reward = o.reward, !.done = o.done]
    BY <1>3 DEF Parsed
  <1> HIDE DEF dict, valid
  <1>6. /\ Parsed(Served(o)).kind = o.kind
        /\ Parsed(Served(o)).drift_fired = o.drift_fired
        /\ Parsed(Served(o)).components = o.components
        /\ Parsed(Served(o)).reward = o.reward
        /\ Parsed(Served(o)).done = o.done
    BY <1>3, <1>4, <1>5
  <1>7. CASE obs = Observation
    BY <1>1, <1>7 DEF o
  <1>8. CASE obs = Parsed(Served(Observation))
    <2>1. obs = Parsed(Served(o))
      BY <1>8 DEF o
    <2> QED
      BY <1>1, <1>6, <2>1
  <1> QED
    BY <1>7, <1>8

\* What a dispatched call leaves in the wrapper.
LEMMA DispatchIngests ==
    ASSUME TypeOK', tool_env \in ToolEnv, Dispatch
    PROVE  /\ tool_env'.reward = Total(outcome'.reward)
           /\ tool_env'.episode_return = tool_env.episode_return + Total(outcome'.reward)
           /\ tool_env'.components = outcome'.reward
           /\ tool_env'.done = outcome'.done
           /\ tool_env'.drift_fired = (drift_fired_step' # None)
           /\ tool_env'.submitted <=>
                  \/ tool_env.submitted
                  \/ /\ outcome'.done
                     /\ outcome'.code \notin ToolErrorCode
                     /\ outcome'.tool = "submit_rewrite"
           /\ tool_env' \in ToolEnv
  <1>1. PICK obs \in {Observation, Parsed(Served(Observation))} : tool_env' = Ingested(obs)
    BY DEF Dispatch
  <1>2. /\ obs.kind = ResultKind(outcome'.tool, outcome'.code)
        /\ obs.drift_fired = (drift_fired_step' # None)
        /\ obs.components = outcome'.reward
        /\ obs.reward = Total(outcome'.reward)
        /\ obs.done = outcome'.done
    BY ObservationParsed
  <1>3. ~tool_env.done
    BY DEF Dispatch
  <1>4. outcome'.done \in BOOLEAN /\ outcome'.reward \in RewardType
    BY DEF TypeOK, OutcomeType
  <1>5. Total(outcome'.reward) \in Int
    BY <1>4, RewardTotals
  <1>6. Accepted(obs) <=> outcome'.code \notin ToolErrorCode /\ outcome'.tool = "submit_rewrite"
    BY <1>2 DEF Accepted, SaysAccepted, ResultKind
  <1>7. /\ tool_env'.reward = obs.reward
        /\ tool_env'.terminal_reward = IF obs.done THEN obs.reward ELSE tool_env.terminal_reward
        /\ tool_env'.episode_return = tool_env.episode_return + obs.reward
        /\ tool_env'.done = (tool_env.done \/ obs.done)
        /\ tool_env'.submitted = (tool_env.submitted \/ (obs.done /\ Accepted(obs)))
        /\ tool_env'.drift_fired = obs.drift_fired
        /\ tool_env'.components = obs.components
    BY <1>1 DEF Ingested
  <1>8. tool_env'.done = outcome'.done
    BY <1>2, <1>3, <1>4, <1>7
  <1>9. tool_env' \in ToolEnv
    BY <1>1, <1>2, <1>4, <1>5 DEF Ingested, ToolEnv
  <1>10. tool_env'.submitted <=>
             \/ tool_env.submitted
             \/ /\ outcome'.done
                /\ outcome'.code \notin ToolErrorCode
                /\ outcome'.tool = "submit_rewrite"
    BY <1>2, <1>6, <1>7, Zenon
  <1>11. tool_env'.reward = Total(outcome'.reward)
    BY <1>2, <1>7
  <1>12. tool_env'.episode_return = tool_env.episode_return + Total(outcome'.reward)
    BY <1>2, <1>7
  <1>13. tool_env'.components = outcome'.reward
    BY <1>2, <1>7
  <1>14. tool_env'.drift_fired = (drift_fired_step' # None)
    BY <1>2, <1>7, Zenon
  <1> QED
    BY <1>8, <1>9, <1>10, <1>11, <1>12, <1>13, <1>14, Zenon

LEMMA PictureStep ==
    ASSUME TypeOK, TypeOK', tool_env \in ToolEnv, WrapperAgrees,
           Dispatch \/ DispatchRaises
    PROVE  WrapperAgrees' /\ tool_env' \in ToolEnv
  <1>1. Step /\ ~tool_env.done
    BY DEF Dispatch, DispatchRaises
  <1>2. live /\ live' /\ ~submitted /\ cfg' = cfg
    BY <1>1, StepOpen
  <1>3. ~tool_env.submitted
    BY <1>2 DEF WrapperAgrees
  <1>4. Dies \/ Observes \/ Submits
    BY <1>1, StepReports
  <1>5. Submits => Wins
    BY SubmissionWins
  <1>6. Over' <=> submitted' \/ step_count' >= cfg.budget
    BY <1>2, OverSpelled
  <1>7. drift_fired => drift_fired'
    BY <1>1, DriftStays
  <1>8. CASE DispatchRaises
    <2>1. outcome'.code = "raised" /\ tool_env' = tool_env
      BY <1>8 DEF DispatchRaises
    <2>2. submitted' = submitted
      BY <1>4, <1>5, <2>1 DEF Dies, Observes, Wins, ToolErrorCode, submitVars
    <2> QED
      BY <1>1, <1>2, <1>3, <1>7, <2>1, <2>2 DEF WrapperAgrees
  <1>9. CASE Dispatch
    <2>1. /\ tool_env'.done = outcome'.done
          /\ tool_env'.drift_fired = (drift_fired_step' # None)
          /\ tool_env'.submitted <=> /\ outcome'.done
                                     /\ outcome'.code \notin ToolErrorCode
                                     /\ outcome'.tool = "submit_rewrite"
          /\ tool_env' \in ToolEnv
      BY <1>3, <1>9, DispatchIngests
    <2>2. outcome'.code # "raised"
      BY <1>9 DEF Dispatch
    <2>3. CASE Observes
      <3>1. submitted' = submitted
        BY <2>3 DEF Observes, submitVars
      <3>2. outcome'.done <=> Over'
        BY <1>2, <1>6, <2>3, <3>1 DEF Observes
      <3>3. ~tool_env'.submitted
        BY <2>1, <2>3 DEF Observes
      <3> QED
        BY <1>2, <2>1, <3>1, <3>2, <3>3 DEF WrapperAgrees, drift_fired
    <2>4. CASE Wins
      <3>1. submitted' /\ tool_env'.done /\ tool_env'.submitted
        BY <2>1, <2>4 DEF Wins, ToolErrorCode
      <3> QED
        BY <1>6, <2>1, <3>1 DEF WrapperAgrees, drift_fired
    <2> QED
      BY <1>4, <1>5, <2>1, <2>2, <2>3, <2>4 DEF Dies
  <1> QED
    BY <1>8, <1>9

LEMMA PassedStep ==
    ASSUME TypeOK, TypeOK', RewardsAgree', tool_env \in ToolEnv, PassedMeansWon,
           Dispatch \/ DispatchRaises
    PROVE  PassedMeansWon'
  <1>1. Step
    BY DEF Dispatch, DispatchRaises
  <1>2. live /\ live' /\ ~submitted /\ cfg' = cfg
    BY <1>1, StepOpen
  <1> SUFFICES ASSUME WellAuthored(cfg.scenario)
               PROVE  /\ Passed' => submitted' /\ outcome'.matches
                      /\ submitted' /\ outcome'.matches /\ ~Passed' =>
                             /\ submitted_sql' = cfg.scenario.baseline
                             /\ outcome'.reward.r_correct = 500
    BY <1>2 DEF PassedMeansWon, WellAuthored
  <1>3. ~Passed
    BY <1>2 DEF PassedMeansWon
  <1>4. Dies \/ Observes \/ Wins
    BY <1>1, StepReports, SubmissionWins
  <1>5. CASE DispatchRaises
    <2>1. outcome'.code = "raised" /\ tool_env' = tool_env
      BY <1>5 DEF DispatchRaises
    <2>2. submitted' = submitted
      BY <1>4, <2>1 DEF Dies, Observes, Wins, ToolErrorCode, submitVars
    <2> QED
      BY <1>2, <1>3, <2>1, <2>2 DEF Passed
  <1>6. CASE Dispatch
    <2>1. tool_env'.reward = Total(outcome'.reward) /\ outcome'.code # "raised"
      BY <1>6, DispatchIngests DEF Dispatch
    <2>2. Passed' <=> Total(outcome'.reward) >= PASS_REWARD_THRESHOLD
      BY <2>1 DEF Passed
    <2>3. CASE Observes
      <3>1. Total(outcome'.reward) <= 50 /\ Total(outcome'.reward) \in Int
        BY <2>3, ObservedReward, RewardTotals DEF TypeOK, OutcomeType
      <3>2. ~Passed'
        BY <2>2, <3>1 DEF PASS_REWARD_THRESHOLD
      <3>3. ~submitted'
        BY <1>2, <2>3 DEF Observes, submitVars
      <3> QED
        BY <3>2, <3>3
    <2>4. CASE Wins
      <3>1. submitted'
        BY <2>4 DEF Wins
      <3> QED
        BY <1>2, <2>2, <2>4, <3>1, WonReward DEF PASS_REWARD_THRESHOLD
    <2> QED
      BY <1>4, <2>1, <2>3, <2>4 DEF Dies
  <1> QED
    BY <1>5, <1>6

-----------------------------------------------------------------------------
(* The wrapper's invariants *)

\* A step of the rollout is one of the session, or leaves the session as it was.
LEMMA RolloutStep ==
    [RolloutNext]_rolloutVars => [Next]_vars
  BY DEF RolloutNext, ToolReset, ToolClose, ToolCall, Dispatch, DispatchRaises,
     DispatchRefused, StepRefused, CallRejected, Next, rolloutVars

\* So what holds of every session holds of a session a wrapper drives.
LEMMA RolloutIsEpisode == RolloutSpec => Spec
  <1>1. RolloutInit => Init
    BY DEF RolloutInit
  <1> QED
    BY <1>1, RolloutStep, PTL DEF RolloutSpec, Spec

WrapperInv == tool_env \in ToolEnv /\ WrapperAgrees /\ PassedMeansWon

LEMMA FreshWrapper == FreshToolEnv \in ToolEnv
  <1>1. NoReward \in RewardType
    <2>1. 0 \in -30..50 /\ 0 \in -900..0 /\ 0 \in -800..0
      OBVIOUS
    <2> QED
      BY <2>1, StepRewardType DEF NoReward
  <1> QED
    BY <1>1 DEF FreshToolEnv, ToolEnv

LEMMA WrapperStep ==
    ASSUME TypeOK, TypeOK', RewardsAgree', WrapperInv, [RolloutNext]_rolloutVars
    PROVE  WrapperInv'
  <1>1. CASE Dispatch \/ DispatchRaises
    BY <1>1, PictureStep, PassedStep DEF WrapperInv
  <1>2. CASE UNCHANGED <<vars, tool_env>>
    BY <1>2 DEF vars, sessionVars, driftVars, submitVars, WrapperInv, WrapperAgrees,
       PassedMeansWon, Passed, WellAuthored, live, Over, drift_fired, budget_steps_remaining
  <1>3. CASE ToolClose
    <2>1. ~live' /\ tool_env' = tool_env
      BY <1>3 DEF ToolClose, Close, live
    <2> QED
      BY <2>1 DEF WrapperInv, WrapperAgrees, PassedMeansWon
  <1>4. ASSUME NEW s \in Scenario, NEW n \in ScheduledSteps(s),
               NEW b \in Budget, NEW o \in BOOLEAN, ToolReset(s, b, n, o)
        PROVE  WrapperInv'
    <2>1. tool_env' = FreshToolEnv /\ Reset(s, b, n, o)
      BY <1>4 DEF ToolReset, Started
    <2>2. /\ ~submitted' /\ ~drift_fired' /\ step_count' = 0 /\ cfg'.budget = b
          /\ submitted' = FALSE
      BY <2>1 DEF Reset, FreshRuntime, drift_fired
    <2>3. live' => ~Over'
      BY <2>2, OverSpelled, BoundAssumption
    <2>4. WrapperAgrees'
      <3>1. /\ tool_env'.done = FALSE /\ tool_env'.submitted = FALSE
            /\ tool_env'.drift_fired = FALSE
        BY <2>1 DEF FreshToolEnv
      <3> QED
        BY <2>2, <2>3, <3>1 DEF WrapperAgrees
    <2>5. PassedMeansWon'
      BY <2>1, <2>2 DEF PassedMeansWon, Passed, FreshToolEnv, PASS_REWARD_THRESHOLD
    <2> QED
      BY <2>1, <2>4, <2>5, FreshWrapper DEF WrapperInv
  <1> QED
    BY <1>1, <1>2, <1>3, <1>4
       DEF RolloutNext, ToolCall, DispatchRefused, StepRefused, CallRejected, rolloutVars

LEMMA WrapperInvariant == RolloutSpec => [](TypeOK /\ WrapperInv)
  <1>1. RolloutInit => WrapperInv
    BY FreshWrapper
       DEF RolloutInit, Init, live, WrapperInv, WrapperAgrees, PassedMeansWon
  <1>2. TypeOK /\ TypeOK' /\ RewardsAgree' /\ WrapperInv /\ [RolloutNext]_rolloutVars
        => WrapperInv'
    BY WrapperStep
  <1> QED
    BY <1>1, <1>2, RolloutIsEpisode, TypeCorrect, RewardsConsistent, PTL DEF RolloutSpec

\* For every agent, scenario, budget and limit of calls: the wrapper says done,
\* submitted and drifted only when it is so, and lags behind only after a step
\* that raised (_dispatch, _ingest_observation).
THEOREM WrapperSeesEpisode == RolloutSpec => []WrapperAgrees
  <1>1. WrapperInv => WrapperAgrees
    BY DEF WrapperInv
  <1> QED
    BY <1>1, WrapperInvariant, PTL

\* For every agent, scenario, budget and measured ratio: the pass threshold on the
\* last reward tells exactly the episodes whose submission matched, a slow
\* resubmitted baseline aside (EpisodeResult.passed).
THEOREM PassingIsWinning == RolloutSpec => []PassedMeansWon
  <1>1. WrapperInv => PassedMeansWon
    BY DEF WrapperInv
  <1> QED
    BY <1>1, WrapperInvariant, PTL

-----------------------------------------------------------------------------
(* The diversity term *)

LEMMA ComponentsAreIntegers ==
    ASSUME NEW r \in RewardType
    PROVE  \A k \in Component : r[k] \in Int
  BY DEF RewardType, Component

\* The spread is the largest of the gaps between two components.
LEMMA SpreadOfComponents ==
    ASSUME NEW env, env.components \in RewardType
    PROVE  /\ \E k, l \in Component : Spread(env) = env.components[k] - env.components[l]
           /\ \A k, l \in Component : env.components[k] - env.components[l] <= Spread(env)
  <1> DEFINE c == env.components
             gaps == {env.components[k] - env.components[l] : k, l \in Component}
             Widest(gap) == \A other \in gaps : other <= gap
  <1>1. \A k \in Component : c[k] \in Int
    BY ComponentsAreIntegers
  <1>2. \E hi \in Component : \A k \in Component : c[k] <= c[hi]
    <2> HIDE DEF c
    <2> QED
      BY <1>1 DEF Component
  <1>3. \E lo \in Component : \A k \in Component : c[lo] <= c[k]
    <2> HIDE DEF c
    <2> QED
      BY <1>1 DEF Component
  <1>4. PICK hi \in Component : \A k \in Component : c[k] <= c[hi]
    BY <1>2
  <1>5. PICK lo \in Component : \A k \in Component : c[lo] <= c[k]
    BY <1>3
  <1>6. c[hi] - c[lo] \in gaps
    OBVIOUS
  <1>7. Widest(c[hi] - c[lo])
    <2>1. \A k, l \in Component : c[k] - c[l] <= c[hi] - c[lo]
      BY <1>1, <1>4, <1>5
    <2> QED
      BY <2>1
  <1>8. Spread(env) = CHOOSE gap \in gaps : Widest(gap)
    BY DEF Spread
  <1> HIDE DEF Widest
  <1>9. Spread(env) \in gaps /\ Widest(Spread(env))
    BY <1>6, <1>7, <1>8
  <1> QED
    BY <1>9 DEF Widest

LEMMA SpreadPositive ==
    ASSUME NEW env, env.components \in RewardType
    PROVE  Spread(env) \in Nat
  <1>1. PICK k \in Component, l \in Component :
            Spread(env) = env.components[k] - env.components[l]
    BY SpreadOfComponents
  <1>2. env.components[k] \in Int /\ env.components[l] \in Int
    BY ComponentsAreIntegers
  <1>3. env.components[k] - env.components[k] <= Spread(env)
    BY SpreadOfComponents
  <1> QED
    BY <1>1, <1>2, <1>3

\* A penalty is below -0.08, or it is a step tax alone, whose spread is its size.
LEMMA Penalty ==
    ASSUME TypeOK', Observes \/ Wins, Total(outcome'.reward) < 0,
           NEW env, env.components = outcome'.reward
    PROVE  \/ Total(outcome'.reward) <= -81
           \/ Spread(env) <= 0 - Total(outcome'.reward)
  <1> DEFINE r == outcome'.reward
             total == Total(outcome'.reward)
  <1>1. r \in RewardType /\ total \in Int
    BY RewardTotals DEF TypeOK, OutcomeType
  <1>2. total = r.r_correct + r.r_drift + r.r_speedup + r.r_step_tax
                + r.r_gatekeepers + r.r_consult_dba
    BY DEF Total
  <1>3. CASE Observes
    <2>1. PICK tax \in -30..50, gates \in -900..0, consult \in -800..0 :
              r = StepReward(tax, gates, consult) /\ Modest(tax, gates, consult)
      BY <1>3 DEF Observes
    <2>2. /\ r.r_correct = 0 /\ r.r_drift = 0 /\ r.r_speedup = 0 /\ r.r_step_tax = tax
          /\ r.r_gatekeepers = gates /\ r.r_consult_dba = consult
      BY <2>1 DEF StepReward
    <2>3. total = tax + gates + consult
      BY <1>2, <2>2
    <2>4. CASE tax + gates + consult < -80
      <3> HIDE DEF total
      <3>1. total <= -81
        BY <2>3, <2>4
      <3> QED
        BY <3>1 DEF total
    <2>5. CASE gates = 0 /\ consult = 0
      <3>1. tax < 0 /\ total = tax
        BY <2>3, <2>5
      <3>2. \A k \in Component : env.components[k] \in {0, tax}
        BY <2>2, <2>5 DEF Component
      <3>3. PICK k \in Component, l \in Component :
                Spread(env) = env.components[k] - env.components[l]
        BY <1>1, SpreadOfComponents
      <3>4. Spread(env) <= 0 - tax
        BY <3>1, <3>2, <3>3
      <3> QED
        BY <3>1, <3>4
    <2> QED
      BY <2>1, <2>4, <2>5 DEF Modest
  <1>4. CASE Wins
    <2>1. /\ outcome'.matches \in BOOLEAN
          /\ outcome'.matches => r.r_correct \in {500, 1000}
          /\ ~outcome'.matches => r.r_correct = -1000 /\ r.r_speedup = 0
          /\ r.r_correct = 500 => r.r_speedup <= 14
          /\ r.r_step_tax = 0 /\ r.r_consult_dba = 0
      BY <1>4 DEF Wins
    <2>2. r.r_gatekeepers \in {-200, 0}
      BY <1>4 DEF Wins
    <2>3. r.r_drift \in {-500, 0, 500} /\ r.r_speedup \in 0..294
      BY <1>1 DEF RewardType
    <2> HIDE DEF total, r
    <2>4. total < 0
      BY DEF total
    <2>5. CASE outcome'.matches
      <3>1. total = r.r_correct + r.r_drift + r.r_speedup + r.r_gatekeepers
        BY <1>2, <2>1, <2>2, <2>3, <2>5
      <3>2. r.r_correct = 500 /\ r.r_speedup <= 14
        BY <2>1, <2>2, <2>3, <2>4, <2>5, <3>1
      <3>3. total <= -81
        BY <2>2, <2>3, <2>4, <3>1, <3>2
      <3> QED
        BY <3>3 DEF total
    <2>6. CASE ~outcome'.matches
      <3>1. total <= -81
        BY <1>2, <2>1, <2>2, <2>3, <2>6
      <3> QED
        BY <3>1 DEF total
    <2> QED
      BY <2>5, <2>6
  <1> QED
    BY <1>3, <1>4

LEMMA DiversityStep ==
    ASSUME TypeOK, TypeOK', tool_env \in ToolEnv, [RolloutNext]_rolloutVars,
           tool_env'.episode_return < tool_env.episode_return, episode' = episode
    PROVE  TrainingReward(tool_env') < TrainingReward(tool_env)
  <1>1. tool_env.episode_return \in Int /\ tool_env.components \in RewardType
    BY DEF ToolEnv
  <1>2. tool_env' # tool_env
    BY <1>1
  <1>3. ASSUME NEW s \in Scenario, NEW n \in ScheduledSteps(s),
               NEW b \in Budget, NEW o \in BOOLEAN, ToolReset(s, b, n, o)
        PROVE  FALSE
    <2>1. episode' = episode + 1 /\ episode \in Nat
      BY <1>3, BoundAssumption DEF ToolReset, Reset, TypeOK
    <2> QED
      BY <2>1
  <1>4. Dispatch
    BY <1>2, <1>3 DEF RolloutNext, ToolClose, ToolCall, DispatchRaises, DispatchRefused,
       StepRefused, CallRejected, rolloutVars
  <1> DEFINE total == Total(outcome'.reward)
             before == Spread(tool_env)
             after == Spread(tool_env')
             old == tool_env.episode_return
  <1>5. /\ tool_env'.episode_return = tool_env.episode_return + total
        /\ tool_env'.components = outcome'.reward
    BY <1>4, DispatchIngests
  <1>6. outcome'.reward \in RewardType
    BY DEF TypeOK, OutcomeType
  <1>7. total \in Int /\ total < 0
    <2>1. total \in Int
      BY <1>6, RewardTotals
    <2> HIDE DEF total
    <2>2. tool_env.episode_return + total < tool_env.episode_return
      BY <1>5
    <2> QED
      BY <1>1, <2>1, <2>2
  <1>8. before \in Nat /\ after \in Nat
    BY <1>1, <1>5, <1>6, SpreadPositive
  <1>9. Observes \/ Wins
    BY <1>4, StepReports, SubmissionWins DEF Dispatch, Dies
  <1>10. total <= -81 \/ after <= 0 - total
    BY <1>5, <1>7, <1>9, Penalty
  <1>11. old \in Int
    BY <1>1
  <1> HIDE DEF total, before, after, old
  <1>12. 100 * (old + total) + 4 * Smaller(2000, after)
             < 100 * old + 4 * Smaller(2000, before)
    <2>1. Smaller(2000, before) >= 0 /\ Smaller(2000, before) \in Int
      BY <1>8 DEF Smaller
    <2>2. /\ Smaller(2000, after) <= 2000 /\ Smaller(2000, after) <= after
          /\ Smaller(2000, after) \in Int
      BY <1>8 DEF Smaller
    <2> QED
      BY <1>7, <1>8, <1>10, <1>11, <2>1, <2>2
  <1> QED
    BY <1>5, <1>12 DEF TrainingReward, DIVERSITY_WEIGHT, before, after, old

\* For every agent, scenario and measured ratio: a step with a negative reward
\* lowers the reward the trainer sees, the diversity bonus never outweighs it
\* (reward_from_environments).
THEOREM PenaltiesLowerTheReward == RolloutSpec => DiversityKeepsSign
  <1>1. TypeOK /\ TypeOK' /\ WrapperInv /\ [RolloutNext]_rolloutVars
        => [tool_env'.episode_return < tool_env.episode_return /\ episode' = episode
            => TrainingReward(tool_env') < TrainingReward(tool_env)]_rolloutVars
    BY DiversityStep DEF WrapperInv
  <1> QED
    BY <1>1, WrapperInvariant, PTL DEF RolloutSpec, DiversityKeepsSign
=============================================================================
