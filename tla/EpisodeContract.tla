-------------------------- MODULE EpisodeContract ---------------------------
(***************************************************************************)
(* What an episode promises to whoever drives it, without tools, SQL or    *)
(* rewards: a finite allowance of steps that each accepted call spends, an *)
(* end that is reached once and is final, and a drift that happens at most *)
(* once and is acknowledged only after it happened.                        *)
(***************************************************************************)
EXTENDS Integers

CONSTANT Budget   \* allowances, positive

VARIABLES
    status,   \* "none", "open", "submitted", "exhausted"
    left,     \* steps left
    drift     \* "pending", "fired", "acknowledged"

vars == <<status, left, drift>>

ContractTypeOK ==
    /\ status \in {"none", "open", "submitted", "exhausted"}
    /\ left \in Nat
    /\ drift \in {"pending", "fired", "acknowledged"}

Init == status = "none" /\ left = 0 /\ drift = "pending"

\* reset(): always possible, and the only way out of an end.
Start ==
    /\ status' = "open"
    /\ left' \in Budget
    /\ drift' = "pending"

\* A drift that fires may be acknowledged in the same call.
DriftMayAdvance ==
    \/ drift' = drift
    \/ drift = "pending" /\ drift' \in {"fired", "acknowledged"}
    \/ drift = "fired" /\ drift' = "acknowledged"

\* A call that spends one step and does not submit.
Spend ==
    /\ status = "open"
    /\ left' = left - 1
    /\ status' = IF left' = 0 THEN "exhausted" ELSE "open"
    /\ DriftMayAdvance

Submit ==
    /\ status = "open"
    /\ left' = left - 1
    /\ status' = "submitted"
    /\ DriftMayAdvance

\* The environment gives the episode up: what was left is forfeited.
Abort ==
    /\ status = "open"
    /\ left' = 0
    /\ status' = "exhausted"
    /\ DriftMayAdvance

Stop ==
    /\ status # "none"
    /\ status' = "none"
    /\ left' = 0
    /\ drift' = "pending"

Next == Start \/ Spend \/ Submit \/ Abort \/ Stop

Spec == Init /\ [][Next]_vars
=============================================================================
