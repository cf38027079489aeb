------------------------------ MODULE MCDrift -------------------------------
(***************************************************************************)
(* Three rows over two values and NULL, two new values and three calls:    *)
(* every operation fails at every statement, is called again, fails again  *)
(* and is called once more.                                                *)
(***************************************************************************)
EXTENDS Drift

MCValue == {0, 1, 2}
MCNewValues == <<11, 12>>

\* engine/drift.py:12: "the environment's drift-trigger check runs every step and
\* needs to be safe to retry".  A call whose own statements all work must not
\* raise because of what an earlier, failed call left behind.
ClaimSafeToRetry == outcome = "raised" => faulted
=============================================================================
