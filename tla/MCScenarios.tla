---------------------------- MODULE MCScenarios -----------------------------
(***************************************************************************)
(* The ten scenarios: two rows in a referenced table and three in a        *)
(* referencing one for 01 to 06, MCDrift's three rows for 07 to 10.        *)
(***************************************************************************)
EXTENDS Guidance, MCDrift
=============================================================================
