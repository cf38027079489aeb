----------------------------- MODULE MCEvidence -----------------------------
(***************************************************************************)
(* Two trainings of one step over one directory, and two configurations in *)
(* the notebook.                                                           *)
(***************************************************************************)
EXTENDS MCTraining, Evidence
=============================================================================
