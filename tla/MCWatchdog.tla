----------------------------- MODULE MCWatchdog -----------------------------
(***************************************************************************)
(* Two sessions that share the leak counter, each with two episodes for    *)
(* the life of their connections.                                          *)
(***************************************************************************)
EXTENDS Watchdog

CONSTANTS s1, s2

TwoSessions == {s1, s2}
=============================================================================
