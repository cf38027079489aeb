----------------------------- MODULE MCService ------------------------------
(***************************************************************************)
(* Two sessions on two processes that start, crash and start again next to *)
(* one another, over a static and a drift scenario.                        *)
(***************************************************************************)
EXTENDS Service, TLC

CONSTANTS s1, s2, p1, p2

Sessions == {s1, s2}
Processes == {p1, p2}
\* A drift that breaks the baseline is stored with the capped speedup.
Speedups == [scenario \in {4, 7} |-> IF scenario = 4 THEN {1300, 3000} ELSE {128000}]

Interchangeable == Permutations(Sessions) \cup Permutations(Processes)
=============================================================================
