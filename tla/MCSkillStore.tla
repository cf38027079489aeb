---------------------------- MODULE MCSkillStore ----------------------------
(***************************************************************************)
(* Two Store objects on one directory, in two processes.  Two appends of   *)
(* each are needed for a lost update to follow a successful one, and two   *)
(* reads for a cache that is filled and then hit or passed by.  As the     *)
(* clients do not differ, one of them reads twice, the other once.         *)
(***************************************************************************)
EXTENDS SkillStore

CONSTANTS c1, c2

MCClient == {c1, c2}
MCReads == [c \in MCClient |-> IF c = c1 THEN 2 ELSE 1]
NoReads == [c \in MCClient |-> 0]

\* skill_library/store.py:114: the store is "Append-only".  An OSError while the
\* file is read under the lock counts as an empty array, which is then written
\* over the stored entries.
ClaimNothingIsLost == acked \subseteq Entries(file.content)
=============================================================================
