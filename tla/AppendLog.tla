----------------------------- MODULE AppendLog ------------------------------
(***************************************************************************)
(* What an append-only store promises to its clients: an append takes      *)
(* effect at one moment between its call and its end, as one new entry at  *)
(* the end of the log, at most once; an append that is acknowledged took   *)
(* effect, one that fails or dies may or may not have.                     *)
(***************************************************************************)
EXTENDS Sequences

CONSTANTS Client, Entry, NoEntry

VARIABLES
    log,      \* the stored entries, oldest first
    call,     \* the entry each client is appending, NoEntry when it is not
    done,     \* the call has taken effect
    acked     \* entries whose append returned

vars == <<log, call, done, acked>>

Init ==
    /\ log = <<>>
    /\ call = [c \in Client |-> NoEntry]
    /\ done = [c \in Client |-> FALSE]
    /\ acked = {}

Begin(c) ==
    /\ call[c] = NoEntry
    /\ \E e \in Entry : call' = [call EXCEPT ![c] = e]
    /\ UNCHANGED <<log, done, acked>>

TakeEffect(c) ==
    /\ call[c] # NoEntry /\ ~done[c]
    /\ log' = Append(log, call[c])
    /\ done' = [done EXCEPT ![c] = TRUE]
    /\ UNCHANGED <<call, acked>>

Ended(c) ==
    /\ call[c] # NoEntry
    /\ call' = [call EXCEPT ![c] = NoEntry]
    /\ done' = [done EXCEPT ![c] = FALSE]
    /\ UNCHANGED log

Acknowledge(c) == Ended(c) /\ done[c] /\ acked' = acked \cup {call[c]}

Fail(c) == Ended(c) /\ UNCHANGED acked

Next == \E c \in Client : Begin(c) \/ TakeEffect(c) \/ Acknowledge(c) \/ Fail(c)

Spec == Init /\ [][Next]_vars
=============================================================================
