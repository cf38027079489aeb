----------------------------- MODULE SkillStore -----------------------------
(***************************************************************************)
(* One JSON file of skill_library/store.py and the Store objects that      *)
(* append to it and read it.  Playbook and drift cards are two instances   *)
(* of the same code.  A Client is one Store object: it is used by one      *)
(* thread at a time, so its appends and reads do not overlap, but several  *)
(* clients, in one or in many processes, share the directory.              *)
(*                                                                         *)
(* Every system call that another client can see is a step of its own.     *)
(* The file system is external: os.replace is atomic, a flock ends with    *)
(* the process that holds it, a file keeps the mtime of its last write.    *)
(* A missing file is an empty one with mtime 0 (_safe_mtime).  Only        *)
(* platforms with fcntl are modelled: elsewhere the lock is a no-op.       *)
(***************************************************************************)
EXTENDS Integers, Sequences, FiniteSets

CONSTANTS
    Client,       \* Store objects that share the directory
    Nobody,       \* no client
    NoEntry,      \* no entry
    MaxAppends,   \* bound: appends each client starts
    MaxReads,     \* bound: reads each client starts, client by client
    ReadFaults,   \* TRUE: reading the file may raise OSError
    WriteFaults   \* TRUE: writing the tmp file may raise OSError

ASSUME StoreAssumption ==
    /\ IsFiniteSet(Client) /\ Client # {}
    /\ Nobody \notin Client
    /\ NoEntry \notin Client \X Nat
    /\ MaxAppends \in Nat /\ MaxReads \in [Client -> Nat]
    /\ ReadFaults \in BOOLEAN /\ WriteFaults \in BOOLEAN

\* The n-th append of a client brings its n-th entry.
Entry == Client \X (1..MaxAppends)

VARIABLES
    file,      \* the JSON array on disk and its mtime
    tmp,       \* the sibling *.tmp file
    lock,      \* who holds the flock on *.lock
    clock,     \* the mtime the last write got, and as a history if two got the same
    pc,        \* where each client is in _locked_append or _read_cached
    entry,     \* new_item of the append under way
    existing,  \* what the append read
    statted,   \* the mtime the read under way has seen
    cache,     \* _playbook_cache: tuple and mtime, or NoCache
    result,    \* what the client's last read returned
    appends, reads,
    acked,     \* entries whose append returned without an exception
    since      \* acked when the client's last read began

fileVars == <<file, tmp, lock, clock>>
readVars == <<statted, cache, result, since>>
vars == <<fileVars, pc, entry, existing, readVars, appends, reads, acked>>

Missing == [content |-> <<>>, mtime |-> 0]
NoCache == [content |-> <<>>, mtime |-> -1]

Entries(log) == {log[i] : i \in 1..Len(log)}

Goto(c, label) == pc' = [pc EXCEPT ![c] = label]

-----------------------------------------------------------------------------
(* append_playbook, append_drift_card: _locked_append *)

BeginAppend(c) ==
    /\ pc[c] = "idle" /\ appends[c] < MaxAppends
    /\ appends' = [appends EXCEPT ![c] = @ + 1]
    /\ entry' = [entry EXCEPT ![c] = <<c, appends[c] + 1>>]
    /\ Goto(c, "lock")
    /\ UNCHANGED <<fileVars, existing, readVars, reads, acked>>

\* Mutant: the lock is taken without looking who holds it.
LockFreeIgnored == TRUE

LockFree == lock = Nobody

Acquire(c) ==
    /\ pc[c] = "lock"
    /\ LockFree
    /\ lock' = c
    /\ Goto(c, "read")
    /\ UNCHANGED <<file, tmp, clock, entry, existing, readVars, appends, reads, acked>>

\* The deadline passes while the lock is held: TimeoutError.
LockTimeout(c) ==
    /\ pc[c] = "lock"
    /\ ~LockFree
    /\ entry' = [entry EXCEPT ![c] = NoEntry]
    /\ Goto(c, "idle")
    /\ UNCHANGED <<fileVars, existing, readVars, appends, reads, acked>>

\* _read_json_array under the lock: an unreadable file counts as empty.
ReadExisting(c) ==
    /\ pc[c] = "read"
    /\ \E content \in {file.content} \cup (IF ReadFaults THEN {<<>>} ELSE {}) :
           existing' = [existing EXCEPT ![c] = content]
    /\ Goto(c, "open")
    /\ UNCHANGED <<fileVars, entry, readVars, appends, reads, acked>>

\* _atomic_write_json opens the tmp file, which truncates it.
OpenTmp(c) ==
    /\ pc[c] = "open"
    /\ tmp' = Missing
    /\ Goto(c, "write")
    /\ UNCHANGED <<file, lock, clock, entry, existing, readVars, appends, reads, acked>>

\* Write, flush, fsync: the tmp file is whole and gets its mtime, a new one or,
\* when the file system's clock is coarse, that of the write before.
WriteTmp(c) ==
    /\ pc[c] = "write"
    /\ \/ clock' = [now |-> clock.now + 1, tied |-> clock.tied]
       \/ clock.now > 0 /\ clock' = [now |-> clock.now, tied |-> TRUE]
    /\ tmp' = [content |-> Append(existing[c], entry[c]), mtime |-> clock'.now]
    /\ Goto(c, "replace")
    /\ UNCHANGED <<file, lock, entry, existing, readVars, appends, reads, acked>>

\* Mutant: a failed write is tried again without limit.
WriteFailsRetries(c) ==
    /\ pc[c] = "write" /\ WriteFaults
    /\ Goto(c, "open")
    /\ UNCHANGED <<fileVars, entry, existing, readVars, appends, reads, acked>>

\* The disk is full: OSError, and part of a tmp file stays behind.
WriteFails(c) ==
    /\ pc[c] = "write" /\ WriteFaults
    /\ Goto(c, "raise")
    /\ UNCHANGED <<fileVars, entry, existing, readVars, appends, reads, acked>>

\* os.replace
Replace(c) ==
    /\ pc[c] = "replace"
    /\ file' = tmp
    /\ tmp' = Missing
    /\ Goto(c, "unlock")
    /\ UNCHANGED <<lock, clock, entry, existing, readVars, appends, reads, acked>>

Unlocked(c) == IF lock = c THEN Nobody ELSE lock

\* Mutant: the append leaves the client's own cache as it was.
FinishAppendKeepsCache(c) ==
    /\ pc[c] = "unlock"
    /\ lock' = Unlocked(c)
    /\ acked' = acked \cup {entry[c]}
    /\ entry' = [entry EXCEPT ![c] = NoEntry]
    /\ Goto(c, "idle")
    /\ UNCHANGED <<file, tmp, clock, existing, readVars, appends, reads>>

\* The lock is released, the own cache dropped and the append returns.
FinishAppend(c) ==
    /\ pc[c] = "unlock"
    /\ lock' = Unlocked(c)
    /\ acked' = acked \cup {entry[c]}
    /\ entry' = [entry EXCEPT ![c] = NoEntry]
    /\ cache' = [cache EXCEPT ![c] = NoCache]
    /\ Goto(c, "idle")
    /\ UNCHANGED <<file, tmp, clock, existing, statted, result, since, appends, reads>>

\* An exception leaves the critical section: the lock is released.
AppendRaises(c) ==
    /\ pc[c] = "raise"
    /\ lock' = Unlocked(c)
    /\ entry' = [entry EXCEPT ![c] = NoEntry]
    /\ Goto(c, "idle")
    /\ UNCHANGED <<file, tmp, clock, existing, readVars, appends, reads, acked>>

-----------------------------------------------------------------------------
(* read_playbook, read_drift_cards: _read_cached, without a lock *)

Stat(c) ==
    /\ pc[c] = "idle" /\ reads[c] < MaxReads[c]
    /\ reads' = [reads EXCEPT ![c] = @ + 1]
    /\ statted' = [statted EXCEPT ![c] = file.mtime]
    /\ since' = [since EXCEPT ![c] = acked]
    /\ Goto(c, "statted")
    /\ UNCHANGED <<fileVars, entry, existing, cache, result, appends, acked>>

\* Mutant: a cache that is there is used, whatever the file's mtime.
CacheValidAlways(c) == cache[c] # NoCache

CacheValid(c) == cache[c] # NoCache /\ cache[c].mtime = statted[c]

ReadHit(c) ==
    /\ pc[c] = "statted" /\ CacheValid(c)
    /\ result' = [result EXCEPT ![c] = cache[c].content]
    /\ Goto(c, "idle")
    /\ UNCHANGED <<fileVars, entry, existing, statted, cache, since, appends, reads, acked>>

\* The file may have been replaced since it was statted.
ReadMiss(c) ==
    /\ pc[c] = "statted" /\ ~CacheValid(c)
    /\ \E content \in {file.content} \cup (IF ReadFaults THEN {<<>>} ELSE {}) :
           /\ result' = [result EXCEPT ![c] = content]
           /\ cache' = [cache EXCEPT ![c] = [content |-> content, mtime |-> statted[c]]]
    /\ Goto(c, "idle")
    /\ UNCHANGED <<fileVars, entry, existing, statted, since, appends, reads, acked>>

-----------------------------------------------------------------------------
(* A process dies at any point and is started again *)

Crash(c) ==
    /\ pc[c] # "idle"
    /\ lock' = Unlocked(c)
    /\ entry' = [entry EXCEPT ![c] = NoEntry]
    /\ cache' = [cache EXCEPT ![c] = NoCache]
    /\ result' = [result EXCEPT ![c] = <<>>]
    /\ since' = [since EXCEPT ![c] = {}]
    /\ Goto(c, "idle")
    /\ UNCHANGED <<file, tmp, clock, existing, statted, appends, reads, acked>>

-----------------------------------------------------------------------------
(* The specification *)

Init ==
    /\ file = Missing
    /\ tmp = Missing
    /\ lock = Nobody
    /\ clock = [now |-> 0, tied |-> FALSE]
    /\ pc = [c \in Client |-> "idle"]
    /\ entry = [c \in Client |-> NoEntry]
    /\ existing = [c \in Client |-> <<>>]
    /\ statted = [c \in Client |-> 0]
    /\ cache = [c \in Client |-> NoCache]
    /\ result = [c \in Client |-> <<>>]
    /\ appends = [c \in Client |-> 0]
    /\ reads = [c \in Client |-> 0]
    /\ acked = {}
    /\ since = [c \in Client |-> {}]

\* The steps of a call that is under way.
Proceed(c) ==
    \/ Acquire(c) \/ LockTimeout(c) \/ ReadExisting(c) \/ OpenTmp(c)
    \/ WriteTmp(c) \/ WriteFails(c) \/ Replace(c) \/ FinishAppend(c) \/ AppendRaises(c)
    \/ ReadHit(c) \/ ReadMiss(c)

Next == \E c \in Client : BeginAppend(c) \/ Stat(c) \/ Proceed(c) \/ Crash(c)

Spec == Init /\ [][Next]_vars

\* A thread inside a call keeps running (or dies): nothing blocks but the lock,
\* and the lock is polled against a deadline.
FairSpec == Spec /\ \A c \in Client : WF_vars(Proceed(c))

-----------------------------------------------------------------------------
(* Properties *)

Label == {"idle", "lock", "read", "open", "write", "replace", "unlock", "raise", "statted"}

Log == Seq(Entry)

TypeOK ==
    /\ file \in [content : Log, mtime : Nat]
    /\ tmp \in [content : Log, mtime : Nat]
    /\ lock \in Client \cup {Nobody}
    /\ clock \in [now : Nat, tied : BOOLEAN]
    /\ pc \in [Client -> Label]
    /\ entry \in [Client -> Entry \cup {NoEntry}]
    /\ existing \in [Client -> Log]
    /\ statted \in [Client -> Nat]
    /\ cache \in [Client -> [content : Log, mtime : Int]]
    /\ result \in [Client -> Log]
    /\ appends \in [Client -> 0..MaxAppends]
    /\ reads \in [Client -> Nat]
    /\ acked \subseteq Entry
    /\ since \in [Client -> SUBSET Entry]

\* As long as no two writes got the same mtime, a read returns at least what had
\* been acknowledged when it began, through the mtime cache as well as past it
\* (_read_cached).
ReadsAreFresh ==
    ~clock.tied =>
        \A c \in Client : pc[c] = "idle" => since[c] \subseteq Entries(result[c])

\* Whatever the resolution of the file's mtime, a client reads its own appends:
\* append_playbook and append_drift_card drop its cache.
ReadsOwnAppends ==
    \A c \in Client : pc[c] = "idle" =>
        {e \in since[c] : e[1] = c} \subseteq Entries(result[c])

\* Every call ends, also when the lock's holder is slow or dies (_locked polls
\* against a deadline; a flock dies with its process).
CallsEnd == \A c \in Client : pc[c] # "idle" ~> pc[c] = "idle"

\* The calls of the store as the clients of an append-only log see them.
LogCall == [c \in Client |-> entry[c]]
LogDone == [c \in Client |-> pc[c] = "unlock"]

AbstractLog == INSTANCE AppendLog
               WITH log <- file.content, call <- LogCall, done <- LogDone

\* The store is an append-only log: an append is one new entry at the end of the
\* file, takes effect once, at os.replace, and an acknowledged one is in it;
\* a crash at any point leaves the old array or the new one.
IsAppendOnly == AbstractLog!Spec
=============================================================================
