------------------------------ MODULE Watchdog ------------------------------
(***************************************************************************)
(* engine/profiler.py: _run_worker_with_watchdog, the one place where the  *)
(* environment's threads and DuckDB's worker threads meet, together with   *)
(* its callers: scenarios/base.py materialize and step(), reset() and      *)
(* close() of the environment.                                             *)
(*                                                                         *)
(* A session is one environment and the thread that serves it; several run *)
(* in one process and share the leak counter.  A statement runs in a       *)
(* worker thread of its own, which may end at any moment, with a result or *)
(* an error, or never.  Episode takes a whole statement as one step with   *)
(* three ends; here those ends are worked out.                             *)
(*                                                                         *)
(* Threads, locks and DuckDB's interrupt are external: an interrupt makes  *)
(* the worker raise soon, or is not honoured at all.                       *)
(***************************************************************************)
EXTENDS Integers, FiniteSets

CONSTANTS
    Session,          \* environments of the process
    Nobody,           \* no session
    WarmRuns,         \* runs of the baseline in median_of_3_warm_ms, four there
    MaxConns,         \* bound: episodes a session materializes
    MaxCalls          \* bound: statements of a session

ASSUME WatchdogAssumption ==
    /\ Session # {} /\ IsFiniteSet(Session) /\ Nobody \notin Session
    /\ WarmRuns \in Nat /\ MaxConns \in Nat /\ MaxCalls \in Nat

\* The n-th connection of a session; number 0 stands for none.
Conn == Session \X (1..MaxConns)

VARIABLES
    opened,        \* connections each session has opened
    building,      \* the connection materialize works on, 0 when none
    warm,          \* baseline runs it still has to do
    current,       \* the runtime's connection, 0 when none
    poisoned,      \* connection_poisoned; the step budget is then used up
    pc,            \* where each session's thread is
    on,            \* the connection number of the statement under way
    worker,        \* the statement's worker: running, result or error
    outcome,       \* what the statement gave the caller
    abandoned,     \* connections a worker is still in after its caller left
    closed,        \* connections closed
    calls,
    leakLock,      \* _watchdog_leak_lock
    leaked,        \* _watchdog_leaked_count
    seen           \* the count a session has read under the lock

connVars == <<opened, building, warm, current, poisoned>>
leakVars == <<leakLock, leaked, seen>>
vars == <<connVars, pc, on, worker, outcome, abandoned, closed, calls, leakVars>>

Goto(s, label) == pc' = [pc EXCEPT ![s] = label]

-----------------------------------------------------------------------------
(* The callers *)

\* reset(): the scenario's builder opens a connection for materialize.  The
\* runtime of the previous episode is still there.
Materialize(s) ==
    /\ pc[s] = "idle" /\ building[s] = 0 /\ opened[s] < MaxConns
    /\ opened' = [opened EXCEPT ![s] = @ + 1]
    /\ building' = [building EXCEPT ![s] = opened[s] + 1]
    /\ warm' = [warm EXCEPT ![s] = WarmRuns]
    /\ UNCHANGED <<current, poisoned, pc, on, worker, outcome, abandoned, closed, calls, leakVars>>

\* A worker thread starts on the connection.
Start(s, conn) ==
    /\ pc[s] = "idle" /\ calls[s] < MaxCalls
    /\ calls' = [calls EXCEPT ![s] = @ + 1]
    /\ on' = [on EXCEPT ![s] = conn]
    /\ worker' = [worker EXCEPT ![s] = "running"]
    /\ outcome' = [outcome EXCEPT ![s] = "none"]
    /\ Goto(s, "join")

RunBaseline(s) ==
    /\ building[s] # 0 /\ warm[s] > 0
    /\ Start(s, building[s])
    /\ UNCHANGED <<connVars, abandoned, closed, leakVars>>

\* run_query, explain_query or submit_rewrite.  A poisoned episode has no step
\* left, for these or for the tools that use the connection without a watchdog.
Step(s) ==
    /\ building[s] = 0 /\ current[s] # 0 /\ ~poisoned[s]
    /\ Start(s, current[s])
    /\ UNCHANGED <<connVars, abandoned, closed, leakVars>>

\* Mutant: a poisoned connection is closed like any other.
ClosedWithAlways(s) == IF current[s] = 0 THEN {} ELSE {<<s, current[s]>>}

\* _close_existing_runtime: a poisoned connection is left alone.
ClosedWith(s) == IF current[s] = 0 \/ poisoned[s] THEN {} ELSE {<<s, current[s]>>}

\* The baseline is measured: the new episode replaces the old one.
Install(s) ==
    /\ pc[s] = "idle" /\ building[s] # 0 /\ warm[s] = 0
    /\ closed' = closed \cup ClosedWith(s)
    /\ current' = [current EXCEPT ![s] = building[s]]
    /\ building' = [building EXCEPT ![s] = 0]
    /\ poisoned' = [poisoned EXCEPT ![s] = FALSE]
    /\ UNCHANGED <<opened, warm, pc, on, worker, outcome, abandoned, calls, leakVars>>

Close(s) ==
    /\ pc[s] = "idle" /\ building[s] = 0 /\ current[s] # 0
    /\ closed' = closed \cup ClosedWith(s)
    /\ current' = [current EXCEPT ![s] = 0]
    /\ poisoned' = [poisoned EXCEPT ![s] = FALSE]
    /\ UNCHANGED <<opened, building, warm, pc, on, worker, outcome, abandoned, calls, leakVars>>

-----------------------------------------------------------------------------
(* The worker *)

WorkerEnds(s) ==
    /\ worker[s] = "running"
    /\ \E end \in {"result", "error"} : worker' = [worker EXCEPT ![s] = end]
    /\ UNCHANGED <<connVars, pc, on, outcome, abandoned, closed, calls, leakVars>>

\* A worker whose caller has left may still end.
AbandonedEnds(c) ==
    /\ c \in abandoned
    /\ abandoned' = abandoned \ {c}
    /\ UNCHANGED <<connVars, pc, on, worker, outcome, closed, calls, leakVars>>

-----------------------------------------------------------------------------
(* _run_worker_with_watchdog *)

\* thread.join(timeout_s) returns: at the end of the worker or of the time.
Join(s) ==
    /\ pc[s] = "join"
    /\ Goto(s, "check")
    /\ UNCHANGED <<connVars, on, worker, outcome, abandoned, closed, calls, leakVars>>

Gave(s, what) == outcome' = [outcome EXCEPT ![s] = what]

\* not thread.is_alive(): the result is returned or the error raised.
Deliver(s) ==
    /\ pc[s] = "check" /\ worker[s] # "running"
    /\ Gave(s, worker[s])
    /\ Goto(s, "return")
    /\ UNCHANGED <<connVars, on, worker, abandoned, closed, calls, leakVars>>

\* The worker is alive: conn.interrupt().
Interrupt(s) ==
    /\ pc[s] = "check" /\ worker[s] = "running"
    /\ Goto(s, "grace")
    /\ UNCHANGED <<connVars, on, worker, outcome, abandoned, closed, calls, leakVars>>

\* thread.join(INTERRUPT_GRACE_S) finds it ended, however: TimeoutError.
TimedOut(s) ==
    /\ pc[s] = "grace" /\ worker[s] # "running"
    /\ Gave(s, "timeout")
    /\ Goto(s, "return")
    /\ UNCHANGED <<connVars, on, worker, abandoned, closed, calls, leakVars>>

\* Mutant: the second join has no time limit.
GraceEndsNever(s) == FALSE /\ UNCHANGED vars

\* The grace is over and the worker still alive.
GraceEnds(s) ==
    /\ pc[s] = "grace" /\ worker[s] = "running"
    /\ worker' = [worker EXCEPT ![s] = "left"]
    /\ abandoned' = abandoned \cup {<<s, on[s]>>}
    /\ Goto(s, "lock")
    /\ UNCHANGED <<connVars, on, outcome, closed, calls, leakVars>>

\* Mutant: the counter is read without the lock.
LeakLockIsFreeIgnored == TRUE

LeakLockIsFree == leakLock = Nobody

ReadLeaked(s) ==
    /\ pc[s] = "lock" /\ LeakLockIsFree
    /\ leakLock' = s
    /\ seen' = [seen EXCEPT ![s] = leaked]
    /\ Goto(s, "count")
    /\ UNCHANGED <<connVars, on, worker, outcome, abandoned, closed, calls, leaked>>

\* The increment is written and QueryWatchdogEscalationError raised.
WriteLeaked(s) ==
    /\ pc[s] = "count"
    /\ leaked' = seen[s] + 1
    /\ leakLock' = Nobody
    /\ Gave(s, "escalation")
    /\ Goto(s, "return")
    /\ UNCHANGED <<connVars, on, worker, abandoned, closed, calls, seen>>

-----------------------------------------------------------------------------
(* What the callers do with the end of a statement *)

Returned(s) ==
    /\ pc[s] = "return"
    /\ Goto(s, "idle")
    /\ UNCHANGED <<opened, current, on, worker, outcome, abandoned, calls, leakVars>>

BaselineDone(s) ==
    /\ building[s] # 0 /\ outcome[s] = "result"
    /\ Returned(s)
    /\ warm' = [warm EXCEPT ![s] = @ - 1]
    /\ UNCHANGED <<building, poisoned, closed>>

\* materialize: "except Exception: conn.close(); raise"; reset() raises and the
\* previous episode goes on.
BaselineRaises(s) ==
    /\ building[s] # 0 /\ outcome[s] # "result"
    /\ Returned(s)
    /\ closed' = closed \cup {<<s, building[s]>>}
    /\ building' = [building EXCEPT ![s] = 0]
    /\ UNCHANGED <<warm, poisoned>>

\* Mutant: an escalation is reported like any other error.
PoisonNever(s) == FALSE

Poison(s) == outcome[s] = "escalation"

\* step() or the handler turns the end into an observation; an escalation marks
\* the connection poisoned and uses up the budget.
StepDone(s) ==
    /\ building[s] = 0
    /\ Returned(s)
    /\ poisoned' = [poisoned EXCEPT ![s] = @ \/ Poison(s)]
    /\ UNCHANGED <<building, warm, closed>>

-----------------------------------------------------------------------------
(* The specification *)

Init ==
    /\ opened = [s \in Session |-> 0]
    /\ building = [s \in Session |-> 0]
    /\ warm = [s \in Session |-> 0]
    /\ current = [s \in Session |-> 0]
    /\ poisoned = [s \in Session |-> FALSE]
    /\ pc = [s \in Session |-> "idle"]
    /\ on = [s \in Session |-> 0]
    /\ worker = [s \in Session |-> "none"]
    /\ outcome = [s \in Session |-> "none"]
    /\ abandoned = {}
    /\ closed = {}
    /\ calls = [s \in Session |-> 0]
    /\ leakLock = Nobody
    /\ leaked = 0
    /\ seen = [s \in Session |-> 0]

\* The session's own thread, once it has started a statement.
Proceed(s) ==
    \/ Join(s) \/ Deliver(s) \/ Interrupt(s) \/ TimedOut(s)
    \/ GraceEnds(s) \/ ReadLeaked(s) \/ WriteLeaked(s)
    \/ BaselineDone(s) \/ BaselineRaises(s) \/ StepDone(s)

Call(s) == Materialize(s) \/ RunBaseline(s) \/ Step(s) \/ Install(s) \/ Close(s)

Next ==
    \/ \E s \in Session : Call(s) \/ WorkerEnds(s) \/ Proceed(s)
    \/ \E c \in Conn : AbandonedEnds(c)

Spec == Init /\ [][Next]_vars

\* Joins have time limits, so the session's thread always goes on; nothing is
\* assumed of the workers.
FairSpec == Spec /\ \A s \in Session : WF_vars(Proceed(s))

-----------------------------------------------------------------------------
(* Properties *)

Building(s) == IF building[s] = 0 THEN {} ELSE {<<s, building[s]>>}

InUse(c) == {s \in Session : worker[s] = "running" /\ on[s] # 0 /\ <<s, on[s]>> = c}

\* No worker is ever started on a connection another worker is still inside, or
\* on one that was closed: an escalation finishes the episode it happens in.  And
\* the leak counter misses no worker that is still alive: sessions that escalate
\* together do not lose one another's increments.
WorkersAccounted ==
    /\ \A c \in abandoned \cup closed : InUse(c) = {}
    /\ Cardinality(abandoned)
           <= leaked + Cardinality({s \in Session : pc[s] \in {"lock", "count"}})

\* Nothing closes a connection a worker may still be inside, with one exception:
\* materialize closes the connection it is building when the baseline escalates.
\* (profiler.py says the connection "is no longer safe" then; reset() of the next
\* episode and close() leave such a connection alone.)
ClosedOnlyWhenQuiet ==
    [][\A c \in closed' \ closed :
           /\ InUse(c) = {}
           /\ c \in abandoned => \E s \in Session : c \in Building(s)]_vars

\* A statement comes back to its caller, though its worker may never end.
StatementsReturn == \A s \in Session : pc[s] # "idle" ~> pc[s] = "idle"
=============================================================================
