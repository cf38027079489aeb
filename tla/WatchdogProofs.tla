--------------------------- MODULE WatchdogProofs ---------------------------
(***************************************************************************)
(* Proofs of the safety properties of Watchdog: workers and connections    *)
(* are accounted for, whatever workers never end.                          *)
(***************************************************************************)
EXTENDS Watchdog, FiniteSetTheorems, TLAPS

-----------------------------------------------------------------------------
(* The inductive invariant *)

Label == {"idle", "join", "check", "grace", "lock", "count", "return"}

TypeInv ==
    /\ opened \in [Session -> 0..MaxConns]
    /\ building \in [Session -> 0..MaxConns]
    /\ warm \in [Session -> Int]
    /\ current \in [Session -> 0..MaxConns]
    /\ poisoned \in [Session -> BOOLEAN]
    /\ pc \in [Session -> Label]
    /\ on \in [Session -> 0..MaxConns]
    /\ worker \in [Session -> {"none", "running", "result", "error", "left"}]
    /\ outcome \in [Session -> {"none", "result", "error", "left", "timeout", "escalation"}]
    /\ abandoned \subseteq Conn
    /\ closed \subseteq Conn
    /\ calls \in [Session -> Nat]
    /\ leakLock \in Session \cup {Nobody}
    /\ leaked \in Nat
    /\ seen \in [Session -> Nat]

Waiting == {"join", "check", "grace"}

\* The statement has escalated, and its caller does not know yet.
Escaped(s) ==
    \/ pc[s] \in {"lock", "count"}
    \/ pc[s] = "return" /\ outcome[s] = "escalation"

\* Connections are numbered in the order they are opened.
Numbered(s) ==
    /\ building[s] <= opened[s] /\ current[s] <= opened[s]
    /\ building[s] # 0 => current[s] < building[s]
    /\ \A n \in 1..MaxConns : <<s, n>> \in abandoned \cup closed => n <= opened[s]

\* A worker runs only while its caller waits for it, on the connection in use.
Attended(s) ==
    /\ worker[s] = "running" => pc[s] \in Waiting
    /\ pc[s] # "idle" =>
           /\ on[s] # 0
           /\ on[s] = IF building[s] # 0 THEN building[s] ELSE current[s]
    /\ pc[s] \in Waiting => <<s, on[s]>> \notin abandoned

\* A connection in use is not closed, and no abandoned worker is inside it unless
\* it is poisoned or about to be.
Usable(s) ==
    /\ current[s] # 0 => <<s, current[s]>> \notin closed
    /\ building[s] # 0 => <<s, building[s]>> \notin closed
    /\ building[s] # 0 /\ <<s, building[s]>> \in abandoned => Escaped(s)
    /\ current[s] # 0 /\ ~poisoned[s] /\ <<s, current[s]>> \in abandoned =>
           building[s] = 0 /\ Escaped(s)

SessionInv(s) == Numbered(s) /\ Attended(s) /\ Usable(s)

\* The lock protects the counter between its reading and its writing.
LockInv ==
    \A s \in Session :
        /\ pc[s] = "count" <=> leakLock = s
        /\ pc[s] = "count" => seen[s] = leaked

Leaking == {s \in Session : pc[s] \in {"lock", "count"}}

CountInv == Cardinality(abandoned) <= leaked + Cardinality(Leaking)

-----------------------------------------------------------------------------
(* Types *)

Acts(s) == Call(s) \/ WorkerEnds(s) \/ Proceed(s)

LEMMA TypeStep ==
    ASSUME TypeInv, \A s \in Session : SessionInv(s), [Next]_vars
    PROVE  TypeInv'
  <1> USE WatchdogAssumption DEF TypeInv, Goto, Label
  <1>1. ASSUME NEW s \in Session, Materialize(s) PROVE TypeInv'
    BY <1>1 DEF Materialize, leakVars
  <1>2. ASSUME NEW s \in Session, RunBaseline(s) \/ Step(s) PROVE TypeInv'
    BY <1>2 DEF RunBaseline, Step, Start, connVars, leakVars
  <1>3. ASSUME NEW s \in Session, Install(s) \/ Close(s) PROVE TypeInv'
    <2>1. current[s] \in 0..MaxConns
      OBVIOUS
    <2>2. ClosedWith(s) \subseteq Conn
      <3>1. CASE current[s] = 0 \/ poisoned[s]
        BY <3>1 DEF ClosedWith
      <3>2. CASE ~(current[s] = 0 \/ poisoned[s])
        <4>1. current[s] \in 1..MaxConns
          BY <2>1, <3>2
        <4> QED
          BY <3>2, <4>1 DEF ClosedWith, Conn
      <3> QED
        BY <3>1, <3>2
    <2>3. closed' \subseteq Conn
      BY <1>3, <2>2 DEF Install, Close
    <2>4. CASE Install(s)
      BY <2>3, <2>4 DEF Install, leakVars
    <2>5. CASE Close(s)
      BY <2>3, <2>5 DEF Close, leakVars
    <2> QED
      BY <1>3, <2>4, <2>5
  <1>4. ASSUME NEW s \in Session, WorkerEnds(s) PROVE TypeInv'
    BY <1>4 DEF WorkerEnds, connVars, leakVars
  <1>5. ASSUME NEW s \in Session, Join(s) \/ Deliver(s) \/ Interrupt(s) \/ TimedOut(s)
        PROVE  TypeInv'
    BY <1>5 DEF Join, Deliver, Interrupt, TimedOut, Gave, connVars, leakVars
  <1>6. ASSUME NEW s \in Session, GraceEnds(s) PROVE TypeInv'
    <2>1. <<s, on[s]>> \in Conn
      BY <1>6 DEF GraceEnds, Conn, SessionInv, Attended
    <2> QED
      BY <1>6, <2>1 DEF GraceEnds, connVars, leakVars
  <1>7. ASSUME NEW s \in Session, ReadLeaked(s) \/ WriteLeaked(s) PROVE TypeInv'
    BY <1>7 DEF ReadLeaked, WriteLeaked, Gave, connVars
  <1>8. ASSUME NEW s \in Session, BaselineDone(s) \/ StepDone(s) PROVE TypeInv'
    <2>1. warm' \in [Session -> Int]
      BY <1>8 DEF BaselineDone, StepDone
    <2>2. poisoned' = poisoned \/ poisoned' = [poisoned EXCEPT ![s] = @ \/ Poison(s)]
      BY <1>8 DEF BaselineDone, StepDone
    <2>3. (poisoned[s] \/ Poison(s)) \in BOOLEAN
      BY DEF Poison
    <2>4. poisoned' \in [Session -> BOOLEAN]
      BY <2>2, <2>3
    <2> QED
      BY <1>8, <2>1, <2>4 DEF BaselineDone, StepDone, Returned, leakVars
  <1>9. ASSUME NEW s \in Session, BaselineRaises(s) PROVE TypeInv'
    <2>1. building[s] \in 1..MaxConns
      BY <1>9 DEF BaselineRaises
    <2> QED
      BY <1>9, <2>1 DEF BaselineRaises, Returned, leakVars, Conn
  <1>10. ASSUME NEW c \in Conn, AbandonedEnds(c) PROVE TypeInv'
    BY <1>10 DEF AbandonedEnds, connVars, leakVars
  <1>11. CASE UNCHANGED vars
    BY <1>11 DEF vars, connVars, leakVars
  <1> QED
    BY <1>1, <1>2, <1>3, <1>4, <1>5, <1>6, <1>7, <1>8, <1>9, <1>10, <1>11
       DEF Next, Call, Proceed

-----------------------------------------------------------------------------
(* Sessions do not meet but at the leak counter *)

\* A step that leaves another session's part of the state alone.
Spares(t) ==
    /\ opened'[t] = opened[t] /\ building'[t] = building[t] /\ current'[t] = current[t]
    /\ poisoned'[t] = poisoned[t] /\ pc'[t] = pc[t] /\ on'[t] = on[t]
    /\ worker'[t] = worker[t] /\ outcome'[t] = outcome[t]
    /\ \A n \in 0..MaxConns : /\ <<t, n>> \in abandoned' <=> <<t, n>> \in abandoned
                              /\ <<t, n>> \in closed' <=> <<t, n>> \in closed

LEMMA SparedKeeps ==
    ASSUME TypeInv, NEW t \in Session, SessionInv(t), Spares(t)
    PROVE  SessionInv(t)'
  <1>1. on[t] \in 0..MaxConns /\ current[t] \in 0..MaxConns /\ building[t] \in 0..MaxConns
    BY DEF TypeInv
  <1>2. Numbered(t)'
    BY DEF SessionInv, Numbered, Spares
  <1>3. Attended(t)'
    BY <1>1 DEF SessionInv, Attended, Spares
  <1>4. Usable(t)'
    BY <1>1 DEF SessionInv, Usable, Escaped, Spares
  <1> QED
    BY <1>2, <1>3, <1>4 DEF SessionInv

LEMMA OthersSpared ==
    ASSUME TypeInv, NEW s \in Session, Acts(s), NEW t \in Session \ {s}
    PROVE  Spares(t)
  <1> USE DEF TypeInv, Goto, Spares
  <1>1. CASE Materialize(s)
    BY <1>1 DEF Materialize
  <1>2. CASE RunBaseline(s) \/ Step(s)
    BY <1>2 DEF RunBaseline, Step, Start, connVars
  <1>3. CASE Install(s) \/ Close(s)
    BY <1>3 DEF Install, Close, ClosedWith
  <1>4. CASE WorkerEnds(s)
    BY <1>4 DEF WorkerEnds, connVars
  <1>5. CASE Join(s) \/ Deliver(s) \/ Interrupt(s) \/ TimedOut(s)
    BY <1>5 DEF Join, Deliver, Interrupt, TimedOut, Gave, connVars
  <1>6. CASE GraceEnds(s)
    BY <1>6 DEF GraceEnds, connVars
  <1>7. CASE ReadLeaked(s) \/ WriteLeaked(s)
    BY <1>7 DEF ReadLeaked, WriteLeaked, Gave, connVars
  <1>8. CASE BaselineDone(s) \/ StepDone(s)
    BY <1>8 DEF BaselineDone, StepDone, Returned
  <1>9. CASE BaselineRaises(s)
    BY <1>9 DEF BaselineRaises, Returned
  <1> QED
    BY <1>1, <1>2, <1>3, <1>4, <1>5, <1>6, <1>7, <1>8, <1>9 DEF Acts, Call, Proceed

\* What holds of the session that acts.
LEMMA ActorKeeps ==
    ASSUME TypeInv, NEW s \in Session, SessionInv(s), Acts(s)
    PROVE  SessionInv(s)'
  <1> USE DEF TypeInv, Goto, Waiting
  <1> USE DEF SessionInv, Numbered, Attended, Usable, Escaped
  <1>1. CASE Materialize(s)
    <2>1. /\ pc[s] = "idle" /\ building[s] = 0 /\ opened[s] < MaxConns
          /\ opened'[s] = opened[s] + 1 /\ building'[s] = opened[s] + 1
          /\ UNCHANGED <<current, poisoned, pc, on, worker, outcome, abandoned, closed>>
      BY <1>1 DEF Materialize
    <2>2. opened[s] + 1 \in 1..MaxConns
      BY <2>1, WatchdogAssumption
    <2>3. <<s, opened[s] + 1>> \notin abandoned \cup closed
      BY <2>2
    <2>4. Numbered(s)'
      BY <2>1, <2>2
    <2>5. Attended(s)'
      BY <2>1
    <2>6. Usable(s)'
      BY <2>1, <2>3
    <2> QED
      BY <2>4, <2>5, <2>6
  <1>2. CASE RunBaseline(s)
    BY <1>2 DEF RunBaseline, Start, connVars
  <1>3. CASE Step(s)
    BY <1>3 DEF Step, Start, connVars
  <1>4. CASE Install(s)
    BY <1>4 DEF Install, ClosedWith
  <1>5. CASE Close(s)
    BY <1>5 DEF Close, ClosedWith
  <1>6. CASE WorkerEnds(s)
    BY <1>6 DEF WorkerEnds, connVars
  <1>7. CASE Join(s)
    BY <1>7 DEF Join, connVars
  <1>8. CASE Deliver(s)
    BY <1>8 DEF Deliver, Gave, connVars
  <1>9. CASE Interrupt(s)
    BY <1>9 DEF Interrupt, connVars
  <1>10. CASE TimedOut(s)
    BY <1>10 DEF TimedOut, Gave, connVars
  <1>11. CASE GraceEnds(s)
    <2>1. /\ pc[s] = "grace" /\ pc'[s] = "lock" /\ worker'[s] = "left"
          /\ abandoned' = abandoned \cup {<<s, on[s]>>}
          /\ UNCHANGED <<opened, building, current, poisoned, on, outcome, closed>>
      BY <1>11 DEF GraceEnds, connVars
    <2>2. /\ on[s] = IF building[s] # 0 THEN building[s] ELSE current[s]
          /\ on[s] <= opened[s]
      <3>1. on[s] = IF building[s] # 0 THEN building[s] ELSE current[s]
        BY <2>1
      <3>2. building[s] <= opened[s] /\ current[s] <= opened[s]
        OBVIOUS
      <3> QED
        BY <3>1, <3>2
    <2>3. ~Escaped(s) /\ Escaped(s)'
      BY <2>1
    <2>4. Numbered(s)'
      BY <2>1, <2>2
    <2>5. Attended(s)'
      BY <2>1
    <2>6. current[s] # 0 /\ building[s] # 0 => current[s] # building[s]
      OBVIOUS
    <2>7. Usable(s)'
      BY <2>1, <2>2, <2>3, <2>6
    <2> QED
      BY <2>4, <2>5, <2>7
  <1>12. CASE ReadLeaked(s)
    BY <1>12 DEF ReadLeaked, connVars
  <1>13. CASE WriteLeaked(s)
    BY <1>13 DEF WriteLeaked, Gave, connVars
  <1>14. CASE BaselineDone(s)
    BY <1>14 DEF BaselineDone, Returned
  <1>15. CASE BaselineRaises(s)
    BY <1>15 DEF BaselineRaises, Returned
  <1>16. CASE StepDone(s)
    BY <1>16 DEF StepDone, Returned, Poison
  <1> QED
    BY <1>1, <1>2, <1>3, <1>4, <1>5, <1>6, <1>7, <1>8, <1>9, <1>10, <1>11, <1>12,
       <1>13, <1>14, <1>15, <1>16 DEF Acts, Call, Proceed

\* Every step keeps what holds of every session.
LEMMA SessionsKept ==
    ASSUME TypeInv, \A t \in Session : SessionInv(t), [Next]_vars
    PROVE  \A t \in Session : SessionInv(t)'
  <1>1. ASSUME NEW s \in Session, Acts(s), NEW t \in Session
        PROVE  SessionInv(t)'
    <2>1. CASE t = s
      BY <1>1, <2>1, ActorKeeps
    <2>2. CASE t # s
      BY <1>1, <2>2, OthersSpared, SparedKeeps
    <2> QED
      BY <2>1, <2>2
  <1>2. ASSUME NEW c \in Conn, AbandonedEnds(c), NEW t \in Session
        PROVE  SessionInv(t)'
    <2>1. /\ UNCHANGED <<opened, building, current, poisoned, pc, on, worker, outcome, closed>>
          /\ abandoned' \subseteq abandoned
      BY <1>2 DEF AbandonedEnds, connVars
    <2>2. Numbered(t) /\ Attended(t) /\ Usable(t)
      BY DEF SessionInv
    <2>3. Numbered(t)' /\ Attended(t)'
      BY <2>1, <2>2 DEF Numbered, Attended
    <2>4. Usable(t)'
      BY <2>1, <2>2 DEF Usable, Escaped
    <2> QED
      BY <2>3, <2>4 DEF SessionInv
  <1>3. ASSUME UNCHANGED vars, NEW t \in Session
        PROVE  SessionInv(t)'
    BY <1>3 DEF vars, connVars, SessionInv, Numbered, Attended, Usable, Escaped
  <1> QED
    BY <1>1, <1>2, <1>3 DEF Next, Acts

-----------------------------------------------------------------------------
(* The leak counter *)

\* Where a statement's caller is with the counter.
LEMMA LockStep ==
    ASSUME TypeInv, LockInv, [Next]_vars
    PROVE  LockInv'
  <1> USE WatchdogAssumption DEF TypeInv, LockInv, Goto
  <1>1. ASSUME NEW s \in Session, ReadLeaked(s) PROVE LockInv'
    BY <1>1 DEF ReadLeaked, LeakLockIsFree
  <1>2. ASSUME NEW s \in Session, WriteLeaked(s) PROVE LockInv'
    BY <1>2 DEF WriteLeaked
  <1>3. ASSUME UNCHANGED leakVars,
               \A t \in Session : pc'[t] = "count" <=> pc[t] = "count"
        PROVE  LockInv'
    BY <1>3 DEF leakVars
  <1>4. ASSUME NEW s \in Session, Call(s) \/ WorkerEnds(s)
        PROVE  LockInv'
    BY <1>3, <1>4 DEF Call, Materialize, RunBaseline, Step, Start, Install, Close, WorkerEnds
  <1>5. ASSUME NEW s \in Session, Proceed(s), ~ReadLeaked(s), ~WriteLeaked(s)
        PROVE  LockInv'
    BY <1>3, <1>5 DEF Proceed, Join, Deliver, Interrupt, TimedOut, GraceEnds,
       BaselineDone, BaselineRaises, StepDone, Returned
  <1>6. ASSUME NEW c \in Conn, AbandonedEnds(c) PROVE LockInv'
    BY <1>3, <1>6 DEF AbandonedEnds
  <1>7. CASE UNCHANGED vars
    BY <1>3, <1>7 DEF vars
  <1> QED
    BY <1>1, <1>2, <1>4, <1>5, <1>6, <1>7 DEF Next

LEMMA Finite ==
    ASSUME TypeInv
    PROVE  /\ IsFiniteSet(abandoned) /\ Cardinality(abandoned) \in Nat
           /\ IsFiniteSet(Leaking) /\ Cardinality(Leaking) \in Nat
  <1>1. IsFiniteSet(1..MaxConns)
    BY WatchdogAssumption, FS_Interval
  <1>2. IsFiniteSet(Conn)
    BY <1>1, WatchdogAssumption, FS_Product DEF Conn
  <1>3. IsFiniteSet(abandoned)
    BY <1>2, FS_Subset DEF TypeInv
  <1>4. IsFiniteSet(Leaking)
    BY WatchdogAssumption, FS_Subset DEF Leaking
  <1> QED
    BY <1>3, <1>4, FS_CardinalityType

\* A worker is counted at the latest when its caller has gone through the lock.
LEMMA CountStep ==
    ASSUME TypeInv, LockInv, CountInv, [Next]_vars
    PROVE  CountInv'
  <1> DEFINE a == Cardinality(abandoned)
             l == Cardinality(Leaking)
  <1>1. a \in Nat /\ l \in Nat /\ leaked \in Nat /\ a <= leaked + l
    BY Finite DEF CountInv, TypeInv
  <1>2. ASSUME NEW s \in Session, GraceEnds(s) PROVE CountInv'
    <2>1. Cardinality(abandoned') <= a + 1 /\ Cardinality(abandoned') \in Nat
      <3>1. abandoned' = abandoned \cup {<<s, on[s]>>}
        BY <1>2 DEF GraceEnds
      <3> QED
        <4>1. Cardinality(abandoned') =
                  IF <<s, on[s]>> \in abandoned THEN a ELSE a + 1
          BY <3>1, Finite, FS_AddElement
        <4> HIDE DEF a
        <4> QED
          BY <1>1, <4>1
    <2>2. Leaking' = Leaking \cup {s} /\ s \notin Leaking
      BY <1>2 DEF GraceEnds, Goto, Leaking, TypeInv
    <2>3. Cardinality(Leaking') = l + 1
      BY <2>2, Finite, FS_AddElement
    <2>4. leaked' = leaked
      BY <1>2 DEF GraceEnds, leakVars
    <2> HIDE DEF a, l
    <2> QED
      BY <1>1, <2>1, <2>3, <2>4 DEF CountInv
  <1>3. ASSUME NEW s \in Session, WriteLeaked(s) PROVE CountInv'
    <2>1. leaked' = leaked + 1 /\ abandoned' = abandoned
      BY <1>3 DEF WriteLeaked, LockInv
    <2>2. Leaking' = Leaking \ {s} /\ s \in Leaking
      BY <1>3 DEF WriteLeaked, Goto, Leaking, TypeInv
    <2>3. Cardinality(Leaking') = l - 1
      BY <2>2, Finite, FS_RemoveElement
    <2> HIDE DEF l
    <2> QED
      BY <1>1, <2>1, <2>3 DEF CountInv
  <1>4. ASSUME leaked' = leaked, abandoned' \subseteq abandoned, Leaking' = Leaking
        PROVE  CountInv'
    <2>1. Cardinality(abandoned') <= a /\ Cardinality(abandoned') \in Nat
      BY <1>4, Finite, FS_Subset, FS_CardinalityType
    <2>2. Cardinality(Leaking') = l
      BY <1>4
    <2> HIDE DEF a, l
    <2> QED
      BY <1>1, <1>4, <2>1, <2>2 DEF CountInv
  <1>5. ASSUME NEW s \in Session, Call(s) \/ WorkerEnds(s) PROVE CountInv'
    <2>1. /\ leaked' = leaked /\ abandoned' = abandoned
          /\ \A t \in Session : pc'[t] \in {"lock", "count"} <=> pc[t] \in {"lock", "count"}
      BY <1>5 DEF Call, Materialize, RunBaseline, Step, Start, Install, Close, WorkerEnds,
         Goto, leakVars, TypeInv
    <2> QED
      BY <1>4, <2>1 DEF Leaking
  <1>6. ASSUME NEW s \in Session, Proceed(s), ~GraceEnds(s), ~WriteLeaked(s)
        PROVE  CountInv'
    <2>1. /\ leaked' = leaked /\ abandoned' = abandoned
          /\ \A t \in Session : pc'[t] \in {"lock", "count"} <=> pc[t] \in {"lock", "count"}
      BY <1>6 DEF Proceed, Join, Deliver, Interrupt, TimedOut, ReadLeaked, BaselineDone,
         BaselineRaises, StepDone, Returned, Goto, leakVars, TypeInv
    <2> QED
      BY <1>4, <2>1 DEF Leaking
  <1>7. ASSUME NEW c \in Conn, AbandonedEnds(c) PROVE CountInv'
    BY <1>4, <1>7 DEF AbandonedEnds, leakVars, Leaking
  <1>8. CASE UNCHANGED vars
    BY <1>4, <1>8 DEF vars, leakVars, Leaking
  <1> QED
    BY <1>2, <1>3, <1>5, <1>6, <1>7, <1>8 DEF Next

-----------------------------------------------------------------------------
(* Theorems *)

WorkersInv ==
    TypeInv /\ (\A s \in Session : SessionInv(s)) /\ LockInv /\ CountInv

LEMMA WorkersInvariant == Spec => []WorkersInv
  <1>1. Init => WorkersInv
    <2> SUFFICES ASSUME Init PROVE WorkersInv
      OBVIOUS
    <2> USE WatchdogAssumption DEF Init
    <2>1. TypeInv
      BY DEF TypeInv, Label
    <2>2. \A s \in Session : SessionInv(s)
      BY DEF SessionInv, Numbered, Attended, Usable, Waiting
    <2>3. LockInv
      BY DEF LockInv
    <2>4. CountInv
      BY FS_EmptySet DEF CountInv, Leaking
    <2> QED
      BY <2>1, <2>2, <2>3, <2>4 DEF WorkersInv
  <1>2. WorkersInv /\ [Next]_vars => WorkersInv'
    BY TypeStep, SessionsKept, LockStep, CountStep DEF WorkersInv
  <1> QED
    BY <1>1, <1>2, PTL DEF Spec

\* For any number of sessions, episodes and statements: no worker runs on a closed
\* connection or beside an abandoned worker, and the counter misses none
\* (_run_worker_with_watchdog, step, _close_existing_runtime).
THEOREM WorkersKept == Spec => []WorkersAccounted
  <1>1. WorkersInv => WorkersAccounted
    <2> SUFFICES ASSUME WorkersInv PROVE WorkersAccounted
      OBVIOUS
    <2>1. ASSUME NEW c \in abandoned \cup closed, NEW s \in InUse(c) PROVE FALSE
      <3>1. s \in Session /\ worker[s] = "running" /\ on[s] # 0 /\ <<s, on[s]>> = c
        BY <2>1 DEF InUse
      <3>2. SessionInv(s)
        BY <3>1 DEF WorkersInv
      <3>3. pc[s] \in Waiting /\ <<s, on[s]>> \notin abandoned
        BY <3>1, <3>2 DEF SessionInv, Attended
      <3>4. <<s, on[s]>> \notin closed
        BY <3>1, <3>2, <3>3 DEF SessionInv, Attended, Usable, Waiting
      <3> QED
        BY <2>1, <3>1, <3>3, <3>4
    <2>2. \A c \in abandoned \cup closed : InUse(c) = {}
      BY <2>1
    <2> QED
      BY <2>2 DEF WorkersAccounted, WorkersInv, CountInv, Leaking
  <1> QED
    BY <1>1, WorkersInvariant, PTL

\* For any number of sessions, episodes and statements: what closes a connection
\* finds no worker inside it, but for materialize after an escalated baseline
\* (_close_existing_runtime, materialize).
THEOREM ClosedQuietly == Spec => ClosedOnlyWhenQuiet
  <1> DEFINE Quiet == \A c \in closed' \ closed :
                          /\ InUse(c) = {}
                          /\ c \in abandoned => \E s \in Session : c \in Building(s)
  <1>1. WorkersInv /\ [Next]_vars => Quiet \/ UNCHANGED vars
    <2> SUFFICES ASSUME WorkersInv, [Next]_vars PROVE Quiet
      OBVIOUS
    <2>1. ASSUME NEW s \in Session, NEW n, worker[s] # "running"
          PROVE  InUse(<<s, n>>) = {}
      BY <2>1 DEF InUse
    <2>2. ASSUME NEW s \in Session, Install(s) \/ Close(s) PROVE Quiet
      <3>1. closed' = closed \cup ClosedWith(s) /\ pc[s] = "idle"
        BY <2>2 DEF Install, Close
      <3>2. SessionInv(s)
        BY DEF WorkersInv
      <3>3. worker[s] # "running"
        BY <3>1, <3>2 DEF SessionInv, Attended, Waiting
      <3>4. current[s] # 0 /\ ~poisoned[s] => <<s, current[s]>> \notin abandoned
        BY <3>1, <3>2 DEF SessionInv, Usable, Escaped
      <3> QED
        BY <2>1, <3>1, <3>3, <3>4 DEF ClosedWith
    <2>3. ASSUME NEW s \in Session, BaselineRaises(s) PROVE Quiet
      <3>1. /\ closed' = closed \cup {<<s, building[s]>>}
            /\ pc[s] = "return" /\ building[s] # 0
        BY <2>3 DEF BaselineRaises, Returned
      <3>2. worker[s] # "running"
        BY <3>1 DEF WorkersInv, SessionInv, Attended, Waiting
      <3> QED
        BY <2>1, <3>1, <3>2 DEF Building
    <2>4. CASE closed' = closed
      BY <2>4
    <2>5. ASSUME NEW s \in Session, Acts(s), ~Install(s), ~Close(s), ~BaselineRaises(s)
          PROVE  closed' = closed
      BY <2>5 DEF Acts, Call, Proceed, Materialize, RunBaseline, Step, Start, WorkerEnds,
         Join, Deliver, Interrupt, TimedOut, GraceEnds, ReadLeaked, WriteLeaked,
         BaselineDone, StepDone
    <2>6. ASSUME NEW c \in Conn, AbandonedEnds(c) PROVE closed' = closed
      BY <2>6 DEF AbandonedEnds
    <2> QED
      BY <2>2, <2>3, <2>4, <2>5, <2>6 DEF Next, Acts, vars
  <1> QED
    BY <1>1, WorkersInvariant, PTL DEF Spec, ClosedOnlyWhenQuiet
=============================================================================
