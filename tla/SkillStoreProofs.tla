-------------------------- MODULE SkillStoreProofs --------------------------
(***************************************************************************)
(* Proofs about SkillStore, for any number of clients, appends and reads:  *)
(* type correctness, mutual exclusion of the read-modify-write cycle, the  *)
(* refinement of the append-only log and, while every write gets a new     *)
(* mtime, the freshness of reads.  The last two hold when no read of the   *)
(* file fails; the run claim_nothing_lost shows why that is needed.        *)
(***************************************************************************)
EXTENDS SkillStore, SequenceTheorems, TLAPS

\* The labels at which a client is between _locked's acquire and its release.
Critical == {"read", "open", "write", "replace", "unlock", "raise"}

\* A client inside an append has an entry to append, any other has none.
Calling == \A c \in Client :
    /\ pc[c] \in Critical \cup {"lock"} => entry[c] \in Entry
    /\ pc[c] \in {"idle", "statted"} => entry[c] = NoEntry

-----------------------------------------------------------------------------
(* Types *)

Stored == [content : Log, mtime : Nat]
Cached == [content : Log, mtime : Int]

LEMMA Constants == Missing \in Stored /\ NoCache \in Cached /\ <<>> \in Log
  BY DEF Missing, NoCache, Stored, Cached, Log

\* One append more stays within the bound of appends (BeginAppend).
LEMMA OneMore ==
  ASSUME NEW m \in Nat, NEW n \in 0..m, n < m
  PROVE  n + 1 \in 1..m /\ n + 1 \in 0..m
  OBVIOUS

\* The clock of a write, new or tied, is one (WriteTmp).
LEMMA ClockTicks ==
  ASSUME NEW k \in [now : Nat, tied : BOOLEAN]
  PROVE  /\ [now |-> k.now + 1, tied |-> k.tied] \in [now : Nat, tied : BOOLEAN]
         /\ [now |-> k.now, tied |-> TRUE] \in [now : Nat, tied : BOOLEAN]
  OBVIOUS

\* A client that reads once more has read a number of times (Stat).
LEMMA OneRead ==
  ASSUME NEW r \in [Client -> Nat], NEW c \in Client
  PROVE  [r EXCEPT ![c] = @ + 1] \in [Client -> Nat]
  OBVIOUS

LEMMA CallingInit == Init => Calling
  BY DEF Init, Calling, Critical

LEMMA TypeStep == TypeOK /\ Calling /\ [Next]_vars => TypeOK' /\ Calling'
<1> SUFFICES ASSUME TypeOK, Calling, [Next]_vars PROVE TypeOK' /\ Calling'
  OBVIOUS
<1> USE Constants, StoreAssumption
<1> USE DEF TypeOK, Calling, Critical, Label, Stored, Cached, fileVars, readVars, Goto
<1>0. CASE UNCHANGED vars
  BY <1>0 DEF vars
<1> SUFFICES ASSUME NEW c \in Client,
                    BeginAppend(c) \/ Stat(c) \/ Proceed(c) \/ Crash(c)
             PROVE  TypeOK' /\ Calling'
  BY <1>0 DEF Next
<1>1. CASE BeginAppend(c)
  <2>1. <<c, appends[c] + 1>> \in Entry /\ appends[c] + 1 \in 0..MaxAppends
    <3>1. appends[c] \in 0..MaxAppends /\ appends[c] < MaxAppends
      BY <1>1 DEF BeginAppend
    <3>2. appends[c] + 1 \in 1..MaxAppends
      BY <3>1, OneMore, StoreAssumption
    <3> QED BY <3>2 DEF Entry
  <2>2. /\ pc' \in [Client -> Label] /\ appends' \in [Client -> 0..MaxAppends]
        /\ entry' \in [Client -> Entry \cup {NoEntry}]
    BY <1>1, <2>1 DEF BeginAppend
  <2>3. \A d \in Client : /\ pc'[d] = IF d = c THEN "lock" ELSE pc[d]
                          /\ entry'[d] = IF d = c THEN <<c, appends[c] + 1>> ELSE entry[d]
    BY <1>1 DEF BeginAppend
  <2>4. Calling'
    BY <2>1, <2>3
  <2>5. TypeOK'
    BY <1>1, <2>2 DEF BeginAppend
  <2> QED BY <2>4, <2>5
<1>2. CASE Acquire(c)
  BY <1>2 DEF Acquire
<1>3. CASE LockTimeout(c)
  BY <1>3 DEF LockTimeout
<1>4. CASE ReadExisting(c)
  <2>1. file.content \in Log
    OBVIOUS
  <2>2. PICK content \in {file.content} \cup (IF ReadFaults THEN {<<>>} ELSE {}) :
            existing' = [existing EXCEPT ![c] = content]
    BY <1>4 DEF ReadExisting
  <2>3. content \in Log
    BY <2>1, <2>2
  <2> QED BY <1>4, <2>2, <2>3 DEF ReadExisting
<1>5. CASE OpenTmp(c)
  BY <1>5 DEF OpenTmp
<1>6. CASE WriteTmp(c)
  <2>1. Append(existing[c], entry[c]) \in Log
    BY <1>6 DEF WriteTmp, Log
  <2>2. clock' \in [now : Nat, tied : BOOLEAN]
    <3>1. \/ clock' = [now |-> clock.now + 1, tied |-> clock.tied]
          \/ clock' = [now |-> clock.now, tied |-> TRUE]
      BY <1>6 DEF WriteTmp
    <3> QED BY <3>1, ClockTicks
  <2>3. tmp' \in Stored
    BY <1>6, <2>1, <2>2 DEF WriteTmp
  <2> QED BY <1>6, <2>2, <2>3 DEF WriteTmp
<1>7. CASE WriteFails(c)
  BY <1>7 DEF WriteFails
<1>8. CASE Replace(c)
  BY <1>8 DEF Replace
<1>9. CASE FinishAppend(c)
  <2>1. acked' \subseteq Entry
    BY <1>9 DEF FinishAppend
  <2>2. lock' \in Client \cup {Nobody}
    BY <1>9 DEF FinishAppend, Unlocked
  <2>3. cache' \in [Client -> Cached]
    BY <1>9 DEF FinishAppend
  <2> QED BY <1>9, <2>1, <2>2, <2>3 DEF FinishAppend
<1>10. CASE AppendRaises(c)
  BY <1>10 DEF AppendRaises, Unlocked
<1>11. CASE Stat(c)
  <2>1. statted' \in [Client -> Nat] /\ since' \in [Client -> SUBSET Entry]
    BY <1>11 DEF Stat
  <2>2. reads' \in [Client -> Nat]
    <3>1. reads' = [reads EXCEPT ![c] = @ + 1] /\ reads \in [Client -> Nat]
      BY <1>11 DEF Stat
    <3> QED BY <3>1, OneRead
  <2> QED BY <1>11, <2>1, <2>2 DEF Stat
<1>12. CASE ReadHit(c)
  <2>1. cache[c].content \in Log
    OBVIOUS
  <2> QED BY <1>12, <2>1 DEF ReadHit
<1>13. CASE ReadMiss(c)
  <2>1. PICK content \in {file.content} \cup (IF ReadFaults THEN {<<>>} ELSE {}) :
            /\ result' = [result EXCEPT ![c] = content]
            /\ cache' = [cache EXCEPT ![c] = [content |-> content, mtime |-> statted[c]]]
    BY <1>13 DEF ReadMiss
  <2>2. content \in Log
    BY <2>1
  <2>3. [content |-> content, mtime |-> statted[c]] \in Cached
    BY <2>2
  <2>4. cache' \in [Client -> Cached]
    BY <2>1, <2>3
  <2> QED BY <1>13, <2>1, <2>2, <2>4 DEF ReadMiss
<1>14. CASE Crash(c)
  <2>1. cache' \in [Client -> Cached] /\ result' \in [Client -> Log]
    BY <1>14 DEF Crash
  <2>2. lock' \in Client \cup {Nobody}
    BY <1>14 DEF Crash, Unlocked
  <2> QED BY <1>14, <2>1, <2>2 DEF Crash
<1> QED
  BY <1>1, <1>2, <1>3, <1>4, <1>5, <1>6, <1>7, <1>8, <1>9, <1>10, <1>11,
     <1>12, <1>13, <1>14 DEF Proceed

\* The stored log and every copy of it are sequences of entries, whatever fails.
THEOREM TypeCorrect == Spec => []TypeOK
<1>1. Init => TypeOK
  BY Constants, StoreAssumption DEF Init, TypeOK, Stored, Cached, Label
<1> QED
  BY <1>1, CallingInit, TypeStep, PTL DEF Spec

-----------------------------------------------------------------------------
(* The lock *)

\* flock: exactly the lock's holder is inside the critical section.
MutualExclusion == \A c \in Client : pc[c] \in Critical <=> lock = c

\* Under the lock nobody else writes: what the holder read is still what is
\* stored, and what it is about to install is that and its own entry.
CycleInv ==
    \A c \in Client :
        /\ pc[c] \in {"open", "write", "replace"} => existing[c] = file.content
        /\ pc[c] = "replace" => tmp.content = Append(file.content, entry[c])

LEMMA LockStep ==
    TypeOK /\ MutualExclusion /\ [Next]_vars => MutualExclusion'
<1> SUFFICES ASSUME TypeOK, MutualExclusion, [Next]_vars PROVE MutualExclusion'
  OBVIOUS
<1> USE StoreAssumption
<1> USE DEF TypeOK, MutualExclusion, Critical, Label, fileVars, Goto, Unlocked
<1>0. CASE UNCHANGED vars
  BY <1>0 DEF vars
<1> SUFFICES ASSUME NEW c \in Client,
                    BeginAppend(c) \/ Stat(c) \/ Proceed(c) \/ Crash(c)
             PROVE  MutualExclusion'
  BY <1>0 DEF Next
<1>1. CASE BeginAppend(c)
  BY <1>1 DEF BeginAppend
<1>2. CASE Acquire(c)
  BY <1>2 DEF Acquire, LockFree
<1>3. CASE LockTimeout(c)
  BY <1>3 DEF LockTimeout
<1>4. CASE ReadExisting(c)
  BY <1>4 DEF ReadExisting
<1>5. CASE OpenTmp(c)
  BY <1>5 DEF OpenTmp
<1>6. CASE WriteTmp(c)
  BY <1>6 DEF WriteTmp
<1>7. CASE WriteFails(c)
  BY <1>7 DEF WriteFails
<1>8. CASE Replace(c)
  BY <1>8 DEF Replace
<1>9. CASE FinishAppend(c)
  BY <1>9 DEF FinishAppend
<1>10. CASE AppendRaises(c)
  BY <1>10 DEF AppendRaises
<1>11. CASE Stat(c)
  BY <1>11 DEF Stat
<1>12. CASE ReadHit(c)
  BY <1>12 DEF ReadHit
<1>13. CASE ReadMiss(c)
  BY <1>13 DEF ReadMiss
<1>14. CASE Crash(c)
  BY <1>14 DEF Crash
<1> QED
  BY <1>1, <1>2, <1>3, <1>4, <1>5, <1>6, <1>7, <1>8, <1>9, <1>10, <1>11,
     <1>12, <1>13, <1>14 DEF Proceed

\* The read-modify-write cycles of the clients never overlap.
THEOREM CyclesExclude == Spec => []MutualExclusion
<1>1. Init => MutualExclusion
  BY StoreAssumption DEF Init, MutualExclusion, Critical
<1> QED
  BY <1>1, TypeCorrect, LockStep, PTL DEF Spec

\* One client at a time is past the lock.
LEMMA OneInside ==
  ASSUME MutualExclusion, NEW c \in Client, NEW d \in Client,
         pc[c] \in Critical, pc[d] \in Critical
  PROVE  c = d
  BY DEF MutualExclusion

LEMMA CycleStep ==
    TypeOK /\ MutualExclusion /\ CycleInv /\ [Next]_vars /\ ~ReadFaults => CycleInv'
<1> SUFFICES ASSUME TypeOK, MutualExclusion, CycleInv, [Next]_vars, ~ReadFaults
             PROVE  CycleInv'
  OBVIOUS
<1> USE StoreAssumption
<1> USE DEF TypeOK, CycleInv, Label, fileVars, readVars, Goto
<1>0. CASE UNCHANGED vars
  BY <1>0 DEF vars
<1> SUFFICES ASSUME NEW c \in Client,
                    BeginAppend(c) \/ Stat(c) \/ Proceed(c) \/ Crash(c)
             PROVE  CycleInv'
  BY <1>0 DEF Next
<1>a. \A d \in Client : pc[c] \in Critical /\ pc[d] \in Critical => d = c
  BY OneInside
<1>1. CASE BeginAppend(c)
  BY <1>1 DEF BeginAppend
<1>2. CASE Acquire(c)
  BY <1>2 DEF Acquire
<1>3. CASE LockTimeout(c)
  BY <1>3 DEF LockTimeout
<1>4. CASE ReadExisting(c)
  BY <1>4, <1>a DEF ReadExisting, Critical
<1>5. CASE OpenTmp(c)
  BY <1>5, <1>a DEF OpenTmp, Critical
<1>6. CASE WriteTmp(c)
  <2>1. existing[c] = file.content /\ tmp'.content = Append(file.content, entry[c])
    BY <1>6 DEF WriteTmp
  <2>2. \A d \in Client : d # c => pc'[d] = pc[d] /\ pc[d] \notin Critical
    BY <1>6, <1>a DEF WriteTmp, Critical
  <2> QED BY <1>6, <2>1, <2>2 DEF WriteTmp, Critical
<1>7. CASE WriteFails(c)
  BY <1>7 DEF WriteFails
<1>8. CASE Replace(c)
  <2>1. \A d \in Client : d # c => pc'[d] = pc[d] /\ pc[d] \notin Critical
    BY <1>8, <1>a DEF Replace, Critical
  <2>2. pc'[c] = "unlock"
    BY <1>8 DEF Replace
  <2> QED BY <2>1, <2>2 DEF Critical
<1>9. CASE FinishAppend(c)
  BY <1>9, <1>a DEF FinishAppend, Critical
<1>10. CASE AppendRaises(c)
  BY <1>10, <1>a DEF AppendRaises, Critical
<1>11. CASE Stat(c)
  BY <1>11 DEF Stat
<1>12. CASE ReadHit(c)
  BY <1>12 DEF ReadHit
<1>13. CASE ReadMiss(c)
  BY <1>13 DEF ReadMiss
<1>14. CASE Crash(c)
  BY <1>14 DEF Crash
<1> QED
  BY <1>1, <1>2, <1>3, <1>4, <1>5, <1>6, <1>7, <1>8, <1>9, <1>10, <1>11,
     <1>12, <1>13, <1>14 DEF Proceed

-----------------------------------------------------------------------------
(* The refinement *)

LEMMA NoEntryIsNone == NoEntry \notin Entry
  BY StoreAssumption DEF Entry

\* A step that leaves the stored log, every entry and every "unlock" alone is no
\* step of the abstract log.
LEMMA Stutter ==
  ASSUME file'.content = file.content, acked' = acked, entry' = entry,
         \A c \in Client : pc'[c] = "unlock" <=> pc[c] = "unlock"
  PROVE  UNCHANGED AbstractLog!vars
  BY DEF AbstractLog!vars, LogCall, LogDone

\* An append that ends without being acknowledged.
LEMMA FailMaps ==
  ASSUME TypeOK, Calling, NEW c \in Client, pc[c] \in Critical \cup {"lock"},
         file'.content = file.content, acked' = acked,
         entry' = [entry EXCEPT ![c] = NoEntry], pc' = [pc EXCEPT ![c] = "idle"]
  PROVE  AbstractLog!Fail(c)
<1>1. LogCall[c] # NoEntry
  BY StoreAssumption DEF Calling, LogCall, Entry
<1>2. LogCall' = [LogCall EXCEPT ![c] = NoEntry]
  BY DEF LogCall, TypeOK
<1>3. LogDone' = [LogDone EXCEPT ![c] = FALSE]
  BY DEF LogDone, TypeOK
<1> QED
  BY <1>1, <1>2, <1>3 DEF AbstractLog!Fail, AbstractLog!Ended

LEMMA RefineStep ==
    TypeOK /\ Calling /\ CycleInv /\ [Next]_vars => [AbstractLog!Next]_(AbstractLog!vars)
<1> SUFFICES ASSUME TypeOK, Calling, CycleInv, [Next]_vars
             PROVE  AbstractLog!Next \/ UNCHANGED AbstractLog!vars
  OBVIOUS
<1> USE StoreAssumption
<1> USE DEF Label, fileVars, readVars, Goto
<1>t. pc \in [Client -> Label] /\ entry \in [Client -> Entry \cup {NoEntry}]
  BY DEF TypeOK
<1>0. CASE UNCHANGED vars
  BY <1>0, Stutter DEF vars
<1> SUFFICES ASSUME NEW c \in Client,
                    BeginAppend(c) \/ Stat(c) \/ Proceed(c) \/ Crash(c)
             PROVE  AbstractLog!Next \/ UNCHANGED AbstractLog!vars
  BY <1>0 DEF Next
<1>1. CASE BeginAppend(c)
  <2>1. <<c, appends[c] + 1>> \in Entry
    <3>1. appends[c] \in 0..MaxAppends /\ appends[c] < MaxAppends
      BY <1>1 DEF BeginAppend, TypeOK
    <3>2. appends[c] + 1 \in 1..MaxAppends
      BY <3>1, OneMore, StoreAssumption
    <3> QED BY <3>2 DEF Entry
  <2>2. LogCall[c] = NoEntry
    BY <1>1 DEF BeginAppend, Calling, LogCall
  <2>3. LogCall' = [LogCall EXCEPT ![c] = <<c, appends[c] + 1>>]
    BY <1>1, <1>t DEF BeginAppend, LogCall
  <2>4. LogDone' = LogDone
    BY <1>1, <1>t DEF BeginAppend, LogDone
  <2> QED
    BY <1>1, <2>1, <2>2, <2>3, <2>4 DEF BeginAppend, AbstractLog!Begin, AbstractLog!Next
<1>2. CASE Acquire(c)
  BY <1>2, <1>t, Stutter DEF Acquire
<1>3. CASE LockTimeout(c)
  BY <1>3, FailMaps DEF LockTimeout, AbstractLog!Next
<1>4. CASE ReadExisting(c)
  BY <1>4, <1>t, Stutter DEF ReadExisting
<1>5. CASE OpenTmp(c)
  BY <1>5, <1>t, Stutter DEF OpenTmp
<1>6. CASE WriteTmp(c)
  BY <1>6, <1>t, Stutter DEF WriteTmp
<1>7. CASE WriteFails(c)
  BY <1>7, <1>t, Stutter DEF WriteFails
<1>8. CASE Replace(c)
  <2>0. entry[c] \in Entry
    BY <1>8 DEF Replace, Calling, Critical
  <2>1. LogCall[c] # NoEntry /\ ~LogDone[c]
    BY <1>8, <2>0, NoEntryIsNone DEF Replace, LogCall, LogDone
  <2>2. file'.content = Append(file.content, LogCall[c])
    BY <1>8 DEF Replace, CycleInv, LogCall
  <2>3. LogDone' = [LogDone EXCEPT ![c] = TRUE]
    BY <1>8, <1>t DEF Replace, LogDone
  <2>4. LogCall' = LogCall /\ acked' = acked
    BY <1>8 DEF Replace, LogCall
  <2> QED
    BY <2>1, <2>2, <2>3, <2>4 DEF AbstractLog!TakeEffect, AbstractLog!Next
<1>9. CASE FinishAppend(c)
  <2>0. entry[c] \in Entry
    BY <1>9 DEF FinishAppend, Calling, Critical
  <2>1. LogCall[c] # NoEntry /\ LogDone[c] /\ LogCall[c] = entry[c]
    BY <1>9, <2>0, NoEntryIsNone DEF FinishAppend, LogCall, LogDone
  <2>2. LogCall' = [LogCall EXCEPT ![c] = NoEntry]
    BY <1>9, <1>t DEF FinishAppend, LogCall
  <2>3. LogDone' = [LogDone EXCEPT ![c] = FALSE]
    BY <1>9, <1>t DEF FinishAppend, LogDone
  <2> QED
    BY <1>9, <2>1, <2>2, <2>3
    DEF FinishAppend, AbstractLog!Acknowledge, AbstractLog!Ended, AbstractLog!Next
<1>10. CASE AppendRaises(c)
  BY <1>10, FailMaps DEF AppendRaises, Critical, AbstractLog!Next
<1>11. CASE Stat(c)
  BY <1>11, <1>t, Stutter DEF Stat
<1>12. CASE ReadHit(c)
  BY <1>12, <1>t, Stutter DEF ReadHit
<1>13. CASE ReadMiss(c)
  BY <1>13, <1>t, Stutter DEF ReadMiss
<1>14. CASE Crash(c)
  <2>1. CASE pc[c] = "statted"
    <3>1. entry' = entry
      BY <1>14, <1>t, <2>1 DEF Crash, Calling
    <3> QED BY <1>14, <1>t, <2>1, <3>1, Stutter DEF Crash
  <2>2. CASE pc[c] # "statted"
    <3>1. pc[c] \in Critical \cup {"lock"}
      BY <1>14, <1>t, <2>2 DEF Crash, Critical
    <3> QED BY <1>14, <3>1, FailMaps DEF Crash, AbstractLog!Next
  <2> QED BY <2>1, <2>2
<1> QED
  BY <1>1, <1>2, <1>3, <1>4, <1>5, <1>6, <1>7, <1>8, <1>9, <1>10, <1>11,
     <1>12, <1>13, <1>14 DEF Proceed

\* When no read of the file fails the store implements the append-only log: each
\* append takes effect once, at os.replace, or not at all, whatever timeouts,
\* failed writes and crashes happen around it.
THEOREM StoreIsAppendOnly == ASSUME ~ReadFaults PROVE Spec => IsAppendOnly
<1>1. Init => Calling /\ MutualExclusion /\ CycleInv
  BY CallingInit, StoreAssumption DEF Init, MutualExclusion, Critical, CycleInv
<1>2. Init => AbstractLog!Init
  <2> SUFFICES ASSUME Init PROVE AbstractLog!Init
    OBVIOUS
  <2>1. file.content = <<>> /\ acked = {}
    BY DEF Init, Missing
  <2>2. LogCall = [c \in Client |-> NoEntry]
    BY DEF Init, LogCall
  <2>3. \A c \in Client : LogDone[c] = FALSE
    BY DEF Init, LogDone
  <2>4. LogDone = [c \in Client |-> FALSE]
    BY <2>3, Zenon DEF LogDone
  <2> QED BY <2>1, <2>2, <2>4 DEF AbstractLog!Init
<1>3. TypeOK /\ MutualExclusion /\ CycleInv /\ [Next]_vars => CycleInv'
  BY CycleStep
<1>4. Spec => [](TypeOK /\ Calling /\ MutualExclusion /\ CycleInv)
  BY <1>1, <1>3, TypeCorrect, TypeStep, LockStep, PTL DEF Spec
<1> QED
  BY <1>2, <1>4, RefineStep, PTL DEF Spec, IsAppendOnly, AbstractLog!Spec

-----------------------------------------------------------------------------
(* The freshness of reads *)

\* What is acknowledged is stored.
AckInv == /\ acked \subseteq Entries(file.content)
          /\ \A c \in Client : pc[c] = "unlock" => entry[c] \in Entries(file.content)

\* The mtime of the file grows with every replacement.
MtimeInv == /\ file.mtime <= clock.now
            /\ \A c \in Client :
                  pc[c] = "replace" => file.mtime < tmp.mtime /\ tmp.mtime <= clock.now

\* A cache with the mtime of the file holds all that is stored; one with the
\* mtime a read has seen holds all that was acknowledged when the read began.
CacheInv ==
    \A c \in Client :
        /\ cache[c].mtime <= file.mtime
        /\ cache[c].mtime = file.mtime => Entries(file.content) \subseteq Entries(cache[c].content)

ReadInv ==
    \A c \in Client :
        IF pc[c] = "statted"
        THEN /\ statted[c] <= file.mtime
             /\ since[c] \subseteq acked
             /\ cache[c].mtime = statted[c] => since[c] \subseteq Entries(cache[c].content)
        ELSE since[c] \subseteq Entries(result[c])

LEMMA EntriesAppend ==
  ASSUME NEW s \in Seq(Entry), NEW e \in Entry
  PROVE  Entries(Append(s, e)) = Entries(s) \cup {e}
<1>1. Len(Append(s, e)) = Len(s) + 1 /\ Len(s) \in Nat
  OBVIOUS
<1>2. \A i \in 1..Len(s) : Append(s, e)[i] = s[i]
  OBVIOUS
<1>3. Append(s, e)[Len(s) + 1] = e
  OBVIOUS
<1>4. 1..(Len(s) + 1) = 1..Len(s) \cup {Len(s) + 1}
  BY <1>1
<1> HIDE DEF Entries
<1>5. Entries(Append(s, e)) = {Append(s, e)[i] : i \in 1..Len(s) \cup {Len(s) + 1}}
  BY <1>1, <1>4 DEF Entries
<1>6. Entries(s) = {s[i] : i \in 1..Len(s)}
  BY DEF Entries
<1> QED
  BY <1>2, <1>3, <1>5, <1>6

\* A replacement adds the entry of the append and nothing else.
LEMMA ReplaceAdds ==
  ASSUME TypeOK, Calling, CycleInv, NEW c \in Client, Replace(c)
  PROVE  Entries(file'.content) = Entries(file.content) \cup {entry[c]}
<1>1. file.content \in Seq(Entry)
  BY DEF TypeOK, Log
<1>2. entry[c] \in Entry
  BY DEF Replace, Calling, Critical
<1>3. file'.content = Append(file.content, entry[c])
  BY DEF Replace, CycleInv
<1> QED
  BY <1>1, <1>2, <1>3, EntriesAppend

LEMMA AckStep ==
    TypeOK /\ Calling /\ CycleInv /\ AckInv /\ [Next]_vars => AckInv'
<1> SUFFICES ASSUME TypeOK, Calling, CycleInv, AckInv, [Next]_vars PROVE AckInv'
  OBVIOUS
<1> USE DEF AckInv, Label, fileVars, readVars, Goto
<1>t. pc \in [Client -> Label] /\ entry \in [Client -> Entry \cup {NoEntry}]
  BY DEF TypeOK
<1> DEFINE S == Entries(file.content)
<1>f. file' = file => S' = S
  BY DEF Entries
<1> HIDE DEF S
<1>u. acked \subseteq S /\ (AckInv' <=> acked' \subseteq S' /\ \A d \in Client : pc'[d] = "unlock" => entry'[d] \in S')
  BY DEF S
<1>v. \A d \in Client : pc[d] = "unlock" => entry[d] \in S
  BY DEF S
<1>0. CASE UNCHANGED vars
  BY <1>0, <1>f, <1>u, <1>v DEF vars
<1> SUFFICES ASSUME NEW c \in Client,
                    BeginAppend(c) \/ Stat(c) \/ Proceed(c) \/ Crash(c)
             PROVE  AckInv'
  BY <1>0 DEF Next
<1> USE <1>t, <1>f, <1>u, <1>v
<1>1. CASE BeginAppend(c)
  BY <1>1 DEF BeginAppend
<1>2. CASE Acquire(c)
  BY <1>2 DEF Acquire
<1>3. CASE LockTimeout(c)
  BY <1>3 DEF LockTimeout
<1>4. CASE ReadExisting(c)
  BY <1>4 DEF ReadExisting
<1>5. CASE OpenTmp(c)
  BY <1>5 DEF OpenTmp
<1>6. CASE WriteTmp(c)
  BY <1>6 DEF WriteTmp
<1>7. CASE WriteFails(c)
  BY <1>7 DEF WriteFails
<1>8. CASE Replace(c)
  <2>1. S' = S \cup {entry[c]}
    BY <1>8, ReplaceAdds DEF S
  <2> QED BY <1>8, <2>1 DEF Replace
<1>9. CASE FinishAppend(c)
  BY <1>9 DEF FinishAppend
<1>10. CASE AppendRaises(c)
  BY <1>10 DEF AppendRaises
<1>11. CASE Stat(c)
  BY <1>11 DEF Stat
<1>12. CASE ReadHit(c)
  BY <1>12 DEF ReadHit
<1>13. CASE ReadMiss(c)
  BY <1>13 DEF ReadMiss
<1>14. CASE Crash(c)
  BY <1>14 DEF Crash
<1> QED
  BY <1>1, <1>2, <1>3, <1>4, <1>5, <1>6, <1>7, <1>8, <1>9, <1>10, <1>11,
     <1>12, <1>13, <1>14 DEF Proceed

LEMMA MtimeStep ==
    TypeOK /\ MutualExclusion /\ MtimeInv /\ [Next]_vars /\ ~clock'.tied => MtimeInv'
<1> SUFFICES ASSUME TypeOK, MutualExclusion, MtimeInv, [Next]_vars, ~clock'.tied
             PROVE  MtimeInv'
  OBVIOUS
<1> USE DEF MtimeInv, Label, fileVars, readVars, Goto
<1>t. pc \in [Client -> Label] /\ file.mtime \in Nat /\ clock.now \in Nat /\ tmp.mtime \in Nat
  BY DEF TypeOK
<1>a. \A c, d \in Client : pc[c] \in Critical /\ pc[d] \in Critical => d = c
  BY OneInside
<1> USE <1>t
<1>0. CASE UNCHANGED vars
  BY <1>0 DEF vars
<1> SUFFICES ASSUME NEW c \in Client,
                    BeginAppend(c) \/ Stat(c) \/ Proceed(c) \/ Crash(c)
             PROVE  MtimeInv'
  BY <1>0 DEF Next
<1>1. CASE BeginAppend(c)
  BY <1>1 DEF BeginAppend
<1>2. CASE Acquire(c)
  BY <1>2 DEF Acquire
<1>3. CASE LockTimeout(c)
  BY <1>3 DEF LockTimeout
<1>4. CASE ReadExisting(c)
  BY <1>4 DEF ReadExisting
<1>5. CASE OpenTmp(c)
  BY <1>5, <1>a DEF OpenTmp, Critical
<1>6. CASE WriteTmp(c)
  <2>1. clock \in [now : Nat, tied : BOOLEAN]
    BY DEF TypeOK
  <2>2. clock' = [now |-> clock.now + 1, tied |-> clock.tied]
    BY <1>6, <2>1 DEF WriteTmp
  <2>3. clock'.now = clock.now + 1 /\ tmp'.mtime = clock.now + 1 /\ file' = file
    BY <1>6, <2>1, <2>2 DEF WriteTmp
  <2> QED BY <2>3
<1>7. CASE WriteFails(c)
  BY <1>7 DEF WriteFails
<1>8. CASE Replace(c)
  <2>1. \A d \in Client : pc'[d] # "replace"
    BY <1>8, <1>a DEF Replace, Critical
  <2> QED BY <1>8, <2>1 DEF Replace
<1>9. CASE FinishAppend(c)
  BY <1>9 DEF FinishAppend
<1>10. CASE AppendRaises(c)
  BY <1>10 DEF AppendRaises
<1>11. CASE Stat(c)
  BY <1>11 DEF Stat
<1>12. CASE ReadHit(c)
  BY <1>12 DEF ReadHit
<1>13. CASE ReadMiss(c)
  BY <1>13 DEF ReadMiss
<1>14. CASE Crash(c)
  BY <1>14 DEF Crash
<1> QED
  BY <1>1, <1>2, <1>3, <1>4, <1>5, <1>6, <1>7, <1>8, <1>9, <1>10, <1>11,
     <1>12, <1>13, <1>14 DEF Proceed

LEMMA CacheStep ==
    /\ TypeOK /\ Calling /\ CycleInv /\ MtimeInv /\ CacheInv /\ ReadInv
    /\ [Next]_vars /\ ~ReadFaults
    => CacheInv'
<1> SUFFICES ASSUME TypeOK, Calling, CycleInv, MtimeInv, CacheInv, ReadInv,
                    [Next]_vars, ~ReadFaults
             PROVE  CacheInv'
  OBVIOUS
<1> USE DEF CacheInv, Label, fileVars, readVars, Goto
<1>t. /\ pc \in [Client -> Label] /\ statted \in [Client -> Nat]
      /\ cache \in [Client -> Cached] /\ file.mtime \in Nat
  BY DEF TypeOK, Cached
<1>k. \A d \in Client : cache[d].mtime \in Int
  BY <1>t DEF Cached
<1>n. NoCache.mtime = -1
  BY DEF NoCache
<1> HIDE DEF NoCache
<1>s. file' = file /\ cache' = cache => CacheInv'
  OBVIOUS
<1>0. CASE UNCHANGED vars
  BY <1>0, <1>s DEF vars
<1> SUFFICES ASSUME NEW c \in Client,
                    BeginAppend(c) \/ Stat(c) \/ Proceed(c) \/ Crash(c)
             PROVE  CacheInv'
  BY <1>0 DEF Next
<1>1. CASE BeginAppend(c)
  BY <1>1, <1>s DEF BeginAppend
<1>2. CASE Acquire(c)
  BY <1>2, <1>s DEF Acquire
<1>3. CASE LockTimeout(c)
  BY <1>3, <1>s DEF LockTimeout
<1>4. CASE ReadExisting(c)
  BY <1>4, <1>s DEF ReadExisting
<1>5. CASE OpenTmp(c)
  BY <1>5, <1>s DEF OpenTmp
<1>6. CASE WriteTmp(c)
  BY <1>6, <1>s DEF WriteTmp
<1>7. CASE WriteFails(c)
  BY <1>7, <1>s DEF WriteFails
<1>8. CASE Replace(c)
  <2>1. file'.mtime \in Nat /\ file.mtime < file'.mtime /\ cache' = cache
    BY <1>8 DEF Replace, MtimeInv, TypeOK
  <2>2. \A d \in Client : cache'[d].mtime < file'.mtime
    BY <1>t, <1>k, <2>1
  <2>3. \A d \in Client : cache'[d].mtime <= file'.mtime /\ cache'[d].mtime # file'.mtime
    BY <1>k, <2>1, <2>2
  <2> QED BY <2>3
<1>9. CASE FinishAppend(c)
  <2>1. /\ file' = file
        /\ \A d \in Client : cache'[d] = IF d = c THEN NoCache ELSE cache[d]
    BY <1>9, <1>t DEF FinishAppend
  <2> QED BY <1>t, <1>n, <2>1
<1>10. CASE AppendRaises(c)
  BY <1>10, <1>s DEF AppendRaises
<1>11. CASE Stat(c)
  BY <1>11, <1>s DEF Stat
<1>12. CASE ReadHit(c)
  BY <1>12, <1>s DEF ReadHit
<1>13. CASE ReadMiss(c)
  <2>1. file' = file /\ cache' = [cache EXCEPT ![c] = [content |-> file.content, mtime |-> statted[c]]]
    BY <1>13 DEF ReadMiss
  <2>2. \A d \in Client : d # c => cache'[d] = cache[d]
    BY <1>t, <2>1
  <2>3. cache'[c].mtime = statted[c] /\ cache'[c].content = file.content
    BY <1>t, <2>1
  <2>4. statted[c] <= file.mtime
    BY <1>13 DEF ReadMiss, ReadInv
  <2> QED BY <2>1, <2>2, <2>3, <2>4
<1>14. CASE Crash(c)
  <2>1. /\ file' = file
        /\ \A d \in Client : cache'[d] = IF d = c THEN NoCache ELSE cache[d]
    BY <1>14, <1>t DEF Crash
  <2> QED BY <1>t, <1>n, <2>1
<1> QED
  BY <1>1, <1>2, <1>3, <1>4, <1>5, <1>6, <1>7, <1>8, <1>9, <1>10, <1>11,
     <1>12, <1>13, <1>14 DEF Proceed

\* A step that is no read of client c keeps what ReadInv says of c.
LEMMA ReadKept ==
  ASSUME TypeOK, MtimeInv, ReadInv, NEW c \in Client,
         file.mtime <= file'.mtime, file'.mtime \in Nat, acked \subseteq acked',
         pc'[c] = "statted" <=> pc[c] = "statted",
         statted'[c] = statted[c], since'[c] = since[c], result'[c] = result[c],
         cache'[c] = cache[c]
  PROVE  IF pc'[c] = "statted"
         THEN /\ statted'[c] <= file'.mtime
              /\ since'[c] \subseteq acked'
              /\ cache'[c].mtime = statted'[c] => since'[c] \subseteq Entries(cache'[c].content)
         ELSE since'[c] \subseteq Entries(result'[c])
<1>1. statted[c] \in Nat /\ file.mtime \in Nat
  BY DEF TypeOK
<1> HIDE DEF Entries
<1> QED BY <1>1 DEF ReadInv

LEMMA ReadStep ==
    /\ TypeOK /\ Calling /\ AckInv /\ MtimeInv /\ CacheInv /\ ReadInv
    /\ [Next]_vars /\ ~ReadFaults
    => ReadInv'
<1> SUFFICES ASSUME TypeOK, Calling, AckInv, MtimeInv, CacheInv, ReadInv,
                    [Next]_vars, ~ReadFaults
             PROVE  ReadInv'
  OBVIOUS
<1> USE DEF Label, fileVars, readVars, Goto
<1>t. /\ pc \in [Client -> Label] /\ statted \in [Client -> Nat]
      /\ cache \in [Client -> Cached] /\ file.mtime \in Nat /\ tmp.mtime \in Nat
      /\ since \in [Client -> SUBSET Entry] /\ result \in [Client -> Log]
  BY DEF TypeOK, Cached
<1> DEFINE Good(d) ==
        IF pc[d] = "statted"
        THEN /\ statted[d] <= file.mtime
             /\ since[d] \subseteq acked
             /\ cache[d].mtime = statted[d] => since[d] \subseteq Entries(cache[d].content)
        ELSE since[d] \subseteq Entries(result[d])
<1>g. (\A d \in Client : Good(d)) /\ (ReadInv' <=> \A d \in Client : Good(d)')
  BY DEF ReadInv
\* What a step leaves alone for a client, it leaves good.
<1>k. ASSUME NEW d \in Client, file.mtime <= file'.mtime, file'.mtime \in Nat,
             acked \subseteq acked', pc'[d] = "statted" <=> pc[d] = "statted",
             statted'[d] = statted[d], since'[d] = since[d], result'[d] = result[d],
             cache'[d] = cache[d]
      PROVE  Good(d)'
  BY <1>k, ReadKept
<1>m. file' = file => file.mtime <= file'.mtime /\ file'.mtime \in Nat
  BY <1>t
<1> HIDE DEF Good
<1>0. CASE UNCHANGED vars
  BY <1>0, <1>k, <1>g, <1>m DEF vars
<1> SUFFICES ASSUME NEW c \in Client,
                    BeginAppend(c) \/ Stat(c) \/ Proceed(c) \/ Crash(c)
             PROVE  ReadInv'
  BY <1>0 DEF Next
\* A step of client c changes pc, since, result, cache and statted of c alone.
<1>o. ASSUME file' = file, acked \subseteq acked', Good(c)',
             \A d \in Client \ {c} :
                 /\ pc'[d] = pc[d] /\ statted'[d] = statted[d] /\ since'[d] = since[d]
                 /\ result'[d] = result[d] /\ cache'[d] = cache[d]
      PROVE  ReadInv'
  BY <1>o, <1>k, <1>g, <1>m
<1>1. CASE BeginAppend(c)
  BY <1>1, <1>t, <1>k, <1>g, <1>m DEF BeginAppend
<1>2. CASE Acquire(c)
  BY <1>2, <1>t, <1>k, <1>g, <1>m DEF Acquire
<1>3. CASE LockTimeout(c)
  BY <1>3, <1>t, <1>k, <1>g, <1>m DEF LockTimeout
<1>4. CASE ReadExisting(c)
  BY <1>4, <1>t, <1>k, <1>g, <1>m DEF ReadExisting
<1>5. CASE OpenTmp(c)
  BY <1>5, <1>t, <1>k, <1>g, <1>m DEF OpenTmp
<1>6. CASE WriteTmp(c)
  BY <1>6, <1>t, <1>k, <1>g, <1>m DEF WriteTmp
<1>7. CASE WriteFails(c)
  BY <1>7, <1>t, <1>k, <1>g, <1>m DEF WriteFails
<1>8. CASE Replace(c)
  <2>1. file.mtime <= file'.mtime /\ file'.mtime \in Nat
    BY <1>8, <1>t DEF Replace, MtimeInv
  <2> QED BY <1>8, <1>t, <1>k, <1>g, <2>1 DEF Replace
<1>9. CASE FinishAppend(c)
  <2>1. Good(c)'
    <3>1. pc[c] # "statted" /\ pc'[c] = "idle" /\ since'[c] = since[c] /\ result'[c] = result[c]
      BY <1>9, <1>t DEF FinishAppend
    <3>2. Good(c)
      BY <1>g
    <3> QED BY <3>1, <3>2 DEF Good
  <2>2. /\ file' = file /\ acked \subseteq acked'
        /\ \A d \in Client \ {c} :
              /\ pc'[d] = pc[d] /\ statted'[d] = statted[d] /\ since'[d] = since[d]
              /\ result'[d] = result[d] /\ cache'[d] = cache[d]
    BY <1>9, <1>t DEF FinishAppend
  <2> QED BY <1>o, <2>1, <2>2
<1>10. CASE AppendRaises(c)
  BY <1>10, <1>t, <1>k, <1>g, <1>m DEF AppendRaises
<1>11. CASE Stat(c)
  <2>1. /\ pc'[c] = "statted" /\ statted'[c] = file.mtime /\ since'[c] = acked
        /\ cache' = cache /\ file' = file /\ acked' = acked
    BY <1>11, <1>t DEF Stat
  <2>2. Good(c)'
    <3>1. cache[c].mtime = file.mtime => acked \subseteq Entries(cache[c].content)
      BY DEF CacheInv, AckInv
    <3> QED BY <1>t, <2>1, <3>1 DEF Good
  <2>3. \A d \in Client \ {c} :
              /\ pc'[d] = pc[d] /\ statted'[d] = statted[d] /\ since'[d] = since[d]
              /\ result'[d] = result[d] /\ cache'[d] = cache[d]
    BY <1>11, <1>t DEF Stat
  <2> QED BY <1>o, <2>1, <2>2, <2>3
<1>12. CASE ReadHit(c)
  <2>1. /\ pc[c] = "statted" /\ pc'[c] = "idle" /\ since'[c] = since[c]
        /\ result'[c] = cache[c].content /\ cache[c].mtime = statted[c]
    BY <1>12, <1>t DEF ReadHit, CacheValid
  <2>2. Good(c)'
    <3>1. Good(c)
      BY <1>g
    <3> QED BY <2>1, <3>1 DEF Good
  <2>3. /\ file' = file /\ acked \subseteq acked'
        /\ \A d \in Client \ {c} :
              /\ pc'[d] = pc[d] /\ statted'[d] = statted[d] /\ since'[d] = since[d]
              /\ result'[d] = result[d] /\ cache'[d] = cache[d]
    BY <1>12, <1>t DEF ReadHit
  <2> QED BY <1>o, <2>2, <2>3
<1>13. CASE ReadMiss(c)
  <2>1. /\ pc[c] = "statted" /\ pc'[c] = "idle" /\ since'[c] = since[c]
        /\ result'[c] = file.content
    BY <1>13, <1>t DEF ReadMiss
  <2>2. Good(c)'
    <3>1. since[c] \subseteq Entries(file.content)
      BY <1>g, <2>1 DEF Good, AckInv
    <3> QED BY <2>1, <3>1 DEF Good
  <2>3. /\ file' = file /\ acked \subseteq acked'
        /\ \A d \in Client \ {c} :
              /\ pc'[d] = pc[d] /\ statted'[d] = statted[d] /\ since'[d] = since[d]
              /\ result'[d] = result[d] /\ cache'[d] = cache[d]
    BY <1>13, <1>t DEF ReadMiss
  <2> QED BY <1>o, <2>2, <2>3
<1>14. CASE Crash(c)
  <2>1. pc'[c] = "idle" /\ since'[c] = {}
    BY <1>14, <1>t DEF Crash
  <2>2. Good(c)'
    BY <2>1 DEF Good
  <2>3. /\ file' = file /\ acked \subseteq acked'
        /\ \A d \in Client \ {c} :
              /\ pc'[d] = pc[d] /\ statted'[d] = statted[d] /\ since'[d] = since[d]
              /\ result'[d] = result[d] /\ cache'[d] = cache[d]
    BY <1>14, <1>t DEF Crash
  <2> QED BY <1>o, <2>2, <2>3
<1> QED
  BY <1>1, <1>2, <1>3, <1>4, <1>5, <1>6, <1>7, <1>8, <1>9, <1>10, <1>11,
     <1>12, <1>13, <1>14 DEF Proceed

\* Once two writes have got the same mtime, that stays so.
LEMMA TiedStays == TypeOK /\ [Next]_vars /\ clock.tied => clock'.tied
<1> SUFFICES ASSUME TypeOK, [Next]_vars, clock.tied PROVE clock'.tied
  OBVIOUS
<1>1. clock' = clock \/ \E c \in Client : WriteTmp(c)
  BY DEF Next, Proceed, vars, fileVars, BeginAppend, Acquire, LockTimeout, ReadExisting,
     OpenTmp, WriteFails, Replace, FinishAppend, AppendRaises, Stat, ReadHit, ReadMiss, Crash
<1>2. clock \in [now : Nat, tied : BOOLEAN]
  BY DEF TypeOK
<1> QED BY <1>1, <1>2 DEF WriteTmp

\* What keeps reads fresh while no two writes got the same mtime.
FreshInv == ~clock.tied => MtimeInv /\ CacheInv /\ ReadInv

\* Where no read fails and as long as every write got a new mtime, a read returns
\* all that was acknowledged when it began, also when it is answered from the
\* cache (_read_cached).
THEOREM ReadsFresh ==
    ASSUME ~ReadFaults PROVE Spec => []ReadsAreFresh
<1>1. Init => Calling /\ MutualExclusion /\ CycleInv
  BY CallingInit, StoreAssumption DEF Init, MutualExclusion, Critical, CycleInv
<1>2. Init => AckInv /\ FreshInv
  BY DEF Init, FreshInv, AckInv, MtimeInv, CacheInv, ReadInv, Missing, NoCache
<1>3. TypeOK /\ MutualExclusion /\ CycleInv /\ [Next]_vars => CycleInv'
  BY CycleStep
<1>4. /\ TypeOK /\ Calling /\ MutualExclusion /\ CycleInv /\ AckInv /\ FreshInv
      /\ [Next]_vars
      => FreshInv'
  BY TiedStays, MtimeStep, CacheStep, ReadStep DEF FreshInv
<1>5. FreshInv => ReadsAreFresh
  BY DEF FreshInv, ReadInv, ReadsAreFresh
<1> QED
  BY <1>1, <1>2, <1>3, <1>4, <1>5,
     TypeCorrect, TypeStep, LockStep, AckStep, PTL DEF Spec

-----------------------------------------------------------------------------
(* Own appends, whatever the resolution of the clock *)

Own(c, entries) == {e \in entries : e[1] = c}

\* A cache that survives has all the own acknowledged entries, since an own
\* append drops it.
OwnInv ==
    \A c \in Client :
        /\ entry[c] # NoEntry => entry[c][1] = c
        /\ cache[c] # NoCache => Own(c, acked) \subseteq Entries(cache[c].content)
        /\ pc[c] = "statted" => since[c] \subseteq acked
        /\ pc[c] # "statted" => Own(c, since[c]) \subseteq Entries(result[c])

LEMMA OwnStep ==
    TypeOK /\ Calling /\ AckInv /\ OwnInv /\ [Next]_vars /\ ~ReadFaults => OwnInv'
<1> SUFFICES ASSUME TypeOK, Calling, AckInv, OwnInv, [Next]_vars, ~ReadFaults PROVE OwnInv'
  OBVIOUS
<1> USE DEF Label, fileVars, readVars, Goto
<1>t. /\ DOMAIN pc = Client /\ DOMAIN entry = Client /\ DOMAIN cache = Client
      /\ DOMAIN since = Client /\ DOMAIN result = Client
  BY DEF TypeOK
<1> HIDE DEF NoCache
<1> DEFINE Good(d) ==
        /\ entry[d] # NoEntry => entry[d][1] = d
        /\ cache[d] # NoCache => Own(d, acked) \subseteq Entries(cache[d].content)
        /\ pc[d] = "statted" => since[d] \subseteq acked
        /\ pc[d] # "statted" => Own(d, since[d]) \subseteq Entries(result[d])
<1>g. (\A d \in Client : Good(d)) /\ (OwnInv' <=> \A d \in Client : Good(d)')
  BY DEF OwnInv
\* A client keeps what it has while the others acknowledge entries of their own.
<1>k. ASSUME NEW d \in Client, pc'[d] = "statted" <=> pc[d] = "statted",
             entry'[d] = entry[d] \/ entry'[d] = NoEntry, since'[d] = since[d], result'[d] = result[d],
             cache'[d] = cache[d], acked \subseteq acked', Own(d, acked') = Own(d, acked)
      PROVE  Good(d)'
  <2>1. Good(d)
    BY <1>g
  <2>2. Own(d, since'[d]) = Own(d, since[d]) /\ Entries(result'[d]) = Entries(result[d])
        /\ Entries(cache'[d].content) = Entries(cache[d].content)
    BY <1>k
  <2>3. entry'[d] # NoEntry => entry'[d][1] = d
    BY <1>k, <2>1
  <2>4. cache'[d] # NoCache => Own(d, acked') \subseteq Entries(cache'[d].content)
    BY <1>k, <2>1, <2>2
  <2>5. pc'[d] = "statted" => since'[d] \subseteq acked'
    BY <1>k, <2>1
  <2>6. pc'[d] # "statted" => Own(d, since'[d]) \subseteq Entries(result'[d])
    BY <1>k, <2>1, <2>2
  <2>7. NoCache' = NoCache
    BY DEF NoCache
  <2> QED BY <2>3, <2>4, <2>5, <2>6, <2>7
<1> HIDE DEF Good
<1>q. ASSUME UNCHANGED <<acked, since, result, cache>>,
             \A d \in Client : pc'[d] = "statted" <=> pc[d] = "statted",
             \A d \in Client : entry'[d] = entry[d] \/ entry'[d] = NoEntry
      PROVE  OwnInv'
  BY <1>q, <1>k, <1>g
<1>0. CASE UNCHANGED vars
  BY <1>0, <1>q DEF vars
<1> SUFFICES ASSUME NEW c \in Client,
                    BeginAppend(c) \/ Stat(c) \/ Proceed(c) \/ Crash(c)
             PROVE  OwnInv'
  BY <1>0 DEF Next
\* A step of client c that acknowledges nothing.
<1>o. ASSUME acked' = acked, Good(c)',
             \A d \in Client \ {c} :
                 /\ pc'[d] = pc[d] /\ entry'[d] = entry[d] /\ since'[d] = since[d]
                 /\ result'[d] = result[d] /\ cache'[d] = cache[d]
      PROVE  OwnInv'
  BY <1>o, <1>k, <1>g
<1>1. CASE BeginAppend(c)
  <2>1. entry'[c] = <<c, appends[c] + 1>> /\ pc[c] = "idle" /\ pc'[c] = "lock"
    BY <1>1, <1>t DEF BeginAppend
  <2>2. entry'[c][1] = c
    BY <2>1
  <2>3. cache' = cache /\ since' = since /\ result' = result /\ acked' = acked
    BY <1>1 DEF BeginAppend
  <2>4. Good(c)'
    BY <1>g, <2>1, <2>2, <2>3 DEF Good
  <2>5. \A d \in Client \ {c} : pc'[d] = pc[d] /\ entry'[d] = entry[d]
    BY <1>1, <1>t DEF BeginAppend
  <2> QED BY <1>o, <2>3, <2>4, <2>5
<1>2. CASE Acquire(c)
  BY <1>2, <1>t, <1>q DEF Acquire
<1>3. CASE LockTimeout(c)
  BY <1>3, <1>t, <1>q DEF LockTimeout
<1>4. CASE ReadExisting(c)
  BY <1>4, <1>t, <1>q DEF ReadExisting
<1>5. CASE OpenTmp(c)
  BY <1>5, <1>t, <1>q DEF OpenTmp
<1>6. CASE WriteTmp(c)
  BY <1>6, <1>t, <1>q DEF WriteTmp
<1>7. CASE WriteFails(c)
  BY <1>7, <1>t, <1>q DEF WriteFails
<1>8. CASE Replace(c)
  BY <1>8, <1>t, <1>q DEF Replace
<1>9. CASE FinishAppend(c)
  <2>1. /\ acked' = acked \cup {entry[c]} /\ pc[c] = "unlock" /\ pc'[c] = "idle"
        /\ entry'[c] = NoEntry /\ cache'[c] = NoCache /\ since' = since /\ result' = result
    BY <1>9, <1>t DEF FinishAppend
  <2>2. entry[c] # NoEntry /\ entry[c][1] = c
    BY <1>g, <2>1, StoreAssumption DEF Good, Calling, Critical, Entry
  <2>3. Good(c)'
    BY <1>g, <2>1 DEF Good
  <2>4. ASSUME NEW d \in Client \ {c} PROVE Good(d)'
    <3>1. Own(d, acked') = Own(d, acked)
      BY <2>1, <2>2 DEF Own
    <3>2. /\ pc'[d] = pc[d] /\ entry'[d] = entry[d] /\ since'[d] = since[d]
          /\ result'[d] = result[d] /\ cache'[d] = cache[d]
      BY <1>9, <1>t DEF FinishAppend
    <3> QED BY <1>k, <2>1, <3>1, <3>2
  <2> QED BY <1>g, <2>3, <2>4
<1>10. CASE AppendRaises(c)
  BY <1>10, <1>t, <1>q DEF AppendRaises
<1>11. CASE Stat(c)
  <2>1. /\ pc'[c] = "statted" /\ since'[c] = acked
        /\ cache' = cache /\ entry' = entry /\ acked' = acked
    BY <1>11, <1>t DEF Stat
  <2>2. Good(c)'
    BY <1>g, <2>1 DEF Good
  <2>3. \A d \in Client \ {c} :
              /\ pc'[d] = pc[d] /\ since'[d] = since[d] /\ result'[d] = result[d]
    BY <1>11, <1>t DEF Stat
  <2> QED BY <1>o, <2>1, <2>2, <2>3
<1>12. CASE ReadHit(c)
  <2>1. /\ pc[c] = "statted" /\ pc'[c] = "idle" /\ since'[c] = since[c] /\ acked' = acked
        /\ result'[c] = cache[c].content /\ cache[c] # NoCache
        /\ cache' = cache /\ entry' = entry
    BY <1>12, <1>t DEF ReadHit, CacheValid
  <2>2. Good(c)'
    <3>1. Own(c, since[c]) \subseteq Own(c, acked)
      BY <1>g, <2>1 DEF Good, Own
    <3> QED BY <1>g, <2>1, <3>1 DEF Good
  <2>3. \A d \in Client \ {c} :
              /\ pc'[d] = pc[d] /\ since'[d] = since[d] /\ result'[d] = result[d]
    BY <1>12, <1>t DEF ReadHit
  <2> QED BY <1>o, <2>1, <2>2, <2>3
<1>13. CASE ReadMiss(c)
  <2>1. /\ pc[c] = "statted" /\ pc'[c] = "idle" /\ since'[c] = since[c] /\ acked' = acked
        /\ result'[c] = file.content /\ cache'[c].content = file.content /\ entry' = entry
    BY <1>13, <1>t DEF ReadMiss
  <2>2. Good(c)'
    <3>1. since[c] \subseteq acked /\ acked \subseteq Entries(file.content)
      BY <1>g, <2>1 DEF Good, AckInv
    <3>2. Own(c, since[c]) \subseteq Entries(file.content) /\ Own(c, acked) \subseteq Entries(file.content)
      BY <3>1 DEF Own
    <3> QED BY <1>g, <2>1, <3>2 DEF Good
  <2>3. \A d \in Client \ {c} :
              /\ pc'[d] = pc[d] /\ since'[d] = since[d]
              /\ result'[d] = result[d] /\ cache'[d] = cache[d]
    BY <1>13, <1>t DEF ReadMiss
  <2> QED BY <1>o, <2>1, <2>2, <2>3
<1>14. CASE Crash(c)
  <2>1. /\ pc'[c] = "idle" /\ since'[c] = {} /\ cache'[c] = NoCache /\ entry'[c] = NoEntry
        /\ acked' = acked
    BY <1>14, <1>t DEF Crash
  <2>2. Good(c)'
    BY <2>1 DEF Good, Own
  <2>3. \A d \in Client \ {c} :
              /\ pc'[d] = pc[d] /\ entry'[d] = entry[d] /\ since'[d] = since[d]
              /\ result'[d] = result[d] /\ cache'[d] = cache[d]
    BY <1>14, <1>t DEF Crash
  <2> QED BY <1>o, <2>1, <2>2, <2>3
<1> QED
  BY <1>1, <1>2, <1>3, <1>4, <1>5, <1>6, <1>7, <1>8, <1>9, <1>10, <1>11,
     <1>12, <1>13, <1>14 DEF Proceed

\* Where no read fails, a client reads its own appends even if two writes may get
\* one mtime (append_playbook and append_drift_card drop the cache).
THEOREM ReadsOwn ==
    ASSUME ~ReadFaults PROVE Spec => []ReadsOwnAppends
<1>1. Init => Calling /\ MutualExclusion /\ CycleInv
  BY CallingInit, StoreAssumption DEF Init, MutualExclusion, Critical, CycleInv
<1>2. Init => AckInv /\ OwnInv
  BY DEF Init, AckInv, OwnInv, Own
<1>3. TypeOK /\ MutualExclusion /\ CycleInv /\ [Next]_vars => CycleInv'
  BY CycleStep
<1>4. TypeOK /\ Calling /\ AckInv /\ OwnInv /\ [Next]_vars => OwnInv'
  BY OwnStep
<1>5. OwnInv => ReadsOwnAppends
  BY DEF OwnInv, Own, ReadsOwnAppends
<1> QED
  BY <1>1, <1>2, <1>3, <1>4, <1>5, TypeCorrect, TypeStep, LockStep, AckStep, PTL DEF Spec
=============================================================================
