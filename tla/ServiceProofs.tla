--------------------------- MODULE ServiceProofs ---------------------------
(***************************************************************************)
(* Proofs about Service, for every number of sessions, server processes    *)
(* and crashes, every retention time and every order of their steps.       *)
(***************************************************************************)
EXTENDS Service, FiniteSetTheorems, TLAPS

-----------------------------------------------------------------------------
(* Types *)

\* The entries sessions append.
WonBy(s) == {EntryOf(s, n, speedup) : n \in ScenarioId, speedup \in Nat}
Won == UNION {WonBy(s) : s \in Session}

Episodes == [scenario : ScenarioId \cup {0}, acknowledged : BOOLEAN]

SessionState ==
    [status : {"none", "open", "closed", "lost"}, process : Process \cup {NoProcess},
     episode : Episodes]

Directory == [exists : BOOLEAN, mtime : Int, playbook : Seq(Won)]

ProcessState ==
    [status : {"down", "sweeping", "serving"}, cutoff : Int, todo : SUBSET Session,
     stale : Session \cup {NoSession}]

ServiceType ==
    /\ env \in [Session -> SessionState]
    /\ store \in [Session -> Directory]
    /\ server \in [Process -> ProcessState]
    /\ now \in Int
    /\ wins \in [Session -> Seq(Won)]

\* The parts of a state have their types.
LEMMA NoneWon == <<>> \in Seq(Won)
  OBVIOUS

LEMMA NoDirType == NoDir \in Directory
  BY NoneWon DEF NoDir, Directory

LEMMA DownType == Down \in ProcessState
  BY DEF Down, ProcessState

LEMMA NoEpisodeType == NoEpisode \in Episodes
  BY DEF NoEpisode, Episodes

\* A win is an entry its session won, and an entry some session won.
LEMMA WonType ==
    ASSUME NEW s \in Session, NEW scenario \in ScenarioId, NEW speedup \in Speedup[scenario]
    PROVE  EntryOf(s, scenario, speedup) \in WonBy(s)
  <1>1. speedup \in Nat
    BY ServiceAssumption
  <1> QED
    BY <1>1 DEF WonBy

LEMMA WonByIsWon == \A s \in Session : WonBy(s) \subseteq Won
  BY DEF Won

\* The steps keep the types.
LEMMA ServerType ==
    ASSUME ServiceType, NEW p \in Process, ServerStep(p)
    PROVE  ServiceType'
  <1>1. server[p] \in ProcessState
    BY DEF ServiceType
  <1>2. CASE StartUp(p)
    <2>1. now - TTL \in Int /\ (IF TTL = 0 THEN {} ELSE Dirs) \in SUBSET Session
      BY ServiceAssumption DEF ServiceType, Dirs
    <2>2. [status |-> "sweeping", cutoff |-> now - TTL,
           todo |-> IF TTL = 0 THEN {} ELSE Dirs, stale |-> NoSession] \in ProcessState
      BY <2>1 DEF ProcessState
    <2> QED
      BY <1>2, <2>2 DEF StartUp, ServiceType
  <1>3. CASE SweepRemove(p)
    <2>1. [server[p] EXCEPT !.stale = NoSession] \in ProcessState
      BY <1>1 DEF ProcessState
    <2>2. server' = [server EXCEPT ![p] = [server[p] EXCEPT !.stale = NoSession]]
      BY <1>3 DEF SweepRemove
    <2>3. server' \in [Process -> ProcessState]
      BY <2>1, <2>2 DEF ServiceType
    <2>4. store' \in [Session -> Directory] /\ wins' \in [Session -> Seq(Won)]
      BY <1>3, NoDirType, NoneWon DEF SweepRemove, ServiceType
    <2> QED
      BY <1>3, <2>3, <2>4 DEF SweepRemove, ServiceType
  <1>4. CASE Serve(p)
    <2>1. [server[p] EXCEPT !.status = "serving"] \in ProcessState
      BY <1>1 DEF ProcessState
    <2>2. server' = [server EXCEPT ![p] = [server[p] EXCEPT !.status = "serving"]]
      BY <1>4 DEF Serve
    <2> QED
      BY <1>4, <2>1, <2>2 DEF Serve, ServiceType
  <1>5. CASE Crash(p)
    <2>1. \A s \in Session : [env[s] EXCEPT !.status = "lost", !.episode = NoEpisode]
                                 \in SessionState
      BY NoEpisodeType DEF ServiceType, SessionState
    <2>2. env' \in [Session -> SessionState]
      BY <1>5, <2>1 DEF Crash, ServiceType
    <2>3. wins' \in [Session -> Seq(Won)]
      BY <1>5, NoneWon DEF Crash, ServiceType
    <2> QED
      BY <1>5, <2>2, <2>3, DownType DEF Crash, ServiceType
  <1>6. ASSUME NEW s \in Session, SweepStat(p, s) PROVE ServiceType'
    <2> DEFINE stale == IF OlderThan(store[s], server[p].cutoff) THEN s ELSE NoSession
               after == [server[p] EXCEPT !.todo = Remaining(p, s), !.stale = stale]
    <2>1. stale \in Session \cup {NoSession} /\ Remaining(p, s) \in SUBSET Session
      BY <1>1 DEF Remaining, ProcessState
    <2> HIDE DEF stale
    <2>2. after \in ProcessState
      BY <1>1, <2>1 DEF ProcessState
    <2> HIDE DEF after
    <2>3. server' = [server EXCEPT ![p] = after]
      BY <1>6 DEF SweepStat, after, stale
    <2> QED
      BY <1>6, <2>2, <2>3 DEF SweepStat, ServiceType
  <1>7. ASSUME NEW s \in Session, Connect(p, s) PROVE ServiceType'
    <2>1. [status |-> "open", process |-> p, episode |-> NoEpisode] \in SessionState
      BY NoEpisodeType DEF SessionState
    <2> QED
      BY <1>7, <2>1 DEF Connect, ServiceType
  <1> QED
    BY <1>2, <1>3, <1>4, <1>5, <1>6, <1>7 DEF ServerStep

\* What a session's step does to the sessions, the directories and the wins.
LEMMA SessionMoves ==
    ASSUME ServiceType, NEW s \in Session, SessionStep(s)
    PROVE  /\ env[s].status = "open"
           /\ UNCHANGED <<server, now>>
           /\ \/ /\ UNCHANGED <<store, wins>>
                 /\ \E played \in Episodes : env' = [env EXCEPT ![s].episode = played]
              \/ /\ env' = [env EXCEPT ![s].status = "closed", ![s].episode = NoEpisode]
                 /\ store' = [store EXCEPT ![s] = NoDir]
                 /\ wins' = [wins EXCEPT ![s] = <<>>]
              \/ /\ env' = [env EXCEPT ![s].episode = NoEpisode]
                 /\ \E entry \in WonBy(s) :
                        /\ store' = [store EXCEPT ![s] = AppendTo(store[s], entry)]
                        /\ wins' = [wins EXCEPT ![s] = Append(wins[s], entry)]
  <1> DEFINE Plays(e) == env' = [env EXCEPT ![s].episode = e]
  <1>1. env[s] \in SessionState /\ env[s].episode \in Episodes
    BY DEF ServiceType, SessionState
  <1>2. ASSUME NEW scenario \in ScenarioId, Reset(s, scenario)
        PROVE  /\ env[s].status = "open" /\ UNCHANGED <<server, now, store, wins>>
               /\ \E played \in Episodes : Plays(played)
    <2>1. [scenario |-> scenario, acknowledged |-> FALSE] \in Episodes
      BY DEF Episodes
    <2> QED
      BY <1>2, <2>1 DEF Reset
  <1>3. CASE Acknowledge(s)
    <2>1. [env[s].episode EXCEPT !.acknowledged = TRUE] \in Episodes
      BY <1>1 DEF Episodes
    <2>2. Plays([env[s].episode EXCEPT !.acknowledged = TRUE])
      BY <1>1, <1>3 DEF Acknowledge, ServiceType
    <2> HIDE DEF Plays
    <2>3. \E played \in Episodes : Plays(played)
      BY <2>1, <2>2
    <2>4. env[s].status = "open" /\ UNCHANGED <<server, now, store, wins>>
      BY <1>3 DEF Acknowledge, Playing
    <2> QED
      BY <2>3, <2>4 DEF Plays
  <1>4. CASE OtherStep(s)
    <2>1. Plays(env[s].episode) \/ Plays(NoEpisode)
      <3>1. env = [env EXCEPT ![s].episode = env[s].episode]
        <4>1. [env[s] EXCEPT !.episode = env[s].episode] = env[s]
          BY <1>1 DEF SessionState
        <4>2. [env EXCEPT ![s] = env[s]] = env
          BY DEF ServiceType
        <4> QED
          BY <4>1, <4>2
      <3> QED
        BY <1>4, <3>1 DEF OtherStep
    <2> HIDE DEF Plays
    <2>2. \E played \in Episodes : Plays(played)
      BY <1>1, <2>1, NoEpisodeType
    <2>3. env[s].status = "open" /\ UNCHANGED <<server, now, store, wins>>
      BY <1>4 DEF OtherStep, Playing
    <2> QED
      BY <2>2, <2>3 DEF Plays
  <1>5. CASE Disconnect(s)
    BY <1>5 DEF Disconnect, RemovedOnClose, StoreOf
  <1>6. ASSUME NEW scenario \in ScenarioId, NEW speedup \in Speedup[scenario],
               NEW appended \in BOOLEAN, Win(s, scenario, speedup, appended)
        PROVE  /\ env[s].status = "open" /\ UNCHANGED <<server, now>>
               /\ Plays(NoEpisode)
               /\ \/ UNCHANGED <<store, wins>>
                  \/ \E entry \in WonBy(s) :
                         /\ store' = [store EXCEPT ![s] = AppendTo(store[s], entry)]
                         /\ wins' = [wins EXCEPT ![s] = Append(wins[s], entry)]
    <2> DEFINE won == EntryOf(s, scenario, speedup)
    <2>1. won \in WonBy(s)
      BY WonType
    <2>2. /\ env[s].status = "open" /\ UNCHANGED <<server, now>>
          /\ Plays(NoEpisode)
      BY <1>6 DEF Win, Playing
    <2>3. \/ UNCHANGED <<store, wins>>
          \/ /\ store' = [store EXCEPT ![s] = AppendTo(store[s], won)]
             /\ wins' = [wins EXCEPT ![s] = Append(wins[s], won)]
      BY <1>6 DEF Win, StoreOf
    <2> HIDE DEF won
    <2> QED
      BY <2>1, <2>2, <2>3
  <1> QED
    BY <1>2, <1>3, <1>4, <1>5, <1>6, NoEpisodeType DEF SessionStep

LEMMA SessionType ==
    ASSUME ServiceType, NEW s \in Session, SessionStep(s)
    PROVE  ServiceType'
  <1>1. UNCHANGED <<server, now>>
    BY SessionMoves
  <1>2. env[s] \in SessionState /\ store[s] \in Directory
    BY DEF ServiceType
  <1>3. ASSUME NEW played \in Episodes, env' = [env EXCEPT ![s].episode = played]
        PROVE  env' \in [Session -> SessionState]
    <2>1. [env[s] EXCEPT !.episode = played] \in SessionState
      BY <1>2 DEF SessionState
    <2> QED
      BY <1>3, <2>1 DEF ServiceType
  <1>4. ASSUME env' = [env EXCEPT ![s].status = "closed", ![s].episode = NoEpisode]
        PROVE  env' \in [Session -> SessionState]
    <2>1. [[env[s] EXCEPT !.status = "closed"] EXCEPT !.episode = NoEpisode] \in SessionState
      BY <1>2, NoEpisodeType DEF SessionState
    <2> QED
      BY <1>4, <2>1 DEF ServiceType
  <1>5. ASSUME NEW entry \in Won,
               store' = [store EXCEPT ![s] = AppendTo(store[s], entry)],
               wins' = [wins EXCEPT ![s] = Append(wins[s], entry)]
        PROVE  store' \in [Session -> Directory] /\ wins' \in [Session -> Seq(Won)]
    <2>1. /\ Append(store[s].playbook, entry) \in Seq(Won)
          /\ Append(wins[s], entry) \in Seq(Won)
      BY <1>2 DEF ServiceType, Directory
    <2>2. AppendTo(store[s], entry) \in Directory
      BY <2>1 DEF AppendTo, Directory, ServiceType
    <2> QED
      BY <1>5, <2>1, <2>2 DEF ServiceType
  <1>6. UNCHANGED <<store, wins>> =>
            store' \in [Session -> Directory] /\ wins' \in [Session -> Seq(Won)]
    BY DEF ServiceType
  <1>7. store' = [store EXCEPT ![s] = NoDir] /\ wins' = [wins EXCEPT ![s] = <<>>] =>
            store' \in [Session -> Directory] /\ wins' \in [Session -> Seq(Won)]
    BY NoDirType, NoneWon DEF ServiceType
  <1>8. env' \in [Session -> SessionState]
    BY <1>3, <1>4, SessionMoves, NoEpisodeType
  <1>9. store' \in [Session -> Directory] /\ wins' \in [Session -> Seq(Won)]
    BY <1>5, <1>6, <1>7, SessionMoves, WonByIsWon
  <1> QED
    BY <1>1, <1>8, <1>9 DEF ServiceType

LEMMA TickType ==
    ASSUME ServiceType, Tick \/ UNCHANGED vars
    PROVE  ServiceType'
  BY DEF ServiceType, Tick, vars

LEMMA ServiceTyped == ServiceType /\ [Next]_vars => ServiceType'
  BY ServerType, SessionType, TickType DEF Next

-----------------------------------------------------------------------------
(* Directories and sessions *)

\* A directory that is gone holds nothing, and a session that has not begun has
\* won nothing: what connects finds the two equal.
Follows(s) ==
    /\ env[s].status = "open" => store[s].playbook = wins[s]
    /\ store[s].exists => env[s].status \in {"open", "lost"}
    /\ ~store[s].exists => store[s].playbook = <<>>
    /\ env[s].status = "none" => wins[s] = <<>>

FollowInv == \A s \in Session : Follows(s)

\* What a server's step does to one session, its directory and its wins.
LEMMA ServerMoves ==
    ASSUME ServiceType, NEW p \in Process, ServerStep(p), NEW s \in Session
    PROVE  /\ now' = now
           /\ \/ env'[s].status = env[s].status
              \/ env[s].status = "none" /\ env'[s].status = "open"
              \/ env[s].status = "open" /\ env'[s].status = "lost"
           /\ \/ store'[s] = store[s] /\ wins'[s] = wins[s]
              \/ /\ store'[s] = NoDir /\ wins'[s] = <<>>
                 /\ env'[s].status = env[s].status
              \/ /\ store'[s] = store[s] /\ wins'[s] = <<>>
                 /\ env'[s].status = "lost"
  <1>1. env[s] \in SessionState
    BY DEF ServiceType
  <1>2. CASE StartUp(p) \/ Serve(p) \/ \E t \in Session : SweepStat(p, t)
    BY <1>2 DEF StartUp, Serve, SweepStat
  <1>3. CASE SweepRemove(p)
    BY <1>3 DEF SweepRemove, ServiceType
  <1>4. CASE Crash(p)
    <2>1. now' = now /\ store' = store
      BY <1>4 DEF Crash
    <2>2. CASE env[s].status = "open" /\ env[s].process = p
      <3>1. env'[s] = [env[s] EXCEPT !.status = "lost", !.episode = NoEpisode]
        BY <1>4, <2>2 DEF Crash
      <3>2. env'[s].status = "lost"
        BY <1>1, <3>1 DEF SessionState
      <3>3. wins'[s] = <<>>
        BY <1>4, <3>2 DEF Crash
      <3> QED
        BY <2>1, <2>2, <3>2, <3>3
    <2>3. CASE ~(env[s].status = "open" /\ env[s].process = p)
      <3>1. env'[s] = env[s]
        BY <1>4, <2>3 DEF Crash
      <3>2. wins'[s] = IF env'[s].status = "lost" THEN <<>> ELSE wins[s]
        BY <1>4 DEF Crash
      <3> QED
        BY <2>1, <3>1, <3>2
    <2> QED
      BY <2>2, <2>3
  <1>5. ASSUME NEW t \in Session, Connect(p, t)
        PROVE  /\ now' = now /\ store' = store /\ wins' = wins
               /\ \/ env'[s].status = env[s].status
                  \/ env[s].status = "none" /\ env'[s].status = "open"
    BY <1>5 DEF Connect, ServiceType
  <1> QED
    BY <1>2, <1>3, <1>4, <1>5 DEF ServerStep

\* Every step keeps directories and wins together.
LEMMA FollowStep ==
    ASSUME ServiceType, FollowInv, [Next]_vars
    PROVE  FollowInv'
  <1> SUFFICES ASSUME NEW s \in Session PROVE Follows(s)'
    BY DEF FollowInv
  <1> USE DEF Follows
  <1>1. Follows(s)
    BY DEF FollowInv
  <1>2. NoDir.exists = FALSE /\ NoDir.playbook = <<>>
    BY DEF NoDir
  <1>3. env[s] \in SessionState /\ store[s] \in Directory
    BY DEF ServiceType
  <1>4. ASSUME NEW p \in Process, ServerStep(p) PROVE Follows(s)'
    BY <1>1, <1>2, <1>4, ServerMoves
  <1>5. ASSUME NEW t \in Session, SessionStep(t) PROVE Follows(s)'
    <2>1. CASE t # s
      <3>1. env'[s] = env[s] /\ store'[s] = store[s] /\ wins'[s] = wins[s]
        BY <1>5, <2>1, SessionMoves DEF ServiceType
      <3> QED
        BY <1>1, <3>1
    <2>2. CASE t = s
      <3>1. env[s].status = "open"
        BY <1>5, <2>2, SessionMoves
      <3>2. CASE /\ UNCHANGED <<store, wins>>
                 /\ \E played \in Episodes : env' = [env EXCEPT ![s].episode = played]
        <4>1. env'[s].status = "open"
          BY <1>3, <3>1, <3>2 DEF ServiceType, SessionState
        <4> QED
          BY <1>1, <3>1, <3>2, <4>1
      <3>3. CASE /\ env' = [env EXCEPT ![s].status = "closed", ![s].episode = NoEpisode]
                 /\ store' = [store EXCEPT ![s] = NoDir]
                 /\ wins' = [wins EXCEPT ![s] = <<>>]
        <4>1. env'[s].status = "closed" /\ store'[s] = NoDir /\ wins'[s] = <<>>
          BY <1>3, <3>3 DEF ServiceType, SessionState
        <4> QED
          BY <1>2, <4>1
      <3>4. ASSUME env' = [env EXCEPT ![s].episode = NoEpisode],
                   NEW entry \in Won,
                   store' = [store EXCEPT ![s] = AppendTo(store[s], entry)],
                   wins' = [wins EXCEPT ![s] = Append(wins[s], entry)]
            PROVE  Follows(s)'
        <4>1. env'[s].status = "open"
          BY <1>3, <3>1, <3>4 DEF ServiceType, SessionState
        <4>2. store'[s] = AppendTo(store[s], entry) /\ wins'[s] = Append(wins[s], entry)
          BY <3>4 DEF ServiceType
        <4>3. /\ store'[s].exists = TRUE
              /\ store'[s].playbook = Append(store[s].playbook, entry)
          BY <4>2 DEF AppendTo
        <4> QED
          BY <1>1, <3>1, <4>1, <4>2, <4>3
      <3> QED
        BY <1>5, <2>2, <3>2, <3>3, <3>4, SessionMoves, WonByIsWon
    <2> QED
      BY <2>1, <2>2
  <1>6. CASE Tick \/ UNCHANGED vars
    BY <1>1, <1>6 DEF Tick, vars
  <1> QED
    BY <1>4, <1>5, <1>6 DEF Next

LEMMA FollowInvariant == Spec => [](ServiceType /\ FollowInv)
  <1>1. Init => ServiceType
    <2>1. Unborn \in SessionState
      BY NoEpisodeType DEF Unborn, SessionState
    <2> QED
      BY <2>1, NoDirType, DownType, NoneWon, ServiceAssumption DEF Init, ServiceType
  <1>2. Init => FollowInv
    BY DEF Init, FollowInv, Follows, NoDir, Unborn
  <1>3. (ServiceType /\ FollowInv) /\ [Next]_vars => (ServiceType /\ FollowInv)'
    BY ServiceTyped, FollowStep
  <1> QED
    BY <1>1, <1>2, <1>3, PTL DEF Spec

\* For every number of sessions and processes, and whatever is swept or dies when:
\* a live session's wins are in its directory, complete and in order, and a
\* directory belongs to an open session or to one a crash cut off
\* (_locked_append, close, cleanup_stale_session_dirs).
THEOREM DirectoriesFollow == Spec => []StoresFollowSessions
  <1>1. FollowInv => StoresFollowSessions
    BY DEF FollowInv, Follows, StoresFollowSessions
  <1> QED
    BY <1>1, FollowInvariant, PTL

-----------------------------------------------------------------------------
(* The sweep *)

\* What a sweeping process has not looked at yet holds every directory that was
\* too old when it began: a directory made or written to since is younger.
Swept(p, s) ==
    OlderThan(store[s], server[p].cutoff) =>
        s \in server[p].todo \/ s = server[p].stale

SweepInv ==
    \A p \in Process : server[p].status = "sweeping" /\ TTL > 0 =>
        /\ server[p].cutoff <= now
        /\ \A s \in Session : Swept(p, s)

\* A step of a session or the clock leaves no directory older than it was.
LEMMA SessionsRenew ==
    ASSUME ServiceType, NEW t \in Session, SessionStep(t),
           NEW cutoff \in Int, cutoff <= now, NEW s \in Session,
           OlderThan(store'[s], cutoff)
    PROVE  OlderThan(store[s], cutoff)
  <1>1. \/ store'[s] = store[s]
        \/ store'[s] = NoDir
        \/ \E entry \in Won : store'[s] = AppendTo(store[s], entry)
    <2>1. \/ store' = store
          \/ store' = [store EXCEPT ![t] = NoDir]
          \/ \E entry \in Won : store' = [store EXCEPT ![t] = AppendTo(store[t], entry)]
      BY SessionMoves, WonByIsWon
    <2> QED
      BY <2>1 DEF ServiceType
  <1>2. store'[s] # NoDir
    BY DEF OlderThan, NoDir
  <1>3. ASSUME NEW entry \in Won, store'[s] = AppendTo(store[s], entry) PROVE FALSE
    <2>1. store'[s].mtime = now
      BY <1>3 DEF AppendTo
    <2> QED
      BY <2>1 DEF OlderThan, ServiceType
  <1> QED
    BY <1>1, <1>2, <1>3

\* Another process's step leaves this one's sweep alone.
LEMMA SweepsApart ==
    ASSUME ServiceType, NEW p \in Process, NEW q \in Process, ServerStep(q), q # p
    PROVE  server'[p] = server[p]
  BY DEF ServerStep, StartUp, SweepRemove, Serve, Crash, SweepStat, Connect, ServiceType

\* Every step keeps what is old on the list of the sweep.
LEMMA SweepStep ==
    ASSUME ServiceType, ServiceType', SweepInv, [Next]_vars
    PROVE  SweepInv'
  <1> SUFFICES ASSUME NEW p \in Process, server'[p].status = "sweeping", TTL > 0
               PROVE  server'[p].cutoff <= now' /\ \A s \in Session : Swept(p, s)'
    BY DEF SweepInv
  <1> USE DEF Swept
  <1>1. server[p] \in ProcessState /\ now \in Int /\ server[p].cutoff \in Int
    BY DEF ServiceType, ProcessState
  <1>2. ASSUME server'[p] = server[p],
               \A s \in Session : OlderThan(store'[s], server[p].cutoff) =>
                                      OlderThan(store[s], server[p].cutoff),
               now' = now \/ now' = now + 1
        PROVE  server'[p].cutoff <= now' /\ \A s \in Session : Swept(p, s)'
    <2>1. server[p].cutoff <= now /\ \A s \in Session : Swept(p, s)
      BY <1>2 DEF SweepInv
    <2> QED
      BY <1>1, <1>2, <2>1
  <1>3. ASSUME NEW q \in Process, ServerStep(q), q # p
        PROVE  server'[p].cutoff <= now' /\ \A s \in Session : Swept(p, s)'
    <2>1. server'[p] = server[p]
      BY <1>3, SweepsApart
    <2>2. now' = now /\ \A s \in Session : store'[s] = store[s] \/ store'[s] = NoDir
      <3>1. now' = now
        BY <1>3 DEF ServerStep, StartUp, SweepRemove, Serve, Crash, SweepStat, Connect
      <3>2. ASSUME NEW s \in Session PROVE store'[s] = store[s] \/ store'[s] = NoDir
        BY <1>3, ServerMoves
      <3> QED
        BY <3>1, <3>2
    <2>3. \A s \in Session : OlderThan(store'[s], server[p].cutoff) =>
                                 OlderThan(store[s], server[p].cutoff)
      BY <2>2 DEF OlderThan, NoDir
    <2> QED
      BY <1>2, <2>1, <2>2, <2>3
  <1>4. ASSUME ServerStep(p)
        PROVE  server'[p].cutoff <= now' /\ \A s \in Session : Swept(p, s)'
    <2>1. CASE StartUp(p)
      <3>1. server'[p] = [status |-> "sweeping", cutoff |-> now - TTL,
                          todo |-> IF TTL = 0 THEN {} ELSE Dirs, stale |-> NoSession]
        BY <2>1 DEF StartUp, ServiceType
      <3>2. /\ server'[p].cutoff = now - TTL /\ server'[p].todo = Dirs
            /\ now' = now /\ store' = store
        BY <2>1, <3>1 DEF StartUp
      <3>3. server'[p].cutoff <= now'
        BY <1>1, <3>2, ServiceAssumption
      <3>4. \A s \in Session : OlderThan(store'[s], server'[p].cutoff) => s \in server'[p].todo
        BY <3>2 DEF OlderThan, Dirs
      <3> QED
        BY <3>3, <3>4
    <2>2. CASE SweepRemove(p)
      <3>1. server'[p] = [server[p] EXCEPT !.stale = NoSession]
        BY <2>2 DEF SweepRemove, ServiceType
      <3>2. /\ server'[p].status = server[p].status /\ server'[p].cutoff = server[p].cutoff
            /\ server'[p].todo = server[p].todo /\ now' = now
        BY <1>1, <2>2, <3>1 DEF SweepRemove, ProcessState
      <3>3. server[p].cutoff <= now /\ \A s \in Session : Swept(p, s)
        BY <3>2 DEF SweepInv
      <3>4. ASSUME NEW s \in Session, OlderThan(store'[s], server[p].cutoff)
            PROVE  s \in server[p].todo
        <4>1. store'[s] = IF s = server[p].stale THEN NoDir ELSE store[s]
          BY <2>2 DEF SweepRemove, ServiceType
        <4>2. s # server[p].stale
          BY <3>4, <4>1 DEF OlderThan, NoDir
        <4> QED
          BY <3>3, <3>4, <4>1, <4>2
      <3> QED
        BY <3>2, <3>3, <3>4
    <2>3. CASE Serve(p)
      <3>1. server'[p] = [server[p] EXCEPT !.status = "serving"]
        BY <2>3 DEF Serve, ServiceType
      <3> QED
        BY <1>1, <3>1 DEF ProcessState
    <2>4. CASE Crash(p)
      <3>1. server'[p] = Down
        BY <2>4 DEF Crash, ServiceType
      <3> QED
        BY <3>1 DEF Down
    <2>5. ASSUME NEW t \in Session, SweepStat(p, t)
          PROVE  server'[p].cutoff <= now' /\ \A s \in Session : Swept(p, s)'
      <3> DEFINE stale == IF OlderThan(store[t], server[p].cutoff) THEN t ELSE NoSession
      <3>1. server'[p] = [server[p] EXCEPT !.todo = Remaining(p, t), !.stale = stale]
        BY <2>5 DEF SweepStat, ServiceType
      <3>2. /\ server'[p].status = server[p].status /\ server'[p].cutoff = server[p].cutoff
            /\ server'[p].todo = server[p].todo \ {t} /\ server'[p].stale = stale
        BY <1>1, <3>1 DEF ProcessState, Remaining
      <3>3. /\ now' = now /\ store' = store /\ server[p].stale = NoSession
        BY <2>5 DEF SweepStat
      <3>4. server[p].cutoff <= now /\ \A s \in Session : Swept(p, s)
        BY <3>2 DEF SweepInv
      <3>5. ASSUME NEW s \in Session, OlderThan(store[s], server[p].cutoff)
            PROVE  s \in server'[p].todo \/ s = server'[p].stale
        <4>1. s \in server[p].todo
          BY <3>3, <3>4, <3>5, SentinelAssumption
        <4> QED
          BY <3>2, <3>5, <4>1
      <3> QED
        BY <3>2, <3>3, <3>4, <3>5
    <2>6. ASSUME NEW t \in Session, Connect(p, t)
          PROVE  server'[p].cutoff <= now' /\ \A s \in Session : Swept(p, s)'
      BY <1>2, <2>6 DEF Connect
    <2> QED
      BY <1>4, <2>1, <2>2, <2>3, <2>4, <2>5, <2>6 DEF ServerStep
  <1>5. ASSUME NEW t \in Session, SessionStep(t)
        PROVE  server'[p].cutoff <= now' /\ \A s \in Session : Swept(p, s)'
    <2>1. server' = server /\ now' = now
      BY <1>5, SessionMoves
    <2>2. server[p].cutoff <= now
      BY <2>1 DEF SweepInv
    <2>3. ASSUME NEW s \in Session, OlderThan(store'[s], server[p].cutoff)
          PROVE  OlderThan(store[s], server[p].cutoff)
      BY <1>1, <1>5, <2>2, <2>3, SessionsRenew
    <2> QED
      BY <1>2, <2>1, <2>3
  <1>6. CASE Tick \/ UNCHANGED vars
    BY <1>2, <1>6 DEF Tick, vars
  <1> QED
    BY <1>3, <1>4, <1>5, <1>6 DEF Next

LEMMA SweepInvariant == Spec => [](ServiceType /\ SweepInv)
  <1>1. Init => SweepInv
    BY DEF Init, SweepInv, Down
  <1>2. ServiceType /\ ServiceType' /\ SweepInv /\ [Next]_vars => SweepInv'
    BY SweepStep
  <1> QED
    BY <1>1, <1>2, FollowInvariant, PTL DEF Spec

\* For every retention time, and however many processes and sessions run next to
\* it: a process that begins to serve has left no directory older than its cutoff
\* (cleanup_stale_session_dirs).
THEOREM SweepLeavesNothingOld == Spec => SweepIsThorough
  <1> DEFINE Left == \A p \in Process :
                 server[p].status = "sweeping" /\ server'[p].status = "serving" /\ TTL > 0
                 => \A s \in Session : ~OlderThan(store[s], server[p].cutoff)
  <1>1. ServiceType /\ SweepInv /\ [Next]_vars => [Left]_vars
    <2> SUFFICES ASSUME ServiceType, SweepInv, Next,
                        NEW p \in Process, server[p].status = "sweeping",
                        server'[p].status = "serving", TTL > 0,
                        NEW s \in Session, OlderThan(store[s], server[p].cutoff)
                 PROVE  FALSE
      OBVIOUS
    <2>1. s \in server[p].todo \/ s = server[p].stale
      BY DEF SweepInv, Swept
    <2>2. server[p] \in ProcessState
      BY DEF ServiceType
    <2>3. server'[p] # server[p]
      OBVIOUS
    <2>4. ServerStep(p)
      BY <2>3, SweepsApart, SessionMoves DEF Next, Tick
    <2>5. /\ server \in [Process -> ProcessState]
          /\ DOMAIN server[p] = {"status", "cutoff", "todo", "stale"}
      BY <2>2 DEF ServiceType, ProcessState
    <2>6. ~StartUp(p)
      BY DEF StartUp
    <2>7. ~SweepRemove(p)
      BY <2>5 DEF SweepRemove
    <2>8. ~Crash(p)
      <3>1. Down.status = "down"
        BY DEF Down
      <3>2. ASSUME server' = [server EXCEPT ![p] = Down] PROVE FALSE
        BY <2>5, <3>1, <3>2
      <3> QED
        BY <3>2 DEF Crash
    <2>9. ASSUME NEW t \in Session PROVE ~SweepStat(p, t) /\ ~Connect(p, t)
      BY <2>5 DEF SweepStat, Connect
    <2>10. Serve(p)
      BY <2>4, <2>6, <2>7, <2>8, <2>9 DEF ServerStep
    <2> QED
      BY <2>1, <2>10, SentinelAssumption DEF Serve
  <1>2. Spec => [][Left]_vars
    BY <1>1, SweepInvariant, PTL DEF Spec
  <1> QED
    BY <1>2 DEF SweepIsThorough

-----------------------------------------------------------------------------
(* Drift cards *)

\* Without a kind there is no card.
LEMMA NoCardOfNoKind ==
    ASSUME NEW cards, NEW k
    PROVE  TopKCards(NoKind, cards, k) = <<>>
  BY DEF TopKCards

\* The first of one.
LEMMA FirstOfOne == ASSUME NEW card PROVE FirstOf(<<card>>, 1) = <<card>>
  <1>1. <<card>> \in Seq({card}) /\ Len(<<card>>) = 1
    OBVIOUS
  <1>2. SubSeq(<<card>>, 1, 1) = <<card>>
    <2> DEFINE one == <<card>>
    <2>1. one \in Seq({card}) /\ Len(one) = 1 /\ one[1] = card
      BY <1>1
    <2> HIDE DEF one
    <2>2. SubSeq(one, 1, 1) = [n \in 1..1 |-> one[n]]
      BY <2>1
    <2>3. [n \in 1..1 |-> one[n]] = one
      BY <2>1
    <2> QED
      BY <2>2, <2>3 DEF one
  <1> QED
    BY <1>1, <1>2 DEF FirstOf

\* The only card of a kind is the one retrieval finds (top_k_drift_cards).
LEMMA OneCardOfAKind ==
    ASSUME NEW kind, kind # NoKind, NEW cards, NEW i \in Int,
           cards[i].success_rate \in Int, {l \in DOMAIN cards : cards[l].drift_kind = kind} = {i}
    PROVE  TopKCards(kind, cards, 1) = <<cards[i]>>
  <1> DEFINE matches == {l \in DOMAIN cards : cards[l].drift_kind = kind}
             before(j, l) == \/ cards[j].success_rate > cards[l].success_rate
                             \/ cards[j].success_rate = cards[l].success_rate /\ j < l
             ahead(l) == {j \in matches : before(j, l)}
             place(l) == 1 + Cardinality(ahead(l))
             at(n) == CHOOSE l \in matches : place(l) = n
             sorted == [n \in 1..Cardinality(matches) |-> cards[at(n)]]
  <1>1. TopKCards(kind, cards, 1) = FirstOf(sorted, 1)
    <2> DEFINE order == InOrder(matches, before)
    <2>1. order = [n \in 1..Cardinality(matches) |-> at(n)]
      BY DEF InOrder
    <2>2. TopKCards(kind, cards, 1) = FirstOf([n \in DOMAIN order |-> cards[order[n]]], 1)
      BY DEF TopKCards
    <2> HIDE DEF order, at
    <2>3. [n \in DOMAIN order |-> cards[order[n]]] = sorted
      BY <2>1
    <2> QED
      BY <2>2, <2>3
  <1>2. matches = {i} /\ Cardinality(matches) = 1
    BY FS_Singleton
  <1> HIDE DEF matches
  <1>3. ~before(i, i)
    <2>1. \A r \in Int : ~(r > r) /\ ~(r < r)
      OBVIOUS
    <2> QED
      BY <2>1
  <1> HIDE DEF before
  <1>4. ahead(i) = {}
    BY <1>2, <1>3
  <1> HIDE DEF ahead
  <1>5. place(i) = 1
    BY <1>4, FS_EmptySet
  <1> HIDE DEF place
  <1>6. at(1) = i
    <2>1. \E l \in matches : place(l) = 1
      BY <1>2, <1>5
    <2>2. at(1) \in matches
      BY <2>1
    <2> QED
      BY <1>2, <2>2
  <1> HIDE DEF at
  <1>7. sorted = [n \in 1..1 |-> cards[i]]
    <2>1. \A n \in 1..1 : n = 1
      OBVIOUS
    <2>2. \A n \in 1..1 : cards[at(n)] = cards[i]
      BY <1>6, <2>1
    <2> QED
      BY <1>2, <2>2
  <1> HIDE DEF sorted
  <1>8. sorted = <<cards[i]>>
    BY <1>7
  <1> QED
    BY <1>1, <1>8, FirstOfOne

\* The card of a scenario's drift, of the seeded cards.
LEMMA CardOfTheDrift ==
    ASSUME NEW scenario \in ScenarioId, KindOf(scenario) # NoKind
    PROVE  /\ Len(TopKCards(KindOf(scenario), PRESEED_DRIFT_CARDS, 1)) = 1
           /\ TopKCards(KindOf(scenario), PRESEED_DRIFT_CARDS, 1)[1].drift_kind = KindOf(scenario)
  <1> DEFINE i == scenario - 6
  <1>1. i \in 1..4 /\ KindOf(scenario) = DriftKinds[i]
    BY ServiceAssumption DEF KindOf
  <1> HIDE DEF i
  <1>2. PRESEED_DRIFT_CARDS[i].success_rate \in Int
    BY <1>1 DEF PRESEED_DRIFT_CARDS
  <1>3. DOMAIN PRESEED_DRIFT_CARDS = 1..4
    BY DEF PRESEED_DRIFT_CARDS
  <1>4. \A l \in 1..4 : PRESEED_DRIFT_CARDS[l].drift_kind = DriftKinds[l]
    BY DEF PRESEED_DRIFT_CARDS, DriftKinds
  <1>5. \A l, m \in 1..4 : l # m => DriftKinds[l] # DriftKinds[m]
    BY DEF DriftKinds
  <1>6. {l \in DOMAIN PRESEED_DRIFT_CARDS :
            PRESEED_DRIFT_CARDS[l].drift_kind = KindOf(scenario)} = {i}
    BY <1>1, <1>3, <1>4, <1>5
  <1>7. TopKCards(KindOf(scenario), PRESEED_DRIFT_CARDS, 1) = <<PRESEED_DRIFT_CARDS[i]>>
    BY <1>1, <1>2, <1>6, OneCardOfAKind
  <1> QED
    BY <1>1, <1>4, <1>7

Fitting(cards, scenario, acknowledged) ==
    /\ cards # <<>> <=> acknowledged
    /\ cards # <<>> => Len(cards) = 1 /\ cards[1].drift_kind = KindOf(scenario)

\* The cards of a reset, and of a step after the acknowledgement and before it.
LEMMA HintsHoldTheCard ==
    ASSUME NEW s \in Session, NEW scenario \in ScenarioId
    PROVE  /\ LearnedHints(s, scenario, FALSE).drift_cards = <<>>
           /\ KindOf(scenario) # NoKind =>
                  Fitting(LearnedHints(s, scenario, TRUE).drift_cards, scenario, TRUE)
           /\ NoHints.drift_cards = <<>>
  <1>1. \A b \in BOOLEAN : LearnedHints(s, scenario, b).drift_cards =
                            TopKCards(KindFor(scenario, b), PRESEED_DRIFT_CARDS, 1)
    BY DEF LearnedHints, Retrieve
  <1>2. KindFor(scenario, FALSE) = NoKind /\ KindFor(scenario, TRUE) = KindOf(scenario)
    BY DEF KindFor
  <1>3. LearnedHints(s, scenario, FALSE).drift_cards = <<>>
    BY <1>1, <1>2, NoCardOfNoKind
  <1>4. ASSUME KindOf(scenario) # NoKind
        PROVE  Fitting(LearnedHints(s, scenario, TRUE).drift_cards, scenario, TRUE)
    <2> DEFINE cards == LearnedHints(s, scenario, TRUE).drift_cards
    <2>1. cards = TopKCards(KindOf(scenario), PRESEED_DRIFT_CARDS, 1)
      BY <1>1, <1>2
    <2>2. Len(cards) = 1 /\ cards[1].drift_kind = KindOf(scenario)
      BY <1>4, <2>1, CardOfTheDrift
    <2> HIDE DEF cards
    <2>3. cards # <<>>
      BY <2>2
    <2>4. Fitting(cards, scenario, TRUE)
      BY <2>2, <2>3 DEF Fitting
    <2> QED
      BY <2>4 DEF cards
  <1> QED
    BY <1>3, <1>4 DEF NoHints

\* What a playing session plays is a scenario, acknowledged only if it drifts,
\* and its last observation holds the cards that go with that.
Plays(s) ==
    /\ env[s].episode.scenario \in ScenarioId
    /\ env[s].episode.acknowledged => KindOf(env[s].episode.scenario) # NoKind
    /\ Fitting(shown[s].drift_cards, env[s].episode.scenario, env[s].episode.acknowledged)

CardInv ==
    /\ DOMAIN shown = Session
    /\ \A s \in Session : Playing(s) => Plays(s)

\* Every step shows the cards that fit.
LEMMA CardStep ==
    ASSUME ServiceType, CardInv, [Next]_vars
    PROVE  CardInv'
  <1> DEFINE Held(s) == Playing(s)' => Plays(s)'
  <1>1. DOMAIN env = Session /\ DOMAIN shown = Session
    BY DEF ServiceType, CardInv
  <1>2. ASSUME NEW t \in Session, env'[t] = env[t], shown'[t] = shown[t]
        PROVE  Held(t)
    BY <1>2 DEF CardInv, Playing, Plays
  <1>3. ASSUME NEW t \in Session, ~Playing(t)' PROVE Held(t)
    BY <1>3
  <1>4. ASSUME NEW s \in Session, NEW t \in Session, SessionStep(s), t # s
        PROVE  env'[t] = env[t] /\ shown'[t] = shown[t]
    BY <1>1, <1>4 DEF SessionStep, Reset, Acknowledge, OtherStep, Win, Disconnect
  <1>5. ASSUME NEW s \in Session, SessionStep(s) PROVE DOMAIN shown' = Session /\ Held(s)
    <2>1. DOMAIN shown' = Session
      BY <1>1, <1>5 DEF SessionStep, Reset, Acknowledge, OtherStep, Win, Disconnect
    <2> SUFFICES Held(s)
      BY <2>1
    <2>2. ASSUME NEW scenario \in ScenarioId, Reset(s, scenario) PROVE Held(s)
      <3>1. env'[s].episode = [scenario |-> scenario, acknowledged |-> FALSE]
        BY <1>1, <2>2 DEF Reset, ServiceType, SessionState
      <3>2. shown'[s] = LearnedHints(s, scenario, FALSE)
        BY <1>1, <2>2 DEF Reset
      <3>3. shown'[s].drift_cards = <<>>
        BY <3>2, HintsHoldTheCard
      <3> QED
        BY <3>1, <3>3 DEF Plays, Fitting
    <2>3. CASE Acknowledge(s)
      <3>1. Playing(s) /\ Plays(s) /\ KindOf(env[s].episode.scenario) # NoKind
        BY <2>3 DEF Acknowledge, CardInv
      <3>2. /\ env'[s].episode.scenario = env[s].episode.scenario
            /\ env'[s].episode.acknowledged = TRUE
        BY <1>1, <2>3 DEF Acknowledge, ServiceType, SessionState, Episodes
      <3>3. shown'[s] = LearnedHints(s, env[s].episode.scenario, TRUE)
        BY <1>1, <2>3 DEF Acknowledge, StepHints
      <3>4. Fitting(shown'[s].drift_cards, env[s].episode.scenario, TRUE)
        BY <3>1, <3>3, HintsHoldTheCard DEF Plays
      <3> QED
        BY <3>1, <3>2, <3>4 DEF Plays, Fitting
    <2>4. CASE OtherStep(s)
      <3>1. CASE env' = env
        <4>1. ASSUME Playing(s) PROVE Plays(s)'
          <5>1. Plays(s)
            BY <4>1 DEF CardInv
          <5>2. shown'[s] = StepHints(s, env[s].episode.acknowledged)
            BY <1>1, <2>4 DEF OtherStep
          <5>3. env[s].episode.acknowledged \in BOOLEAN
            BY DEF ServiceType, SessionState, Episodes
          <5>4. CASE env[s].episode.acknowledged
            <6>1. shown'[s] = LearnedHints(s, env[s].episode.scenario, TRUE)
              BY <5>2, <5>4 DEF StepHints
            <6>2. Fitting(shown'[s].drift_cards, env[s].episode.scenario, TRUE)
              BY <5>1, <5>4, <6>1, HintsHoldTheCard DEF Plays
            <6>3. env[s].episode.acknowledged = TRUE
              BY <5>3, <5>4
            <6> QED
              BY <3>1, <5>1, <6>2, <6>3 DEF Plays
          <5>5. CASE ~env[s].episode.acknowledged
            <6>1. shown'[s] = NoHints
              BY <5>2, <5>5 DEF StepHints
            <6>2. shown'[s].drift_cards = <<>>
              BY <6>1 DEF NoHints
            <6> QED
              BY <3>1, <5>1, <5>5, <6>2 DEF Plays, Fitting
          <5> QED
            BY <5>4, <5>5
        <4>2. Playing(s)
          BY <2>4 DEF OtherStep
        <4> QED
          BY <4>1, <4>2
      <3>2. CASE env' = [env EXCEPT ![s].episode = NoEpisode]
        <4>1. env'[s].episode = NoEpisode
          BY <1>1, <3>2 DEF ServiceType, SessionState
        <4> QED
          BY <4>1 DEF Playing
      <3> QED
        BY <2>4, <3>1, <3>2 DEF OtherStep
    <2>5. CASE Disconnect(s)
      BY <1>1, <2>5 DEF Disconnect, Playing, ServiceType, SessionState
    <2>6. ASSUME NEW scenario \in ScenarioId, NEW speedup \in Speedup[scenario],
                 NEW appended \in BOOLEAN, Win(s, scenario, speedup, appended)
          PROVE  Held(s)
      BY <1>1, <2>6 DEF Win, Playing, ServiceType, SessionState
    <2> QED
      BY <1>5, <2>2, <2>3, <2>4, <2>5, <2>6 DEF SessionStep
  <1>6. ASSUME NEW p \in Process, ServerStep(p)
        PROVE  DOMAIN shown' = Session /\ \A t \in Session : Held(t)
    <2>1. CASE StartUp(p) \/ SweepRemove(p) \/ Serve(p) \/ \E s \in Session : SweepStat(p, s)
      <3>1. UNCHANGED <<env, shown>>
        BY <2>1 DEF StartUp, SweepRemove, Serve, SweepStat
      <3> QED
        BY <1>1, <1>2, <3>1
    <2>2. CASE Crash(p)
      <3>1. DOMAIN shown' = Session
        BY <2>2 DEF Crash
      <3>2. ASSUME NEW t \in Session, env'[t] # env[t] PROVE ~Playing(t)'
        BY <2>2, <3>2 DEF Crash, Playing, ServiceType, SessionState
      <3>3. ASSUME NEW t \in Session, env'[t] = env[t] PROVE Held(t)
        <4>1. CASE env'[t].status = "lost"
          BY <4>1 DEF Playing
        <4>2. CASE env'[t].status # "lost"
          BY <1>2, <2>2, <3>3, <4>2 DEF Crash
        <4> QED
          BY <4>1, <4>2
      <3> QED
        BY <1>3, <3>1, <3>2, <3>3
    <2>3. ASSUME NEW s \in Session, Connect(p, s)
          PROVE  DOMAIN shown' = Session /\ \A t \in Session : Held(t)
      <3>1. shown' = shown /\ env'[s].episode = NoEpisode
        BY <1>1, <2>3 DEF Connect
      <3>2. \A t \in Session \ {s} : env'[t] = env[t]
        BY <1>1, <2>3 DEF Connect
      <3>3. Held(s)
        BY <1>3, <3>1 DEF Playing
      <3> QED
        BY <1>1, <1>2, <3>1, <3>2, <3>3
    <2> QED
      BY <1>6, <2>1, <2>2, <2>3 DEF ServerStep
  <1>7. CASE Tick \/ UNCHANGED vars
    <2>1. UNCHANGED <<env, shown>>
      BY <1>7 DEF Tick, vars
    <2> QED
      BY <1>1, <1>2, <2>1 DEF CardInv
  <1>8. ASSUME NEW s \in Session, SessionStep(s) PROVE CardInv'
    BY <1>2, <1>4, <1>5, <1>8 DEF CardInv
  <1>9. ASSUME NEW p \in Process, ServerStep(p) PROVE CardInv'
    BY <1>6, <1>9 DEF CardInv
  <1> QED
    BY <1>7, <1>8, <1>9 DEF Next

\* Whatever the sessions play, win and acknowledge, in whatever order: a drift
\* card is shown exactly when the episode's drift is acknowledged, and it is the
\* card of that drift (_render_learned_hints, top_k_drift_cards).
THEOREM CardsAreNoSpoilers == Spec => []CardsFollowTheDrift
  <1>1. Init => CardInv
    BY DEF Init, CardInv, Playing, Unborn
  <1>2. ServiceType /\ ServiceType' /\ CardInv /\ [Next]_vars => CardInv'
    BY CardStep
  <1>3. CardInv => CardsFollowTheDrift
    BY DEF CardInv, Plays, Fitting, CardsFollowTheDrift
  <1> QED
    BY <1>1, <1>2, <1>3, FollowInvariant, PTL DEF Spec

-----------------------------------------------------------------------------
(* Retrieval: what sorting returns *)

\* R puts the elements of S in an order.
Orders(R, S) ==
    /\ \A a \in S : <<a, a>> \notin R
    /\ \A a, b \in S : a # b => <<a, b>> \in R \/ <<b, a>> \in R
    /\ \A a, b, c \in S : <<a, b>> \in R /\ <<b, c>> \in R => <<a, c>> \in R

Above(R, S, l) == {a \in S : <<a, l>> \in R}
PlaceIn(R, S, l) == 1 + Cardinality(Above(R, S, l))

\* What stands above has the smaller place, and the places are 1 to the number of
\* elements.
LEMMA PlacesInOrder ==
    ASSUME NEW S, IsFiniteSet(S), NEW R, Orders(R, S)
    PROVE  /\ \A a, b \in S : <<a, b>> \in R => PlaceIn(R, S, a) < PlaceIn(R, S, b)
           /\ \A a \in S : PlaceIn(R, S, a) \in 1..Cardinality(S)
  <1>1. ASSUME NEW l \in S PROVE IsFiniteSet(Above(R, S, l)) /\ Cardinality(Above(R, S, l)) \in Nat
    <2>1. Above(R, S, l) \in SUBSET S
      BY DEF Above
    <2> QED
      BY <2>1, FS_Subset, FS_CardinalityType
  <1>2. ASSUME NEW a \in S, NEW b \in S, <<a, b>> \in R
        PROVE  PlaceIn(R, S, a) < PlaceIn(R, S, b)
    <2>1. Above(R, S, a) \cup {a} \in SUBSET Above(R, S, b)
      BY <1>2 DEF Above, Orders
    <2>2. a \notin Above(R, S, a)
      BY DEF Above, Orders
    <2>3. Cardinality(Above(R, S, a) \cup {a}) = Cardinality(Above(R, S, a)) + 1
      BY <1>1, <2>2, FS_AddElement
    <2>4. Cardinality(Above(R, S, a) \cup {a}) <= Cardinality(Above(R, S, b))
      BY <1>1, <2>1, FS_Subset
    <2> QED
      BY <1>1, <2>3, <2>4 DEF PlaceIn
  <1>3. ASSUME NEW a \in S PROVE PlaceIn(R, S, a) \in 1..Cardinality(S)
    <2>1. Above(R, S, a) \in SUBSET (S \ {a})
      BY DEF Above, Orders
    <2>2. IsFiniteSet(S \ {a}) /\ Cardinality(S \ {a}) = Cardinality(S) - 1
      BY FS_RemoveElement
    <2>3. Cardinality(Above(R, S, a)) <= Cardinality(S \ {a})
      BY <2>1, <2>2, FS_Subset
    <2>4. Cardinality(S) \in Nat
      BY FS_CardinalityType
    <2> QED
      BY <1>1, <2>2, <2>3, <2>4 DEF PlaceIn
  <1> QED
    BY <1>2, <1>3

\* Each place is taken by one element.
LEMMA PlacesTaken ==
    ASSUME NEW S, IsFiniteSet(S), NEW R, Orders(R, S)
    PROVE  /\ \A n \in 1..Cardinality(S) : \E l \in S : PlaceIn(R, S, l) = n
           /\ \A a, b \in S : a # b => PlaceIn(R, S, a) # PlaceIn(R, S, b)
  <1> DEFINE N == Cardinality(S)
             place == [l \in S |-> PlaceIn(R, S, l)]
  <1>1. N \in Nat
    BY FS_CardinalityType
  <1>2. \A a \in S : PlaceIn(R, S, a) \in 1..N
    BY PlacesInOrder
  <1>3. \A a, b \in S : a # b => PlaceIn(R, S, a) # PlaceIn(R, S, b)
    <2> SUFFICES ASSUME NEW a \in S, NEW b \in S, a # b PROVE PlaceIn(R, S, a) # PlaceIn(R, S, b)
      OBVIOUS
    <2>1. <<a, b>> \in R \/ <<b, a>> \in R
      BY DEF Orders
    <2>2. PlaceIn(R, S, a) < PlaceIn(R, S, b) \/ PlaceIn(R, S, b) < PlaceIn(R, S, a)
      BY <2>1, PlacesInOrder
    <2> QED
      BY <1>2, <2>2
  <1>4. place \in Injection(S, 1..N)
    BY <1>2, <1>3 DEF Injection, IsInjective
  <1>5. IsFiniteSet(1..N) /\ Cardinality(1..N) = N
    BY <1>1, FS_Interval
  <1>6. place \in Surjection(S, 1..N)
    BY <1>4, <1>5, FS_Injection
  <1>7. \A n \in 1..N : \E l \in S : PlaceIn(R, S, l) = n
    BY <1>6 DEF Surjection
  <1> QED
    BY <1>3, <1>7

-----------------------------------------------------------------------------
(* Retrieval: which entries a scenario's tags call for *)

OfTwo(a, b) == {a, b}
OfThree(a, b, c) == {a, b, c}
OfFour(a, b, c, d) == {a, b, c, d}

\* Sets of two, three and four tags.
LEMMA CardOfTwo ==
    ASSUME NEW a, NEW b, a # b
    PROVE  IsFiniteSet(OfTwo(a, b)) /\ Cardinality(OfTwo(a, b)) = 2
  <1>1. IsFiniteSet({a}) /\ Cardinality({a}) = 1
    BY FS_Singleton
  <1>2. OfTwo(a, b) = {a} \cup {b}
    BY DEF OfTwo
  <1> QED
    BY <1>1, <1>2, FS_AddElement

LEMMA CardOfThree ==
    ASSUME NEW a, NEW b, NEW c, a # b, a # c, b # c
    PROVE  IsFiniteSet(OfThree(a, b, c)) /\ Cardinality(OfThree(a, b, c)) = 3
  <1>1. IsFiniteSet(OfTwo(a, b)) /\ Cardinality(OfTwo(a, b)) = 2
    BY CardOfTwo
  <1>2. OfThree(a, b, c) = OfTwo(a, b) \cup {c} /\ c \notin OfTwo(a, b)
    BY DEF OfTwo, OfThree
  <1> QED
    BY <1>1, <1>2, FS_AddElement

LEMMA CardOfFour ==
    ASSUME NEW a, NEW b, NEW c, NEW d, a # b, a # c, b # c, d # a, d # b, d # c
    PROVE  IsFiniteSet(OfFour(a, b, c, d)) /\ Cardinality(OfFour(a, b, c, d)) = 4
  <1>1. IsFiniteSet(OfThree(a, b, c)) /\ Cardinality(OfThree(a, b, c)) = 3
    BY CardOfThree
  <1>2. OfFour(a, b, c, d) = OfThree(a, b, c) \cup {d} /\ d \notin OfThree(a, b, c)
    BY DEF OfThree, OfFour
  <1> QED
    BY <1>1, <1>2, FS_AddElement

SeedTags(k) == PRESEED_PLAYBOOK[k].tags

\* A seed has two tags or three.
LEMMA SeedTagsOf ==
    ASSUME NEW k \in 1..8
    PROVE  IsFiniteSet(SeedTags(k)) /\ Cardinality(SeedTags(k)) \in 2..3
  <1>1. /\ SeedTags(1) = OfTwo("correlated_subquery", "projection_subquery")
        /\ SeedTags(2) = OfThree("select_star", "over_projection", "join")
        /\ SeedTags(3) = OfTwo("cartesian", "missing_join_condition")
        /\ SeedTags(4) = OfThree("distinct", "redundant_distinct", "group_by")
    BY DEF OfTwo, OfThree, SeedTags, PRESEED_PLAYBOOK, Preseed
  <1>2. /\ SeedTags(5) = OfTwo("nested_subquery", "in_subquery")
        /\ SeedTags(6) = OfTwo("having_as_where", "aggregate_filter")
        /\ SeedTags(7) = OfTwo("subquery", "generic")
        /\ SeedTags(8) = OfTwo("over_projection", "generic")
    BY DEF OfTwo, SeedTags, PRESEED_PLAYBOOK, Preseed
  <1> QED
    BY <1>1, <1>2, CardOfTwo, CardOfThree

Alike(A, B) == \E u, v \in A \cap B : u # v

\* Two scenarios share at most one tag.
LEMMA TagsApart ==
    ASSUME NEW n \in 1..10, NEW l \in 1..10, n # l
    PROVE  ~Alike(Tags[n], Tags[l])
  <1>1. \A i, j \in 1..10 : i < j => ~Alike(Tags[i], Tags[j])
    BY SMTT(60) DEF Alike, Tags
  <1>2. n < l \/ l < n
    OBVIOUS
  <1> QED
    BY <1>1, <1>2 DEF Alike

\* So do a scenario and a seed written for another, or for none.
LEMMA SeedsApart ==
    ASSUME NEW n \in 1..10, NEW k \in 1..8, k # n \/ n > 6
    PROVE  ~Alike(Tags[n], SeedTags(k))
  BY SMTT(60) DEF Alike, Tags, SeedTags, PRESEED_PLAYBOOK, Preseed

\* The tag a scenario's seed does not have: its domain.
Domains == <<"ecommerce", "ecommerce", "events", "saas_logs", "cms", "ecommerce">>

LEMMA SeedTagsIn ==
    ASSUME NEW n \in 1..6
    PROVE  Tags[n] = SeedTags(n) \cup {Domains[n]} /\ Domains[n] \notin SeedTags(n)
  <1>1. Tags[n] = SeedTags(n) \cup {Domains[n]}
    BY SMTT(30) DEF Domains, Tags, SeedTags, PRESEED_PLAYBOOK, Preseed
  <1>2. Domains[n] \notin SeedTags(n)
    BY SMTT(30) DEF Domains, SeedTags, PRESEED_PLAYBOOK, Preseed
  <1> QED
    BY <1>1, <1>2

\* A scenario has three tags or four, one more than its seed.
LEMMA TagsOf ==
    ASSUME NEW n \in 1..10
    PROVE  /\ IsFiniteSet(Tags[n]) /\ Cardinality(Tags[n]) \in 3..4
           /\ n <= 6 => /\ SeedTags(n) \subseteq Tags[n]
                        /\ Cardinality(SeedTags(n)) = Cardinality(Tags[n]) - 1
  <1>1. CASE n <= 6
    <2>1. n \in 1..6
      BY <1>1
    <2>2. IsFiniteSet(SeedTags(n)) /\ Cardinality(SeedTags(n)) \in 2..3
      BY <2>1, SeedTagsOf
    <2>3. Tags[n] = SeedTags(n) \cup {Domains[n]} /\ Domains[n] \notin SeedTags(n)
      BY <2>1, SeedTagsIn
    <2> QED
      BY <2>2, <2>3, FS_AddElement
  <1>2. CASE n > 6
    <2>1. /\ Tags[7] = OfThree("drift", "column_rename", "ecommerce")
          /\ Tags[8] = OfFour("drift", "date_format", "iso_to_epoch", "events")
          /\ Tags[9] = OfFour("drift", "enum_rule", "business_rule", "multitenant")
          /\ Tags[10] = OfFour("drift", "field_deprecation", "fk_backfill", "cms")
      BY DEF OfThree, OfFour, Tags
    <2> QED
      BY <1>2, <2>1, CardOfThree, CardOfFour
  <1> QED
    BY <1>1, <1>2

\* What has one tag in common, of three and two, does not qualify.
LEMMA UnalikeDoNotQualify ==
    ASSUME NEW A, IsFiniteSet(A), Cardinality(A) \in 3..4,
           NEW entry, IsFiniteSet(entry.tags), Cardinality(entry.tags) \in 2..4,
           ~Alike(A, entry.tags)
    PROVE  ~Qualifies(A, entry)
  <1> DEFINE B == entry.tags
  <1>1. Cardinality(A \cap B) \in 0..1
    <2>1. CASE A \cap B = {}
      BY <2>1, FS_EmptySet
    <2>2. CASE A \cap B # {}
      <3>1. PICK x : A \cap B = {x}
        BY <2>2 DEF Alike
      <3> QED
        BY <3>1, FS_Singleton
    <2> QED
      BY <2>1, <2>2
  <1>2. Cardinality(A \cup B) = Cardinality(A) + Cardinality(B) - Cardinality(A \cap B)
    BY FS_Union
  <1>3. A # {} /\ B # {}
    BY FS_EmptySet
  <1>4. Jaccard(A, B) = [num |-> Cardinality(A \cap B), den |-> Cardinality(A \cup B)]
    BY <1>3 DEF Jaccard
  <1>5. ~(10 * Cardinality(A \cap B) >= 3 * Cardinality(A \cup B))
    BY <1>1, <1>2
  <1> QED
    BY <1>4, <1>5 DEF Qualifies

\* The similarity of a scenario's tags with what has all of them, and with a
\* part of them.
LEMMA PartsQualify ==
    ASSUME NEW A, IsFiniteSet(A), Cardinality(A) \in 3..4,
           NEW B, IsFiniteSet(B), Cardinality(B) \in 2..4, B \subseteq A
    PROVE  Jaccard(A, B) = [num |-> Cardinality(B), den |-> Cardinality(A)]
  <1>1. A \cap B = B /\ A \cup B = A
    OBVIOUS
  <1>2. A # {} /\ B # {}
    BY FS_EmptySet
  <1> QED
    BY <1>1, <1>2 DEF Jaccard

-----------------------------------------------------------------------------
(* Hints *)

\* A session's directory holds its own wins.
OwnInv == \A s \in Session : \A i \in DOMAIN store[s].playbook : store[s].playbook[i] \in WonBy(s)

\* Every step leaves a directory with its session's wins.
LEMMA OwnStep ==
    ASSUME ServiceType, OwnInv, [Next]_vars
    PROVE  OwnInv'
  <1> SUFFICES ASSUME NEW s \in Session, NEW i \in DOMAIN store'[s].playbook
               PROVE  store'[s].playbook[i] \in WonBy(s)
    BY DEF OwnInv, WonBy, EntryOf
  <1>1. store[s].playbook \in Seq(Won)
    BY DEF ServiceType, Directory
  <1>2. \A l \in DOMAIN store[s].playbook : store[s].playbook[l] \in WonBy(s)
    BY DEF OwnInv
  <1>3. \/ store'[s] = store[s]
        \/ store'[s] = NoDir
        \/ \E entry \in WonBy(s) : store'[s] = AppendTo(store[s], entry)
    <2>1. ASSUME NEW p \in Process, ServerStep(p)
          PROVE  store'[s] = store[s] \/ store'[s] = NoDir
      BY <2>1, ServerMoves
    <2>2. ASSUME NEW t \in Session, SessionStep(t)
          PROVE  \/ store'[s] = store[s]
                 \/ store'[s] = NoDir
                 \/ \E entry \in WonBy(s) : store'[s] = AppendTo(store[s], entry)
      <3>1. \/ store' = store
            \/ store' = [store EXCEPT ![t] = NoDir]
            \/ \E entry \in WonBy(t) : store' = [store EXCEPT ![t] = AppendTo(store[t], entry)]
        BY <2>2, SessionMoves
      <3> QED
        BY <3>1 DEF ServiceType
    <2>3. CASE Tick \/ UNCHANGED vars
      BY <2>3 DEF Tick, vars
    <2> QED
      BY <2>1, <2>2, <2>3 DEF Next
  <1>4. CASE store'[s] = store[s]
    BY <1>2, <1>4
  <1>5. CASE store'[s] = NoDir
    BY <1>5 DEF NoDir
  <1>6. ASSUME NEW entry \in WonBy(s), store'[s] = AppendTo(store[s], entry)
        PROVE  store'[s].playbook[i] \in WonBy(s)
    <2>1. store'[s].playbook = Append(store[s].playbook, entry)
      BY <1>6 DEF AppendTo
    <2>2. i \in 1..(Len(store[s].playbook) + 1)
      BY <1>1, <2>1
    <2> QED
      BY <1>1, <1>2, <2>1, <2>2
  <1> QED
    BY <1>3, <1>4, <1>5, <1>6

LEMMA OwnInvariant == Spec => [](ServiceType /\ OwnInv)
  <1>1. Init => OwnInv
    BY DEF Init, OwnInv, NoDir
  <1>2. ServiceType /\ OwnInv /\ [Next]_vars => OwnInv'
    BY OwnStep
  <1> QED
    BY <1>1, <1>2, FollowInvariant, PTL DEF Spec

\* The elements of a concatenation.
LEMMA Joined ==
    ASSUME NEW S, NEW a \in Seq(S), NEW b \in Seq(S)
    PROVE  /\ Len(a) \in Nat /\ Len(b) \in Nat
           /\ DOMAIN (a \o b) = 1..(Len(a) + Len(b))
           /\ \A k \in 1..Len(a) : (a \o b)[k] = a[k]
           /\ \A i \in 1..Len(b) : (a \o b)[Len(a) + i] = b[i]
  <1>1. a \o b \in Seq(S) /\ Len(a \o b) = Len(a) + Len(b)
    OBVIOUS
  <1>2. DOMAIN (a \o b) = 1..(Len(a) + Len(b))
    BY <1>1
  <1>3. \A k \in 1..Len(a) : (a \o b)[k] = a[k]
    OBVIOUS
  <1>4. \A i \in 1..Len(b) : (a \o b)[Len(a) + i] = b[i]
    OBVIOUS
  <1> QED
    BY <1>2, <1>3, <1>4

\* What retrieval ranks: the seeds, then the session's entries.
LEMMA LoadedAre ==
    ASSUME NEW S, NEW learned \in Seq(S)
    PROVE  /\ Len(learned) \in Nat /\ DOMAIN learned = 1..Len(learned)
           /\ DOMAIN LoadAll(learned) = 1..(8 + Len(learned))
           /\ \A k \in 1..8 : LoadAll(learned)[k] = PRESEED_PLAYBOOK[k]
           /\ \A i \in 1..Len(learned) : LoadAll(learned)[8 + i] = learned[i]
  <1> DEFINE seeds == PRESEED_PLAYBOOK
             Entries == S \cup {seeds[k] : k \in 1..8}
  <1>1. seeds \in Seq({seeds[k] : k \in 1..8}) /\ Len(seeds) = 8
    BY DEF PRESEED_PLAYBOOK
  <1> HIDE DEF seeds
  <1>2. seeds \in Seq(Entries) /\ learned \in Seq(Entries)
    BY <1>1
  <1> HIDE DEF Entries
  <1>3. LoadAll(learned) = seeds \o learned
    BY DEF LoadAll, seeds
  <1>4. /\ Len(learned) \in Nat /\ DOMAIN learned = 1..Len(learned)
        /\ DOMAIN LoadAll(learned) = 1..(8 + Len(learned))
        /\ \A k \in 1..8 : LoadAll(learned)[k] = seeds[k]
        /\ \A i \in 1..Len(learned) : LoadAll(learned)[8 + i] = learned[i]
    <2>1. DOMAIN learned = 1..Len(learned)
      OBVIOUS
    <2>2. /\ Len(learned) \in Nat
          /\ DOMAIN (seeds \o learned) = 1..(Len(seeds) + Len(learned))
          /\ \A k \in 1..Len(seeds) : (seeds \o learned)[k] = seeds[k]
          /\ \A i \in 1..Len(learned) : (seeds \o learned)[Len(seeds) + i] = learned[i]
      BY <1>2, Joined
    <2> QED
      BY <1>1, <1>3, <2>1, <2>2
  <1> QED
    BY <1>4 DEF seeds

LoadedOf(s) == LoadAll(store[s].playbook)
OwnOf(s, n) == {i \in DOMAIN store[s].playbook : store[s].playbook[i].scenario = n}
MatchesOf(s, n) == {i \in DOMAIN LoadedOf(s) : Qualifies(Tags[n], LoadedOf(s)[i])}
MineOf(s, n) == {k \in MatchesOf(s, n) : k > 8}
RankOf(s, n) == {d \in MatchesOf(s, n) \X MatchesOf(s, n) :
                    RanksAbove(Tags[n], LoadedOf(s), d[1], d[2])}

\* An entry a session won.
LEMMA WonAre ==
    ASSUME NEW s \in Session, NEW entry \in WonBy(s)
    PROVE  /\ entry.scenario \in ScenarioId /\ entry.tags = Tags[entry.scenario]
           /\ entry.speedup \in Nat /\ entry.before = BeforeOf[entry.scenario]
           /\ entry.source = "learned" /\ entry.by = s
  <1>1. PICK n \in ScenarioId, speedup \in Nat : entry = EntryOf(s, n, speedup)
    BY DEF WonBy
  <1> QED
    BY <1>1 DEF EntryOf

\* What qualifies for a scenario: its own seed, if it is static, and its own wins.
LEMMA WhatQualifies ==
    ASSUME ServiceType, OwnInv, NEW s \in Session, NEW n \in ScenarioId
    PROVE  /\ DOMAIN LoadedOf(s) = 1..(8 + Len(store[s].playbook))
           /\ Len(store[s].playbook) \in Nat
           /\ \A k \in 1..8 : LoadedOf(s)[k] = PRESEED_PLAYBOOK[k]
           /\ \A k \in 1..8 : k \in MatchesOf(s, n) <=> k = n /\ n <= 6
           /\ \A i \in 1..Len(store[s].playbook) :
                  /\ LoadedOf(s)[8 + i] = store[s].playbook[i]
                  /\ 8 + i \in MatchesOf(s, n) <=> i \in OwnOf(s, n)
  <1> DEFINE learned == store[s].playbook
  <1>1. learned \in Seq(Won) /\ \A i \in DOMAIN learned : learned[i] \in WonBy(s)
    BY DEF ServiceType, Directory, OwnInv
  <1>2. /\ Len(learned) \in Nat /\ DOMAIN learned = 1..Len(learned)
        /\ DOMAIN LoadedOf(s) = 1..(8 + Len(learned))
        /\ \A k \in 1..8 : LoadedOf(s)[k] = PRESEED_PLAYBOOK[k]
        /\ \A i \in 1..Len(learned) : LoadedOf(s)[8 + i] = learned[i]
    BY <1>1, LoadedAre DEF LoadedOf
  <1>3. n \in 1..10 /\ IsFiniteSet(Tags[n]) /\ Cardinality(Tags[n]) \in 3..4
    BY ServiceAssumption, TagsOf
  <1>4. ASSUME NEW k \in 1..8 PROVE k \in MatchesOf(s, n) <=> k = n /\ n <= 6
    <2>1. k \in MatchesOf(s, n) <=> Qualifies(Tags[n], PRESEED_PLAYBOOK[k])
      BY <1>2 DEF MatchesOf
    <2>2. IsFiniteSet(PRESEED_PLAYBOOK[k].tags) /\ Cardinality(PRESEED_PLAYBOOK[k].tags) \in 2..4
      BY SeedTagsOf DEF SeedTags
    <2>3. CASE k = n /\ n <= 6
      <3>1. /\ PRESEED_PLAYBOOK[n].tags \subseteq Tags[n]
            /\ Cardinality(PRESEED_PLAYBOOK[n].tags) = Cardinality(Tags[n]) - 1
        BY <1>3, <2>3, TagsOf DEF SeedTags
      <3>2. Jaccard(Tags[n], PRESEED_PLAYBOOK[n].tags) =
                [num |-> Cardinality(Tags[n]) - 1, den |-> Cardinality(Tags[n])]
        BY <1>3, <2>2, <2>3, <3>1, PartsQualify
      <3>3. 10 * (Cardinality(Tags[n]) - 1) >= 3 * Cardinality(Tags[n])
        BY <1>3
      <3>4. Qualifies(Tags[n], PRESEED_PLAYBOOK[n])
        BY <3>2, <3>3 DEF Qualifies
      <3> QED
        BY <2>1, <2>3, <3>4
    <2>4. CASE k # n \/ n > 6
      <3>1. ~Alike(Tags[n], PRESEED_PLAYBOOK[k].tags)
        BY <1>3, <2>4, SeedsApart DEF SeedTags
      <3>2. ~Qualifies(Tags[n], PRESEED_PLAYBOOK[k])
        BY <1>3, <2>2, <3>1, UnalikeDoNotQualify
      <3> QED
        BY <1>3, <2>1, <2>4, <3>2
    <2> QED
      BY <1>3, <2>3, <2>4
  <1>5. ASSUME NEW i \in 1..Len(learned) PROVE 8 + i \in MatchesOf(s, n) <=> i \in OwnOf(s, n)
    <2> DEFINE entry == learned[i]
    <2>1. 8 + i \in MatchesOf(s, n) <=> Qualifies(Tags[n], entry)
      BY <1>2 DEF MatchesOf
    <2>2. i \in OwnOf(s, n) <=> entry.scenario = n
      BY <1>2 DEF OwnOf
    <2>3. entry.scenario \in ScenarioId /\ entry.tags = Tags[entry.scenario]
      BY <1>1, <1>2, WonAre
    <2> HIDE DEF entry
    <2>4. /\ entry.scenario \in 1..10 /\ IsFiniteSet(entry.tags)
          /\ Cardinality(entry.tags) \in 2..4
      <3>1. entry.scenario \in 1..10
        BY <2>3, ServiceAssumption
      <3>2. IsFiniteSet(Tags[entry.scenario]) /\ Cardinality(Tags[entry.scenario]) \in 3..4
        BY <3>1, TagsOf
      <3> QED
        BY <2>3, <3>1, <3>2
    <2>5. CASE entry.scenario = n
      <3>1. Jaccard(Tags[n], entry.tags) =
                [num |-> Cardinality(Tags[n]), den |-> Cardinality(Tags[n])]
        BY <1>3, <2>3, <2>4, <2>5, PartsQualify
      <3>2. 10 * Cardinality(Tags[n]) >= 3 * Cardinality(Tags[n])
        BY <1>3
      <3>3. Qualifies(Tags[n], entry)
        BY <3>1, <3>2 DEF Qualifies
      <3> QED
        BY <2>1, <2>2, <2>5, <3>3
    <2>6. CASE entry.scenario # n
      <3>1. ~Alike(Tags[n], entry.tags)
        BY <1>3, <2>3, <2>4, <2>6, TagsApart
      <3>2. ~Qualifies(Tags[n], entry)
        BY <1>3, <2>4, <3>1, UnalikeDoNotQualify
      <3> QED
        BY <2>1, <2>2, <2>6, <3>2
    <2> QED
      BY <2>5, <2>6
  <1> QED
    BY <1>2, <1>4, <1>5

\* The entries that qualify.
LEMMA MatchesAre ==
    ASSUME ServiceType, OwnInv, NEW s \in Session, NEW n \in ScenarioId,
           NEW k \in MatchesOf(s, n)
    PROVE  /\ k \in Nat /\ k \in 1..(8 + Len(store[s].playbook))
           /\ k > 8 => /\ LoadedOf(s)[k].tags = Tags[n] /\ LoadedOf(s)[k].speedup \in Nat
                       /\ LoadedOf(s)[k].before = BeforeOf[n]
                       /\ LoadedOf(s)[k].source = "learned"
                       /\ LoadedOf(s)[k].by = s /\ LoadedOf(s)[k].scenario = n
                       /\ k - 8 \in OwnOf(s, n) /\ LoadedOf(s)[k] = store[s].playbook[k - 8]
           /\ k <= 8 => k = n /\ n <= 6 /\ LoadedOf(s)[k] = PRESEED_PLAYBOOK[n]
  <1>1. Len(store[s].playbook) \in Nat /\ k \in 1..(8 + Len(store[s].playbook))
    BY WhatQualifies DEF MatchesOf
  <1>2. CASE k > 8
    <2> DEFINE i == k - 8
    <2>1. i \in 1..Len(store[s].playbook) /\ k = 8 + i
      BY <1>1, <1>2
    <2> HIDE DEF i
    <2>2. LoadedOf(s)[k] = store[s].playbook[i] /\ i \in OwnOf(s, n)
      BY <2>1, WhatQualifies
    <2>3. store[s].playbook[i].scenario = n /\ store[s].playbook[i] \in WonBy(s)
      BY <2>2 DEF OwnOf, OwnInv
    <2>4. LET entry == store[s].playbook[i]
          IN  /\ entry.tags = Tags[n] /\ entry.speedup \in Nat /\ entry.before = BeforeOf[n]
              /\ entry.source = "learned" /\ entry.by = s
      BY <2>3, WonAre
    <2> QED
      BY <1>1, <1>2, <2>2, <2>3, <2>4 DEF i
  <1>3. CASE k <= 8
    <2>1. k \in 1..8
      BY <1>1, <1>3
    <2> QED
      BY <1>1, <1>3, <2>1, WhatQualifies
  <1> QED
    BY <1>1, <1>2, <1>3

\* How they rank: the wins by their speedup and then by their age, the seed last.
LEMMA HowRanked ==
    ASSUME ServiceType, OwnInv, NEW s \in Session, NEW n \in ScenarioId,
           NEW k \in MatchesOf(s, n), NEW l \in MatchesOf(s, n)
    PROVE  /\ k > 8 /\ l > 8 =>
                  (<<k, l>> \in RankOf(s, n) <=>
                      \/ LoadedOf(s)[k].speedup > LoadedOf(s)[l].speedup
                      \/ LoadedOf(s)[k].speedup = LoadedOf(s)[l].speedup /\ k < l)
           /\ k > 8 /\ l <= 8 => <<k, l>> \in RankOf(s, n)
           /\ k <= 8 => <<k, l>> \notin RankOf(s, n)
  <1> DEFINE a == LoadedOf(s)[k]
             b == LoadedOf(s)[l]
             c == Cardinality(Tags[n])
             full == [num |-> c, den |-> c]
             part == [num |-> c - 1, den |-> c]
  <1>1. n \in 1..10 /\ IsFiniteSet(Tags[n]) /\ c \in 3..4
    BY ServiceAssumption, TagsOf
  <1>2. <<k, l>> \in RankOf(s, n) <=> RanksAbove(Tags[n], LoadedOf(s), k, l)
    BY DEF RankOf
  <1>3. BeforeOf[n] \in Nat
    BY <1>1 DEF BeforeOf
  <1>4. ASSUME NEW m \in MatchesOf(s, n)
        PROVE  Jaccard(Tags[n], LoadedOf(s)[m].tags) = IF m > 8 THEN full ELSE part
    <2>1. CASE m > 8
      <3>1. LoadedOf(s)[m].tags = Tags[n]
        BY <2>1, MatchesAre
      <3>2. Jaccard(Tags[n], Tags[n]) = full
        BY <1>1, PartsQualify
      <3> QED
        BY <2>1, <3>1, <3>2
    <2>2. CASE ~(m > 8)
      <3>1. n <= 6 /\ LoadedOf(s)[m].tags = SeedTags(n)
        BY <2>2, MatchesAre DEF SeedTags
      <3>2. n \in 1..8
        BY <1>1, <3>1
      <3>3. IsFiniteSet(SeedTags(n)) /\ Cardinality(SeedTags(n)) \in 2..4
        BY <3>2, SeedTagsOf
      <3>4. SeedTags(n) \subseteq Tags[n] /\ Cardinality(SeedTags(n)) = c - 1
        BY <1>1, <3>1, TagsOf
      <3>5. Jaccard(Tags[n], SeedTags(n)) = part
        BY <1>1, <3>3, <3>4, PartsQualify
      <3> QED
        BY <2>2, <3>1, <3>5
    <2> QED
      BY <2>1, <2>2
  <1>5. /\ Jaccard(Tags[n], a.tags) = IF k > 8 THEN full ELSE part
        /\ Jaccard(Tags[n], b.tags) = IF l > 8 THEN full ELSE part
    BY <1>4
  <1>6. Exceeds(full, part) /\ ~Exceeds(part, full) /\ ~Exceeds(full, full) /\ ~Exceeds(part, part)
    <2>1. c = 3 \/ c = 4
      BY <1>1
    <2> HIDE DEF c
    <2> QED
      BY <2>1 DEF Exceeds
  <1> DEFINE j == Jaccard(Tags[n], a.tags)
             m == Jaccard(Tags[n], b.tags)
  <1>7. RanksAbove(Tags[n], LoadedOf(s), k, l) <=>
            \/ Exceeds(j, m)
            \/ /\ ~Exceeds(m, j)
               /\ \/ a.speedup > b.speedup
                  \/ a.speedup = b.speedup /\ a.before < b.before
                  \/ a.speedup = b.speedup /\ a.before = b.before /\ k < l
    BY DEF RanksAbove
  <1>8. k \in Nat /\ l \in Nat
    BY MatchesAre
  <1>9. /\ k > 8 => a.before = BeforeOf[n] /\ a.speedup \in Nat
        /\ l > 8 => b.before = BeforeOf[n] /\ b.speedup \in Nat
    BY MatchesAre
  <1>10. k <= 8 /\ l <= 8 => k = l /\ a = b /\ a = PRESEED_PLAYBOOK[n] /\ n <= 6
    BY MatchesAre
  <1> HIDE DEF full, part, j, m, a, b
  <1>11. CASE k > 8 /\ l > 8
    <2>1. ~Exceeds(j, m) /\ ~Exceeds(m, j)
      BY <1>5, <1>6, <1>11 DEF j, m
    <2>2. a.before = b.before /\ ~(a.before < b.before)
      BY <1>3, <1>9, <1>11
    <2>3. RanksAbove(Tags[n], LoadedOf(s), k, l) <=>
              a.speedup > b.speedup \/ (a.speedup = b.speedup /\ k < l)
      BY <1>7, <2>1, <2>2, Zenon
    <2>4. RanksAbove(Tags[n], LoadedOf(s), k, l) <=>
              \/ LoadedOf(s)[k].speedup > LoadedOf(s)[l].speedup
              \/ LoadedOf(s)[k].speedup = LoadedOf(s)[l].speedup /\ k < l
      BY <2>3, Zenon DEF a, b
    <2>5. ~(k <= 8) /\ ~(l <= 8)
      BY <1>8, <1>11
    <2> QED
      BY <1>2, <2>4, <2>5, Zenon
  <1>12. CASE k > 8 /\ l <= 8
    <2>1. Exceeds(j, m)
      BY <1>5, <1>6, <1>8, <1>12 DEF j, m
    <2> QED
      BY <1>2, <1>7, <1>8, <1>12, <2>1
  <1>13. CASE k <= 8
    <2>1. CASE l > 8
      <3>1. ~Exceeds(j, m) /\ Exceeds(m, j)
        BY <1>5, <1>6, <1>8, <1>13, <2>1 DEF j, m
      <3> QED
        BY <1>2, <1>7, <1>8, <1>13, <3>1
    <2>2. CASE l <= 8
      <3>1. ~Exceeds(j, m)
        BY <1>5, <1>6, <1>8, <1>13, <2>2 DEF j, m
      <3>2. a.speedup \in Nat /\ a.before \in Nat
        <4>1. n \in 1..6
          BY <1>1, <1>10, <1>13, <2>2
        <4>2. PRESEED_PLAYBOOK[n].speedup \in Nat /\ PRESEED_PLAYBOOK[n].before \in Nat
          BY <4>1 DEF PRESEED_PLAYBOOK, Preseed
        <4> QED
          BY <1>10, <1>13, <2>2, <4>2
      <3>3. a = b /\ k = l
        BY <1>10, <1>13, <2>2
      <3> QED
        BY <1>2, <1>7, <1>8, <1>13, <3>1, <3>2, <3>3
    <2> QED
      BY <1>8, <2>1, <2>2
  <1> QED
    BY <1>8, <1>11, <1>12, <1>13

\* The wins come first, the seed after all of them.
LEMMA MatchesOrdered ==
    ASSUME ServiceType, OwnInv, NEW s \in Session, NEW n \in ScenarioId
    PROVE  IsFiniteSet(MatchesOf(s, n)) /\ Orders(RankOf(s, n), MatchesOf(s, n))
  <1> DEFINE M == MatchesOf(s, n)
             R == RankOf(s, n)
             speed(k) == LoadedOf(s)[k].speedup
  <1>1. IsFiniteSet(M)
    <2> DEFINE len == 8 + Len(store[s].playbook)
    <2>1. M \in SUBSET (1..len) /\ len \in Nat
      BY WhatQualifies DEF MatchesOf
    <2> HIDE DEF len
    <2>2. IsFiniteSet(1..len)
      BY <2>1, FS_Interval
    <2> QED
      BY <2>1, <2>2, FS_Subset
  <1>2. \A k \in M : /\ k \in Nat
                     /\ k > 8 => speed(k) \in Nat
                     /\ k <= 8 => k = n
    BY MatchesAre
  <1>3. \A k, l \in M :
            /\ k > 8 /\ l > 8 =>
                   (<<k, l>> \in R <=> \/ speed(k) > speed(l)
                                       \/ speed(k) = speed(l) /\ k < l)
            /\ k > 8 /\ l <= 8 => <<k, l>> \in R
            /\ k <= 8 => <<k, l>> \notin R
    BY HowRanked
  <1> HIDE DEF M, R, speed
  <1>4. \A a \in M : <<a, a>> \notin R
    BY <1>2, <1>3
  <1>5. \A a, b \in M : a # b => <<a, b>> \in R \/ <<b, a>> \in R
    BY <1>2, <1>3
  <1>6. \A a, b, c \in M : <<a, b>> \in R /\ <<b, c>> \in R => <<a, c>> \in R
    BY <1>2, <1>3
  <1>7. Orders(R, M)
    BY <1>4, <1>5, <1>6 DEF Orders
  <1> QED
    BY <1>1, <1>7 DEF M, R

\* How many there are, and where the seed stands.
LEMMA MatchesCounted ==
    ASSUME ServiceType, OwnInv, NEW s \in Session, NEW n \in ScenarioId
    PROVE  LET c == Cardinality(OwnOf(s, n))
           IN  /\ c \in Nat
               /\ Cardinality(MatchesOf(s, n)) = IF n <= 6 THEN c + 1 ELSE c
               /\ \A k \in MatchesOf(s, n) :
                      k > 8 <=> PlaceIn(RankOf(s, n), MatchesOf(s, n), k) <= c
  <1> DEFINE M == MatchesOf(s, n)
             R == RankOf(s, n)
             own == OwnOf(s, n)
             mine == MineOf(s, n)
             c == Cardinality(own)
             shift == [i \in own |-> 8 + i]
  <1>1. IsFiniteSet(M) /\ IsFiniteSet(mine) /\ Cardinality(mine) \in Nat
    <2>1. mine \in SUBSET M
      BY DEF MineOf
    <2> QED
      BY <2>1, MatchesOrdered, FS_Subset, FS_CardinalityType
  <1>2. own \subseteq 1..Len(store[s].playbook) /\ Len(store[s].playbook) \in Nat
    <2>1. store[s].playbook \in Seq(Won)
      BY DEF ServiceType, Directory
    <2> QED
      BY <2>1 DEF OwnOf
  <1>3. \A i \in own : 8 + i \in mine
    BY <1>2, WhatQualifies DEF MineOf
  <1>4. \A k \in mine : k \in Nat /\ k - 8 \in own
    BY MatchesAre DEF MineOf
  <1>5. shift \in Surjection(own, mine) /\ shift \in Injection(own, mine)
    <2>1. shift \in [own -> mine]
      BY <1>3
    <2>2. \A i, j \in own : i # j => shift[i] # shift[j]
      BY <1>2
    <2>3. \A k \in mine : \E i \in own : shift[i] = k
      <3> SUFFICES ASSUME NEW k \in mine PROVE \E i \in own : shift[i] = k
        OBVIOUS
      <3>1. k - 8 \in own /\ k \in Nat
        BY <1>4
      <3>2. shift[k - 8] = k
        BY <3>1
      <3> QED
        BY <3>1, <3>2
    <2> QED
      BY <2>1, <2>2, <2>3 DEF Surjection, Injection, IsInjective
  <1> HIDE DEF shift
  <1>6. c \in Nat /\ Cardinality(mine) = c
    <2>1. IsFiniteSet(own) /\ Cardinality(own) <= Cardinality(mine)
          /\ (Cardinality(own) = Cardinality(mine) <=> shift \in Surjection(own, mine))
      BY <1>1, <1>5, FS_Injection
    <2> QED
      BY <1>5, <2>1, FS_CardinalityType
  <1>7. Cardinality(M) = IF n <= 6 THEN c + 1 ELSE c
    <2>1. n \in 1..10
      BY ServiceAssumption
    <2>2. CASE n <= 6
      <3>1. n \in M /\ n \notin mine
        BY <2>1, <2>2, WhatQualifies DEF MineOf
      <3>2. M = mine \cup {n}
        <4>1. \A k \in M : k \in mine \/ k = n
          BY MatchesAre DEF MineOf
        <4> QED
          BY <3>1, <4>1 DEF MineOf
      <3> QED
        BY <1>1, <1>6, <2>2, <3>1, <3>2, FS_AddElement
    <2>3. CASE n > 6
      <3>1. M = mine
        BY <2>1, <2>3, MatchesAre DEF MineOf
      <3> QED
        BY <1>6, <2>1, <2>3, <3>1
    <2> QED
      BY <2>1, <2>2, <2>3
  <1>8. ASSUME NEW k \in M PROVE k > 8 <=> PlaceIn(R, M, k) <= c
    <2>1. k \in Nat
      BY MatchesAre
    <2>2. CASE k > 8
      <3>1. Above(R, M, k) \in SUBSET (mine \ {k})
        <4>1. <<k, k>> \notin R
          BY MatchesOrdered DEF Orders
        <4>2. \A l \in M : l <= 8 => <<l, k>> \notin R
          BY HowRanked
        <4>3. \A l \in M : l \in Nat
          BY MatchesAre
        <4> QED
          BY <4>1, <4>2, <4>3 DEF Above, MineOf
      <3>2. k \in mine
        BY <2>2 DEF MineOf
      <3>3. IsFiniteSet(mine \ {k}) /\ Cardinality(mine \ {k}) = c - 1
        BY <1>1, <1>6, <3>2, FS_RemoveElement
      <3>4. Cardinality(Above(R, M, k)) <= c - 1 /\ Cardinality(Above(R, M, k)) \in Nat
        BY <3>1, <3>3, FS_Subset, FS_CardinalityType
      <3> QED
        BY <1>6, <2>2, <3>4 DEF PlaceIn
    <2>3. CASE k <= 8
      <3>1. Above(R, M, k) = mine
        <4>1. \A l \in M : l > 8 => <<l, k>> \in R
          BY <2>3, HowRanked
        <4>2. \A l \in M : l <= 8 => <<l, k>> \notin R
          BY HowRanked
        <4>3. \A l \in M : l \in Nat
          BY MatchesAre
        <4> QED
          BY <4>1, <4>2, <4>3 DEF Above, MineOf
      <3> QED
        BY <1>6, <2>1, <2>3, <3>1 DEF PlaceIn
    <2> QED
      BY <2>1, <2>2, <2>3
  <1> QED
    BY <1>6, <1>7, <1>8

OrderOf(s, n) ==
    InOrder(MatchesOf(s, n), LAMBDA i, l : RanksAbove(Tags[n], LoadedOf(s), i, l))

\* What the sort puts n-th has place n.
LEMMA OrderedAre ==
    ASSUME ServiceType, OwnInv, NEW s \in Session, NEW n \in ScenarioId,
           NEW i \in 1..Cardinality(MatchesOf(s, n))
    PROVE  /\ OrderOf(s, n)[i] \in MatchesOf(s, n)
           /\ PlaceIn(RankOf(s, n), MatchesOf(s, n), OrderOf(s, n)[i]) = i
  <1> DEFINE M == MatchesOf(s, n)
             above(l) == {k \in M : RanksAbove(Tags[n], LoadedOf(s), k, l)}
             place(l) == 1 + Cardinality(above(l))
  <1>1. OrderOf(s, n)[i] = CHOOSE l \in M : place(l) = i
    BY DEF OrderOf, InOrder
  <1>2. \A l \in M : place(l) = PlaceIn(RankOf(s, n), M, l)
    <2> SUFFICES ASSUME NEW l \in M PROVE above(l) = Above(RankOf(s, n), M, l)
      BY DEF PlaceIn
    <2> QED
      BY DEF Above, RankOf
  <1>3. \E l \in M : PlaceIn(RankOf(s, n), M, l) = i
    BY MatchesOrdered, PlacesTaken
  <1> HIDE DEF place, M
  <1>4. \E l \in M : place(l) = i
    BY <1>2, <1>3
  <1>5. OrderOf(s, n)[i] \in M /\ place(OrderOf(s, n)[i]) = i
    BY <1>1, <1>4
  <1> QED
    BY <1>2, <1>5 DEF M

\* The hints are the first three.
LEMMA HintsAre ==
    ASSUME ServiceType, OwnInv, NEW s \in Session, NEW n \in ScenarioId
    PROVE  LET N == Cardinality(MatchesOf(s, n))
           IN  LearnedHints(s, n, FALSE).playbook =
                   [i \in 1..(IF N < 3 THEN N ELSE 3) |-> LoadedOf(s)[OrderOf(s, n)[i]]]
  <1> DEFINE N == Cardinality(MatchesOf(s, n))
             order == OrderOf(s, n)
             len == IF N < 3 THEN N ELSE 3
             top == FirstOf(order, 3)
  <1>1. N \in Nat
    BY MatchesOrdered, FS_CardinalityType
  <1>2. order = [i \in 1..N |-> order[i]] /\ \A i \in 1..N : order[i] \in MatchesOf(s, n)
    <2>1. order = [i \in 1..N |-> order[i]]
      BY DEF OrderOf, InOrder
    <2> QED
      BY <2>1, OrderedAre
  <1> HIDE DEF order
  <1>3. TopK(Tags[n], LoadedOf(s), 3) = top
    BY DEF TopK, order, OrderOf, MatchesOf
  <1>4. top = [i \in 1..len |-> order[i]]
    <2>1. order \in Seq(MatchesOf(s, n)) /\ Len(order) = N
      BY <1>1, <1>2
    <2>2. top = SubSeq(order, 1, len)
      BY <2>1 DEF FirstOf
    <2>3. len \in Nat /\ len <= N
      BY <1>1
    <2> HIDE DEF len, top
    <2> QED
      BY <2>1, <2>2, <2>3
  <1>5. LearnedHints(s, n, FALSE).playbook =
            [i \in DOMAIN TopK(Tags[n], LoadedOf(s), 3) |->
                LoadedOf(s)[TopK(Tags[n], LoadedOf(s), 3)[i]]]
    BY DEF LearnedHints, Retrieve, LoadedOf, StoreOf
  <1> HIDE DEF top, len, N
  <1>6. LearnedHints(s, n, FALSE).playbook = [i \in 1..len |-> LoadedOf(s)[order[i]]]
    <2>1. LearnedHints(s, n, FALSE).playbook = [i \in DOMAIN top |-> LoadedOf(s)[top[i]]]
      BY <1>3, <1>5
    <2>2. DOMAIN top = 1..len /\ \A i \in 1..len : top[i] = order[i]
      BY <1>4
    <2> QED
      BY <2>1, <2>2
  <1> QED
    BY <1>6 DEF order, len, N

\* What the order of the matches makes of the hints.
LEMMA FittingHints ==
    ASSUME ServiceType, OwnInv
    PROVE  HintsFit
  <1> SUFFICES ASSUME NEW s \in Session, NEW scenario \in ScenarioId
      PROVE  LET own == OwnOf(s, scenario)
                 hints == LearnedHints(s, scenario, FALSE).playbook
                 learned == {i \in DOMAIN hints : hints[i].source = "learned"}
             IN  /\ Cardinality(learned) = IF Cardinality(own) < 3 THEN Cardinality(own) ELSE 3
                 /\ \A i \in learned : hints[i].scenario = scenario /\ hints[i].by = s
                 /\ own # {} => \A i \in own : hints[1].speedup >= store[s].playbook[i].speedup
                 /\ \A i \in DOMAIN hints : hints[i].source = "preseed" =>
                        scenario <= 6 /\ hints[i] = PRESEED_PLAYBOOK[scenario]
                 /\ scenario <= 6 /\ Cardinality(own) < 3 => Len(hints) = Cardinality(own) + 1
    BY DEF HintsFit, OwnOf
  <1> DEFINE own == OwnOf(s, scenario)
             hints == LearnedHints(s, scenario, FALSE).playbook
             learned == {i \in DOMAIN hints : hints[i].source = "learned"}
             M == MatchesOf(s, scenario)
             R == RankOf(s, scenario)
             order == OrderOf(s, scenario)
             c == Cardinality(own)
             N == Cardinality(M)
             len == IF N < 3 THEN N ELSE 3
             few == IF c < 3 THEN c ELSE 3
  <1>1. c \in Nat /\ N = IF scenario <= 6 THEN c + 1 ELSE c
    BY MatchesCounted
  <1>2. scenario \in 1..10
    BY ServiceAssumption
  <1>3. len \in Nat /\ few \in Nat /\ few <= len /\ len <= N /\ few <= c
        /\ \A i \in 1..len : i <= c <=> i <= few
    BY <1>1, <1>2
  <1>4. hints = [i \in 1..len |-> LoadedOf(s)[order[i]]]
    BY HintsAre
  <1>5. DOMAIN hints = 1..len /\ \A i \in 1..len : hints[i] = LoadedOf(s)[order[i]]
    BY <1>4
  <1>6. ASSUME NEW i \in 1..len
        PROVE  order[i] \in M /\ order[i] \in Nat /\ (order[i] > 8 <=> i <= few)
               /\ PlaceIn(R, M, order[i]) = i
    <2>1. i \in 1..N
      BY <1>1, <1>2, <1>3
    <2>2. order[i] \in M /\ PlaceIn(R, M, order[i]) = i
      BY <2>1, OrderedAre
    <2>3. order[i] \in Nat
      BY <2>2, MatchesAre
    <2>4. order[i] > 8 <=> i <= c
      BY <2>2, MatchesCounted
    <2> QED
      BY <1>3, <2>2, <2>3, <2>4
  <1>7. \A i \in 1..len :
            /\ i <= few => /\ hints[i].source = "learned"
                           /\ hints[i].scenario = scenario /\ hints[i].by = s
            /\ ~(i <= few) => /\ scenario <= 6 /\ hints[i] = PRESEED_PLAYBOOK[scenario]
                              /\ hints[i].source = "preseed"
    <2> SUFFICES ASSUME NEW i \in 1..len
                 PROVE  /\ i <= few => /\ hints[i].source = "learned"
                                       /\ hints[i].scenario = scenario /\ hints[i].by = s
                        /\ ~(i <= few) => /\ scenario <= 6
                                          /\ hints[i] = PRESEED_PLAYBOOK[scenario]
                                          /\ hints[i].source = "preseed"
      OBVIOUS
    <2>1. order[i] \in M /\ order[i] \in Nat /\ (order[i] > 8 <=> i <= few)
          /\ hints[i] = LoadedOf(s)[order[i]]
      BY <1>5, <1>6
    <2>2. CASE i <= few
      <3>1. /\ LoadedOf(s)[order[i]].source = "learned" /\ LoadedOf(s)[order[i]].by = s
            /\ LoadedOf(s)[order[i]].scenario = scenario
        BY <2>1, <2>2, MatchesAre
      <3> QED
        BY <2>1, <2>2, <3>1
    <2>3. CASE ~(i <= few)
      <3>1. scenario <= 6 /\ LoadedOf(s)[order[i]] = PRESEED_PLAYBOOK[scenario]
        BY <2>1, <2>3, MatchesAre
      <3>2. PRESEED_PLAYBOOK[scenario].source = "preseed"
        <4>1. scenario \in 1..6
          BY <1>2, <3>1
        <4> QED
          BY <4>1 DEF PRESEED_PLAYBOOK, Preseed
      <3> QED
        BY <2>1, <2>3, <3>1, <3>2
    <2> QED
      BY <2>2, <2>3
  <1>8. learned = 1..few
    <2> HIDE DEF hints, len, few
    <2> QED
      BY <1>3, <1>5, <1>7
  <1>9. Cardinality(learned) = few
    <2> HIDE DEF learned, few
    <2> QED
      BY <1>3, <1>8, FS_Interval
  <1>10. \A i \in learned : hints[i].scenario = scenario /\ hints[i].by = s
    <2> HIDE DEF learned, hints, len, few
    <2> QED
      BY <1>3, <1>7, <1>8
  <1>11. ASSUME NEW l \in own PROVE hints[1].speedup >= store[s].playbook[l].speedup
    <2>1. /\ 8 + l \in M /\ LoadedOf(s)[8 + l] = store[s].playbook[l] /\ l \in Nat
          /\ l \in 1..Len(store[s].playbook)
      <3>1. store[s].playbook \in Seq(Won)
        BY DEF ServiceType, Directory
      <3>2. l \in 1..Len(store[s].playbook)
        BY <3>1 DEF OwnOf
      <3> QED
        BY <3>2, WhatQualifies
    <2>2. 1 \in 1..len /\ 1 <= few
      <3>1. IsFiniteSet(M) /\ N \in Nat
        BY MatchesOrdered, FS_CardinalityType
      <3>2. c # 0
        <4>1. PlaceIn(R, M, 8 + l) <= c
          BY <2>1, MatchesCounted
        <4>2. PlaceIn(R, M, 8 + l) \in 1..N
          BY <2>1, MatchesOrdered, PlacesInOrder
        <4> QED
          BY <1>1, <1>2, <4>1, <4>2
      <3> QED
        BY <1>1, <1>2, <3>2
    <2>3. order[1] \in M /\ order[1] > 8 /\ PlaceIn(R, M, order[1]) = 1
          /\ hints[1] = LoadedOf(s)[order[1]]
      BY <1>5, <1>6, <2>2
    <2>4. <<8 + l, order[1]>> \notin R
      <3>1. PlaceIn(R, M, 8 + l) \in 1..N
        BY <2>1, MatchesOrdered, PlacesInOrder
      <3>2. ~(PlaceIn(R, M, 8 + l) < 1)
        BY <1>1, <1>2, <3>1
      <3> QED
        BY <2>1, <2>3, <3>2, MatchesOrdered, PlacesInOrder
    <2>5. LoadedOf(s)[8 + l].speedup \in Nat /\ LoadedOf(s)[order[1]].speedup \in Nat
      BY <2>1, <2>3, MatchesAre
    <2>6. ~(LoadedOf(s)[8 + l].speedup > LoadedOf(s)[order[1]].speedup)
      BY <2>1, <2>3, <2>4, HowRanked
    <2> DEFINE first == hints[1].speedup
               other == store[s].playbook[l].speedup
    <2>7. first \in Nat /\ other \in Nat /\ ~(other > first)
      BY <2>1, <2>3, <2>5, <2>6
    <2> HIDE DEF first, other
    <2>8. first >= other
      BY <2>7
    <2> QED
      BY <2>8 DEF first, other
  <1>12. \A i \in DOMAIN hints : hints[i].source = "preseed" =>
             scenario <= 6 /\ hints[i] = PRESEED_PLAYBOOK[scenario]
    <2> HIDE DEF hints, len, few
    <2> QED
      BY <1>5, <1>7
  <1>13. scenario <= 6 /\ c < 3 => Len(hints) = c + 1
    <2>1. ASSUME scenario <= 6, c < 3 PROVE len = c + 1
      BY <1>1, <1>2, <2>1
    <2> HIDE DEF hints, len, c
    <2>2. len \in Nat => Len(hints) = len
      BY <1>4
    <2> QED
      BY <1>3, <2>1, <2>2
  <1> QED
    BY <1>9, <1>10, <1>11, <1>12, <1>13

\* Whatever sessions, processes, sweeps and crashes do to the directories: what a
\* reset of any scenario would show is the session's best wins in that scenario,
\* then the scenario's own seed (top_k_playbook over load_all).
THEOREM HintsAreFitting == Spec => []HintsFit
  <1>1. ServiceType /\ OwnInv => HintsFit
    BY FittingHints
  <1> QED
    BY <1>1, OwnInvariant, PTL
=============================================================================
