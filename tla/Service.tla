------------------------------ MODULE Service ------------------------------
(***************************************************************************)
(* server/app.py and the environment's skill-library wiring: one           *)
(* environment and one store directory per WebSocket session, hints in the *)
(* observations, directories removed on close and by the start-up sweep.   *)
(*                                                                         *)
(* Server processes share the root of the session directories.  A process  *)
(* sweeps it while server.app is imported, before it accepts sessions, but *)
(* possibly while sessions of another process are live.  The episode is    *)
(* Episode's; here it is its scenario and whether the agent has            *)
(* acknowledged a drift.  Appends are SkillStore's; here they are atomic   *)
(* and succeed or fail.  A directory's mtime is that of its last append.   *)
(***************************************************************************)
EXTENDS Library

CONSTANTS
    Session,        \* WebSocket sessions (a stateless HTTP call is one too)
    Process,        \* server processes on one store root
    ScenarioId,     \* scenarios played, a subset of 1..10
    Speedup,        \* per scenario, the speedups measured, in thousandths
    TTL,            \* SKILL_STORE_SESSION_TTL_HOURS; 0 disables the sweep
    Capacity,       \* MAX_CONCURRENT_ENVS
    MaxClock,       \* bound: hours that pass
    MaxWins,        \* bound: entries in all directories, and of one session
    MaxCrashes      \* bound: crashes

ASSUME ServiceAssumption ==
    /\ ScenarioId \subseteq 1..10
    /\ \A scenario \in ScenarioId : Speedup[scenario] \subseteq Nat
    /\ {TTL, Capacity, MaxClock, MaxWins, MaxCrashes} \subseteq Nat

VARIABLES
    env,        \* per session: where its environment is and what it plays
    store,      \* per session: its directory under the root
    shown,      \* per session: the hints of the last observation
    server,     \* per process: down, sweeping or serving
    now,        \* the clock, in hours
    wins,       \* ghost: what each open session appended since its directory
                \* was last swept
    crashes     \* bound

vars == <<env, store, shown, server, now, wins, crashes>>

NoProcess == "no process"
NoSession == "no session"
NoEpisode == [scenario |-> 0, acknowledged |-> FALSE]
NoHints == [playbook |-> <<>>, drift_cards |-> <<>>]
NoDir == [exists |-> FALSE, mtime |-> 0, playbook |-> <<>>]

Unborn == [status |-> "none", process |-> NoProcess, episode |-> NoEpisode]
Down == [status |-> "down", cutoff |-> 0, todo |-> {}, stale |-> NoSession]

\* No session is mistaken for the value that stands for none.
ASSUME SentinelAssumption == NoSession \notin Session

-----------------------------------------------------------------------------
(* Start-up: cleanup_stale_session_dirs while server.app is imported *)

Dirs == {s \in Session : store[s].exists}

\* session_dir.stat().st_mtime < cutoff.
OlderThan(dir, cutoff) == dir.exists /\ dir.mtime < cutoff

\* The cutoff is computed, and the root listed, once.
StartUp(p) ==
    /\ server[p].status = "down"
    /\ server' = [server EXCEPT ![p] =
                    [status |-> "sweeping", cutoff |-> now - TTL,
                     todo |-> IF TTL = 0 THEN {} ELSE Dirs, stale |-> NoSession]]
    /\ UNCHANGED <<env, store, shown, now, wins, crashes>>

\* Mutant: a directory that is gone aborts the sweep.
RemainingAborts(p, s) == IF store[s].exists THEN server[p].todo \ {s} ELSE {}

\* A directory removed since it was listed is skipped.
Remaining(p, s) == server[p].todo \ {s}

\* One directory of the list is looked at.
SweepStat(p, s) ==
    /\ server[p].status = "sweeping" /\ server[p].stale = NoSession
    /\ s \in server[p].todo
    /\ server' = [server EXCEPT ![p].todo = Remaining(p, s),
                                ![p].stale = IF OlderThan(store[s], server[p].cutoff)
                                             THEN s ELSE NoSession]
    /\ UNCHANGED <<env, store, shown, now, wins, crashes>>

\* The directory found stale is removed, whatever it holds by now.
SweepRemove(p) ==
    /\ server[p].status = "sweeping" /\ server[p].stale # NoSession
    /\ store' = [store EXCEPT ![server[p].stale] = NoDir]
    /\ wins' = [wins EXCEPT ![server[p].stale] = <<>>]
    /\ server' = [server EXCEPT ![p].stale = NoSession]
    /\ UNCHANGED <<env, shown, now, crashes>>

\* create_app: the process accepts sessions from here on.
Serve(p) ==
    /\ server[p].status = "sweeping" /\ server[p].todo = {} /\ server[p].stale = NoSession
    /\ server' = [server EXCEPT ![p].status = "serving"]
    /\ UNCHANGED <<env, store, shown, now, wins, crashes>>

\* The process dies with its sessions; their directories stay.
Crash(p) ==
    /\ server[p].status # "down" /\ crashes < MaxCrashes
    /\ crashes' = crashes + 1
    /\ server' = [server EXCEPT ![p] = Down]
    /\ env' = [s \in Session |->
                 IF env[s].status = "open" /\ env[s].process = p
                 THEN [env[s] EXCEPT !.status = "lost", !.episode = NoEpisode]
                 ELSE env[s]]
    /\ shown' = [s \in Session |-> IF env'[s].status = "lost" THEN NoHints ELSE shown[s]]
    /\ wins' = [s \in Session |-> IF env'[s].status = "lost" THEN <<>> ELSE wins[s]]
    /\ UNCHANGED <<store, now>>

-----------------------------------------------------------------------------
(* A session *)

OpenAt(p) == {s \in Session : env[s].status = "open" /\ env[s].process = p}

\* _create_server_environment: uuid4 names are never reused, the store makes its
\* directory at the first append.
Connect(p, s) ==
    /\ server[p].status = "serving" /\ Cardinality(OpenAt(p)) < Capacity
    /\ env[s].status = "none"
    /\ env' = [env EXCEPT ![s] = [status |-> "open", process |-> p, episode |-> NoEpisode]]
    /\ UNCHANGED <<store, shown, server, now, wins, crashes>>

\* Mutant: every session uses DEFAULT_STORE_DIR.
StoreOfShared(s) == CHOOSE any \in Session : TRUE

\* session_dir: one directory for each session.
StoreOf(s) == s

\* Mutant: the kind of the drift is passed on in every case.
KindForAlways(scenario, include_drift_cards) == KindOf(scenario)

\* drift_kind of _render_learned_hints.
KindFor(scenario, include_drift_cards) ==
    IF include_drift_cards THEN KindOf(scenario) ELSE NoKind

\* _render_learned_hints.
LearnedHints(s, scenario, include_drift_cards) ==
    Retrieve(Tags[scenario], KindFor(scenario, include_drift_cards),
             LoadAll(store[StoreOf(s)].playbook), PRESEED_DRIFT_CARDS)

\* reset(): hints without drift cards, unless the caller gives its own.
Reset(s, scenario) ==
    /\ env[s].status = "open"
    /\ env' = [env EXCEPT ![s].episode = [scenario |-> scenario, acknowledged |-> FALSE]]
    /\ shown' = [shown EXCEPT ![s] = LearnedHints(s, scenario, FALSE)]
    /\ UNCHANGED <<store, server, now, wins, crashes>>

Playing(s) == env[s].status = "open" /\ env[s].episode # NoEpisode

\* The hints of a step's observation.
StepHints(s, acknowledged) ==
    IF acknowledged THEN LearnedHints(s, env[s].episode.scenario, TRUE) ELSE NoHints

\* A read_changelog after the drift.
Acknowledge(s) ==
    /\ Playing(s) /\ KindOf(env[s].episode.scenario) # NoKind
    /\ env' = [env EXCEPT ![s].episode.acknowledged = TRUE]
    /\ shown' = [shown EXCEPT ![s] = StepHints(s, TRUE)]
    /\ UNCHANGED <<store, server, now, wins, crashes>>

\* Any other step; an unsuccessful last one too.
OtherStep(s) ==
    /\ Playing(s)
    /\ shown' = [shown EXCEPT ![s] = StepHints(s, env[s].episode.acknowledged)]
    /\ env' \in {env, [env EXCEPT ![s].episode = NoEpisode]}
    /\ UNCHANGED <<store, server, now, wins, crashes>>

\* The entry of _maybe_persist_learned_entry; by and scenario are ghosts.
EntryOf(s, scenario, speedup) ==
    [tags |-> Tags[scenario], speedup |-> speedup, before |-> BeforeOf[scenario],
     source |-> "learned", by |-> s, scenario |-> scenario]

\* Mutant: an append that finds the directory writes a new file.
AppendToTruncates(dir, entry) ==
    [exists |-> TRUE, mtime |-> now, playbook |-> <<entry>>]

\* _locked_append makes the directory again when it is gone.
AppendTo(dir, entry) ==
    [exists |-> TRUE, mtime |-> now, playbook |-> Append(dir.playbook, entry)]

\* An accepted submission with r_correct = 1: the observation is made, then the
\* entry is appended; a failed append is logged and forgotten.
Win(s, scenario, speedup, appended) ==
    LET entry == EntryOf(s, scenario, speedup)
        d == StoreOf(s)
    IN  /\ Playing(s) /\ env[s].episode.scenario = scenario
        /\ shown' = [shown EXCEPT ![s] = StepHints(s, env[s].episode.acknowledged)]
        /\ env' = [env EXCEPT ![s].episode = NoEpisode]
        /\ IF appended
           THEN /\ FoldSet(LAMBDA t, n : Len(store[t].playbook) + n, 0, Session) < MaxWins
                /\ Len(wins[s]) < MaxWins
                /\ store' = [store EXCEPT ![d] = AppendTo(@, entry)]
                /\ wins' = [wins EXCEPT ![s] = Append(@, entry)]
           ELSE UNCHANGED <<store, wins>>
        /\ UNCHANGED <<server, now, crashes>>

\* Mutant: close() leaves the directory.
RemovedOnCloseNever(d) == store

\* close() with cleanup_on_close.
RemovedOnClose(d) == [store EXCEPT ![d] = NoDir]

Disconnect(s) ==
    /\ env[s].status = "open"
    /\ env' = [env EXCEPT ![s].status = "closed", ![s].episode = NoEpisode]
    /\ shown' = [shown EXCEPT ![s] = NoHints]
    /\ store' = RemovedOnClose(StoreOf(s))
    /\ wins' = [wins EXCEPT ![s] = <<>>]
    /\ UNCHANGED <<server, now, crashes>>

Tick ==
    /\ now < MaxClock
    /\ now' = now + 1
    /\ UNCHANGED <<env, store, shown, server, wins, crashes>>

-----------------------------------------------------------------------------
(* The specification *)

Init ==
    /\ env = [s \in Session |-> Unborn]
    /\ store = [s \in Session |-> NoDir]
    /\ shown = [s \in Session |-> NoHints]
    /\ server = [p \in Process |-> Down]
    /\ now = TTL
    /\ wins = [s \in Session |-> <<>>]
    /\ crashes = 0

ServerStep(p) ==
    \/ StartUp(p) \/ SweepRemove(p) \/ Serve(p) \/ Crash(p)
    \/ \E s \in Session : SweepStat(p, s) \/ Connect(p, s)

SessionStep(s) ==
    \/ \E scenario \in ScenarioId : Reset(s, scenario)
    \/ Acknowledge(s) \/ OtherStep(s) \/ Disconnect(s)
    \/ \E scenario \in ScenarioId : \E speedup \in Speedup[scenario], appended \in BOOLEAN :
           Win(s, scenario, speedup, appended)

Next ==
    \/ \E p \in Process : ServerStep(p)
    \/ \E s \in Session : SessionStep(s)
    \/ Tick

Spec == Init /\ [][Next]_vars

-----------------------------------------------------------------------------
(* Properties *)

\* What a reset of any scenario would show now: first the session's best win in
\* that very scenario, besides the seeds only wins of that scenario and never
\* those of another session, at most three, and a static scenario's own seed
\* unless three wins crowd it out (top_k_playbook over load_all).
HintsFit ==
    \A s \in Session, scenario \in ScenarioId :
        LET own == {i \in DOMAIN store[s].playbook : store[s].playbook[i].scenario = scenario}
            hints == LearnedHints(s, scenario, FALSE).playbook
            learned == {i \in DOMAIN hints : hints[i].source = "learned"}
        IN  /\ Cardinality(learned) = IF Cardinality(own) < 3 THEN Cardinality(own) ELSE 3
            /\ \A i \in learned : hints[i].scenario = scenario /\ hints[i].by = s
            /\ own # {} => \A i \in own : hints[1].speedup >= store[s].playbook[i].speedup
            /\ \A i \in DOMAIN hints : hints[i].source = "preseed" =>
                   scenario <= 6 /\ hints[i] = PRESEED_PLAYBOOK[scenario]
            /\ scenario <= 6 /\ Cardinality(own) < 3 => Len(hints) = Cardinality(own) + 1

\* A drift card is shown exactly when the episode's drift is acknowledged, and
\* it is the card of that drift: a reset does not give away what is to come, and
\* a session that moves on to another scenario takes no card along.
CardsFollowTheDrift ==
    \A s \in Session : Playing(s) =>
        LET cards == shown[s].drift_cards
        IN  /\ cards # <<>> <=> env[s].episode.acknowledged
            /\ cards # <<>> => Len(cards) = 1
                               /\ cards[1].drift_kind = KindOf(env[s].episode.scenario)

\* A process that begins to serve has left no directory older than its cutoff,
\* whatever other processes and sessions did during its sweep.
SweepIsThorough ==
    [][\A p \in Process :
          server[p].status = "sweeping" /\ server'[p].status = "serving" /\ TTL > 0
          => \A s \in Session : ~OlderThan(store[s], server[p].cutoff)]_vars

\* A live session's wins are in its directory, complete and in order, also when
\* it was swept under the session in between: the directory is then made anew
\* and nothing but the sweep takes entries away.  And a directory belongs to an
\* open session or to one a crash cut off before its close could remove it: disk
\* use is bounded by the sessions (_locked_append, close,
\* cleanup_stale_session_dirs).
StoresFollowSessions ==
    \A s \in Session :
        /\ env[s].status = "open" => store[s].playbook = wins[s]
        /\ store[s].exists => env[s].status \in {"open", "lost"}
=============================================================================
