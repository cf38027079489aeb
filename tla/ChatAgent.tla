----------------------------- MODULE ChatAgent ------------------------------
(***************************************************************************)
(* The chat agents: LLMAgent of training/llm_agent.py and ApiEpisodeAgent  *)
(* of utilities/verbose_api_rollout.py.  What a prompt tells the model of  *)
(* the episode (training/prompt.py), which turns it still holds, and what  *)
(* becomes of a completion.                                                *)
(*                                                                         *)
(* Of a message its role is kept, whether a user message says "Drift has   *)
(* fired.", and whether an assistant message is a valid action.            *)
(***************************************************************************)
EXTENDS Integers, Sequences, Wire

CONSTANT HistoryTurns     \* history_turns, below 1 taken for 1

ASSUME HistoryTurnsAssumption == HistoryTurns \in Int

Turns == IF HistoryTurns < 1 THEN 1 ELSE HistoryTurns

-----------------------------------------------------------------------------
(* The system prompt *)

PHASE_NUDGES == [diagnose |-> "do not submit yet", rewrite |-> "draft and submit",
                 drift_recovery |-> "read the changelog", finalize |-> "nothing helps"]

\* _render_tool_catalog.
Catalog(dbaEnabled) == IF dbaEnabled THEN ToolName ELSE ToolName \ {"consult_dba"}

NoPrompt == [written |-> FALSE]

\* render_system_prompt and _TOOL_CONTRACT, which lists all tools.
SystemPrompt(phase, budget, fired) ==
    [written |-> TRUE, nudge |-> PHASE_NUDGES[phase], budget |-> budget,
     says_drift |-> fired, catalog |-> Catalog(FALSE), contract |-> ToolName]

\* The system prompt is written for the first observation and kept.
PromptKept(system, prompt) == IF system.written THEN system ELSE prompt

-----------------------------------------------------------------------------
(* Completions *)

Envelope ==
    UNION {{[tool |-> tool, payload |-> [kind |-> kind, args |-> args]] :
               args \in Arguments(kind)} : tool, kind \in ToolName}

\* The first text in braces: none, an action, or something else - an action in
\* whose SQL there are braces too, since _JSON_OBJECT_RE sees two levels only.
Completion == [braces : {"none", "action", "other"}, envelope : Envelope]

\* _parse_completion_as_action.
ParseCompletion(c) ==
    IF c.braces = "action" /\ ActionValid(c.envelope)
    THEN [tool |-> c.envelope.tool, parsed_ok |-> TRUE]
    ELSE [tool |-> "list_tables", parsed_ok |-> FALSE]

\* What act() can make of whatever the model answers.
Replies == {ParseCompletion(c) : c \in Completion}

-----------------------------------------------------------------------------
(* The history *)

Message == [role : {"user", "assistant"}, says_drift : BOOLEAN, parses : BOOLEAN]

User(saysDrift) == [role |-> "user", says_drift |-> saysDrift, parses |-> TRUE]

\* Mutant: the raw completion is recorded, also when it is no action.
RecordedRaw(parsed) == [role |-> "assistant", says_drift |-> FALSE, parses |-> parsed]

\* A completion that is no action is recorded as the list_tables it becomes.
Recorded(parsed) == [role |-> "assistant", says_drift |-> FALSE, parses |-> TRUE]

\* _most_recent_user_mentions_drift: TRUE if the last user message does NOT.
RecentUserSilent(history) ==
    \A i \in DOMAIN history :
        history[i].role = "user"
        /\ (\A j \in DOMAIN history : history[j].role = "user" => j <= i)
        => ~history[i].says_drift

\* LLMAgent._render_user_message: announced in every other message.
UserMessage(history, fired) == User(fired /\ RecentUserSilent(history))

\* ApiEpisodeAgent._history_mentions_drift, of the last user message as well.
HistoryMentionsDrift(history) ==
    \E i \in DOMAIN history :
        /\ history[i].role = "user" /\ history[i].says_drift
        /\ \A j \in DOMAIN history : history[j].role = "user" => j <= i

\* ApiEpisodeAgent._render_user_message.
ApiUserMessage(history, fired) == User(fired /\ ~HistoryMentionsDrift(history))

MessageOf(agent, history, fired) ==
    IF agent = "api" THEN ApiUserMessage(history, fired) ELSE UserMessage(history, fired)

\* Mutant: the oldest message goes, not the oldest turn.
TrimmedOdd(history) ==
    IF Len(history) > 2 * Turns THEN SubSeq(history, 2, Len(history)) ELSE history

\* _trim_history.
Trimmed(history) ==
    IF Len(history) > 2 * Turns
    THEN SubSeq(history, Len(history) - 2 * Turns + 1, Len(history))
    ELSE history

\* The history after a turn of act().
AfterTurn(agent, history, fired, parsed) ==
    Trimmed(history \o <<MessageOf(agent, history, fired), Recorded(parsed)>>)

-----------------------------------------------------------------------------
(* What the prompts promise *)

\* The context holds whole turns, at most Turns of them, each a user message
\* and the action that answered it.
WholeTurns(history) ==
    /\ Len(history) <= 2 * Turns /\ Len(history) % 2 = 0
    /\ \A i \in DOMAIN history :
           history[i].role = (IF i % 2 = 1 THEN "user" ELSE "assistant")
    /\ \A i \in DOMAIN history : history[i].parses

\* The messages of the prompt that answers an observation say that the drift has
\* fired, the last one or one the context still holds, if it has, and not
\* otherwise; the system prompt, which stays, does not say so.
TellsDrift(agent, system, history, fired) ==
    LET messages == Append(history, MessageOf(agent, history, fired))
    IN  /\ (\E i \in DOMAIN messages : messages[i].says_drift) <=> fired
        /\ system.written => ~system.says_drift
=============================================================================
