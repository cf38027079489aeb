-------------------------------- MODULE Wire --------------------------------
(***************************************************************************)
(* models.py and client.py: the tool calls an agent may send, the results  *)
(* it may get, and what happens to an observation between the server and   *)
(* the agent.  The data-model library validates; here is what it accepts.  *)
(*                                                                         *)
(* Of an argument only its size matters.                                   *)
(***************************************************************************)
EXTENDS Integers, FiniteSets

ToolName == {"list_tables", "describe_table", "sample_rows", "run_query",
             "explain_query", "read_changelog", "submit_rewrite", "consult_dba"}

EpisodePhase == {"diagnose", "rewrite", "drift_recovery", "finalize"}

ToolErrorCode == {"unknown_table", "invalid_tool_argument", "query_timeout",
                  "db_error", "result_too_large", "submit_before_diagnose"}

-----------------------------------------------------------------------------
(* Requests *)

\* A text by its length, a limit by its value: below, within or above the bounds.
Size == {"below", "fits", "above"}

\* The argument of a kind of payload; each kind has one but sample_rows.
Argument(kind) ==
    IF kind \in {"describe_table", "sample_rows"} THEN {"table"}
    ELSE IF kind \in {"run_query", "explain_query", "submit_rewrite"} THEN {"sql"}
    ELSE IF kind = "consult_dba" THEN {"question"} ELSE {}

\* The limit of sample_rows has a default.
Defaulted(kind) == IF kind = "sample_rows" THEN {"limit"} ELSE {}

\* A payload: every field it needs, no field of another kind, all in bounds.
PayloadValid(p) ==
    /\ p.kind \in ToolName
    /\ Argument(p.kind) \subseteq DOMAIN p.args
    /\ DOMAIN p.args \subseteq Argument(p.kind) \cup Defaulted(p.kind)
    /\ \A field \in DOMAIN p.args : p.args[field] = "fits"

TOOL_TO_PAYLOAD_KIND == [tool \in ToolName |-> tool]

\* SqlDriftAction validates: the tool, the payload, and that they agree.
ActionValid(m) ==
    /\ m.tool \in ToolName
    /\ PayloadValid(m.payload)
    /\ m.payload.kind = TOOL_TO_PAYLOAD_KIND[m.tool]

\* The factories action_*: one per tool, with the kind filled in.
Action(tool, args) == [tool |-> tool, payload |-> [kind |-> tool, args |-> args]]

\* What a caller of a factory may pass.
Arguments(tool) == [Argument(tool) \cup Defaulted(tool) -> Size]

-----------------------------------------------------------------------------
(* Results and observations *)

\* The kind of the result of a call that ended with this code.
ResultKind(tool, code) == IF code \in ToolErrorCode THEN "tool_error" ELSE tool

\* Only one kind of result says whether it was accepted.
SaysAccepted(kind) == kind = "submit_rewrite"

\* The server's message: reward and done travel beside the observation.
Served(obs) ==
    [observation |-> [f \in DOMAIN obs \ {"reward", "done"} |-> obs[f]],
     reward |-> obs.reward, done |-> obs.done]

\* model_validate on a dict without them: the defaults of Observation.
Validated(dict) ==
    [f \in DOMAIN dict \cup {"reward", "done"} |->
        IF f = "reward" THEN 0 ELSE IF f = "done" THEN FALSE ELSE dict[f]]

\* Mutant: the observation is used as it validates.
ParsedBare(msg) == Validated(msg.observation)

\* _parse_result puts them back.
Parsed(msg) ==
    [Validated(msg.observation) EXCEPT !.reward = msg.reward, !.done = msg.done]
=============================================================================
