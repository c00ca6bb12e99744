------------------------------- MODULE Events -------------------------------
(***************************************************************************)
(* The AG-UI events, reduced to what the two verifiers, the chunk           *)
(* normalizer and the event sink tell apart (crates/ag-ui/src/event/).      *)
(*                                                                         *)
(* The three streamed families have the same four events, so one record    *)
(* shape with a `kind` stands for TEXT_MESSAGE_*, TOOL_CALL_* (CONTENT is   *)
(* TOOL_CALL_ARGS) and REASONING_MESSAGE_*; kind "block" is the             *)
(* REASONING_START / REASONING_END bracket around reasoning messages.       *)
(* Payload text, roles and names are left out.                              *)
(***************************************************************************)
CONSTANTS
    Ids,            \* message ids, tool-call ids and activity ids
    Subagents,      \* subagent run ids
    StepNames,
    None            \* an absent `subagentRunId` or id

\* Who opened an entity: a subagent, or the parent agent.
Owner == Subagents \cup {None}

\* Not recorded, not open.
Absent == <<"absent">>

ChunkKinds == {"text", "tool", "reasoning"}
Kinds == ChunkKinds \cup {"block"}

\* The four ownership buckets: a reasoning block and the message in it share one.
Buckets == {"message", "reasoning", "call", "activity"}
BucketOf(kind) == CASE kind = "text" -> "message"
                    [] kind = "tool" -> "call"
                    [] OTHER -> "reasoning"

Owners == [Buckets -> [Ids -> Owner \cup {Absent}]]
NoOwners == [b \in Buckets |-> [i \in Ids |-> Absent]]

ASSUME EventsAssumption ==
    /\ None \notin Subagents \cup Ids
    /\ Absent \notin Owner

-----------------------------------------------------------------------------
(* Events *)

\* `history` is the replayed conversation an input echo or a
\* MESSAGES_SNAPSHOT carries, by the owners its messages and calls name.
RunStarted(history) == [type |-> "RUN_STARTED", history |-> history]
RunFinished == [type |-> "RUN_FINISHED"]
RunError == [type |-> "RUN_ERROR"]
MessagesSnapshot(history) == [type |-> "MESSAGES_SNAPSHOT", history |-> history]

Start(k, i, g) == [type |-> "START", kind |-> k, id |-> i, tag |-> g, parent |-> None]
Content(k, i, g) == [type |-> "CONTENT", kind |-> k, id |-> i, tag |-> g]
End(k, i, g) == [type |-> "END", kind |-> k, id |-> i, tag |-> g]

\* A TOOL_CALL_START that names the message carrying the call.
StartUnder(p, i, g) == [Start("tool", i, g) EXCEPT !.parent = p]

\* A chunk may name no id; `named` is whether a tool chunk names its tool.
Chunk(k, i, g) == [type |-> "CHUNK", kind |-> k, id |-> i, tag |-> g,
                   parent |-> None, named |-> TRUE]
Anonymous(chunk) == [chunk EXCEPT !.named = FALSE]

ToolResult(m, c, g) == [type |-> "TOOL_CALL_RESULT", id |-> m, call |-> c, tag |-> g]
ActivitySnapshot(i, g, r) ==
    [type |-> "ACTIVITY_SNAPSHOT", id |-> i, tag |-> g, replace |-> r]
ActivityDelta(i, g) == [type |-> "ACTIVITY_DELTA", id |-> i, tag |-> g]
\* REASONING_ENCRYPTED_VALUE: `subtype` is "tool-call" or "message".
Encrypted(s, i, g) == [type |-> "ENCRYPTED", subtype |-> s, id |-> i, tag |-> g]
StepStarted(n, g) == [type |-> "STEP_STARTED", name |-> n, tag |-> g]
StepFinished(n, g) == [type |-> "STEP_FINISHED", name |-> n, tag |-> g]
SubagentStarted(s, p) == [type |-> "SUBAGENT_STARTED", id |-> s, parent |-> p]
SubagentFinished(s) == [type |-> "SUBAGENT_FINISHED", id |-> s]
SubagentError(s) == [type |-> "SUBAGENT_ERROR", id |-> s]

\* STATE_SNAPSHOT, and STATE_DELTA with an RFC 6902 patch.
StateSnapshot(v) == [type |-> "STATE_SNAPSHOT", state |-> v]
StateDelta(p) == [type |-> "STATE_DELTA", patch |-> p]

\* RAW and CUSTOM.
Custom(g) == [type |-> "CUSTOM", tag |-> g]

\* EventType::is_attributable: who carries the optional tag.
Attributable(e) == "tag" \in DOMAIN e

\* An absent tag agrees with any owner.
Agrees(tag, owner) == tag = None \/ tag = owner

=============================================================================
