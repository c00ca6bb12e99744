------------------------------- MODULE Applier -------------------------------
(***************************************************************************)
(* The client's applier (crates/ag-ui/src/client/apply.rs): folds events    *)
(* into the conversation, the reasoning and the subagents, and assigns      *)
(* owners of its own while it does.  As operators over its state `a`;       *)
(* Apply(a, e) is what `apply` returns and the state it leaves behind.      *)
(*                                                                         *)
(* Text, arguments and content are reduced to whether any arrived.  by_id   *)
(* and reasoning_by_id are read off the sequences they index; tool_calls,   *)
(* which an event can leave behind the messages, is `carrier`.  Metadata,   *)
(* names and the THINKING_* family, which has no attribution, are left out. *)
(***************************************************************************)
EXTENDS Events, Integers, Sequences, SequencesExt

\* A message of the conversation, or a reasoning message beside it.  Roles that
\* only differ in who speaks are "user".
Message(i, role, g) ==
    [id |-> i, role |-> role, owner |-> g, written |-> FALSE, signed |-> FALSE,
     calls |-> <<>>, answers |-> None]
ToolCall(c) == [id |-> c, written |-> FALSE, signed |-> FALSE]

NewApplier == [state |-> None, messages |-> <<>>, carrier |-> [c \in Ids |-> 0],
               openText |-> <<>>,
               reasoning |-> <<>>, openReasoning |-> {}, reasoningStreams |-> <<>>,
               subagents |-> <<>>]

Applied(a) == [ok |-> TRUE, applier |-> a]
Failed(a) == [ok |-> FALSE, applier |-> a]

\* A MESSAGES_SNAPSHOT by its messages, with the history the verifiers read in it:
\* the owner of every message and of every call a message carries.
BucketOfRole(role) == CASE role = "activity" -> "activity"
                        [] role = "reasoning" -> "reasoning"
                        [] OTHER -> "message"
Carries(m, c) == \E k \in DOMAIN m.calls : m.calls[k].id = c
Naming(m, b, i) == IF b = "call" THEN Carries(m, i) ELSE m.id = i /\ BucketOfRole(m.role) = b
LastNaming(messages, b, i) == SelectLastInSeq(messages, LAMBDA m : Naming(m, b, i))
HistoryOf(messages) ==
    [b \in Buckets |-> [i \in Ids |->
        IF LastNaming(messages, b, i) = 0 THEN Absent ELSE messages[LastNaming(messages, b, i)].owner]]
Snapshot(messages) ==
    [type |-> "MESSAGES_SNAPSHOT", history |-> HistoryOf(messages), messages |-> messages]

\* TEXT_MESSAGE_START says in which role it speaks; absent, the assistant's.
SpokenAs(role, e) == [f \in DOMAIN e \cup {"role"} |-> IF f = "role" THEN role ELSE e[f]]
RoleOf(e) == IF "role" \in DOMAIN e THEN e.role ELSE "assistant"

-----------------------------------------------------------------------------
(* The lists *)

At(list, i) == SelectLastInSeq(list, LAMBDA m : m.id = i)
Without(streams, i) ==
    LET kept[n \in 0..Len(streams)] ==
            IF n = 0 THEN <<>>
            ELSE IF streams[n].id = i THEN kept[n - 1] ELSE Append(kept[n - 1], streams[n])
    IN  kept[Len(streams)]
Reopened(streams, i, g) == Append(Without(streams, i), [id |-> i, owner |-> g])
Present(streams, messages) == SelectSeq(streams, LAMBDA s : At(messages, s.id) # 0)

PushMessage(a, m) ==
    [a EXCEPT !.messages = Append(@, m),
              !.carrier = [c \in Ids |-> IF Carries(m, c) THEN Len(a.messages) + 1 ELSE @[c]]]

\* Fault: the calls a snapshot restates are not found again.
ReplaceForgettingCalls(a, messages) ==
    [a EXCEPT !.messages = messages, !.carrier = [c \in Ids |-> 0],
              !.openText = Present(@, messages)]

ReplaceMessages(a, messages) ==
    [a EXCEPT !.messages = messages,
              !.carrier = [c \in Ids |-> LastNaming(messages, "call", c)],
              !.openText = Present(@, messages)]

\* The client's activities stay unless the snapshot lists activities itself.
KeepsLocal(snapshot, m) ==
    m.role = "activity" /\ \A n \in DOMAIN snapshot : snapshot[n].role # "activity"

\* merge_snapshot: what comes in the place of a local message, then what the snapshot
\* adds; the ids of a snapshot are distinct.
Replacement(m, snapshot) ==
    IF KeepsLocal(snapshot, m) THEN <<m>>
    ELSE IF At(snapshot, m.id) = 0 THEN <<>> ELSE <<snapshot[At(snapshot, m.id)]>>
Addition(m, messages) == IF At(messages, m.id) = 0 THEN <<m>> ELSE <<>>
Places(messages, snapshot) ==
    [n \in DOMAIN messages |-> Replacement(messages[n], snapshot)]
        \o [n \in DOMAIN snapshot |-> Addition(snapshot[n], messages)]
Merged(messages, snapshot) == FlattenSeq(Places(messages, snapshot))

\* Fault: a chunk without an id continues whatever was opened last.
ResolveNewest(streams, tag) == IF streams = <<>> THEN None ELSE Last(streams).id

\* resolve_open: the tagged owner's stream; untagged, the parent's, else the only one.
ResolveOpen(streams, tag) ==
    LET own == SelectLastInSeq(streams, LAMBDA s : s.owner = tag)
    IN  IF own # 0 THEN streams[own].id
        ELSE IF tag = None /\ Len(streams) = 1 THEN streams[1].id ELSE None

-----------------------------------------------------------------------------
(* Text *)

\* A known id is opened again and keeps its message, owner included.
TextStart(a, i, role, g) ==
    IF At(a.messages, i) # 0 THEN [a EXCEPT !.openText = Reopened(@, i, g)]
    ELSE PushMessage([a EXCEPT !.openText = Reopened(@, i, g)], Message(i, role, g))

\* append_text: an activity has no text.
AppendText(a, n) ==
    IF a.messages[n].role = "activity" THEN Failed(a)
    ELSE Applied([a EXCEPT !.messages[n].written = TRUE])

\* Content that names no message opens it.
TextContent(a, i, g) ==
    IF At(a.messages, i) # 0 THEN AppendText(a, At(a.messages, i))
    ELSE AppendText(TextStart(a, i, "assistant", g), Len(a.messages) + 1)

TextEnd(a, i) == [a EXCEPT !.openText = Without(@, i)]

TextChunk(a, i, g) ==
    IF i = None THEN Failed(a)
    ELSE IF \E n \in DOMAIN a.openText : a.openText[n].id = i THEN TextContent(a, i, g)
    ELSE TextContent(TextStart(a, i, "assistant", g), i, g)

-----------------------------------------------------------------------------
(* Tool calls *)

\* A call without a parent belongs to a message of its own.
CarrierId(c, parent) == IF parent = None THEN <<c, "message">> ELSE parent

HangCall(a, n, c) ==
    IF a.messages[n].role # "assistant" THEN a
    ELSE [a EXCEPT !.messages[n].calls =
                       IF Carries(a.messages[n], c) THEN @ ELSE Append(@, ToolCall(c)),
                   !.carrier[c] = n]

\* Fault: a message made for a call is nobody's.
ToolCallStartUnowned(a, c, p, g) ==
    IF At(a.messages, p) # 0 THEN HangCall(a, At(a.messages, p), c)
    ELSE HangCall(PushMessage(a, Message(p, "assistant", None)), Len(a.messages) + 1, c)

ToolCallStart(a, c, p, g) ==
    IF At(a.messages, p) # 0 THEN HangCall(a, At(a.messages, p), c)
    ELSE HangCall(PushMessage(a, Message(p, "assistant", g)), Len(a.messages) + 1, c)

ToolCallArgs(a, c) ==
    IF a.carrier[c] = 0 THEN Failed(a)
    ELSE Applied([a EXCEPT !.messages[a.carrier[c]].calls =
                      [k \in DOMAIN @ |-> IF @[k].id = c THEN [@[k] EXCEPT !.written = TRUE]
                                          ELSE @[k]]])

ToolCallChunk(a, e) ==
    CASE e.id = None -> Failed(a)
      [] e.id # None /\ a.carrier[e.id] # 0 -> ToolCallArgs(a, e.id)
      [] e.id # None /\ a.carrier[e.id] = 0 /\ ~e.named -> Failed(a)
      [] OTHER -> ToolCallArgs(ToolCallStart(a, e.id, CarrierId(e.id, e.parent), e.tag), e.id)

\* The newest result wins; a message that is no tool message is left as it is.
ToolCallResult(a, e) ==
    LET n == At(a.messages, e.id)
    IN  IF n = 0
        THEN PushMessage(a, [Message(e.id, "tool", e.tag) EXCEPT !.answers = e.call])
        ELSE IF a.messages[n].role = "tool" THEN [a EXCEPT !.messages[n].owner = e.tag]
        ELSE a

-----------------------------------------------------------------------------
(* Activities *)

\* activity_index
WithActivity(a, i) ==
    IF At(a.messages, i) # 0 THEN a ELSE PushMessage(a, Message(i, "activity", None))

\* Only a snapshot that makes or replaces the activity says whose it is.
ActivitySnapshotted(a, e) ==
    IF At(a.messages, e.id) = 0
    THEN PushMessage(a, [Message(e.id, "activity", e.tag) EXCEPT !.written = TRUE])
    ELSE IF a.messages[At(a.messages, e.id)].role # "activity" THEN a
    ELSE [a EXCEPT !.messages[At(a.messages, e.id)].written = TRUE,
                   !.messages[At(a.messages, e.id)].owner = IF e.replace THEN e.tag ELSE @]

-----------------------------------------------------------------------------
(* Reasoning, which is kept beside the conversation *)

ReasoningStart(a, i, g) ==
    [a EXCEPT !.reasoningStreams = Reopened(@, i, g),
              !.reasoning = IF At(@, i) # 0 THEN @ ELSE Append(@, Message(i, "reasoning", g)),
              !.openReasoning = @ \cup {i}]

Think(a, i) == [a EXCEPT !.reasoning[At(a.reasoning, i)].written = TRUE]

ReasoningContent(a, i, g) ==
    IF At(a.reasoning, i) # 0 THEN Think(a, i) ELSE Think(ReasoningStart(a, i, g), i)

ReasoningChunk(a, i, g) ==
    IF i = None THEN Failed(a)
    ELSE IF i \in a.openReasoning THEN Applied(ReasoningContent(a, i, g))
    ELSE Applied(ReasoningContent(ReasoningStart(a, i, g), i, g))

ReasoningEnd(a, i) ==
    [a EXCEPT !.reasoningStreams = Without(@, i), !.openReasoning = @ \ {i}]

\* A message id is looked up among the reasoning first.
SignMessage(a, i) ==
    IF At(a.reasoning, i) # 0 THEN [a EXCEPT !.reasoning[At(a.reasoning, i)].signed = TRUE]
    ELSE IF At(a.messages, i) # 0 /\ a.messages[At(a.messages, i)].role # "activity"
    THEN [a EXCEPT !.messages[At(a.messages, i)].signed = TRUE]
    ELSE a

SignCall(a, c) ==
    IF a.carrier[c] = 0 THEN a
    ELSE [a EXCEPT !.messages[a.carrier[c]].calls =
              [k \in DOMAIN @ |-> IF @[k].id = c THEN [@[k] EXCEPT !.signed = TRUE] ELSE @[k]]]

-----------------------------------------------------------------------------
(* Subagents *)

Subagent(s, p, status) == [id |-> s, parent |-> p, status |-> status]

\* An announcement without a parent keeps the one recorded before.
SubagentAnnounced(a, s, p) ==
    IF At(a.subagents, s) = 0
    THEN [a EXCEPT !.subagents = Append(@, Subagent(s, p, "running"))]
    ELSE [a EXCEPT !.subagents[At(a.subagents, s)] =
                       Subagent(s, IF p = None THEN @.parent ELSE p, "running")]

SubagentClosed(a, s, status) ==
    IF At(a.subagents, s) = 0
    THEN [a EXCEPT !.subagents = Append(@, Subagent(s, None, status))]
    ELSE [a EXCEPT !.subagents[At(a.subagents, s)].status = status]

\* abort_messages and abort_subagents: a run that ended early leaves nothing open.
AbortSubagents(a) ==
    [a EXCEPT !.openText = <<>>, !.openReasoning = {}, !.reasoningStreams = <<>>,
              !.subagents = [n \in DOMAIN @ |->
                  IF @[n].status = "running" THEN [@[n] EXCEPT !.status = "aborted"] ELSE @[n]]]

-----------------------------------------------------------------------------
(* apply_inner *)

ApplyStream(a, e) ==
    CASE e.kind = "block" /\ e.type = "START" -> Applied(ReasoningStart(a, e.id, e.tag))
      [] e.kind = "block" /\ e.type = "END" -> Applied(ReasoningEnd(a, e.id))
      [] e.kind = "reasoning" /\ e.type = "START" -> Applied(ReasoningStart(a, e.id, e.tag))
      [] e.kind = "reasoning" /\ e.type = "CONTENT" -> Applied(ReasoningContent(a, e.id, e.tag))
      [] e.kind = "reasoning" /\ e.type = "END" -> Applied(ReasoningEnd(a, e.id))
      [] e.kind = "text" /\ e.type = "START" -> Applied(TextStart(a, e.id, RoleOf(e), e.tag))
      [] e.kind = "text" /\ e.type = "CONTENT" -> TextContent(a, e.id, e.tag)
      [] e.kind = "text" /\ e.type = "END" -> Applied(TextEnd(a, e.id))
      [] e.kind = "tool" /\ e.type = "START" ->
            Applied(ToolCallStart(a, e.id, CarrierId(e.id, e.parent), e.tag))
      [] e.kind = "tool" /\ e.type = "CONTENT" -> ToolCallArgs(a, e.id)
      [] e.kind = "tool" /\ e.type = "END" -> Applied(a)

ApplyChunk(a, e) ==
    CASE e.kind = "text" ->
            TextChunk(a, IF e.id # None THEN e.id ELSE ResolveOpen(a.openText, e.tag), e.tag)
      [] e.kind = "reasoning" ->
            ReasoningChunk(a, IF e.id # None THEN e.id
                              ELSE ResolveOpen(a.reasoningStreams, e.tag), e.tag)
      [] e.kind = "tool" -> ToolCallChunk(a, e)

Apply(a, e) ==
    CASE e.type \in {"START", "CONTENT", "END"} -> ApplyStream(a, e)
      [] e.type = "CHUNK" -> ApplyChunk(a, e)
      [] e.type = "TOOL_CALL_RESULT" -> Applied(ToolCallResult(a, e))
      [] e.type = "MESSAGES_SNAPSHOT" ->
            Applied(ReplaceMessages(a, Merged(a.messages, e.messages)))
      [] e.type = "ACTIVITY_SNAPSHOT" -> Applied(ActivitySnapshotted(a, e))
      [] e.type = "ACTIVITY_DELTA" -> Applied(WithActivity(a, e.id))
      [] e.type = "STATE_SNAPSHOT" -> Applied([a EXCEPT !.state = e.state])
      [] e.type = "ENCRYPTED" ->
            Applied(IF e.subtype = "tool-call" THEN SignCall(a, e.id) ELSE SignMessage(a, e.id))
      [] e.type = "SUBAGENT_STARTED" -> Applied(SubagentAnnounced(a, e.id, e.parent))
      [] e.type = "SUBAGENT_FINISHED" -> Applied(SubagentClosed(a, e.id, "finished"))
      [] e.type = "SUBAGENT_ERROR" -> Applied(SubagentClosed(a, e.id, "failed"))
      [] OTHER -> Applied(a)

=============================================================================
