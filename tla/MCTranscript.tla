---------------------------- MODULE MCTranscript ----------------------------
(* Settings for Transcript: the families of events whose rules interact, each *)
(* under the transformers that touch them.                                    *)
EXTENDS Transcript, TLC

CONSTANTS i1, i2, i3, i4, s1, s2, t1, t2

Terminals == {RunFinished, RunError}

Bracketed(k, ids, owners) ==
    {Start(k, i, g) : i \in ids, g \in owners}
        \cup {Content(k, i, g) : i \in ids, g \in owners}
        \cup {End(k, i, g) : i \in ids, g \in owners}

\* The parent and one subagent; tags may be left out where an owner is known.
Either == {s1, None}

\* A message i1, a call i2 in it or on its own, and the call's result i3.
Calls(tools) ==
    {Using(t, [Start("tool", i2, g) EXCEPT !.parent = p]) :
            p \in {i1, None}, g \in Either, t \in tools}
        \cup {Content("tool", i2, g) : g \in Either}
        \cup {End("tool", i2, g) : g \in Either}
        \cup {ToolResult(i3, i2, g) : g \in Either}
Published == Calls({t1, t2}) \cup {WithJson(ToolResult(i3, i2, g)) : g \in Either}
Messages(tools) ==
    Bracketed("text", {i1}, Either) \cup {SpokenAs("user", Start("text", i1, s1))}
        \cup Calls(tools)

\* What a backend may restate: nothing, the message, the message with its call,
\* and the call's result, by one owner or the other.
WithCall(m, c) == [m EXCEPT !.calls = <<ToolCall(c)>>]
Result(c, g) == [Message(i3, "tool", g) EXCEPT !.answers = c]
Restated(g) ==
    {<<Message(i1, "assistant", g)>>,
     <<WithCall(Message(i1, "assistant", g), i2)>>,
     <<WithCall(Message(i1, "assistant", g), i2), Result(i2, g)>>,
     <<Message(i4, "activity", g), WithCall(Message(i1, "assistant", g), i2)>>}
Snapshots == {Snapshot(m) : m \in {<<>>} \cup Restated(s1) \cup Restated(None)}

\* Chunk streams of a subagent (i1) and the parent (i2), and chunks without an id.
Chunks(k) == {Chunk(k, i1, s1), Chunk(k, i2, None)} \cup {Chunk(k, None, g) : g \in Either}
TextChunks == Chunks("text") \cup Bracketed("text", {i3}, {s2})
NamedCalls == {Using(t1, e) : e \in Chunks("tool")}
AnonymousCalls == {Using(None, e) : e \in Chunks("tool")}
OneOfEach ==
    {Using(t1, Chunk("tool", i1, s1)), Using(t2, Chunk("tool", i2, None))}
Answers == {ToolResult(i3, i1, g) : g \in Either} \cup {ToolResult(i4, i2, g) : g \in Either}

Thoughts ==
    Bracketed("reasoning", {i1, i2}, Either)
        \cup {Start("block", i1, g) : g \in Either} \cup {End("block", i1, g) : g \in Either}
        \cup {Encrypted("message", i1, g) : g \in Either}

ThoughtChunks == Chunks("reasoning") \cup Bracketed("reasoning", {i3}, {s2})
Scopes ==
    {StepStarted(n, g) : n \in StepNames, g \in Either}
        \cup {StepFinished(n, g) : n \in StepNames, g \in Either}
        \cup {SubagentStarted(s, p) : s \in {s1, s2}, p \in Either}
        \cup {SubagentFinished(s1), SubagentError(s1), SubagentError(s2)}
        \cup {ActivitySnapshot(i1, g, r) : g \in Either, r \in BOOLEAN}
        \cup {ActivityDelta(i1, g) : g \in Either}
        \cup {Custom(g) : g \in Either} \cup {StateBy(i2, g) : g \in Either}

Hidden == <<NewFilter("hidden", {})>>
InlineOnly == <<NewFilter("inline", {})>>
Deny == <<NewFilter("deny", {t1})>>

Setting(emits, with) == [emits |-> emits \cup Terminals, chain |-> with]
All ==
    "messages, hidden" :> Setting(Messages({t1}) \cup Snapshots, Hidden)
    @@ "messages, inline" :> Setting(Messages({t1}) \cup Snapshots, InlineOnly)
    @@ "calls, denied and inline" :> Setting(Messages({t1, t2}), Deny \o InlineOnly)
    @@ "calls, promoted" :> Setting(Published, <<NewFilter("promote", {t1})>> \o Hidden)
    @@ "calls, replaced" :> Setting(Published, <<NewFilter("replace", {t1})>>)
    @@ "text chunks, hidden" :> Setting(TextChunks, Hidden)
    @@ "text chunks, inline" :> Setting(TextChunks, InlineOnly)
    @@ "call chunks, hidden" :> Setting(NamedCalls \cup AnonymousCalls \cup Answers, Hidden)
    @@ "call chunks, inline" :> Setting(NamedCalls \cup Answers, InlineOnly)
    @@ "call chunks, denied" :> Setting(OneOfEach \cup AnonymousCalls \cup Answers, Deny)
    @@ "thoughts, hidden" :> Setting(Thoughts, Hidden)
    @@ "thoughts, inline" :> Setting(Thoughts, InlineOnly)
    @@ "thought chunks, hidden" :> Setting(ThoughtChunks, Hidden)
    @@ "thought chunks, inline" :> Setting(ThoughtChunks, InlineOnly)
    @@ "scopes, hidden" :> Setting(Scopes, Hidden)
    @@ "scopes, inline" :> Setting(Scopes, InlineOnly)

Settings == DOMAIN All
EmitsOf == [s \in Settings |-> All[s].emits]
ChainsOf == [s \in Settings |-> All[s].chain]
ReplaysOf == [s \in Settings |-> {NoOwners}]

\* TranscriptProofs' theorems are about agents that keep to these.
ASSUME ProducersAssumption == \A a \in Agents : Orderly(a) /\ Sorted(a) /\ Plain(a)
=============================================================================
