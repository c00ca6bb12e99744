------------------------------- MODULE MCWire -------------------------------
(* Kinds of agent for WireAgreement: each keeps the event families whose     *)
(* rules interact together, and leaves the others out to stay small.         *)
EXTENDS WireAgreement, TLC

CONSTANTS i1, i2, i3, s1, s2, s3

Terminals == {RunFinished, RunError}

Bracketed(k, ids, owners) ==
    {Start(k, i, g) : i \in ids, g \in owners}
        \cup {Content(k, i, g) : i \in ids, g \in owners}
        \cup {End(k, i, g) : i \in ids, g \in owners}

Blocks(ids, owners) ==
    {Start("block", i, g) : i \in ids, g \in owners}
        \cup {End("block", i, g) : i \in ids, g \in owners}

\* Nothing replayed, or one message or call of one owner.
Recalls(buckets, ids, owners) ==
    {[NoOwners EXCEPT ![b][i] = g] : b \in buckets, i \in ids, g \in owners}

\* Messages and the tool calls they carry, over a conversation restated.
TextIds == {i1, i2}
TextOwners == {s1, None}
TextRecalls == Recalls({"message", "call"}, TextIds, TextOwners)
TextEvents ==
    Bracketed("text", TextIds, TextOwners) \cup Bracketed("tool", TextIds, TextOwners)
        \cup {StartUnder(p, i, g) : p \in TextIds, i \in TextIds, g \in TextOwners}
        \cup {ToolResult(m, c, g) : m \in TextIds, c \in TextIds, g \in TextOwners}
        \cup {Encrypted("tool-call", i, g) : i \in TextIds, g \in TextOwners}
        \cup {MessagesSnapshot(h) : h \in TextRecalls}

\* Reasoning blocks and the messages inside them.
ThinkingOwners == {s1, s2, None}
ThinkingEvents ==
    Bracketed("reasoning", {i1, i2}, ThinkingOwners) \cup Blocks({i1, i2}, ThinkingOwners)
        \cup {Encrypted("message", i, g) : i \in {i1, i2}, g \in ThinkingOwners}

\* Steps, subagents, activities and the unordered rest.
ScopeEvents ==
    {StepStarted(n, g) : n \in StepNames, g \in Owner}
        \cup {StepFinished(n, g) : n \in StepNames, g \in Owner}
        \cup {SubagentStarted(s, p) : s \in Subagents, p \in Owner}
        \cup {SubagentFinished(s) : s \in Subagents}
        \cup {SubagentError(s) : s \in Subagents}
        \cup {ActivitySnapshot(i1, g, r) : g \in Owner, r \in BOOLEAN}
        \cup {ActivityDelta(i1, g) : g \in Owner}
        \cup {Custom(g) : g \in Owner}

\* Chunk streams of i1 and i2 among bracketed ones of i3.  A producer tags every
\* chunk that names i1 and none that names i2; a chunk without an id carries any
\* tag, and a tool's may leave out the tool as well.
Chunks(k) ==
    {Chunk(k, i1, g) : g \in {s1, s2}} \cup {Chunk(k, i2, None)}
        \cup {Chunk(k, None, g) : g \in {s1, s2, None}}
TextChunkEvents ==
    Chunks("text") \cup Chunks("tool") \cup Bracketed("text", {i3}, {s1, s2, None})
        \cup {Anonymous(e) : e \in Chunks("tool")}
        \cup {ToolResult(i3, c, g) : c \in {i1, i2}, g \in {s1, s2, None}}
ThinkingChunkEvents ==
    Chunks("reasoning") \cup Bracketed("reasoning", {i3}, ThinkingOwners)
        \cup Blocks({i1, i2, i3}, ThinkingOwners)

EmitsOf ==
    [a \in Agents |-> Terminals \cup
        CASE a = "text" -> TextEvents
          [] a = "thinking" -> ThinkingEvents
          [] a = "scopes" -> ScopeEvents
          [] a = "text chunks" -> TextChunkEvents
          [] a = "thinking chunks" -> ThinkingChunkEvents]
ReplaysOf ==
    [a \in Agents |-> {NoOwners} \cup
        CASE a = "text" -> TextRecalls
          [] a = "thinking" -> Recalls({"reasoning"}, {i1, i2}, ThinkingOwners)
          [] OTHER -> {}]

ASSUME ProducersAssumption == \A a \in Agents : Orderly(a)
=============================================================================
