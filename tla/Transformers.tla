---------------------------- MODULE Transformers ----------------------------
(***************************************************************************)
(* The stream transformers a run puts before its verifier                   *)
(* (crates/ag-ui/src/server/transform.rs): FilterToolCalls drops whole      *)
(* calls by tool, ToolResultToState promotes a tool's result to state, and  *)
(* SubagentFilter shows no subagents (inline) or none of their work         *)
(* (hidden).  One record `f` holds the state of any of them; Transform(f, e) *)
(* is the filter it leaves and the events it passes on.                      *)
(***************************************************************************)
EXTENDS Applier, FiniteSets

CONSTANT Tools

ASSUME TransformersAssumption == None \notin Tools

Modes == {"deny", "promote", "replace", "inline", "hidden"}
Visibility == {"unknown", "seen", "hidden"}

\* An open stream as the consuming normalizer models it, one per owner.
NoStream == [kind |-> "none", id |-> None, tool |-> None, parent |-> None]
NoStreams == [g \in Owner |-> NoStream]

\* `tools` are the tools denied or promoted; `names` the tool of a call, once known;
\* `owners` the subagent that owns a text, a reasoning message or a call.
NewFilter(mode, tools) ==
    [mode |-> mode, tools |-> tools, streams |-> NoStreams,
     names |-> [c \in Ids |-> None], dropped |-> {},
     owners |-> [k \in ChunkKinds |-> [i \in Ids |-> Absent]],
     activities |-> [i \in Ids |-> "unknown"],
     open |-> [k \in ChunkKinds |-> [i \in Ids |-> "unknown"]],
     calls |-> [c \in Ids |-> "unknown"]]

\* The tool an event names; every TOOL_CALL_START does, a chunk may.
Using(tool, e) ==
    [x \in DOMAIN e \cup {"tool", "named"} |->
        IF x = "tool" THEN tool ELSE IF x = "named" THEN tool # None ELSE e[x]]
ToolOf(e) == IF "tool" \in DOMAIN e THEN e.tool ELSE None
ParentOf(e) == IF "parent" \in DOMAIN e THEN e.parent ELSE None
TagOf(e) == IF Attributable(e) THEN e.tag ELSE None
Untagged(e) == IF Attributable(e) THEN [e EXCEPT !.tag = None] ELSE e

Streamed(e) == e.type \in {"START", "CONTENT", "END", "CHUNK"}
Bare(e) == e.type = "CHUNK" /\ e.id = None
FamilyOf(kind) == IF kind = "block" THEN "reasoning" ELSE kind

-----------------------------------------------------------------------------
(* Streams *)

\* replace: the same stream keeps what is known about it.
Continued(stream, e) ==
    IF stream.kind = e.kind /\ stream.id = e.id
    THEN [stream EXCEPT !.tool = IF @ = None THEN ToolOf(e) ELSE @,
                        !.parent = IF @ = None THEN ParentOf(e) ELSE @]
    ELSE [kind |-> e.kind, id |-> e.id, tool |-> ToolOf(e), parent |-> ParentOf(e)]

CloseStream(streams, kind, i) ==
    [g \in Owner |-> IF streams[g].kind = kind /\ streams[g].id = i THEN NoStream
                     ELSE streams[g]]

\* Fault: the party that answers a call is not seen to move on.
ObserveStreamsNoResult(streams, e, owner) ==
    CASE e.type \in {"START", "CONTENT", "CHUNK"} /\ ~Bare(e) /\ e.kind # "block" ->
            [streams EXCEPT ![owner] = Continued(@, e)]
      [] e.type = "END" -> CloseStream(streams, FamilyOf(e.kind), e.id)
      [] e.type \in {"RUN_FINISHED", "RUN_ERROR"} -> NoStreams
      [] OTHER -> streams

\* Streams::observe: a result ends its call and whatever the answering party streams.
ObserveStreams(streams, e, owner) ==
    CASE e.type \in {"START", "CONTENT", "CHUNK"} /\ ~Bare(e) /\ e.kind # "block" ->
            [streams EXCEPT ![owner] = Continued(@, e)]
      [] e.type = "END" -> CloseStream(streams, FamilyOf(e.kind), e.id)
      [] e.type = "TOOL_CALL_RESULT" ->
            [CloseStream(streams, "tool", e.call) EXCEPT ![e.tag] = NoStream]
      [] e.type \in {"RUN_FINISHED", "RUN_ERROR"} -> NoStreams
      [] OTHER -> streams

\* owner_of_open: a subagent that has the entity open, else the parent.
OpenUnder(streams, kind, i) ==
    LET owners == {g \in Subagents : streams[g].kind = kind /\ streams[g].id = i}
    IN  IF owners = {} THEN None ELSE CHOOSE g \in owners : TRUE

\* resolve: who has the stream a chunk without an id continues; {} when unclear.
Resolved(streams, e) ==
    LET open == {g \in Owner : streams[g].kind = e.kind}
    IN  IF e.tag # None THEN open \cap {e.tag}
        ELSE IF None \in open THEN {None}
        ELSE IF Cardinality(open) = 1 THEN open ELSE {}

\* fill_bare
Fill(stream, e) ==
    IF e.kind # "tool" THEN [e EXCEPT !.id = stream.id]
    ELSE Using(IF ToolOf(e) = None THEN stream.tool ELSE ToolOf(e),
               [e EXCEPT !.id = stream.id, !.parent = IF @ = None THEN stream.parent ELSE @])

FillBare(streams, e) ==
    IF Bare(e) /\ Resolved(streams, e) # {}
    THEN Fill(streams[CHOOSE g \in Resolved(streams, e) : TRUE], e) ELSE e

\* entity: the stream an event names, a result its call's.
EntityKind(e) ==
    IF e.type = "TOOL_CALL_RESULT" THEN "tool"
    ELSE IF Streamed(e) /\ ~Bare(e) THEN FamilyOf(e.kind) ELSE "none"
EntityId(e) == IF e.type = "TOOL_CALL_RESULT" THEN e.call ELSE e.id

Output(f, events) == [filter |-> f, out |-> events]

-----------------------------------------------------------------------------
(* FilterToolCalls *)

\* The call an event belongs to; None for a chunk that resolves to none.
CallOf(f, e) ==
    IF Bare(e) THEN IF Resolved(f.streams, e) = {} THEN None
                    ELSE f.streams[CHOOSE g \in Resolved(f.streams, e) : TRUE].id
    ELSE IF e.type = "TOOL_CALL_RESULT" THEN e.call ELSE e.id

OfCall(e) ==
    \/ Streamed(e) /\ e.kind = "tool"
    \/ e.type = "TOOL_CALL_RESULT"
    \/ e.type = "ENCRYPTED" /\ e.subtype = "tool-call"

\* judge: the first name decides, a later one cannot reclassify; a chunk without
\* an id names no new call.
JudgeCall(f, e, c) ==
    IF ToolOf(e) = None \/ c = None THEN f
    ELSE IF f.names[c] # None \/ Bare(e)
    THEN [f EXCEPT !.dropped = IF f.names[c] # e.tool THEN @ \cup {c} ELSE @]
    ELSE [f EXCEPT !.names[c] = e.tool,
                   !.dropped = IF e.tool \in f.tools THEN @ \cup {c} ELSE @]

DroppedOrUnknown(f, c) == c = None \/ f.names[c] = None \/ c \in f.dropped

\* The owner a FilterToolCalls stream is kept under.
CallFilterOwner(f, e) ==
    IF TagOf(e) # None \/ EntityKind(e) = "none" THEN TagOf(e)
    ELSE OpenUnder(f.streams, EntityKind(e), EntityId(e))

FilterCalls(f, e) ==
    LET judged == IF OfCall(e) THEN JudgeCall(f, e, CallOf(f, e)) ELSE f
    IN  Output([judged EXCEPT !.streams = ObserveStreams(@, e, CallFilterOwner(f, e))],
               IF OfCall(e) /\ DroppedOrUnknown(judged, CallOf(f, e)) THEN <<>> ELSE <<e>>)

-----------------------------------------------------------------------------
(* ToolResultToState: the first result of a promoted call is also published   *)
(* as state, or only that (replacing); content that is no JSON is left alone.  *)
(* Which of STATE_SNAPSHOT and STATE_DELTA it becomes is left out.             *)

Promotes(f, e) == ToolOf(e) \in f.tools /\ ~Bare(e)
WithJson(e) == [x \in DOMAIN e \cup {"json"} |-> IF x = "json" THEN TRUE ELSE e[x]]
IsJson(e) == "json" \in DOMAIN e
StateBy(v, g) == [type |-> "STATE_SNAPSHOT", state |-> v, tag |-> g]
StateEvent(e) == StateBy(e.id, e.tag)

PromoteResult(f, e) ==
    IF f.names[e.call] = None \/ ~IsJson(e) THEN <<e>>
    ELSE IF f.mode = "replace" THEN <<StateEvent(e)>> ELSE <<e, StateEvent(e)>>

Promote(f, e) ==
    CASE Streamed(e) /\ e.kind = "tool" /\ Promotes(f, e) ->
            Output([f EXCEPT !.names[e.id] = e.tool], <<e>>)
      [] e.type = "TOOL_CALL_RESULT" ->
            Output([f EXCEPT !.names[e.call] = None], PromoteResult(f, e))
      [] OTHER -> Output(f, <<e>>)

-----------------------------------------------------------------------------
(* SubagentFilter *)

\* Fault: a call is the parent's unless its own events say otherwise.
OwnerForNoCarrier(f, e) ==
    IF TagOf(e) # None \/ EntityKind(e) = "none" THEN TagOf(e)
    ELSE IF f.owners[EntityKind(e)][EntityId(e)] # Absent
    THEN f.owners[EntityKind(e)][EntityId(e)]
    ELSE OpenUnder(f.streams, EntityKind(e), EntityId(e))

\* owner_for: the tag, else the recorded owner (of the message carrying a call
\* first), else who has the entity open.
OwnerFor(f, e) ==
    IF TagOf(e) # None \/ EntityKind(e) = "none" THEN TagOf(e)
    ELSE IF ParentOf(e) # None /\ f.owners["text"][e.parent] # Absent
    THEN f.owners["text"][e.parent]
    ELSE IF f.owners[EntityKind(e)][EntityId(e)] # Absent
    THEN f.owners[EntityKind(e)][EntityId(e)]
    ELSE OpenUnder(f.streams, EntityKind(e), EntityId(e))

Observed(f, e) ==
    IF Bare(e) THEN f ELSE [f EXCEPT !.streams = ObserveStreams(@, e, OwnerFor(f, e))]

SubagentLifecycle(e) == e.type \in {"SUBAGENT_STARTED", "SUBAGENT_FINISHED", "SUBAGENT_ERROR"}
SubagentStep(e) == e.type \in {"STEP_STARTED", "STEP_FINISHED"} /\ e.tag # None

Flattened(messages) == [n \in DOMAIN messages |-> [messages[n] EXCEPT !.owner = None]]

Inlined(e) ==
    IF SubagentLifecycle(e) \/ SubagentStep(e) THEN <<>>
    ELSE IF e.type = "MESSAGES_SNAPSHOT" THEN <<Snapshot(Flattened(e.messages))>>
    ELSE <<Untagged(e)>>

Inline(f, e) == Output(Observed(f, e), Inlined(FillBare(f.streams, e)))

\* opened and call_opened: the first writer owns the id, and what is open keeps
\* the visibility it was opened with.
Opened(f, k, i, owner) ==
    LET seen == IF f.open[k][i] # "unknown" THEN f.open[k][i]
                ELSE IF owner = None THEN "seen" ELSE "hidden"
    IN  [f EXCEPT !.owners[k][i] = IF @ = Absent /\ owner # None THEN owner ELSE @,
                  !.open[k][i] = seen,
                  !.calls[i] = IF k = "tool" THEN seen ELSE @]

\* continued and call_continued
ShownOpen(f, e) ==
    /\ e.tag = None
    /\ \/ f.open[FamilyOf(e.kind)][e.id] = "seen"
       \/ /\ f.open[FamilyOf(e.kind)][e.id] = "unknown"
          /\ f.owners[FamilyOf(e.kind)][e.id] = Absent

ShownActivity(f, e) ==
    CASE e.type = "ACTIVITY_DELTA" -> f.activities[e.id] # "hidden"
      [] e.type = "ACTIVITY_SNAPSHOT" ->
            IF f.activities[e.id] = "unknown" \/ e.replace THEN e.tag = None
            ELSE f.activities[e.id] = "seen"

\* Where a chunk without an id goes: where its stream went.
ShownBare(f, e) ==
    IF Resolved(f.streams, e) = {} THEN e.tag = None
    ELSE LET owner == CHOOSE g \in Resolved(f.streams, e) : TRUE
             visible == f.open[e.kind][f.streams[owner].id]
         IN  visible = "seen" \/ (visible = "unknown" /\ owner = None)

\* judge, as what it answers and what it records; f has not observed the event.
Shown(f, e, owner) ==
    CASE SubagentLifecycle(e) -> FALSE
      [] Bare(e) -> ShownBare(f, e)
      [] e.type = "START" \/ (e.type = "CHUNK" /\ ~Bare(e)) ->
            Opened(f, FamilyOf(e.kind), e.id, owner).open[FamilyOf(e.kind)][e.id] = "seen"
      [] e.type \in {"CONTENT", "END"} -> ShownOpen(f, e)
      [] e.type = "TOOL_CALL_RESULT" ->
            \/ f.calls[e.call] = "seen"
            \/ f.calls[e.call] = "unknown" /\ f.owners["tool"][e.call] = Absent
      [] e.type \in {"ACTIVITY_SNAPSHOT", "ACTIVITY_DELTA"} -> ShownActivity(f, e)
      [] e.type = "ENCRYPTED" ->
            /\ e.tag = None
            /\ IF e.subtype = "tool-call" THEN f.owners["tool"][e.id] = Absent
               ELSE f.owners["text"][e.id] = Absent /\ f.owners["reasoning"][e.id] = Absent
      [] e.type = "STATE_SNAPSHOT" -> TRUE
      [] OTHER -> TagOf(e) = None

Remembered(f, e, owner) ==
    CASE e.type = "START" \/ (e.type = "CHUNK" /\ ~Bare(e)) ->
            Opened(f, FamilyOf(e.kind), e.id, owner)
      [] e.type = "END" -> [f EXCEPT !.open[FamilyOf(e.kind)][e.id] = "unknown"]
      [] e.type = "ACTIVITY_SNAPSHOT" ->
            [f EXCEPT !.activities[e.id] = IF ShownActivity(f, e) THEN "seen" ELSE "hidden"]
      [] e.type \in {"RUN_FINISHED", "RUN_ERROR"} ->
            [f EXCEPT !.open = [k \in ChunkKinds |-> [i \in Ids |-> "unknown"]]]
      [] OTHER -> f

\* seed_hidden for a MESSAGES_SNAPSHOT: a message says whose it and its calls are,
\* a tool message is where its call is.
SeedOne(f, m) ==
    LET k == IF m.role = "reasoning" THEN "reasoning" ELSE "text"
        owner == IF m.role = "tool" THEN f.owners["tool"][m.answers]
                 ELSE IF m.owner = None THEN Absent ELSE m.owner
    IN  IF m.role = "activity"
        THEN [f EXCEPT !.activities[m.id] = IF m.owner = None THEN "seen" ELSE "hidden"]
        ELSE [f EXCEPT !.owners[k][m.id] = owner,
                       !.owners["tool"] =
                           [c \in Ids |-> IF Carries(m, c) THEN owner ELSE @[c]]]

\* show_message: a result of a visible call is the parent's, whoever executed it.
ShowMessages(f, messages) ==
    LET Visible(m) == IF m.role = "tool" THEN f.owners["tool"][m.answers] = Absent
                      ELSE m.owner = None
    IN  Flattened(SelectSeq(messages, Visible))

\* hidden, once the event is kept.
Kept(f, e) ==
    IF e.type = "MESSAGES_SNAPSHOT"
    THEN LET seeded == FoldLeft(SeedOne, f, e.messages)
         IN  Output(seeded, <<Snapshot(ShowMessages(seeded, e.messages))>>)
    ELSE IF e.type \in {"STATE_SNAPSHOT", "TOOL_CALL_RESULT",
                       "ACTIVITY_SNAPSHOT", "ACTIVITY_DELTA"}
    THEN Output(f, <<Untagged(e)>>)
    ELSE Output(f, <<e>>)

Hide(f, e) ==
    IF Shown(f, e, OwnerFor(f, e))
    THEN Kept(Remembered(Observed(f, e), e, OwnerFor(f, e)), FillBare(f.streams, e))
    ELSE Output(Remembered(Observed(f, e), e, OwnerFor(f, e)), <<>>)

-----------------------------------------------------------------------------
(* transform *)

Transform(f, e) ==
    CASE f.mode = "deny" -> FilterCalls(f, e)
      [] f.mode \in {"promote", "replace"} -> Promote(f, e)
      [] f.mode = "inline" -> Inline(f, e)
      [] f.mode = "hidden" -> Hide(f, e)

\* TransformerChain::transform: every event through each transformer in order.
Collected(out, result) == Output(result.filter, out \o result.out)
TransformNext(done, e) == Collected(done.out, Transform(done.filter, e))
TransformAll(f, events) == FoldLeft(TransformNext, Output(f, <<>>), events)

Linked(chain, result) == [chain |-> Append(chain, result.filter), out |-> result.out]
ChainNext(done, f) == Linked(done.chain, TransformAll(f, done.out))
Chained(chain, e) == FoldLeft(ChainNext, [chain |-> <<>>, out |-> <<e>>], chain)

=============================================================================
