----------------------------- MODULE EventSink -----------------------------
(***************************************************************************)
(* The write end of a run (crates/ag-ui/src/server/emit/mod.rs): scope      *)
(* attribution, transformers, verification, the shared-state baseline and   *)
(* the bounded queue, as operators over the sink's state.  The queue is the *)
(* channel to RunStream; the stream owns both of its ends, so a send never  *)
(* finds the receiver gone and Error::Disconnected does not arise.          *)
(***************************************************************************)
EXTENDS Events, Sequences, Naturals

CONSTANTS
    Values,         \* the documents the shared state may be
    Unknown,        \* no baseline; also what a patch that does not apply gives
    Capacity,       \* Runner::event_buffer_capacity, or Unbounded
    Unbounded,
    Rewrites        \* whether a transformer rewrites state events

ASSUME SinkAssumption ==
    /\ Unknown \notin Values
    /\ Capacity = Unbounded \/ Capacity \in Nat \ {0}
    /\ Rewrites \in BOOLEAN

S == INSTANCE ServerVerifier

\* An RFC 6902 patch, by the document it makes of each document.
Patches == [Values -> Values \cup {Unknown}]

Terminals == {RunFinished, RunError}
IsTerminal(e) == e \in Terminals

New == [verifier |-> S!Fresh, published |-> Unknown,
        terminated |-> FALSE, overflowed |-> FALSE,
        attribution |-> None, active |-> {}, queue |-> <<>>]

\* What travels on the channel.
Wire == [type : {"RUN_STARTED"}, history : Owners]
            \cup {RunFinished, RunError}
            \cup {Start("text", i, g) : i \in Ids, g \in Owner}
            \cup {End("text", i, g) : i \in Ids, g \in Owner}
            \cup {SubagentStarted(s, p) : s \in Subagents, p \in Owner}
            \cup {SubagentFinished(s) : s \in Subagents}
            \cup {StateSnapshot(v) : v \in Values}
            \cup {StateDelta(p) : p \in Patches}

Sinks == [verifier : S!Verifier, published : Values \cup {Unknown},
          terminated : BOOLEAN, overflowed : BOOLEAN,
          attribution : Owner, active : SUBSET Subagents, queue : Seq(Wire)]

Result(ok, sink) == [ok |-> ok, sink |-> sink]

-----------------------------------------------------------------------------
(* send *)

\* Fault: the limit itself still has room.
OverFull(sink) == Capacity # Unbounded /\ Len(sink.queue) > Capacity

Full(sink) == Capacity # Unbounded /\ Len(sink.queue) >= Capacity

\* The reserved RUN_ERROR that closes an overfull queue.
Overflow(sink) ==
    Result(FALSE,
        IF S!Accepts(sink.verifier, RunError)
        THEN [sink EXCEPT !.verifier = S!Observe(@, RunError),
                          !.queue = Append(@, RunError),
                          !.terminated = TRUE,
                          !.overflowed = TRUE]
        ELSE sink)

\* StateManager::after_delta, and what a queued snapshot publishes.
Baseline(published, e) ==
    CASE e.type = "STATE_SNAPSHOT" -> e.state
      [] e.type = "STATE_DELTA" ->
            IF published = Unknown THEN Unknown ELSE e.patch[published]
      [] OTHER -> published

Queued(sink, e) ==
    [sink EXCEPT !.verifier = S!Observe(@, e),
                 !.terminated = @ \/ IsTerminal(e),
                 !.queue = Append(@, e),
                 !.published = Baseline(@, e)]

Send(sink, e) ==
    IF Full(sink) THEN Overflow(sink)
    ELSE IF S!Accepts(sink.verifier, e) THEN Result(TRUE, Queued(sink, e))
    ELSE Result(FALSE, [sink EXCEPT !.verifier = S!Observe(@, e)])

\* The chain's output, at most two events, is sent in order until one is refused.
SendSecond(first, events) ==
    IF Len(events) = 1 \/ ~first.ok THEN first ELSE Send(first.sink, events[2])

SendAll(sink, events) ==
    IF events = <<>> THEN Result(TRUE, sink)
    ELSE SendSecond(Send(sink, events[1]), events)

-----------------------------------------------------------------------------
(* emit_forced *)

Tagged(sink, e) ==
    IF Attributable(e) /\ sink.attribution # None
    THEN IF e.tag = None THEN [e EXCEPT !.tag = sink.attribution] ELSE e
    ELSE e

\* TransformerChain::transform: every event passes, or, with a transformer that
\* rewrites state, a state event is dropped, restated or followed by a snapshot.
Transforms(e) ==
    {<<e>>} \cup
        IF Rewrites /\ e.type \in {"STATE_SNAPSHOT", "STATE_DELTA"}
        THEN {<<>>} \cup {<<StateSnapshot(v)>> : v \in Values}
                    \cup {<<e, StateSnapshot(v)>> : v \in Values}
        ELSE {}

\* Fault: whatever parent a subagent names counts as running, none included.
RecordedWithParent(active, e) ==
    CASE e.type = "SUBAGENT_STARTED" -> active \cup {e.id, e.parent}
      [] e.type \in {"SUBAGENT_FINISHED", "SUBAGENT_ERROR"} -> active \ {e.id}
      [] OTHER -> active

\* Producer lifecycles, recorded once the whole expansion went through.
Recorded(active, e) ==
    CASE e.type = "SUBAGENT_STARTED" -> active \cup {e.id}
      [] e.type \in {"SUBAGENT_FINISHED", "SUBAGENT_ERROR"} -> active \ {e.id}
      [] OTHER -> active

\* Fault: the baseline follows what the agent published, not what was queued.
EmitForcedAsMeant(sink, e, out) ==
    LET sent == SendAll(sink, out)
    IN  IF ~sink.overflowed /\ sent.ok
        THEN Result(TRUE, [sent.sink EXCEPT !.published = Baseline(sink.published, e)])
        ELSE Result(FALSE, sink)

\* What was sent, with the lifecycle of `e` recorded if all of it went through.
Noted(sent, e) ==
    IF sent.ok THEN Result(TRUE, [sent.sink EXCEPT !.active = Recorded(@, e)])
    ELSE sent

\* `out` is one of Transforms(Tagged(sink, e)).
EmitForced(sink, e, out) ==
    IF sink.overflowed THEN Result(FALSE, sink)
    ELSE IF e = RunFinished /\ sink.active # {} THEN Result(FALSE, sink)
    ELSE Noted(SendAll(sink, out), e)

\* Events no transformer here touches.
EmitPlain(sink, e) == EmitForced(sink, e, <<Tagged(sink, e)>>)

-----------------------------------------------------------------------------
(* StateManager::decide, and publish_state. *)

\* A patch that turns the baseline into the document being published.
Diffs(published, next) == {p \in Patches : p[published] = next}

\* The events a publish may choose: the sizes decide between patch and snapshot.
Decisions(published, next) ==
    CASE published = Unknown -> {StateSnapshot(next)}
      [] published = next -> {}
      [] OTHER -> {StateSnapshot(next)} \cup {StateDelta(p) : p \in Diffs(published, next)}

-----------------------------------------------------------------------------
(* terminate (run.rs): what the driver does with the agent's result. *)

\* How Agent::run came back: Ok, Err(Cancelled) or any other error; an outcome
\* that does not validate counts as an error.
Outcomes == {"success", "cancelled", "failed"}
TerminalFor(outcome) == IF outcome = "failed" THEN RunError ELSE RunFinished

\* Fault: a refused RUN_FINISHED is the end of it.
TerminatedOnce(from, outcome) == EmitPlain(from, TerminalFor(outcome)).sink

\* One terminal event: RUN_ERROR if RUN_FINISHED is refused.
Terminated(from, outcome) ==
    LET first == EmitPlain(from, TerminalFor(outcome))
    IN  IF first.ok \/ first.sink.terminated THEN first.sink
        ELSE EmitPlain(first.sink, RunError).sink

=============================================================================
