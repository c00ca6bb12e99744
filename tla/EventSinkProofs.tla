--------------------------- MODULE EventSinkProofs ---------------------------
(***************************************************************************)
(* What a send and an emit may do to a sink, for every sink: facts the      *)
(* proofs about runs rest on.                                               *)
(***************************************************************************)
EXTENDS EventSink, TLAPS

USE EventsAssumption, SinkAssumption

\* One event went out, or none; only an event that went out can terminate, and
\* none goes out once the sink is terminated.
Same(s, t) ==
    /\ t.queue = s.queue
    /\ t.terminated <=> s.terminated
    /\ t.overflowed <=> s.overflowed
    /\ t.verifier.ended <=> s.verifier.ended
    /\ t.verifier.started <=> s.verifier.started

Grown(s, t, e) ==
    /\ ~s.verifier.ended
    /\ t.queue = Append(s.queue, e)
    /\ t.terminated <=> s.terminated \/ IsTerminal(e)
    /\ t.verifier.ended <=> IsTerminal(e)
    /\ t.verifier.started <=> s.verifier.started \/ e.type = "RUN_STARTED"
    /\ e.type = "RUN_STARTED" => ~s.verifier.started
    /\ t.overflowed => s.overflowed \/ IsTerminal(e)

-----------------------------------------------------------------------------
(* The server verifier. *)

\* Each event of Wire, by its type.
LEMMA WireTypes ==
    ASSUME NEW e \in Wire
    PROVE  /\ e.type \in {"RUN_STARTED", "RUN_FINISHED", "RUN_ERROR", "START", "END",
                          "SUBAGENT_STARTED", "SUBAGENT_FINISHED",
                          "STATE_SNAPSHOT", "STATE_DELTA"}
           /\ e.type = "RUN_STARTED" => e.history \in Owners
           /\ e.type \in {"START", "END"} =>
                 e.kind = "text" /\ e.id \in Ids /\ e.tag \in Owner
           /\ e.type = "SUBAGENT_STARTED" => e.id \in Subagents
           /\ e.type = "SUBAGENT_FINISHED" => e.id \in Subagents
           /\ e.type = "STATE_SNAPSHOT" => e.state \in Values
           /\ e.type = "STATE_DELTA" => e.patch \in Patches
           /\ IsTerminal(e) <=> e.type \in {"RUN_FINISHED", "RUN_ERROR"}
  BY DEF Wire, RunFinished, RunError, Start, End, SubagentStarted, SubagentFinished,
         StateSnapshot, StateDelta, IsTerminal, Terminals

\* `observe` keeps a verifier a verifier.
LEMMA ObserveType ==
    ASSUME NEW v \in S!Verifier, NEW e \in Wire
    PROVE  S!Observe(v, e) \in S!Verifier
<1> USE DEF S!Verifier, S!Kinds, S!ChunkKinds, S!Owners, S!Owner, S!Absent,
           S!Buckets, S!BucketOf, Kinds, ChunkKinds, Owners, Owner, Absent, Buckets
<1>1. S!Residue(v, e) = v
  BY WireTypes DEF S!Residue
<1>2. CASE e.type = "START"
  <2>1. S!OwnerOf(v, e) \in Owner
    BY <1>2, WireTypes DEF S!OwnerOf, S!Claimed
  <2>2. S!Fold(v, e) = [v EXCEPT !.open["text"][e.id] = S!OwnerOf(v, e),
                                !.owner["message"][e.id] = S!OwnerOf(v, e)]
    BY <1>2, WireTypes DEF S!Fold
  <2>3. [v.open EXCEPT !["text"][e.id] = S!OwnerOf(v, e)]
            \in [S!Kinds -> [Ids -> S!Owner \cup {S!Absent}]]
    BY <1>2, <2>1, WireTypes
  <2>4. [v.owner EXCEPT !["message"][e.id] = S!OwnerOf(v, e)] \in S!Owners
    BY <1>2, <2>1, WireTypes
  <2>5. S!Fold(v, e) \in S!Verifier
    BY <2>2, <2>3, <2>4 
  <2> QED BY <1>1, <2>5 DEF S!Observe
<1>3. CASE e.type = "END"
  <2>1. S!Fold(v, e) = [v EXCEPT !.open["text"][e.id] = Absent]
    BY <1>3, WireTypes DEF S!Fold
  <2>2. [v.open EXCEPT !["text"][e.id] = Absent]
            \in [S!Kinds -> [Ids -> S!Owner \cup {S!Absent}]]
    BY <1>3, WireTypes
  <2>3. S!Fold(v, e) \in S!Verifier
    BY <2>1, <2>2
  <2> QED BY <1>1, <2>3 DEF S!Observe
<1>4. CASE e.type = "RUN_STARTED"
  <2>1. S!Seeded(v, e.history, FALSE) \in Owners
    BY <1>4, WireTypes DEF S!Seeded
  <2> QED BY <1>1, <1>4, <2>1, WireTypes DEF S!Observe, S!Fold
<1>5. CASE e.type \in {"RUN_FINISHED", "RUN_ERROR", "STATE_SNAPSHOT", "STATE_DELTA"}
  BY <1>1, <1>5 DEF S!Observe, S!Fold
<1>6. CASE e.type \in {"SUBAGENT_STARTED", "SUBAGENT_FINISHED"}
  BY <1>1, <1>6, WireTypes DEF S!Observe, S!Fold
<1> QED BY <1>2, <1>3, <1>4, <1>5, <1>6, WireTypes

\* An ended verifier accepts nothing, a running one any RUN_ERROR, and only what
\* it accepts starts or ends the run.
LEMMA ObserveLifecycle ==
    ASSUME NEW v \in S!Verifier, NEW e \in Wire
    PROVE  /\ S!Accepts(v, e) =>
                 /\ ~v.ended
                 /\ (S!Observe(v, e).ended <=> IsTerminal(e))
                 /\ (S!Observe(v, e).started <=> v.started \/ e.type = "RUN_STARTED")
                 /\ e.type = "RUN_STARTED" => ~v.started
           /\ ~S!Accepts(v, e) => S!Observe(v, e) = v
           /\ ~v.ended /\ e = RunError => S!Accepts(v, e)
<1> USE DEF S!Verifier
<1>1. S!Residue(v, e) = v
  BY WireTypes DEF S!Residue
<1>2. (S!Fold(v, e).started <=> v.started \/ e.type = "RUN_STARTED")
  BY WireTypes DEF S!Fold
<1>3. ~v.ended => (S!Fold(v, e).ended <=> IsTerminal(e))
  <2>1. CASE e.type \in {"RUN_FINISHED", "RUN_ERROR"}
    BY <2>1, WireTypes DEF S!Fold
  <2>2. CASE e.type \in {"START", "END"}
    BY <2>2, WireTypes DEF S!Fold
  <2>3. CASE e.type \notin {"RUN_FINISHED", "RUN_ERROR", "START", "END"}
    BY <2>3, WireTypes DEF S!Fold
  <2> QED BY <2>1, <2>2, <2>3
<1>4. ~v.ended /\ e = RunError => S!Accepts(v, e)
  BY DEF S!Accepts, S!RunRules, S!StreamRules, S!ContinuationRules, S!ScopeRules, RunError
<1>5. S!Accepts(v, e) => ~v.ended /\ (e.type = "RUN_STARTED" => ~v.started)
  BY DEF S!Accepts, S!RunRules
<1> QED BY <1>1, <1>2, <1>3, <1>4, <1>5 DEF S!Observe

-----------------------------------------------------------------------------
(* Sends and emits. *)

\* A sink whose own flag and whose verifier agree on whether the run is over.
Agreeing(s) ==
    /\ s \in Sinks
    /\ s.verifier.ended <=> s.terminated
    /\ s.overflowed => s.terminated

LEMMA TerminalsAreWire == RunFinished \in Wire /\ RunError \in Wire
  BY DEF Wire

\* What comes of queueing an event the verifier accepts.
LEMMA QueuedGrows ==
    ASSUME NEW s, Agreeing(s), NEW e \in Wire, S!Accepts(s.verifier, e)
    PROVE  Agreeing(Queued(s, e)) /\ Grown(s, Queued(s, e), e)
<1> DEFINE t == Queued(s, e)
<1>1. S!Observe(s.verifier, e) \in S!Verifier
  BY ObserveType DEF Agreeing, Sinks
<1>2. Baseline(s.published, e) \in Values \cup {Unknown}
  BY WireTypes DEF Agreeing, Sinks, Baseline, Patches
<1>3. Append(s.queue, e) \in Seq(Wire)
  BY DEF Agreeing, Sinks
<1>4. IsTerminal(e) \in BOOLEAN
  BY DEF IsTerminal
<1>5. t \in Sinks
  BY <1>1, <1>2, <1>3, <1>4 DEF Agreeing, Sinks, Queued
<1>6. /\ t.verifier = S!Observe(s.verifier, e)
      /\ t.queue = Append(s.queue, e)
      /\ t.terminated <=> s.terminated \/ IsTerminal(e)
      /\ t.overflowed <=> s.overflowed
  BY DEF Agreeing, Sinks, Queued
<1> QED BY <1>5, <1>6, ObserveLifecycle DEF Agreeing, Sinks, Grown

\* An overflow queues its RUN_ERROR, or finds the run over.
LEMMA OverflowGrows ==
    ASSUME NEW s, Agreeing(s)
    PROVE  /\ Overflow(s).ok = FALSE
           /\ Agreeing(Overflow(s).sink)
           /\ \/ Same(s, Overflow(s).sink) /\ s.terminated
              \/ Grown(s, Overflow(s).sink, RunError)
<1> DEFINE t == Overflow(s).sink
<1>1. CASE S!Accepts(s.verifier, RunError)
  <2>1. S!Observe(s.verifier, RunError) \in S!Verifier
    BY ObserveType, TerminalsAreWire DEF Agreeing, Sinks
  <2>2. Append(s.queue, RunError) \in Seq(Wire)
    BY TerminalsAreWire DEF Agreeing, Sinks
  <2>3. /\ t \in Sinks
        /\ t.verifier = S!Observe(s.verifier, RunError)
        /\ t.queue = Append(s.queue, RunError)
        /\ t.terminated /\ t.overflowed
    BY <1>1, <2>1, <2>2 DEF Agreeing, Sinks, Overflow, Result
  <2>4. IsTerminal(RunError) /\ RunError.type = "RUN_ERROR"
    BY DEF IsTerminal, Terminals, RunError
  <2> QED BY <2>3, <2>4, <1>1, ObserveLifecycle, TerminalsAreWire
          DEF Agreeing, Sinks, Grown, Overflow, Result
<1>2. CASE ~S!Accepts(s.verifier, RunError)
  BY <1>2, ObserveLifecycle, TerminalsAreWire DEF Agreeing, Sinks, Overflow, Result, Same
<1> QED BY <1>1, <1>2

\* A send queues the event, or its overflow error, or nothing; it fails unless it
\* queued the event.
LEMMA SendGrows ==
    ASSUME NEW s, Agreeing(s), NEW e \in Wire
    PROVE  /\ Agreeing(Send(s, e).sink)
           /\ \/ Same(s, Send(s, e).sink)
              \/ \E f \in {e, RunError} : Grown(s, Send(s, e).sink, f)
           /\ Send(s, e).ok \in BOOLEAN
           /\ Send(s, e).ok => Grown(s, Send(s, e).sink, e)
<1>1. CASE Full(s)
  BY <1>1, OverflowGrows DEF Send
<1>2. CASE ~Full(s) /\ S!Accepts(s.verifier, e)
  BY <1>2, QueuedGrows DEF Send, Result
<1>3. CASE ~Full(s) /\ ~S!Accepts(s.verifier, e)
  <2>1. [s EXCEPT !.verifier = S!Observe(@, e)] = s
    BY <1>3, ObserveLifecycle DEF Agreeing, Sinks
  <2> QED BY <1>3, <2>1 DEF Send, Result, Same
<1> QED BY <1>1, <1>2, <1>3

\* One send's worth of change.
Step(s, t) == Same(s, t) \/ \E f \in Wire : Grown(s, t, f)

\* Tagging and the transformers stay within what may travel.
LEMMA TransformsAreWire ==
    ASSUME NEW s, s \in Sinks, NEW e \in Wire, NEW out \in Transforms(Tagged(s, e))
    PROVE  /\ Tagged(s, e) \in Wire
           /\ out = <<>> \/ (Len(out) \in {1, 2} /\ \A n \in 1..Len(out) : out[n] \in Wire)
<1>1. Tagged(s, e) \in Wire
  <2>1. CASE Attributable(e) /\ s.attribution # None
    <3>1. e.type \in {"START", "END"}
      BY <2>1 DEF Wire, Attributable, RunFinished, RunError, Start, End,
              SubagentStarted, SubagentFinished, StateSnapshot, StateDelta
    <3>2. PICK i \in Ids, g \in Owner : e \in {Start("text", i, g), End("text", i, g)}
      BY <3>1 DEF Wire, RunFinished, RunError, SubagentStarted, SubagentFinished,
              StateSnapshot, StateDelta
    <3>3. [e EXCEPT !.tag = s.attribution]
             \in {Start("text", i, s.attribution), End("text", i, s.attribution)}
      BY <3>2 DEF Start, End
    <3>4. s.attribution \in Owner
      BY DEF Sinks
    <3> QED BY <3>3, <3>4, <2>1 DEF Tagged, Wire
  <2>2. CASE ~(Attributable(e) /\ s.attribution # None)
    BY <2>2 DEF Tagged
  <2> QED BY <2>1, <2>2
<1>2. \A v \in Values : StateSnapshot(v) \in Wire
  BY DEF Wire
<1> QED BY <1>1, <1>2 DEF Transforms

LEMMA SendAllGrows ==
    ASSUME NEW s, Agreeing(s), NEW out,
           out = <<>> \/ (Len(out) \in {1, 2} /\ \A n \in 1..Len(out) : out[n] \in Wire)
    PROVE  \E m : /\ Agreeing(m) /\ Agreeing(SendAll(s, out).sink)
                  /\ Step(s, m) /\ Step(m, SendAll(s, out).sink)
<1> DEFINE first == Send(s, out[1])
<1>0. \A m : Agreeing(m) => Step(m, m)
  BY DEF Step, Same
<1>1. CASE out = <<>>
  BY <1>0, <1>1 DEF SendAll, SendSecond, Result
<1>2. CASE out # <<>>
  <2>1. Agreeing(first.sink) /\ Step(s, first.sink)
    BY <1>2, SendGrows, TerminalsAreWire DEF Step
  <2>2. CASE Len(out) = 1 \/ ~first.ok
    BY <1>0, <1>2, <2>1, <2>2 DEF SendAll, SendSecond
  <2>3. CASE Len(out) = 2 /\ first.ok
    <3>1. out[2] \in Wire
      BY <1>2, <2>3
    <3>2. Agreeing(Send(first.sink, out[2]).sink) /\ Step(first.sink, Send(first.sink, out[2]).sink)
      BY <2>1, <3>1, SendGrows, TerminalsAreWire DEF Step
    <3> QED BY <1>2, <2>1, <2>3, <3>2 DEF SendAll, SendSecond
  <2> QED BY <1>2, <2>2, <2>3
<1> QED BY <1>1, <1>2

\* Recording a lifecycle leaves what the stream depends on alone.
LEMMA RecordingIsSilent ==
    ASSUME NEW s, Agreeing(s), NEW active \in SUBSET Subagents
    PROVE  /\ Agreeing([s EXCEPT !.active = active])
           /\ Same(s, [s EXCEPT !.active = active])
           /\ \A r : Step(r, s) => Step(r, [s EXCEPT !.active = active])
<1> DEFINE t == [s EXCEPT !.active = active]
<1>1. /\ t \in Sinks
      /\ t.queue = s.queue /\ t.terminated = s.terminated
      /\ t.overflowed = s.overflowed /\ t.verifier = s.verifier
  BY DEF Agreeing, Sinks
<1> QED BY <1>1 DEF Agreeing, Step, Same, Grown

\* An emit, refused or not, is at most two sends.
LEMMA EmitGrows ==
    ASSUME NEW s, Agreeing(s), NEW e \in Wire, NEW out \in Transforms(Tagged(s, e))
    PROVE  \E m : /\ Agreeing(m) /\ Agreeing(EmitForced(s, e, out).sink)
                  /\ Step(s, m) /\ Step(m, EmitForced(s, e, out).sink)
<1> DEFINE sent == SendAll(s, out)
<1>1. PICK m : Agreeing(m) /\ Agreeing(sent.sink) /\ Step(s, m) /\ Step(m, sent.sink)
  BY SendAllGrows, TransformsAreWire DEF Agreeing
<1>2. Recorded(sent.sink.active, e) \in SUBSET Subagents
  BY <1>1, WireTypes DEF Agreeing, Sinks, Recorded
<1>3. CASE s.overflowed \/ (e = RunFinished /\ s.active # {})
  BY <1>3 DEF EmitForced, Noted, Result, Step, Same
<1>4. CASE ~(s.overflowed \/ (e = RunFinished /\ s.active # {})) /\ sent.ok
  <2>1. EmitForced(s, e, out).sink = [sent.sink EXCEPT !.active = Recorded(@, e)]
    BY <1>4 DEF EmitForced, Noted, Result
  <2> QED BY <1>1, <1>2, <2>1, RecordingIsSilent
<1>5. CASE ~(s.overflowed \/ (e = RunFinished /\ s.active # {})) /\ ~sent.ok
  <2>1. EmitForced(s, e, out) = sent
    BY <1>5 DEF EmitForced, Noted
  <2> QED BY <1>1, <2>1
<1> QED BY <1>3, <1>4, <1>5

\* An emit that succeeds queued exactly its event.
LEMMA PlainEmitGrows ==
    ASSUME NEW s, Agreeing(s), NEW e \in Wire, EmitPlain(s, e).ok
    PROVE  /\ Agreeing(EmitPlain(s, e).sink)
           /\ Grown(s, EmitPlain(s, e).sink, Tagged(s, e))
<1> DEFINE f == Tagged(s, e)
           sent == Send(s, f)
<1>1. f \in Wire
  BY TransformsAreWire DEF Transforms, Agreeing
<1>2. SendAll(s, <<f>>) = sent
  BY DEF SendAll, SendSecond
<1>3. ~s.overflowed /\ ~(e = RunFinished /\ s.active # {})
  BY DEF EmitPlain, EmitForced, Noted, Result
<1>4. sent.ok /\ EmitPlain(s, e).sink = [sent.sink EXCEPT !.active = Recorded(@, e)]
  BY <1>2, <1>3 DEF EmitPlain, EmitForced, Noted, Result
<1>5. Agreeing(sent.sink) /\ Grown(s, sent.sink, f)
  BY <1>1, <1>4, SendGrows
<1>6. Recorded(sent.sink.active, e) \in SUBSET Subagents
  BY <1>5, WireTypes DEF Agreeing, Sinks, Recorded
<1>7. /\ Agreeing(EmitPlain(s, e).sink)
      /\ Same(sent.sink, EmitPlain(s, e).sink)
  BY <1>4, <1>5, <1>6, RecordingIsSilent
<1> QED BY <1>5, <1>7 DEF Same, Grown

-----------------------------------------------------------------------------
(* Terminal events. *)

\* A terminal event is emitted as a single, untagged send.
LEMMA TerminalIsOneSend ==
    ASSUME NEW s, Agreeing(s), ~s.terminated, NEW e \in Terminals,
           e = RunFinished => s.active = {}
    PROVE  /\ Agreeing(EmitPlain(s, e).sink)
           /\ EmitPlain(s, e).ok \in BOOLEAN
           /\ EmitPlain(s, e).ok => Grown(s, EmitPlain(s, e).sink, e)
           /\ ~EmitPlain(s, e).ok =>
                 Same(s, EmitPlain(s, e).sink) \/ Grown(s, EmitPlain(s, e).sink, RunError)
           /\ e = RunError => Grown(s, EmitPlain(s, e).sink, RunError)
<1>1. e \in Wire /\ e.type \in {"RUN_FINISHED", "RUN_ERROR"} /\ Tagged(s, e) = e
  BY TerminalsAreWire DEF Terminals, Tagged, Attributable, RunFinished, RunError
<1>2. SendAll(s, <<e>>) = Send(s, e)
  BY DEF SendAll, SendSecond
<1>3. ~s.overflowed
  BY DEF Agreeing
<1>sent. EmitPlain(s, e) =
        IF Send(s, e).ok
        THEN Result(TRUE, [Send(s, e).sink EXCEPT !.active = Recorded(@, e)])
        ELSE Send(s, e)
  BY <1>1, <1>2, <1>3 DEF EmitPlain, EmitForced, Noted
<1>4. CASE Full(s)
  <2>1. Send(s, e) = Overflow(s)
    BY <1>4 DEF Send
  <2>2. EmitPlain(s, e) = Overflow(s)
    BY <1>sent, <2>1, OverflowGrows
  <2> QED BY <2>2, OverflowGrows
<1>5. CASE ~Full(s) /\ S!Accepts(s.verifier, e)
  <2>1. Send(s, e).ok = TRUE /\ Send(s, e).sink = Queued(s, e)
    BY <1>5 DEF Send, Result
  <2>2. Recorded(Queued(s, e).active, e) = Queued(s, e).active
    BY <1>1 DEF Recorded
  <2>3. Agreeing(Queued(s, e)) /\ Grown(s, Queued(s, e), e)
    BY <1>1, <1>5, QueuedGrows
  <2>4. [Queued(s, e) EXCEPT !.active = Recorded(@, e)] = Queued(s, e)
    BY <2>2, <2>3 DEF Agreeing, Sinks
  <2>5. EmitPlain(s, e) = Result(TRUE, Queued(s, e))
    BY <1>sent, <2>1, <2>4
  <2> QED BY <2>3, <2>5 DEF Result
<1>6. CASE ~Full(s) /\ ~S!Accepts(s.verifier, e)
  <2>1. s.verifier \in S!Verifier
    BY DEF Agreeing, Sinks
  <2>2. e # RunError /\ S!Observe(s.verifier, e) = s.verifier
    BY <1>1, <1>6, <2>1, ObserveLifecycle DEF Agreeing
  <2>3. [s EXCEPT !.verifier = S!Observe(@, e)] = s
    BY <2>2 DEF Agreeing, Sinks
  <2>4. Send(s, e) = Result(FALSE, s)
    BY <1>6, <2>3 DEF Send
  <2>5. EmitPlain(s, e) = Result(FALSE, s)
    BY <1>sent, <2>4 DEF Result
  <2> QED BY <2>2, <2>5 DEF Result, Same
<1> QED BY <1>4, <1>5, <1>6

\* Whatever the agent returned and whatever it left open, the driver terminates
\* the run: exactly one event goes out, and it is terminal.
LEMMA TerminatedTerminates ==
    ASSUME NEW s, Agreeing(s), ~s.terminated, NEW o \in Outcomes
    PROVE  /\ Agreeing(Terminated(s, o))
           /\ \E f \in Terminals : Grown(s, Terminated(s, o), f)
<1> DEFINE e == TerminalFor(o)
           first == EmitPlain(s, e)
<1>1. e \in Terminals /\ RunError \in Terminals /\ RunError # RunFinished
  BY DEF TerminalFor, Terminals, RunFinished, RunError
<1>2. CASE e = RunFinished /\ s.active # {}
  <2>1. first = Result(FALSE, s)
    BY <1>2 DEF EmitPlain, EmitForced, Noted, Agreeing
  <2>2. Terminated(s, o) = EmitPlain(s, RunError).sink
    BY <2>1 DEF Terminated, Result
  <2> QED BY <1>1, <2>2, TerminalIsOneSend
<1>3. CASE e = RunFinished => s.active = {}
  <2>1. /\ Agreeing(first.sink)
        /\ first.ok \in BOOLEAN
        /\ first.ok => Grown(s, first.sink, e)
        /\ ~first.ok => Same(s, first.sink) \/ Grown(s, first.sink, RunError)
    BY <1>1, <1>3, TerminalIsOneSend
  <2>2. CASE first.ok
    BY <1>1, <2>1, <2>2 DEF Terminated
  <2>3. CASE ~first.ok /\ Grown(s, first.sink, RunError)
    <3>1. first.sink.terminated
      BY <2>3 DEF Grown, IsTerminal, Terminals
    <3> QED BY <1>1, <2>1, <2>3, <3>1 DEF Terminated
  <2>4. CASE ~first.ok /\ Same(s, first.sink)
    <3>1. ~first.sink.terminated
      BY <2>4 DEF Same
    <3>2. Terminated(s, o) = EmitPlain(first.sink, RunError).sink
      BY <2>4, <3>1 DEF Terminated
    <3>3. /\ Agreeing(Terminated(s, o))
          /\ Grown(first.sink, Terminated(s, o), RunError)
      BY <1>1, <2>1, <3>1, <3>2, TerminalIsOneSend
    <3>4. Grown(s, Terminated(s, o), RunError)
      BY <2>4, <3>3 DEF Same, Grown, IsTerminal, Terminals
    <3> QED BY <1>1, <3>3, <3>4
  <2> QED BY <2>1, <2>2, <2>3, <2>4
<1> QED BY <1>2, <1>3

=============================================================================
