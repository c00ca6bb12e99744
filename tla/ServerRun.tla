----------------------------- MODULE ServerRun -----------------------------
(***************************************************************************)
(* One run (crates/ag-ui/src/server/run.rs): the driver future around any   *)
(* agent, the event sink it writes to and the RunStream that owns both and  *)
(* polls the driver whenever the queue is empty.  The cancellation token is *)
(* tripped by another thread at any moment, also in the middle of a poll.   *)
(***************************************************************************)
EXTENDS EventSink

CONSTANTS
    Messages,       \* the text messages the agent writes, a subset of Ids
    MaxEmits        \* bound: how many emits an agent attempts

VARIABLES
    sink,       \* EventSink, with its end of the channel
    driver,     \* RunStream::driver: "new" (not polled), "agent" (inside
                \* Agent::run) or "gone" (None)
    polling,    \* inside driver.poll
    woken,      \* the consumer's task will poll the stream
    cancelled,  \* CancellationToken
    emits,      \* emits the agent has left
    stream,     \* the RunStream: "open", "ended" (yielded None) or "dropped"
    seen,       \* how far the yielded events have come
    copy        \* the consumer's copy of the shared state

vars == <<sink, driver, polling, woken, cancelled, emits, stream, seen, copy>>

ASSUME RunAssumption == Messages \subseteq Ids /\ MaxEmits \in Nat

\* What an agent may emit of its own, state apart.
AgentEvents ==
    {Start("text", i, g) : i \in Messages, g \in Owner}
        \cup {End("text", i, g) : i \in Messages, g \in Owner}
        \cup {SubagentStarted(s, p) : s \in Subagents, p \in Owner}
        \cup {SubagentFinished(s) : s \in Subagents}
        \cup {RunStarted(NoOwners), RunFinished, RunError}

StateEvents == {StateSnapshot(v) : v \in Values} \cup {StateDelta(p) : p \in Patches}

Init ==
    /\ sink = New
    /\ driver = "new"
    /\ polling = FALSE
    /\ woken = TRUE
    /\ cancelled = FALSE
    /\ emits = MaxEmits
    /\ stream = "open"
    /\ seen = "nothing"
    /\ copy \in Values

-----------------------------------------------------------------------------
(* The driver, inside driver.poll. *)

\* Fault: a send does not wake the receiver.
WakesNobody(next) == woken

\* Anything sent wakes the receiver the same poll_next left registered.
Wakes(next) == woken \/ next.queue # sink.queue

\* The driver returns: the stream drops it and polls the queue again.
Returns(final) ==
    /\ sink' = final
    /\ driver' = "gone"
    /\ polling' = FALSE
    /\ woken' = TRUE

\* drive, up to the agent's first line: RUN_STARTED, then the typed state.
Begin ==
    LET started == EmitPlain(sink, RunStarted(NoOwners))
    IN  /\ polling /\ driver = "new"
        /\ started.ok
        /\ \/ /\ sink' = started.sink
              /\ driver' = "agent"
              /\ woken' = Wakes(sink')
              /\ UNCHANGED polling
           \/ Returns(Terminated(started.sink, "failed"))
        /\ UNCHANGED <<cancelled, emits, stream, seen, copy>>

\* Fault: the token is not looked at.
EmitRegardless(e) ==
    /\ polling /\ driver = "agent"
    /\ emits > 0 /\ emits' = emits - 1
    /\ \E out \in Transforms(Tagged(sink, e)) : sink' = EmitForced(sink, e, out).sink
    /\ woken' = Wakes(sink')
    /\ UNCHANGED <<driver, polling, cancelled, stream, seen, copy>>

\* EventSink::emit: refused outright once the run is cancelled.
Emit(e) ==
    /\ polling /\ driver = "agent"
    /\ emits > 0 /\ emits' = emits - 1
    /\ IF cancelled THEN UNCHANGED sink
       ELSE \E out \in Transforms(Tagged(sink, e)) : sink' = EmitForced(sink, e, out).sink
    /\ woken' = Wakes(sink')
    /\ UNCHANGED <<driver, polling, cancelled, stream, seen, copy>>

Publish(next) == \E e \in Decisions(sink.published, next) : Emit(e)

\* The agent awaits something: the poll is over and the stream is pending.
Await ==
    /\ polling /\ driver = "agent"
    /\ polling' = FALSE
    /\ UNCHANGED <<sink, driver, woken, cancelled, emits, stream, seen, copy>>

\* Agent::run returns; a run it terminated itself is left alone.
Return(outcome) ==
    /\ polling /\ driver = "agent"
    /\ Returns(IF sink.terminated THEN sink ELSE Terminated(sink, outcome))
    /\ UNCHANGED <<cancelled, emits, stream, seen, copy>>

-----------------------------------------------------------------------------
(* The stream and its consumer. *)

Stage(e) ==
    CASE e.type = "RUN_STARTED" /\ seen = "nothing" -> "started"
      [] e = RunFinished /\ seen = "started" -> "finished"
      [] e = RunError /\ seen = "started" -> "failed"
      [] ~IsTerminal(e) /\ e.type # "RUN_STARTED" /\ seen = "started" -> "started"
      [] OTHER -> "broken"

\* Applier: a patch that does not apply leaves the copy as it was.
Applied(value, e) ==
    CASE e.type = "STATE_SNAPSHOT" -> e.state
      [] e.type = "STATE_DELTA" /\ e.patch[value] # Unknown -> e.patch[value]
      [] OTHER -> value

\* poll_next with an event waiting: the driver is not polled.
Yield ==
    /\ stream = "open" /\ ~polling /\ woken
    /\ sink.queue # <<>>
    /\ seen' = Stage(Head(sink.queue))
    /\ copy' = Applied(copy, Head(sink.queue))
    /\ sink' = [sink EXCEPT !.queue = Tail(@)]
    /\ UNCHANGED <<driver, polling, woken, cancelled, emits, stream>>

\* Fault: only the driver's return ends the stream.
CloseWhenGone ==
    /\ stream = "open" /\ ~polling /\ woken
    /\ sink.queue = <<>>
    /\ driver = "gone"
    /\ stream' = "ended"
    /\ UNCHANGED <<sink, driver, polling, woken, cancelled, emits, seen, copy>>

\* The queue is drained and no sender is left, or an overflow closed it.
Close ==
    /\ stream = "open" /\ ~polling /\ woken
    /\ sink.queue = <<>>
    /\ driver = "gone" \/ sink.overflowed
    /\ driver' = "gone"
    /\ stream' = "ended"
    /\ UNCHANGED <<sink, polling, woken, cancelled, emits, seen, copy>>

\* Nothing is waiting: the agent runs until it awaits or returns.
PollDriver ==
    /\ stream = "open" /\ ~polling /\ woken
    /\ sink.queue = <<>>
    /\ driver # "gone" /\ ~sink.overflowed
    /\ polling' = TRUE
    /\ woken' = FALSE
    /\ UNCHANGED <<sink, driver, cancelled, emits, stream, seen, copy>>

\* What the agent awaits is ready.
Wake ==
    /\ driver = "agent" /\ ~polling
    /\ woken' = TRUE
    /\ UNCHANGED <<sink, driver, polling, cancelled, emits, stream, seen, copy>>

Cancel ==
    /\ ~cancelled
    /\ cancelled' = TRUE
    /\ UNCHANGED <<sink, driver, polling, woken, emits, stream, seen, copy>>

\* The transport drops the stream, and with it the driver and the agent.
Disconnect ==
    /\ stream = "open" /\ ~polling
    /\ stream' = "dropped"
    /\ driver' = "gone"
    /\ UNCHANGED <<sink, polling, woken, cancelled, emits, seen, copy>>

\* Nothing more comes out of a stream that ended or was dropped.
Over ==
    /\ stream # "open" /\ cancelled
    /\ UNCHANGED vars

AgentStep ==
    \/ \E e \in AgentEvents \cup StateEvents : Emit(e)
    \/ \E v \in Values : Publish(v)
    \/ Await
    \/ \E o \in Outcomes : Return(o)

Poll == Yield \/ Close \/ PollDriver

Next == Begin \/ AgentStep \/ Poll \/ Wake \/ Cancel \/ Disconnect \/ Over

Spec == Init /\ [][Next]_vars

\* The executor polls a woken stream, and a poll of the agent comes back: it
\* emits, then awaits or returns.  Nothing says what it awaits is ever ready.
FairSpec == Spec /\ WF_vars(Poll) /\ WF_vars(Begin) /\ WF_vars(Await \/ \E o \in Outcomes : Return(o))

-----------------------------------------------------------------------------
(* Properties *)

TypeOK ==
    /\ sink \in Sinks
    /\ driver \in {"new", "agent", "gone"}
    /\ polling \in BOOLEAN /\ woken \in BOOLEAN /\ cancelled \in BOOLEAN
    /\ emits \in 0..MaxEmits
    /\ stream \in {"open", "ended", "dropped"}
    /\ seen \in {"nothing", "started", "finished", "failed", "broken"}
    /\ copy \in Values

\* "emits RUN_STARTED first and exactly one of RUN_FINISHED / RUN_ERROR last",
\* whatever the agent emits, refuses to close, returns or never returns.
Lifecycle == INSTANCE RunLifecycle WITH seen <- seen, stream <- stream
KeepsPromise == Lifecycle!Spec

\* The baseline patches are computed against is what the consumer will hold once
\* it has drained the queue: a patch against anything else corrupts its copy.
Drained ==
    LET after[n \in 0..Len(sink.queue)] ==
            IF n = 0 THEN copy ELSE Applied(after[n - 1], sink.queue[n])
    IN  after[Len(sink.queue)]

StateAgrees ==
    sink.published # Unknown => Drained = sink.published

\* An overfull queue holds the accepted events and one reserved RUN_ERROR, and
\* a run that did not overflow never exceeds its capacity.
WithinCapacity ==
    Capacity # Unbounded =>
        /\ Len(sink.queue) <= Capacity + 1
        /\ Len(sink.queue) > Capacity =>
              sink.overflowed /\ sink.queue[Capacity + 1] = RunError

\* After cancellation the agent adds nothing: only the driver's own terminal
\* event, or the RUN_STARTED of a run cancelled before it began, is queued.
NothingAfterCancel ==
    [][cancelled /\ Len(sink'.queue) > Len(sink.queue) =>
          /\ \/ driver = "new"
             \/ driver' = "gone" /\ Len(sink'.queue) = Len(sink.queue) + 1
          /\ \A n \in Len(sink.queue) + 1 .. Len(sink'.queue) :
                IsTerminal(sink'.queue[n]) \/ sink'.queue[n].type = "RUN_STARTED"]_vars

\* Without the agent's help, the terminal event reaches a consumer that keeps
\* polling: also when the agent terminated the run itself and then never returns.
TerminalDelivered ==
    sink.terminated ~> (seen \in {"finished", "failed"} \/ stream = "dropped")

\* An overflowed stream ends even if the agent ignored the error and awaits for
\* ever; so does a stream whose driver returned.
StreamEnds == (sink.overflowed \/ driver = "gone") ~> (stream # "open")

=============================================================================
