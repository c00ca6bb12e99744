------------------------------ MODULE Handles ------------------------------
(***************************************************************************)
(* The RAII handles an agent writes through (server/emit/{message,tool,     *)
(* reasoning,step,subagent}.rs, opened by server/context.rs).  Creating one *)
(* emits the opening event, consuming or dropping it the terminator.  Each  *)
(* borrows the context, so what is alive is a stack and only its top is     *)
(* usable: messages, tool calls and reasoning blocks are leaves, steps and  *)
(* subagents are scopes everything else nests in.                           *)
(*                                                                         *)
(* The agent here emits through handles alone, under ids of its choice, and *)
(* may be cancelled between any two emits.  The queue is drained at once.   *)
(***************************************************************************)
EXTENDS EventSink

CONSTANT MaxDepth       \* bound: handles alive at once

VARIABLES
    sink,       \* EventSink
    alive,      \* the handles alive, innermost last
    cancelled,  \* CancellationToken
    refused,    \* what of live handles was refused, though not cancelled
    run         \* "running", then the terminal event: "finished" or "failed"

vars == <<sink, alive, cancelled, refused, run>>

ASSUME HandlesAssumption == MaxDepth \in Nat

\* A handle: what it closes and, for a subagent, the attribution it restores.
Handle(kind, id, previous) == [kind |-> kind, id |-> id, previous |-> previous]
Handles == [kind : ChunkKinds \cup {"step", "subagent"},
            id : Ids \cup StepNames \cup Subagents, previous : Owner]

\* What a handle writes: its stream and terminators, or a provider's signature.
Writes == {"stream", "call signature", "reasoning signature"}

Running == [New EXCEPT !.verifier = S!Observe(@, RunStarted(NoOwners))]

Init ==
    /\ sink = Running
    /\ alive = <<>>
    /\ cancelled = FALSE
    /\ refused = {}
    /\ run = "running"

-----------------------------------------------------------------------------
(* Emitting *)

\* EventSink::emit, when `stop` is whether the token was tripped by then.
EmitUnless(stop, from, e) ==
    IF stop THEN Result(FALSE, from)
    ELSE LET emitted == EmitPlain(from, e)
         IN  Result(emitted.ok, [emitted.sink EXCEPT !.queue = <<>>])

\* Cancellation may arrive before an emit; it is never withdrawn.
Stops == {cancelled, TRUE}

Top == alive[Len(alive)]
Pop == SubSeq(alive, 1, Len(alive) - 1)

\* A context is in reach: no leaf borrows the sink away from it.
AtContext ==
    /\ run = "running"
    /\ alive # <<>> => Top.kind \in {"step", "subagent"}

\* A leaf of this kind is alive, and the code is inside it.
Inside(kind) == run = "running" /\ alive # <<>> /\ Top.kind = kind

\* An opening event: the handle exists if it went out.
Open(handle, opened, stop) ==
    /\ AtContext /\ Len(alive) < MaxDepth
    /\ sink' = opened.sink
    /\ alive' = IF opened.ok THEN Append(alive, handle) ELSE alive
    /\ cancelled' = stop
    /\ UNCHANGED <<refused, run>>

\* An event of the handle in use.
WriteAs(what, written, stop) ==
    /\ sink' = written.sink
    /\ cancelled' = stop
    /\ refused' = refused \cup IF written.ok \/ stop THEN {} ELSE {what}
    /\ UNCHANGED run

Write(written, stop) == WriteAs("stream", written, stop)

\* The two emits of one method; the second is made whatever the first returned
\* only if `always`.
BothOk(one, two) == Result(one.ok /\ two.ok, two.sink)

Then(one, second, stop, always) ==
    IF one.ok \/ always THEN BothOk(one, EmitUnless(stop, one.sink, second)) ELSE one

Both(from, first, second, stop1, stop2, always) ==
    Then(EmitUnless(stop1, from, first), second, stop2, always)

-----------------------------------------------------------------------------
(* MessageHandle, and the START of a ToolCallHandle *)

StartLeaf(kind, i) ==
    \E stop \in Stops :
        Open(Handle(kind, i, None), EmitUnless(stop, sink, Start(kind, i, None)), stop)

StartMessage(i) == StartLeaf("text", i)
StartToolCall(i) == StartLeaf("tool", i)

\* delta, args
Delta(kind) ==
    /\ Inside(kind)
    /\ \E stop \in Stops : Write(EmitUnless(stop, sink, Content(kind, Top.id, None)), stop)
    /\ UNCHANGED alive

\* end, or drop
EndLeaf(kind) ==
    /\ Inside(kind)
    /\ \E stop \in Stops : Write(EmitUnless(stop, sink, End(kind, Top.id, None)), stop)
    /\ alive' = Pop

\* ToolCallHandle::result
AnswerToolCall(m) ==
    /\ Inside("tool")
    /\ \E stop1 \in Stops : \E stop2 \in {stop1, TRUE} :
          Write(Both(sink, End("tool", Top.id, None), ToolResult(m, Top.id, None),
                     stop1, stop2, FALSE), stop2)
    /\ alive' = Pop

\* ToolCallHandle::encrypted_value
SignToolCall ==
    /\ Inside("tool")
    /\ \E stop \in Stops :
          WriteAs("call signature",
                  EmitUnless(stop, sink, Encrypted("tool-call", Top.id, None)), stop)
    /\ UNCHANGED alive

-----------------------------------------------------------------------------
(* ReasoningHandle: a block and the one message in it *)

\* close: the end of the block is tried also when that of the message failed.
ReasoningClosed(from, i, stop1, stop2) ==
    Both(from, End("reasoning", i, None), End("block", i, None), stop1, stop2, TRUE)

\* The block is open when the message is refused: the handle is dropped, and
\* tries to close both.
OrDropped(message, i, stop) ==
    IF message.ok THEN message
    ELSE Result(FALSE, ReasoningClosed(message.sink, i, stop, stop).sink)

MessageIn(block, i, stop) ==
    IF ~block.ok THEN block
    ELSE OrDropped(EmitUnless(stop, block.sink, Start("reasoning", i, None)), i, stop)

StartReasoning(i) ==
    \E stop1 \in Stops : \E stop2 \in {stop1, TRUE} :
        Open(Handle("reasoning", i, None),
             MessageIn(EmitUnless(stop1, sink, Start("block", i, None)), i, stop2), stop2)

\* Fault: the block is left to its message.
CloseReasoningMessage ==
    /\ Inside("reasoning")
    /\ \E stop \in Stops : Write(EmitUnless(stop, sink, End("reasoning", Top.id, None)), stop)
    /\ alive' = Pop

CloseReasoning ==
    /\ Inside("reasoning")
    /\ \E stop1 \in Stops : \E stop2 \in {stop1, TRUE} :
          Write(ReasoningClosed(sink, Top.id, stop1, stop2), stop2)
    /\ alive' = Pop

\* ReasoningHandle::encrypted_value
SignReasoning ==
    /\ Inside("reasoning")
    /\ \E stop \in Stops :
          WriteAs("reasoning signature",
                  EmitUnless(stop, sink, Encrypted("message", Top.id, None)), stop)
    /\ UNCHANGED alive

-----------------------------------------------------------------------------
(* StepGuard *)

StartStep(n) ==
    \E stop \in Stops :
        Open(Handle("step", n, None), EmitUnless(stop, sink, StepStarted(n, None)), stop)

FinishStep ==
    /\ Inside("step")
    /\ \E stop \in Stops : Write(EmitUnless(stop, sink, StepFinished(Top.id, None)), stop)
    /\ alive' = Pop

-----------------------------------------------------------------------------
(* SubagentHandle *)

\* The new scope tags what follows.
Entered(announced, s) ==
    IF announced.ok THEN Result(TRUE, [announced.sink EXCEPT !.attribution = s])
    ELSE announced

\* The parent is the enclosing scope.
StartSubagent(s) ==
    \E stop \in Stops :
        LET announced == EmitUnless(stop, sink, SubagentStarted(s, sink.attribution))
        IN  Open(Handle("subagent", s, sink.attribution), Entered(announced, s), stop)

\* Fault: leaving any scope leaves them all.
LeftAll == [sink EXCEPT !.attribution = None]

\* leave: the terminator belongs to the enclosing scope.
Left == [sink EXCEPT !.attribution = Top.previous]

\* finish, suspend, fail
ConcludeSubagent ==
    /\ Inside("subagent")
    /\ \E stop \in Stops, e \in {SubagentFinished(Top.id), SubagentError(Top.id)} :
          Write(EmitUnless(stop, Left, e), stop)
    /\ alive' = Pop

\* Fault: a dropped scope goes on tagging.
DropSubagentInScope ==
    /\ Inside("subagent")
    /\ alive' = Pop
    /\ UNCHANGED <<sink, cancelled, refused, run>>

\* Dropped without an outcome: only the attribution is restored.
DropSubagent ==
    /\ Inside("subagent")
    /\ sink' = Left
    /\ alive' = Pop
    /\ UNCHANGED <<cancelled, refused, run>>

-----------------------------------------------------------------------------
\* The agent returns, every handle gone, and the driver terminates the run.
Return(outcome) ==
    /\ run = "running" /\ alive = <<>>
    /\ sink' = [Terminated(sink, outcome) EXCEPT !.queue = <<>>]
    /\ run' = IF Terminated(sink, outcome).queue[1] = RunFinished
              THEN "finished" ELSE "failed"
    /\ UNCHANGED <<alive, cancelled, refused>>

Over == run # "running" /\ UNCHANGED vars

Next ==
    \/ \E i \in Ids : StartMessage(i) \/ StartToolCall(i) \/ StartReasoning(i)
    \/ \E i \in Ids : AnswerToolCall(i)
    \/ \E k \in ChunkKinds : Delta(k)
    \/ EndLeaf("text") \/ EndLeaf("tool")
    \/ SignToolCall \/ SignReasoning
    \/ CloseReasoning
    \/ \E n \in StepNames : StartStep(n)
    \/ FinishStep
    \/ \E s \in Subagents : StartSubagent(s)
    \/ ConcludeSubagent
    \/ DropSubagent
    \/ \E o \in Outcomes : Return(o)
    \/ Over

Spec == Init /\ [][Next]_vars

-----------------------------------------------------------------------------
(* Properties *)

TypeOK ==
    /\ sink \in Sinks
    /\ alive \in Seq(Handles) /\ Len(alive) <= MaxDepth
    /\ cancelled \in BOOLEAN /\ refused \subseteq Writes
    /\ run \in {"running", "finished", "failed"}

\* A handle that exists can always write and always close: whatever ids, steps
\* and subagents nest in whatever order, no delta, no terminator and no tool-call
\* signature of a live handle is refused until the run is cancelled.
NeverRefused == refused \subseteq {"reasoning signature"}

HandleFor(kind, id) == \E n \in DOMAIN alive : alive[n].kind = kind /\ alive[n].id = id

\* What the verifier holds open is what the handles alive will close, so a run
\* that unwinds leaves nothing open; a subagent dropped without an outcome stays
\* active, and cancellation strands what it cut off.
OpenIsAlive ==
    ~cancelled =>
        /\ \A k \in ChunkKinds, i \in Ids : S!IsOpen(sink.verifier, k, i) <=> HandleFor(k, i)
        /\ \A i \in Ids : S!IsOpen(sink.verifier, "block", i) <=> HandleFor("reasoning", i)
        /\ \A g \in Owner, n \in StepNames :
              <<g, n>> \in sink.verifier.steps => HandleFor("step", n)

\* The scope in force is the innermost subagent alive, also after any mix of
\* finished, failed and dropped scopes.
AttributionIsInnermost ==
    LET scopes == {n \in DOMAIN alive : alive[n].kind = "subagent"}
    IN  IF scopes = {} THEN sink.attribution = None
        ELSE \E n \in scopes : /\ \A m \in scopes : m <= n
                               /\ sink.attribution = alive[n].id

=============================================================================
