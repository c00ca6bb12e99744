# ag-ui-rust in TLA+

A verification project for the Rust implementation of the AG-UI protocol
(`crates/ag-ui`, `crates/ag-ui-a2ui`): TLA+ modules translated from the source,
TLC runs over small instances, and TLAPS proofs of what matters most. The
machine-readable index is `PROJECT.json`: components, runs, the mutation that
each property detects, the source lines of every definition, hazards, findings
and theorems. Paths below are relative to `crates/ag-ui/src/`, or, where a
section is about A2UI, to `crates/ag-ui-a2ui/src/`, unless they start with
`crates/`.

## 1. The system

An *agent* (server side) answers a *run* requested by a *thread* (client side)
with a stream of typed events. Everything between the two is a pipeline:

    Agent::run ── handles ── EventSink ──────────────── RunStream ── HTTP/SSE ──
                  (RAII)     attribution, transformers,  (drives      (axum,
                             server verifier, state      the agent)    transport)
                             baseline, bounded queue

    ── SSE decoder ── Legacy / enforcement ── ChunkNormalizer ── client Verifier
       ── Applier ── Thread (messages, state, interrupts, subagents)

On top of it an agent may have a model write *A2UI*: operations on surfaces that a
renderer draws. They are published as events, recorded in the conversation, and
read back from it when the user asks for a change:

    model ── parser ── recovery loop ── Validator(catalog) ── ops ── events ── history
                or  StreamParser (piece by piece)                └── SurfaceStore (screen)

| Part | State it keeps | Operations | What makes it correct |
|---|---|---|---|
| Cancellation token, `server/cancel.rs` | a flag, a locked list of wakers | `cancel`, poll and drop of `Cancelled` | no lost wakeup, one registration per future, `cancel` never deadlocks on a waker |
| Server verifier, `server/verify.rs` | open messages, calls, blocks, steps, subagents; owner of everything ever seen | `observe(event)` | lets through only what a consumer can follow; agrees with the client's |
| Event sink, `server/emit/mod.rs`, `server/state.rs` | verifier, attribution, active subagents, published state, terminated/overflowed, queue | `emit`, `emit_forced`, `send`, publish | one terminal, queue within its limit, patches computed against what the consumer holds |
| Run driver and stream, `server/run.rs` | driver future, queue | `poll_next`, `drive`, `terminate` | RUN_STARTED first, exactly one terminal last, the stream ends |
| Handles, `server/emit/*.rs`, `server/context.rs` | borrow stack, "ended" flag, previous attribution | open, write, close, drop, suspend, fail | every opened entity is ended, under the right owner, in every drop order |
| Transformers, `server/transform.rs` | dropped calls, results to promote, hidden ids, one open stream per owner | `transform(event)` | what comes out is a legal stream, and exactly what should be seen |
| HTTP binding and encoding, `axum/*.rs`, `encode/*.rs` | the response body with its source and disconnect guard | negotiate, extract, poll, drop | refusals have a cause, a gone client cancels the run before its source goes |
| Transports, `client/transport/*.rs` | the decoder's buffer and frame | push, finish | frames do not depend on how the bytes were cut |
| Enforcement and legacy upgrade, `protocol.rs`, `client/enforce.rs` | the ids of the legacy block in progress | `enforce`, `translate` | newer additions vanish with what requires them, nothing malformed passes |
| Chunk normalizer, `client/chunks.rs` | streams in flight, which of them are owed an END | `normalize(event)` | expands chunks into brackets nobody can tell from explicit ones |
| Client verifier, `client/verify.rs` | as the server's, written independently | `verify(event)` | refuses nothing a conforming server sends |
| Applier, `client/apply.rs` | messages, calls, reasoning, activities, subagents, state | `apply(event)`, aborts, restore | the transcript the next request carries, with the verifiers' owners |
| Thread, `client/thread.rs` | interrupts, decided calls, submission, run ids, last end; one borrowed `RunStream` | prepare (`run`, `send*`, `resume*`), poll, abort, drop, snapshot, restore | decisions go out once, calls get answered, snapshots restore |
| A2UI surfaces, `model.rs`, `surface.rs`, `binding.rs` | a data model, components and catalog per surface | `replay`, set, remove, resolve a binding | the same on both sides of the wire; a template reads as it was written |
| A2UI validation, `catalog.rs`, `validate.rs` | none | read a catalog, judge components, batches, updates | accepts only what can be drawn, refuses nothing the schema admits |
| A2UI toolkit, `toolkit/*.rs`, `author.rs` | none between turns: the history is the state | generate with recovery, author, replay history, negotiate, prune | what history replays is what is on screen |
| A2UI streaming parser, `toolkit/streaming.rs` | scan position, cache of components, what was yielded, placeholders | `process_chunk` | the same picture whatever the cuts, and never half of one |

What is hard here: the token is shared between threads; the driver is polled
only when its queue is empty and may never return; cancellation, disconnect,
overflow and a self-terminating agent meet in one poll; one emit may become
several events and fail in the middle; two verifiers, a normalizer, every
filter and the applier keep separate accounts of the same stream; handles unwind
in drop order; a thread survives runs that fail, are aborted, dropped, or die
with the process after a decision was put on the wire; a response body is
dropped between any two polls; bytes arrive cut anywhere; a peer may speak a
newer protocol or a retired one; and the A2UI agent has no memory but what it
can read back. `PROJECT.json` lists these as hazards, each at its line.

## 2. The modules

`Events` is the shared vocabulary: events as records with the fields the rules
read (type, kind, id, tag, parent). Text and names are left out. The tag of state,
RAW and CUSTOM events is constrained by nothing that is modelled. Definitions
marked `Fault:` are not part of any model: each is a plausible bug;
`PROJECT.json` says which definition it replaces and which property then fails.

### The server

**`CancellationToken`** – one action per atomic access or lock section:
`Swap`/`Take`/`Wake`/`Return` inside `cancel`, `Load`/`Lock`/`Recheck`/`Register`
inside `poll`, `Drop`. A wake runs executor code on the canceller's thread; the
interesting thing it can do, dropping another `Cancelled`, is `DropInline`.

**`ServerVerifier`**, **`ClientVerifier`** – `Accepts(v, e)` and the state after
`e`, for every event kind, translated from the two files separately and never
from each other. `RunRules`, `StreamRules`, `ContinuationRules` and `ScopeRules`
are the arms of the `match`. A refused event can leave a trace on the server
(`Residue`: a chunk removes the open message before its owner is checked).

**`EventSink`** – `emit_forced`, `send`, overflow, `Baseline` and `Decisions`
(the publish) as operators on a sink record. A patch is the function it is on
documents, so a patch that does not apply to some document exists; sizes decide
between patch and snapshot, so both are allowed. Here transformers are those
that drop, restate or follow a state event (the real ones are in
`Transformers`); nobody can hold the receiving end but the stream, so a
disconnected sink does not arise.

**`ServerRun`** – the driver around any agent and the `RunStream` that polls it:
`PollDriver`, `Begin`, `Emit`, `Publish`, `Await`, `Return`, `Yield`, `Close`,
with `Cancel` and `Wake` from other threads at any moment and `Disconnect`
between polls. **`RunLifecycle`** is the abstract specification: the sentence of
the `Runner::run` documentation as a state machine over what a consumer saw.
`ServerRun` implements it with the identity on `seen` and `stream`, everything
else (sink, queue, driver, polling, wakeups) being hidden.

**`Handles`** – the stack of live RAII handles over an `EventSink` whose queue is
drained at once. Each borrows the context, so only the top is usable. Dropping
emits best-effort; cancellation may strike between any two emits, also between
the two events of a closing reasoning handle.

**`Transformers`** – `FilterToolCalls` (denying; promoting or replacing a result),
and `SubagentFilter` (inline, hidden), one record `f` holding the state of any of
them; `Transform(f, e)` is the filter afterwards and the events it passes on,
`Chained` runs a list of them.

### The client

**`ChunkNormalizer`** – `Normalize(open, e)` returns the expanded events and the
streams in flight. Every chunk is taken to carry a delta.

**`WireAgreement`** composes the verifiers and the normalizer: an agent emits, the
server verifier refuses or passes (a refused agent may carry on), what passes is
normalized and verified by the client, which stops at its first complaint.
`Orderly` says which producers it is about (§ 6 has what happens to others); the
run's five kinds of agent are checked to be of that sort (`ProducersAssumption`).

**`Applier`** – `Apply(a, e)`: messages, calls, results, activities, reasoning,
signatures, snapshots and subagents, each with the owner the applier records,
and which message carries which call.

**`Transcript`** extends `WireAgreement` to everything a run's events pass. The whole
line is `WireAgreement`'s run, in its variables, with an applier at its end
(`applier`); `shown` is the same run behind a chain of transformers (`chain`), a
record of the same parts; `raw` is an applier fed the chunks directly. `BeginBoth` is
the driver's RUN_STARTED, `Utter` one event of the agent, which passes all three
(`Send`, `Handled`, `Handle`). `Tidy`, `Orderly`, `Sorted` and `Plain` say which
producers it is about: those that use ids as the handles do (§ 6 has what happens to
others).

**`ClientThread`** – the conversation. `thread` is what a `ThreadSnapshot` saves,
`stream` is the `RunStream`. The actions are the calls an application makes
(`Run`, `Resume`, `SendAnswer`, `PushAnswer`, `Drop`, `Abort`), the steps of
`poll_next` (`Register`, `Check`, `Dispatch`, `Expired`, `Receive`, `Pending`,
`Yield`), the clock (`Expire`), and `Restart`: another process restores the
snapshot of this very moment, also in the middle of a run. `Receive` is one
event through `ingest`, `handle`, the client verifier (instantiated, not
re-modelled), the applier and `emit`; a MESSAGES_SNAPSHOT (`Restated`) is merged
into the transcript slot by slot, as `merge_snapshot` does (`Place`, `Merged`).
`sends`, `owed` and `ends` are history
variables: how often the pending answers went out, which calls the server
started, restated or listed and nobody answered, how each run was reported to end.

### Between them

**`SseFraming`** – frames and comments as they are written, in this server's style
and in those other servers use (CR, LF, CRLF, split payloads, a byte order
mark), and the decoder's `push` and `finish` byte by byte, with the size limit. A
byte is one atom: a field name, a value, a line break.

**`Enforcement`** – `enforce` of `protocol.rs` over a schema given as a constant:
what is cut off, what is unknown where it is required, what is malformed.
Documents are records of their members; numbers keep whether they are integers.

**`LegacyUpgrade`** extends it by `Legacy::translate`, the ids it draws, and the
decoding into `Events`.

**`Requests`** – negotiation, extraction, and which refusal is told first.

**`ResponseBody`** – the body of a streaming response, which owns its source and the
guard that cancels the run (`Send`, `Complete`, `Fail`, `Failed`, `Report`, `Reported`),
dropped once the connection is noticed to be gone, the guard before the source
(`Notice`, `DropBody`), and the connection as far as it concerns it (`Answered`,
`HangUp`, `Die`). `tripped` is the token of the run.

**`HttpRun`** composes the five: it extends `ResponseBody` by the bytes its steps put on
the wire (`Sending`, `Reporting`) and by the client (`Connect`, `Receive` in reads of
any size, `BodyEnd`, `Broken`, `Leave`).

### A2UI

**`DataModel`**, **`Surfaces`** – the data model as a function from paths to what
stands there, and the store that replays messages.

**`Binding`** – what a property comes to when it is drawn: paths in a scope, the items
of a list, dynamic values, and the templates of `formatString` with their
expressions, read character by character as `binding.rs` does. The other half of
the module writes expressions down (`Written`) and says what they mean
(`Meaning`), which is what reading them is compared with. `MCBinding` chooses them.

**`Catalog`** – what a catalog document says of its components: `Kinds` of every
property read through `allOf`, `anyOf`, `oneOf` and references, which properties
hold component ids, and what may stand where.

**`Validator`** – what is reported of a list of components with its model, a
batch, and updates to surfaces already shown, with the depth-first search as
the code does it.

**`Generation`** – an agent writing surfaces over turns: `Create`, `EditLatest`,
`AuthorCreate`, `AuthorEdit` ask, `Answer` and `ProviderError` are the model,
`Publish` and `ReportFailure` put the outcome into the history. `screen` is the
renderer; the agent itself has no state but the turn.

**`StreamParser`** – the incremental parser and the renderer it feeds. `Scan` reads
a token; `Return` is the end of a chunk, where unfinished components and data are
sniffed, topology is analysed and what can be drawn is yielded.

**`Contract`** – operators for `toolkit/negotiate.rs` and `toolkit/schema.rs`: the
registry of catalogs, what both sides agree on, and the pruning of a bundle.

## 3. The runs

| Run | Instance | States | What it shows |
|---|---|---|---|
| `cancel` | 2 cancelling threads, 2 futures, 2 wakers | 21 k | `NoLostWakeup`, `OneRegistration`, `CancelReachesWaiters`, `CancelReturns` |
| `wire` | 3 ids, 3 subagents, 1 step; five kinds of agent | 88 k | `ClientAccepts`, `SameOwners`, `SameOpen` |
| `server_run` | 1 message, 1 subagent, 2 documents and all 9 patches between them, queue of 2, 4 emits | 112 k | `KeepsPromise`, `StateAgrees`, `WithinCapacity`, `NothingAfterCancel`, `TerminalDelivered`, `StreamEnds` |
| `handles` | 1 id, 2 subagents, 1 step, depth 4 | 35 k | `NeverRefused`, `OpenIsAlive`, `AttributionIsInnermost` |
| `thread` | 2 calls, 2 interrupts, 2 subagents, up to 4 runs; seven settings | 858 k | `DecidedOnce`, `SnapshotRestores`, `NothingInFlight`, `TerminalStands`, `CallsAnswered`, `AbortEndsRun` |
| `transcript` | 4 ids, 2 subagents, 1 step, 2 tools; sixteen settings of events and chains | 60 k | `VerifiedIsApplied`, `FilteredIsAccepted`, `OwnersAgree`, `ShownIsVisible`, `RawAssembles` |
| `transport` | every framing, frames of 3 and 4 atoms under limits of 5 and 6; 14 event types; requests of 2 ranges | 105 k | `ReceivedIsSent`, `RefusedOnlyForCause`, `CancelledBeforeDropped`, `GoneIsCancelled` |
| `generation` | 2 surfaces, 2 components, 2 attempts, 3 history entries; 642 templates in 2 scopes | 131 k | `ScreenIsReplayed`, `ShownIsSound`, `EveryAttemptIsTold`, `TemplatesRender` |
| `stream` | 21 responses of up to 5 messages, 2 catalogs | 4.7 k | `DrawnWhole`, `RenderedIsReplayed`, `FailsOnlyOnBad`, `ReadsLoosely`, `AgreesOnContracts` |
| `generation_quoted` | as `generation`, an error that quotes the tags is recorded as text | – | finding 1: `FailuresContributeNothing` fails |
| `thread_ancestry` | 2 subagents, 2 runs | – | finding 2: `SnapshotRestores` fails |
| `stream_turned` | one response that turns two components about | – | finding 3: `FailsOnlyOnBad` fails |

The type invariants (`TypeOK`) of the token, `ServerRun`, `Handles`, `ClientThread` and
`WireAgreement` are theorems, § 5; that of `Transcript` documents the state and holds
in the instances above.
Deadlock is checked where a module names the states in which nothing is left to
do (`Stopped`, `Over`, `Abandoned`); a response that was read, an HTTP exchange and a
conversation simply stop, so `stream`, `transport` and `generation` do not check it.

### What the properties say

* *The wire.* `ClientAccepts`: the client refuses nothing the server let through.
  `SameOwners`, `SameOpen`: they agree on who owns what and on what is open, event
  by event.
* *The run.* `KeepsPromise` is the refinement of `RunLifecycle`. `StateAgrees`: the
  baseline patches are computed against is what the consumer will hold.
* *The transcript.* Two verifiers, a normalizer and an applier are four accounts of
  one stream. `VerifiedIsApplied`: the last finds every entity where the others
  have it. `OwnersAgree`: under the same owner. `FilteredIsAccepted`: the rest a
  filter leaves is refused nowhere. `ShownIsVisible`: what the consumer of the
  filtered run holds in the end is the unfiltered transcript, filtered: nothing
  missing, nothing left. `RawAssembles`: an applier that resolves chunks by
  itself comes to the same.
* *Transport.* `ReceivedIsSent`: a prefix of what was sent, all of it if the body
  ended well, whatever the cuts. `RefusedOnlyForCause`: every refusal and every
  error has a cause named independently of the code (a reference definition over
  the newer protocol's schema, over frames, over the request).
  `CancelledBeforeDropped` and `GoneIsCancelled`: the guard.
* *Generation.* `ScreenIsReplayed`: what history replays is the screen, surface by
  surface. `ShownIsSound`: every surface shown can be drawn, stated over sets of
  ids and not by the validator's searches, so a search that misses a cycle shows. `EveryAttemptIsTold`: each attempt is
  prompted with the errors of the one before. `TemplatesRender`: a template comes to
  what it was written from, whatever quotes, braces, commas and colons its strings
  hold, and one that is cut inside an expression fails; a pure function, evaluated
  once over all its templates.
* *The streaming parser.* `DrawnWhole`: no moment at which a component refers to
  one that is not there. `RenderedIsReplayed`: the end is what the whole response
  replays to, whatever the cuts. `FailsOnlyOnBad`: no sound response fails.
  `ReadsLoosely`: what a component's schema admits, the catalog read from it has
  nothing against. `AgreesOnContracts`: an alias is a name and no more, relaxing
  changes strictness and no more, a pruned union offers what is defined, and a
  shared type survives exactly as long as something points at it. The last two
  are about pure functions: evaluated over all their inputs in one initial state.

### Bounds, and why they are enough

* *cancel.* A lost wakeup needs one cancelling thread and one future; two
  threads race for the swap, two futures let one wake drop the other, and two
  wakers let a future change hands. The theorems cover every number of each.
* *wire.* A disagreement about ownership needs two ids (a call and the message
  that carries it), two owners besides the parent to contradict each other, and
  a third subagent for nesting; normalizing needs a third id so that chunks and
  brackets interleave. The rules of text, reasoning and scopes do not read each
  other's entries except through `RUN_FINISHED`, so the five kinds of agent
  (`EmitsOf` in `MCWire`) keep together only what interacts: messages with tool
  calls, results, signatures and restated histories; reasoning; scopes and
  activities; chunks of text and tools; chunks of reasoning. Runs are unbounded:
  the verifiers' state is finite. Producers of chunks tag one id always and the
  other never, and use an id either bracketed or as chunks (§ 6 says what happens
  to others).
* *server_run.* Two events fill the queue within one poll, so overflow happens
  with emits to spare; four emits allow snapshot, patch, refused event and
  terminal in one run (`MaxEmits`). Two documents are enough for a patch to
  apply to one and not to the other.
* *handles.* Depth 4 nests a subagent in a subagent with a step and a leaf
  inside (`MaxDepth`); two subagents give two attributions to mix up.
* *thread.* A decision sent twice takes three runs: one that asks, one that
  answers and fails, one that would answer again; a call asked about, decided and
  then listed as pending after all takes a fourth to answer it. The settings (`Ordinary` in
  `MCClientThread`): interrupts about a call and others; two calls in one
  message; nested subagents; a thread that does not verify; a server that starts
  a call again; a call listed after it was decided; a server that clears or restates
  the conversation, with a call, with its answer, with the answer before the call. A
  restated conversation lists each id once (`RestatedAssumption`, § 6). Run ids are taken in order, which loses nothing: they are only
  compared for equality. The server is honest in one respect: the pending calls it
  lists in a terminal are calls that were started or decided.
* *transcript.* Each setting keeps together the events a transformer's rules read
  and the transformer (`All` in `MCTranscript`): messages with calls and restated
  histories, calls of two tools with results that are and are not JSON, chunk
  streams of two owners with chunks that name no id, reasoning, scopes. Runs are
  unbounded within the finite state; `Tidy` is the assumption on producers.
* *transport.* A frame is three atoms (field, payload, break; four where the break
  is CRLF or the payload split), so limits of 5 and 6 admit one frame and not
  two; reads return one byte, four, or all. Documents: the six current kinds of
  a run, seven of a newer protocol (a new event, a new union member, enumeration
  member and property at several depths), eleven broken ones, and every legal
  run of up to three retired events. The schema is the part of
  `protocol/schema-1.0.json` they exercise, 14 of its events and the input.
* *generation.* Two surfaces and two components allow a self-reference, a
  two-cycle, a removed root and an edit of the wrong surface; two attempts are one
  retry; three entries are a creation, a change and a deletion or failure
  (`MaxEntries`). Depth limits are scaled down (`MaxDepth` = 5; `MaxNesting` = 2 and
  `MaxValueDepth` = 3 for templates). Templates: every character an expression is
  cut at, alone and beside either quote, as a string, in a call, in braces and in
  a template within; and all of these nested one deeper than is allowed.
* *stream.* Thirteen sound responses and eight the validator refuses, each cut at
  every token (`Whole`, `Refused` in `MCStreamParser`), fields in both orders;
  they reach placeholders, re-yielding, deduplicated data, deletion and
  re-creation, and two surfaces. `ReadsLoosely` takes every schema two
  combinators deep and a part of those with three; `AgreesOnContracts` every graph
  of at most one reference from each of three shared types.

### Fairness

* `CancellationToken!Fairness`: a thread inside `cancel` and a poll run on (they
  are code without waiting except for the lock), and an executor polls a task
  whose waker was woken. Nobody need ever cancel, poll a first time or drop.
* `ServerRun!FairSpec`: the executor polls a woken stream, and a poll of the
  agent comes back (it awaits or returns). What the agent awaits may never
  become ready, and cancelling it need not end it.
* `ClientThread!FairSpec`: a woken consumer polls, a poll comes to its end, and
  so does a call of `abort`. The server may be silent for ever.
* `HttpRun!Spec`: the server's connection task notices the gone peer and drops the
  body (`Notice`), and a drop or a report that has begun runs to its end (synchronous
  code). The source may be silent, the client may never read.

## 4. The findings

1. `generation_quoted`: the error of a response without tags quotes the tags
   (`toolkit/parser.rs:99-101`); recorded as text in the history it is read as a
   block, fails to parse, and with it the replay of every surface
   (`toolkit/history.rs:212`), against "it contributes no operations".
2. `thread_ancestry`: the applier keeps a subagent's parent across runs when an
   announcement names none (`client/apply.rs:1320-1324`), the verifier starts
   afresh; two legal runs leave a cycle, and the snapshot does not restore.
3. `stream_turned`: components of an update replace their cached versions one at a
   time (`toolkit/streaming.rs:654`), so a chunk that ends between two of them
   judges old and new references together; turning a path of a live surface
   around fails on a loop that the next component would undo, though the comment
   says no further input can.

## 5. What is proved

`CancellationProofs`, of the token (`Spec => []P` for every set of threads, futures and
wakers). The inductive invariant adds to the two properties: who holds the lock
is in the section it guards (`LockInv`); once a thread inside `cancel` has
drained the list it stays empty, because every registration re-checks the flag
under the lock (`Drained`); what was taken belongs to a thread that is waking
(`TakenInv`); and every sleeping future is accounted for by a registration, a
taken entry or a wakeup done (`Accounted`). `NoLostWakeup` is not inductive by
itself: it says nothing of a list that is not yet drained.

* `TypeCorrect`, `WakeupSafety` (`NoLostWakeup`), `RegistrationSafety`
  (`OneRegistration`).

The same module proves of the response body, for every set of plans, that the run is
cancelled before the source is dropped, whenever the client leaves and whichever way
the body ends. The invariant (`BodyInv`) follows the body through its states: up to a
failure or a notice the guard is armed and the token untouched; from then on a tied
run is cancelled (`Told`), and a source is over only in a body that ended well.

* `CancellationPrecedesDrop` (`CancelledBeforeDropped`).

`EventSinkProofs` holds the lemmas about the sink for every verifier state,
capacity and event: each send appends at most the event or the reserved
`RUN_ERROR` (`SendGrows`, `OverflowGrows`), nothing follows a terminal because
the verifier has ended (`Agreeing`), a transformed emit is a sequence of sends
(`EmitGrows`), and `terminate` always leaves the sink terminated
(`TerminatedTerminates`). `ServerRunProofs` proves of the whole run, for every
set of ids, owners and documents, every capacity and number of emits:

* `TypeCorrect`, and `PromiseKept`: `Spec => RunLifecycle!Spec`, by a refinement
  in which every step of the run is a step of the lifecycle or a stutter. The
  strengthening is `Streaming`: what the consumer has seen and what is queued
  are together a RUN_STARTED, ordinary events and at most one terminal, last;
  and a driver that is gone leaves a terminated sink. Without the queue the
  property is not inductive, since the promise about the next event is decided
  when it was enqueued.
* `CapacityKept` (`WithinCapacity`). The strengthening is `Agreeing`: a sink that
  overflowed has ended its verifier, so the reserved `RUN_ERROR` is taken at most
  once, by a queue that is exactly full; every event of a transformed emit is
  counted by itself (`SendStaysBounded`, `EmitStaysBounded`).
* `CancelledAgentIsMute` (`NothingAfterCancel`), an action property: of the steps
  that make the queue longer only `Begin` and `Return` are left once the token is
  tripped, and the sink is not terminated then, so `Terminated` adds one event
  (`TerminatedTerminates`), the terminal.

* `PatchesFit` (`StateAgrees`): whatever is queued, a copy that starts as the one the
  consumer holds has become the baseline once all of it is applied. The invariant
  says so of *every* function that drains the queue (`Drains`), because a queue
  grows at its end and is read from its front: an append extends such a function,
  a read drops its first value.

`HandlesProofs`, for any ids, steps and subagents and any nesting of handles. The
strengthening relates the stack to the verifier (`InStep`): what is open is the leaf
on top, under an owner the scope's tag agrees with (`LeafOpen`); the steps open are
those on the stack, each under the scope it was opened in (`StepsOpen`); the
subagents on it are different ones and active (`SubagentsOpen`); and every subagent
handle restores the scope below it (`Attributed`). All but the last holds only while
the run is not cancelled: afterwards nothing is emitted.

* `HandlesTyped`, `HandlesAreNeverRefused` (`NeverRefused`), `HandlesCloseWhatIsOpen`
  (`OpenIsAlive`), `ScopeIsInnermost` (`AttributionIsInnermost`).

`ClientThreadProofs`, for any calls, interrupts, subagents and number of runs, through
failures, aborts, drops, and restores in the middle of anything.

* `TypeCorrect`; `TerminalsStand` (`TerminalStands`), by `RunsAgree`: the active run is
  the stream's, and what was not dispatched has not ended.
* `DecisionsGoOutOnce` (`DecidedOnce`), by `SubmissionAgrees`: no submission means
  nothing was sent, and no run is prepared beside one.
* `NothingLeftInFlight` (`NothingInFlight`), by `SubagentsAgree`: a running subagent is
  one the verifier holds open, and a verifier that accepts RUN_FINISHED holds none.
  Hypothesis: a thread that does not verify meets no subagents. Without it the
  statement is false: nothing else brackets them, and a run that ends well may
  leave one running (the setting that does not verify announces none).
* `RequestsAnswerCalls` (`CallsAnswered`), by `AnswersAgree`: what is owed is in the
  transcript or on the server's list and is decided only where the list asks for it
  again. Hypotheses: no call is carried by a tool message, neither because a
  TOOL_CALL_START names one as its parent nor because the name made up for a
  message that carries a call is an answer's, and no restated conversation gives the
  id of a tool message to another sort or the other way round (`Told`). The code does
  not exclude it, and such a call counts as answered.
* `SnapshotsRestore` (`SnapshotRestores`), by `SnapshotAgrees`. Hypotheses: as for
  `NothingLeftInFlight`; that the announced ancestry has no cycle, which finding
  2 shows to be necessary; and that no restated conversation lists an id twice
  (`Distinct`), necessary too (§ 6): what is merged are then the messages of the
  snapshot, each once, in some order (`MergedFacts`).

`WireProofs`, for any agents that keep to `Orderly`, any ids, subagents and steps: two
independent implementations of the rules, with a rewriting stage between them, do not
drift apart. The invariant `IInv` says, as long as the client's stream has not failed:

* `Alike`: the verifiers agree on the run, on every owner, step and subagent.
* `InFlight`, while the run lasts: the normalizer holds one stream per owner; each of
  them is open at the client for an owner it agrees with (`Entry`); one that is owed an
  END comes from chunks, and the producer knows its owner too; one that is not is
  bracketed. What the producer holds open is bracketed and open at the client for the
  same owner; what else is open there is owed an END; and an open reasoning block
  belongs to the recorded owner of its id, since that is what the client judges its END
  by.

None of the properties is inductive alone: whether the client takes an event depends
on what it has open and for whom, which the normalizer has changed with ENDs and
STARTs of its own, made from its own account of owners. The proof has one lemma per
kind of event (`OnStart`, `OnContent`, `OnEnd`, the blocks, `OnNamed`, `OnNameless`,
`OnResult`, `OnFinished`, `OnError`, `OnUnstreamed`); they rest on lemmas about what
each verifier makes of an event it accepts, about the three recursive walks (the
events of one ingest, `CloseAll`, `Others`), and on what may happen to streams in
flight: some are closed (`StillInFlight`), one goes on (`Joined`), one begins
(`Begun`), owners change elsewhere (`Reowned`). TLC checked `IInv` in the setting of
run `wire` before.

* `Consistent` (`IInv`), `TypeCorrect` (`TypeOK`), `ClientNeverRefuses`
  (`ClientAccepts`), `OwnersAreShared` (`SameOwners`), `OpenIsShared` (`SameOpen`).

Their hypothesis is that every agent is `Orderly`; the run's agents are, by
`ProducersAssumption` of `MCWire`. The server verifier does not enforce it, and the
proof uses each part where section 6 (*Wire*) tells of what goes wrong without it.

`TranscriptProofs`, for any agents that keep to `Orderly` and `Sorted`, any ids,
subagents and chains of transformers: the applier, which trusts the verifier before it
and keeps indices of its own, can apply whatever the verifier lets through, and
attributes it alike. The invariant `TInv` is `IInv` and, while the whole line goes on,
`Fits`, which relates the applier to the client's verifier:

* `Conversation`: ids are distinct; every message stands under its id for the owner the
  verifier recorded, or was made up for a call; its calls have the same owner and are
  found again through the index of carriers.
* `Held`: whatever the verifier holds open, or records as an activity, the applier has,
  as a message of the sort the events about it expect.
* `Thoughts`: the same of the reasoning beside the conversation.
* `Unclaimed`: the ids that the agent streams in untagged chunks are nobody else's.

`VerifiedIsApplied` is not inductive alone, since an event can be applied only if what it
names is held. There is one lemma per kind of event (`TextBegins`, `CallBegins`,
`ThinkingBegins`, `StreamGoesOn`, `StreamEnds`, `CallAnswered`, `ActivityMoves`,
`ConversationRestated`, `ValueSigned`, `AsideTaken`). An event is normalized into several
and handled one by one: at most one of these is neither an END nor content, and only
ENDs come before it (`Led`), so that what was due of it before the walk still is when
it is reached (`Due`, `DueStill`, `Followed`). A snapshot is merged by two passes over
two lists; `MergedFacts` says what is in the outcome, and for whom.

* `TranscriptConsistent` (`TInv`), `VerifiedApplies` (`VerifiedIsApplied`),
  `TranscriptOwners` (`OwnersAgree`).

Their hypotheses are that every agent is `Orderly` and `Sorted`, which
`ProducersAssumption` of `MCTranscript` checks of the run's agents. `Sorted` asks that an id
stands for one sort of message; that snapshots are well stated, do not come between
chunks and leave alone the activities and thoughts the agent publishes by events of
their own; and that a run begins without history (`Replays`). Section 6 (*Thread and
transcript*) has what the code does with others.

`RawProofs`, for any agents that keep to `Orderly`, `Sorted` and `Plain`: an applier may
be given the chunks as they are, and resolves them by an account of its own (one slot
of text and one stream of reasoning per owner), or what the normalizer makes of them.
The two come to the same conversation, calls and thoughts. The invariant is `TInv` and
`RInv`: as long as both go on,

* `SameView`: they hold the same messages, carriers and thoughts. Their accounts of what
  is in progress differ, since only one of them sees the normalizer's STARTs and ENDs.
* `Sound`, of the applier fed directly, which does not see the normalizer's ENDs: where
  an owner leaves the id out of chunks, every stream his chunks named and that is held is
  still open, and nothing else is open for him (`Chunkwise`); the message that carries a
  call is the one its chunks name (`Hung`).

`RawAssembles` is the first part; it is not inductive without the second, by which a
chunk without an id goes where the normalizer sends it. An event other than a chunk does
the same to both (`SameApplied`, `PlainView`). A chunk becomes ENDs of other streams,
which change nothing that is compared (`EndsView`), perhaps a START (`OpenedView`), and
content; `TextOnce`, `ThoughtOnce` and `CallOnce` show that the applier's own chunk does
as much at once (`ChunkView`). `Plain` is used where section 6 (*Thread and transcript*)
has the two part.

* `RawTranscript` (`RawAssembles`).

The library's induction theorems take a predicate as a parameter, which no installed
prover can instantiate. `WireProofs`, `ServerRunProofs` and `ClientThreadProofs` begin
with induction over a *set* of numbers (`SetInduction`), derived from the
well-foundedness of finite sets under inclusion (`LeastNumber`). From it follows that
recursive functions over the numbers exist (`Recursion`, `Iteration`), so that what a
recursive definition computes can be reasoned about: draining a queue, walking up an
ancestry.

The proofs rest on the named assumptions of the modules (`EventsAssumption`,
`SinkAssumption`, `RunAssumption`, `HandlesAssumption`, `ThreadAssumption`,
`AbsenceAssumption`: an option that is `None` holds nothing; `TranscriptAssumption`: the id
made up for a call's message is nobody's; `PlansAssumption`; the token's), which TLC
evaluates in the runs, on the hypotheses their statements name, and on nothing
else.

Only model-checked: all liveness (fairness and ENABLED are out of the prover's
reach), and of the transcript what relates the filtered line to the whole one
(`FilteredIsAccepted`, `ShownIsVisible`): they would need this section's
invariants again for the shown line, behind a chain whose transformers each have to be
shown to keep a producer legal, orderly and tidy. Modules that
recurse with RECURSIVE operators (`Catalog`, `Enforcement`, `SseFraming`, `Binding`, and
with them `Validator`, `Generation`, `StreamParser`, `LegacyUpgrade`, `Requests`,
`HttpRun`) follow the source's recursion over documents and bytes; nothing can be
proved there and TLC is all there is.

## 6. Where code and documents differ, or the models stop

Met while modelling; the runs leave these cases out, by the assumption named.

*Wire* (producers that mix brackets and chunks of one id, or tag a chunk now and
then).
- An untagged chunk of a subagent's message is opened as the parent's once another
  stream of that subagent has closed it: `owner_of` (`client/chunks.rs:418`) looks
  only among the streams in flight, its comment (412-413) among all seen.
- A chunk ends the open message of its id at the server (`server/verify.rs:223`),
  while the client still holds it open.
- A `MESSAGES_SNAPSHOT` that gives an open reasoning block another owner: the client
  judges its `REASONING_END` by the new one.
- The signature of a reasoning block is judged by the owner of a text message with
  the same id (`server/verify.rs:383`); `Handles!NeverRefused` excepts it.

*Thread and transcript* (producers that are not `Tidy`, settings that `reuse`).
- A call started again keeps its place in the transcript (`client/apply.rs:929`), so
  `unanswered_tool_calls`, which reads the order on purpose
  (`client/thread.rs:627`), takes the old answer for the new call's.
- A TOOL_CALL_START that names a tool message as its parent, or whose made-up
  `<call>-message` is the id of one, is lost to it: a tool message counts as answered.
- A `MESSAGES_SNAPSHOT` that lists an id twice passes the client verifier
  (`client/verify.rs:385` only takes its owners), and `merge_snapshot` keeps both
  copies: one takes the place of the message, the other is appended
  (`client/apply.rs:786-790`). `validate_snapshot` (`client/thread.rs:1423-1429`)
  refuses the thread's own snapshot from then on: with `<<Says(m1, c1), Says(m1, c1)>>`
  among the restated conversations, which `RestatedAssumption` excludes, TLC finds
  `SnapshotRestores` violated.
- A thread that does not verify can end a run well with a subagent still running.
- Pending interrupts that have expired can neither be answered nor skipped
  (`client/thread.rs:1396`): the thread takes no further run.
- `fill_bare` (`server/transform.rs:799`) gives an id-less chunk the id of a bracketed
  message; the server verifier takes it as the end of that message.
- An applier fed chunks directly puts an id-less chunk's text into another message
  of the same owner when two are open (`client/apply.rs:519`), and refuses every
  id-less chunk of a tool call.
- A `MESSAGES_SNAPSHOT` that drops the message carrying an open call makes the next
  ARGS fail the run; so does a call whose parent is a user's message. A call under
  a parent that does not exist creates it with the call's owner.
- The filter that denies tools passes a call that a `MESSAGES_SNAPSHOT` carries,
  although its documentation promises "a stream that never mentions the tool"
  (`server/transform.rs:116-119`). No setting of `MCTranscript` pairs the two, so
  `ShownIsVisible` does not speak of it.
- An orphan `ACTIVITY_DELTA` before a merging snapshot leaves the activity without an
  owner; one minted again by a subagent stays stale behind a hidden filter.
- A result whose id names another message is lost.

*Transport and enforcement.*
- `check_frame_size` (`client/transport/sse.rs:163-175`) adds the frame just
  completed to the first bytes of the next, so two neighbouring frames within the
  limit may be refused if a read ends between them, although 157-162 speak of one
  frame (`Crowded` in `HttpRun`).
- A client that leaves after the terminal event, before the body was polled to its
  end, cancels the run (`axum/respond.rs:119-124` says otherwise).
- The frames completed in a push that fails are lost with it.
- `selected_branch` (`protocol.rs:260`) takes the first branch with any matching
  constant: a newer event that carries `role: "tool"` would be judged as a
  `TOOL_CALL_RESULT`. An unknown outcome of `RUN_FINISHED` is removed and so reads
  as success; an unknown operation of a patch is removed from it; an unknown
  enumeration member in a required field removes the event.
- `Accept: */*;q=0, */*` is 406: among equally specific ranges the first decides.
  An unknown resume status removes the whole entry, an unknown role the message.

*A2UI.*
- An update batch may create a second surface without a root; a creating batch that
  names another live surface validates but is refused by the renderer.
- A raw block with a trailing comma is accepted when generated and refused when
  replayed; an open tag with attributes or in capitals is seen by the parser and
  not by the history's test for it; an envelope whose text mentions the tag is read
  as a block. In `Generation`, answers are recorded as raw text only if strict.
- The depth limit depends on the order in which components are listed.
- `oneOf [ComponentId, string]` is structural, so plain text there is a dangling
  reference; `items` wrapped in `allOf` is not seen as a link.
- On unsound output only: a second `createSurface` of a live surface stays buffered
  and may be emitted for another surface; an error in a chunk loses the parts
  completed earlier in it.
- `prune_common_types` knows `common_types.json#/$defs/` and `#/$defs/`
  (`toolkit/schema.rs:326-331`), the bundled catalog writes
  `https://a2ui.org/specification/v0_9/common_types.json#/$defs/...`: pruning
  `SchemaBundle::basic()` drops every common type although its components point at
  them (19-22). `AgreesOnContracts` is about references by file name
  (`absolute` is FALSE in its bundles).
- The registry advertises its local name for a document without an id
  (`toolkit/negotiate.rs:177`), but selection refuses such a document, and with it
  every selection; two different documents of one id do the same.
- The branches of an inline bundle's union have no `$ref` of their own
  (`toolkit/schema.rs:86`), so pruning keeps those of removed components.
- In an expression, a string that ends in a backslash, or holds one before a quote,
  cannot be written (`binding.rs:435-468`): the scan takes the backslash for an
  escape, unescaping drops only those before quotes. A `formatString` inside an
  expression counts its depth from zero.

## 7. Assumptions and abstractions

*A2UI catalog.* Of a value only the kind of JSON is kept, a `$ref` is its name, an
array `type` a set of names; enumerations, descriptions and prompts are left out.
The compiled JSON schema (`SchemaAccepts`) is approximated by the summary's own
checks; what a reference means is taken from `schemas/v0_9_1/common_types.json`.

*Bindings.* A word counts as one character and a blank is the only white space; a
document is the pointers that lead somewhere; numbers are small (`MaxInteger`).

*Generation.* The host passes the store it observed as `prior`, recovery never edits
a surface the author owns, turns come one at a time, and in the passing run an
error that quotes the tags is reported as data (`CarefulHost`).

*Streaming parser.* Validation is on and the root is the default; text outside blocks
and strings cut in the middle are left out; components and values heal to what
their pieces say.

*Transport.* A byte is an atom and `Die` is the death of the server process, which
may look like a clean end. Decoding after enforcement loses nothing. Qualities are
tenths; of the input, tools and context are left out.

## 8. Not modelled, and why

`client/agent.rs`, `client/interrupts.rs` and the protocol's data types keep no state a
model would add to; the text of prompts and tool definitions,
files and globs are formatting or I/O; the examples and the website are
demonstrations, `xtask` and the end-to-end harness are development tools.
Of the modelled parts, left out are: `StateManager::publish`/`reset` by hand,
emits and publishes through a handle, chunks without a delta and
`ChunkNormalizer::finish`, the retired `THINKING_*` events at the server, typed
state, observers, diagnostics and explicit run ids of a thread, the users' messages
and activities of its transcript (`Transcript` has activities), metadata.

## 9. Plan

Everything of the first plan is modelled. What is left, in order:

1. Theorems: `FilteredIsAccepted`, transformer by transformer: each keeps a producer
   legal at the verifier, `Orderly` and `Tidy`, so that a chain does, and the theorems
   about the whole line hold of the shown one. The verifiers' lemmas of `WireProofs` are
   about arbitrary verifiers and can be cited; those about `streams` and `applier` are
   about the variables and have to be stated of a line first.
2. Abstract specifications: a thread as a register of decisions, each submitted at
   most once, implemented by `ClientThread`; `HttpRun` as a lossy prefix channel.
3. Strings cut in the middle and text between blocks, in `StreamParser`; typed state
   and observers of a thread.
4. Runs that expect a violation, for two cases of section 6: a restated conversation
   that lists an id twice, and a denied call in a `MESSAGES_SNAPSHOT`.
