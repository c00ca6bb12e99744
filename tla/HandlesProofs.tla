---------------------------- MODULE HandlesProofs ----------------------------
(***************************************************************************)
(* Handles, for any ids, steps and subagents and any nesting of them: the   *)
(* stack of handles alive and what the server verifier holds open stay in   *)
(* step for as long as the run is not cancelled, so no handle is refused.    *)
(***************************************************************************)
EXTENDS Handles, EventSinkProofs, SequenceTheorems

USE HandlesAssumption, EventsAssumption

\* The stack: leaves only on top, and ids of the handle's kind.
Shaped(a) ==
    /\ a \in Seq(Handles)
    /\ \A n \in 1..Len(a) :
          /\ a[n].kind \in ChunkKinds => n = Len(a) /\ a[n].id \in Ids
          /\ a[n].kind = "step" => a[n].id \in StepNames
          /\ a[n].kind = "subagent" => a[n].id \in Subagents

\* The scope handle n was opened in: the innermost subagent below it.
InForce(a, n, g) ==
    \/ g = None /\ \A m \in 1..(n - 1) : a[m].kind # "subagent"
    \/ \E m \in 1..(n - 1) :
          /\ a[m].kind = "subagent" /\ a[m].id = g
          /\ \A k \in (m + 1)..(n - 1) : a[k].kind # "subagent"

\* Every subagent restores the scope it was opened in.
Attributed(a, g) ==
    /\ InForce(a, Len(a) + 1, g)
    /\ \A n \in 1..Len(a) : a[n].kind = "subagent" => InForce(a, n, a[n].previous)

OnTop(a, kind, i) == a # <<>> /\ a[Len(a)].kind = kind /\ a[Len(a)].id = i

\* What is open is the leaf on top, and its owner accepts the scope's tag.
LeafOpen(v, a, g) ==
    /\ \A k \in ChunkKinds, i \in Ids : S!IsOpen(v, k, i) <=> OnTop(a, k, i)
    /\ \A i \in Ids : S!IsOpen(v, "block", i) <=> OnTop(a, "reasoning", i)
    /\ \A k \in Kinds, i \in Ids : S!IsOpen(v, k, i) => Agrees(g, v.open[k][i])
    /\ \A i \in Ids : S!IsOpen(v, "tool", i) => v.owner["call"][i] = v.open["tool"][i]

\* The steps open are those on the stack, each under the scope it was opened in.
StepsOpen(v, a) ==
    /\ \A n \in 1..Len(a), g \in Owner :
          a[n].kind = "step" /\ InForce(a, n, g) => <<g, a[n].id>> \in v.steps
    /\ \A p \in v.steps : \E n \in 1..Len(a) :
          a[n].kind = "step" /\ a[n].id = p[2] /\ InForce(a, n, p[1])
    /\ \A m, n \in 1..Len(a), g \in Owner :
          /\ a[m].kind = "step" /\ a[n].kind = "step" /\ a[m].id = a[n].id
          /\ InForce(a, m, g) /\ InForce(a, n, g)
          => m = n

\* The subagents on the stack are different ones, and active.
SubagentsOpen(v, a) ==
    /\ \A n \in 1..Len(a) : a[n].kind = "subagent" => a[n].id \in v.active
    /\ \A m, n \in 1..Len(a) :
          a[m].kind = "subagent" /\ a[n].kind = "subagent" /\ a[m].id = a[n].id => m = n

InStep(v, a, g) == LeafOpen(v, a, g) /\ StepsOpen(v, a) /\ SubagentsOpen(v, a)

\* A sink between emits, of a run that is not over.
Ready(s) ==
    /\ s \in Sinks /\ s.queue = <<>>
    /\ ~s.terminated /\ ~s.overflowed /\ ~s.verifier.ended

IInv ==
    /\ TypeOK
    /\ NeverRefused
    /\ run = "running" => Ready(sink)
    /\ Shaped(alive)
    /\ Attributed(alive, sink.attribution)
    /\ ~cancelled => InStep(sink.verifier, alive, sink.attribution)

-----------------------------------------------------------------------------
(* One emit through a handle. *)

\* What handles emit before the run is over.
Written(e) ==
    \/ \E k \in Kinds, i \in Ids : e \in {Start(k, i, None), Content(k, i, None), End(k, i, None)}
    \/ \E m, i \in Ids : e = ToolResult(m, i, None)
    \/ \E t \in {"tool-call", "message"}, i \in Ids : e = Encrypted(t, i, None)
    \/ \E n \in StepNames : e \in {StepStarted(n, None), StepFinished(n, None)}
    \/ \E s \in Subagents, p \in Owner : e = SubagentStarted(s, p)
    \/ \E s \in Subagents : e \in {SubagentFinished(s), SubagentError(s)}

LEMMA WrittenTypes ==
    ASSUME NEW e, Written(e)
    PROVE  /\ e.type \in {"START", "CONTENT", "END", "TOOL_CALL_RESULT", "ENCRYPTED",
                          "STEP_STARTED", "STEP_FINISHED", "SUBAGENT_STARTED",
                          "SUBAGENT_FINISHED", "SUBAGENT_ERROR"}
           /\ e # RunFinished /\ ~IsTerminal(e)
           /\ \A s : Tagged(s, e).type = e.type
           /\ e.type \in {"SUBAGENT_STARTED", "SUBAGENT_FINISHED", "SUBAGENT_ERROR"} =>
                 e.id \in Subagents /\ \A s : Tagged(s, e) = e
<1>1. e.type \in {"START", "CONTENT", "END", "TOOL_CALL_RESULT", "ENCRYPTED",
                  "STEP_STARTED", "STEP_FINISHED", "SUBAGENT_STARTED",
                  "SUBAGENT_FINISHED", "SUBAGENT_ERROR"}
  BY DEF Written, Start, Content, End, ToolResult, Encrypted, StepStarted, StepFinished,
         SubagentStarted, SubagentFinished, SubagentError
<1>2. e # RunFinished /\ ~IsTerminal(e)
  BY <1>1 DEF IsTerminal, Terminals, RunFinished, RunError
<1>3. \A s : Tagged(s, e).type = e.type
  BY DEF Tagged, Attributable, Written, Start, Content, End, ToolResult, Encrypted,
         StepStarted, StepFinished, SubagentStarted, SubagentFinished, SubagentError
<1>4. e.type \in {"SUBAGENT_STARTED", "SUBAGENT_FINISHED", "SUBAGENT_ERROR"} =>
          e.id \in Subagents /\ \A s : Tagged(s, e) = e
  BY DEF Tagged, Attributable, Written, Start, Content, End, ToolResult, Encrypted,
         StepStarted, StepFinished, SubagentStarted, SubagentFinished, SubagentError
<1> QED BY <1>1, <1>2, <1>3, <1>4

\* Queueing an event that neither ends the run nor touches the state.
LEMMA QueuedPlainly ==
    ASSUME NEW s \in Sinks, NEW v, NEW q, NEW ended, NEW published, NEW active,
           ended = s.terminated, published = s.published
    PROVE  [[[s EXCEPT !.verifier = v, !.terminated = ended, !.queue = q, !.published = published]
                EXCEPT !.active = active] EXCEPT !.queue = s.queue]
              = [s EXCEPT !.verifier = v, !.active = active]
  BY DEF Sinks

\* An emit that is not stopped goes out, untouched but for its tag, if and only if the
\* verifier accepts it; otherwise nothing has changed.
LEMMA EmitEffect ==
    ASSUME NEW s, Ready(s), NEW e, Written(e)
    PROVE  LET f == Tagged(s, e)
           IN  EmitUnless(FALSE, s, e) =
                  IF S!Accepts(s.verifier, f)
                  THEN Result(TRUE, [s EXCEPT !.verifier = S!Fold(@, f),
                                              !.active = Recorded(@, e)])
                  ELSE Result(FALSE, s)
<1> DEFINE f == Tagged(s, e)
           v == s.verifier
           sent == Send(s, f)
<1>1. /\ f.type = e.type /\ e # RunFinished /\ ~IsTerminal(e) /\ ~IsTerminal(f)
      /\ f.type \notin {"CHUNK", "STATE_SNAPSHOT", "STATE_DELTA"}
  <2>1. f.type = e.type /\ e # RunFinished /\ ~IsTerminal(e)
    BY WrittenTypes
  <2>2. f.type \notin {"CHUNK", "STATE_SNAPSHOT", "STATE_DELTA", "RUN_FINISHED", "RUN_ERROR"}
    BY <2>1, WrittenTypes
  <2>3. ~IsTerminal(f)
    BY <2>2 DEF IsTerminal, Terminals, RunFinished, RunError
  <2> QED BY <2>1, <2>2, <2>3
<1>2. EmitPlain(s, e) = Noted(sent, e)
  BY <1>1 DEF EmitPlain, EmitForced, SendAll, SendSecond, Ready
<1>3. ~Full(s)
  BY SinkAssumption DEF Full, Ready
<1>4. /\ S!Residue(v, f) = v
      /\ Baseline(s.published, f) = s.published
  BY <1>1 DEF S!Residue, Baseline
<1>5. s = [verifier |-> v, published |-> s.published, terminated |-> FALSE,
           overflowed |-> FALSE, attribution |-> s.attribution, active |-> s.active,
           queue |-> <<>>]
  BY DEF Ready, Sinks
<1>6. CASE S!Accepts(v, f)
  <2> DEFINE q == Queued(s, f)
             p == [q EXCEPT !.active = Recorded(@, e)]
             w == [s EXCEPT !.verifier = S!Fold(@, f), !.active = Recorded(@, e)]
  <2>1. sent = Result(TRUE, q)
    BY <1>3, <1>6 DEF Send
  <2>2. S!Observe(v, f) = S!Fold(v, f)
    BY <1>6 DEF S!Observe
  <2>3. (s.terminated \/ IsTerminal(f)) = s.terminated
    BY <1>1 DEF Ready, Sinks
  <2>4. q = [s EXCEPT !.verifier = S!Fold(v, f), !.terminated = (s.terminated \/ IsTerminal(f)),
                      !.queue = Append(s.queue, f), !.published = Baseline(s.published, f)]
    BY <2>2 DEF Queued
  <2>5. q.active = s.active /\ s.queue = <<>>
    BY <2>4 DEF Ready, Sinks
  <2>6. [p EXCEPT !.queue = <<>>] = w
    <3>1. s \in Sinks
      BY DEF Ready
    <3> HIDE DEF q
    <3> QED BY <1>4, <2>3, <2>4, <2>5, <3>1, QueuedPlainly
  <2>7. EmitPlain(s, e) = Result(TRUE, p)
    BY <1>2, <2>1 DEF Noted, Result
  <2>8. EmitUnless(FALSE, s, e) = Result(TRUE, [p EXCEPT !.queue = <<>>])
    <3>1. EmitPlain(s, e).ok = TRUE /\ EmitPlain(s, e).sink = p
      BY <2>7 DEF Result
    <3> HIDE DEF p
    <3> QED BY <3>1 DEF EmitUnless
  <2> QED BY <1>6, <2>6, <2>8
<1>7. CASE ~S!Accepts(v, f)
  <2>1. [s EXCEPT !.verifier = S!Observe(@, f)] = s
    BY <1>4, <1>5, <1>7 DEF S!Observe
  <2>2. EmitPlain(s, e) = Result(FALSE, s)
    BY <1>2, <1>3, <1>7, <2>1 DEF Send, Noted, Result
  <2>3. [s EXCEPT !.queue = <<>>] = s
    BY <1>5
  <2>4. EmitPlain(s, e).ok = FALSE /\ EmitPlain(s, e).sink = s
    BY <2>2 DEF Result
  <2> QED BY <1>7, <2>3, <2>4 DEF EmitUnless
<1> QED BY <1>6, <1>7

-----------------------------------------------------------------------------
(* What the server verifier makes of each of those events. *)

\* The tag of the scope in force is the only change.
LEMMA TagOf ==
    ASSUME NEW s
    PROVE  /\ \A k, i : /\ Tagged(s, Start(k, i, None)) = Start(k, i, s.attribution)
                        /\ Tagged(s, Content(k, i, None)) = Content(k, i, s.attribution)
                        /\ Tagged(s, End(k, i, None)) = End(k, i, s.attribution)
                        /\ Tagged(s, Encrypted(k, i, None)) = Encrypted(k, i, s.attribution)
                        /\ Tagged(s, ToolResult(k, i, None)) = ToolResult(k, i, s.attribution)
           /\ \A n : /\ Tagged(s, StepStarted(n, None)) = StepStarted(n, s.attribution)
                     /\ Tagged(s, StepFinished(n, None)) = StepFinished(n, s.attribution)
           /\ \A n, p : Tagged(s, SubagentStarted(n, p)) = SubagentStarted(n, p)
           /\ \A n : /\ Tagged(s, SubagentFinished(n)) = SubagentFinished(n)
                     /\ Tagged(s, SubagentError(n)) = SubagentError(n)
  BY DEF Tagged, Attributable, Start, Content, End, ToolResult, Encrypted,
         StepStarted, StepFinished, SubagentStarted, SubagentFinished, SubagentError

\* The verifier's own names are those of Events.
LEMMA VerifierNames ==
    /\ S!Verifier = [started : BOOLEAN, ended : BOOLEAN,
                     open : [Kinds -> [Ids -> Owner \cup {Absent}]],
                     owner : [Buckets -> [Ids -> Owner \cup {Absent}]],
                     steps : SUBSET (Owner \X StepNames),
                     active : SUBSET Subagents, closed : SUBSET Subagents]
    /\ S!Absent = Absent
    /\ \A k : S!BucketOf(k) = BucketOf(k)
    /\ \A g, o : S!Agrees(g, o) <=> Agrees(g, o)
    /\ \A v, k, i : S!IsOpen(v, k, i) <=> v.open[k][i] # Absent
  BY DEF S!Verifier, S!Kinds, S!ChunkKinds, S!Owners, S!Owner, S!Absent, S!Buckets, S!BucketOf,
         S!Agrees, S!IsOpen, Kinds, ChunkKinds, Owners, Owner, Absent, Buckets, BucketOf, Agrees

\* Ids, owners and steps apart, the verifier stands as it did.
Alike(v, w) ==
    /\ w \in S!Verifier /\ w.ended = v.ended
    /\ w.steps = v.steps /\ w.active = v.active

LEMMA StartFolds ==
    ASSUME NEW v \in S!Verifier, NEW k \in Kinds, NEW i \in Ids, NEW g \in Owner,
           S!Accepts(v, Start(k, i, g))
    PROVE  LET w == S!Fold(v, Start(k, i, g))
           IN  /\ Alike(v, w)
               /\ \A x \in Kinds, y \in Ids : <<x, y>> # <<k, i>> => w.open[x][y] = v.open[x][y]
               /\ ~S!IsOpen(v, k, i) /\ S!IsOpen(w, k, i) /\ Agrees(g, w.open[k][i])
               /\ w.owner[BucketOf(k)][i] = w.open[k][i]
<1> DEFINE e == Start(k, i, g)
           o == S!OwnerOf(v, e)
           w == S!Fold(v, e)
           b == BucketOf(k)
           Opened == Owner \cup {Absent}
<1>1. /\ e.type = "START" /\ e.kind = k /\ e.id = i /\ e.tag = g /\ e.parent = None
      /\ b \in Buckets
  BY DEF Start, BucketOf, Buckets
<1>2. S!MayOwn(v, e) /\ ~S!IsOpen(v, k, i)
  BY <1>1 DEF S!Accepts, S!StreamRules
<1>3. /\ v.open \in [Kinds -> [Ids -> Opened]]
      /\ v.owner \in [Buckets -> [Ids -> Opened]]
  BY VerifierNames
<1>4. o \in Owner /\ Agrees(g, o)
  <2>1. CASE k = "tool"
    <3>1. v.owner["call"][i] \in Opened
      BY <1>3 DEF Buckets
    <3>2. S!Inherited(v, e) = Absent /\ S!Asserted(v, e) = IF g # None THEN g ELSE Absent
      BY <1>1, VerifierNames DEF S!Asserted, S!Inherited
    <3>3. /\ S!MayOwnCall(v, e) /\ o = S!CallOwner(v, e)
      BY <1>1, <1>2, <2>1 DEF S!MayOwn, S!OwnerOf
    <3>4. o = IF g # None THEN g ELSE IF v.owner["call"][i] # Absent THEN v.owner["call"][i] ELSE None
      BY <1>1, <3>2, <3>3, VerifierNames DEF S!CallOwner, Owner
    <3> QED BY <3>1, <3>4 DEF Agrees, Owner
  <2>2. CASE k # "tool"
    <3>1. v.owner[b][i] \in Opened
      BY <1>1, <1>3
    <3> QED BY <1>1, <1>2, <2>2, <3>1, VerifierNames
            DEF S!MayOwn, S!MayClaim, S!OwnerOf, S!Claimed, Agrees
  <2> QED BY <2>1, <2>2
<1>5. w = [v EXCEPT !.open[k][i] = o, !.owner[b][i] = o]
  BY <1>1, VerifierNames DEF S!Fold
<1>6. o # Absent /\ o \in Opened
  BY <1>4
<1> HIDE DEF o, w, Opened, b, e
<1> USE VerifierNames
<1>7. [v.open EXCEPT ![k][i] = o] \in [Kinds -> [Ids -> Opened]]
  BY <1>3, <1>6
<1>8. [v.owner EXCEPT ![b][i] = o] \in [Buckets -> [Ids -> Opened]]
  BY <1>1, <1>3, <1>6
<1>9. w.open = [v.open EXCEPT ![k][i] = o] /\ w.owner = [v.owner EXCEPT ![b][i] = o]
  BY <1>5
<1>10. Alike(v, w)
  BY <1>5, <1>7, <1>8 DEF Alike, Opened
<1>11. \A x \in Kinds, y \in Ids : w.open[x][y] = IF x = k /\ y = i THEN o ELSE v.open[x][y]
  BY <1>3, <1>9
<1>12. w.owner[b][i] = o
  BY <1>1, <1>3, <1>9
<1> QED BY <1>2, <1>4, <1>6, <1>10, <1>11, <1>12 DEF w, e, b

LEMMA EndFolds ==
    ASSUME NEW v \in S!Verifier, NEW k \in Kinds, NEW i \in Ids, NEW g \in Owner
    PROVE  LET w == S!Fold(v, End(k, i, g))
           IN  /\ S!Accepts(v, End(k, i, g)) <=>
                     ~v.ended /\ S!IsOpen(v, k, i) /\ Agrees(g, v.open[k][i])
               /\ S!Accepts(v, Content(k, i, g)) <=>
                     ~v.ended /\ S!IsOpen(v, k, i) /\ Agrees(g, v.open[k][i])
               /\ S!Fold(v, Content(k, i, g)) = v
               /\ Alike(v, w) /\ w.owner = v.owner
               /\ \A x \in Kinds, y \in Ids : <<x, y>> # <<k, i>> => w.open[x][y] = v.open[x][y]
               /\ ~S!IsOpen(w, k, i)
<1> DEFINE w == S!Fold(v, End(k, i, g))
           Opened == Owner \cup {Absent}
<1>1. w = [v EXCEPT !.open[k][i] = Absent] /\ S!Fold(v, Content(k, i, g)) = v
  BY VerifierNames DEF S!Fold, End, Content
<1>2. /\ S!Accepts(v, End(k, i, g)) <=>
            ~v.ended /\ S!IsOpen(v, k, i) /\ Agrees(g, v.open[k][i])
      /\ S!Accepts(v, Content(k, i, g)) <=>
            ~v.ended /\ S!IsOpen(v, k, i) /\ Agrees(g, v.open[k][i])
  BY DEF S!Accepts, S!RunRules, S!StreamRules, S!ContinuationRules, S!ScopeRules, End, Content,
         S!Agrees, Agrees
<1>3. v.open \in [Kinds -> [Ids -> Opened]] /\ Absent \in Opened
  BY VerifierNames
<1> HIDE DEF w, Opened
<1> USE VerifierNames
<1>4. [v.open EXCEPT ![k][i] = Absent] \in [Kinds -> [Ids -> Opened]]
  BY <1>3
<1>5. w.open = [v.open EXCEPT ![k][i] = Absent] /\ w.owner = v.owner
  BY <1>1
<1>6. Alike(v, w)
  BY <1>1, <1>4 DEF Alike, Opened
<1>7. \A x \in Kinds, y \in Ids : w.open[x][y] = IF x = k /\ y = i THEN Absent ELSE v.open[x][y]
  BY <1>3, <1>5
<1> QED BY <1>1, <1>2, <1>5, <1>6, <1>7 DEF w

\* Streams, owners and the run stand as they did.
StreamsKept(v, w) ==
    w \in S!Verifier /\ w.ended = v.ended /\ w.open = v.open /\ w.owner = v.owner

LEMMA StepFolds ==
    ASSUME NEW v \in S!Verifier, NEW n \in StepNames, NEW g \in Owner
    PROVE  LET begun == S!Fold(v, StepStarted(n, g))
               done == S!Fold(v, StepFinished(n, g))
           IN  /\ S!Accepts(v, StepStarted(n, g)) => <<g, n>> \notin v.steps
               /\ StreamsKept(v, begun) /\ begun.active = v.active
               /\ begun.steps = v.steps \cup {<<g, n>>}
               /\ S!Accepts(v, StepFinished(n, g)) <=> ~v.ended /\ <<g, n>> \in v.steps
               /\ StreamsKept(v, done) /\ done.active = v.active
               /\ done.steps = v.steps \ {<<g, n>>}
<1>1. /\ S!Accepts(v, StepStarted(n, g)) => <<g, n>> \notin v.steps
      /\ S!Accepts(v, StepFinished(n, g)) <=> ~v.ended /\ <<g, n>> \in v.steps
  BY DEF S!Accepts, S!RunRules, S!StreamRules, S!ContinuationRules, S!ScopeRules,
         StepStarted, StepFinished
<1>2. /\ S!Fold(v, StepStarted(n, g)) = [v EXCEPT !.steps = @ \cup {<<g, n>>}]
      /\ S!Fold(v, StepFinished(n, g)) = [v EXCEPT !.steps = @ \ {<<g, n>>}]
  BY DEF S!Fold, StepStarted, StepFinished
<1>3. v.steps \cup {<<g, n>>} \in SUBSET (Owner \X StepNames)
  BY VerifierNames
<1>4. v.steps \ {<<g, n>>} \in SUBSET (Owner \X StepNames)
  BY VerifierNames
<1>5. \A steps \in SUBSET (Owner \X StepNames) :
          LET w == [v EXCEPT !.steps = steps]
          IN  StreamsKept(v, w) /\ w.active = v.active /\ w.steps = steps
  BY VerifierNames DEF StreamsKept
<1> QED BY <1>1, <1>2, <1>3, <1>4, <1>5

LEMMA SubagentFolds ==
    ASSUME NEW v \in S!Verifier, NEW s \in Subagents, NEW p \in Owner,
           NEW e \in {SubagentFinished(s), SubagentError(s)}
    PROVE  LET begun == S!Fold(v, SubagentStarted(s, p))
               done == S!Fold(v, e)
           IN  /\ S!Accepts(v, SubagentStarted(s, p)) => s \notin v.active
               /\ StreamsKept(v, begun) /\ begun.steps = v.steps
               /\ begun.active = v.active \cup {s}
               /\ S!Accepts(v, e) <=> ~v.ended /\ s \in v.active
               /\ StreamsKept(v, done) /\ done.steps = v.steps
               /\ done.active = v.active \ {s}
<1>1. /\ S!Accepts(v, SubagentStarted(s, p)) => s \notin v.active
      /\ S!Accepts(v, e) <=> ~v.ended /\ s \in v.active
  BY DEF S!Accepts, S!RunRules, S!StreamRules, S!ContinuationRules, S!ScopeRules,
         SubagentStarted, SubagentFinished, SubagentError
<1>2. /\ S!Fold(v, SubagentStarted(s, p)) = [v EXCEPT !.active = @ \cup {s}]
      /\ S!Fold(v, e) = [v EXCEPT !.active = @ \ {s}, !.closed = @ \cup {s}]
  <2>1. S!Fold(v, SubagentStarted(s, p)) = [v EXCEPT !.active = @ \cup {s}]
    BY DEF S!Fold, SubagentStarted
  <2>2. e.id = s /\ e.type \in {"SUBAGENT_FINISHED", "SUBAGENT_ERROR"}
    BY DEF SubagentFinished, SubagentError
  <2>3. S!Fold(v, e) = [v EXCEPT !.active = @ \ {s}, !.closed = @ \cup {s}]
    BY <2>2 DEF S!Fold
  <2> QED BY <2>1, <2>3
<1>3. v.active \cup {s} \in SUBSET Subagents /\ v.active \ {s} \in SUBSET Subagents
      /\ v.closed \cup {s} \in SUBSET Subagents
  BY VerifierNames
<1>4. StreamsKept(v, S!Fold(v, SubagentStarted(s, p)))
  BY <1>2, <1>3, VerifierNames DEF StreamsKept
<1>5. StreamsKept(v, S!Fold(v, e))
  BY <1>2, <1>3, VerifierNames DEF StreamsKept
<1>6. /\ S!Fold(v, SubagentStarted(s, p)).steps = v.steps /\ S!Fold(v, e).steps = v.steps
      /\ S!Fold(v, SubagentStarted(s, p)).active = v.active \cup {s}
      /\ S!Fold(v, e).active = v.active \ {s}
  BY <1>2, VerifierNames
<1> QED BY <1>1, <1>4, <1>5, <1>6

\* A call's answer may claim a message id; a signature changes nothing.
LEMMA ContinuationFolds ==
    ASSUME NEW v \in S!Verifier, NEW m \in Ids, NEW i \in Ids, NEW g \in Owner,
           NEW t \in {"tool-call", "message"}
    PROVE  LET w == S!Fold(v, ToolResult(m, i, g))
           IN  /\ S!Accepts(v, ToolResult(m, i, g)) <=>
                     ~v.ended /\ v.owner["call"][i] # Absent /\ ~S!IsOpen(v, "tool", i)
               /\ Alike(v, w) /\ w.open = v.open
               /\ S!Accepts(v, Encrypted("tool-call", i, g)) <=>
                     ~v.ended /\ (v.owner["call"][i] = Absent \/ Agrees(g, v.owner["call"][i]))
               /\ S!Fold(v, Encrypted(t, i, g)) = v
<1>1. S!Accepts(v, ToolResult(m, i, g)) <=>
          ~v.ended /\ v.owner["call"][i] # Absent /\ ~S!IsOpen(v, "tool", i)
  BY VerifierNames
     DEF S!Accepts, S!RunRules, S!StreamRules, S!ContinuationRules, S!ScopeRules, ToolResult
<1>2. S!Accepts(v, Encrypted("tool-call", i, g)) <=>
          ~v.ended /\ (v.owner["call"][i] = Absent \/ Agrees(g, v.owner["call"][i]))
  BY VerifierNames
     DEF S!Accepts, S!RunRules, S!StreamRules, S!ContinuationRules, S!ScopeRules, Encrypted,
         S!EncryptedOwner
<1>3. S!Fold(v, ToolResult(m, i, g)) = [v EXCEPT !.owner["message"][m] = g]
  BY DEF S!Fold, ToolResult
<1>4. S!Fold(v, Encrypted(t, i, g)) = v
  BY DEF S!Fold, Encrypted
<1>5. [v.owner EXCEPT !["message"][m] = g] \in [Buckets -> [Ids -> Owner \cup {Absent}]]
  BY VerifierNames DEF Buckets
<1>6. Alike(v, S!Fold(v, ToolResult(m, i, g))) /\ S!Fold(v, ToolResult(m, i, g)).open = v.open
  BY <1>3, <1>5, VerifierNames DEF Alike
<1> QED BY <1>1, <1>2, <1>4, <1>6

-----------------------------------------------------------------------------
(* The stack. *)

LEMMA Pushed ==
    ASSUME NEW a, Shaped(a), NEW h \in Handles
    PROVE  /\ Len(a) \in Nat /\ (a = <<>> <=> Len(a) = 0)
           /\ Len(Append(a, h)) = Len(a) + 1 /\ Append(a, h) # <<>>
           /\ Append(a, h)[Len(a) + 1] = h
           /\ \A n \in 1..Len(a) : Append(a, h)[n] = a[n]
           /\ \A n \in 1..(Len(a) + 1) : n \in 1..Len(a) \/ n = Len(a) + 1
<1>1. a \in Seq(Handles)
  BY DEF Shaped
<1>2. Len(a) \in Nat /\ (a = <<>> <=> Len(a) = 0)
  BY <1>1, EmptySeq
<1>3. \A n \in 1..(Len(a) + 1) : n \in 1..Len(a) \/ n = Len(a) + 1
  BY <1>2
<1> QED BY <1>1, <1>2, <1>3, AppendProperties

\* A stack that is not empty is its rest under its top.
LEMMA Popped ==
    ASSUME NEW a, Shaped(a), a # <<>>
    PROVE  LET b == SubSeq(a, 1, Len(a) - 1)
           IN  /\ Shaped(b) /\ a = Append(b, a[Len(a)])
               /\ Len(b) = Len(a) - 1 /\ Len(a) \in 1..Len(a)
               /\ \A n \in 1..Len(b) : a[n].kind \notin ChunkKinds
<1> DEFINE b == SubSeq(a, 1, Len(a) - 1)
<1>1. a \in Seq(Handles) /\ Len(a) \in Nat \ {0}
  BY DEF Shaped
<1>2. b \in Seq(Handles) /\ Len(b) = Len(a) - 1 /\ \A n \in 1..Len(b) : b[n] = a[n]
  <2>1. \A n \in 1..(Len(a) - 1) : a[n] \in Handles
    BY <1>1
  <2>2. 1 \in Int /\ Len(a) - 1 \in Int /\ (Len(a) - 1) - 1 + 1 = Len(a) - 1
    BY <1>1
  <2>3. /\ b \in Seq(Handles)
        /\ Len(b) = IF 1 <= Len(a) - 1 THEN (Len(a) - 1) - 1 + 1 ELSE 0
        /\ \A n \in 1..((Len(a) - 1) - 1 + 1) : b[n] = a[1 + n - 1]
    BY <2>1, <2>2, SubSeqProperties
  <2>4. \A n \in 1..(Len(a) - 1) : 1 + n - 1 = n
    OBVIOUS
  <2> QED BY <1>1, <2>2, <2>3, <2>4
<1>3. a = Append(b, a[Len(a)])
  BY <1>1, <1>2
<1>4. \A n \in 1..Len(b) : n \in 1..Len(a) /\ n # Len(a)
  BY <1>1, <1>2
<1>5. \A n \in 1..Len(b) : a[n].kind \notin ChunkKinds
  BY <1>4 DEF Shaped
<1>6. Shaped(b)
  BY <1>2, <1>4, <1>5 DEF Shaped
<1> QED BY <1>1, <1>2, <1>3, <1>5, <1>6

\* One scope at most is in force.
LEMMA InForceUnique ==
    ASSUME NEW a, NEW n \in Nat, NEW g, NEW h, InForce(a, n, g), InForce(a, n, h)
    PROVE  g = h
<1>1. ASSUME NEW m \in 1..(n - 1), NEW k \in 1..(n - 1),
             a[m].kind = "subagent", a[k].kind = "subagent",
             \A j \in (m + 1)..(n - 1) : a[j].kind # "subagent",
             \A j \in (k + 1)..(n - 1) : a[j].kind # "subagent"
      PROVE  m = k
  <2>1. ~(m < k) /\ ~(k < m)
    BY <1>1
  <2> QED BY <2>1
<1> QED BY <1>1 DEF InForce

\* What lies on a handle does not change the scope it was opened in, and the scope over
\* it is its own if it is a subagent's.
LEMMA InForcePushed ==
    ASSUME NEW a, Shaped(a), NEW h \in Handles
    PROVE  /\ \A n \in 1..(Len(a) + 1) : \A g : InForce(Append(a, h), n, g) <=> InForce(a, n, g)
           /\ \A g : InForce(Append(a, h), Len(a) + 2, g) <=>
                        IF h.kind = "subagent" THEN g = h.id ELSE InForce(a, Len(a) + 1, g)
<1> DEFINE b == Append(a, h)
           L == Len(a)
<1>1. /\ L \in Nat /\ b[L + 1] = h
      /\ \A n \in 1..L : b[n] = a[n]
  BY Pushed
<1> HIDE DEF b, L
<1>2. \A n \in 1..(L + 1) : \A g : InForce(b, n, g) <=> InForce(a, n, g)
  <2> TAKE n \in 1..(L + 1)
  <2> TAKE g
  <2>1. \A m \in 1..(n - 1) : m \in 1..L /\ b[m] = a[m]
    BY <1>1
  <2>2. \A m \in 1..(n - 1) : \A k \in (m + 1)..(n - 1) : k \in 1..(n - 1)
    BY <1>1
  <2> QED BY <2>1, <2>2 DEF InForce
<1>3. ASSUME NEW g
      PROVE  InForce(b, L + 2, g) <=>
                IF h.kind = "subagent" THEN g = h.id ELSE InForce(a, L + 1, g)
  <2>1. /\ (L + 2) - 1 = L + 1 /\ (L + 1) - 1 = L
        /\ \A m \in 1..(L + 1) : m \in 1..L \/ m = L + 1
        /\ \A m \in 1..L : m \in 1..(L + 1) /\ L + 1 \in (m + 1)..(L + 1)
        /\ \A m \in 1..L : \A k \in (m + 1)..L : k \in (m + 1)..(L + 1) /\ k \in 1..L
        /\ \A m \in 1..L : \A k \in (m + 1)..(L + 1) : k \in (m + 1)..L \/ k = L + 1
        /\ L + 1 \in 1..(L + 1) /\ ((L + 1) + 1)..(L + 1) = {}
    BY <1>1
  <2>2. CASE h.kind = "subagent"
    <3>1. \A m \in 1..L : ~(\A k \in (m + 1)..(L + 1) : b[k].kind # "subagent")
      BY <1>1, <2>1, <2>2
    <3> QED BY <1>1, <2>1, <2>2, <3>1 DEF InForce
  <2>3. CASE h.kind # "subagent"
    <3>1. \A m \in 1..L :
            (\A k \in (m + 1)..(L + 1) : b[k].kind # "subagent")
               <=> (\A k \in (m + 1)..L : a[k].kind # "subagent")
      BY <1>1, <2>1, <2>3
    <3> QED BY <1>1, <2>1, <2>3, <3>1 DEF InForce
  <2> QED BY <2>2, <2>3
<1> QED BY <1>2, <1>3 DEF b, L

\* No leaf on top, and no stream open.
Bare(a) == a = <<>> \/ a[Len(a)].kind \notin ChunkKinds
Closed(v) == \A k \in Kinds, i \in Ids : ~S!IsOpen(v, k, i)

LEMMA BareIsClosed ==
    ASSUME NEW v, NEW a, NEW g, Bare(a)
    PROVE  LeafOpen(v, a, g) <=> Closed(v)
<1>1. \A k \in ChunkKinds, i \in Ids : ~OnTop(a, k, i)
  BY DEF Bare, OnTop
<1>2. /\ "reasoning" \in ChunkKinds /\ "tool" \in Kinds /\ "block" \in Kinds
      /\ \A k \in Kinds : k \in ChunkKinds \/ k = "block"
      /\ ChunkKinds \subseteq Kinds
  BY DEF ChunkKinds, Kinds
<1> QED BY <1>1, <1>2 DEF LeafOpen, Closed

LEMMA ShapedPushed ==
    ASSUME NEW a, Shaped(a), Bare(a), NEW h \in Handles,
           h.kind \in ChunkKinds => h.id \in Ids,
           h.kind = "step" => h.id \in StepNames,
           h.kind = "subagent" => h.id \in Subagents
    PROVE  Shaped(Append(a, h))
<1>1. Append(a, h) \in Seq(Handles)
  BY DEF Shaped
<1>2. \A n \in 1..Len(a) : a[n].kind \notin ChunkKinds
  BY Pushed DEF Shaped, Bare
<1> QED BY <1>1, <1>2, Pushed DEF Shaped

LEMMA AttributedPushed ==
    ASSUME NEW a, Shaped(a), NEW g, Attributed(a, g), NEW h \in Handles,
           h.kind = "subagent" => h.previous = g
    PROVE  Attributed(Append(a, h), IF h.kind = "subagent" THEN h.id ELSE g)
<1> DEFINE b == Append(a, h)
           f == IF h.kind = "subagent" THEN h.id ELSE g
<1>1. /\ Len(b) + 1 = Len(a) + 2 /\ Len(b) = Len(a) + 1 /\ b[Len(a) + 1] = h
      /\ \A n \in 1..Len(b) : n \in 1..(Len(a) + 1)
      /\ \A n \in 1..Len(a) : b[n] = a[n]
      /\ \A n \in 1..Len(b) : n \in 1..Len(a) \/ n = Len(a) + 1
      /\ Len(a) \in Nat
  BY Pushed
<1>2. InForce(b, Len(b) + 1, f)
  BY <1>1, InForcePushed DEF Attributed
<1>3. ASSUME NEW n \in 1..Len(b), b[n].kind = "subagent"
      PROVE  InForce(b, n, b[n].previous)
  <2>1. CASE n \in 1..Len(a)
    <3>1. InForce(a, n, a[n].previous) /\ b[n] = a[n] /\ n \in 1..(Len(a) + 1)
      BY <1>1, <1>3, <2>1 DEF Attributed
    <3> QED BY <3>1, InForcePushed
  <2>2. CASE n = Len(a) + 1
    <3>1. InForce(a, n, b[n].previous) /\ n \in 1..(Len(a) + 1)
      BY <1>1, <1>3, <2>2 DEF Attributed
    <3> QED BY <3>1, InForcePushed
  <2> QED BY <1>1, <2>1, <2>2
<1> QED BY <1>2, <1>3 DEF Attributed

LEMMA AttributedPopped ==
    ASSUME NEW a, Shaped(a), NEW h \in Handles, NEW g, Attributed(Append(a, h), g)
    PROVE  /\ Attributed(a, IF h.kind = "subagent" THEN h.previous ELSE g)
           /\ h.kind # "subagent" => InForce(a, Len(a) + 1, g)
<1> DEFINE b == Append(a, h)
<1>1. /\ Len(b) + 1 = Len(a) + 2 /\ Len(b) = Len(a) + 1 /\ b[Len(a) + 1] = h
      /\ \A n \in 1..Len(a) : b[n] = a[n] /\ n \in 1..(Len(a) + 1)
      /\ Len(a) \in Nat /\ Len(a) + 1 \in 1..(Len(a) + 1)
  BY Pushed
<1>2. h.kind # "subagent" => InForce(a, Len(a) + 1, g)
  BY <1>1, InForcePushed DEF Attributed
<1>3. h.kind = "subagent" => InForce(a, Len(a) + 1, h.previous)
  BY <1>1, InForcePushed DEF Attributed
<1>4. \A n \in 1..Len(a) : a[n].kind = "subagent" => InForce(a, n, a[n].previous)
  BY <1>1, InForcePushed DEF Attributed
<1> QED BY <1>2, <1>3, <1>4 DEF Attributed

\* Steps: only a step's own handle changes what is open.
LEMMA StepsPushed ==
    ASSUME NEW a, Shaped(a), NEW h \in Handles, NEW v, NEW w, StepsOpen(v, a),
           NEW g \in Owner, InForce(a, Len(a) + 1, g),
           \/ h.kind # "step" /\ w.steps = v.steps
           \/ /\ h.kind = "step" /\ <<g, h.id>> \notin v.steps
              /\ w.steps = v.steps \cup {<<g, h.id>>}
    PROVE  StepsOpen(w, Append(a, h))
<1> DEFINE b == Append(a, h)
           L == Len(a)
<1>1. /\ Len(b) = L + 1 /\ b[L + 1] = h /\ L \in Nat
      /\ \A n \in 1..L : b[n] = a[n] /\ n \in 1..(L + 1)
      /\ \A n \in 1..Len(b) : n \in 1..L \/ n = L + 1
      /\ L + 1 \in 1..Len(b) /\ L + 1 \notin 1..L /\ \A n \in 1..L : n \in 1..Len(b)
  BY Pushed
<1>2. \A n \in 1..(L + 1) : \A f : InForce(b, n, f) <=> InForce(a, n, f)
  BY InForcePushed
<1>3. \A f : InForce(b, L + 1, f) => f = g
  BY <1>1, <1>2, InForceUnique
<1>4. v.steps \subseteq w.steps
  OBVIOUS
<1> HIDE DEF b, L
<1>5. ASSUME NEW n \in 1..Len(b), NEW f \in Owner, b[n].kind = "step", InForce(b, n, f)
      PROVE  <<f, b[n].id>> \in w.steps
  <2>1. CASE n \in 1..L
    BY <1>1, <1>2, <1>4, <1>5, <2>1 DEF StepsOpen, L
  <2>2. CASE n = L + 1
    BY <1>1, <1>3, <1>5, <2>2
  <2> QED BY <1>1, <2>1, <2>2
<1>6. ASSUME NEW p \in w.steps
      PROVE  \E n \in 1..Len(b) : b[n].kind = "step" /\ b[n].id = p[2] /\ InForce(b, n, p[1])
  <2>1. CASE p \in v.steps
    <3>1. PICK n \in 1..L : a[n].kind = "step" /\ a[n].id = p[2] /\ InForce(a, n, p[1])
      BY <2>1 DEF StepsOpen, L
    <3> QED BY <1>1, <1>2, <3>1
  <2>2. CASE p \notin v.steps
    <3>1. p = <<g, h.id>> /\ h.kind = "step"
      BY <2>2
    <3>2. InForce(b, L + 1, g)
      BY <1>1, <1>2 DEF L
    <3> QED BY <1>1, <3>1, <3>2
  <2> QED BY <2>1, <2>2
<1>7. ASSUME NEW m \in 1..Len(b), NEW n \in 1..Len(b), NEW f \in Owner,
             b[m].kind = "step", b[n].kind = "step", b[m].id = b[n].id,
             InForce(b, m, f), InForce(b, n, f)
      PROVE  m = n
  <2>1. ASSUME NEW k \in 1..L, a[k].kind = "step", a[k].id = h.id, InForce(a, k, g), h.kind = "step"
        PROVE  FALSE
    BY <2>1 DEF StepsOpen, L
  <2>2. CASE m \in 1..L /\ n \in 1..L
    BY <1>1, <1>2, <1>7, <2>2 DEF StepsOpen, L
  <2>3. CASE m = L + 1 /\ n \in 1..L
    BY <1>1, <1>2, <1>3, <1>7, <2>1, <2>3
  <2>4. CASE n = L + 1 /\ m \in 1..L
    BY <1>1, <1>2, <1>3, <1>7, <2>1, <2>4
  <2> QED BY <1>1, <2>2, <2>3, <2>4
<1> QED BY <1>5, <1>6, <1>7 DEF StepsOpen, b

LEMMA StepsPopped ==
    ASSUME NEW a, Shaped(a), NEW h \in Handles, NEW v, NEW w, StepsOpen(v, Append(a, h)),
           NEW g \in Owner, InForce(a, Len(a) + 1, g), v.steps \subseteq Owner \X StepNames,
           \/ h.kind # "step" /\ w.steps = v.steps
           \/ h.kind = "step" /\ w.steps = v.steps \ {<<g, h.id>>}
    PROVE  /\ StepsOpen(w, a)
           /\ h.kind = "step" => <<g, h.id>> \in v.steps
<1> DEFINE b == Append(a, h)
           L == Len(a)
<1>1. /\ Len(b) = L + 1 /\ b[L + 1] = h /\ L \in Nat
      /\ \A n \in 1..L : b[n] = a[n] /\ n \in 1..(L + 1)
      /\ \A n \in 1..Len(b) : n \in 1..L \/ n = L + 1
      /\ L + 1 \in 1..Len(b) /\ L + 1 \notin 1..L /\ \A n \in 1..L : n \in 1..Len(b) /\ n # L + 1
  BY Pushed
<1>2. \A n \in 1..(L + 1) : \A f : InForce(b, n, f) <=> InForce(a, n, f)
  BY InForcePushed
<1>3. \A f : InForce(b, L + 1, f) => f = g
  BY <1>1, <1>2, InForceUnique
<1>4. InForce(b, L + 1, g)
  BY <1>1, <1>2
<1>5. h.kind = "step" => <<g, h.id>> \in v.steps
  BY <1>1, <1>4 DEF StepsOpen
<1> HIDE DEF b, L
<1>6. ASSUME NEW n \in 1..L, NEW f \in Owner, a[n].kind = "step", InForce(a, n, f)
      PROVE  <<f, a[n].id>> \in w.steps
  <2>1. b[n] = a[n] /\ InForce(b, n, f) /\ n \in 1..Len(b) /\ n # L + 1
    BY <1>1, <1>2, <1>6
  <2>2. <<f, a[n].id>> \in v.steps
    BY <1>6, <2>1 DEF StepsOpen, b
  <2>3. ~(h.kind = "step" /\ f = g /\ a[n].id = h.id)
    BY <1>1, <1>4, <1>6, <2>1 DEF StepsOpen, b
  <2> QED BY <2>2, <2>3
<1>7. ASSUME NEW p \in w.steps
      PROVE  \E n \in 1..L : a[n].kind = "step" /\ a[n].id = p[2] /\ InForce(a, n, p[1])
  <2>1. p \in v.steps /\ p = <<p[1], p[2]>>
    OBVIOUS
  <2>2. PICK n \in 1..Len(b) : b[n].kind = "step" /\ b[n].id = p[2] /\ InForce(b, n, p[1])
    BY <2>1 DEF StepsOpen, b
  <2>3. n # L + 1
    BY <1>1, <1>3, <1>7, <2>1, <2>2
  <2> QED BY <1>1, <1>2, <2>2, <2>3
<1>8. ASSUME NEW m \in 1..L, NEW n \in 1..L, NEW f \in Owner,
             a[m].kind = "step", a[n].kind = "step", a[m].id = a[n].id,
             InForce(a, m, f), InForce(a, n, f)
      PROVE  m = n
  BY <1>1, <1>2, <1>8 DEF StepsOpen, b
<1> QED BY <1>5, <1>6, <1>7, <1>8 DEF StepsOpen, L

LEMMA SubagentsPushed ==
    ASSUME NEW a, Shaped(a), NEW h \in Handles, NEW v, NEW w, SubagentsOpen(v, a),
           \/ h.kind # "subagent" /\ w.active = v.active
           \/ h.kind = "subagent" /\ h.id \notin v.active /\ w.active = v.active \cup {h.id}
    PROVE  SubagentsOpen(w, Append(a, h))
  BY Pushed DEF SubagentsOpen

LEMMA SubagentsPopped ==
    ASSUME NEW a, Shaped(a), NEW h \in Handles, NEW v, NEW w, SubagentsOpen(v, Append(a, h)),
           \/ w.active = v.active
           \/ h.kind = "subagent" /\ w.active = v.active \ {h.id}
    PROVE  /\ SubagentsOpen(w, a)
           /\ h.kind = "subagent" => h.id \in v.active
<1> DEFINE b == Append(a, h)
           L == Len(a)
<1>1. /\ Len(b) = L + 1 /\ b[L + 1] = h /\ L \in Nat /\ L + 1 \in 1..Len(b)
      /\ \A n \in 1..L : b[n] = a[n] /\ n \in 1..Len(b) /\ n # L + 1
  BY Pushed
<1> QED BY <1>1 DEF SubagentsOpen

-----------------------------------------------------------------------------
(* Leaves, as the verifier sees them come and go. *)

LEMMA OnTopPushed ==
    ASSUME NEW a, Shaped(a), NEW h \in Handles
    PROVE  \A k, i : OnTop(Append(a, h), k, i) <=> h.kind = k /\ h.id = i
  BY Pushed DEF OnTop

LEMMA StartAccepted ==
    ASSUME NEW v \in S!Verifier, NEW k \in Kinds, NEW i \in Ids, NEW g \in Owner
    PROVE  S!Accepts(v, Start(k, i, g)) <=>
              ~v.ended /\ S!MayOwn(v, Start(k, i, g)) /\ ~S!IsOpen(v, k, i)
  BY DEF S!Accepts, S!RunRules, S!StreamRules, S!ContinuationRules, S!ScopeRules, Start

LEMMA LeafStarts ==
    ASSUME NEW v \in S!Verifier, Closed(v), NEW k \in {"text", "tool"}, NEW i \in Ids,
           NEW g \in Owner, S!Accepts(v, Start(k, i, g)),
           NEW a, Shaped(a), NEW h \in Handles, h.kind = k, h.id = i
    PROVE  LET w == S!Fold(v, Start(k, i, g))
           IN  Alike(v, w) /\ LeafOpen(w, Append(a, h), g)
<1> DEFINE w == S!Fold(v, Start(k, i, g))
<1>1. k \in Kinds /\ ChunkKinds \subseteq Kinds /\ "tool" \in Kinds /\ "block" \in Kinds
      /\ k # "block" /\ k # "reasoning" /\ BucketOf("tool") = "call"
  BY DEF Kinds, ChunkKinds, BucketOf
<1>2. /\ Alike(v, w)
      /\ \A x \in Kinds, y \in Ids : <<x, y>> # <<k, i>> => w.open[x][y] = v.open[x][y]
      /\ S!IsOpen(w, k, i) /\ Agrees(g, w.open[k][i])
      /\ w.owner[BucketOf(k)][i] = w.open[k][i]
  BY <1>1, StartFolds
<1> HIDE DEF w
<1>3. \A x \in Kinds, y \in Ids : S!IsOpen(w, x, y) <=> x = k /\ y = i
  BY <1>2, VerifierNames DEF Closed
<1>4. \A x, y : OnTop(Append(a, h), x, y) <=> k = x /\ i = y
  BY OnTopPushed
<1>5. \A y \in Ids : S!IsOpen(w, "tool", y) => w.owner["call"][y] = w.open["tool"][y]
  BY <1>1, <1>2, <1>3
<1>6. \A x \in ChunkKinds, y \in Ids : S!IsOpen(w, x, y) <=> OnTop(Append(a, h), x, y)
  BY <1>1, <1>3, <1>4
<1>7. \A y \in Ids : S!IsOpen(w, "block", y) <=> OnTop(Append(a, h), "reasoning", y)
  BY <1>1, <1>3, <1>4
<1>8. \A x \in Kinds, y \in Ids : S!IsOpen(w, x, y) => Agrees(g, w.open[x][y])
  BY <1>2, <1>3
<1>9. LeafOpen(w, Append(a, h), g)
  BY <1>5, <1>6, <1>7, <1>8 DEF LeafOpen
<1> QED BY <1>2, <1>9 DEF w

LEMMA ReasoningStarts ==
    ASSUME NEW v \in S!Verifier, Closed(v), NEW i \in Ids, NEW g \in Owner,
           S!Accepts(v, Start("block", i, g)),
           NEW a, Shaped(a), NEW h \in Handles, h.kind = "reasoning", h.id = i
    PROVE  LET u == S!Fold(v, Start("block", i, g))
               w == S!Fold(u, Start("reasoning", i, g))
           IN  /\ Alike(v, u) /\ S!Accepts(u, Start("reasoning", i, g))
               /\ Alike(u, w) /\ LeafOpen(w, Append(a, h), g)
<1> DEFINE u == S!Fold(v, Start("block", i, g))
           w == S!Fold(u, Start("reasoning", i, g))
<1>1. /\ "block" \in Kinds /\ "reasoning" \in Kinds /\ ChunkKinds \subseteq Kinds
      /\ "tool" \in Kinds /\ "block" \notin ChunkKinds
      /\ BucketOf("block") = "reasoning" /\ BucketOf("reasoning") = "reasoning"
  BY DEF Kinds, ChunkKinds, BucketOf
<1>2. /\ Alike(v, u)
      /\ \A x \in Kinds, y \in Ids : <<x, y>> # <<"block", i>> => u.open[x][y] = v.open[x][y]
      /\ S!IsOpen(u, "block", i) /\ Agrees(g, u.open["block"][i])
      /\ u.owner["reasoning"][i] = u.open["block"][i]
  BY <1>1, StartFolds
<1>3. ~v.ended
  BY DEF S!Accepts
<1> HIDE DEF u, w
<1>4. u \in S!Verifier /\ ~u.ended /\ ~S!IsOpen(u, "reasoning", i)
  <2>1. u \in S!Verifier /\ ~u.ended
    BY <1>2, <1>3 DEF Alike
  <2>2. u.open["reasoning"][i] = v.open["reasoning"][i]
    BY <1>1, <1>2
  <2>3. ~S!IsOpen(v, "reasoning", i)
    BY <1>1 DEF Closed
  <2> QED BY <2>1, <2>2, <2>3, VerifierNames
<1>5. S!MayOwn(u, Start("reasoning", i, g))
  <2>1. LET e == Start("reasoning", i, g) IN e.kind = "reasoning" /\ e.id = i /\ e.tag = g
    BY DEF Start
  <2> QED BY <1>1, <1>2, <2>1, VerifierNames DEF S!MayOwn, S!MayClaim
<1>6. S!Accepts(u, Start("reasoning", i, g))
  BY <1>1, <1>4, <1>5, StartAccepted
<1>7. /\ Alike(u, w)
      /\ \A x \in Kinds, y \in Ids : <<x, y>> # <<"reasoning", i>> => w.open[x][y] = u.open[x][y]
      /\ S!IsOpen(w, "reasoning", i) /\ Agrees(g, w.open["reasoning"][i])
  BY <1>1, <1>4, <1>6, StartFolds DEF w
<1>8. \A x \in Kinds, y \in Ids : S!IsOpen(w, x, y) <=> x \in {"block", "reasoning"} /\ y = i
  <2>1. \A x \in Kinds, y \in Ids :
            x \notin {"block", "reasoning"} \/ y # i => w.open[x][y] = v.open[x][y]
    BY <1>2, <1>7
  <2>2. w.open["block"][i] = u.open["block"][i]
    BY <1>1, <1>7
  <2> QED BY <1>1, <1>2, <1>7, <2>1, <2>2, VerifierNames DEF Closed
<1>9. Agrees(g, w.open["block"][i])
  BY <1>1, <1>2, <1>7
<1>10. LeafOpen(w, Append(a, h), g)
  BY <1>1, <1>7, <1>8, <1>9, OnTopPushed DEF LeafOpen
<1> QED BY <1>2, <1>6, <1>7, <1>10 DEF u, w

\* A leaf on top can write and close, and a call be signed.
LEMMA LeafEnds ==
    ASSUME NEW v \in S!Verifier, ~v.ended, NEW a, NEW g \in Owner, LeafOpen(v, a, g),
           NEW k \in {"text", "tool"}, NEW i \in Ids, OnTop(a, k, i)
    PROVE  LET w == S!Fold(v, End(k, i, g))
           IN  /\ S!Accepts(v, End(k, i, g))
               /\ Alike(v, w) /\ w.owner = v.owner /\ Closed(w)
<1> DEFINE w == S!Fold(v, End(k, i, g))
<1>1. k \in Kinds /\ k \in ChunkKinds /\ k # "reasoning"
      /\ \A x \in Kinds : x \in ChunkKinds \/ x = "block"
  BY DEF Kinds, ChunkKinds
<1>2. \A x \in Kinds, y \in Ids : S!IsOpen(v, x, y) <=> x = k /\ y = i
  BY <1>1 DEF LeafOpen, OnTop
<1>3. S!Accepts(v, End(k, i, g))
  BY <1>1, <1>2, EndFolds DEF LeafOpen
<1>4. /\ Alike(v, w) /\ w.owner = v.owner
      /\ \A x \in Kinds, y \in Ids : <<x, y>> # <<k, i>> => w.open[x][y] = v.open[x][y]
      /\ ~S!IsOpen(w, k, i)
  BY <1>1, EndFolds
<1> HIDE DEF w
<1>5. Closed(w)
  BY <1>2, <1>4, VerifierNames DEF Closed
<1> QED BY <1>3, <1>4, <1>5 DEF w

LEMMA ReasoningEnds ==
    ASSUME NEW v \in S!Verifier, ~v.ended, NEW a, NEW g \in Owner, LeafOpen(v, a, g),
           NEW i \in Ids, OnTop(a, "reasoning", i)
    PROVE  LET u == S!Fold(v, End("reasoning", i, g))
               w == S!Fold(u, End("block", i, g))
           IN  /\ S!Accepts(v, End("reasoning", i, g)) /\ Alike(v, u)
               /\ S!Accepts(u, End("block", i, g)) /\ Alike(u, w) /\ Closed(w)
<1> DEFINE u == S!Fold(v, End("reasoning", i, g))
           w == S!Fold(u, End("block", i, g))
<1>1. "reasoning" \in Kinds /\ "block" \in Kinds /\ "reasoning" \in ChunkKinds
      /\ \A x \in Kinds : x \in ChunkKinds \/ x = "block"
  BY DEF Kinds, ChunkKinds
<1>2. \A x \in Kinds, y \in Ids : S!IsOpen(v, x, y) => x \in {"reasoning", "block"} /\ y = i
  BY <1>1 DEF LeafOpen, OnTop
<1>3. S!IsOpen(v, "reasoning", i) /\ S!IsOpen(v, "block", i)
  BY <1>1 DEF LeafOpen
<1>4. S!Accepts(v, End("reasoning", i, g))
  BY <1>1, <1>3, EndFolds DEF LeafOpen
<1>5. /\ Alike(v, u)
      /\ \A x \in Kinds, y \in Ids : <<x, y>> # <<"reasoning", i>> => u.open[x][y] = v.open[x][y]
      /\ ~S!IsOpen(u, "reasoning", i)
  BY <1>1, EndFolds
<1> HIDE DEF u, w
<1>6. u.open["block"][i] = v.open["block"][i] /\ u \in S!Verifier /\ ~u.ended
  BY <1>1, <1>5 DEF Alike
<1>7. S!Accepts(u, End("block", i, g))
  <2>1. S!IsOpen(u, "block", i) /\ Agrees(g, u.open["block"][i])
    BY <1>1, <1>3, <1>6, VerifierNames DEF LeafOpen
  <2> QED BY <1>1, <1>6, <2>1, EndFolds
<1>8. /\ Alike(u, w)
      /\ \A x \in Kinds, y \in Ids : <<x, y>> # <<"block", i>> => w.open[x][y] = u.open[x][y]
      /\ ~S!IsOpen(w, "block", i)
  BY <1>1, <1>6, EndFolds DEF w
<1>9. Closed(w)
  <2>1. \A x \in Kinds, y \in Ids :
            \/ x = "block" /\ y = i
            \/ x = "reasoning" /\ y = i /\ w.open[x][y] = u.open[x][y]
            \/ w.open[x][y] = v.open[x][y] /\ ~(x \in {"reasoning", "block"} /\ y = i)
    BY <1>5, <1>8
  <2> QED BY <1>2, <1>5, <1>8, <2>1, VerifierNames DEF Closed
<1> QED BY <1>4, <1>5, <1>7, <1>8, <1>9 DEF u, w

-----------------------------------------------------------------------------
(* Emits, opens and closes. *)

LEMMA WrittenFolds ==
    ASSUME NEW s, s \in Sinks, NEW e, Written(e), S!Accepts(s.verifier, Tagged(s, e))
    PROVE  LET w == S!Fold(s.verifier, Tagged(s, e))
           IN  w \in S!Verifier /\ w.ended = s.verifier.ended
<1> DEFINE v == s.verifier
           g == s.attribution
           f == Tagged(s, e)
<1>1. v \in S!Verifier /\ g \in Owner
  BY DEF Sinks
<1>2. CASE \E k \in Kinds, i \in Ids : e = Start(k, i, None)
  <2>1. PICK k \in Kinds, i \in Ids : f = Start(k, i, g)
    BY <1>2, TagOf
  <2> QED BY <1>1, <2>1, StartFolds DEF Alike
<1>3. CASE \E k \in Kinds, i \in Ids : e \in {Content(k, i, None), End(k, i, None)}
  <2>1. PICK k \in Kinds, i \in Ids : f \in {Content(k, i, g), End(k, i, g)}
    BY <1>3, TagOf
  <2>2. S!Fold(v, Content(k, i, g)) = v /\ Alike(v, S!Fold(v, End(k, i, g)))
    BY <1>1, EndFolds
  <2> QED BY <1>1, <2>1, <2>2 DEF Alike
<1>4. CASE \E m, i \in Ids : e = ToolResult(m, i, None)
  <2>1. PICK m \in Ids, i \in Ids : f = ToolResult(m, i, g)
    BY <1>4, TagOf
  <2> QED BY <1>1, <2>1, ContinuationFolds DEF Alike
<1>5. CASE \E t \in {"tool-call", "message"}, i \in Ids : e = Encrypted(t, i, None)
  <2>1. PICK t \in {"tool-call", "message"}, i \in Ids : f = Encrypted(t, i, g)
    BY <1>5, TagOf
  <2> QED BY <1>1, <2>1, ContinuationFolds
<1>6. CASE \E n \in StepNames : e \in {StepStarted(n, None), StepFinished(n, None)}
  <2>1. PICK n \in StepNames : f \in {StepStarted(n, g), StepFinished(n, g)}
    BY <1>6, TagOf
  <2>2. /\ StreamsKept(v, S!Fold(v, StepStarted(n, g)))
        /\ StreamsKept(v, S!Fold(v, StepFinished(n, g)))
    BY <1>1, StepFolds
  <2> QED BY <2>1, <2>2 DEF StreamsKept
<1>7. CASE \E n \in Subagents, p \in Owner : e = SubagentStarted(n, p)
  <2>1. PICK n \in Subagents, p \in Owner : f = SubagentStarted(n, p)
    BY <1>7, TagOf
  <2>2. SubagentError(n) \in {SubagentFinished(n), SubagentError(n)}
    OBVIOUS
  <2> QED BY <1>1, <2>1, <2>2, SubagentFolds DEF StreamsKept
<1>8. CASE \E n \in Subagents : e \in {SubagentFinished(n), SubagentError(n)}
  <2>1. PICK n \in Subagents : f \in {SubagentFinished(n), SubagentError(n)}
    BY <1>8, TagOf
  <2>2. None \in Owner
    BY DEF Owner
  <2> QED BY <1>1, <2>1, <2>2, SubagentFolds DEF StreamsKept
<1> QED BY <1>2, <1>3, <1>4, <1>5, <1>6, <1>7, <1>8 DEF Written

\* An emit leaves the sink ready and its scope in force; what it does to the verifier is
\* what the verifier does, unless the run was cancelled by then.
LEMMA EmitLeaves ==
    ASSUME NEW s, Ready(s), NEW e, Written(e), NEW stop \in BOOLEAN
    PROVE  LET r == EmitUnless(stop, s, e)
               f == Tagged(s, e)
           IN  /\ Ready(r.sink) /\ r.ok \in BOOLEAN /\ r.sink.attribution = s.attribution
               /\ ~stop => (r.ok <=> S!Accepts(s.verifier, f))
               /\ r.ok => ~stop /\ r.sink.verifier = S!Fold(s.verifier, f)
               /\ ~r.ok => r.sink = s
<1> DEFINE r == EmitUnless(stop, s, e)
           f == Tagged(s, e)
           w == [s EXCEPT !.verifier = S!Fold(@, f), !.active = Recorded(@, e)]
<1>1. CASE stop
  BY <1>1 DEF EmitUnless, Result
<1>2. CASE ~stop /\ ~S!Accepts(s.verifier, f)
  <2>1. r = Result(FALSE, s)
    <3>1. stop = FALSE
      BY <1>2
    <3> QED BY <1>2, <3>1, EmitEffect
  <2> QED BY <1>2, <2>1 DEF Result
<1>3. CASE ~stop /\ S!Accepts(s.verifier, f)
  <2>1. r = Result(TRUE, w)
    <3>1. stop = FALSE
      BY <1>3
    <3> QED BY <1>3, <3>1, EmitEffect
  <2>2. S!Fold(s.verifier, f) \in S!Verifier /\ S!Fold(s.verifier, f).ended = s.verifier.ended
    BY <1>3, WrittenFolds DEF Ready
  <2>3. Recorded(s.active, e) \in SUBSET Subagents
    BY WrittenTypes DEF Recorded, Ready, Sinks
  <2>4. Ready(w) /\ w.attribution = s.attribution /\ w.verifier = S!Fold(s.verifier, f)
    BY <2>2, <2>3 DEF Ready, Sinks
  <2> HIDE DEF w
  <2> QED BY <1>3, <2>1, <2>4 DEF Result
<1> QED BY <1>1, <1>2, <1>3

\* What one emit of `f` from `s` leads to.
Emitted(r, stop, s, f) ==
    /\ Ready(r.sink) /\ r.ok \in BOOLEAN /\ r.sink.attribution = s.attribution
    /\ stop = FALSE /\ S!Accepts(s.verifier, f) => r.ok = TRUE
    /\ r.ok = TRUE => /\ stop = FALSE /\ S!Accepts(s.verifier, f)
                      /\ r.sink.verifier = S!Fold(s.verifier, f)
    /\ r.ok = FALSE => r.sink = s

LEMMA EmitIsEmitted ==
    ASSUME NEW s, Ready(s), NEW e, Written(e), NEW stop \in BOOLEAN
    PROVE  Emitted(EmitUnless(stop, s, e), stop, s, Tagged(s, e))
<1> DEFINE r == EmitUnless(stop, s, e)
           f == Tagged(s, e)
<1>1. /\ Ready(r.sink) /\ r.ok \in BOOLEAN /\ r.sink.attribution = s.attribution
      /\ ~stop => (r.ok <=> S!Accepts(s.verifier, f))
      /\ r.ok => ~stop /\ r.sink.verifier = S!Fold(s.verifier, f)
      /\ ~r.ok => r.sink = s
  BY EmitLeaves
<1> HIDE DEF r, f
<1>2. Emitted(r, stop, s, f)
  BY <1>1 DEF Emitted
<1> QED BY <1>2 DEF r, f

LEMMA EmitKeeps ==
    ASSUME NEW s, Ready(s), NEW e, Written(e), NEW stop \in BOOLEAN
    PROVE  /\ Ready(EmitUnless(stop, s, e).sink)
           /\ EmitUnless(stop, s, e).sink.attribution = s.attribution
           /\ EmitUnless(stop, s, e).ok \in BOOLEAN
  BY EmitLeaves

\* What a running run that is not cancelled offers to a handle on top.
LEMMA AboveRest ==
    ASSUME IInv, alive # <<>>
    PROVE  /\ Shaped(Pop) /\ Top \in Handles /\ alive = Append(Pop, Top)
           /\ Len(Pop) \in Nat /\ Len(Pop) <= MaxDepth
           /\ Bare(Pop) /\ OnTop(alive, Top.kind, Top.id)
           /\ Top.kind \in ChunkKinds => Top.id \in Ids
           /\ Top.kind = "step" => Top.id \in StepNames
           /\ Top.kind = "subagent" => Top.id \in Subagents
<1>1. Shaped(alive) /\ Len(alive) <= MaxDepth
  BY DEF IInv, TypeOK
<1>2. /\ Shaped(Pop) /\ alive = Append(Pop, Top) /\ Len(Pop) = Len(alive) - 1
      /\ Len(alive) \in 1..Len(alive)
      /\ \A n \in 1..Len(Pop) : alive[n].kind \notin ChunkKinds
  BY <1>1, Popped DEF Pop, Top
<1>3. Top \in Handles
  BY <1>1, <1>2 DEF Shaped, Top
<1>4. Bare(Pop)
  <2>1. Len(Pop) \in Nat /\ (Pop = <<>> <=> Len(Pop) = 0)
    BY <1>2, <1>3, Pushed
  <2>2. \A n \in 1..Len(Pop) : alive[n] = Pop[n]
    BY <1>2, <1>3, Pushed
  <2> QED BY <1>2, <2>1, <2>2 DEF Bare
<1>5. OnTop(alive, Top.kind, Top.id)
  BY DEF OnTop, Top
<1>6. Len(Pop) \in Nat /\ Len(Pop) <= MaxDepth
  <2>1. Len(Pop) \in Nat /\ Len(alive) \in Nat
    BY <1>1, <1>2 DEF Shaped
  <2> QED BY <1>1, <1>2, <2>1
<1> QED BY <1>1, <1>2, <1>3, <1>4, <1>5, <1>6 DEF Shaped, Top

\* A handle is used: nothing but the events it writes.
LEMMA UsePreserves ==
    ASSUME IInv, run = "running", alive' = alive, run' = run, Ready(sink'),
           cancelled' \in BOOLEAN, cancelled => cancelled',
           refused' \subseteq {"reasoning signature"},
           sink'.attribution = sink.attribution,
           ~cancelled' => sink'.verifier = sink.verifier
    PROVE  IInv'
<1>1. TypeOK'
  BY DEF IInv, TypeOK, Ready, Writes
<1> QED BY <1>1 DEF IInv, NeverRefused, InStep

\* A handle goes: its scope is restored, and what it closed is what it had open.
LEMMA PopPreserves ==
    ASSUME IInv, run = "running", alive # <<>>, alive' = Pop, run' = run, Ready(sink'),
           cancelled' \in BOOLEAN, cancelled => cancelled',
           refused' \subseteq {"reasoning signature"},
           sink'.attribution = IF Top.kind = "subagent" THEN Top.previous ELSE sink.attribution,
           ~cancelled' =>
              /\ Closed(sink'.verifier)
              /\ \/ Top.kind # "step" /\ sink'.verifier.steps = sink.verifier.steps
                 \/ /\ Top.kind = "step"
                    /\ sink'.verifier.steps
                          = sink.verifier.steps \ {<<sink.attribution, Top.id>>}
              /\ \/ sink'.verifier.active = sink.verifier.active
                 \/ /\ Top.kind = "subagent"
                    /\ sink'.verifier.active = sink.verifier.active \ {Top.id}
    PROVE  IInv'
<1>1. /\ Shaped(Pop) /\ Top \in Handles /\ alive = Append(Pop, Top)
      /\ Len(Pop) \in Nat /\ Len(Pop) <= MaxDepth /\ Bare(Pop)
  BY AboveRest
<1> DEFINE g == IF Top.kind = "subagent" THEN Top.previous ELSE sink.attribution
<1>2. TypeOK'
  BY <1>1 DEF IInv, TypeOK, Ready, Writes, Shaped
<1>3. Attributed(Pop, g) /\ InForce(Pop, Len(Pop) + 1, g) /\ g \in Owner
  <2>1. Attributed(Append(Pop, Top), sink.attribution)
    BY <1>1 DEF IInv
  <2>2. Attributed(Pop, g)
    BY <1>1, <2>1, AttributedPopped
  <2>3. g \in Owner
    BY <1>1 DEF Handles, IInv, TypeOK, Sinks
  <2> QED BY <2>2, <2>3 DEF Attributed
<1>4. ASSUME ~cancelled'
      PROVE  InStep(sink'.verifier, Pop, g)
  <2> DEFINE v == sink.verifier
             w == sink'.verifier
  <2>1. StepsOpen(v, Append(Pop, Top)) /\ SubagentsOpen(v, Append(Pop, Top))
    BY <1>1, <1>4 DEF IInv, InStep
  <2>2. v.steps \subseteq Owner \X StepNames
    BY VerifierNames DEF IInv, Ready, Sinks
  <2>3. \/ Top.kind # "step" /\ w.steps = v.steps
        \/ Top.kind = "step" /\ w.steps = v.steps \ {<<g, Top.id>>}
    BY <1>4
  <2>4. StepsOpen(w, Pop)
    <3> HIDE DEF v, w, g
    <3> QED BY <1>1, <1>3, <2>1, <2>2, <2>3, StepsPopped
  <2>5. \/ w.active = v.active
        \/ Top.kind = "subagent" /\ w.active = v.active \ {Top.id}
    BY <1>4
  <2>6. SubagentsOpen(w, Pop)
    <3> HIDE DEF v, w
    <3> QED BY <1>1, <2>1, <2>5, SubagentsPopped
  <2>7. LeafOpen(w, Pop, g)
    BY <1>1, <1>4, BareIsClosed
  <2> QED BY <2>4, <2>6, <2>7 DEF InStep
<1>5. NeverRefused'
  BY DEF NeverRefused
<1> QED BY <1>1, <1>2, <1>3, <1>4, <1>5 DEF IInv

\* A handle comes: with it what its opening event opened, in the scope it restores.
LEMMA OpenPreserves ==
    ASSUME IInv, NEW h \in Handles, NEW opened, NEW stop \in Stops, Open(h, opened, stop),
           h.kind \in ChunkKinds => h.id \in Ids,
           h.kind = "step" => h.id \in StepNames,
           h.kind = "subagent" => h.id \in Subagents /\ h.previous = sink.attribution,
           Ready(opened.sink), opened.ok \in BOOLEAN,
           opened.sink.attribution
              = IF opened.ok /\ h.kind = "subagent" THEN h.id ELSE sink.attribution,
           ~stop /\ ~opened.ok => opened.sink.verifier = sink.verifier,
           ~stop /\ opened.ok =>
              LET w == opened.sink.verifier
              IN  /\ LeafOpen(w, Append(alive, h), opened.sink.attribution)
                  /\ \/ h.kind # "step" /\ w.steps = sink.verifier.steps
                     \/ /\ h.kind = "step"
                        /\ <<sink.attribution, h.id>> \notin sink.verifier.steps
                        /\ w.steps = sink.verifier.steps \cup {<<sink.attribution, h.id>>}
                  /\ \/ h.kind # "subagent" /\ w.active = sink.verifier.active
                     \/ /\ h.kind = "subagent"
                        /\ h.id \notin sink.verifier.active
                        /\ w.active = sink.verifier.active \cup {h.id}
    PROVE  IInv'
<1>1. /\ run = "running" /\ run' = run /\ refused' = refused
      /\ sink' = opened.sink /\ cancelled' = stop /\ Len(alive) < MaxDepth
      /\ alive' = IF opened.ok THEN Append(alive, h) ELSE alive
      /\ Bare(alive)
  BY DEF Open, AtContext, Bare, Top, ChunkKinds
<1>2. stop \in BOOLEAN /\ (cancelled => stop) /\ refused' \subseteq {"reasoning signature"}
  BY <1>1 DEF Stops, IInv, TypeOK, NeverRefused
<1>3. Shaped(alive) /\ Attributed(alive, sink.attribution) /\ Ready(sink)
  BY <1>1 DEF IInv
<1>4. CASE ~opened.ok
  BY <1>1, <1>2, <1>4, UsePreserves
<1>5. CASE opened.ok
  <2> DEFINE v == sink.verifier
             w == opened.sink.verifier
             g == sink.attribution
             f == opened.sink.attribution
             b == Append(alive, h)
  <2>1. Shaped(b)
    BY <1>1, <1>3, ShapedPushed
  <2>2. Attributed(b, f)
    <3>1. f = IF h.kind = "subagent" THEN h.id ELSE g
      BY <1>5
    <3> HIDE DEF f, g, b
    <3>2. h.kind = "subagent" => h.previous = g
      BY DEF g
    <3>3. Attributed(alive, g)
      BY <1>3 DEF g
    <3> QED BY <1>3, <3>1, <3>2, <3>3, AttributedPushed DEF b
  <2>3. Len(b) = Len(alive) + 1 /\ Len(alive) \in Nat
    BY <1>3, Pushed
  <2>4. TypeOK'
    <3>1. b \in Seq(Handles) /\ Len(b) <= MaxDepth
      BY <1>1, <2>1, <2>3 DEF Shaped
    <3> QED BY <1>1, <1>2, <1>5, <3>1 DEF IInv, TypeOK, Ready
  <2>5. ASSUME ~stop
        PROVE  InStep(w, b, f)
    <3>1. StepsOpen(v, alive) /\ SubagentsOpen(v, alive)
      BY <1>2, <2>5 DEF IInv, InStep
    <3>2. InForce(alive, Len(alive) + 1, g) /\ g \in Owner
      BY <1>3 DEF Attributed, Ready, Sinks
    <3>3. \/ h.kind # "step" /\ w.steps = v.steps
          \/ h.kind = "step" /\ <<g, h.id>> \notin v.steps /\ w.steps = v.steps \cup {<<g, h.id>>}
      BY <1>5, <2>5
    <3>4. \/ h.kind # "subagent" /\ w.active = v.active
          \/ h.kind = "subagent" /\ h.id \notin v.active /\ w.active = v.active \cup {h.id}
      BY <1>5, <2>5
    <3>5. LeafOpen(w, b, f)
      BY <1>5, <2>5
    <3> HIDE DEF v, w, g, f
    <3>6. StepsOpen(w, b)
      BY <1>3, <3>1, <3>2, <3>3, StepsPushed
    <3>7. SubagentsOpen(w, b)
      BY <1>3, <3>1, <3>4, SubagentsPushed
    <3> QED BY <3>5, <3>6, <3>7 DEF InStep
  <2>6. alive' = b /\ sink'.verifier = w /\ sink'.attribution = f /\ cancelled' = stop
    BY <1>1, <1>5
  <2> HIDE DEF b, w, f
  <2>7. NeverRefused'
    BY <1>2 DEF NeverRefused
  <2>8. Ready(sink') /\ Shaped(alive') /\ Attributed(alive', sink'.attribution)
    BY <1>1, <2>1, <2>2, <2>6
  <2>9. ~cancelled' => InStep(sink'.verifier, alive', sink'.attribution)
    BY <2>5, <2>6
  <2> QED BY <2>4, <2>7, <2>8, <2>9 DEF IInv
<1> QED BY <1>4, <1>5

-----------------------------------------------------------------------------
(* The actions. *)

LEMMA InitEstablishes == Init => IInv
<1> SUFFICES ASSUME Init PROVE IInv
  OBVIOUS
<1> DEFINE e == RunStarted(NoOwners)
           w == S!Observe(New.verifier, e)
<1>1. New \in Sinks
  BY DEF New, Sinks, S!Fresh, S!Verifier, S!NoOwners, S!Owners, S!Owner, Owner,
         S!Absent, S!Kinds, S!ChunkKinds, S!Buckets
<1>2. e \in Wire /\ e.type = "RUN_STARTED" /\ ~IsTerminal(e)
  BY DEF RunStarted, NoOwners, Owners, Wire, IsTerminal, Terminals, RunFinished, RunError
<1>3. New.verifier = S!Fresh /\ S!Fresh \in S!Verifier
  BY <1>1 DEF New, Sinks
<1>4. S!Accepts(S!Fresh, e)
  BY DEF S!Accepts, S!RunRules, S!StreamRules, S!ContinuationRules, S!ScopeRules, S!Fresh,
         RunStarted
<1>5. w \in S!Verifier
  BY <1>2, <1>3, ObserveType
<1>6. w = [S!Fresh EXCEPT !.started = TRUE, !.owner = S!Seeded(S!Fresh, e.history, FALSE)]
  BY <1>2, <1>3, <1>4 DEF S!Observe, S!Fold
<1>7. w.ended = FALSE /\ w.open = S!Fresh.open /\ w.steps = {} /\ w.active = {}
  BY <1>6 DEF S!Fresh
<1>8. S!Fresh.open = [k \in Kinds |-> [i \in Ids |-> Absent]]
  BY DEF S!Fresh, S!Kinds, S!ChunkKinds, S!Absent, Kinds, ChunkKinds, Absent
<1> HIDE DEF w, e
<1>9. Ready(Running) /\ Running.attribution = None /\ Running.verifier = w
  BY <1>1, <1>5, <1>7 DEF Running, New, Ready, Sinks, w, e
<1>10. sink = Running /\ alive = <<>> /\ cancelled = FALSE /\ refused = {} /\ run = "running"
  BY DEF Init
<1>11. alive \in Seq(Handles) /\ Len(alive) = 0
  BY <1>10
<1>12. Shaped(alive) /\ Bare(alive)
  BY <1>10, <1>11 DEF Shaped, Bare
<1>13. Attributed(alive, None)
  BY <1>11 DEF Attributed, InForce
<1>14. Closed(w)
  BY <1>7, <1>8, VerifierNames DEF Closed
<1>15. LeafOpen(w, alive, None)
  BY <1>12, <1>14, BareIsClosed
<1>16. StepsOpen(w, alive) /\ SubagentsOpen(w, alive)
  BY <1>7, <1>11 DEF StepsOpen, SubagentsOpen
<1>17. TypeOK
  <2>1. sink \in Sinks
    BY <1>9, <1>10 DEF Ready
  <2>2. Len(alive) <= MaxDepth
    BY <1>11
  <2> QED BY <1>10, <1>11, <2>1, <2>2 DEF TypeOK
<1> QED BY <1>9, <1>10, <1>12, <1>13, <1>15, <1>16, <1>17 DEF IInv, NeverRefused, InStep

LEMMA KindsOfHandles ==
    /\ \A kind \in ChunkKinds \cup {"step", "subagent"} :
          \A id \in Ids \cup StepNames \cup Subagents : \A previous \in Owner :
             /\ Handle(kind, id, previous) \in Handles
             /\ Handle(kind, id, previous).kind = kind
             /\ Handle(kind, id, previous).id = id
             /\ Handle(kind, id, previous).previous = previous
    /\ None \in Owner
    /\ "text" \in ChunkKinds /\ "tool" \in ChunkKinds /\ "reasoning" \in ChunkKinds
    /\ "step" \notin ChunkKinds /\ "subagent" \notin ChunkKinds
    /\ ChunkKinds \subseteq Kinds /\ "block" \in Kinds
  BY DEF Handle, Handles, Owner, ChunkKinds, Kinds

LEMMA KindNames ==
    /\ "text" \in ChunkKinds /\ "tool" \in ChunkKinds /\ "reasoning" \in ChunkKinds
    /\ "step" \notin ChunkKinds /\ "subagent" \notin ChunkKinds
    /\ ChunkKinds \subseteq Kinds /\ "block" \in Kinds
  BY DEF ChunkKinds, Kinds

LEMMA StopTypes ==
    ASSUME IInv, NEW stop \in Stops
    PROVE  /\ stop \in BOOLEAN /\ (cancelled => stop)
           /\ \A stop2 \in {stop, TRUE} : stop2 \in Stops /\ stop2 \in BOOLEAN /\ (stop => stop2)
  BY DEF Stops, IInv, TypeOK

\* In a run that is not cancelled, a context in reach means nothing is open.
LEMMA ContextIsClosed ==
    ASSUME IInv, AtContext
    PROVE  /\ Ready(sink) /\ sink.verifier \in S!Verifier /\ sink.attribution \in Owner
           /\ Shaped(alive) /\ Bare(alive)
           /\ ~cancelled => Closed(sink.verifier)
<1>1. Bare(alive) /\ run = "running"
  BY DEF AtContext, Bare, Top, ChunkKinds
<1>2. Ready(sink) /\ Shaped(alive)
  BY <1>1 DEF IInv
<1> QED BY <1>1, <1>2, BareIsClosed DEF IInv, InStep, Ready, Sinks

LEMMA StartLeafPreserves ==
    ASSUME IInv, NEW kind \in {"text", "tool"}, NEW i \in Ids, StartLeaf(kind, i)
    PROVE  IInv'
<1> DEFINE e == Start(kind, i, None)
           h == Handle(kind, i, None)
           g == sink.attribution
<1>1. PICK stop \in Stops : Open(h, EmitUnless(stop, sink, e), stop)
  BY DEF StartLeaf
<1> DEFINE r == EmitUnless(stop, sink, e)
<1>2. /\ Ready(sink) /\ sink.verifier \in S!Verifier /\ g \in Owner
      /\ Shaped(alive) /\ (~stop => Closed(sink.verifier)) /\ stop \in BOOLEAN
  BY <1>1, ContextIsClosed, StopTypes DEF Open
<1>3. /\ h \in Handles /\ h.kind = kind /\ h.id = i /\ kind \in Kinds
      /\ kind # "step" /\ kind # "subagent" /\ Written(e)
  BY KindsOfHandles DEF Written
<1>4. Tagged(sink, e) = Start(kind, i, g)
  BY TagOf
<1>5. /\ Ready(r.sink) /\ r.ok \in BOOLEAN /\ r.sink.attribution = g
      /\ ~stop => (r.ok <=> S!Accepts(sink.verifier, Start(kind, i, g)))
      /\ r.ok => ~stop /\ r.sink.verifier = S!Fold(sink.verifier, Start(kind, i, g))
      /\ ~r.ok => r.sink = sink
  BY <1>2, <1>3, <1>4, EmitLeaves
<1> HIDE DEF e, h, g, r
<1>6. ASSUME ~stop, r.ok
      PROVE  /\ LeafOpen(r.sink.verifier, Append(alive, h), r.sink.attribution)
             /\ r.sink.verifier.steps = sink.verifier.steps
             /\ r.sink.verifier.active = sink.verifier.active
  BY <1>2, <1>3, <1>5, <1>6, LeafStarts DEF Alike
<1> QED BY <1>1, <1>3, <1>5, <1>6, OpenPreserves DEF r, h, g

LEMMA StartReasoningPreserves ==
    ASSUME IInv, NEW i \in Ids, StartReasoning(i)
    PROVE  IInv'
<1> DEFINE block == Start("block", i, None)
           message == Start("reasoning", i, None)
           h == Handle("reasoning", i, None)
           g == sink.attribution
           v == sink.verifier
<1>0. PICK stop1 \in Stops : \E stop2 \in {stop1, TRUE} :
          Open(h, MessageIn(EmitUnless(stop1, sink, block), i, stop2), stop2)
  BY DEF StartReasoning
<1>1. PICK stop2 \in {stop1, TRUE} :
          Open(h, MessageIn(EmitUnless(stop1, sink, block), i, stop2), stop2)
  BY <1>0
<1> DEFINE one == EmitUnless(stop1, sink, block)
           two == EmitUnless(stop2, one.sink, message)
           opened == MessageIn(one, i, stop2)
<1>2. /\ Ready(sink) /\ v \in S!Verifier /\ g \in Owner
      /\ Shaped(alive) /\ (~stop1 => Closed(v))
      /\ stop1 \in BOOLEAN /\ stop2 \in BOOLEAN /\ stop2 \in Stops /\ (stop1 => stop2)
  BY <1>1, ContextIsClosed, StopTypes DEF Open
<1>3. /\ h \in Handles /\ h.kind = "reasoning" /\ h.id = i
      /\ Written(block) /\ Written(message)
      /\ Written(End("reasoning", i, None)) /\ Written(End("block", i, None))
  BY KindsOfHandles DEF Written
<1>4. /\ Ready(one.sink) /\ one.ok \in BOOLEAN /\ one.sink.attribution = g
      /\ one.ok => ~stop1 /\ one.sink.verifier = S!Fold(v, Start("block", i, g))
      /\ one.ok => S!Accepts(v, Start("block", i, g))
      /\ ~one.ok => one.sink = sink
  <2>1. Tagged(sink, block) = Start("block", i, g)
    BY TagOf
  <2> QED BY <1>2, <1>3, <2>1, EmitLeaves
<1> HIDE DEF one, block, h
<1>5. /\ Ready(two.sink) /\ two.ok \in BOOLEAN /\ two.sink.attribution = g
      /\ ~stop2 => (two.ok <=> S!Accepts(one.sink.verifier, Start("reasoning", i, g)))
      /\ two.ok => ~stop2 /\ two.sink.verifier = S!Fold(one.sink.verifier, Start("reasoning", i, g))
  <2>1. Tagged(one.sink, message) = Start("reasoning", i, g)
    BY <1>4, TagOf
  <2> HIDE DEF message, g
  <2>2. Emitted(two, stop2, one.sink, Start("reasoning", i, g))
    BY <1>2, <1>3, <1>4, <2>1, EmitIsEmitted
  <2> HIDE DEF two
  <2> QED BY <1>2, <1>4, <2>2 DEF Emitted
<1> HIDE DEF two, message, g
<1>6. ASSUME one.ok
      PROVE  /\ Alike(v, one.sink.verifier)
             /\ S!Accepts(one.sink.verifier, Start("reasoning", i, g))
             /\ Alike(one.sink.verifier, S!Fold(one.sink.verifier, Start("reasoning", i, g)))
             /\ LeafOpen(S!Fold(one.sink.verifier, Start("reasoning", i, g)), Append(alive, h), g)
  BY <1>2, <1>3, <1>4, <1>6, ReasoningStarts
<1>7. one.ok /\ ~stop2 => two.ok
  BY <1>5, <1>6
\* A message refused because of the cancellation between the two: the handle is dropped.
<1>8. ASSUME one.ok, ~two.ok
      PROVE  /\ Ready(opened.sink) /\ opened.ok = FALSE /\ opened.sink.attribution = g
             /\ stop2
  <2> DEFINE s1 == EmitUnless(stop2, two.sink, End("reasoning", i, None))
             s2 == EmitUnless(stop2, s1.sink, End("block", i, None))
  <2>1. opened = Result(FALSE, ReasoningClosed(two.sink, i, stop2, stop2).sink)
    BY <1>8 DEF MessageIn, OrDropped, two, message
  <2>2. Ready(s1.sink) /\ s1.sink.attribution = g
    BY <1>2, <1>3, <1>5, EmitKeeps
  <2>3. Ready(s2.sink) /\ s2.sink.attribution = g
    <3> HIDE DEF s1
    <3> QED BY <1>2, <1>3, <2>2, EmitKeeps
  <2>4. ReasoningClosed(two.sink, i, stop2, stop2).sink = s2.sink
    BY DEF ReasoningClosed, Both, Then, BothOk, Result
  <2> HIDE DEF s1, s2, opened
  <2>5. opened.sink = s2.sink /\ opened.ok = FALSE
    BY <2>1, <2>4 DEF Result
  <2> QED BY <1>7, <1>8, <2>3, <2>5
<1>9. /\ one.ok /\ two.ok => opened = two
      /\ ~one.ok => opened = one
  BY DEF MessageIn, OrDropped, two, message
<1>10. /\ Ready(opened.sink) /\ opened.ok \in BOOLEAN /\ opened.sink.attribution = g
  BY <1>4, <1>5, <1>8, <1>9
<1>11. ~stop2 /\ ~opened.ok => opened.sink.verifier = v
  BY <1>4, <1>7, <1>9
<1>12. ASSUME ~stop2, opened.ok
       PROVE  /\ LeafOpen(opened.sink.verifier, Append(alive, h), opened.sink.attribution)
              /\ opened.sink.verifier.steps = v.steps
              /\ opened.sink.verifier.active = v.active
  <2>1. one.ok /\ two.ok /\ opened = two
    BY <1>4, <1>8, <1>9, <1>12
  <2> HIDE DEF opened
  <2> QED BY <1>5, <1>6, <2>1 DEF Alike
<1>13. Open(h, opened, stop2)
  BY <1>1 DEF one, block
<1> HIDE DEF opened
<1>14. h.kind # "step" /\ h.kind # "subagent" /\ h.id \in Ids
  BY <1>3
<1> QED BY <1>2, <1>3, <1>10, <1>11, <1>12, <1>13, <1>14, OpenPreserves DEF g

LEMMA StartStepPreserves ==
    ASSUME IInv, NEW n \in StepNames, StartStep(n)
    PROVE  IInv'
<1> DEFINE e == StepStarted(n, None)
           h == Handle("step", n, None)
           g == sink.attribution
           v == sink.verifier
<1>1. PICK stop \in Stops : Open(h, EmitUnless(stop, sink, e), stop)
  BY DEF StartStep
<1> DEFINE r == EmitUnless(stop, sink, e)
<1>2. /\ Ready(sink) /\ v \in S!Verifier /\ g \in Owner /\ Bare(alive)
      /\ Shaped(alive) /\ (~stop => Closed(v)) /\ stop \in BOOLEAN
  BY <1>1, ContextIsClosed, StopTypes DEF Open
<1>3. h \in Handles /\ h.kind = "step" /\ h.id = n /\ Written(e)
  BY KindsOfHandles DEF Written
<1>4. Tagged(sink, e) = StepStarted(n, g)
  BY TagOf
<1>5. /\ Ready(r.sink) /\ r.ok \in BOOLEAN /\ r.sink.attribution = g
      /\ r.ok => ~stop /\ r.sink.verifier = S!Fold(v, StepStarted(n, g))
      /\ r.ok => S!Accepts(v, StepStarted(n, g))
      /\ ~r.ok => r.sink = sink
  BY <1>2, <1>3, <1>4, EmitLeaves
<1> HIDE DEF e, r
<1>6. ASSUME r.ok
      PROVE  /\ LeafOpen(r.sink.verifier, Append(alive, h), r.sink.attribution)
             /\ <<g, n>> \notin v.steps
             /\ r.sink.verifier.steps = v.steps \cup {<<g, n>>}
             /\ r.sink.verifier.active = v.active
  <2> HIDE DEF v, g, h
  <2>1. /\ StreamsKept(v, r.sink.verifier) /\ <<g, n>> \notin v.steps
        /\ r.sink.verifier.steps = v.steps \cup {<<g, n>>}
        /\ r.sink.verifier.active = v.active
    BY <1>2, <1>5, <1>6, StepFolds
  <2>2. Closed(r.sink.verifier)
    BY <1>2, <1>5, <1>6, <2>1, VerifierNames DEF Closed, StreamsKept
  <2>3. Bare(Append(alive, h))
    BY <1>2, <1>3, Pushed, KindsOfHandles DEF Bare
  <2> QED BY <2>1, <2>2, <2>3, BareIsClosed
<1> HIDE DEF h
<1>7. h.kind \notin ChunkKinds /\ h.kind # "subagent"
  BY <1>3, KindsOfHandles
<1> QED BY <1>1, <1>3, <1>5, <1>6, <1>7, OpenPreserves DEF r

LEMMA StartSubagentPreserves ==
    ASSUME IInv, NEW s \in Subagents, StartSubagent(s)
    PROVE  IInv'
<1> DEFINE g == sink.attribution
           v == sink.verifier
           e == SubagentStarted(s, g)
           h == Handle("subagent", s, g)
<1>1. PICK stop \in Stops : Open(h, Entered(EmitUnless(stop, sink, e), s), stop)
  BY DEF StartSubagent
<1> DEFINE r == EmitUnless(stop, sink, e)
           opened == Entered(r, s)
<1>2. /\ Ready(sink) /\ v \in S!Verifier /\ g \in Owner /\ Bare(alive)
      /\ Shaped(alive) /\ (~stop => Closed(v)) /\ stop \in BOOLEAN
  BY <1>1, ContextIsClosed, StopTypes DEF Open
<1>3. h \in Handles /\ h.kind = "subagent" /\ h.id = s /\ h.previous = g /\ Written(e)
  BY <1>2, KindsOfHandles DEF Written
<1>4. Tagged(sink, e) = e
  BY TagOf
<1>5. /\ Ready(r.sink) /\ r.ok \in BOOLEAN /\ r.sink.attribution = g
      /\ r.ok => ~stop /\ r.sink.verifier = S!Fold(v, e) /\ S!Accepts(v, e)
      /\ ~r.ok => r.sink = sink
  BY <1>2, <1>3, <1>4, EmitLeaves
<1> HIDE DEF r
<1>6. CASE ~r.ok
  <2>1. opened = r
    BY <1>6 DEF Entered
  <2> HIDE DEF opened, h
  <2>2. h.kind \notin ChunkKinds /\ h.kind # "step"
    BY <1>3, KindsOfHandles
  <2>3. Open(h, opened, stop)
    BY <1>1 DEF opened, r
  <2> QED BY <1>3, <1>5, <1>6, <2>1, <2>2, <2>3, OpenPreserves
<1>7. CASE r.ok
  <2>1. opened.ok = TRUE /\ opened.sink = [r.sink EXCEPT !.attribution = s]
    BY <1>7 DEF Entered, Result
  <2>2. Ready(opened.sink) /\ opened.sink.attribution = s /\ opened.sink.verifier = r.sink.verifier
    <3>1. s \in Owner
      BY DEF Owner
    <3> QED BY <1>5, <2>1, <3>1 DEF Ready, Sinks
  <2> DEFINE w == opened.sink.verifier
  <2>3. /\ StreamsKept(v, w) /\ s \notin v.active
        /\ w.steps = v.steps /\ w.active = v.active \cup {s}
    <3>1. SubagentError(s) \in {SubagentFinished(s), SubagentError(s)}
      OBVIOUS
    <3> QED BY <1>2, <1>5, <1>7, <2>2, <3>1, SubagentFolds
  <2> HIDE DEF opened, h
  <2>4. h.kind \notin ChunkKinds /\ h.kind # "step"
    BY <1>3, KindsOfHandles
  <2>5. Open(h, opened, stop)
    BY <1>1 DEF opened, r
  <2>6. LeafOpen(w, Append(alive, h), s)
    <3>1. Closed(w)
      BY <1>2, <1>5, <1>7, <2>3, VerifierNames DEF Closed, StreamsKept
    <3>2. Bare(Append(alive, h))
      BY <1>2, <1>3, <2>4, Pushed DEF Bare
    <3> QED BY <3>1, <3>2, BareIsClosed
  <2> QED BY <1>3, <2>1, <2>2, <2>3, <2>4, <2>5, <2>6, OpenPreserves
<1> QED BY <1>6, <1>7

\* A handle on top of a running run, and what the verifier holds open for it.
LEMMA InsideReady ==
    ASSUME IInv, NEW kind, Inside(kind)
    PROVE  /\ run = "running" /\ alive # <<>> /\ Top.kind = kind
           /\ Ready(sink) /\ sink.verifier \in S!Verifier /\ ~sink.verifier.ended
           /\ sink.attribution \in Owner
           /\ kind \in ChunkKinds => Top.id \in Ids
           /\ kind = "step" => Top.id \in StepNames
           /\ kind = "subagent" => Top.id \in Subagents
           /\ OnTop(alive, kind, Top.id) /\ Bare(Pop)
           /\ ~cancelled => InStep(sink.verifier, alive, sink.attribution)
<1>1. run = "running" /\ alive # <<>> /\ Top.kind = kind
  BY DEF Inside
<1> QED BY <1>1, AboveRest DEF IInv, Ready, Sinks

\* An event that is accepted unless the run is cancelled adds nothing to what was refused.
LEMMA WrittenInUse ==
    ASSUME IInv, NEW stop \in Stops, NEW r, NEW what, WriteAs(what, r, stop),
           what = "reasoning signature" \/ stop \/ r.ok
    PROVE  /\ sink' = r.sink /\ cancelled' = stop /\ run' = run
           /\ stop \in BOOLEAN /\ (cancelled => stop)
           /\ refused' \subseteq {"reasoning signature"}
<1>1. stop \in BOOLEAN /\ (cancelled => stop)
  BY StopTypes
<1>2. refused' \subseteq {"reasoning signature"}
  BY DEF WriteAs, IInv, NeverRefused
<1> QED BY <1>1, <1>2 DEF WriteAs

\* One event that changes nothing the verifier holds.
LEMMA UsedByOne ==
    ASSUME IInv, run = "running", alive' = alive, NEW stop \in Stops, NEW r, NEW f, NEW what,
           WriteAs(what, r, stop), Emitted(r, stop, sink, f),
           S!Fold(sink.verifier, f) = sink.verifier,
           what = "reasoning signature" \/ (~stop => S!Accepts(sink.verifier, f))
    PROVE  IInv'
<1>1. stop \in BOOLEAN
  BY StopTypes
<1>2. /\ Ready(r.sink) /\ r.sink.attribution = sink.attribution
      /\ what = "reasoning signature" \/ stop \/ r.ok
      /\ r.sink.verifier = sink.verifier
  BY <1>1 DEF Emitted
<1>3. /\ sink' = r.sink /\ cancelled' = stop /\ run' = run /\ (cancelled => stop)
      /\ refused' \subseteq {"reasoning signature"}
  BY <1>2, WrittenInUse
<1> QED BY <1>1, <1>2, <1>3, UsePreserves

\* One event that closes what its handle holds open.
LEMMA ClosedByOne ==
    ASSUME IInv, run = "running", alive # <<>>, Top.kind # "subagent", alive' = Pop,
           NEW stop \in Stops, NEW r, NEW f, Write(r, stop), Emitted(r, stop, sink, f),
           ~stop => LET w == S!Fold(sink.verifier, f)
                    IN  /\ S!Accepts(sink.verifier, f) /\ Closed(w)
                        /\ w.active = sink.verifier.active
                        /\ \/ Top.kind # "step" /\ w.steps = sink.verifier.steps
                           \/ /\ Top.kind = "step"
                              /\ w.steps = sink.verifier.steps \ {<<sink.attribution, Top.id>>}
    PROVE  IInv'
<1> DEFINE w == S!Fold(sink.verifier, f)
<1>1. stop \in BOOLEAN
  BY StopTypes
<1>2. /\ Ready(r.sink) /\ r.sink.attribution = sink.attribution
      /\ stop \/ r.ok
      /\ ~stop => r.sink.verifier = w
  BY <1>1 DEF Emitted
<1>3. /\ sink' = r.sink /\ cancelled' = stop /\ run' = run /\ (cancelled => stop)
      /\ refused' \subseteq {"reasoning signature"}
  BY <1>2, WrittenInUse DEF Write
<1>4. ~stop => /\ Closed(w) /\ w.active = sink.verifier.active
               /\ \/ Top.kind # "step" /\ w.steps = sink.verifier.steps
                  \/ /\ Top.kind = "step"
                     /\ w.steps = sink.verifier.steps \ {<<sink.attribution, Top.id>>}
  OBVIOUS
<1> HIDE DEF w
<1> QED BY <1>1, <1>2, <1>3, <1>4, PopPreserves

LEMMA DeltaPreserves ==
    ASSUME IInv, NEW kind \in ChunkKinds, Delta(kind)
    PROVE  IInv'
<1> DEFINE e == Content(kind, Top.id, None)
           f == Content(kind, Top.id, sink.attribution)
           v == sink.verifier
<1>1. PICK stop \in Stops : Write(EmitUnless(stop, sink, e), stop)
  BY DEF Delta
<1>2. Inside(kind) /\ alive' = alive
  BY DEF Delta
<1>3. /\ run = "running" /\ Ready(sink) /\ v \in S!Verifier /\ ~v.ended
      /\ sink.attribution \in Owner /\ Top.id \in Ids /\ kind \in Kinds
      /\ OnTop(alive, kind, Top.id) /\ stop \in BOOLEAN /\ (cancelled => stop)
      /\ ~cancelled => LeafOpen(v, alive, sink.attribution)
  BY <1>2, InsideReady, StopTypes, KindNames DEF InStep
<1>4. Written(e)
  BY <1>3 DEF Written
<1>5. Tagged(sink, e) = f
  BY TagOf
<1>6. Emitted(EmitUnless(stop, sink, e), stop, sink, f)
  BY <1>3, <1>4, <1>5, EmitIsEmitted
<1>7. /\ S!Fold(v, f) = v
      /\ S!Accepts(v, f) <=> ~v.ended /\ S!IsOpen(v, kind, Top.id)
                               /\ Agrees(sink.attribution, v.open[kind][Top.id])
  BY <1>3, EndFolds
<1>8. ~stop => S!Accepts(v, f)
  BY <1>3, <1>7 DEF LeafOpen
<1> HIDE DEF e, f
<1> QED BY <1>1, <1>2, <1>3, <1>6, <1>7, <1>8, UsedByOne DEF Write

LEMMA EndLeafPreserves ==
    ASSUME IInv, NEW kind \in {"text", "tool"}, EndLeaf(kind)
    PROVE  IInv'
<1> DEFINE e == End(kind, Top.id, None)
           f == End(kind, Top.id, sink.attribution)
           v == sink.verifier
<1>1. PICK stop \in Stops : Write(EmitUnless(stop, sink, e), stop)
  BY DEF EndLeaf
<1>2. Inside(kind) /\ alive' = Pop
  BY DEF EndLeaf
<1>3. /\ run = "running" /\ Ready(sink) /\ v \in S!Verifier /\ ~v.ended /\ alive # <<>>
      /\ sink.attribution \in Owner /\ Top.id \in Ids /\ kind \in Kinds
      /\ OnTop(alive, kind, Top.id) /\ stop \in BOOLEAN /\ (cancelled => stop)
      /\ ~cancelled => LeafOpen(v, alive, sink.attribution)
      /\ Top.kind # "subagent" /\ Top.kind # "step"
  BY <1>2, InsideReady, StopTypes, KindNames DEF InStep
<1>4. Written(e)
  BY <1>3 DEF Written
<1>5. Tagged(sink, e) = f
  BY TagOf
<1>6. Emitted(EmitUnless(stop, sink, e), stop, sink, f)
  BY <1>3, <1>4, <1>5, EmitIsEmitted
<1>7. ~stop => LET w == S!Fold(v, f)
               IN  /\ S!Accepts(v, f) /\ Closed(w)
                   /\ w.active = v.active /\ w.steps = v.steps
  BY <1>3, LeafEnds DEF Alike
<1> HIDE DEF e, f
<1> QED BY <1>1, <1>2, <1>3, <1>6, <1>7, ClosedByOne

LEMMA FinishStepPreserves ==
    ASSUME IInv, FinishStep
    PROVE  IInv'
<1> DEFINE e == StepFinished(Top.id, None)
           g == sink.attribution
           f == StepFinished(Top.id, g)
           v == sink.verifier
<1>1. PICK stop \in Stops : Write(EmitUnless(stop, sink, e), stop)
  BY DEF FinishStep
<1>2. Inside("step") /\ alive' = Pop
  BY DEF FinishStep
<1>3. /\ run = "running" /\ Ready(sink) /\ v \in S!Verifier /\ ~v.ended /\ alive # <<>>
      /\ g \in Owner /\ Top.id \in StepNames /\ Top.kind = "step"
      /\ stop \in BOOLEAN /\ (cancelled => stop)
      /\ ~cancelled => LeafOpen(v, alive, g) /\ StepsOpen(v, alive)
  BY <1>2, InsideReady, StopTypes DEF InStep
<1>4. Written(e)
  BY <1>3 DEF Written
<1>5. Tagged(sink, e) = f
  BY TagOf
<1>6. Emitted(EmitUnless(stop, sink, e), stop, sink, f)
  BY <1>3, <1>4, <1>5, EmitIsEmitted
<1>7. ASSUME ~stop
      PROVE  LET w == S!Fold(v, f)
             IN  /\ S!Accepts(v, f) /\ Closed(w) /\ w.active = v.active
                 /\ w.steps = v.steps \ {<<g, Top.id>>}
  <2> DEFINE w == S!Fold(v, f)
  <2>1. /\ S!Accepts(v, f) <=> ~v.ended /\ <<g, Top.id>> \in v.steps
        /\ StreamsKept(v, w) /\ w.active = v.active
        /\ w.steps = v.steps \ {<<g, Top.id>>}
    BY <1>3, StepFolds
  <2>2. /\ Shaped(Pop) /\ Top \in Handles /\ alive = Append(Pop, Top)
    BY <1>3, AboveRest
  <2>3. InForce(Pop, Len(Pop) + 1, g)
    BY <1>3, <2>2, AttributedPopped DEF IInv
  <2> HIDE DEF w, f, g, v
  <2>4. StepsOpen(v, Append(Pop, Top)) /\ v.steps \subseteq Owner \X StepNames
    BY <1>3, <1>7, <2>2, VerifierNames
  <2>5. <<g, Top.id>> \in v.steps
    BY <1>3, <2>1, <2>2, <2>3, <2>4, StepsPopped
  <2>6. Bare(alive)
    BY <1>3, KindsOfHandles DEF Bare, Top
  <2>7. Closed(v)
    BY <1>3, <1>7, <2>6, BareIsClosed
  <2>8. Closed(w)
    BY <1>3, <2>1, <2>7, VerifierNames DEF Closed, StreamsKept
  <2> QED BY <1>3, <2>1, <2>5, <2>8 DEF w
<1> HIDE DEF e, f
<1>8. Top.kind # "subagent"
  BY <1>3
<1> QED BY <1>1, <1>2, <1>3, <1>6, <1>7, <1>8, ClosedByOne

LEMMA SignToolCallPreserves ==
    ASSUME IInv, SignToolCall
    PROVE  IInv'
<1> DEFINE e == Encrypted("tool-call", Top.id, None)
           g == sink.attribution
           f == Encrypted("tool-call", Top.id, g)
           v == sink.verifier
<1>1. PICK stop \in Stops : WriteAs("call signature", EmitUnless(stop, sink, e), stop)
  BY DEF SignToolCall
<1>2. Inside("tool") /\ alive' = alive
  BY DEF SignToolCall
<1>3. /\ run = "running" /\ Ready(sink) /\ v \in S!Verifier /\ ~v.ended
      /\ g \in Owner /\ Top.id \in Ids /\ "tool" \in Kinds
      /\ OnTop(alive, "tool", Top.id) /\ stop \in BOOLEAN /\ (cancelled => stop)
      /\ ~cancelled => LeafOpen(v, alive, g)
  BY <1>2, InsideReady, StopTypes, KindNames DEF InStep
<1>4. Written(e)
  BY <1>3 DEF Written
<1>5. Tagged(sink, e) = f
  BY TagOf
<1>6. Emitted(EmitUnless(stop, sink, e), stop, sink, f)
  BY <1>3, <1>4, <1>5, EmitIsEmitted
<1>7. /\ S!Fold(v, f) = v
      /\ S!Accepts(v, f) <=>
            ~v.ended /\ (v.owner["call"][Top.id] = Absent \/ Agrees(g, v.owner["call"][Top.id]))
  BY <1>3, ContinuationFolds
\* The call is open, so its recorded owner is that of its stream.
<1>8. ~stop => S!Accepts(v, f)
  <2>1. "tool" \in ChunkKinds
    BY KindsOfHandles
  <2> QED BY <1>3, <1>7, <2>1 DEF LeafOpen
<1> HIDE DEF e, f
<1> QED BY <1>1, <1>2, <1>3, <1>6, <1>7, <1>8, UsedByOne

LEMMA SignReasoningPreserves ==
    ASSUME IInv, SignReasoning
    PROVE  IInv'
<1> DEFINE e == Encrypted("message", Top.id, None)
           g == sink.attribution
           f == Encrypted("message", Top.id, g)
           v == sink.verifier
<1>1. PICK stop \in Stops : WriteAs("reasoning signature", EmitUnless(stop, sink, e), stop)
  BY DEF SignReasoning
<1>2. Inside("reasoning") /\ alive' = alive
  BY DEF SignReasoning
<1>3. /\ run = "running" /\ Ready(sink) /\ v \in S!Verifier
      /\ g \in Owner /\ Top.id \in Ids /\ stop \in BOOLEAN
  BY <1>2, InsideReady, StopTypes, KindNames
<1>4. Written(e)
  BY <1>3 DEF Written
<1>5. Tagged(sink, e) = f
  BY TagOf
<1>6. Emitted(EmitUnless(stop, sink, e), stop, sink, f)
  BY <1>3, <1>4, <1>5, EmitIsEmitted
<1>7. S!Fold(v, f) = v
  BY <1>3, ContinuationFolds
<1> HIDE DEF e, f
<1> QED BY <1>1, <1>2, <1>3, <1>6, <1>7, UsedByOne

\* The two emits of one method: both go out if both are acceptable and nothing cancels.
BothEmitted(r, stop, s, f1, f2) ==
    LET u == S!Fold(s.verifier, f1)
    IN  /\ Ready(r.sink) /\ r.sink.attribution = s.attribution
        /\ ~stop /\ S!Accepts(s.verifier, f1) /\ S!Accepts(u, f2) =>
              r.ok /\ r.sink.verifier = S!Fold(u, f2)

LEMMA BothAreEmitted ==
    ASSUME NEW s, Ready(s), NEW e1, Written(e1), NEW e2, Written(e2),
           NEW stop1 \in BOOLEAN, NEW stop2 \in BOOLEAN, stop1 => stop2, NEW always \in BOOLEAN
    PROVE  BothEmitted(Both(s, e1, e2, stop1, stop2, always), stop2, s,
                       Tagged(s, e1), Tagged(s, e2))
<1> DEFINE one == EmitUnless(stop1, s, e1)
           two == EmitUnless(stop2, one.sink, e2)
           r == Both(s, e1, e2, stop1, stop2, always)
           f1 == Tagged(s, e1)
           f2 == Tagged(s, e2)
<1>1. Emitted(one, stop1, s, f1)
  BY EmitIsEmitted
<1>2. r = IF one.ok \/ always THEN Result(one.ok /\ two.ok, two.sink) ELSE one
  BY DEF Both, Then, BothOk
<1> HIDE DEF one
<1>3. Ready(one.sink) /\ one.sink.attribution = s.attribution /\ one.ok \in BOOLEAN
  BY <1>1 DEF Emitted
<1>4. Tagged(one.sink, e2) = f2
  BY <1>3 DEF Tagged
<1>5. Emitted(two, stop2, one.sink, f2)
  BY <1>3, <1>4, EmitIsEmitted
<1> HIDE DEF two
<1>6. Ready(two.sink) /\ two.sink.attribution = s.attribution /\ two.ok \in BOOLEAN
  BY <1>3, <1>5 DEF Emitted
<1>7. /\ one.ok \/ always => r.sink = two.sink /\ (r.ok <=> one.ok /\ two.ok)
      /\ ~(one.ok \/ always) => r = one
  BY <1>2, <1>3, <1>6 DEF Result
<1> HIDE DEF r
<1> HIDE DEF f1, f2
<1>8. Ready(r.sink) /\ r.sink.attribution = s.attribution
  BY <1>3, <1>6, <1>7
<1>9. ASSUME ~stop2, S!Accepts(s.verifier, f1), S!Accepts(S!Fold(s.verifier, f1), f2)
      PROVE  r.ok /\ r.sink.verifier = S!Fold(S!Fold(s.verifier, f1), f2)
  <2>1. one.ok /\ one.sink.verifier = S!Fold(s.verifier, f1)
    BY <1>1, <1>3, <1>9 DEF Emitted
  <2>2. two.ok /\ two.sink.verifier = S!Fold(one.sink.verifier, f2)
    BY <1>5, <1>6, <1>9, <2>1 DEF Emitted
  <2> QED BY <1>7, <2>1, <2>2
<1> QED BY <1>8, <1>9 DEF r, f1, f2, BothEmitted

\* Two events that close, between them, what their leaf holds open.
LEMMA ClosedByTwo ==
    ASSUME IInv, run = "running", alive # <<>>, Top.kind \in ChunkKinds, alive' = Pop,
           NEW stop \in Stops, NEW r, Write(r, stop),
           Ready(r.sink), r.sink.attribution = sink.attribution,
           ~stop => /\ r.ok /\ Closed(r.sink.verifier)
                    /\ r.sink.verifier.steps = sink.verifier.steps
                    /\ r.sink.verifier.active = sink.verifier.active
    PROVE  IInv'
<1>1. /\ sink' = r.sink /\ cancelled' = stop /\ run' = run /\ (cancelled => stop)
      /\ stop \in BOOLEAN /\ refused' \subseteq {"reasoning signature"}
  BY WrittenInUse DEF Write
<1>2. Top.kind # "subagent" /\ Top.kind # "step"
  BY KindsOfHandles
<1> QED BY <1>1, <1>2, PopPreserves

LEMMA AnswerToolCallPreserves ==
    ASSUME IInv, NEW m \in Ids, AnswerToolCall(m)
    PROVE  IInv'
<1> DEFINE i == Top.id
           g == sink.attribution
           v == sink.verifier
           e1 == End("tool", i, None)
           e2 == ToolResult(m, i, None)
           f1 == End("tool", i, g)
           f2 == ToolResult(m, i, g)
           u == S!Fold(v, f1)
<1>0. PICK stop1 \in Stops :
          \E stop2 \in {stop1, TRUE} : Write(Both(sink, e1, e2, stop1, stop2, FALSE), stop2)
  BY DEF AnswerToolCall
<1>1. PICK stop2 \in {stop1, TRUE} : Write(Both(sink, e1, e2, stop1, stop2, FALSE), stop2)
  BY <1>0
<1> DEFINE r == Both(sink, e1, e2, stop1, stop2, FALSE)
<1>2. Inside("tool") /\ alive' = Pop
  BY DEF AnswerToolCall
<1>3. /\ run = "running" /\ Ready(sink) /\ v \in S!Verifier /\ ~v.ended /\ alive # <<>>
      /\ g \in Owner /\ i \in Ids /\ "tool" \in Kinds /\ Top.kind \in ChunkKinds
      /\ OnTop(alive, "tool", i)
      /\ ~cancelled => LeafOpen(v, alive, g)
  BY <1>2, InsideReady, KindNames DEF InStep
<1>4. /\ stop1 \in BOOLEAN /\ stop2 \in BOOLEAN /\ stop2 \in Stops
      /\ (cancelled => stop1) /\ (stop1 => stop2)
  BY StopTypes
<1>5. Written(e1) /\ Written(e2)
  BY <1>3 DEF Written
<1>6. Tagged(sink, e1) = f1 /\ Tagged(sink, e2) = f2
  BY TagOf
<1>7. /\ Ready(r.sink) /\ r.sink.attribution = g
      /\ ~stop2 /\ S!Accepts(v, f1) /\ S!Accepts(u, f2) =>
            r.ok /\ r.sink.verifier = S!Fold(u, f2)
  <2> HIDE DEF e1, e2, f1, f2
  <2>1. BothEmitted(r, stop2, sink, f1, f2)
    BY <1>3, <1>4, <1>5, <1>6, BothAreEmitted
  <2> HIDE DEF r
  <2> QED BY <2>1 DEF BothEmitted
<1>8. ASSUME ~stop2
      PROVE  /\ S!Accepts(v, f1) /\ S!Accepts(u, f2)
             /\ LET w == S!Fold(u, f2)
                IN  Closed(w) /\ w.steps = v.steps /\ w.active = v.active
  <2> DEFINE w == S!Fold(u, f2)
  <2>1. LeafOpen(v, alive, g)
    BY <1>3, <1>4, <1>8
  <2>2. S!Accepts(v, f1) /\ Alike(v, u) /\ u.owner = v.owner /\ Closed(u)
    BY <1>3, <2>1, LeafEnds
  \* The call is known by its owner, which its END leaves recorded.
  <2>3. v.owner["call"][i] # Absent
    <3>1. S!IsOpen(v, "tool", i)
      BY <1>3, <2>1, KindsOfHandles DEF LeafOpen
    <3> QED BY <1>3, <2>1, <3>1, VerifierNames DEF LeafOpen
  <2> HIDE DEF u, f1
  <2>4. u \in S!Verifier /\ ~u.ended
    BY <1>3, <2>2 DEF Alike
  <2>5. /\ S!Accepts(u, f2) <=> ~u.ended /\ u.owner["call"][i] # Absent /\ ~S!IsOpen(u, "tool", i)
        /\ Alike(u, w) /\ w.open = u.open
    BY <1>3, <2>4, ContinuationFolds
  <2>6. S!Accepts(u, f2)
    BY <1>3, <2>2, <2>3, <2>4, <2>5 DEF Closed
  <2> HIDE DEF w, f2
  <2>7. Closed(w)
    BY <2>2, <2>5, VerifierNames DEF Closed
  <2> QED BY <2>2, <2>5, <2>6, <2>7 DEF Alike, w
<1> HIDE DEF r, u, f1, f2
<1>9. ~stop2 => r.ok /\ Closed(r.sink.verifier)
                /\ r.sink.verifier.steps = v.steps /\ r.sink.verifier.active = v.active
  BY <1>7, <1>8
<1> QED BY <1>1, <1>2, <1>3, <1>4, <1>7, <1>9, ClosedByTwo DEF r

LEMMA CloseReasoningPreserves ==
    ASSUME IInv, CloseReasoning
    PROVE  IInv'
<1> DEFINE i == Top.id
           g == sink.attribution
           v == sink.verifier
           e1 == End("reasoning", i, None)
           e2 == End("block", i, None)
           f1 == End("reasoning", i, g)
           f2 == End("block", i, g)
           u == S!Fold(v, f1)
<1>0. PICK stop1 \in Stops :
          \E stop2 \in {stop1, TRUE} : Write(ReasoningClosed(sink, i, stop1, stop2), stop2)
  BY DEF CloseReasoning
<1>1. PICK stop2 \in {stop1, TRUE} : Write(ReasoningClosed(sink, i, stop1, stop2), stop2)
  BY <1>0
<1> DEFINE r == Both(sink, e1, e2, stop1, stop2, TRUE)
<1>2. Inside("reasoning") /\ alive' = Pop
  BY DEF CloseReasoning
<1>3. /\ run = "running" /\ Ready(sink) /\ v \in S!Verifier /\ ~v.ended /\ alive # <<>>
      /\ g \in Owner /\ i \in Ids /\ "reasoning" \in Kinds /\ "block" \in Kinds
      /\ Top.kind \in ChunkKinds /\ OnTop(alive, "reasoning", i)
      /\ ~cancelled => LeafOpen(v, alive, g)
  BY <1>2, InsideReady, KindNames DEF InStep
<1>4. /\ stop1 \in BOOLEAN /\ stop2 \in BOOLEAN /\ stop2 \in Stops
      /\ (cancelled => stop1) /\ (stop1 => stop2)
  BY StopTypes
<1>5. Written(e1) /\ Written(e2)
  BY <1>3 DEF Written
<1>6. Tagged(sink, e1) = f1 /\ Tagged(sink, e2) = f2
  BY TagOf
<1>7. /\ Ready(r.sink) /\ r.sink.attribution = g
      /\ ~stop2 /\ S!Accepts(v, f1) /\ S!Accepts(u, f2) =>
            r.ok /\ r.sink.verifier = S!Fold(u, f2)
  <2> HIDE DEF e1, e2, f1, f2
  <2>1. BothEmitted(r, stop2, sink, f1, f2)
    BY <1>3, <1>4, <1>5, <1>6, BothAreEmitted
  <2> HIDE DEF r
  <2> QED BY <2>1 DEF BothEmitted
<1>8. ASSUME ~stop2
      PROVE  /\ S!Accepts(v, f1) /\ S!Accepts(u, f2)
             /\ LET w == S!Fold(u, f2)
                IN  Closed(w) /\ w.steps = v.steps /\ w.active = v.active
  <2>1. LeafOpen(v, alive, g)
    BY <1>3, <1>4, <1>8
  <2>2. /\ S!Accepts(v, f1) /\ Alike(v, u)
        /\ S!Accepts(u, f2) /\ Alike(u, S!Fold(u, f2)) /\ Closed(S!Fold(u, f2))
    BY <1>3, <2>1, ReasoningEnds
  <2> QED BY <2>2 DEF Alike
<1>9. Write(r, stop2)
  BY <1>1 DEF ReasoningClosed
<1> HIDE DEF r, u, f1, f2
<1>10. ~stop2 => r.ok /\ Closed(r.sink.verifier)
                 /\ r.sink.verifier.steps = v.steps /\ r.sink.verifier.active = v.active
  BY <1>7, <1>8
<1> QED BY <1>2, <1>3, <1>4, <1>7, <1>9, <1>10, ClosedByTwo

LEMMA ConcludeSubagentPreserves ==
    ASSUME IInv, ConcludeSubagent
    PROVE  IInv'
<1> DEFINE s == Top.id
           v == sink.verifier
<1>0. PICK stop \in Stops : \E e \in {SubagentFinished(s), SubagentError(s)} :
          Write(EmitUnless(stop, Left, e), stop)
  BY DEF ConcludeSubagent
<1>1. PICK e \in {SubagentFinished(s), SubagentError(s)} : Write(EmitUnless(stop, Left, e), stop)
  BY <1>0
<1> DEFINE r == EmitUnless(stop, Left, e)
<1>2. Inside("subagent") /\ alive' = Pop
  BY DEF ConcludeSubagent
<1>3. /\ run = "running" /\ Ready(sink) /\ v \in S!Verifier /\ ~v.ended /\ alive # <<>>
      /\ s \in Subagents /\ Top.kind = "subagent"
      /\ stop \in BOOLEAN /\ (cancelled => stop)
      /\ ~cancelled => LeafOpen(v, alive, sink.attribution) /\ SubagentsOpen(v, alive)
  BY <1>2, InsideReady, StopTypes DEF InStep
<1>4. Shaped(Pop) /\ Top \in Handles /\ alive = Append(Pop, Top) /\ Top.previous \in Owner
  BY <1>3, AboveRest DEF Handles
<1>5. Ready(Left) /\ Left.attribution = Top.previous /\ Left.verifier = v
  BY <1>3, <1>4 DEF Left, Ready, Sinks
<1>6. Written(e) /\ Tagged(Left, e) = e
  BY <1>3, TagOf DEF Written
<1>7. Emitted(r, stop, Left, e)
  BY <1>3, <1>5, <1>6, EmitIsEmitted
<1> HIDE DEF r
<1>8. /\ S!Accepts(v, e) <=> ~v.ended /\ s \in v.active
      /\ StreamsKept(v, S!Fold(v, e)) /\ S!Fold(v, e).steps = v.steps
      /\ S!Fold(v, e).active = v.active \ {s}
  <2>1. None \in Owner
    BY DEF Owner
  <2> QED BY <1>3, <2>1, SubagentFolds
<1>9. ASSUME ~stop
      PROVE  S!Accepts(v, e) /\ Closed(S!Fold(v, e))
  <2>1. SubagentsOpen(v, Append(Pop, Top)) /\ LeafOpen(v, alive, sink.attribution)
    BY <1>3, <1>4, <1>9
  <2>2. s \in v.active
    <3> HIDE DEF v
    <3> QED BY <1>3, <1>4, <2>1, SubagentsPopped
  <2>3. Bare(alive)
    BY <1>3, KindsOfHandles DEF Bare, Top
  <2>4. Closed(v)
    BY <2>1, <2>3, BareIsClosed
  <2>5. Closed(S!Fold(v, e))
    BY <1>8, <2>4, VerifierNames DEF Closed, StreamsKept
  <2> QED BY <1>3, <1>8, <2>2, <2>5
<1>10. /\ Ready(r.sink) /\ r.sink.attribution = Top.previous
       /\ ~stop => r.ok /\ r.sink.verifier = S!Fold(v, e)
  BY <1>3, <1>5, <1>7, <1>9 DEF Emitted
<1>11. /\ sink' = r.sink /\ cancelled' = stop /\ run' = run
       /\ refused' \subseteq {"reasoning signature"}
  BY <1>1, <1>10, WrittenInUse DEF Write, r
<1>12. ~stop => /\ Closed(sink'.verifier) /\ sink'.verifier.steps = v.steps
                /\ sink'.verifier.active = v.active \ {s}
  BY <1>8, <1>9, <1>10, <1>11
<1> QED BY <1>2, <1>3, <1>10, <1>11, <1>12, PopPreserves

\* A subagent dropped without an outcome stays active; its scope is left all the same.
LEMMA DropSubagentPreserves ==
    ASSUME IInv, DropSubagent
    PROVE  IInv'
<1>1. /\ Inside("subagent") /\ alive' = Pop /\ sink' = Left
      /\ cancelled' = cancelled /\ refused' = refused /\ run' = run
  BY DEF DropSubagent
<1>2. /\ run = "running" /\ Ready(sink) /\ alive # <<>> /\ Top.kind = "subagent"
      /\ ~cancelled => LeafOpen(sink.verifier, alive, sink.attribution)
  BY <1>1, InsideReady DEF InStep
<1>3. Top.previous \in Owner
  BY <1>2, AboveRest DEF Handles
<1>4. Ready(Left) /\ Left.attribution = Top.previous /\ Left.verifier = sink.verifier
  BY <1>2, <1>3 DEF Left, Ready, Sinks
<1>5. Bare(alive)
  BY <1>2, KindsOfHandles DEF Bare, Top
<1>6. ~cancelled => Closed(sink.verifier)
  BY <1>2, <1>5, BareIsClosed
<1>7. cancelled \in BOOLEAN /\ refused \subseteq {"reasoning signature"}
  BY DEF IInv, TypeOK, NeverRefused
<1> QED BY <1>1, <1>2, <1>4, <1>6, <1>7, PopPreserves

\* The driver's terminal event leaves streams, steps, subagents and the scope alone.
Kept(s, t) ==
    /\ t.attribution = s.attribution
    /\ t.verifier.open = s.verifier.open /\ t.verifier.owner = s.verifier.owner
    /\ t.verifier.steps = s.verifier.steps /\ t.verifier.active = s.verifier.active

LEMMA TerminalKeeps ==
    ASSUME NEW s, Agreeing(s), NEW e \in Terminals
    PROVE  Kept(s, EmitPlain(s, e).sink)
<1>1. /\ e.type \in {"RUN_FINISHED", "RUN_ERROR"} /\ Tagged(s, e) = e
      /\ RunError.type = "RUN_ERROR"
  BY DEF Terminals, Tagged, Attributable, RunFinished, RunError
<1>2. s \in Sinks /\ s.verifier \in S!Verifier
  BY DEF Agreeing, Sinks
<1>3. ASSUME NEW f, f.type \in {"RUN_FINISHED", "RUN_ERROR"}
      PROVE  LET v == s.verifier
                 w == S!Observe(v, f)
             IN  /\ w.open = v.open /\ w.owner = v.owner
                 /\ w.steps = v.steps /\ w.active = v.active
  <2>1. S!Observe(s.verifier, f) \in {s.verifier, [s.verifier EXCEPT !.ended = TRUE]}
    BY <1>3 DEF S!Observe, S!Fold, S!Residue
  <2> QED BY <1>2, <2>1, VerifierNames
<1>4. Kept(s, Overflow(s).sink)
  <2>1. CASE S!Accepts(s.verifier, RunError)
    <3> DEFINE w == S!Observe(s.verifier, RunError)
    <3>1. Overflow(s).sink = [s EXCEPT !.verifier = w, !.queue = Append(s.queue, RunError),
                                       !.terminated = TRUE, !.overflowed = TRUE]
      BY <2>1 DEF Overflow, Result
    <3>2. /\ w.open = s.verifier.open /\ w.owner = s.verifier.owner
          /\ w.steps = s.verifier.steps /\ w.active = s.verifier.active
      BY <1>1, <1>3
    <3> HIDE DEF w
    <3> QED BY <1>2, <3>1, <3>2 DEF Kept, Sinks
  <2>2. CASE ~S!Accepts(s.verifier, RunError)
    BY <2>2 DEF Overflow, Result, Kept
  <2> QED BY <2>1, <2>2
<1>5. Kept(s, Send(s, e).sink)
  <2> DEFINE w == S!Observe(s.verifier, e)
  <2>1. CASE Full(s)
    BY <1>4, <2>1 DEF Send
  <2>2. /\ w.open = s.verifier.open /\ w.owner = s.verifier.owner
        /\ w.steps = s.verifier.steps /\ w.active = s.verifier.active
    BY <1>1, <1>3
  <2>3. CASE ~Full(s) /\ S!Accepts(s.verifier, e)
    <3>1. Send(s, e).sink = Queued(s, e)
      BY <2>3 DEF Send, Result
    <3>2. Queued(s, e).verifier = w /\ Queued(s, e).attribution = s.attribution
      BY <1>2 DEF Queued, Sinks
    <3> HIDE DEF w
    <3> QED BY <2>2, <3>1, <3>2 DEF Kept
  <2>4. CASE ~Full(s) /\ ~S!Accepts(s.verifier, e)
    <3>1. Send(s, e).sink = [s EXCEPT !.verifier = w]
      BY <2>4 DEF Send, Result
    <3> HIDE DEF w
    <3> QED BY <1>2, <2>2, <3>1 DEF Kept, Sinks
  <2> QED BY <2>1, <2>3, <2>4
<1>6. EmitPlain(s, e).sink \in
          {s, Send(s, e).sink, [Send(s, e).sink EXCEPT !.active = Recorded(Send(s, e).sink.active, e)]}
  BY <1>1 DEF EmitPlain, EmitForced, SendAll, SendSecond, Noted, Result
<1>7. Send(s, e).sink \in Sinks
  BY SendGrows, TerminalsAreWire DEF Agreeing, Terminals
<1> DEFINE t == Send(s, e).sink
<1> HIDE DEF t
<1>8. \A active : Kept(s, [t EXCEPT !.active = active])
  BY <1>5, <1>7 DEF Kept, Sinks, t
<1>9. Kept(s, s) /\ Kept(s, t)
  BY <1>5 DEF Kept, t
<1>10. EmitPlain(s, e).sink \in {s, t, [t EXCEPT !.active = Recorded(t.active, e)]}
  BY <1>6 DEF t
<1> HIDE DEF Kept
<1> QED BY <1>8, <1>9, <1>10

LEMMA TerminatedKeeps ==
    ASSUME NEW s, Agreeing(s), ~s.terminated, NEW o \in Outcomes
    PROVE  Kept(s, Terminated(s, o))
<1> DEFINE first == EmitPlain(s, TerminalFor(o))
<1>1. TerminalFor(o) \in Terminals /\ RunError \in Terminals
  BY DEF TerminalFor, Terminals
<1>2. Kept(s, first.sink)
  BY <1>1, TerminalKeeps
<1>3. Agreeing(first.sink)
  <2>1. CASE TerminalFor(o) = RunFinished /\ s.active # {}
    BY <2>1 DEF EmitPlain, EmitForced, Noted, Result, Agreeing
  <2>2. CASE TerminalFor(o) = RunFinished => s.active = {}
    BY <1>1, <2>2, TerminalIsOneSend
  <2> QED BY <2>1, <2>2
<1>4. Kept(first.sink, EmitPlain(first.sink, RunError).sink)
  BY <1>1, <1>3, TerminalKeeps
<1> QED BY <1>2, <1>4 DEF Terminated, Kept

LEMMA ReturnPreserves ==
    ASSUME IInv, NEW o \in Outcomes, Return(o)
    PROVE  IInv'
<1> DEFINE t == Terminated(sink, o)
<1>1. /\ run = "running" /\ alive = <<>> /\ alive' = <<>> /\ sink' = [t EXCEPT !.queue = <<>>]
      /\ cancelled' = cancelled /\ refused' = refused
      /\ run' # "running" /\ run' \in {"finished", "failed"}
  BY DEF Return
<1>2. Agreeing(sink) /\ ~sink.terminated
  BY <1>1 DEF IInv, Ready, Agreeing
<1>3. Agreeing(t) /\ Kept(sink, t)
  BY <1>2, TerminatedTerminates, TerminatedKeeps
<1>4. t \in Sinks /\ <<>> \in Seq(Wire)
  BY <1>3 DEF Agreeing
<1> HIDE DEF t
<1>5. sink' \in Sinks /\ sink'.verifier = t.verifier /\ sink'.attribution = t.attribution
  BY <1>1, <1>4 DEF Sinks
<1>6. Kept(sink, sink')
  BY <1>3, <1>5 DEF Kept
<1>7. TypeOK'
  BY <1>1, <1>5 DEF IInv, TypeOK
<1>8. ~cancelled => InStep(sink'.verifier, alive, sink.attribution)
  BY <1>6, VerifierNames DEF IInv, InStep, LeafOpen, StepsOpen, SubagentsOpen, Kept
<1> QED BY <1>1, <1>6, <1>7, <1>8 DEF IInv, NeverRefused, Kept

-----------------------------------------------------------------------------
(* The invariant, and what it says. *)

LEMMA NextPreserves == IInv /\ [Next]_vars => IInv'
<1> SUFFICES ASSUME IInv, [Next]_vars
             PROVE  IInv'
  OBVIOUS
<1>1. CASE UNCHANGED vars
  BY <1>1 DEF IInv, TypeOK, NeverRefused, vars
<1>2. ASSUME NEW i \in Ids, StartMessage(i) \/ StartToolCall(i) \/ StartReasoning(i)
      PROVE  IInv'
  BY <1>2, StartLeafPreserves, StartReasoningPreserves DEF StartMessage, StartToolCall
<1>3. ASSUME NEW m \in Ids, AnswerToolCall(m) PROVE IInv'
  BY <1>3, AnswerToolCallPreserves
<1>4. ASSUME NEW k \in ChunkKinds, Delta(k) PROVE IInv'
  BY <1>4, DeltaPreserves
<1>5. CASE EndLeaf("text") \/ EndLeaf("tool")
  BY <1>5, EndLeafPreserves
<1>6. CASE SignToolCall \/ SignReasoning
  BY <1>6, SignToolCallPreserves, SignReasoningPreserves
<1>7. CASE CloseReasoning
  BY <1>7, CloseReasoningPreserves
<1>8. ASSUME NEW n \in StepNames, StartStep(n) PROVE IInv'
  BY <1>8, StartStepPreserves
<1>9. CASE FinishStep
  BY <1>9, FinishStepPreserves
<1>10. ASSUME NEW s \in Subagents, StartSubagent(s) PROVE IInv'
  BY <1>10, StartSubagentPreserves
<1>11. CASE ConcludeSubagent \/ DropSubagent
  BY <1>11, ConcludeSubagentPreserves, DropSubagentPreserves
<1>12. ASSUME NEW o \in Outcomes, Return(o) PROVE IInv'
  BY <1>12, ReturnPreserves
<1>13. CASE Over
  BY <1>1, <1>13 DEF Over
<1> QED BY <1>1, <1>2, <1>3, <1>4, <1>5, <1>6, <1>7, <1>8, <1>9, <1>10, <1>11, <1>12, <1>13
        DEF Next

LEMMA Invariance == Spec => []IInv
  BY InitEstablishes, NextPreserves, PTL DEF Spec

\* Whatever an agent nests in whatever order, the sink and the stack of handles stay what
\* the emit code takes them for.
THEOREM HandlesTyped == Spec => []TypeOK
<1>1. IInv => TypeOK
  BY DEF IInv
<1> QED BY <1>1, Invariance, PTL

\* No delta, no terminator and no tool-call signature of a live handle is refused until the
\* run is cancelled: the `?` after an emit through a handle only ever reports cancellation.
THEOREM HandlesAreNeverRefused == Spec => []NeverRefused
<1>1. IInv => NeverRefused
  BY DEF IInv
<1> QED BY <1>1, Invariance, PTL

\* What the verifier holds open is what the handles alive will close, so unwinding them
\* leaves no stream and no step open at the end of the run.
THEOREM HandlesCloseWhatIsOpen == Spec => []OpenIsAlive
<1>1. ASSUME IInv, ~cancelled
      PROVE  /\ \A k \in ChunkKinds, i \in Ids : S!IsOpen(sink.verifier, k, i) <=> HandleFor(k, i)
             /\ \A i \in Ids : S!IsOpen(sink.verifier, "block", i) <=> HandleFor("reasoning", i)
             /\ \A g \in Owner, n \in StepNames :
                   <<g, n>> \in sink.verifier.steps => HandleFor("step", n)
  <2>1. LeafOpen(sink.verifier, alive, sink.attribution) /\ StepsOpen(sink.verifier, alive)
    BY <1>1 DEF IInv, InStep
  <2>2. Shaped(alive) /\ alive \in Seq(Handles) /\ DOMAIN alive = 1..Len(alive)
        /\ Len(alive) \in Nat /\ (alive # <<>> => Len(alive) \in 1..Len(alive))
    BY <1>1 DEF IInv, Shaped
  <2>3. \A k \in ChunkKinds : \A i : HandleFor(k, i) <=> OnTop(alive, k, i)
    <3>1. \A n \in 1..Len(alive) : alive[n].kind \in ChunkKinds => n = Len(alive)
      BY <2>2 DEF Shaped
    <3>2. \A n \in 1..Len(alive) : alive # <<>>
      BY <2>2
    <3> QED BY <2>2, <3>1, <3>2 DEF HandleFor, OnTop
  <2>4. \A g \in Owner, n \in StepNames :
            <<g, n>> \in sink.verifier.steps => HandleFor("step", n)
    BY <2>1, <2>2 DEF StepsOpen, HandleFor
  <2> QED BY <2>1, <2>3, <2>4, KindsOfHandles DEF LeafOpen
<1>2. IInv => OpenIsAlive
  BY <1>1 DEF OpenIsAlive
<1> QED BY <1>2, Invariance, PTL

\* Every event is tagged with the innermost subagent alive, after any mix of finished,
\* failed and dropped scopes.
THEOREM ScopeIsInnermost == Spec => []AttributionIsInnermost
<1>1. ASSUME IInv
      PROVE  AttributionIsInnermost
  <2> DEFINE scopes == {n \in DOMAIN alive : alive[n].kind = "subagent"}
             L == Len(alive)
  <2>1. InForce(alive, L + 1, sink.attribution)
    BY <1>1 DEF IInv, Attributed
  <2>2. DOMAIN alive = 1..L /\ L \in Nat /\ (L + 1) - 1 = L
    BY <1>1 DEF IInv, Shaped
  <2>3. CASE sink.attribution = None /\ \A m \in 1..L : alive[m].kind # "subagent"
    BY <2>2, <2>3 DEF AttributionIsInnermost
  <2>4. CASE \E m \in 1..L :
               /\ alive[m].kind = "subagent" /\ alive[m].id = sink.attribution
               /\ \A k \in (m + 1)..L : alive[k].kind # "subagent"
    <3>1. PICK m \in 1..L :
               /\ alive[m].kind = "subagent" /\ alive[m].id = sink.attribution
               /\ \A k \in (m + 1)..L : alive[k].kind # "subagent"
      BY <2>4
    <3>2. m \in scopes /\ \A k \in scopes : k <= m
      BY <2>2, <3>1
    <3> QED BY <3>1, <3>2 DEF AttributionIsInnermost
  <2> QED BY <2>1, <2>2, <2>3, <2>4 DEF InForce
<1>2. IInv => AttributionIsInnermost
  BY <1>1
<1> QED BY <1>2, Invariance, PTL

=============================================================================
