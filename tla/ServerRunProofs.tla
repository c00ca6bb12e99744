--------------------------- MODULE ServerRunProofs ---------------------------
(***************************************************************************)
(* Every run, for any agent, capacity and set of ids: the types hold and    *)
(* the stream keeps the promise RunLifecycle states.                        *)
(***************************************************************************)
EXTENDS ServerRun, EventSinkProofs, FiniteSetTheorems, WellFoundedInduction, TLAPS

(***************************************************************************)
(* Induction over the natural numbers, in a form a first-order prover can   *)
(* use: over a set of numbers instead of a predicate.                       *)
(***************************************************************************)

\* A set of numbers has a least one: the intervals below its members are finite sets,
\* and those are well-founded under inclusion.
LEMMA LeastNumber ==
    ASSUME NEW T \in SUBSET Nat, T # {}
    PROVE  \E n \in T : \A m \in T : n <= m
<1> DEFINE Below == {1..n : n \in T}
<1>1. Below \subseteq FiniteSubsetsOf(Nat)
  BY FS_Interval DEF FiniteSubsetsOf
<1>2. PICK least \in Below : \A below \in Below : <<below, least>> \notin StrictSubsetOrdering(Nat)
  <2>1. Below # {}
    OBVIOUS
  <2> HIDE DEF Below
  <2> QED BY <1>1, <2>1, FS_StrictSubsetOrderingWellFounded, WFMin
<1>3. PICK n \in T : least = 1..n
  OBVIOUS
<1>4. ASSUME NEW m \in T, m < n
      PROVE  FALSE
  <2>1. <<1..m, 1..n>> \in StrictSubsetOrdering(Nat)
    BY <1>4 DEF StrictSubsetOrdering
  <2> QED BY <1>2, <1>3, <2>1
<1> QED BY <1>4

\* What holds of zero and of the successor of what it holds of, holds of every number.
LEMMA SetInduction ==
    ASSUME NEW T \in SUBSET Nat, 0 \in T, \A n \in T : n + 1 \in T
    PROVE  T = Nat
<1> SUFFICES ASSUME Nat \ T # {} PROVE FALSE
  OBVIOUS
<1>1. PICK n \in Nat \ T : \A m \in Nat \ T : n <= m
  BY LeastNumber
<1>2. n # 0
  OBVIOUS
<1>3. n - 1 \in Nat /\ n - 1 < n
  BY <1>2
<1>4. n - 1 \in T
  BY <1>1, <1>3
<1>5. (n - 1) + 1 \in T
  BY <1>4
<1> QED BY <1>1, <1>3, <1>5

\* f is the recursive function over the numbers up to `top` whose n-th value is made of
\* the one before by the n-th of the functions in `follow`.
Recurs(f, A, start, follow, top) ==
    /\ f \in [0..top -> A] /\ f[0] = start
    /\ \A n \in 1..top : f[n] = follow[n][f[n - 1]]

\* There is one.
LEMMA Recursion ==
    ASSUME NEW A, NEW start \in A, NEW top \in Nat, NEW follow \in [1..top -> [A -> A]]
    PROVE  \E f : Recurs(f, A, start, follow, top)
<1> DEFINE Upto(f, k) == /\ f \in [0..k -> A] /\ f[0] = start
                         /\ \A n \in 1..k : f[n] = follow[n][f[n - 1]]
           Reached == {k \in Nat : k <= top => \E f : Upto(f, k)}
<1>1. 0 \in Reached
  <2>1. Upto([n \in 0..0 |-> start], 0)
    OBVIOUS
  <2> QED BY <2>1
<1>2. ASSUME NEW k \in Reached
      PROVE  k + 1 \in Reached
  <2> HIDE DEF Upto
  <2> SUFFICES ASSUME k + 1 <= top PROVE \E f : Upto(f, k + 1)
    OBVIOUS
  <2> USE DEF Upto
  <2>1. k \in Nat /\ k <= top /\ \A n \in 1..k : n - 1 \in 0..k /\ n \in 0..k
    OBVIOUS
  <2>2. PICK f : Upto(f, k)
    BY <2>1
  <2> DEFINE g == [n \in 0..(k + 1) |-> IF n <= k THEN f[n] ELSE follow[k + 1][f[k]]]
  <2>3. f[k] \in A /\ follow[k + 1] \in [A -> A]
    BY <2>1, <2>2
  <2>4. g \in [0..(k + 1) -> A] /\ g[0] = start
    BY <2>1, <2>2, <2>3
  <2>5. \A n \in 1..(k + 1) : g[n] = follow[n][g[n - 1]]
    <3> SUFFICES ASSUME NEW n \in 1..(k + 1) PROVE g[n] = follow[n][g[n - 1]]
      OBVIOUS
    <3>1. g[n - 1] = f[n - 1]
      BY <2>1
    <3>2. CASE n <= k
      BY <2>1, <2>2, <3>1, <3>2
    <3>3. CASE n = k + 1
      BY <2>1, <3>1, <3>3
    <3> QED BY <2>1, <3>2, <3>3
  <2>6. Upto(g, k + 1)
    BY <2>4, <2>5
  <2> HIDE DEF Upto
  <2> QED BY <2>6
<1>3. top \in Reached
  <2> HIDE DEF Reached
  <2>1. Reached \in SUBSET Nat
    BY DEF Reached
  <2> QED BY <1>1, <1>2, <2>1, SetInduction
<1> QED BY <1>3 DEF Recurs

\* A run that began, seen up to `k`: what its consumer saw and what is queued
\* are together a RUN_STARTED, ordinary events and at most one terminal event.
Streaming(s, k) ==
    /\ s.verifier.started
    /\ k \in {"nothing", "started", "finished", "failed"}
    /\ k = "nothing" => s.queue # <<>>
    /\ \A n \in 1..Len(s.queue) :
          s.queue[n].type = "RUN_STARTED" <=> (n = 1 /\ k = "nothing")
    /\ \A n \in 1..Len(s.queue) :
          IsTerminal(s.queue[n]) => n = Len(s.queue) /\ s.terminated
    /\ s.terminated =>
          \/ k \in {"finished", "failed"}
          \/ s.queue # <<>> /\ IsTerminal(s.queue[Len(s.queue)])
    /\ k \in {"finished", "failed"} => s.queue = <<>> /\ s.terminated

IInv ==
    /\ TypeOK
    /\ seen # "broken"
    /\ Agreeing(sink)
    /\ driver = "new" => sink = New /\ seen = "nothing"
    /\ driver # "new" /\ stream # "dropped" => Streaming(sink, seen)
    /\ driver = "gone" /\ stream # "dropped" => sink.terminated
    /\ polling => driver # "gone" /\ stream = "open"
    /\ stream # "open" => driver = "gone"

-----------------------------------------------------------------------------
(* Streaming through sends. *)

LEMMA GrowthStreams ==
    ASSUME NEW s, NEW t, NEW k, Agreeing(s), Agreeing(t), Streaming(s, k),
           NEW f \in Wire, Grown(s, t, f)
    PROVE  Streaming(t, k)
<1>1. ~s.terminated /\ s.queue \in Seq(Wire) /\ f.type # "RUN_STARTED"
  BY DEF Agreeing, Streaming, Grown, Sinks
<1>2. k \in {"nothing", "started"} /\ \A n \in 1..Len(s.queue) : ~IsTerminal(s.queue[n])
  BY <1>1 DEF Streaming
<1>3. t.queue = Append(s.queue, f) /\ (t.terminated <=> IsTerminal(f)) /\ t.verifier.started
  BY <1>1 DEF Grown, Streaming
<1>4. /\ Len(t.queue) = Len(s.queue) + 1 /\ t.queue # <<>>
      /\ t.queue[Len(t.queue)] = f
      /\ \A n \in 1..Len(s.queue) : t.queue[n] = s.queue[n]
  BY <1>1, <1>3
<1>5. Len(s.queue) \in Nat /\ (s.queue = <<>> <=> Len(s.queue) = 0)
  BY <1>1
<1>6. \A n \in 1..Len(t.queue) : n \in 1..Len(s.queue) \/ n = Len(t.queue)
  BY <1>4, <1>5
<1>7. \A n \in 1..Len(t.queue) :
          t.queue[n].type = "RUN_STARTED" <=> (n = 1 /\ k = "nothing")
  <2> TAKE n \in 1..Len(t.queue)
  <2>1. CASE n \in 1..Len(s.queue)
    BY <1>4, <2>1 DEF Streaming
  <2>2. CASE n = Len(t.queue)
    BY <1>1, <1>4, <1>5, <2>2 DEF Streaming
  <2> QED BY <1>6, <2>1, <2>2
<1>8. \A n \in 1..Len(t.queue) : IsTerminal(t.queue[n]) => n = Len(t.queue) /\ t.terminated
  BY <1>2, <1>3, <1>4, <1>6
<1> QED BY <1>2, <1>3, <1>4, <1>7, <1>8 DEF Streaming

LEMMA SameStreams ==
    ASSUME NEW s, NEW t, NEW k, Streaming(s, k), Same(s, t)
    PROVE  Streaming(t, k)
  BY DEF Streaming, Same

LEMMA StepStreams ==
    ASSUME NEW s, NEW t, NEW k, Agreeing(s), Agreeing(t), Streaming(s, k), Step(s, t)
    PROVE  Streaming(t, k)
  BY GrowthStreams, SameStreams DEF Step

\* Whatever an emit does to a run that began, it goes on streaming.
LEMMA EmitStreams ==
    ASSUME NEW s, NEW k, Agreeing(s), Streaming(s, k),
           NEW e \in Wire, NEW out \in Transforms(Tagged(s, e))
    PROVE  Agreeing(EmitForced(s, e, out).sink) /\ Streaming(EmitForced(s, e, out).sink, k)
  BY EmitGrows, StepStreams

LEMMA TerminatedStreams ==
    ASSUME NEW s, NEW k, Agreeing(s), Streaming(s, k), ~s.terminated, NEW o \in Outcomes
    PROVE  /\ Agreeing(Terminated(s, o))
           /\ Streaming(Terminated(s, o), k)
           /\ Terminated(s, o).terminated
<1>1. PICK f \in Terminals : Agreeing(Terminated(s, o)) /\ Grown(s, Terminated(s, o), f)
  BY TerminatedTerminates
<1>2. f \in Wire
  BY TerminalsAreWire DEF Terminals
<1>3. Terminated(s, o).terminated
  BY <1>1 DEF Grown, IsTerminal
<1> QED BY <1>1, <1>2, <1>3, GrowthStreams

\* RUN_STARTED is what a new sink begins with, and it fits.
LEMMA FirstEventStreams ==
    ASSUME EmitPlain(New, RunStarted(NoOwners)).ok
    PROVE  LET s == EmitPlain(New, RunStarted(NoOwners)).sink
           IN  Agreeing(s) /\ Streaming(s, "nothing") /\ ~s.terminated
<1> DEFINE e == RunStarted(NoOwners)
           s == EmitPlain(New, e).sink
<1>1. Agreeing(New)
  BY DEF Agreeing, New, Sinks, S!Fresh, S!Verifier, S!NoOwners, S!Owners, S!Owner, Owner,
         S!Absent, S!Kinds, S!ChunkKinds, S!Buckets
<1>2. e \in Wire /\ e.type = "RUN_STARTED" /\ Tagged(New, e) = e
  BY DEF RunStarted, Wire, Owners, NoOwners, Tagged, Attributable
<1>3. Agreeing(s) /\ Grown(New, s, e)
  BY <1>1, <1>2, PlainEmitGrows
<1>4. ~IsTerminal(e)
  BY <1>2, WireTypes
<1>5. New.queue = <<>> /\ New.terminated = FALSE
  BY DEF New
<1>6. s.queue = Append(<<>>, e) /\ s.verifier.started /\ ~s.terminated
  BY <1>2, <1>3, <1>4, <1>5 DEF Grown
<1>7. Len(s.queue) = 1 /\ s.queue[1] = e /\ s.queue # <<>>
  BY <1>6
<1> QED BY <1>2, <1>3, <1>4, <1>6, <1>7 DEF Streaming

\* What is left after the head was yielded, and how far that brings the consumer.
LEMMA YieldStreams ==
    ASSUME NEW s, Agreeing(s), Streaming(s, seen), s.queue # <<>>,
           NEW t, t = [s EXCEPT !.queue = Tail(@)]
    PROVE  /\ Agreeing(t) /\ Streaming(t, Stage(Head(s.queue)))
           /\ t.terminated = s.terminated
           /\ seen = "nothing" => Stage(Head(s.queue)) = "started"
           /\ seen = "started" => Stage(Head(s.queue)) \in {"started", "finished", "failed"}
           /\ seen \in {"nothing", "started"}
<1> DEFINE h == Head(s.queue)
           k == Stage(h)
<1>1. s.queue \in Seq(Wire) /\ Len(s.queue) \in Nat \ {0} /\ h = s.queue[1] /\ h \in Wire
  BY DEF Agreeing, Sinks
<1>2. /\ Tail(s.queue) \in Seq(Wire) /\ Len(Tail(s.queue)) = Len(s.queue) - 1
      /\ \A n \in 1..Len(Tail(s.queue)) : Tail(s.queue)[n] = s.queue[n + 1]
      /\ (Tail(s.queue) = <<>> <=> Len(s.queue) = 1)
  <2>1. Tail(s.queue) \in Seq(Wire)
    BY <1>1
  <2>2. Len(Tail(s.queue)) = Len(s.queue) - 1
    BY <1>1
  <2>3. \A n \in 1..Len(Tail(s.queue)) : Tail(s.queue)[n] = s.queue[n + 1]
    BY <1>1, <2>2
  <2>4. \A q \in Seq(Wire) : q = <<>> <=> Len(q) = 0
    OBVIOUS
  <2>5. Tail(s.queue) = <<>> <=> Len(s.queue) - 1 = 0
    BY <2>1, <2>2, <2>4
  <2> QED BY <1>1, <2>1, <2>2, <2>3, <2>5
<1>3. /\ t.queue = Tail(s.queue) /\ t.terminated = s.terminated
      /\ t.verifier = s.verifier /\ t.overflowed = s.overflowed
      /\ t \in Sinks
  BY <1>2 DEF Agreeing, Sinks
<1>4. seen \in {"nothing", "started"}
  BY DEF Streaming
<1>5. /\ seen = "nothing" => k = "started"
      /\ seen = "started" => k \in {"started", "finished", "failed"}
      /\ k \in {"finished", "failed"} <=> IsTerminal(h)
  <2>1. h.type = "RUN_STARTED" <=> seen = "nothing"
    BY <1>1 DEF Streaming
  <2>2. h.type = "RUN_STARTED" => ~IsTerminal(h)
    BY <1>1, WireTypes
  <2>3. RunFinished # RunError
    BY DEF RunFinished, RunError
  <2> QED BY <1>4, <2>1, <2>2, <2>3, <1>1, WireTypes DEF Stage, IsTerminal, Terminals,
             RunFinished, RunError
<1>6. \A n \in 1..Len(t.queue) : n + 1 \in 2..Len(s.queue) /\ t.queue[n] = s.queue[n + 1]
  BY <1>1, <1>2, <1>3
<1>7. \A n \in 1..Len(t.queue) : t.queue[n].type # "RUN_STARTED"
  BY <1>6 DEF Streaming
<1>8. \A n \in 1..Len(t.queue) : IsTerminal(t.queue[n]) => n = Len(t.queue) /\ t.terminated
  BY <1>1, <1>2, <1>3, <1>6 DEF Streaming
<1>9. IsTerminal(h) => t.queue = <<>> /\ t.terminated
  BY <1>1, <1>2, <1>3 DEF Streaming
<1>10. t.terminated => IsTerminal(h) \/ (t.queue # <<>> /\ IsTerminal(t.queue[Len(t.queue)]))
  <2>1. s.terminated => IsTerminal(s.queue[Len(s.queue)])
    BY <1>4 DEF Streaming
  <2>2. CASE Len(s.queue) = 1
    BY <2>1, <2>2, <1>1, <1>3
  <2>3. CASE Len(s.queue) # 1
    BY <2>1, <2>3, <1>1, <1>2, <1>3, <1>6
  <2> QED BY <2>2, <2>3
<1>11. Agreeing(t)
  BY <1>3 DEF Agreeing
<1>12. Streaming(t, k)
  BY <1>3, <1>4, <1>5, <1>7, <1>8, <1>9, <1>10 DEF Streaming
<1> QED BY <1>3, <1>4, <1>5, <1>11, <1>12

-----------------------------------------------------------------------------
(* The invariant. *)

USE RunAssumption

LEMMA AgentEventsAreWire ==
    /\ AgentEvents \subseteq Wire
    /\ StateEvents \subseteq Wire
    /\ \A p \in Values \cup {Unknown}, v \in Values : Decisions(p, v) \subseteq Wire
<1>1. RunStarted(NoOwners) \in Wire
  BY DEF RunStarted, NoOwners, Owners, Wire
<1>2. AgentEvents \subseteq Wire
  BY <1>1 DEF AgentEvents, Wire
<1>3. StateEvents \subseteq Wire
  BY DEF StateEvents, Wire
<1>4. \A p \in Values \cup {Unknown}, v \in Values : Decisions(p, v) \subseteq StateEvents
  BY DEF Decisions, Diffs, StateEvents
<1> QED BY <1>2, <1>3, <1>4

LEMMA InitEstablishes == Init => IInv
<1> SUFFICES ASSUME Init PROVE IInv
  OBVIOUS
<1>1. Agreeing(New)
  BY DEF Agreeing, New, Sinks, S!Fresh, S!Verifier, S!NoOwners, S!Owners, S!Owner, Owner,
         S!Absent, S!Kinds, S!ChunkKinds, S!Buckets
<1>2. sink \in Sinks /\ emits \in 0..MaxEmits
  BY <1>1 DEF Init, Agreeing
<1>3. TypeOK
  BY <1>2 DEF Init, TypeOK
<1> QED BY <1>1, <1>3 DEF Init, IInv

\* An emit by the agent: nothing else it can do touches the sink.
LEMMA EmitPreserves ==
    ASSUME IInv, NEW e \in Wire, Emit(e)
    PROVE  IInv'
<1>1. polling /\ driver = "agent" /\ stream = "open"
  BY DEF Emit, IInv
<1>2. Agreeing(sink) /\ Streaming(sink, seen)
  BY <1>1 DEF IInv
<1>3. Agreeing(sink') /\ Streaming(sink', seen)
  BY <1>2, EmitStreams DEF Emit
<1>4. TypeOK'
  BY <1>3 DEF IInv, TypeOK, Emit, Agreeing, Wakes
<1> QED BY <1>1, <1>3, <1>4 DEF IInv, Emit

LEMMA NextPreserves == IInv /\ [Next]_vars => IInv'
<1> SUFFICES ASSUME IInv, [Next]_vars PROVE IInv'
  OBVIOUS
<1>1. CASE Begin
  <2> DEFINE started == EmitPlain(sink, RunStarted(NoOwners))
  <2>1. sink = New /\ seen = "nothing" /\ stream = "open" /\ started.ok
    BY <1>1 DEF Begin, IInv
  <2>2. Agreeing(started.sink) /\ Streaming(started.sink, seen) /\ ~started.sink.terminated
    BY <2>1, FirstEventStreams
  <2>3. CASE sink' = started.sink /\ driver' = "agent" /\ UNCHANGED polling
    <3>1. TypeOK'
      BY <1>1, <2>2, <2>3 DEF IInv, TypeOK, Begin, Agreeing, Returns, Wakes
    <3> QED BY <1>1, <2>1, <2>2, <2>3, <3>1 DEF IInv, Begin
  <2>4. CASE Returns(Terminated(started.sink, "failed"))
    <3>1. Agreeing(sink') /\ Streaming(sink', seen) /\ sink'.terminated
      BY <2>2, <2>4, TerminatedStreams DEF Returns, Outcomes
    <3>2. TypeOK'
      BY <1>1, <2>4, <3>1 DEF IInv, TypeOK, Begin, Agreeing, Returns
    <3> QED BY <1>1, <2>4, <3>1, <3>2 DEF IInv, Begin, Returns
  <2> QED BY <1>1, <2>3, <2>4 DEF Begin
<1>2. CASE \E e \in AgentEvents \cup StateEvents : Emit(e)
  BY <1>2, EmitPreserves, AgentEventsAreWire
<1>3. CASE \E v \in Values : Publish(v)
  <2>1. sink.published \in Values \cup {Unknown}
    BY DEF IInv, TypeOK, Sinks
  <2> QED BY <1>3, <2>1, EmitPreserves, AgentEventsAreWire DEF Publish
<1>4. CASE Await
  BY <1>4 DEF IInv, TypeOK, Await
<1>5. CASE \E o \in Outcomes : Return(o)
  <2>1. PICK o \in Outcomes : Return(o)
    BY <1>5
  <2>2. Agreeing(sink) /\ Streaming(sink, seen) /\ stream = "open"
    BY <2>1 DEF IInv, Return
  <2>3. Agreeing(sink') /\ Streaming(sink', seen) /\ sink'.terminated
    BY <2>1, <2>2, TerminatedStreams DEF Return, Returns
  <2>4. TypeOK'
    BY <2>1, <2>3 DEF IInv, TypeOK, Return, Returns, Agreeing
  <2> QED BY <2>1, <2>2, <2>3, <2>4 DEF IInv, Return, Returns
<1>6. CASE Yield
  <2> DEFINE h == Head(sink.queue)
  <2>1. driver # "new"
    BY <1>6 DEF Yield, IInv, New
  <2>2. Agreeing(sink) /\ Streaming(sink, seen) /\ sink.queue # <<>> /\ stream = "open"
    BY <1>6, <2>1 DEF Yield, IInv
  <2>3. /\ Agreeing(sink') /\ Streaming(sink', seen')
        /\ sink'.terminated = sink.terminated
    BY <1>6, <2>2, YieldStreams DEF Yield
  <2>4. h \in Wire
    BY <2>2 DEF Agreeing, Sinks
  <2>5. copy' \in Values
    BY <1>6, <2>4, WireTypes DEF Yield, Applied, IInv, TypeOK, Patches
  <2>6. TypeOK'
    BY <1>6, <2>3, <2>5 DEF Yield, IInv, TypeOK, Agreeing, Streaming
  <2> QED BY <1>6, <2>1, <2>3, <2>6 DEF Yield, IInv, Streaming
<1>7. CASE Close
  <2>1. driver # "new" /\ sink.terminated /\ stream = "open"
    BY <1>7 DEF Close, IInv, New, Agreeing
  <2> QED BY <1>7, <2>1 DEF Close, IInv, TypeOK
<1>8. CASE PollDriver
  BY <1>8 DEF PollDriver, IInv, TypeOK
<1>9. CASE Wake
  BY <1>9 DEF Wake, IInv, TypeOK
<1>10. CASE Cancel
  BY <1>10 DEF Cancel, IInv, TypeOK
<1>11. CASE Disconnect
  BY <1>11 DEF Disconnect, IInv, TypeOK
<1>12. CASE Over \/ UNCHANGED vars
  BY <1>12 DEF Over, vars, IInv, TypeOK
<1> QED BY <1>1, <1>2, <1>3, <1>4, <1>5, <1>6, <1>7, <1>8, <1>9, <1>10, <1>11, <1>12
        DEF Next, AgentStep, Poll

LEMMA Invariance == Spec => []IInv
  BY InitEstablishes, NextPreserves, PTL DEF Spec

-----------------------------------------------------------------------------
(* The limit of the queue. *)

Bounded(s) ==
    Capacity # Unbounded =>
        /\ Len(s.queue) <= Capacity + 1
        /\ Len(s.queue) > Capacity =>
              s.overflowed /\ s.queue[Capacity + 1] = RunError

\* A full sink takes the reserved error, once: then its run is over.
LEMMA SendStaysBounded ==
    ASSUME NEW s, Agreeing(s), Bounded(s), NEW e \in Wire
    PROVE  Bounded(Send(s, e).sink)
<1>1. s.queue \in Seq(Wire) /\ Len(s.queue) \in Nat
  BY DEF Agreeing, Sinks
<1>2. \A f \in Wire : /\ Len(Append(s.queue, f)) = Len(s.queue) + 1
                      /\ Append(s.queue, f)[Len(s.queue) + 1] = f
  BY <1>1
<1>3. CASE Full(s) /\ S!Accepts(s.verifier, RunError)
  <2>1. ~s.overflowed
    BY <1>3, ObserveLifecycle, TerminalsAreWire DEF Agreeing, Sinks
  <2>2. Len(s.queue) = Capacity
    BY <1>1, <1>3, <2>1, SinkAssumption DEF Full, Bounded
  <2>3. /\ Send(s, e).sink.queue = Append(s.queue, RunError)
        /\ Send(s, e).sink.overflowed
    BY <1>3 DEF Send, Overflow, Result, Agreeing, Sinks
  <2> QED BY <1>1, <1>2, <2>2, <2>3, TerminalsAreWire DEF Bounded
<1>4. CASE Full(s) /\ ~S!Accepts(s.verifier, RunError)
  BY <1>4 DEF Send, Overflow, Result
<1>5. CASE ~Full(s) /\ S!Accepts(s.verifier, e)
  <2>1. Send(s, e).sink.queue = Append(s.queue, e)
    BY <1>5 DEF Send, Queued, Result, Agreeing, Sinks
  <2>2. Capacity # Unbounded => Len(s.queue) + 1 <= Capacity
    BY <1>1, <1>5, SinkAssumption DEF Full
  <2> QED BY <1>1, <1>2, <2>1, <2>2, SinkAssumption DEF Bounded
<1>6. CASE ~Full(s) /\ ~S!Accepts(s.verifier, e)
  <2>1. [s EXCEPT !.verifier = S!Observe(@, e)] = s
    BY <1>6, ObserveLifecycle DEF Agreeing, Sinks
  <2> QED BY <1>6, <2>1 DEF Send, Result
<1> QED BY <1>3, <1>4, <1>5, <1>6

LEMMA EmitStaysBounded ==
    ASSUME NEW s, Agreeing(s), Bounded(s), NEW e \in Wire, NEW out \in Transforms(Tagged(s, e))
    PROVE  Bounded(EmitForced(s, e, out).sink)
<1> DEFINE first == Send(s, out[1])
           sent == SendAll(s, out)
<1>1. out = <<>> \/ (Len(out) \in {1, 2} /\ \A n \in 1..Len(out) : out[n] \in Wire)
  BY TransformsAreWire DEF Agreeing
<1>2. CASE out = <<>>
  BY <1>2 DEF SendAll, Result, EmitForced, Noted, Bounded, Agreeing, Sinks
<1>3. CASE out # <<>>
  <2>1. out[1] \in Wire
    BY <1>1, <1>3
  <2>2. Agreeing(first.sink) /\ Bounded(first.sink)
    BY <2>1, SendGrows, SendStaysBounded
  <2>3. Bounded(sent.sink) /\ Agreeing(sent.sink)
    <3>1. CASE Len(out) = 1 \/ ~first.ok
      BY <1>3, <2>2, <3>1 DEF SendAll, SendSecond
    <3>2. CASE Len(out) = 2 /\ first.ok
      <4>1. out[2] \in Wire
        BY <1>1, <1>3, <3>2
      <4> QED BY <1>3, <2>2, <3>2, <4>1, SendGrows, SendStaysBounded DEF SendAll, SendSecond
    <3> QED BY <1>1, <1>3, <3>1, <3>2
  <2>4. Bounded([sent.sink EXCEPT !.active = Recorded(@, e)])
    BY <2>3 DEF Bounded, Agreeing, Sinks
  <2> QED BY <2>3, <2>4 DEF EmitForced, Noted, Result
<1> QED BY <1>2, <1>3

LEMMA TerminatedStaysBounded ==
    ASSUME NEW s, Agreeing(s), Bounded(s), NEW o \in Outcomes
    PROVE  Bounded(Terminated(s, o))
<1>1. TerminalFor(o) \in Wire /\ RunError \in Wire
  BY TerminalsAreWire DEF TerminalFor
<1>2. \A t, e : <<Tagged(t, e)>> \in Transforms(Tagged(t, e))
  BY DEF Transforms
<1> DEFINE first == EmitPlain(s, TerminalFor(o))
<1>3. Agreeing(first.sink) /\ Bounded(first.sink)
  BY <1>1, <1>2, EmitGrows, EmitStaysBounded DEF EmitPlain
<1>4. Bounded(EmitPlain(first.sink, RunError).sink)
  BY <1>1, <1>2, <1>3, EmitStaysBounded DEF EmitPlain
<1> QED BY <1>3, <1>4 DEF Terminated

LEMMA NextStaysBounded == IInv /\ WithinCapacity /\ [Next]_vars => WithinCapacity'
<1> SUFFICES ASSUME IInv, Bounded(sink), [Next]_vars PROVE Bounded(sink')
  BY DEF WithinCapacity, Bounded
<1>0. Agreeing(sink)
  BY DEF IInv
<1>1. CASE Begin
  <2> DEFINE e == RunStarted(NoOwners)
  <2>1. e \in Wire
    BY DEF RunStarted, NoOwners, Owners, Wire
  <2>2. <<Tagged(sink, e)>> \in Transforms(Tagged(sink, e))
    BY DEF Transforms
  <2>3. Agreeing(EmitPlain(sink, e).sink) /\ Bounded(EmitPlain(sink, e).sink)
    BY <1>0, <2>1, <2>2, EmitGrows, EmitStaysBounded DEF EmitPlain
  <2>4. Bounded(Terminated(EmitPlain(sink, e).sink, "failed"))
    BY <2>3, TerminatedStaysBounded DEF Outcomes
  <2> QED BY <1>1, <2>3, <2>4 DEF Begin, Returns
<1>2. \A e \in Wire : Emit(e) => Bounded(sink')
  BY <1>0, EmitStaysBounded DEF Emit
<1>3. CASE \E e \in AgentEvents \cup StateEvents : Emit(e)
  BY <1>2, <1>3, AgentEventsAreWire
<1>4. CASE \E v \in Values : Publish(v)
  <2>1. sink.published \in Values \cup {Unknown}
    BY DEF IInv, TypeOK, Sinks
  <2> QED BY <1>2, <1>4, <2>1, AgentEventsAreWire DEF Publish
<1>5. CASE \E o \in Outcomes : Return(o)
  BY <1>0, <1>5, TerminatedStaysBounded DEF Return, Returns
<1>6. CASE Yield
  <2>1. sink.queue \in Seq(Wire) /\ Len(sink.queue) \in Nat \ {0}
    BY <1>0, <1>6 DEF Yield, Agreeing, Sinks
  <2>2. sink'.queue = Tail(sink.queue) /\ Len(Tail(sink.queue)) = Len(sink.queue) - 1
    BY <1>0, <1>6, <2>1 DEF Yield, Agreeing, Sinks
  <2> QED BY <2>1, <2>2, SinkAssumption DEF Bounded
<1>7. CASE Await \/ Close \/ PollDriver \/ Wake \/ Cancel \/ Disconnect \/ Over \/ UNCHANGED vars
  BY <1>7 DEF Await, Close, PollDriver, Wake, Cancel, Disconnect, Over, vars
<1> QED BY <1>1, <1>3, <1>4, <1>5, <1>6, <1>7 DEF Next, AgentStep, Poll

-----------------------------------------------------------------------------
(* The baseline and what a consumer makes of the queue. *)

\* f[n] is what a copy c of the state has become after n events of q.
Drains(f, c, q) ==
    /\ f \in [0..Len(q) -> Values] /\ f[0] = c
    /\ \A n \in 1..Len(q) : f[n] = Applied(f[n - 1], q[n])

\* Of a sink and any copy: draining the queue brings the copy to the baseline.
MeetsBaseline(s, c) ==
    s.published # Unknown => \A f : Drains(f, c, s.queue) => f[Len(s.queue)] = s.published

LEMMA AppliedType ==
    ASSUME NEW v \in Values, NEW e \in Wire
    PROVE  Applied(v, e) \in Values
  BY WireTypes DEF Applied, Patches

\* Some function drains a queue, whatever its length.
LEMMA DrainingExists ==
    ASSUME NEW c \in Values, NEW q \in Seq(Wire)
    PROVE  \E f : Drains(f, c, q)
<1> DEFINE follow == [n \in 1..Len(q) |-> [v \in Values |-> Applied(v, q[n])]]
<1>1. follow \in [1..Len(q) -> [Values -> Values]]
  BY AppliedType
<1>2. PICK f : Recurs(f, Values, c, follow, Len(q))
  <2>1. Len(q) \in Nat
    OBVIOUS
  <2> HIDE DEF follow
  <2> QED BY <1>1, <2>1, Recursion
<1>3. \A n \in 1..Len(q) : n - 1 \in 0..Len(q)
  OBVIOUS
<1> QED BY <1>2, <1>3 DEF Recurs, Drains

\* The recursive definition of Drained is one of them.
LEMMA DrainedDrains ==
    ASSUME copy \in Values, sink.queue \in Seq(Wire)
    PROVE  \E f : Drains(f, copy, sink.queue) /\ Drained = f[Len(sink.queue)]
<1> DEFINE Walk(f) == f = [n \in 0..Len(sink.queue) |->
                              IF n = 0 THEN copy ELSE Applied(f[n - 1], sink.queue[n])]
<1>1. PICK f : Drains(f, copy, sink.queue)
  BY DrainingExists
<1>2. Walk(f)
  <2>1. \A n \in 0..Len(sink.queue) : n # 0 => n \in 1..Len(sink.queue)
    OBVIOUS
  <2> QED BY <1>1, <2>1 DEF Drains
<1> DEFINE g == CHOOSE walk : Walk(walk)
<1>3. Drained = g[Len(sink.queue)]
  BY DEF Drained
<1> HIDE DEF Walk
<1>4. Walk(g)
  BY <1>2
<1> HIDE DEF g
<1>5. g = f
  <2> DEFINE Level(n) == n <= Len(sink.queue) => g[n] = f[n]
             Alike == {n \in Nat : Level(n)}
  <2> USE <1>4 DEF Walk
  <2>0. Len(sink.queue) \in Nat
    OBVIOUS
  <2>1. 0 \in Alike
    BY <1>1, <2>0 DEF Drains
  <2>2. ASSUME NEW n \in Alike
        PROVE  n + 1 \in Alike
    <3> SUFFICES ASSUME n + 1 <= Len(sink.queue) PROVE g[n + 1] = f[n + 1]
      OBVIOUS
    <3>1. n \in Nat /\ n + 1 \in 1..Len(sink.queue) /\ (n + 1) - 1 = n /\ g[n] = f[n]
      BY <2>0
    <3>2. f[n + 1] = Applied(f[n], sink.queue[n + 1])
      BY <1>1, <3>1 DEF Drains
    <3>3. g[n + 1] = Applied(g[n], sink.queue[n + 1])
      BY <3>1
    <3> QED BY <3>1, <3>2, <3>3
  <2>3. Alike = Nat
    <3>1. Alike \in SUBSET Nat
      OBVIOUS
    <3> HIDE DEF Alike
    <3> QED BY <2>1, <2>2, <3>1, SetInduction
  <2>4. \A n \in 0..Len(sink.queue) : g[n] = f[n]
    <3>1. \A n \in 0..Len(sink.queue) : n \in Alike /\ n <= Len(sink.queue)
      <4> HIDE DEF Alike
      <4> QED BY <2>0, <2>3
    <3> QED BY <3>1
  <2>5. /\ g = [n \in 0..Len(sink.queue) |-> g[n]]
        /\ f = [n \in 0..Len(sink.queue) |-> f[n]]
    BY <1>1 DEF Drains
  <2> QED BY <2>4, <2>5
<1> QED BY <1>1, <1>3, <1>5

\* An event that goes out takes a copy level with the baseline to the new baseline.
LEMMA QueueingMeetsBaseline ==
    ASSUME NEW s, Agreeing(s), NEW c, MeetsBaseline(s, c), NEW e \in Wire,
           NEW t, t.queue = Append(s.queue, e),
           \/ t.published = Baseline(s.published, e)
           \/ t.published = s.published /\ e = RunError
    PROVE  MeetsBaseline(t, c)
<1> DEFINE q == s.queue
           L == Len(q)
<1>1. q \in Seq(Wire) /\ L \in Nat /\ s.published \in Values \cup {Unknown}
  BY DEF Agreeing, Sinks
<1>2. /\ Len(t.queue) = L + 1 /\ t.queue[L + 1] = e
      /\ \A n \in 1..L : t.queue[n] = q[n]
  BY <1>1
<1> SUFFICES ASSUME t.published # Unknown, NEW f, Drains(f, c, t.queue)
             PROVE  f[L + 1] = t.published
  BY <1>2 DEF MeetsBaseline
<1>3. /\ f \in [0..(L + 1) -> Values] /\ f[0] = c
      /\ \A n \in 1..(L + 1) : f[n] = Applied(f[n - 1], t.queue[n])
  BY <1>2 DEF Drains
<1> DEFINE g == [n \in 0..L |-> f[n]]
<1>4. Drains(g, c, q)
  <2>1. \A n \in 1..L : n \in 0..L /\ n - 1 \in 0..L /\ n \in 1..(L + 1)
    BY <1>1
  <2>2. g \in [0..L -> Values] /\ g[0] = c
    BY <1>1, <1>3
  <2>3. \A n \in 1..L : g[n] = Applied(g[n - 1], q[n])
    BY <1>2, <1>3, <2>1
  <2> QED BY <2>2, <2>3 DEF Drains
<1>5. g[L] = f[L] /\ f[L] \in Values /\ f[L + 1] = Applied(f[L], e)
  <2>1. L + 1 \in 1..(L + 1) /\ (L + 1) - 1 = L /\ L \in 0..L /\ L \in 0..(L + 1)
    BY <1>1
  <2> QED BY <1>2, <1>3, <2>1
<1>6. s.published # Unknown => f[L] = s.published
  BY <1>4, <1>5 DEF MeetsBaseline
<1>7. CASE t.published = s.published /\ e = RunError
  BY <1>5, <1>6, <1>7 DEF Applied, RunError
<1>8. CASE t.published = Baseline(s.published, e)
  <2>1. CASE e.type = "STATE_SNAPSHOT"
    BY <1>5, <1>8, <2>1 DEF Applied, Baseline
  <2>2. CASE e.type = "STATE_DELTA"
    <3>1. s.published # Unknown /\ t.published = e.patch[s.published]
      BY <1>8, <2>2 DEF Baseline
    <3> QED BY <1>5, <1>6, <2>2, <3>1 DEF Applied
  <2>3. CASE e.type \notin {"STATE_SNAPSHOT", "STATE_DELTA"}
    BY <1>5, <1>6, <1>8, <2>3 DEF Applied, Baseline
  <2> QED BY <2>1, <2>2, <2>3
<1> QED BY <1>7, <1>8

LEMMA SendMeetsBaseline ==
    ASSUME NEW s, Agreeing(s), NEW c, MeetsBaseline(s, c), NEW e \in Wire
    PROVE  MeetsBaseline(Send(s, e).sink, c)
<1>1. CASE Full(s) /\ S!Accepts(s.verifier, RunError)
  <2>1. /\ Send(s, e).sink.queue = Append(s.queue, RunError)
        /\ Send(s, e).sink.published = s.published
    BY <1>1 DEF Send, Overflow, Result, Agreeing, Sinks
  <2> QED BY <2>1, TerminalsAreWire, QueueingMeetsBaseline
<1>2. CASE Full(s) /\ ~S!Accepts(s.verifier, RunError)
  BY <1>2 DEF Send, Overflow, Result
<1>3. CASE ~Full(s) /\ S!Accepts(s.verifier, e)
  <2>1. /\ Send(s, e).sink.queue = Append(s.queue, e)
        /\ Send(s, e).sink.published = Baseline(s.published, e)
    BY <1>3 DEF Send, Queued, Result, Agreeing, Sinks
  <2> QED BY <2>1, QueueingMeetsBaseline
<1>4. CASE ~Full(s) /\ ~S!Accepts(s.verifier, e)
  <2>1. [s EXCEPT !.verifier = S!Observe(@, e)] = s
    BY <1>4, ObserveLifecycle DEF Agreeing, Sinks
  <2> QED BY <1>4, <2>1 DEF Send, Result
<1> QED BY <1>1, <1>2, <1>3, <1>4

LEMMA EmitMeetsBaseline ==
    ASSUME NEW s, Agreeing(s), NEW c, MeetsBaseline(s, c), NEW e \in Wire,
           NEW out \in Transforms(Tagged(s, e))
    PROVE  MeetsBaseline(EmitForced(s, e, out).sink, c)
<1> DEFINE first == Send(s, out[1])
           sent == SendAll(s, out)
           noted == [sent.sink EXCEPT !.active = Recorded(@, e)]
<1>1. out = <<>> \/ (Len(out) \in {1, 2} /\ \A n \in 1..Len(out) : out[n] \in Wire)
  BY TransformsAreWire DEF Agreeing
<1>2. Agreeing(sent.sink) /\ MeetsBaseline(sent.sink, c)
  <2>1. CASE out = <<>>
    BY <2>1 DEF SendAll, Result
  <2>2. CASE out # <<>>
    <3>1. out[1] \in Wire
      BY <1>1, <2>2
    <3>2. Agreeing(first.sink) /\ MeetsBaseline(first.sink, c)
      BY <3>1, SendGrows, SendMeetsBaseline
    <3>3. CASE Len(out) = 1 \/ ~first.ok
      BY <2>2, <3>2, <3>3 DEF SendAll, SendSecond
    <3>4. CASE Len(out) = 2 /\ first.ok
      <4>1. out[2] \in Wire
        BY <1>1, <2>2, <3>4
      <4> QED BY <2>2, <3>2, <3>4, <4>1, SendGrows, SendMeetsBaseline DEF SendAll, SendSecond
    <3> QED BY <1>1, <2>2, <3>3, <3>4
  <2> QED BY <2>1, <2>2
<1>3. MeetsBaseline(noted, c)
  <2>1. noted.queue = sent.sink.queue /\ noted.published = sent.sink.published
    BY <1>2 DEF Agreeing, Sinks
  <2> QED BY <1>2, <2>1 DEF MeetsBaseline
<1> QED BY <1>2, <1>3 DEF EmitForced, Noted, Result

LEMMA TerminatedMeetsBaseline ==
    ASSUME NEW s, Agreeing(s), NEW c, MeetsBaseline(s, c), NEW o \in Outcomes
    PROVE  MeetsBaseline(Terminated(s, o), c)
<1>1. TerminalFor(o) \in Wire /\ RunError \in Wire
  BY TerminalsAreWire DEF TerminalFor
<1>2. \A t, e : <<Tagged(t, e)>> \in Transforms(Tagged(t, e))
  BY DEF Transforms
<1> DEFINE first == EmitPlain(s, TerminalFor(o))
<1>3. Agreeing(first.sink) /\ MeetsBaseline(first.sink, c)
  BY <1>1, <1>2, EmitGrows, EmitMeetsBaseline DEF EmitPlain
<1>4. MeetsBaseline(EmitPlain(first.sink, RunError).sink, c)
  BY <1>1, <1>2, <1>3, EmitMeetsBaseline DEF EmitPlain
<1> QED BY <1>3, <1>4 DEF Terminated

\* The consumer takes the head: what is left brings its new copy to the same baseline.
LEMMA YieldMeetsBaseline ==
    ASSUME NEW s, Agreeing(s), s.queue # <<>>, NEW c \in Values, MeetsBaseline(s, c),
           NEW t, t.queue = Tail(s.queue), t.published = s.published
    PROVE  MeetsBaseline(t, Applied(c, Head(s.queue)))
<1> DEFINE q == s.queue
           L == Len(q)
           h == Head(q)
<1>1. q \in Seq(Wire) /\ L \in Nat \ {0} /\ h = q[1] /\ h \in Wire
  BY DEF Agreeing, Sinks
<1>2. Len(Tail(q)) = L - 1 /\ \A n \in 1..(L - 1) : Tail(q)[n] = q[n + 1]
  BY <1>1
<1> SUFFICES ASSUME t.published # Unknown, NEW f, Drains(f, Applied(c, h), Tail(q))
             PROVE  f[L - 1] = t.published
  BY <1>2 DEF MeetsBaseline
<1>3. /\ f \in [0..(L - 1) -> Values] /\ f[0] = Applied(c, h)
      /\ \A n \in 1..(L - 1) : f[n] = Applied(f[n - 1], Tail(q)[n])
  BY <1>2 DEF Drains
<1> DEFINE g == [n \in 0..L |-> IF n = 0 THEN c ELSE f[n - 1]]
<1>4. Drains(g, c, q)
  <2>1. \A n \in 1..L : n - 1 \in 0..(L - 1) /\ n \in 0..L /\ n - 1 \in 0..L /\ n # 0
    BY <1>1
  <2>2. g \in [0..L -> Values] /\ g[0] = c
    BY <1>1, <1>3, <2>1
  <2>3. \A n \in 1..L : g[n] = Applied(g[n - 1], q[n])
    <3> SUFFICES ASSUME NEW n \in 1..L PROVE g[n] = Applied(g[n - 1], q[n])
      OBVIOUS
    <3>1. g[n] = f[n - 1]
      BY <2>1
    <3>2. CASE n = 1
      BY <1>1, <1>3, <3>1, <3>2
    <3>3. CASE n # 1
      <4>1. n - 1 \in 1..(L - 1) /\ (n - 1) + 1 = n /\ n - 1 # 0 /\ n - 1 \in 0..L
        BY <1>1, <3>3
      <4>2. g[n - 1] = f[(n - 1) - 1] /\ Tail(q)[n - 1] = q[n]
        BY <1>2, <4>1
      <4> QED BY <1>3, <3>1, <4>1, <4>2
    <3> QED BY <3>2, <3>3
  <2> QED BY <2>2, <2>3 DEF Drains
<1>5. g[L] = f[L - 1]
  BY <1>1
<1> QED BY <1>4, <1>5 DEF MeetsBaseline

LEMMA NextMeetsBaseline ==
    ASSUME IInv, MeetsBaseline(sink, copy), [Next]_vars
    PROVE  MeetsBaseline(sink', copy')
<1>0. Agreeing(sink) /\ copy \in Values
  BY DEF IInv, TypeOK
<1>1. CASE Begin
  <2> DEFINE e == RunStarted(NoOwners)
  <2>1. e \in Wire
    BY DEF RunStarted, NoOwners, Owners, Wire
  <2>2. <<Tagged(sink, e)>> \in Transforms(Tagged(sink, e))
    BY DEF Transforms
  <2>3. Agreeing(EmitPlain(sink, e).sink) /\ MeetsBaseline(EmitPlain(sink, e).sink, copy)
    BY <1>0, <2>1, <2>2, EmitGrows, EmitMeetsBaseline DEF EmitPlain
  <2>4. MeetsBaseline(Terminated(EmitPlain(sink, e).sink, "failed"), copy)
    BY <2>3, TerminatedMeetsBaseline DEF Outcomes
  <2> QED BY <1>1, <2>3, <2>4 DEF Begin, Returns
<1>2. \A e \in Wire : Emit(e) => MeetsBaseline(sink', copy')
  BY <1>0, EmitMeetsBaseline DEF Emit
<1>3. CASE \E e \in AgentEvents \cup StateEvents : Emit(e)
  BY <1>2, <1>3, AgentEventsAreWire
<1>4. CASE \E v \in Values : Publish(v)
  <2>1. sink.published \in Values \cup {Unknown}
    BY DEF IInv, TypeOK, Sinks
  <2> QED BY <1>2, <1>4, <2>1, AgentEventsAreWire DEF Publish
<1>5. CASE \E o \in Outcomes : Return(o)
  BY <1>0, <1>5, TerminatedMeetsBaseline DEF Return, Returns
<1>6. CASE Yield
  <2>1. sink'.queue = Tail(sink.queue) /\ sink'.published = sink.published
    BY <1>0, <1>6 DEF Yield, Agreeing, Sinks
  <2>2. copy' = Applied(copy, Head(sink.queue)) /\ sink.queue # <<>>
    BY <1>6 DEF Yield
  <2> QED BY <1>0, <2>1, <2>2, YieldMeetsBaseline
<1>7. CASE Await \/ Close \/ PollDriver \/ Wake \/ Cancel \/ Disconnect \/ Over \/ UNCHANGED vars
  BY <1>7 DEF Await, Close, PollDriver, Wake, Cancel, Disconnect, Over, vars
<1> QED BY <1>1, <1>3, <1>4, <1>5, <1>6, <1>7 DEF Next, AgentStep, Poll

-----------------------------------------------------------------------------
(* Theorems *)

\* Every state of every run is well typed: in particular the queue holds events
\* and the baseline is a document or unknown, whatever the agent emits.
THEOREM TypeCorrect == Spec => []TypeOK
  BY Invariance, PTL DEF IInv

\* "RUN_STARTED first and exactly one of RUN_FINISHED / RUN_ERROR last": every
\* run implements RunLifecycle, for any agent, transformer of state events,
\* capacity, cancellation and disconnect.
THEOREM PromiseKept == Spec => KeepsPromise
<1>1. Init => Lifecycle!Init
  BY DEF Init, Lifecycle!Init
<1>2. IInv /\ [Next]_vars => [Lifecycle!Next]_(Lifecycle!vars)
  <2> SUFFICES ASSUME IInv, [Next]_vars PROVE [Lifecycle!Next]_(Lifecycle!vars)
    OBVIOUS
  <2> USE DEF Lifecycle!Next, Lifecycle!vars
  <2>1. CASE Yield
    <3>1. driver # "new" /\ stream = "open"
      BY <2>1 DEF Yield, IInv, New
    <3>2. /\ seen = "nothing" => seen' = "started"
          /\ seen = "started" => seen' \in {"started", "finished", "failed"}
          /\ seen \in {"nothing", "started"}
      BY <2>1, <3>1, YieldStreams DEF Yield, IInv
    <3> QED BY <2>1, <3>1, <3>2 DEF Yield, Lifecycle!Start, Lifecycle!Conclude
  <2>2. CASE Close
    <3>1. driver # "new" /\ sink.terminated /\ stream = "open"
      BY <2>2 DEF Close, IInv, New, Agreeing
    <3>2. seen \in {"finished", "failed"}
      BY <2>2, <3>1 DEF Close, IInv, Streaming
    <3> QED BY <2>2, <3>1, <3>2 DEF Close, Lifecycle!End
  <2>3. CASE Disconnect
    BY <2>3 DEF Disconnect, Lifecycle!Drop
  <2>4. CASE Begin \/ PollDriver \/ Wake \/ Cancel \/ Over \/ UNCHANGED vars
    BY <2>4 DEF Begin, PollDriver, Wake, Cancel, Over, vars
  <2>5. CASE AgentStep
    BY <2>5 DEF AgentStep, Emit, Publish, Await, Return
  <2> QED BY <2>1, <2>2, <2>3, <2>4, <2>5 DEF Next, Poll
<1> QED BY <1>1, <1>2, Invariance, PTL DEF Spec, KeepsPromise, Lifecycle!Spec

\* The queue never holds more than its capacity and the one reserved RUN_ERROR
\* (send and overflow, emit/mod.rs), whatever transformers make of an event.
THEOREM CapacityKept == Spec => []WithinCapacity
<1>1. Init => WithinCapacity
  BY SinkAssumption DEF Init, New, WithinCapacity
<1> QED BY <1>1, NextStaysBounded, Invariance, PTL DEF Spec

\* A cancelled run sends nothing of its agent's any more: what still goes out is
\* RUN_STARTED, of a run not begun, and the driver's terminal event.
THEOREM CancelledAgentIsMute == Spec => NothingAfterCancel
<1> DEFINE Mute ==
        cancelled /\ Len(sink'.queue) > Len(sink.queue) =>
          /\ \/ driver = "new"
             \/ driver' = "gone" /\ Len(sink'.queue) = Len(sink.queue) + 1
          /\ \A n \in Len(sink.queue) + 1 .. Len(sink'.queue) :
                IsTerminal(sink'.queue[n]) \/ sink'.queue[n].type = "RUN_STARTED"
<1>1. IInv /\ [Next]_vars => [Mute]_vars
  <2> SUFFICES ASSUME IInv, Next, cancelled, Len(sink'.queue) > Len(sink.queue) PROVE Mute
    OBVIOUS
  <2>0. Agreeing(sink) /\ sink.queue \in Seq(Wire) /\ Len(sink.queue) \in Nat
    BY DEF IInv, Agreeing, Sinks
  <2>1. CASE Begin
    <3> DEFINE started == EmitPlain(sink, RunStarted(NoOwners)).sink
    <3>1. sink = New /\ driver = "new" /\ sink.queue = <<>>
      BY <2>1 DEF Begin, IInv, New
    <3>2. Agreeing(started) /\ Streaming(started, "nothing") /\ ~started.terminated
      BY <2>1, <3>1, FirstEventStreams DEF Begin
    <3>3. sink' = started \/ sink' = Terminated(started, "failed")
      BY <2>1 DEF Begin, Returns
    <3>4. PICK f \in Terminals : Grown(started, Terminated(started, "failed"), f)
      BY <3>2, TerminatedTerminates DEF Outcomes
    <3>5. started.queue \in Seq(Wire) /\ \A n \in 1..Len(started.queue) :
              IsTerminal(started.queue[n]) \/ started.queue[n].type = "RUN_STARTED"
      <4>1. started.queue = <<RunStarted(NoOwners)>>
        <5>1. Agreeing(New)
          BY <2>0, <3>1
        <5>2. RunStarted(NoOwners) \in Wire /\ Tagged(New, RunStarted(NoOwners)) = RunStarted(NoOwners)
          BY DEF RunStarted, Wire, Owners, NoOwners, Tagged, Attributable
        <5> QED BY <2>1, <3>1, <5>1, <5>2, PlainEmitGrows DEF Begin, Grown
      <4> QED BY <3>2, <4>1 DEF RunStarted, Agreeing, Sinks
    <3>6. \A n \in 1..Len(sink'.queue) : IsTerminal(sink'.queue[n]) \/ sink'.queue[n].type = "RUN_STARTED"
      <4>1. CASE sink' = started
        BY <3>5, <4>1
      <4>2. CASE sink' = Terminated(started, "failed")
        <5>1. sink'.queue = Append(started.queue, f) /\ IsTerminal(f)
          BY <3>4, <4>2 DEF Grown, IsTerminal
        <5> QED BY <3>5, <5>1
      <4> QED BY <3>3, <4>1, <4>2
    <3> QED BY <3>1, <3>6
  <2>2. CASE \E o \in Outcomes : Return(o)
    <3>1. PICK o \in Outcomes : Return(o)
      BY <2>2
    <3>2. ~sink.terminated /\ sink' = Terminated(sink, o) /\ driver' = "gone"
      BY <2>0, <3>1 DEF Return, Returns
    <3>3. PICK f \in Terminals : Grown(sink, sink', f)
      BY <2>0, <3>2, TerminatedTerminates
    <3>4. sink'.queue = Append(sink.queue, f) /\ IsTerminal(f) /\ f \in Wire
      BY <3>3, TerminalsAreWire DEF Grown, IsTerminal, Terminals
    <3>5. Len(sink'.queue) = Len(sink.queue) + 1 /\ sink'.queue[Len(sink.queue) + 1] = f
      BY <2>0, <3>4
    <3> QED BY <2>0, <3>2, <3>4, <3>5
  <2>3. CASE Yield
    <3>1. Len(sink'.queue) = Len(sink.queue) - 1
      BY <2>0, <2>3 DEF Yield, Agreeing, Sinks
    <3> QED BY <2>0, <3>1
  <2>4. CASE \/ \E e \in AgentEvents \cup StateEvents : Emit(e)
             \/ \E v \in Values : Publish(v)
             \/ Await
    <3>1. sink' = sink
      BY <2>4 DEF Emit, Publish, Await
    <3> QED BY <2>0, <3>1
  <2>5. CASE Close \/ PollDriver \/ Wake \/ Cancel \/ Disconnect \/ Over
    <3>1. sink' = sink
      BY <2>5 DEF Close, PollDriver, Wake, Cancel, Disconnect, Over, vars
    <3> QED BY <2>0, <3>1
  <2> QED BY <2>1, <2>2, <2>3, <2>4, <2>5 DEF Next, AgentStep, Poll
<1> QED BY <1>1, Invariance, PTL DEF Spec, NothingAfterCancel

\* The document patches are computed against (StateManager, emit/mod.rs) is the one the
\* consumer holds once it has applied what is still queued, whatever mixture of snapshots,
\* patches, transformers and refused or overflowing sends led there.
THEOREM PatchesFit == Spec => []StateAgrees
<1>1. Init => MeetsBaseline(sink, copy)
  BY DEF Init, New, MeetsBaseline
<1>2. IInv /\ MeetsBaseline(sink, copy) /\ [Next]_vars => MeetsBaseline(sink, copy)'
  BY NextMeetsBaseline
<1>3. IInv /\ MeetsBaseline(sink, copy) => StateAgrees
  BY DrainedDrains DEF IInv, TypeOK, Sinks, MeetsBaseline, StateAgrees
<1> QED BY <1>1, <1>2, <1>3, Invariance, PTL DEF Spec

=============================================================================
