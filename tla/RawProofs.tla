------------------------------ MODULE RawProofs ------------------------------
(***************************************************************************)
(* Two views of one run, for any agents that keep to Orderly, Sorted and    *)
(* Plain, any ids, subagents and transformers: an applier that is fed the   *)
(* wire's events as they come holds the messages, calls and thoughts of the *)
(* client's applier, which is fed what the normalizer makes of the chunks.  *)
(***************************************************************************)
EXTENDS TranscriptProofs

USE EventsAssumption, WireAssumption, TranscriptAssumption

-----------------------------------------------------------------------------
(* Two appliers that hold the same *)

\* The same conversation, calls and thoughts; the rest may differ.
SameView(a, b) ==
    /\ IsApplier(a) /\ IsApplier(b)
    /\ a.messages = b.messages /\ a.carrier = b.carrier /\ a.reasoning = b.reasoning

\* They still hold the same when the same is done to what they hold, and whatever is done
\* to the rest.
LEMMA SameFields ==
    ASSUME NEW a, NEW b, SameView(a, b)
    PROVE  /\ \A x : /\ SameView([a EXCEPT !.messages = x], [b EXCEPT !.messages = x])
                     /\ SameView([a EXCEPT !.reasoning = x], [b EXCEPT !.reasoning = x])
           /\ \A x, y : /\ SameView([a EXCEPT !.openText = x], [b EXCEPT !.openText = y])
                        /\ SameView([a EXCEPT !.state = x], [b EXCEPT !.state = y])
                        /\ SameView([a EXCEPT !.subagents = x], [b EXCEPT !.subagents = y])
                        /\ SameView([a EXCEPT !.messages = x, !.carrier = y], [b EXCEPT !.messages = x, !.carrier = y])
           /\ \A x, y, z, u : SameView([a EXCEPT !.reasoningStreams = x, !.openReasoning = y],
                                       [b EXCEPT !.reasoningStreams = z, !.openReasoning = u])
           /\ \A x, y, z, u : SameView([a EXCEPT !.messages = x, !.carrier = y, !.openText = z],
                                       [b EXCEPT !.messages = x, !.carrier = y, !.openText = u])
           /\ \A x, y, z, u, w : SameView([a EXCEPT !.reasoningStreams = x, !.reasoning = y, !.openReasoning = z],
                                          [b EXCEPT !.reasoningStreams = u, !.reasoning = y, !.openReasoning = w])
<1>0. \A x, y, m, c, r : View(x, m, c, r) /\ View(y, m, c, r) => SameView(x, y)
  BY DEF SameView, View
<1>1. IsApplier(a) /\ IsApplier(b) /\ a.messages = b.messages /\ a.carrier = b.carrier /\ a.reasoning = b.reasoning
  BY DEF SameView
<1>2. ASSUME NEW x, NEW y
      PROVE  /\ SameView([a EXCEPT !.messages = x], [b EXCEPT !.messages = x])
             /\ SameView([a EXCEPT !.reasoning = x], [b EXCEPT !.reasoning = x])
             /\ SameView([a EXCEPT !.openText = x], [b EXCEPT !.openText = y])
             /\ SameView([a EXCEPT !.state = x], [b EXCEPT !.state = y])
             /\ SameView([a EXCEPT !.subagents = x], [b EXCEPT !.subagents = y])
             /\ SameView([a EXCEPT !.messages = x, !.carrier = y], [b EXCEPT !.messages = x, !.carrier = y])
  <2>1. /\ View([a EXCEPT !.messages = x], x, a.carrier, a.reasoning)
        /\ View([a EXCEPT !.reasoning = x], a.messages, a.carrier, x)
        /\ View([a EXCEPT !.openText = x], a.messages, a.carrier, a.reasoning)
        /\ View([a EXCEPT !.state = x], a.messages, a.carrier, a.reasoning)
        /\ View([a EXCEPT !.subagents = x], a.messages, a.carrier, a.reasoning)
        /\ View([a EXCEPT !.messages = x, !.carrier = y], x, y, a.reasoning)
    BY <1>1, ApplierFields
  <2>2. /\ View([b EXCEPT !.messages = x], x, a.carrier, a.reasoning)
        /\ View([b EXCEPT !.reasoning = x], a.messages, a.carrier, x)
        /\ View([b EXCEPT !.openText = y], a.messages, a.carrier, a.reasoning)
        /\ View([b EXCEPT !.state = y], a.messages, a.carrier, a.reasoning)
        /\ View([b EXCEPT !.subagents = y], a.messages, a.carrier, a.reasoning)
        /\ View([b EXCEPT !.messages = x, !.carrier = y], x, y, a.reasoning)
    BY <1>1, ApplierFields
  <2> QED BY <1>0, <2>1, <2>2
<1>3. ASSUME NEW x, NEW y, NEW z, NEW u, NEW w
      PROVE  /\ SameView([a EXCEPT !.reasoningStreams = x, !.openReasoning = y],
                         [b EXCEPT !.reasoningStreams = z, !.openReasoning = u])
             /\ SameView([a EXCEPT !.messages = x, !.carrier = y, !.openText = z],
                         [b EXCEPT !.messages = x, !.carrier = y, !.openText = u])
             /\ SameView([a EXCEPT !.reasoningStreams = x, !.reasoning = y, !.openReasoning = z],
                         [b EXCEPT !.reasoningStreams = u, !.reasoning = y, !.openReasoning = w])
  <2>1. /\ View([a EXCEPT !.reasoningStreams = x, !.openReasoning = y], a.messages, a.carrier, a.reasoning)
        /\ View([a EXCEPT !.messages = x, !.carrier = y, !.openText = z], x, y, a.reasoning)
        /\ View([a EXCEPT !.reasoningStreams = x, !.reasoning = y, !.openReasoning = z], a.messages, a.carrier, y)
    BY <1>1, ApplierFields
  <2>2. /\ View([b EXCEPT !.reasoningStreams = z, !.openReasoning = u], a.messages, a.carrier, a.reasoning)
        /\ View([b EXCEPT !.messages = x, !.carrier = y, !.openText = u], x, y, a.reasoning)
        /\ View([b EXCEPT !.reasoningStreams = u, !.reasoning = y, !.openReasoning = w], a.messages, a.carrier, y)
    BY <1>1, ApplierFields
  <2> QED BY <1>0, <2>1, <2>2
<1> QED BY <1>2, <1>3

\* A message more.
LEMMA SamePushed ==
    ASSUME NEW a, NEW b, SameView(a, b), NEW m
    PROVE  SameView(PushMessage(a, m), PushMessage(b, m))
<1> DEFINE more == Append(a.messages, m)
           carrier == [c \in Ids |-> IF Carries(m, c) THEN Len(a.messages) + 1 ELSE a.carrier[c]]
<1>1. PushMessage(a, m) = [a EXCEPT !.messages = more, !.carrier = carrier]
  BY DEF PushMessage, SameView, IsApplier, Fields
<1>2. PushMessage(b, m) = [b EXCEPT !.messages = more, !.carrier = carrier]
  BY DEF PushMessage, SameView, IsApplier, Fields
<1> HIDE DEF more, carrier
<1>3. SameView([a EXCEPT !.messages = more, !.carrier = carrier], [b EXCEPT !.messages = more, !.carrier = carrier])
  BY SameFields
<1> QED BY <1>1, <1>2, <1>3

\* A text message's events.
LEMMA SameText ==
    ASSUME NEW a, NEW b, SameView(a, b), NEW i, NEW role, NEW g
    PROVE  /\ SameView(TextStart(a, i, role, g), TextStart(b, i, role, g))
           /\ TextContent(a, i, g).ok = TextContent(b, i, g).ok
           /\ SameView(TextContent(a, i, g).applier, TextContent(b, i, g).applier)
           /\ SameView(TextEnd(a, i), TextEnd(b, i)) /\ SameView(TextEnd(a, i), b)
<1>0. IsApplier(a) /\ IsApplier(b) /\ a.messages = b.messages
  BY DEF SameView
<1>1. \A r : SameView(TextStart(a, i, r, g), TextStart(b, i, r, g))
  <2> SUFFICES ASSUME NEW r PROVE SameView(TextStart(a, i, r, g), TextStart(b, i, r, g))
    OBVIOUS
  <2> DEFINE x == [a EXCEPT !.openText = Reopened(a.openText, i, g)]
             y == [b EXCEPT !.openText = Reopened(b.openText, i, g)]
             m == Message(i, r, g)
  <2>1. SameView(x, y)
    BY SameFields
  <2>2. TextStart(a, i, r, g) = IF At(a.messages, i) # 0 THEN x ELSE PushMessage(x, m)
    BY <1>0 DEF TextStart, IsApplier, Fields
  <2>3. TextStart(b, i, r, g) = IF At(a.messages, i) # 0 THEN y ELSE PushMessage(y, m)
    BY <1>0 DEF TextStart, IsApplier, Fields
  <2> HIDE DEF x, y, m
  <2>4. SameView(PushMessage(x, m), PushMessage(y, m))
    BY <2>1, SamePushed
  <2> QED BY <2>1, <2>2, <2>3, <2>4
<1>2. \A x, y, n : SameView(x, y) =>
         AppendText(x, n).ok = AppendText(y, n).ok /\ SameView(AppendText(x, n).applier, AppendText(y, n).applier)
  <2> SUFFICES ASSUME NEW x, NEW y, NEW n, SameView(x, y)
               PROVE  /\ AppendText(x, n).ok = AppendText(y, n).ok
                      /\ SameView(AppendText(x, n).applier, AppendText(y, n).applier)
    OBVIOUS
  <2> DEFINE after == [x.messages EXCEPT ![n] = [@ EXCEPT !.written = TRUE]]
             u == [x EXCEPT !.messages = after]
             w == [y EXCEPT !.messages = after]
  <2>1. IsApplier(x) /\ IsApplier(y) /\ x.messages = y.messages
    BY DEF SameView
  <2>2. SameView(u, w)
    BY SameFields
  <2>3. AppendText(x, n) = IF x.messages[n].role = "activity" THEN Failed(x) ELSE Applied(u)
    BY <2>1 DEF AppendText, IsApplier, Fields
  <2>4. AppendText(y, n) = IF x.messages[n].role = "activity" THEN Failed(y) ELSE Applied(w)
    BY <2>1 DEF AppendText, IsApplier, Fields
  <2> HIDE DEF u, w
  <2> QED BY <2>2, <2>3, <2>4 DEF Applied, Failed
<1>3. /\ TextContent(a, i, g).ok = TextContent(b, i, g).ok
      /\ SameView(TextContent(a, i, g).applier, TextContent(b, i, g).applier)
  BY <1>0, <1>1, <1>2 DEF TextContent
<1>4. SameView(TextEnd(a, i), TextEnd(b, i)) /\ SameView(TextEnd(a, i), b)
  <2>1. /\ TextEnd(a, i) = [a EXCEPT !.openText = Without(a.openText, i)]
        /\ TextEnd(b, i) = [b EXCEPT !.openText = Without(b.openText, i)]
        /\ b = [b EXCEPT !.openText = b.openText]
    BY <1>0 DEF TextEnd, IsApplier, Fields
  <2>2. /\ SameView([a EXCEPT !.openText = Without(a.openText, i)], [b EXCEPT !.openText = Without(b.openText, i)])
        /\ SameView([a EXCEPT !.openText = Without(a.openText, i)], [b EXCEPT !.openText = b.openText])
    BY SameFields
  <2> QED BY <2>1, <2>2
<1> QED BY <1>1, <1>3, <1>4

\* A call's.
LEMMA SameCalls ==
    ASSUME NEW a, NEW b, SameView(a, b), NEW c, NEW p, NEW g
    PROVE  /\ SameView(ToolCallStart(a, c, p, g), ToolCallStart(b, c, p, g))
           /\ ToolCallArgs(a, c).ok = ToolCallArgs(b, c).ok
           /\ SameView(ToolCallArgs(a, c).applier, ToolCallArgs(b, c).applier)
           /\ SameView(SignCall(a, c), SignCall(b, c))
<1>0. IsApplier(a) /\ IsApplier(b) /\ a.messages = b.messages /\ a.carrier = b.carrier
  BY DEF SameView
<1>1. ASSUME NEW x, NEW y, SameView(x, y), NEW n
      PROVE  SameView(HangCall(x, n, c), HangCall(y, n, c))
  <2> DEFINE old == x.messages[n]
             calls == IF Carries(old, c) THEN old.calls ELSE Append(old.calls, ToolCall(c))
             after == [x.messages EXCEPT ![n] = [old EXCEPT !.calls = calls]]
             moved == [x.carrier EXCEPT ![c] = n]
             u == [x EXCEPT !.messages = after, !.carrier = moved]
             w == [y EXCEPT !.messages = after, !.carrier = moved]
  <2>1. IsApplier(x) /\ IsApplier(y) /\ x.messages = y.messages /\ x.carrier = y.carrier
    BY <1>1 DEF SameView
  <2>2. HangCall(x, n, c) = IF old.role # "assistant" THEN x ELSE u
    BY <2>1 DEF HangCall, IsApplier, Fields
  <2>3. HangCall(y, n, c) = IF old.role # "assistant" THEN y ELSE w
    BY <2>1 DEF HangCall, IsApplier, Fields
  <2> HIDE DEF after, moved
  <2>4. SameView(u, w)
    BY <1>1, SameFields
  <2> HIDE DEF u, w, old
  <2> QED BY <1>1, <2>2, <2>3, <2>4
<1>2. SameView(ToolCallStart(a, c, p, g), ToolCallStart(b, c, p, g))
  <2> DEFINE m == Message(p, "assistant", g)
  <2>1. SameView(PushMessage(a, m), PushMessage(b, m))
    BY SamePushed
  <2>2. ToolCallStart(a, c, p, g) = IF At(a.messages, p) # 0 THEN HangCall(a, At(a.messages, p), c)
                                    ELSE HangCall(PushMessage(a, m), Len(a.messages) + 1, c)
    BY DEF ToolCallStart
  <2>3. ToolCallStart(b, c, p, g) = IF At(a.messages, p) # 0 THEN HangCall(b, At(a.messages, p), c)
                                    ELSE HangCall(PushMessage(b, m), Len(a.messages) + 1, c)
    BY <1>0 DEF ToolCallStart
  <2> HIDE DEF m
  <2> QED BY <1>1, <2>1, <2>2, <2>3
<1>3. ASSUME NEW calls
      PROVE  SameView([a EXCEPT !.messages = [a.messages EXCEPT ![a.carrier[c]] = [@ EXCEPT !.calls = calls]]],
                      [b EXCEPT !.messages = [a.messages EXCEPT ![a.carrier[c]] = [@ EXCEPT !.calls = calls]]])
  BY SameFields
<1>4. /\ ToolCallArgs(a, c).ok = ToolCallArgs(b, c).ok
      /\ SameView(ToolCallArgs(a, c).applier, ToolCallArgs(b, c).applier)
  <2> DEFINE old == a.messages[a.carrier[c]].calls
             calls == [k \in DOMAIN old |-> IF old[k].id = c THEN [old[k] EXCEPT !.written = TRUE] ELSE old[k]]
             after == [a.messages EXCEPT ![a.carrier[c]] = [@ EXCEPT !.calls = calls]]
             u == [a EXCEPT !.messages = after]
             w == [b EXCEPT !.messages = after]
  <2>1. ToolCallArgs(a, c) = IF a.carrier[c] = 0 THEN Failed(a) ELSE Applied(u)
    BY <1>0 DEF ToolCallArgs, IsApplier, Fields
  <2>2. ToolCallArgs(b, c) = IF a.carrier[c] = 0 THEN Failed(b) ELSE Applied(w)
    BY <1>0 DEF ToolCallArgs, IsApplier, Fields
  <2> HIDE DEF calls
  <2>3. SameView(u, w)
    BY <1>3
  <2> HIDE DEF u, w
  <2> QED BY <2>1, <2>2, <2>3 DEF Applied, Failed
<1>5. SameView(SignCall(a, c), SignCall(b, c))
  <2> DEFINE old == a.messages[a.carrier[c]].calls
             calls == [k \in DOMAIN old |-> IF old[k].id = c THEN [old[k] EXCEPT !.signed = TRUE] ELSE old[k]]
             after == [a.messages EXCEPT ![a.carrier[c]] = [@ EXCEPT !.calls = calls]]
             u == [a EXCEPT !.messages = after]
             w == [b EXCEPT !.messages = after]
  <2>1. SignCall(a, c) = IF a.carrier[c] = 0 THEN a ELSE u
    BY <1>0 DEF SignCall, IsApplier, Fields
  <2>2. SignCall(b, c) = IF a.carrier[c] = 0 THEN b ELSE w
    BY <1>0 DEF SignCall, IsApplier, Fields
  <2> HIDE DEF calls
  <2>3. SameView(u, w)
    BY <1>3
  <2> HIDE DEF u, w
  <2> QED BY <2>1, <2>2, <2>3
<1> QED BY <1>2, <1>4, <1>5

\* A thought's, and a signature.
LEMMA SameThoughts ==
    ASSUME NEW a, NEW b, SameView(a, b), NEW i, NEW g
    PROVE  /\ SameView(ReasoningStart(a, i, g), ReasoningStart(b, i, g))
           /\ SameView(ReasoningContent(a, i, g), ReasoningContent(b, i, g))
           /\ SameView(ReasoningEnd(a, i), ReasoningEnd(b, i)) /\ SameView(ReasoningEnd(a, i), b)
           /\ SameView(SignMessage(a, i), SignMessage(b, i))
<1>0. IsApplier(a) /\ IsApplier(b) /\ a.messages = b.messages /\ a.reasoning = b.reasoning
  BY DEF SameView
<1>1. SameView(ReasoningStart(a, i, g), ReasoningStart(b, i, g))
  <2> DEFINE y == IF At(a.reasoning, i) # 0 THEN a.reasoning ELSE Append(a.reasoning, Message(i, "reasoning", g))
             x == Reopened(a.reasoningStreams, i, g)
             z == a.openReasoning \cup {i}
             u == Reopened(b.reasoningStreams, i, g)
             w == b.openReasoning \cup {i}
  <2>1. ReasoningStart(a, i, g) = [a EXCEPT !.reasoningStreams = x, !.reasoning = y, !.openReasoning = z]
    BY <1>0 DEF ReasoningStart, IsApplier, Fields
  <2>2. ReasoningStart(b, i, g) = [b EXCEPT !.reasoningStreams = u, !.reasoning = y, !.openReasoning = w]
    BY <1>0 DEF ReasoningStart, IsApplier, Fields
  <2> HIDE DEF x, y, z, u, w
  <2>3. SameView([a EXCEPT !.reasoningStreams = x, !.reasoning = y, !.openReasoning = z],
                 [b EXCEPT !.reasoningStreams = u, !.reasoning = y, !.openReasoning = w])
    BY SameFields
  <2> QED BY <2>1, <2>2, <2>3
<1>2. ASSUME NEW x, NEW y, SameView(x, y)
      PROVE  SameView(Think(x, i), Think(y, i))
  <2> DEFINE after == [x.reasoning EXCEPT ![At(x.reasoning, i)] = [@ EXCEPT !.written = TRUE]]
  <2>1. IsApplier(x) /\ IsApplier(y) /\ x.reasoning = y.reasoning
    BY <1>2 DEF SameView
  <2>2. Think(x, i) = [x EXCEPT !.reasoning = after] /\ Think(y, i) = [y EXCEPT !.reasoning = after]
    BY <2>1 DEF Think, IsApplier, Fields
  <2> HIDE DEF after
  <2>3. SameView([x EXCEPT !.reasoning = after], [y EXCEPT !.reasoning = after])
    BY <1>2, SameFields
  <2> QED BY <2>2, <2>3
<1>3. SameView(ReasoningContent(a, i, g), ReasoningContent(b, i, g))
  BY <1>0, <1>1, <1>2 DEF ReasoningContent
<1>4. SameView(ReasoningEnd(a, i), ReasoningEnd(b, i)) /\ SameView(ReasoningEnd(a, i), b)
  <2> DEFINE x == Without(a.reasoningStreams, i)
             y == a.openReasoning \ {i}
             z == Without(b.reasoningStreams, i)
             u == b.openReasoning \ {i}
  <2>1. /\ ReasoningEnd(a, i) = [a EXCEPT !.reasoningStreams = x, !.openReasoning = y]
        /\ ReasoningEnd(b, i) = [b EXCEPT !.reasoningStreams = z, !.openReasoning = u]
        /\ b = [b EXCEPT !.reasoningStreams = b.reasoningStreams, !.openReasoning = b.openReasoning]
    BY <1>0 DEF ReasoningEnd, IsApplier, Fields
  <2> HIDE DEF x, y, z, u
  <2>2. /\ SameView([a EXCEPT !.reasoningStreams = x, !.openReasoning = y],
                    [b EXCEPT !.reasoningStreams = z, !.openReasoning = u])
        /\ SameView([a EXCEPT !.reasoningStreams = x, !.openReasoning = y],
                    [b EXCEPT !.reasoningStreams = b.reasoningStreams, !.openReasoning = b.openReasoning])
    BY SameFields
  <2> QED BY <2>1, <2>2
<1>5. SameView(SignMessage(a, i), SignMessage(b, i))
  <2> DEFINE thoughts == [a.reasoning EXCEPT ![At(a.reasoning, i)] = [@ EXCEPT !.signed = TRUE]]
             after == [a.messages EXCEPT ![At(a.messages, i)] = [@ EXCEPT !.signed = TRUE]]
             Spoke == At(a.messages, i) # 0 /\ a.messages[At(a.messages, i)].role # "activity"
  <2>1. SignMessage(a, i) = IF At(a.reasoning, i) # 0 THEN [a EXCEPT !.reasoning = thoughts]
                            ELSE IF Spoke THEN [a EXCEPT !.messages = after] ELSE a
    BY <1>0 DEF SignMessage, IsApplier, Fields
  <2>2. SignMessage(b, i) = IF At(a.reasoning, i) # 0 THEN [b EXCEPT !.reasoning = thoughts]
                            ELSE IF Spoke THEN [b EXCEPT !.messages = after] ELSE b
    BY <1>0 DEF SignMessage, IsApplier, Fields
  <2> HIDE DEF thoughts, after, Spoke
  <2>3. /\ SameView([a EXCEPT !.reasoning = thoughts], [b EXCEPT !.reasoning = thoughts])
        /\ SameView([a EXCEPT !.messages = after], [b EXCEPT !.messages = after])
    BY SameFields
  <2> QED BY <2>1, <2>2, <2>3
<1> QED BY <1>1, <1>3, <1>4, <1>5

\* Results, activities and snapshots.
LEMMA SameEntries ==
    ASSUME NEW a, NEW b, SameView(a, b), a.messages \in Seq(Msg), NEW e
    PROVE  /\ SameView(ToolCallResult(a, e), ToolCallResult(b, e))
           /\ SameView(WithActivity(a, e.id), WithActivity(b, e.id))
           /\ SameView(ActivitySnapshotted(a, e), ActivitySnapshotted(b, e))
           /\ \A m : SameView(ReplaceMessages(a, m), ReplaceMessages(b, m))
<1>0. IsApplier(a) /\ IsApplier(b) /\ a.messages = b.messages
  BY DEF SameView
<1>1. SameView(ToolCallResult(a, e), ToolCallResult(b, e))
  <2> DEFINE n == At(a.messages, e.id)
             m == [Message(e.id, "tool", e.tag) EXCEPT !.answers = e.call]
             after == [a.messages EXCEPT ![n] = [@ EXCEPT !.owner = e.tag]]
             tool == a.messages[n].role = "tool"
  <2>1. ToolCallResult(a, e) = IF n = 0 THEN PushMessage(a, m) ELSE IF tool THEN [a EXCEPT !.messages = after] ELSE a
    BY <1>0 DEF ToolCallResult, IsApplier, Fields
  <2>2. ToolCallResult(b, e) = IF n = 0 THEN PushMessage(b, m) ELSE IF tool THEN [b EXCEPT !.messages = after] ELSE b
    BY <1>0 DEF ToolCallResult, IsApplier, Fields
  <2> HIDE DEF n, m, after, tool
  <2>3. /\ SameView(PushMessage(a, m), PushMessage(b, m))
        /\ SameView([a EXCEPT !.messages = after], [b EXCEPT !.messages = after])
    BY SamePushed, SameFields
  <2> QED BY <2>1, <2>2, <2>3
<1>2. SameView(WithActivity(a, e.id), WithActivity(b, e.id))
  BY <1>0, SamePushed DEF WithActivity
<1>3. SameView(ActivitySnapshotted(a, e), ActivitySnapshotted(b, e))
  <2> DEFINE n == At(a.messages, e.id)
             m == [Message(e.id, "activity", e.tag) EXCEPT !.written = TRUE]
             g == IF e.replace THEN e.tag ELSE a.messages[n].owner
             after == [a.messages EXCEPT ![n] = [a.messages[n] EXCEPT !.written = TRUE, !.owner = g]]
             other == a.messages[n].role # "activity"
  <2>1. ASSUME NEW x, IsApplier(x), x.messages = a.messages
        PROVE  ActivitySnapshotted(x, e) = IF n = 0 THEN PushMessage(x, m)
                                           ELSE IF other THEN x ELSE [x EXCEPT !.messages = after]
    <3>1. CASE n # 0 /\ ~other
      <4>1. n \in DOMAIN x.messages /\ x.messages[n] \in Msg
        BY <2>1, <3>1, AtFacts
      <4>2. n = At(x.messages, e.id) /\ n # 0 /\ x.messages[n].role = "activity"
        BY <2>1, <3>1
      <4>3. after = [x.messages EXCEPT ![n] = [x.messages[n] EXCEPT !.written = TRUE, !.owner = g]]
        BY <2>1
      <4>4. g = IF e.replace THEN e.tag ELSE x.messages[n].owner
        BY <2>1
      <4> HIDE DEF n, g, after
      <4>5. ActivitySnapshotted(x, e) =
               [x EXCEPT !.messages = [x.messages EXCEPT ![n] = [x.messages[n] EXCEPT !.written = TRUE, !.owner = g]]]
        BY <2>1, <4>1, <4>2, <4>4 DEF ActivitySnapshotted, IsApplier, Fields
      <4> QED BY <3>1, <4>3, <4>5
    <3>2. CASE n = 0 \/ other
      BY <2>1, <3>2 DEF ActivitySnapshotted
    <3> QED BY <3>1, <3>2
  <2>2. /\ SameView(PushMessage(a, m), PushMessage(b, m))
        /\ SameView([a EXCEPT !.messages = after], [b EXCEPT !.messages = after])
    <3> HIDE DEF m, after
    <3> QED BY SamePushed, SameFields
  <2> HIDE DEF n, g, m, after, other
  <2>3. /\ ActivitySnapshotted(a, e) = IF n = 0 THEN PushMessage(a, m)
                                       ELSE IF other THEN a ELSE [a EXCEPT !.messages = after]
        /\ ActivitySnapshotted(b, e) = IF n = 0 THEN PushMessage(b, m)
                                       ELSE IF other THEN b ELSE [b EXCEPT !.messages = after]
    BY <1>0, <2>1
  <2> QED BY <2>2, <2>3
<1>4. ASSUME NEW m
      PROVE  SameView(ReplaceMessages(a, m), ReplaceMessages(b, m))
  <2> DEFINE carrier == [c \in Ids |-> LastNaming(m, "call", c)]
             x == Present(a.openText, m)
             y == Present(b.openText, m)
  <2>1. /\ ReplaceMessages(a, m) = [a EXCEPT !.messages = m, !.carrier = carrier, !.openText = x]
        /\ ReplaceMessages(b, m) = [b EXCEPT !.messages = m, !.carrier = carrier, !.openText = y]
    BY <1>0 DEF ReplaceMessages, IsApplier, Fields
  <2> HIDE DEF carrier, x, y
  <2>2. SameView([a EXCEPT !.messages = m, !.carrier = carrier, !.openText = x],
                 [b EXCEPT !.messages = m, !.carrier = carrier, !.openText = y])
    BY SameFields
  <2> QED BY <2>1, <2>2
<1> QED BY <1>1, <1>2, <1>3, <1>4

\* Two appliers that hold the same make the same of an event that is no chunk; an END
\* changes nothing that they hold.
LEMMA SameApplied ==
    ASSUME NEW a, NEW b, SameView(a, b), NEW x, WellFormed(x), x.type # "CHUNK",
           a.messages \in Seq(Msg) \/ x.type \in {"START", "CONTENT", "END"}
    PROVE  /\ Apply(a, x).ok = Apply(b, x).ok
           /\ SameView(Apply(a, x).applier, Apply(b, x).applier)
           /\ x.type = "END" => SameView(Apply(a, x).applier, b)
<1> DEFINE Like(r, q) == r.ok = q.ok /\ SameView(r.applier, q.applier)
<1>0. IsApplier(a) /\ IsApplier(b) /\ a.messages = b.messages
  BY DEF SameView
<1>1. \A u, w : SameView(u, w) => Like(Applied(u), Applied(w))
  BY DEF Applied
<1>2. CASE x.type \in {"START", "CONTENT", "END"}
  <2>1. x.kind \in {"text", "tool", "block", "reasoning"} /\ (x.kind = "block" => x.type # "CONTENT")
    BY <1>2, Vocabulary DEF WellFormed
  <2>2. Apply(a, x) = ApplyStream(a, x) /\ Apply(b, x) = ApplyStream(b, x)
    BY <1>2 DEF Apply
  <2>3. CASE x.type = "START"
    <3>1. CASE x.kind = "text"
      <4>1. /\ Apply(a, x) = Applied(TextStart(a, x.id, RoleOf(x), x.tag))
            /\ Apply(b, x) = Applied(TextStart(b, x.id, RoleOf(x), x.tag))
        BY <2>2, <2>3, <3>1 DEF ApplyStream
      <4>2. SameView(TextStart(a, x.id, RoleOf(x), x.tag), TextStart(b, x.id, RoleOf(x), x.tag))
        BY SameText
      <4> QED BY <1>1, <2>3, <4>1, <4>2
    <3>2. CASE x.kind = "tool"
      <4>1. /\ Apply(a, x) = Applied(ToolCallStart(a, x.id, CarrierId(x.id, x.parent), x.tag))
            /\ Apply(b, x) = Applied(ToolCallStart(b, x.id, CarrierId(x.id, x.parent), x.tag))
        BY <2>2, <2>3, <3>2 DEF ApplyStream
      <4>2. SameView(ToolCallStart(a, x.id, CarrierId(x.id, x.parent), x.tag),
                     ToolCallStart(b, x.id, CarrierId(x.id, x.parent), x.tag))
        BY SameCalls
      <4> QED BY <1>1, <2>3, <4>1, <4>2
    <3>3. CASE x.kind \in {"block", "reasoning"}
      <4>1. /\ Apply(a, x) = Applied(ReasoningStart(a, x.id, x.tag))
            /\ Apply(b, x) = Applied(ReasoningStart(b, x.id, x.tag))
        BY <2>2, <2>3, <3>3 DEF ApplyStream
      <4>2. SameView(ReasoningStart(a, x.id, x.tag), ReasoningStart(b, x.id, x.tag))
        BY SameThoughts
      <4> QED BY <1>1, <2>3, <4>1, <4>2
    <3> QED BY <2>1, <3>1, <3>2, <3>3
  <2>4. CASE x.type = "CONTENT"
    <3>1. CASE x.kind = "text"
      <4>1. Apply(a, x) = TextContent(a, x.id, x.tag) /\ Apply(b, x) = TextContent(b, x.id, x.tag)
        BY <2>2, <2>4, <3>1 DEF ApplyStream
      <4> QED BY <2>4, <4>1, SameText
    <3>2. CASE x.kind = "tool"
      <4>1. Apply(a, x) = ToolCallArgs(a, x.id) /\ Apply(b, x) = ToolCallArgs(b, x.id)
        BY <2>2, <2>4, <3>2 DEF ApplyStream
      <4> QED BY <2>4, <4>1, SameCalls
    <3>3. CASE x.kind = "reasoning"
      <4>1. /\ Apply(a, x) = Applied(ReasoningContent(a, x.id, x.tag))
            /\ Apply(b, x) = Applied(ReasoningContent(b, x.id, x.tag))
        BY <2>2, <2>4, <3>3 DEF ApplyStream
      <4>2. SameView(ReasoningContent(a, x.id, x.tag), ReasoningContent(b, x.id, x.tag))
        BY SameThoughts
      <4> QED BY <1>1, <2>4, <4>1, <4>2
    <3> QED BY <2>1, <2>4, <3>1, <3>2, <3>3
  <2>5. CASE x.type = "END"
    <3>1. CASE x.kind = "text"
      <4>1. Apply(a, x) = Applied(TextEnd(a, x.id)) /\ Apply(b, x) = Applied(TextEnd(b, x.id))
        BY <2>2, <2>5, <3>1 DEF ApplyStream
      <4>2. SameView(TextEnd(a, x.id), TextEnd(b, x.id)) /\ SameView(TextEnd(a, x.id), b)
        BY SameText
      <4> QED BY <4>1, <4>2 DEF Applied
    <3>2. CASE x.kind = "tool"
      <4>1. Apply(a, x) = Applied(a) /\ Apply(b, x) = Applied(b)
        BY <2>2, <2>5, <3>2 DEF ApplyStream
      <4> QED BY <4>1 DEF Applied
    <3>3. CASE x.kind \in {"block", "reasoning"}
      <4>1. Apply(a, x) = Applied(ReasoningEnd(a, x.id)) /\ Apply(b, x) = Applied(ReasoningEnd(b, x.id))
        BY <2>2, <2>5, <3>3 DEF ApplyStream
      <4>2. SameView(ReasoningEnd(a, x.id), ReasoningEnd(b, x.id)) /\ SameView(ReasoningEnd(a, x.id), b)
        BY SameThoughts
      <4> QED BY <4>1, <4>2 DEF Applied
    <3> QED BY <2>1, <3>1, <3>2, <3>3
  <2> QED BY <1>2, <2>3, <2>4, <2>5
<1>3. CASE x.type \in {"TOOL_CALL_RESULT", "ACTIVITY_SNAPSHOT", "ACTIVITY_DELTA"}
  <2>1. CASE x.type = "TOOL_CALL_RESULT"
    BY <1>1, <2>1, SameEntries DEF Apply
  <2>2. CASE x.type = "ACTIVITY_SNAPSHOT"
    BY <1>1, <2>2, SameEntries DEF Apply
  <2>3. CASE x.type = "ACTIVITY_DELTA"
    BY <1>1, <2>3, SameEntries DEF Apply
  <2> QED BY <1>3, <2>1, <2>2, <2>3
<1>4. CASE x.type = "MESSAGES_SNAPSHOT"
  <2>1. PICK m : m = Merged(a.messages, x.messages)
    OBVIOUS
  <2>2. Apply(a, x) = Applied(ReplaceMessages(a, m)) /\ Apply(b, x) = Applied(ReplaceMessages(b, m))
    BY <1>0, <1>4, <2>1 DEF Apply
  <2>3. SameView(ReplaceMessages(a, m), ReplaceMessages(b, m))
    BY <1>4, SameEntries
  <2> QED BY <1>1, <1>4, <2>2, <2>3
<1>5. CASE x.type = "ENCRYPTED"
  <2>1. SameView(SignCall(a, x.id), SignCall(b, x.id)) /\ SameView(SignMessage(a, x.id), SignMessage(b, x.id))
    BY SameCalls, SameThoughts
  <2>2. /\ Apply(a, x) = Applied(IF x.subtype = "tool-call" THEN SignCall(a, x.id) ELSE SignMessage(a, x.id))
        /\ Apply(b, x) = Applied(IF x.subtype = "tool-call" THEN SignCall(b, x.id) ELSE SignMessage(b, x.id))
    BY <1>5 DEF Apply
  <2> QED BY <1>1, <1>5, <2>1, <2>2
<1>6. CASE x.type \in {"STATE_SNAPSHOT", "SUBAGENT_STARTED", "SUBAGENT_FINISHED", "SUBAGENT_ERROR"}
  <2>1. \A y, z : /\ SameView([a EXCEPT !.state = y], [b EXCEPT !.state = z])
                  /\ SameView([a EXCEPT !.subagents = y], [b EXCEPT !.subagents = z])
    BY SameFields
  <2>2. CASE x.type = "STATE_SNAPSHOT"
    BY <1>1, <2>1, <2>2 DEF Apply
  <2>3. ASSUME NEW u, IsApplier(u), NEW p, NEW t
        PROVE  /\ \E y : SubagentAnnounced(u, x.id, p) = [u EXCEPT !.subagents = y]
               /\ \E y : SubagentClosed(u, x.id, t) = [u EXCEPT !.subagents = y]
    <3> DEFINE n == At(u.subagents, x.id)
               old == u.subagents[n]
               more == Append(u.subagents, Subagent(x.id, p, "running"))
               again == [u.subagents EXCEPT ![n] = Subagent(x.id, IF p = None THEN old.parent ELSE p, "running")]
               late == Append(u.subagents, Subagent(x.id, None, t))
               over == [u.subagents EXCEPT ![n] = [old EXCEPT !.status = t]]
    <3>1. SubagentAnnounced(u, x.id, p) = IF n = 0 THEN [u EXCEPT !.subagents = more] ELSE [u EXCEPT !.subagents = again]
      BY <2>3 DEF SubagentAnnounced, IsApplier, Fields
    <3>2. SubagentClosed(u, x.id, t) = IF n = 0 THEN [u EXCEPT !.subagents = late] ELSE [u EXCEPT !.subagents = over]
      BY <2>3 DEF SubagentClosed, IsApplier, Fields
    <3> HIDE DEF n, more, again, late, over
    <3> QED BY <3>1, <3>2
  <2>4. /\ \A p : SameView(SubagentAnnounced(a, x.id, p), SubagentAnnounced(b, x.id, p))
        /\ \A t : SameView(SubagentClosed(a, x.id, t), SubagentClosed(b, x.id, t))
    <3>1. ASSUME NEW p
          PROVE  SameView(SubagentAnnounced(a, x.id, p), SubagentAnnounced(b, x.id, p))
      <4>1. PICK y : SubagentAnnounced(a, x.id, p) = [a EXCEPT !.subagents = y]
        BY <1>0, <2>3
      <4>2. PICK z : SubagentAnnounced(b, x.id, p) = [b EXCEPT !.subagents = z]
        BY <1>0, <2>3
      <4>3. SameView([a EXCEPT !.subagents = y], [b EXCEPT !.subagents = z])
        BY <2>1
      <4> QED BY ONLY <4>1, <4>2, <4>3
    <3>2. ASSUME NEW t
          PROVE  SameView(SubagentClosed(a, x.id, t), SubagentClosed(b, x.id, t))
      <4>1. PICK y : SubagentClosed(a, x.id, t) = [a EXCEPT !.subagents = y]
        BY <1>0, <2>3
      <4>2. PICK z : SubagentClosed(b, x.id, t) = [b EXCEPT !.subagents = z]
        BY <1>0, <2>3
      <4>3. SameView([a EXCEPT !.subagents = y], [b EXCEPT !.subagents = z])
        BY <2>1
      <4> QED BY ONLY <4>1, <4>2, <4>3
    <3> QED BY <3>1, <3>2
  <2>5. CASE x.type = "SUBAGENT_STARTED"
    BY <1>1, <2>4, <2>5 DEF Apply
  <2>6. CASE x.type \in {"SUBAGENT_FINISHED", "SUBAGENT_ERROR"}
    BY <1>1, <2>4, <2>6 DEF Apply
  <2> QED BY <1>6, <2>2, <2>5, <2>6
<1>7. CASE x.type \notin {"START", "CONTENT", "END", "TOOL_CALL_RESULT", "ACTIVITY_SNAPSHOT", "ACTIVITY_DELTA",
                          "MESSAGES_SNAPSHOT", "ENCRYPTED", "STATE_SNAPSHOT", "SUBAGENT_STARTED",
                          "SUBAGENT_FINISHED", "SUBAGENT_ERROR"}
  <2>1. Apply(a, x) = Applied(a) /\ Apply(b, x) = Applied(b)
    BY <1>7 DEF Apply
  <2> QED BY <1>1, <1>7, <2>1
<1> QED BY <1>2, <1>3, <1>4, <1>5, <1>6, <1>7

-----------------------------------------------------------------------------
(* The streams an applier has open *)

\* An entry of an applier's list of open streams.
Slot == [id : Ids, owner : Owner]

\* Without walks the list, keeping the streams that are not under the id.
LEMMA WithoutWalks ==
    ASSUME NEW open \in Seq(Slot), NEW i
    PROVE  \E f : /\ Without(open, i) = f[Len(open)] /\ f[0] = <<>>
                  /\ \A n \in 1..Len(open) :
                        f[n] = IF open[n].id = i THEN f[n - 1] ELSE Append(f[n - 1], open[n])
<1> DEFINE A == Seq(Slot)
           Rest(xs, n) == IF open[n].id = i THEN xs ELSE Append(xs, open[n])
           follow == [n \in 1..Len(open) |-> [xs \in A |-> Rest(xs, n)]]
           Walk(f) == f = [n \in 0..Len(open) |->
                              IF n = 0 THEN <<>>
                              ELSE IF open[n].id = i THEN f[n - 1] ELSE Append(f[n - 1], open[n])]
<1>1. /\ Len(open) \in Nat
      /\ \A n \in 1..Len(open) : open[n] \in Slot /\ n - 1 \in 0..Len(open) /\ n # 0
  OBVIOUS
<1>2. follow \in [1..Len(open) -> [A -> A]]
  <2> SUFFICES ASSUME NEW n \in 1..Len(open), NEW xs \in A
               PROVE  Rest(xs, n) \in A
    OBVIOUS
  <2> QED BY <1>1
<1>3. PICK f : Recurs(f, A, <<>>, follow, Len(open))
  <2>1. <<>> \in A
    OBVIOUS
  <2> HIDE DEF A, follow
  <2> QED BY <1>1, <1>2, <2>1, Recursion
<1>4. f \in [0..Len(open) -> A] /\ f[0] = <<>> /\ \A n \in 1..Len(open) : f[n] = Rest(f[n - 1], n)
  <2>1. f \in [0..Len(open) -> A] /\ f[0] = <<>>
    BY <1>3 DEF Recurs
  <2>2. ASSUME NEW n \in 1..Len(open)
        PROVE  f[n] = Rest(f[n - 1], n)
    <3>1. f[n] = follow[n][f[n - 1]] /\ f[n - 1] \in A
      BY <1>1, <1>3 DEF Recurs
    <3> HIDE DEF A, Rest
    <3> QED BY <3>1
  <2> QED BY <2>1, <2>2
<1>5. Walk(f)
  <2>1. \A n \in 0..Len(open) : n # 0 => n \in 1..Len(open)
    BY <1>1
  <2> HIDE DEF A
  <2> QED BY <1>4, <2>1
<1> DEFINE g == CHOOSE walk : Walk(walk)
<1>6. Without(open, i) = g[Len(open)]
  BY DEF Without
<1>7. Walk(g)
  <2> HIDE DEF Walk
  <2> QED BY <1>5
<1> HIDE DEF g
<1>8. 0 \in 0..Len(open) /\ \A n \in 1..Len(open) : n \in 0..Len(open) /\ n # 0
  BY <1>1
<1>9. g[0] = <<>>
  BY <1>7, <1>8, Zenon
<1>10. ASSUME NEW n \in 1..Len(open)
       PROVE  g[n] = Rest(g[n - 1], n)
  BY <1>7, <1>8, Zenon
<1> QED BY <1>6, <1>9, <1>10

\* One more stream.
LEMMA SlotAdded ==
    ASSUME NEW open \in Seq(Slot), NEW s \in Slot
    PROVE  Append(open, s) \in Seq(Slot) /\ Listed(Append(open, s)) = Listed(open) \cup {s}
<1> DEFINE more == Append(open, s)
<1>1. /\ more \in Seq(Slot) /\ DOMAIN more = 1..(Len(open) + 1) /\ DOMAIN open = 1..Len(open)
      /\ Len(open) \in Nat /\ more[Len(open) + 1] = s
      /\ \A n \in DOMAIN open : more[n] = open[n]
  OBVIOUS
<1> HIDE DEF more
<1>2. \A n \in DOMAIN more : n \in DOMAIN open \/ n = Len(open) + 1
  BY <1>1
<1>3. DOMAIN open \subseteq DOMAIN more /\ Len(open) + 1 \in DOMAIN more
  BY <1>1
<1>4. Listed(more) = Listed(open) \cup {s}
  BY <1>1, <1>2, <1>3 DEF Listed
<1> QED BY <1>1, <1>4 DEF more

\* A stream is closed, or opened again.
LEMMA SlotsKept ==
    ASSUME NEW open \in Seq(Slot), NEW i
    PROVE  /\ Without(open, i) \in Seq(Slot)
           /\ Listed(Without(open, i)) = {s \in Listed(open) : s.id # i}
           /\ \A g \in Owner : i \in Ids =>
                 /\ Reopened(open, i, g) \in Seq(Slot)
                 /\ Listed(Reopened(open, i, g)) =
                       {s \in Listed(open) : s.id # i} \cup {[id |-> i, owner |-> g]}
<1> DEFINE Rest(n) == {s \in Slot : s.id # i /\ \E m \in 1..n : s = open[m]}
<1>1. PICK f : /\ Without(open, i) = f[Len(open)] /\ f[0] = <<>>
               /\ \A n \in 1..Len(open) :
                     f[n] = IF open[n].id = i THEN f[n - 1] ELSE Append(f[n - 1], open[n])
  BY WithoutWalks
<1> DEFINE Good(n) == f[n] \in Seq(Slot) /\ Listed(f[n]) = Rest(n)
           T == {n \in 0..Len(open) : Good(n)}
<1>2. Len(open) \in Nat /\ \A n \in 1..Len(open) : open[n] \in Slot /\ n \in Nat /\ n \in DOMAIN open
  OBVIOUS
<1>3. 0 \in T
  <2>1. Listed(<<>>) = {} /\ <<>> \in Seq(Slot)
    BY DEF Listed
  <2>2. Rest(0) = {}
    OBVIOUS
  <2> HIDE DEF Rest
  <2>3. Good(0)
    BY <1>1, <2>1, <2>2, Zenon
  <2>4. 0 \in 0..Len(open)
    BY <1>2
  <2> QED BY <2>3, <2>4
<1>4. ASSUME NEW n \in 1..Len(open), n - 1 \in T
      PROVE  n \in T
  <2>1. Good(n - 1) /\ n \in 0..Len(open) /\ n \in Nat
    BY <1>2, <1>4
  <2>2. \A m \in Nat : m \in 1..n <=> m \in 1..(n - 1) \/ m = n
    BY <2>1
  <2>3. n \in 1..n /\ \A m \in 1..(n - 1) : m \in Nat
    BY <1>2, <2>1
  <2>4. CASE open[n].id = i
    <3>1. f[n] = f[n - 1]
      BY <1>1, <2>4
    <3>2. Rest(n) = Rest(n - 1)
      BY <2>2, <2>3, <2>4
    <3> HIDE DEF Rest
    <3> QED BY <2>1, <3>1, <3>2
  <2>5. CASE open[n].id # i
    <3>1. f[n] = Append(f[n - 1], open[n])
      BY <1>1, <2>5
    <3>2. Rest(n) = Rest(n - 1) \cup {open[n]}
      BY <1>2, <2>2, <2>3, <2>5
    <3> HIDE DEF Rest
    <3>3. f[n] \in Seq(Slot) /\ Listed(f[n]) = Listed(f[n - 1]) \cup {open[n]}
      BY <1>2, <2>1, <3>1, SlotAdded
    <3> QED BY <2>1, <3>2, <3>3
  <2> QED BY <2>4, <2>5
<1>5. \A n \in 0..Len(open) : n \in T
  <2> HIDE DEF T
  <2> QED BY <1>2, <1>3, <1>4, IntervalInduction
<1>6. Good(Len(open))
  <2>1. Len(open) \in 0..Len(open)
    BY <1>2
  <2>2. Len(open) \in T
    BY <1>5, <2>1
  <2> HIDE DEF Good
  <2> QED BY <2>2
<1>7. Rest(Len(open)) = {s \in Listed(open) : s.id # i}
  BY <1>2 DEF Listed
<1> DEFINE left == Without(open, i)
<1>8. left \in Seq(Slot) /\ Listed(left) = {s \in Listed(open) : s.id # i}
  BY <1>1, <1>6, <1>7
<1>9. ASSUME NEW g \in Owner, i \in Ids
      PROVE  /\ Reopened(open, i, g) \in Seq(Slot)
             /\ Listed(Reopened(open, i, g)) = Listed(left) \cup {[id |-> i, owner |-> g]}
  <2>1. Reopened(open, i, g) = Append(left, [id |-> i, owner |-> g])
    BY DEF Reopened
  <2>2. [id |-> i, owner |-> g] \in Slot
    BY <1>9 DEF Slot
  <2> HIDE DEF left
  <2> QED BY <1>8, <2>1, <2>2, SlotAdded
<1> QED BY <1>8, <1>9

-----------------------------------------------------------------------------
(* A walk that ends well, by what its applier holds *)

\* Aborting what is open leaves what is held.
LEMMA AbortedView ==
    ASSUME NEW a, IsApplier(a)
    PROVE  SameView(AbortSubagents(a), a)
<1> DEFINE subagents == [n \in DOMAIN a.subagents |->
              IF a.subagents[n].status = "running" THEN [a.subagents[n] EXCEPT !.status = "aborted"]
              ELSE a.subagents[n]]
<1>1. AbortSubagents(a) = [a EXCEPT !.openText = <<>>, !.openReasoning = {}, !.reasoningStreams = <<>>,
                                    !.subagents = subagents]
  BY DEF AbortSubagents, IsApplier, Fields
<1> HIDE DEF subagents
<1>2. PICK b : b = [a EXCEPT !.openText = <<>>, !.openReasoning = {}, !.reasoningStreams = <<>>,
                             !.subagents = subagents]
  OBVIOUS
<1>3. IsApplier(b) /\ b.messages = a.messages /\ b.carrier = a.carrier /\ b.reasoning = a.reasoning
  BY <1>2 DEF IsApplier, Fields
<1> QED BY <1>1, <1>2, <1>3 DEF SameView

\* One more event is handled after the others.
LEMMA HandledMore ==
    ASSUME NEW line, NEW xs \in Seq(Heard), NEW x \in Heard
    PROVE  Handled(line, Append(xs, x)) = Handle(Handled(line, xs), x)
<1> DEFINE ys == Append(xs, x)
           L == Len(xs)
<1>1. /\ ys \in Seq(Heard) /\ Len(ys) = L + 1 /\ L \in Nat /\ ys[L + 1] = x
      /\ \A n \in 1..L : ys[n] = xs[n]
  OBVIOUS
<1>2. PICK f : Follows(f, line, xs) /\ Handled(line, xs) = f[Len(xs)]
  BY HandledWalks
<1>3. PICK h : Follows(h, line, ys) /\ Handled(line, ys) = h[Len(ys)]
  BY <1>1, HandledWalks
<1> HIDE DEF ys
<1> DEFINE T == {n \in 0..L : f[n] = h[n]}
<1>4. 0 \in T
  BY <1>1, <1>2, <1>3 DEF Follows
<1>5. ASSUME NEW n \in 1..L, n - 1 \in T
      PROVE  n \in T
  <2>1. n \in 1..Len(ys) /\ n \in 0..L /\ f[n - 1] = h[n - 1]
    BY <1>1, <1>5
  <2>2. f[n] = Handle(f[n - 1], xs[n]) /\ h[n] = Handle(h[n - 1], ys[n])
    BY <1>2, <1>3, <2>1 DEF Follows
  <2> QED BY <1>1, <2>1, <2>2
<1>6. \A n \in 0..L : n \in T
  <2> HIDE DEF T
  <2> QED BY <1>1, <1>4, <1>5, IntervalInduction
<1>7. f[L] = h[L]
  BY <1>1, <1>6
<1>8. h[L + 1] = Handle(h[L], x)
  <2>1. L + 1 \in 1..Len(ys) /\ (L + 1) - 1 = L
    BY <1>1
  <2> QED BY <1>1, <1>3, <2>1 DEF Follows
<1> QED BY <1>1, <1>2, <1>3, <1>7, <1>8 DEF ys

\* An event that does not end a line is applied.
LEMMA HandledView ==
    ASSUME NEW v, NEW o, NEW c, NEW a, NEW w, NEW x, IsApplier(Apply(a, x).applier)
    PROVE  \E d, b, u :
              /\ Handle(Line(v, o, c, a, w), x) = Line(v, o, d, b, u)
              /\ u = "ok" => w = "ok" /\ Apply(a, x).ok /\ SameView(b, Apply(a, x).applier)
<1> DEFINE d == C!Verify(c, x)
           r == Apply(a, x)
<1>1. CASE w # "ok"
  <2>1. Handle(Line(v, o, c, a, w), x) = Line(v, o, c, a, w)
    BY <1>1 DEF Handle, Line
  <2> QED BY <1>1, <2>1
<1>2. [Line(v, o, c, a, w) EXCEPT !.client = C!Verify(@, x)] = Line(v, o, d, a, w)
  BY DEF Line
<1>3. ASSUME NEW e, NEW b, NEW cause
      PROVE  Fail(Line(v, o, e, b, "ok"), cause) = Line(v, o, e, AbortSubagents(b), cause)
  <2> DEFINE line == [Line(v, o, e, b, "ok") EXCEPT !.verdict = cause]
  <2>1. line = Line(v, o, e, b, cause)
    BY DEF Line
  <2>2. Fail(Line(v, o, e, b, "ok"), cause) = [line EXCEPT !.applier = AbortSubagents(@)]
    BY Zenon DEF Fail
  <2> HIDE DEF line
  <2> QED BY <2>1, <2>2 DEF Line
<1>4. CASE w = "ok" /\ ~C!Accepts(c, x)
  <2>1. Handle(Line(v, o, c, a, w), x) = Fail([Line(v, o, c, a, w) EXCEPT !.client = C!Verify(@, x)], "refused")
    BY <1>4 DEF Handle, Line
  <2>2. Handle(Line(v, o, c, a, w), x) = Line(v, o, d, AbortSubagents(a), "refused")
    BY <1>2, <1>3, <1>4, <2>1
  <2> QED BY <2>2
<1>5. CASE w = "ok" /\ C!Accepts(c, x)
  <2>1. Handle(Line(v, o, c, a, w), x) = Folded(Line(v, o, d, a, w), x, r)
    BY <1>2, <1>5 DEF Handle, Line
  <2> HIDE DEF d
  <2>2. [Line(v, o, d, a, w) EXCEPT !.applier = r.applier] = Line(v, o, d, r.applier, w)
    BY DEF Line
  <2>3. CASE ~r.ok
    <3>1. Folded(Line(v, o, d, a, w), x, r) = Fail(Line(v, o, d, r.applier, w), "unapplied")
      BY <2>2, <2>3 DEF Folded
    <3>2. Fail(Line(v, o, d, r.applier, w), "unapplied") = Line(v, o, d, AbortSubagents(r.applier), "unapplied")
      BY <1>3, <1>5
    <3> HIDE DEF r
    <3> QED BY <2>1, <3>1, <3>2
  <2>4. CASE r.ok
    <3>1. Folded(Line(v, o, d, a, w), x, r) = Terminated(Line(v, o, d, r.applier, w), x)
      BY <2>2, <2>4 DEF Folded
    <3>2. PICK b : b = IF x.type = "RUN_ERROR" THEN AbortSubagents(r.applier) ELSE r.applier
      OBVIOUS
    <3>3. Terminated(Line(v, o, d, r.applier, w), x) = Line(v, o, d, b, w)
      BY <3>2 DEF Terminated, Line
    <3>4. SameView(b, r.applier)
      <4>1. IsApplier(r.applier)
        OBVIOUS
      <4>2. SameView(r.applier, r.applier)
        BY <4>1 DEF SameView
      <4> QED BY <3>2, <4>1, <4>2, AbortedView
    <3>5. Handle(Line(v, o, c, a, w), x) = Line(v, o, d, b, w) /\ w = "ok" /\ r.ok /\ SameView(b, r.applier)
      BY <1>5, <2>1, <2>4, <3>1, <3>3, <3>4
    <3> QED BY <3>5
  <2> QED BY <2>3, <2>4
<1> QED BY <1>1, <1>4, <1>5

\* ENDs leave what is held.
LEMMA EndsView ==
    ASSUME NEW v, NEW o, NEW c, NEW a, IsApplier(a), a.messages \in Seq(Msg), NEW xs \in Seq(Ends)
    PROVE  \E d, b, u : /\ Handled(Line(v, o, c, a, "ok"), xs) = Line(v, o, d, b, u)
                        /\ u = "ok" => SameView(b, a)
<1>0. xs \in Seq(Heard) /\ Len(xs) \in Nat /\ \A n \in 1..Len(xs) : xs[n] \in Heard /\ xs[n].type = "END"
  BY DEF Ends
<1>1. PICK f : Follows(f, Line(v, o, c, a, "ok"), xs) /\ Handled(Line(v, o, c, a, "ok"), xs) = f[Len(xs)]
  BY <1>0, HandledWalks
<1> DEFINE Good(line) == \E d, b, u : line = Line(v, o, d, b, u) /\ (u = "ok" => SameView(b, a))
           T == {n \in 0..Len(xs) : Good(f[n])}
<1>2. 0 \in T
  <2>1. f[0] = Line(v, o, c, a, "ok") /\ SameView(a, a)
    BY <1>1 DEF Follows, SameView
  <2>2. Good(f[0])
    BY <2>1
  <2> QED BY <1>0, <2>2
<1>3. ASSUME NEW n \in 1..Len(xs), n - 1 \in T
      PROVE  n \in T
  <2>1. PICK d, b, u : f[n - 1] = Line(v, o, d, b, u) /\ (u = "ok" => SameView(b, a))
    BY <1>3
  <2>2. PICK x : x = xs[n] /\ x \in Heard /\ x.type = "END"
    BY <1>0
  <2>3. f[n] = Handle(Line(v, o, d, b, u), x)
    BY <1>1, <2>1, <2>2 DEF Follows
  <2>4. CASE u # "ok"
    <3>1. f[n] = Line(v, o, d, b, u)
      BY <2>3, <2>4 DEF Handle, Line
    <3>2. Good(f[n])
      BY <2>4, <3>1
    <3> QED BY <1>0, <3>2
  <2>5. CASE u = "ok"
    <3>1. SameView(b, a) /\ SameView(b, b) /\ WellFormed(x) /\ x.type # "CHUNK"
      BY <2>1, <2>2, <2>5, HeardIsWellFormed DEF SameView
    <3>2. SameView(Apply(b, x).applier, b)
      BY <2>2, <3>1, SameApplied
    <3>3. IsApplier(Apply(b, x).applier)
      BY <3>2 DEF SameView
    <3>4. PICK e, h, q : Handle(Line(v, o, d, b, u), x) = Line(v, o, e, h, q) /\ (q = "ok" => SameView(h, Apply(b, x).applier))
      BY <3>3, HandledView
    <3>5. q = "ok" => SameView(h, a)
      BY <3>1, <3>2, <3>4 DEF SameView
    <3>6. Good(f[n])
      BY <2>3, <3>4, <3>5
    <3> QED BY <1>0, <3>6
  <2> QED BY <2>4, <2>5
<1>4. \A n \in 0..Len(xs) : n \in T
  <2> HIDE DEF T
  <2> QED BY <1>0, <1>2, <1>3, IntervalInduction
<1>5. Len(xs) \in T
  <2>1. Len(xs) \in 0..Len(xs)
    BY <1>0
  <2> QED BY <1>4, <2>1
<1> QED BY <1>1, <1>5

\* After ENDs, an event changes what is held as if it came alone.
LEMMA LastView ==
    ASSUME NEW v, NEW o, NEW c, NEW a, IsApplier(a), a.messages \in Seq(Msg), NEW xs \in Seq(Ends),
           NEW x \in Heard, x.type # "CHUNK"
    PROVE  \E d, b, u : /\ Handled(Line(v, o, c, a, "ok"), Append(xs, x)) = Line(v, o, d, b, u)
                        /\ u = "ok" => Apply(a, x).ok /\ SameView(b, Apply(a, x).applier)
<1>0. PICK y : y = Handled(Line(v, o, c, a, "ok"), xs)
  OBVIOUS
<1>1. PICK d, b, u : y = Line(v, o, d, b, u) /\ (u = "ok" => SameView(b, a))
  BY <1>0, EndsView
<1>2. xs \in Seq(Heard) /\ WellFormed(x)
  BY HeardIsWellFormed DEF Ends
<1>3. Handled(Line(v, o, c, a, "ok"), Append(xs, x)) = Handle(Line(v, o, d, b, u), x)
  BY <1>0, <1>1, <1>2, HandledMore
<1>4. CASE u # "ok"
  <2>1. Handle(Line(v, o, d, b, u), x) = Line(v, o, d, b, u)
    BY <1>4 DEF Handle, Line
  <2> QED BY <1>3, <1>4, <2>1
<1>5. CASE u = "ok"
  <2>1. SameView(b, a) /\ SameView(a, b) /\ b.messages \in Seq(Msg)
    BY <1>1, <1>5 DEF SameView
  <2>2. Apply(b, x).ok = Apply(a, x).ok /\ SameView(Apply(b, x).applier, Apply(a, x).applier)
    BY <1>2, <2>1, SameApplied
  <2>3. IsApplier(Apply(b, x).applier)
    BY <2>2 DEF SameView
  <2>4. PICK e, h, q : /\ Handle(Line(v, o, d, b, u), x) = Line(v, o, e, h, q)
                       /\ q = "ok" => Apply(b, x).ok /\ SameView(h, Apply(b, x).applier)
    BY <2>3, HandledView
  <2>5. q = "ok" => Apply(a, x).ok /\ SameView(h, Apply(a, x).applier)
    BY <2>2, <2>4 DEF SameView
  <2> QED BY <1>3, <2>4, <2>5
<1> QED BY <1>4, <1>5

\* And two of them, a START and the content after it.
LEMMA LastTwoView ==
    ASSUME NEW v, NEW o, NEW c, NEW a, IsApplier(a), a.messages \in Seq(Msg), NEW xs \in Seq(Ends),
           NEW x \in Heard, x.type = "START", NEW y \in Heard, y.type = "CONTENT",
           NEW p, p = Apply(a, x)
    PROVE  \E d, b, u : /\ Handled(Line(v, o, c, a, "ok"), xs \o <<x, y>>) = Line(v, o, d, b, u)
                        /\ u = "ok" => Apply(p.applier, y).ok /\ SameView(b, Apply(p.applier, y).applier)
<1>0. xs \o <<x, y>> = Append(Append(xs, x), y) /\ Append(xs, x) \in Seq(Heard)
  BY DEF Ends
<1>1. WellFormed(x) /\ WellFormed(y) /\ SameView(a, a)
  BY HeardIsWellFormed DEF SameView
<1>2. IsApplier(p.applier)
  <2>1. SameView(Apply(a, x).applier, Apply(a, x).applier)
    BY <1>1, SameApplied
  <2> QED BY <2>1 DEF SameView
<1>3. PICK h : h = Handled(Line(v, o, c, a, "ok"), Append(xs, x))
  OBVIOUS
<1>4. PICK d, b, u : h = Line(v, o, d, b, u) /\ (u = "ok" => SameView(b, p.applier))
  <2>1. x.type # "CHUNK"
    OBVIOUS
  <2> QED BY <1>3, <2>1, LastView
<1>5. Handled(Line(v, o, c, a, "ok"), xs \o <<x, y>>) = Handle(Line(v, o, d, b, u), y)
  <2>1. PICK line, ys : line = Line(v, o, c, a, "ok") /\ ys = Append(xs, x)
    OBVIOUS
  <2>2. ys \in Seq(Heard)
    BY <1>0, <2>1
  <2>3. Handled(line, Append(ys, y)) = Handle(Handled(line, ys), y)
    BY <2>2, HandledMore
  <2> QED BY <1>0, <1>3, <1>4, <2>1, <2>3
<1>6. CASE u # "ok"
  <2>1. Handle(Line(v, o, d, b, u), y) = Line(v, o, d, b, u)
    BY <1>6 DEF Handle, Line
  <2> QED BY <1>5, <1>6, <2>1
<1>7. CASE u = "ok"
  <2>1. PICK q : q = p.applier /\ SameView(b, q)
    BY <1>4, <1>7
  <2>2. Apply(b, y).ok = Apply(q, y).ok /\ SameView(Apply(b, y).applier, Apply(q, y).applier)
    BY <1>1, <2>1, SameApplied
  <2>3. IsApplier(Apply(b, y).applier)
    BY <2>2 DEF SameView
  <2>4. PICK z : z = Handle(Line(v, o, d, b, u), y)
    OBVIOUS
  <2>5. PICK e, m, w : /\ z = Line(v, o, e, m, w)
                       /\ w = "ok" => Apply(b, y).ok /\ SameView(m, Apply(b, y).applier)
    BY <2>3, <2>4, HandledView
  <2>6. w = "ok" => Apply(q, y).ok /\ SameView(m, Apply(q, y).applier)
    BY <2>2, <2>5 DEF SameView
  <2> QED BY <1>5, <2>1, <2>4, <2>5, <2>6
<1> QED BY <1>6, <1>7

-----------------------------------------------------------------------------
(* What the consumer of the whole line holds after an event *)

\* The line of an event that is sent and taken.
LEMMA TakenLine ==
    ASSUME verdict = "ok", NEW e, S!Accepts(server, e), Becomes(Send(Whole, e)), verdict' = "ok",
           NEW v, v = S!Fold(server, e), NEW r, r = Ingest(e), NEW d, NEW b, NEW u,
           Handled(Line(v, r.open, client, applier, "ok"), r.out) = Line(v, r.open, d, b, u)
    PROVE  u = "ok" /\ r.ok /\ applier' = b
<1>1. Send(Whole, e) = Settled(Line(v, r.open, d, b, u), r)
  BY SentOn
<1>2. Send(Whole, e).verdict = "ok" /\ applier' = Send(Whole, e).applier
  BY DEF Becomes
<1>3. CASE ~r.ok /\ u = "ok"
  <2> DEFINE line == [Line(v, r.open, d, b, u) EXCEPT !.verdict = "unresolved"]
  <2>1. Settled(Line(v, r.open, d, b, u), r) = Fail(Line(v, r.open, d, b, u), "unresolved")
    BY <1>3 DEF Settled, Line
  <2>2. line = Line(v, r.open, d, b, "unresolved")
    BY DEF Line
  <2>3. Fail(Line(v, r.open, d, b, u), "unresolved") = [line EXCEPT !.applier = AbortSubagents(@)]
    BY Zenon DEF Fail
  <2> HIDE DEF line
  <2>4. Fail(Line(v, r.open, d, b, u), "unresolved").verdict = "unresolved"
    BY <2>2, <2>3 DEF Line
  <2> QED BY <1>1, <1>2, <2>1, <2>4
<1>4. CASE r.ok \/ u # "ok"
  <2>1. Send(Whole, e) = Line(v, r.open, d, b, u)
    BY <1>1, <1>4 DEF Settled, Line
  <2> QED BY <1>2, <1>4, <2>1 DEF Line
<1> QED BY <1>3, <1>4

\* An event that is no chunk changes it as it changes any applier that holds the same.
LEMMA ExplicitView ==
    ASSUME NEW e, Ready(agent, server, streams, client, e), e.type # "CHUNK",
           verdict = "ok", Becomes(Send(Whole, e)), verdict' = "ok",
           applier.messages \in Seq(Msg), NEW a, SameView(a, applier)
    PROVE  Apply(a, e).ok /\ SameView(Apply(a, e).applier, applier')
<1>1. e \in Heard /\ WellFormed(e) /\ streams \in Seq(N!Stream) /\ S!Accepts(server, e)
  BY ReadyFacts DEF Ready
<1>2. PICK xs \in Seq(Ends) : Ingest(e).out = Append(xs, e)
  BY <1>1, ExplicitOut
<1>3. PICK v, r : v = S!Fold(server, e) /\ r = Ingest(e)
  OBVIOUS
<1>4. PICK h : h = Handled(Line(v, r.open, client, applier, "ok"), Append(xs, e))
  OBVIOUS
<1>5. IsApplier(applier) /\ SameView(applier, a)
  BY DEF SameView
<1>6. PICK d, b, u : /\ h = Line(v, r.open, d, b, u)
                     /\ u = "ok" => Apply(applier, e).ok /\ SameView(b, Apply(applier, e).applier)
  BY <1>1, <1>4, <1>5, LastView
<1>7. u = "ok" /\ applier' = b
  BY <1>1, <1>2, <1>3, <1>4, <1>6, TakenLine
<1>8. Apply(applier, e).ok = Apply(a, e).ok /\ SameView(Apply(applier, e).applier, Apply(a, e).applier)
  BY <1>1, <1>5, SameApplied
<1> QED BY <1>6, <1>7, <1>8 DEF SameView

-----------------------------------------------------------------------------
(* A chunk, and the START and content made of it *)

\* A fresh entry of a list is the one found by its id.
LEMMA AtFresh ==
    ASSUME NEW list \in Seq(Msg), NEW m \in Msg, At(list, m.id) = 0
    PROVE  At(Append(list, m), m.id) = Len(list) + 1
<1> DEFINE more == Append(list, m)
<1>1. /\ more \in Seq(Msg) /\ more[Len(list) + 1] = m /\ Len(list) + 1 \in DOMAIN more
      /\ \A n \in DOMAIN more : n = Len(list) + 1 \/ (n \in DOMAIN list /\ more[n] = list[n])
  OBVIOUS
<1> HIDE DEF more
<1>2. At(more, m.id) \in DOMAIN more /\ more[At(more, m.id)].id = m.id
  BY <1>1, AtFacts DEF Holds
<1>3. \A n \in DOMAIN list : list[n].id # m.id
  BY AtFacts DEF Holds
<1>4. At(more, m.id) = Len(list) + 1
  BY <1>1, <1>2, <1>3
<1> QED BY <1>4 DEF more

\* Content that names no message goes to the one it opens.
LEMMA TextOpens ==
    ASSUME NEW b, IsApplier(b), b.messages \in Seq(Msg), NEW i \in Ids, NEW g \in Owner, At(b.messages, i) = 0
    PROVE  TextContent(TextStart(b, i, "assistant", g), i, g) = TextContent(b, i, g)
<1>1. PICK m, y, opened : /\ m = Message(i, "assistant", g) /\ y = TextStart(b, i, "assistant", g)
                          /\ opened = [b EXCEPT !.openText = Reopened(b.openText, i, g)]
  OBVIOUS
<1>2. View(opened, b.messages, b.carrier, b.reasoning)
  BY <1>1, ApplierFields
<1>3. y = PushMessage(opened, m)
  BY <1>1 DEF TextStart, IsApplier, Fields
<1>4. y.messages = Append(b.messages, m)
  BY <1>2, <1>3 DEF PushMessage, View, IsApplier, Fields
<1>5. m \in Msg /\ m.id = i
  BY <1>1, MessageFacts DEF Roles
<1>6. At(y.messages, i) = Len(b.messages) + 1 /\ Len(b.messages) \in Nat
  BY <1>4, <1>5, AtFresh
<1>7. TextContent(b, i, g) = AppendText(y, Len(b.messages) + 1)
  BY <1>1 DEF TextContent
<1>8. At(y.messages, i) # 0
  BY <1>6
<1>9. TextContent(y, i, g) = AppendText(y, At(y.messages, i))
  BY <1>8 DEF TextContent
<1> QED BY <1>1, <1>6, <1>7, <1>9

\* A thought's content makes its entry if there is none.
LEMMA ThoughtOpens ==
    ASSUME NEW b, IsApplier(b), b.reasoning \in Seq(Msg), NEW i \in Ids, NEW g \in Owner, At(b.reasoning, i) = 0
    PROVE  /\ ReasoningContent(b, i, g) = Think(ReasoningStart(b, i, g), i)
           /\ ReasoningContent(ReasoningStart(b, i, g), i, g) = ReasoningContent(b, i, g)
<1>1. PICK m, y : m = Message(i, "reasoning", g) /\ y = ReasoningStart(b, i, g)
  OBVIOUS
<1>2. m \in Msg /\ m.id = i
  BY <1>1, MessageFacts DEF Roles
<1>3. ReasoningContent(b, i, g) = Think(y, i)
  BY <1>1 DEF ReasoningContent
<1>4. y.reasoning = Append(b.reasoning, m) /\ Len(b.reasoning) \in Nat
  <2>1. PICK q, s, z : q = Append(b.reasoning, m) /\ s = Reopened(b.reasoningStreams, i, g) /\ z = b.openReasoning \cup {i}
    OBVIOUS
  <2>2. y = [b EXCEPT !.reasoningStreams = s, !.reasoning = q, !.openReasoning = z]
    BY <1>1, <2>1 DEF ReasoningStart, IsApplier, Fields
  <2>3. View([b EXCEPT !.reasoningStreams = s, !.reasoning = q, !.openReasoning = z], b.messages, b.carrier, q)
    BY ApplierFields
  <2> QED BY <2>1, <2>2, <2>3 DEF View
<1>5. At(y.reasoning, i) = Len(b.reasoning) + 1
  BY <1>2, <1>4, AtFresh
<1>6. At(y.reasoning, i) # 0
  BY <1>4, <1>5
<1>7. ReasoningContent(y, i, g) = Think(y, i)
  BY <1>6 DEF ReasoningContent
<1> QED BY <1>1, <1>3, <1>7

\* A START before the content that would open the message makes no difference.
LEMMA TextOnce ==
    ASSUME NEW a, NEW b, SameView(a, b), b.messages \in Seq(Msg), NEW i \in Ids, NEW g \in Owner
    PROVE  /\ TextContent(TextStart(a, i, "assistant", g), i, g).ok = TextContent(b, i, g).ok
           /\ SameView(TextContent(TextStart(a, i, "assistant", g), i, g).applier, TextContent(b, i, g).applier)
<1>0. IsApplier(a) /\ IsApplier(b) /\ a.messages = b.messages /\ SameView(b, b)
  BY DEF SameView
<1>1. PICK x, y : x = TextStart(a, i, "assistant", g) /\ y = TextStart(b, i, "assistant", g)
  OBVIOUS
<1>2. SameView(x, y)
  BY <1>1, SameText
<1>3. /\ TextContent(x, i, g).ok = TextContent(y, i, g).ok
      /\ SameView(TextContent(x, i, g).applier, TextContent(y, i, g).applier)
  BY <1>2, SameText
<1>4. PICK m, opened : m = Message(i, "assistant", g) /\ opened = [b EXCEPT !.openText = Reopened(b.openText, i, g)]
  OBVIOUS
<1>5. View(opened, b.messages, b.carrier, b.reasoning)
  BY <1>0, <1>4, ApplierFields
<1>6. SameView(opened, b)
  BY <1>0, <1>5 DEF View, SameView
<1>7. y = IF At(b.messages, i) # 0 THEN opened ELSE PushMessage(opened, m)
  BY <1>0, <1>1, <1>4 DEF TextStart, IsApplier, Fields
<1>8. ASSUME At(b.messages, i) # 0
      PROVE  /\ TextContent(y, i, g).ok = TextContent(b, i, g).ok
             /\ SameView(TextContent(y, i, g).applier, TextContent(b, i, g).applier)
  <2>1. SameView(y, b)
    BY <1>6, <1>7, <1>8
  <2> QED BY <2>1, SameText
<1>9. ASSUME At(b.messages, i) = 0
      PROVE  TextContent(y, i, g) = TextContent(b, i, g)
  BY <1>0, <1>1, <1>9, TextOpens
<1>10. /\ TextContent(y, i, g).ok = TextContent(b, i, g).ok
       /\ SameView(TextContent(x, i, g).applier, TextContent(b, i, g).applier)
  <2>1. CASE At(b.messages, i) # 0
    BY <1>3, <1>8, <2>1 DEF SameView
  <2>2. CASE At(b.messages, i) = 0
    BY <1>3, <1>9, <2>2
  <2> QED BY <2>1, <2>2
<1> QED BY <1>1, <1>3, <1>10

\* So content finds the same thought, begun just before or not.
LEMMA ThoughtOnce ==
    ASSUME NEW a, NEW b, SameView(a, b), b.reasoning \in Seq(Msg), NEW i \in Ids, NEW g \in Owner
    PROVE  SameView(ReasoningContent(ReasoningStart(a, i, g), i, g), ReasoningContent(b, i, g))
<1>0. IsApplier(a) /\ IsApplier(b) /\ a.reasoning = b.reasoning /\ SameView(b, b)
  BY DEF SameView
<1>1. PICK x, y : x = ReasoningStart(a, i, g) /\ y = ReasoningStart(b, i, g)
  OBVIOUS
<1>2. SameView(ReasoningContent(x, i, g), ReasoningContent(y, i, g))
  <2>1. SameView(x, y)
    BY <1>1, SameThoughts
  <2> QED BY <2>1, SameThoughts
<1>3. PICK m : m = Message(i, "reasoning", g)
  OBVIOUS
<1> DEFINE q == IF At(b.reasoning, i) # 0 THEN b.reasoning ELSE Append(b.reasoning, m)
<1>4. View(y, b.messages, b.carrier, q)
  <2> DEFINE s == Reopened(b.reasoningStreams, i, g)
             z == b.openReasoning \cup {i}
  <2>1. y = [b EXCEPT !.reasoningStreams = s, !.reasoning = q, !.openReasoning = z]
    BY <1>0, <1>1, <1>3 DEF ReasoningStart, IsApplier, Fields
  <2> HIDE DEF s, z, q
  <2> QED BY <1>0, <2>1, ApplierFields
<1>5. ASSUME At(b.reasoning, i) # 0
      PROVE  SameView(ReasoningContent(y, i, g), ReasoningContent(b, i, g))
  <2>1. SameView(y, b)
    BY <1>0, <1>4, <1>5 DEF View, SameView
  <2> QED BY <2>1, SameThoughts
<1>6. ASSUME At(b.reasoning, i) = 0
      PROVE  ReasoningContent(y, i, g) = ReasoningContent(b, i, g)
  BY <1>0, <1>1, <1>6, ThoughtOpens
<1>7. SameView(ReasoningContent(x, i, g), ReasoningContent(b, i, g))
  <2>1. CASE At(b.reasoning, i) # 0
    BY <1>2, <1>5, <2>1 DEF SameView
  <2>2. CASE At(b.reasoning, i) = 0
    BY <1>2, <1>6, <2>2
  <2> QED BY <2>1, <2>2
<1> QED BY <1>1, <1>7

\* A call that is announced again by the message that carries it stays as it is.
LEMMA CallOnce ==
    ASSUME NEW a, IsApplier(a), a.messages \in Seq(Msg), Distinct(a.messages), a.carrier \in [Ids -> Nat],
           NEW c \in Ids, a.carrier[c] \in DOMAIN a.messages, a.messages[a.carrier[c]].role = "assistant",
           Carries(a.messages[a.carrier[c]], c), NEW g
    PROVE  ToolCallStart(a, c, a.messages[a.carrier[c]].id, g) = a
<1> DEFINE n == a.carrier[c]
           p == a.messages[n].id
<1>1. At(a.messages, p) = n
  <2>1. Holds(a.messages, p)
    BY DEF Holds
  <2>2. At(a.messages, p) \in DOMAIN a.messages /\ a.messages[At(a.messages, p)].id = p
    BY <2>1, AtFacts
  <2> QED BY <2>2 DEF Distinct
<1>2. n # 0
  OBVIOUS
<1>3. ToolCallStart(a, c, p, g) = HangCall(a, n, c)
  <2> HIDE DEF n, p
  <2> QED BY <1>1, <1>2 DEF ToolCallStart
<1>4. HangCall(a, n, c) = [a EXCEPT !.messages = [a.messages EXCEPT ![n] = [@ EXCEPT !.calls = a.messages[n].calls]],
                                    !.carrier = [a.carrier EXCEPT ![c] = n]]
  BY DEF HangCall, IsApplier, Fields
<1>5. [a.carrier EXCEPT ![c] = n] = a.carrier
  OBVIOUS
<1>6. [a.messages[n] EXCEPT !.calls = a.messages[n].calls] = a.messages[n]
  <2>1. a.messages[n] \in Msg
    OBVIOUS
  <2> QED BY <2>1 DEF Msg, MessageRecord
<1>7. [a.messages EXCEPT ![n] = [@ EXCEPT !.calls = a.messages[n].calls]] = a.messages
  <2> DEFINE m == [a.messages[n] EXCEPT !.calls = a.messages[n].calls]
  <2>1. [a.messages EXCEPT ![n] = m] = a.messages
    BY <1>6
  <2> QED BY <2>1
<1>8. [a EXCEPT !.messages = a.messages, !.carrier = a.carrier] = a
  BY DEF IsApplier, Fields
<1> QED BY <1>3, <1>4, <1>5, <1>7, <1>8

\* A message is written again: nothing changes.
LEMMA WrittenStays ==
    ASSUME NEW a, IsApplier(a)
    PROVE  /\ a.messages \in Seq(Msg) =>
                 \A n \in DOMAIN a.messages : a.messages[n].written => AppendText(a, n).applier = a
           /\ \A i : /\ a.reasoning \in Seq(Msg) /\ At(a.reasoning, i) # 0
                     /\ a.reasoning[At(a.reasoning, i)].written
                     => Think(a, i) = a
<1>1. ASSUME NEW list \in Seq(Msg), NEW n \in DOMAIN list, list[n].written
      PROVE  [list EXCEPT ![n] = [@ EXCEPT !.written = TRUE]] = list
  <2>1. list[n] \in Msg
    OBVIOUS
  <2>2. list[n].written = TRUE
    BY <1>1, <2>1 DEF Msg, MessageRecord
  <2>3. [list[n] EXCEPT !.written = TRUE] = list[n]
    BY <2>1, <2>2 DEF Msg, MessageRecord
  <2> QED BY <2>3
<1>2. ASSUME a.messages \in Seq(Msg), NEW n \in DOMAIN a.messages, a.messages[n].written
      PROVE  AppendText(a, n).applier = a
  <2>1. PICK after : after = [a.messages EXCEPT ![n] = [@ EXCEPT !.written = TRUE]]
    OBVIOUS
  <2>2. after = a.messages
    BY <1>1, <1>2, <2>1
  <2>3. AppendText(a, n) = IF a.messages[n].role = "activity" THEN Failed(a) ELSE Applied([a EXCEPT !.messages = after])
    BY <2>1 DEF AppendText, IsApplier, Fields
  <2>4. [a EXCEPT !.messages = a.messages] = a
    BY DEF IsApplier, Fields
  <2> QED BY <2>2, <2>3, <2>4 DEF Applied, Failed
<1>3. ASSUME NEW i, a.reasoning \in Seq(Msg), At(a.reasoning, i) # 0, a.reasoning[At(a.reasoning, i)].written
      PROVE  Think(a, i) = a
  <2>1. PICK n, after : n = At(a.reasoning, i) /\ after = [a.reasoning EXCEPT ![n] = [@ EXCEPT !.written = TRUE]]
    OBVIOUS
  <2>2. n \in DOMAIN a.reasoning
    BY <1>3, <2>1, AtFacts
  <2>3. after = a.reasoning
    BY <1>1, <1>3, <2>1, <2>2
  <2>4. Think(a, i) = [a EXCEPT !.reasoning = after]
    BY <2>1 DEF Think, IsApplier, Fields
  <2>5. [a EXCEPT !.reasoning = a.reasoning] = a
    BY DEF IsApplier, Fields
  <2> QED BY <2>3, <2>4, <2>5
<1> QED BY <1>2, <1>3

\* The START and content made of a first chunk, against the chunk itself.
LEMMA OpenedView ==
    ASSUME NEW s, NEW owner, NEW a, NEW b, SameView(a, b), Conversation(s, owner, b.messages, b.carrier),
           b.reasoning \in Seq(Msg), NEW e, WellFormed(e), Named(e), Apply(a, e).ok,
           e.kind = "tool" /\ b.carrier[e.id] # 0 => b.messages[b.carrier[e.id]].id = CarrierId(e.id, e.parent),
           NEW x, x = Opening(e.kind, e.id, e.tag, e.parent), NEW y, y = Content(e.kind, e.id, e.tag)
    PROVE  SameView(Apply(a, e).applier, Apply(Apply(b, x).applier, y).applier)
<1>0. /\ e.type = "CHUNK" /\ e.id \in Ids /\ e.id # None /\ e.tag \in Owner /\ e.kind \in {"text", "tool", "reasoning"}
      /\ IsApplier(b) /\ SameView(b, b) /\ b.messages \in Seq(Msg)
  BY Vocabulary DEF WellFormed, Named, SameView, Conversation
<1>1. /\ x.type = "START" /\ x.kind = e.kind /\ x.id = e.id /\ x.tag = e.tag /\ x.parent = e.parent
      /\ RoleOf(x) = "assistant" /\ y.type = "CONTENT" /\ y.kind = e.kind /\ y.id = e.id /\ y.tag = e.tag
  BY DEF Opening, Content, RoleOf
<1>2. PICK i, g : i = e.id /\ g = e.tag
  OBVIOUS
<1>3. CASE e.kind = "text"
  <2>1. Apply(b, x).applier = TextStart(b, i, "assistant", g)
    BY <1>1, <1>2, <1>3 DEF Apply, ApplyStream, Applied
  <2>2. PICK p : p = Apply(b, x).applier
    OBVIOUS
  <2>3. Apply(p, y) = TextContent(p, i, g)
    BY <1>1, <1>2, <1>3 DEF Apply, ApplyStream
  <2>4. SameView(Apply(p, y).applier, TextContent(b, i, g).applier)
    BY <1>0, <1>2, <2>1, <2>2, <2>3, TextOnce
  <2>5. Apply(a, e) = TextChunk(a, i, g)
    BY <1>0, <1>2, <1>3 DEF Apply, ApplyChunk
  <2>6. \/ Apply(a, e) = TextContent(a, i, g)
        \/ Apply(a, e) = TextContent(TextStart(a, i, "assistant", g), i, g)
    BY <1>0, <1>2, <2>5 DEF TextChunk
  <2>7. SameView(TextContent(a, i, g).applier, TextContent(b, i, g).applier)
    BY SameText
  <2>8. SameView(TextContent(TextStart(a, i, "assistant", g), i, g).applier, TextContent(b, i, g).applier)
    BY <1>0, <1>2, TextOnce
  <2>9. SameView(Apply(a, e).applier, TextContent(b, i, g).applier)
    BY <2>6, <2>7, <2>8
  <2> QED BY <2>2, <2>4, <2>9 DEF SameView
<1>4. CASE e.kind = "reasoning"
  <2>1. Apply(b, x).applier = ReasoningStart(b, i, g)
    BY <1>1, <1>2, <1>4 DEF Apply, ApplyStream, Applied
  <2>2. PICK p : p = Apply(b, x).applier
    OBVIOUS
  <2>3. Apply(p, y).applier = ReasoningContent(p, i, g)
    BY <1>1, <1>2, <1>4 DEF Apply, ApplyStream, Applied
  <2>4. SameView(Apply(p, y).applier, ReasoningContent(b, i, g))
    BY <1>0, <1>2, <2>1, <2>2, <2>3, ThoughtOnce
  <2>5. Apply(a, e) = ReasoningChunk(a, i, g)
    BY <1>0, <1>2, <1>4 DEF Apply, ApplyChunk
  <2>6. \/ Apply(a, e).applier = ReasoningContent(a, i, g)
        \/ Apply(a, e).applier = ReasoningContent(ReasoningStart(a, i, g), i, g)
    BY <1>0, <1>2, <2>5 DEF ReasoningChunk, Applied
  <2>7. SameView(ReasoningContent(a, i, g), ReasoningContent(b, i, g))
    BY SameThoughts
  <2>8. SameView(ReasoningContent(ReasoningStart(a, i, g), i, g), ReasoningContent(b, i, g))
    BY <1>0, <1>2, ThoughtOnce
  <2>9. SameView(Apply(a, e).applier, ReasoningContent(b, i, g))
    BY <2>6, <2>7, <2>8
  <2> QED BY <2>2, <2>4, <2>9 DEF SameView
<1>5. CASE e.kind = "tool"
  <2>0. PICK c : c = CarrierId(e.id, e.parent)
    OBVIOUS
  <2>1. Apply(b, x).applier = ToolCallStart(b, i, c, g)
    BY <1>1, <1>2, <1>5, <2>0 DEF Apply, ApplyStream, Applied
  <2>2. PICK p : p = Apply(b, x).applier
    OBVIOUS
  <2>3. Apply(p, y) = ToolCallArgs(p, i)
    BY <1>1, <1>2, <1>5 DEF Apply, ApplyStream
  <2>4. Apply(a, e) = ToolCallChunk(a, e) /\ a.carrier = b.carrier
    BY <1>0, <1>5 DEF Apply, ApplyChunk, SameView
  <2>5. CASE b.carrier[i] # 0
    <3>1. Apply(a, e) = ToolCallArgs(a, i)
      BY <1>0, <1>2, <2>4, <2>5 DEF ToolCallChunk
    <3>2. /\ b.carrier \in [Ids -> Nat] /\ Distinct(b.messages) /\ b.carrier[i] \in DOMAIN b.messages
          /\ Carries(b.messages[b.carrier[i]], i) /\ Placed(s, owner, b.messages[b.carrier[i]])
      BY <1>0, <1>2, <2>5 DEF Conversation
    <3>3. b.messages[b.carrier[i]].role = "assistant"
      <4>1. b.messages[b.carrier[i]].calls # <<>>
        <5>1. DOMAIN <<>> = {}
          OBVIOUS
        <5> QED BY <3>2, <5>1 DEF Carries
      <4> QED BY <3>2, <4>1 DEF Placed
    <3>4. ToolCallStart(b, i, b.messages[b.carrier[i]].id, g) = b
      BY <1>0, <1>2, <3>2, <3>3, CallOnce
    <3>5. p = b
      BY <1>2, <1>5, <2>0, <2>1, <2>2, <2>5, <3>4
    <3>6. SameView(ToolCallArgs(a, i).applier, ToolCallArgs(b, i).applier)
      BY SameCalls
    <3> QED BY <2>2, <2>3, <3>1, <3>5, <3>6
  <2>6. CASE b.carrier[i] = 0
    <3>1. Apply(a, e) = IF e.named THEN ToolCallArgs(ToolCallStart(a, i, c, g), i) ELSE Failed(a)
      BY <1>0, <1>2, <2>0, <2>4, <2>6 DEF ToolCallChunk
    <3>2. Apply(a, e) = ToolCallArgs(ToolCallStart(a, i, c, g), i)
      BY <3>1 DEF Failed
    <3>3. PICK q : q = ToolCallStart(a, i, c, g)
      OBVIOUS
    <3>4. SameView(q, p)
      BY <2>1, <2>2, <3>3, SameCalls
    <3>5. SameView(ToolCallArgs(q, i).applier, ToolCallArgs(p, i).applier)
      BY <3>4, SameCalls
    <3> QED BY <2>2, <2>3, <3>2, <3>3, <3>5
  <2> QED BY <2>5, <2>6
<1> QED BY <1>0, <1>3, <1>4, <1>5

\* The content made of a later chunk, against the chunk itself.
LEMMA GoneOnView ==
    ASSUME NEW a, NEW b, SameView(a, b), b.messages \in Seq(Msg), b.reasoning \in Seq(Msg),
           NEW e, WellFormed(e), Named(e), Apply(a, e).ok,
           e.kind = "text" => Holds(b.messages, e.id),
           e.kind = "tool" => b.carrier[e.id] # 0,
           e.kind = "reasoning" => Holds(b.reasoning, e.id),
           NEW g, NEW y, y = Content(e.kind, e.id, g)
    PROVE  SameView(Apply(a, e).applier, Apply(b, y).applier)
<1>0. /\ e.type = "CHUNK" /\ e.id \in Ids /\ e.id # None /\ e.tag \in Owner /\ e.kind \in {"text", "tool", "reasoning"}
      /\ IsApplier(b) /\ SameView(b, b)
  BY Vocabulary DEF WellFormed, Named, SameView
<1>1. y.type = "CONTENT" /\ y.kind = e.kind /\ y.id = e.id /\ y.tag = g
  BY DEF Content
<1>2. PICK i, h : i = e.id /\ h = e.tag
  OBVIOUS
<1>3. CASE e.kind = "text"
  <2>1. At(b.messages, i) # 0
    BY <1>2, <1>3, AtFacts
  <2>2. Apply(b, y) = TextContent(b, i, h)
    BY <1>1, <1>2, <1>3, <2>1 DEF Apply, ApplyStream, TextContent
  <2>3. \/ Apply(a, e) = TextContent(a, i, h)
        \/ Apply(a, e) = TextContent(TextStart(a, i, "assistant", h), i, h)
    BY <1>0, <1>2, <1>3 DEF Apply, ApplyChunk, TextChunk
  <2>4. SameView(TextContent(a, i, h).applier, TextContent(b, i, h).applier)
    BY SameText
  <2>5. SameView(TextContent(TextStart(a, i, "assistant", h), i, h).applier, TextContent(b, i, h).applier)
    BY <1>0, <1>2, TextOnce
  <2> QED BY <2>2, <2>3, <2>4, <2>5
<1>4. CASE e.kind = "reasoning"
  <2>1. At(b.reasoning, i) # 0
    BY <1>2, <1>4, AtFacts
  <2>2. Apply(b, y).applier = ReasoningContent(b, i, h)
    BY <1>1, <1>2, <1>4, <2>1 DEF Apply, ApplyStream, ReasoningContent, Applied
  <2>3. \/ Apply(a, e).applier = ReasoningContent(a, i, h)
        \/ Apply(a, e).applier = ReasoningContent(ReasoningStart(a, i, h), i, h)
    BY <1>0, <1>2, <1>4 DEF Apply, ApplyChunk, ReasoningChunk, Applied
  <2>4. SameView(ReasoningContent(a, i, h), ReasoningContent(b, i, h))
    BY SameThoughts
  <2>5. SameView(ReasoningContent(ReasoningStart(a, i, h), i, h), ReasoningContent(b, i, h))
    BY <1>0, <1>2, ThoughtOnce
  <2> QED BY <2>2, <2>3, <2>4, <2>5
<1>5. CASE e.kind = "tool"
  <2>1. Apply(b, y) = ToolCallArgs(b, i)
    BY <1>1, <1>2, <1>5 DEF Apply, ApplyStream
  <2>2. a.carrier[i] # 0
    BY <1>2, <1>5 DEF SameView
  <2>3. Apply(a, e) = ToolCallArgs(a, i)
    BY <1>0, <1>2, <1>5, <2>2 DEF Apply, ApplyChunk, ToolCallChunk
  <2>4. SameView(ToolCallArgs(a, i).applier, ToolCallArgs(b, i).applier)
    BY SameCalls
  <2> QED BY <2>1, <2>3, <2>4
<1> QED BY <1>0, <1>3, <1>4, <1>5

-----------------------------------------------------------------------------
(* What one step of an applier changes *)

\* A list that only grew: what it had keeps its place and its id, and is not unwritten.
Grown(list, more, i) ==
    /\ DOMAIN list \subseteq DOMAIN more
    /\ \A n \in DOMAIN list : more[n].id = list[n].id /\ (list[n].written => more[n].written)
    /\ \A n \in DOMAIN more : n \in DOMAIN list \/ more[n].id = i

\* Lists grow step by step.
LEMMA GrownOn ==
    ASSUME NEW list, NEW more, NEW i, Grown(list, more, i), NEW most, Grown(more, most, i)
    PROVE  Grown(list, most, i)
BY DEF Grown

\* A list grows by itself, by an entry, and by an entry's change.
LEMMA GrownOnes ==
    ASSUME NEW list \in Seq(Msg)
    PROVE  /\ \A i : Grown(list, list, i)
           /\ \A m \in Msg : Append(list, m) \in Seq(Msg) /\ Grown(list, Append(list, m), m.id)
           /\ \A i : \A n \in DOMAIN list : \A m \in Msg :
                 m.id = list[n].id /\ (list[n].written => m.written) =>
                    [list EXCEPT ![n] = m] \in Seq(Msg) /\ Grown(list, [list EXCEPT ![n] = m], i)
<1>1. \A i : Grown(list, list, i)
  BY DEF Grown
<1>2. ASSUME NEW m \in Msg
      PROVE  Append(list, m) \in Seq(Msg) /\ Grown(list, Append(list, m), m.id)
  <2> DEFINE more == Append(list, m)
  <2>1. /\ more \in Seq(Msg) /\ more[Len(list) + 1] = m /\ DOMAIN list \subseteq DOMAIN more
        /\ \A n \in DOMAIN list : more[n] = list[n]
        /\ \A n \in DOMAIN more : n = Len(list) + 1 \/ n \in DOMAIN list
    OBVIOUS
  <2> HIDE DEF more
  <2>2. Grown(list, more, m.id)
    BY <2>1 DEF Grown
  <2> QED BY <2>1, <2>2 DEF more
<1>3. ASSUME NEW i, NEW n \in DOMAIN list, NEW m \in Msg,
             m.id = list[n].id, list[n].written => m.written
      PROVE  [list EXCEPT ![n] = m] \in Seq(Msg) /\ Grown(list, [list EXCEPT ![n] = m], i)
  <2> DEFINE more == [list EXCEPT ![n] = m]
  <2>1. /\ more \in Seq(Msg) /\ DOMAIN more = DOMAIN list
        /\ \A k \in DOMAIN list : more[k] = IF k = n THEN m ELSE list[k]
    OBVIOUS
  <2> HIDE DEF more
  <2>2. Grown(list, more, i)
    BY <1>3, <2>1 DEF Grown
  <2> QED BY <2>1, <2>2 DEF more
<1> QED BY <1>1, <1>2, <1>3

\* What an applier holds and has open, field by field.
Looks(b, m, c, o, r, t) ==
    /\ IsApplier(b) /\ b.messages = m /\ b.carrier = c /\ b.openText = o
    /\ b.reasoning = r /\ b.reasoningStreams = t

\* How an applier looks when some of it is set.
LEMMA LooksSet ==
    ASSUME NEW a, IsApplier(a)
    PROVE  /\ \A x : /\ Looks([a EXCEPT !.messages = x], x, a.carrier, a.openText, a.reasoning, a.reasoningStreams)
                     /\ Looks([a EXCEPT !.reasoning = x], a.messages, a.carrier, a.openText, x, a.reasoningStreams)
                     /\ Looks([a EXCEPT !.openText = x], a.messages, a.carrier, x, a.reasoning, a.reasoningStreams)
                     /\ Looks([a EXCEPT !.state = x], a.messages, a.carrier, a.openText, a.reasoning, a.reasoningStreams)
                     /\ Looks([a EXCEPT !.subagents = x], a.messages, a.carrier, a.openText, a.reasoning,
                              a.reasoningStreams)
           /\ \A x, y : /\ Looks([a EXCEPT !.messages = x, !.carrier = y], x, y, a.openText, a.reasoning,
                                 a.reasoningStreams)
                        /\ Looks([a EXCEPT !.reasoningStreams = x, !.openReasoning = y],
                                 a.messages, a.carrier, a.openText, a.reasoning, x)
           /\ \A x, y, z : Looks([a EXCEPT !.reasoningStreams = x, !.reasoning = y, !.openReasoning = z],
                                 a.messages, a.carrier, a.openText, y, x)
<1>1. ASSUME NEW x
      PROVE  /\ Looks([a EXCEPT !.messages = x], x, a.carrier, a.openText, a.reasoning, a.reasoningStreams)
             /\ Looks([a EXCEPT !.reasoning = x], a.messages, a.carrier, a.openText, x, a.reasoningStreams)
             /\ Looks([a EXCEPT !.openText = x], a.messages, a.carrier, x, a.reasoning, a.reasoningStreams)
             /\ Looks([a EXCEPT !.state = x], a.messages, a.carrier, a.openText, a.reasoning, a.reasoningStreams)
             /\ Looks([a EXCEPT !.subagents = x], a.messages, a.carrier, a.openText, a.reasoning, a.reasoningStreams)
  BY DEF Looks, IsApplier, Fields
<1>2. ASSUME NEW x, NEW y
      PROVE  /\ Looks([a EXCEPT !.messages = x, !.carrier = y], x, y, a.openText, a.reasoning, a.reasoningStreams)
             /\ Looks([a EXCEPT !.reasoningStreams = x, !.openReasoning = y],
                      a.messages, a.carrier, a.openText, a.reasoning, x)
  BY DEF Looks, IsApplier, Fields
<1>3. ASSUME NEW x, NEW y, NEW z
      PROVE  Looks([a EXCEPT !.reasoningStreams = x, !.reasoning = y, !.openReasoning = z],
                   a.messages, a.carrier, a.openText, y, x)
  BY DEF Looks, IsApplier, Fields
<1> QED BY <1>1, <1>2, <1>3

\* An applier whose lists are lists of messages.
Sized(a) ==
    /\ IsApplier(a) /\ a.messages \in Seq(Msg) /\ a.reasoning \in Seq(Msg)
    /\ a.carrier \in [Ids -> Nat]

\* The conversation grew by an entry under i at most, and the reasoning by one under j.
Turned(a, b, i, o, j, t) ==
    /\ Sized(b)
    /\ Grown(a.messages, b.messages, i) /\ b.openText = o
    /\ Grown(a.reasoning, b.reasoning, j) /\ b.reasoningStreams = t

\* Steps of that kind follow each other.
LEMMA TurnedOn ==
    ASSUME NEW a, NEW b, NEW i, NEW o, NEW j, NEW t, Turned(a, b, i, o, j, t),
           NEW d, NEW u, NEW v, Turned(b, d, i, u, j, v)
    PROVE  Turned(a, d, i, u, j, v)
BY GrownOn DEF Turned

\* A message more, and nothing else.
LEMMA PushLooks ==
    ASSUME NEW a, IsApplier(a), a.carrier \in [Ids -> Nat], NEW m, m.calls = <<>>
    PROVE  Looks(PushMessage(a, m), Append(a.messages, m), a.carrier, a.openText, a.reasoning, a.reasoningStreams)
<1>1. PICK more, carrier : /\ more = Append(a.messages, m)
                           /\ carrier = [c \in Ids |-> IF Carries(m, c) THEN Len(a.messages) + 1 ELSE a.carrier[c]]
  OBVIOUS
<1>2. PushMessage(a, m) = [a EXCEPT !.messages = more, !.carrier = carrier]
  BY <1>1 DEF PushMessage, IsApplier, Fields
<1>3. carrier = a.carrier
  <2>1. DOMAIN <<>> = {}
    OBVIOUS
  <2>2. \A c : ~Carries(m, c)
    BY <2>1 DEF Carries
  <2> QED BY <1>1, <2>2
<1>4. Looks([a EXCEPT !.messages = more, !.carrier = carrier], more, carrier, a.openText, a.reasoning, a.reasoningStreams)
  BY LooksSet
<1> QED BY <1>1, <1>2, <1>3, <1>4

\* At most one entry has the id; and there is one, that has been written.
One(list, i) == \A m, n \in DOMAIN list : list[m].id = i /\ list[n].id = i => m = n
Told(list, i) ==
    Holds(list, i) /\ One(list, i) /\ \A n \in DOMAIN list : list[n].id = i => list[n].written

\* A message that an id has, or that is made for it.
LEMMA Entered ==
    ASSUME NEW list \in Seq(Msg), NEW m \in Msg, NEW more,
           more = IF At(list, m.id) # 0 THEN list ELSE Append(list, m)
    PROVE  /\ more \in Seq(Msg) /\ Grown(list, more, m.id) /\ Holds(more, m.id)
           /\ One(list, m.id) => One(more, m.id)
<1>1. CASE At(list, m.id) # 0
  BY <1>1, AtFacts, GrownOnes
<1>2. CASE At(list, m.id) = 0
  <2>1. more \in Seq(Msg) /\ Grown(list, more, m.id)
    BY <1>2, GrownOnes
  <2>2. \A n \in DOMAIN list : list[n].id # m.id
    BY <1>2, AtFacts DEF Holds
  <2>3. /\ Len(list) + 1 \in DOMAIN more /\ more[Len(list) + 1] = m
        /\ \A n \in DOMAIN more : n = Len(list) + 1 \/ (n \in DOMAIN list /\ more[n] = list[n])
    BY <1>2
  <2>4. Holds(more, m.id) /\ One(more, m.id)
    BY <2>2, <2>3 DEF Holds, One
  <2> QED BY <2>1, <2>4
<1> QED BY <1>1, <1>2

\* Something of an entry is written.
LEMMA EntryMarked ==
    ASSUME NEW list \in Seq(Msg), NEW i, Holds(list, i), NEW m \in Msg,
           m.id = i, m.written, NEW more, more = [list EXCEPT ![At(list, i)] = m]
    PROVE  more \in Seq(Msg) /\ (\A j : Grown(list, more, j)) /\ (One(list, i) => Told(more, i))
<1>1. PICK n \in DOMAIN list : n = At(list, i) /\ list[n].id = i
  BY AtFacts
<1>2. more \in Seq(Msg) /\ \A j : Grown(list, more, j)
  BY <1>1, GrownOnes
<1>3. DOMAIN more = DOMAIN list /\ \A k \in DOMAIN list : more[k] = IF k = n THEN m ELSE list[k]
  BY <1>1
<1>4. One(list, i) => Told(more, i)
  BY <1>1, <1>3 DEF One, Told, Holds
<1> QED BY <1>2, <1>4

\* What the START of a text and its END change.
LEMMA TextTurns ==
    ASSUME NEW a, Sized(a), NEW i \in Ids, NEW g \in Owner
    PROVE  /\ \A role \in Roles :
                 /\ Turned(a, TextStart(a, i, role, g), i, Reopened(a.openText, i, g), None, a.reasoningStreams)
                 /\ TextStart(a, i, role, g).carrier = a.carrier
                 /\ Holds(TextStart(a, i, role, g).messages, i)
                 /\ One(a.messages, i) => One(TextStart(a, i, role, g).messages, i)
           /\ Turned(a, TextEnd(a, i), None, Without(a.openText, i), None, a.reasoningStreams)
           /\ TextEnd(a, i).carrier = a.carrier
<1>0. /\ IsApplier(a) /\ a.messages \in Seq(Msg) /\ a.reasoning \in Seq(Msg) /\ a.carrier \in [Ids -> Nat]
      /\ Grown(a.reasoning, a.reasoning, None) /\ Grown(a.messages, a.messages, None)
  BY GrownOnes DEF Sized
<1>1. ASSUME NEW role \in Roles, NEW b, b = TextStart(a, i, role, g)
      PROVE  /\ Turned(a, b, i, Reopened(a.openText, i, g), None, a.reasoningStreams)
             /\ b.carrier = a.carrier /\ Holds(b.messages, i)
             /\ One(a.messages, i) => One(b.messages, i)
  <2>1. PICK m, open : m = Message(i, role, g) /\ open = Reopened(a.openText, i, g)
    OBVIOUS
  <2>2. m \in Msg /\ m.id = i /\ m.calls = <<>>
    BY <2>1, MessageFacts
  <2>3. PICK q : q = [a EXCEPT !.openText = open]
    OBVIOUS
  <2>4. Looks(q, a.messages, a.carrier, open, a.reasoning, a.reasoningStreams)
    BY <1>0, <2>3, LooksSet
  <2>5. b = IF At(a.messages, i) # 0 THEN q ELSE PushMessage(q, m)
    BY <1>0, <1>1, <2>1, <2>3 DEF TextStart, IsApplier, Fields
  <2>6. Looks(PushMessage(q, m), Append(a.messages, m), a.carrier, open, a.reasoning, a.reasoningStreams)
    BY <1>0, <2>2, <2>4, PushLooks DEF Looks
  <2>7. PICK more : more = IF At(a.messages, m.id) # 0 THEN a.messages ELSE Append(a.messages, m)
    OBVIOUS
  <2>8. Looks(b, more, a.carrier, open, a.reasoning, a.reasoningStreams)
    BY <2>2, <2>4, <2>5, <2>6, <2>7
  <2>9. /\ more \in Seq(Msg) /\ Grown(a.messages, more, i) /\ Holds(more, i)
        /\ One(a.messages, i) => One(more, i)
    BY <1>0, <2>2, <2>7, Entered
  <2> QED BY <1>0, <2>1, <2>8, <2>9 DEF Looks, Turned, Sized
<1>2. Turned(a, TextEnd(a, i), None, Without(a.openText, i), None, a.reasoningStreams) /\ TextEnd(a, i).carrier = a.carrier
  <2>1. TextEnd(a, i) = [a EXCEPT !.openText = Without(a.openText, i)]
    BY <1>0 DEF TextEnd, IsApplier, Fields
  <2>2. PICK x, b : x = Without(a.openText, i) /\ b = [a EXCEPT !.openText = x]
    OBVIOUS
  <2>3. Looks([a EXCEPT !.openText = x], a.messages, a.carrier, x, a.reasoning, a.reasoningStreams)
    BY <1>0, LooksSet
  <2>4. TextEnd(a, i) = b
    BY <2>1, <2>2
  <2> QED BY <1>0, <2>2, <2>3, <2>4 DEF Looks, Turned, Sized
<1> QED BY <1>1, <1>2

\* Content for a message that is there writes it.
LEMMA TextTold ==
    ASSUME NEW a, Sized(a), NEW i \in Ids, NEW g \in Owner, Holds(a.messages, i), TextContent(a, i, g).ok,
           NEW b, b = TextContent(a, i, g).applier
    PROVE  /\ \A j : Turned(a, b, j, a.openText, None, a.reasoningStreams)
           /\ b.carrier = a.carrier /\ (One(a.messages, i) => Told(b.messages, i))
<1>0. /\ IsApplier(a) /\ a.messages \in Seq(Msg) /\ a.reasoning \in Seq(Msg) /\ a.carrier \in [Ids -> Nat]
      /\ Grown(a.reasoning, a.reasoning, None)
  BY GrownOnes DEF Sized
<1>1. PICK n \in DOMAIN a.messages : n = At(a.messages, i) /\ n # 0 /\ a.messages[n].id = i
  BY <1>0, AtFacts
<1>2. PICK m : m = [a.messages[n] EXCEPT !.written = TRUE]
  OBVIOUS
<1>3. m \in Msg /\ m.id = i /\ m.written
  <2>1. a.messages[n] \in Msg
    BY <1>0
  <2> HIDE <1>0
  <2> QED BY <1>1, <1>2, <2>1 DEF Msg, MessageRecord
<1>4. PICK more : more = [a.messages EXCEPT ![At(a.messages, i)] = m]
  OBVIOUS
<1>5. TextContent(a, i, g) = AppendText(a, n)
  BY <1>1 DEF TextContent
<1>6. AppendText(a, n) = IF a.messages[n].role = "activity" THEN Failed(a) ELSE Applied([a EXCEPT !.messages = more])
  BY <1>0, <1>1, <1>2, <1>4 DEF AppendText, IsApplier, Fields
<1>7. b = [a EXCEPT !.messages = more]
  BY <1>5, <1>6 DEF Applied, Failed
<1>8. Looks(b, more, a.carrier, a.openText, a.reasoning, a.reasoningStreams)
  <2>1. Looks([a EXCEPT !.messages = more], more, a.carrier, a.openText, a.reasoning, a.reasoningStreams)
    BY <1>0, LooksSet
  <2> QED BY <1>7, <2>1
<1>9. more \in Seq(Msg) /\ (\A j : Grown(a.messages, more, j)) /\ (One(a.messages, i) => Told(more, i))
  BY <1>0, <1>3, <1>4, EntryMarked
<1> QED BY <1>0, <1>8, <1>9 DEF Looks, Turned, Sized

\* A text chunk tells something of its message, which has its stream open or gets it.
LEMMA SpokenChunk ==
    ASSUME NEW a, Sized(a), NEW i \in Ids, NEW g \in Owner, TextChunk(a, i, g).ok,
           NEW b, b = TextChunk(a, i, g).applier
    PROVE  /\ b.carrier = a.carrier /\ (One(a.messages, i) => Told(b.messages, i))
           /\ \/ Turned(a, b, i, Reopened(a.openText, i, g), None, a.reasoningStreams)
              \/ /\ Turned(a, b, i, a.openText, None, a.reasoningStreams)
                 /\ (\E t \in Listed(a.openText) : t.id = i) /\ Holds(a.messages, i)
<1>0. i # None /\ a.messages \in Seq(Msg) /\ IsApplier(a)
  BY DEF Sized
<1>1. CASE (\E n \in DOMAIN a.openText : a.openText[n].id = i) /\ Holds(a.messages, i)
  <2>1. TextChunk(a, i, g) = TextContent(a, i, g)
    BY <1>0, <1>1 DEF TextChunk
  <2>2. \E t \in Listed(a.openText) : t.id = i
    BY <1>1 DEF Listed
  <2> QED BY <1>1, <2>1, <2>2, TextTold
<1>2. CASE ~((\E n \in DOMAIN a.openText : a.openText[n].id = i) /\ Holds(a.messages, i))
  <2>1. PICK x : x = TextStart(a, i, "assistant", g)
    OBVIOUS
  <2>2. TextChunk(a, i, g) = TextContent(x, i, g)
    <3>1. CASE Holds(a.messages, i)
      BY <1>0, <1>2, <2>1, <3>1 DEF TextChunk
    <3>2. CASE ~Holds(a.messages, i)
      <4>1. At(a.messages, i) = 0
        BY <1>0, <3>2, AtFacts
      <4>2. TextContent(x, i, g) = TextContent(a, i, g)
        BY <1>0, <2>1, <4>1, TextOpens
      <4> QED BY <1>0, <2>1, <4>2 DEF TextChunk
    <3> QED BY <3>1, <3>2
  <2>3. /\ Turned(a, x, i, Reopened(a.openText, i, g), None, a.reasoningStreams) /\ x.carrier = a.carrier
        /\ Holds(x.messages, i) /\ (One(a.messages, i) => One(x.messages, i))
    BY <2>1, TextTurns DEF Roles
  <2>4. Sized(x) /\ x.openText = Reopened(a.openText, i, g) /\ x.reasoningStreams = a.reasoningStreams
    BY <2>3 DEF Turned
  <2>5. /\ Turned(x, b, i, x.openText, None, x.reasoningStreams) /\ b.carrier = x.carrier
        /\ One(x.messages, i) => Told(b.messages, i)
    BY <2>2, <2>3, <2>4, TextTold
  <2>6. PICK o, t : o = x.openText /\ t = x.reasoningStreams
    OBVIOUS
  <2>7. Turned(a, x, i, o, None, t) /\ Turned(x, b, i, o, None, t)
    BY <2>3, <2>4, <2>5, <2>6
  <2>8. Turned(a, b, i, o, None, t)
    BY ONLY <2>7, TurnedOn
  <2> QED BY <2>3, <2>4, <2>5, <2>6, <2>8
<1> QED BY <1>1, <1>2

\* What a thought's events change.
LEMMA ThoughtTurns ==
    ASSUME NEW a, Sized(a), NEW i \in Ids, NEW g \in Owner
    PROVE  /\ Turned(a, ReasoningStart(a, i, g), None, a.openText, i, Reopened(a.reasoningStreams, i, g))
           /\ ReasoningStart(a, i, g).carrier = a.carrier
           /\ Holds(ReasoningStart(a, i, g).reasoning, i)
           /\ One(a.reasoning, i) => One(ReasoningStart(a, i, g).reasoning, i)
           /\ Turned(a, ReasoningEnd(a, i), None, a.openText, None, Without(a.reasoningStreams, i))
           /\ ReasoningEnd(a, i).carrier = a.carrier
           /\ Holds(a.reasoning, i) =>
                 /\ \A j : Turned(a, Think(a, i), None, a.openText, j, a.reasoningStreams)
                 /\ Think(a, i).carrier = a.carrier
                 /\ One(a.reasoning, i) => Told(Think(a, i).reasoning, i)
<1>0. /\ IsApplier(a) /\ a.messages \in Seq(Msg) /\ a.reasoning \in Seq(Msg) /\ a.carrier \in [Ids -> Nat]
      /\ Grown(a.reasoning, a.reasoning, None) /\ Grown(a.messages, a.messages, None)
  BY GrownOnes DEF Sized
<1>1. ASSUME NEW b, b = ReasoningStart(a, i, g)
      PROVE  /\ Turned(a, b, None, a.openText, i, Reopened(a.reasoningStreams, i, g))
             /\ b.carrier = a.carrier /\ Holds(b.reasoning, i)
             /\ One(a.reasoning, i) => One(b.reasoning, i)
  <2>1. PICK m, open, known : /\ m = Message(i, "reasoning", g) /\ open = Reopened(a.reasoningStreams, i, g)
                              /\ known = a.openReasoning \cup {i}
    OBVIOUS
  <2>2. m \in Msg /\ m.id = i
    BY <2>1, MessageFacts DEF Roles
  <2>3. PICK more : more = IF At(a.reasoning, m.id) # 0 THEN a.reasoning ELSE Append(a.reasoning, m)
    OBVIOUS
  <2>4. b = [a EXCEPT !.reasoningStreams = open, !.reasoning = more, !.openReasoning = known]
    BY <1>0, <1>1, <2>1, <2>2, <2>3 DEF ReasoningStart, IsApplier, Fields
  <2>5. Looks(b, a.messages, a.carrier, a.openText, more, open)
    BY <1>0, <2>4, LooksSet
  <2>6. /\ more \in Seq(Msg) /\ Grown(a.reasoning, more, i) /\ Holds(more, i)
        /\ One(a.reasoning, i) => One(more, i)
    BY <1>0, <2>2, <2>3, Entered
  <2> QED BY <1>0, <2>1, <2>5, <2>6 DEF Looks, Turned, Sized
<1>2. ASSUME NEW b, b = ReasoningEnd(a, i)
      PROVE  Turned(a, b, None, a.openText, None, Without(a.reasoningStreams, i)) /\ b.carrier = a.carrier
  <2>1. PICK open, known : open = Without(a.reasoningStreams, i) /\ known = a.openReasoning \ {i}
    OBVIOUS
  <2>2. b = [a EXCEPT !.reasoningStreams = open, !.openReasoning = known]
    BY <1>0, <1>2, <2>1 DEF ReasoningEnd, IsApplier, Fields
  <2>3. Looks(b, a.messages, a.carrier, a.openText, a.reasoning, open)
    BY <1>0, <2>2, LooksSet
  <2> QED BY <1>0, <2>1, <2>3 DEF Looks, Turned, Sized
<1>3. ASSUME Holds(a.reasoning, i), NEW b, b = Think(a, i)
      PROVE  /\ (\A j : Turned(a, b, None, a.openText, j, a.reasoningStreams)) /\ b.carrier = a.carrier
             /\ One(a.reasoning, i) => Told(b.reasoning, i)
  <2>1. PICK n \in DOMAIN a.reasoning : n = At(a.reasoning, i) /\ a.reasoning[n].id = i
    BY <1>0, <1>3, AtFacts
  <2>2. PICK m : m = [a.reasoning[n] EXCEPT !.written = TRUE]
    OBVIOUS
  <2>3. m \in Msg /\ m.id = i /\ m.written
    <3>1. a.reasoning[n] \in Msg
      BY <1>0
    <3> HIDE <1>0
    <3> QED BY <2>1, <2>2, <3>1 DEF Msg, MessageRecord
  <2>4. PICK more : more = [a.reasoning EXCEPT ![At(a.reasoning, i)] = m]
    OBVIOUS
  <2>5. b = [a EXCEPT !.reasoning = more]
    BY <1>0, <1>3, <2>1, <2>2, <2>4 DEF Think, IsApplier, Fields
  <2>6. Looks(b, a.messages, a.carrier, a.openText, more, a.reasoningStreams)
    BY <1>0, <2>5, LooksSet
  <2>7. more \in Seq(Msg) /\ (\A j : Grown(a.reasoning, more, j)) /\ (One(a.reasoning, i) => Told(more, i))
    BY <1>0, <1>3, <2>3, <2>4, EntryMarked
  <2> QED BY <1>0, <2>6, <2>7 DEF Looks, Turned, Sized
<1> QED BY <1>1, <1>2, <1>3

\* A reasoning chunk likewise.
LEMMA ThoughtChunk ==
    ASSUME NEW a, Sized(a), NEW i \in Ids, NEW g \in Owner,
           NEW b, b = ReasoningChunk(a, i, g).applier
    PROVE  /\ b.carrier = a.carrier /\ (One(a.reasoning, i) => Told(b.reasoning, i))
           /\ \/ Turned(a, b, None, a.openText, i, Reopened(a.reasoningStreams, i, g))
              \/ /\ Turned(a, b, None, a.openText, i, a.reasoningStreams)
                 /\ i \in a.openReasoning /\ Holds(a.reasoning, i)
<1>0. i # None /\ a.reasoning \in Seq(Msg) /\ IsApplier(a)
  BY DEF Sized
<1>1. CASE i \in a.openReasoning /\ Holds(a.reasoning, i)
  <2>1. At(a.reasoning, i) # 0
    BY <1>0, <1>1, AtFacts
  <2>2. b = Think(a, i)
    BY <1>0, <1>1, <2>1 DEF ReasoningChunk, ReasoningContent, Applied
  <2> QED BY <1>1, <2>2, ThoughtTurns
<1>2. CASE ~(i \in a.openReasoning /\ Holds(a.reasoning, i))
  <2>1. PICK x : x = ReasoningStart(a, i, g)
    OBVIOUS
  <2>2. /\ Turned(a, x, None, a.openText, i, Reopened(a.reasoningStreams, i, g)) /\ x.carrier = a.carrier
        /\ Holds(x.reasoning, i) /\ (One(a.reasoning, i) => One(x.reasoning, i))
    BY <2>1, ThoughtTurns
  <2>3. /\ Sized(x) /\ x.openText = a.openText /\ x.reasoningStreams = Reopened(a.reasoningStreams, i, g)
        /\ x.reasoning \in Seq(Msg)
    BY <2>2 DEF Turned, Sized
  <2>4. b = Think(x, i)
    <3>1. CASE Holds(a.reasoning, i)
      <4>1. b = ReasoningContent(x, i, g)
        BY <1>0, <1>2, <2>1, <3>1 DEF ReasoningChunk, Applied
      <4>2. At(x.reasoning, i) # 0
        BY <2>2, <2>3, AtFacts
      <4> QED BY <4>1, <4>2 DEF ReasoningContent
    <3>2. CASE ~Holds(a.reasoning, i)
      <4>1. At(a.reasoning, i) = 0
        BY <1>0, <3>2, AtFacts
      <4>2. ReasoningContent(x, i, g) = ReasoningContent(a, i, g) /\ ReasoningContent(a, i, g) = Think(x, i)
        BY <1>0, <2>1, <4>1, ThoughtOpens
      <4> QED BY <1>0, <2>1, <4>2 DEF ReasoningChunk, Applied
    <3> QED BY <3>1, <3>2
  <2>5. /\ Turned(x, b, None, x.openText, i, x.reasoningStreams) /\ b.carrier = x.carrier
        /\ One(x.reasoning, i) => Told(b.reasoning, i)
    BY <2>2, <2>3, <2>4, ThoughtTurns
  <2>6. PICK o, t : o = x.openText /\ t = x.reasoningStreams
    OBVIOUS
  <2>7. Grown(a.reasoning, b.reasoning, i) /\ Grown(a.messages, b.messages, None)
    BY <2>2, <2>5, GrownOn DEF Turned
  <2> QED BY <2>2, <2>3, <2>5, <2>7 DEF Turned
<1> QED BY <1>1, <1>2

\* A message is rewritten in its place, or one is added.
LEMMA Reworded ==
    ASSUME NEW a, Sized(a), NEW n \in DOMAIN a.messages, NEW m \in Msg,
           m.id = a.messages[n].id, a.messages[n].written => m.written,
           NEW more, more = [a.messages EXCEPT ![n] = m], NEW moved \in [Ids -> Nat],
           NEW b, Looks(b, more, moved, a.openText, a.reasoning, a.reasoningStreams)
    PROVE  \A j : Turned(a, b, j, a.openText, None, a.reasoningStreams)
<1>0. /\ IsApplier(a) /\ a.messages \in Seq(Msg) /\ a.reasoning \in Seq(Msg) /\ a.carrier \in [Ids -> Nat]
      /\ Grown(a.reasoning, a.reasoning, None)
  BY GrownOnes DEF Sized
<1>1. more \in Seq(Msg) /\ \A j : Grown(a.messages, more, j)
  BY <1>0, GrownOnes
<1> QED BY <1>0, <1>1 DEF Looks, Turned, Sized

\* What a message more changes.
LEMMA PushTurns ==
    ASSUME NEW a, Sized(a), NEW m \in Msg, m.calls = <<>>, NEW b, b = PushMessage(a, m)
    PROVE  /\ Turned(a, b, m.id, a.openText, None, a.reasoningStreams) /\ b.carrier = a.carrier
           /\ Len(a.messages) + 1 \in DOMAIN b.messages /\ b.messages[Len(a.messages) + 1] = m
<1>0. /\ IsApplier(a) /\ a.messages \in Seq(Msg) /\ a.reasoning \in Seq(Msg) /\ a.carrier \in [Ids -> Nat]
      /\ Grown(a.reasoning, a.reasoning, None)
  BY GrownOnes DEF Sized
<1>1. PICK more : more = Append(a.messages, m)
  OBVIOUS
<1>2. Looks(b, more, a.carrier, a.openText, a.reasoning, a.reasoningStreams)
  BY <1>0, <1>1, PushLooks
<1>3. more \in Seq(Msg) /\ Grown(a.messages, more, m.id)
  BY <1>0, <1>1, GrownOnes
<1>4. Len(a.messages) + 1 \in DOMAIN more /\ more[Len(a.messages) + 1] = m
  BY <1>0, <1>1
<1> QED BY <1>0, <1>2, <1>3, <1>4 DEF Looks, Turned, Sized

\* A call is looked up where it was, or at the message it was hung on.
Rehung(before, after, c, n) == after = before \/ after = [before EXCEPT ![c] = n]

\* A call is hung on the message it names; nothing else moves.
LEMMA HangTurns ==
    ASSUME NEW a, Sized(a), NEW n \in DOMAIN a.messages, NEW c \in Ids
    PROVE  /\ \A j : Turned(a, HangCall(a, n, c), j, a.openText, None, a.reasoningStreams)
           /\ Rehung(a.carrier, HangCall(a, n, c).carrier, c, n)
           /\ n \in DOMAIN HangCall(a, n, c).messages /\ HangCall(a, n, c).messages[n].id = a.messages[n].id
<1>0. /\ IsApplier(a) /\ a.messages \in Seq(Msg) /\ a.reasoning \in Seq(Msg) /\ a.carrier \in [Ids -> Nat]
      /\ Grown(a.reasoning, a.reasoning, None) /\ \A j : Grown(a.messages, a.messages, j)
  BY GrownOnes DEF Sized
<1>1. PICK b : b = HangCall(a, n, c)
  OBVIOUS
<1> SUFFICES /\ \A j : Turned(a, b, j, a.openText, None, a.reasoningStreams)
             /\ Rehung(a.carrier, b.carrier, c, n)
             /\ n \in DOMAIN b.messages /\ b.messages[n].id = a.messages[n].id
  BY <1>1
<1>2. CASE a.messages[n].role # "assistant"
  <2>1. b = a
    BY <1>1, <1>2 DEF HangCall
  <2> QED BY <1>0, <2>1 DEF Turned, Rehung
<1>3. CASE a.messages[n].role = "assistant"
  <2>1. PICK calls : calls = IF Carries(a.messages[n], c) THEN a.messages[n].calls
                             ELSE Append(a.messages[n].calls, ToolCall(c))
    OBVIOUS
  <2>2. a.messages[n] \in Msg
    BY <1>0
  <2>3. calls \in Seq(CallRecord)
    <3>1. ToolCall(c) \in CallRecord
      BY DEF ToolCall, CallRecord
    <3>2. a.messages[n].calls \in Seq(CallRecord)
      BY <2>2, MsgFields
    <3> QED BY <2>1, <3>1, <3>2
  <2>4. PICK m : m = [a.messages[n] EXCEPT !.calls = calls]
    OBVIOUS
  <2>5. m \in Msg /\ m.id = a.messages[n].id /\ m.written = a.messages[n].written
    <3>1. m \in Msg
      BY <2>2, <2>3, <2>4, MsgFields
    <3> QED BY <2>2, <2>4, <3>1 DEF Msg, MessageRecord
  <2>6. PICK more, moved : more = [a.messages EXCEPT ![n] = m] /\ moved = [a.carrier EXCEPT ![c] = n]
    OBVIOUS
  <2>7. b = [a EXCEPT !.messages = more, !.carrier = moved]
    BY <1>0, <1>1, <1>3, <2>1, <2>4, <2>6 DEF HangCall, IsApplier, Fields
  <2>8. moved \in [Ids -> Nat]
    BY <1>0, <2>6
  <2>9. more[n] = m /\ n \in DOMAIN more
    BY <1>0, <2>6
  <2>10. Looks(b, more, moved, a.openText, a.reasoning, a.reasoningStreams)
    <3>1. Looks([a EXCEPT !.messages = more, !.carrier = moved], more, moved, a.openText, a.reasoning, a.reasoningStreams)
      BY <1>0, LooksSet
    <3> QED BY <2>7, <3>1
  <2>11. \A j : Turned(a, b, j, a.openText, None, a.reasoningStreams)
    BY <2>5, <2>6, <2>8, <2>10, Reworded
  <2> QED BY <2>5, <2>6, <2>9, <2>10, <2>11 DEF Looks, Rehung
<1> QED BY <1>2, <1>3

\* What a call's START changes: it hangs on its message.
LEMMA CallTurns ==
    ASSUME NEW a, Sized(a), NEW c \in Ids, NEW p \in Ids \cup Derived, NEW g \in Owner,
           NEW b, b = ToolCallStart(a, c, p, g)
    PROVE  /\ Turned(a, b, p, a.openText, None, a.reasoningStreams)
           /\ Holds(a.messages, p) => \A j : Turned(a, b, j, a.openText, None, a.reasoningStreams)
           /\ \E n \in DOMAIN b.messages : Rehung(a.carrier, b.carrier, c, n) /\ b.messages[n].id = p
<1>0. a.messages \in Seq(Msg)
  BY DEF Sized
<1>1. CASE At(a.messages, p) # 0
  <2>1. PICK n \in DOMAIN a.messages : n = At(a.messages, p) /\ a.messages[n].id = p
    BY <1>0, <1>1, AtFacts
  <2>2. b = HangCall(a, n, c)
    BY <1>1, <2>1 DEF ToolCallStart
  <2>3. /\ \A j : Turned(a, b, j, a.openText, None, a.reasoningStreams)
        /\ Rehung(a.carrier, b.carrier, c, n)
        /\ n \in DOMAIN b.messages /\ b.messages[n].id = a.messages[n].id
    BY <2>2, HangTurns
  <2> QED BY <2>1, <2>3
<1>2. CASE At(a.messages, p) = 0
  <2>1. PICK m, x, n : m = Message(p, "assistant", g) /\ x = PushMessage(a, m) /\ n = Len(a.messages) + 1
    OBVIOUS
  <2>2. m \in Msg /\ m.id = p /\ m.calls = <<>>
    BY <2>1, MessageFacts DEF Roles
  <2>3. /\ Turned(a, x, p, a.openText, None, a.reasoningStreams) /\ x.carrier = a.carrier
        /\ n \in DOMAIN x.messages /\ x.messages[n].id = p
    BY <2>1, <2>2, PushTurns
  <2>4. Sized(x) /\ x.openText = a.openText /\ x.reasoningStreams = a.reasoningStreams
    BY <2>3 DEF Turned
  <2>5. b = HangCall(x, n, c)
    BY <1>2, <2>1 DEF ToolCallStart
  <2>6. /\ Turned(x, b, p, a.openText, None, a.reasoningStreams)
        /\ Rehung(x.carrier, b.carrier, c, n)
        /\ n \in DOMAIN b.messages /\ b.messages[n].id = p
    <3>1. /\ \A j : Turned(x, b, j, x.openText, None, x.reasoningStreams)
          /\ Rehung(x.carrier, b.carrier, c, n)
          /\ n \in DOMAIN b.messages /\ b.messages[n].id = x.messages[n].id
      <4>1. n \in DOMAIN x.messages /\ Sized(x)
        BY <2>3, <2>4
      <4>2. /\ \A j : Turned(x, HangCall(x, n, c), j, x.openText, None, x.reasoningStreams)
            /\ Rehung(x.carrier, HangCall(x, n, c).carrier, c, n)
            /\ n \in DOMAIN HangCall(x, n, c).messages /\ HangCall(x, n, c).messages[n].id = x.messages[n].id
        BY ONLY <4>1, HangTurns, c \in Ids
      <4> QED BY <2>5, <4>2, Zenon
    <3> QED BY <2>3, <2>4, <3>1
  <2>7. PICK o, t : o = a.openText /\ t = a.reasoningStreams
    OBVIOUS
  <2>8. Turned(a, b, p, o, None, t)
    BY <2>3, <2>6, <2>7, TurnedOn
  <2>9. ~Holds(a.messages, p)
    BY <1>0, <1>2, AtFacts
  <2> QED BY <2>3, <2>6, <2>7, <2>8, <2>9
<1> QED BY <1>1, <1>2

\* What is written or signed of a call.
LEMMA CallTold ==
    ASSUME NEW a, Sized(a), NEW c \in Ids, a.carrier[c] # 0 => a.carrier[c] \in DOMAIN a.messages
    PROVE  /\ ToolCallArgs(a, c).ok => a.carrier[c] # 0
           /\ \A j : /\ Turned(a, ToolCallArgs(a, c).applier, j, a.openText, None, a.reasoningStreams)
                     /\ Turned(a, SignCall(a, c), j, a.openText, None, a.reasoningStreams)
           /\ ToolCallArgs(a, c).applier.carrier = a.carrier /\ SignCall(a, c).carrier = a.carrier
<1>0. /\ IsApplier(a) /\ a.messages \in Seq(Msg) /\ a.reasoning \in Seq(Msg) /\ a.carrier \in [Ids -> Nat]
      /\ Grown(a.reasoning, a.reasoning, None) /\ \A j : Grown(a.messages, a.messages, j)
  BY GrownOnes DEF Sized
<1>1. CASE a.carrier[c] = 0
  <2>1. ToolCallArgs(a, c) = Failed(a) /\ SignCall(a, c) = a
    BY <1>1 DEF ToolCallArgs, SignCall
  <2> QED BY <1>0, <2>1 DEF Turned, Failed
<1>2. CASE a.carrier[c] # 0
  <2>1. PICK n \in DOMAIN a.messages : n = a.carrier[c]
    BY <1>2
  <2>2. PICK m \in Msg : m = a.messages[n]
    BY <1>0
  <2>3. PICK w, z : /\ w = [k \in DOMAIN m.calls |-> IF m.calls[k].id = c THEN [m.calls[k] EXCEPT !.written = TRUE]
                                                     ELSE m.calls[k]]
                    /\ z = [k \in DOMAIN m.calls |-> IF m.calls[k].id = c THEN [m.calls[k] EXCEPT !.signed = TRUE]
                                                     ELSE m.calls[k]]
    OBVIOUS
  <2>4. \A k \in DOMAIN m.calls : m.calls[k] \in CallRecord
    BY MsgFields
  <2>5. /\ w \in [DOMAIN m.calls -> CallRecord] /\ z \in [DOMAIN m.calls -> CallRecord]
        /\ \A k \in DOMAIN m.calls : w[k].id = m.calls[k].id /\ z[k].id = m.calls[k].id
    BY <2>3, <2>4 DEF CallRecord
  <2>6. PICK mw, mz : mw = [m EXCEPT !.calls = w] /\ mz = [m EXCEPT !.calls = z]
    OBVIOUS
  <2>7. mw \in Msg /\ mw.id = m.id /\ mw.written = m.written
    <3>1. mw \in Msg /\ mw.id = m.id
      BY <2>5, <2>6, CallsMarked
    <3> QED BY <2>6, <3>1 DEF Msg, MessageRecord
  <2>8. mz \in Msg /\ mz.id = m.id /\ mz.written = m.written
    <3>1. mz \in Msg /\ mz.id = m.id
      BY <2>5, <2>6, CallsMarked
    <3> QED BY <2>6, <3>1 DEF Msg, MessageRecord
  <2>9. PICK lw, lz : lw = [a.messages EXCEPT ![n] = mw] /\ lz = [a.messages EXCEPT ![n] = mz]
    OBVIOUS
  <2>10. /\ ToolCallArgs(a, c) = Applied([a EXCEPT !.messages = lw])
         /\ SignCall(a, c) = [a EXCEPT !.messages = lz]
    BY <1>0, <1>2, <2>1, <2>2, <2>3, <2>6, <2>9 DEF ToolCallArgs, SignCall, IsApplier, Fields
  <2>11. PICK x, y : x = [a EXCEPT !.messages = lw] /\ y = [a EXCEPT !.messages = lz]
    OBVIOUS
  <2>12. /\ Looks(x, lw, a.carrier, a.openText, a.reasoning, a.reasoningStreams)
         /\ Looks(y, lz, a.carrier, a.openText, a.reasoning, a.reasoningStreams)
    BY <1>0, <2>11, LooksSet
  <2>13. \A j : Turned(a, x, j, a.openText, None, a.reasoningStreams)
    BY <1>0, <2>2, <2>7, <2>9, <2>12, Reworded
  <2>14. \A j : Turned(a, y, j, a.openText, None, a.reasoningStreams)
    BY <1>0, <2>2, <2>8, <2>9, <2>12, Reworded
  <2>15. ToolCallArgs(a, c).applier = x /\ SignCall(a, c) = y
    BY <2>10, <2>11 DEF Applied
  <2> QED BY <1>2, <2>12, <2>13, <2>14, <2>15 DEF Looks
<1> QED BY <1>1, <1>2

\* Results, activities, signatures, states and subagents leave what is open and carried.
LEMMA EntryTurns ==
    ASSUME NEW a, Sized(a), NEW e, e.id \in Ids, e.tag \in Owner
    PROVE  /\ e.call \in Ids => /\ Turned(a, ToolCallResult(a, e), e.id, a.openText, None, a.reasoningStreams)
                                /\ ToolCallResult(a, e).carrier = a.carrier
           /\ Turned(a, WithActivity(a, e.id), e.id, a.openText, None, a.reasoningStreams)
           /\ WithActivity(a, e.id).carrier = a.carrier
           /\ Turned(a, ActivitySnapshotted(a, e), e.id, a.openText, None, a.reasoningStreams)
           /\ ActivitySnapshotted(a, e).carrier = a.carrier
<1>0. /\ IsApplier(a) /\ a.messages \in Seq(Msg) /\ a.reasoning \in Seq(Msg) /\ a.carrier \in [Ids -> Nat]
      /\ Grown(a.reasoning, a.reasoning, None) /\ \A j : Grown(a.messages, a.messages, j)
  BY GrownOnes DEF Sized
<1>1. PICK i, g, n : i = e.id /\ g = e.tag /\ n = At(a.messages, e.id)
  OBVIOUS
<1>2. n # 0 => n \in DOMAIN a.messages /\ a.messages[n] \in Msg /\ a.messages[n].id = i
  BY <1>0, <1>1, AtFacts
<1>3. Turned(a, a, i, a.openText, None, a.reasoningStreams)
  BY <1>0 DEF Turned
<1>4. ASSUME NEW b, n # 0, NEW m \in Msg, m.id = i, a.messages[n].written => m.written,
             b = [a EXCEPT !.messages = [a.messages EXCEPT ![n] = m]]
      PROVE  Turned(a, b, i, a.openText, None, a.reasoningStreams) /\ b.carrier = a.carrier
  <2>1. PICK more : more = [a.messages EXCEPT ![n] = m]
    OBVIOUS
  <2>2. Looks([a EXCEPT !.messages = more], more, a.carrier, a.openText, a.reasoning, a.reasoningStreams)
    BY <1>0, LooksSet
  <2>3. Looks(b, more, a.carrier, a.openText, a.reasoning, a.reasoningStreams)
    BY <1>4, <2>1, <2>2
  <2>4. \A j : Turned(a, b, j, a.openText, None, a.reasoningStreams)
    BY <1>0, <1>2, <1>4, <2>1, <2>3, Reworded
  <2> QED BY <2>3, <2>4 DEF Looks
<1>5. ASSUME NEW b, NEW m \in Msg, m.id = i, m.calls = <<>>, b = PushMessage(a, m)
      PROVE  Turned(a, b, i, a.openText, None, a.reasoningStreams) /\ b.carrier = a.carrier
  BY <1>5, PushTurns
<1>6. ASSUME e.call \in Ids, NEW b, b = ToolCallResult(a, e)
      PROVE  Turned(a, b, i, a.openText, None, a.reasoningStreams) /\ b.carrier = a.carrier
  <2>1. PICK m, w : /\ m = [Message(i, "tool", g) EXCEPT !.answers = e.call]
                    /\ w = [a.messages[n] EXCEPT !.owner = g]
    OBVIOUS
  <2>2. b = IF n = 0 THEN PushMessage(a, m)
            ELSE IF a.messages[n].role = "tool" THEN [a EXCEPT !.messages = [a.messages EXCEPT ![n] = w]] ELSE a
    BY <1>0, <1>1, <1>6, <2>1 DEF ToolCallResult, IsApplier, Fields
  <2>3. m \in Msg /\ m.id = i /\ m.calls = <<>>
    <3>1. Message(i, "tool", g) \in Msg /\ Message(i, "tool", g).id = i /\ Message(i, "tool", g).calls = <<>>
      BY <1>1, MessageFacts DEF Roles
    <3>2. PICK q \in Msg : q = Message(i, "tool", g)
      BY <3>1
    <3> QED BY <1>6, <2>1, <3>1, <3>2 DEF Msg, MessageRecord
  <2>4. n # 0 => w \in Msg /\ w.id = i /\ w.written = a.messages[n].written
    <3> SUFFICES ASSUME n # 0 PROVE w \in Msg /\ w.id = i /\ w.written = a.messages[n].written
      OBVIOUS
    <3>1. PICK q \in Msg : q = a.messages[n] /\ q.id = i
      BY <1>2
    <3>2. g \in Owner
      BY <1>1
    <3> QED BY <2>1, <3>1, <3>2 DEF Msg, MessageRecord
  <2>5. CASE n = 0
    BY <1>5, <2>2, <2>3, <2>5
  <2>6. CASE n # 0 /\ a.messages[n].role = "tool"
    BY <1>4, <2>2, <2>4, <2>6
  <2>7. CASE n # 0 /\ a.messages[n].role # "tool"
    BY <1>3, <2>2, <2>7
  <2> QED BY <2>5, <2>6, <2>7
<1>7. ASSUME NEW b, b = WithActivity(a, i)
      PROVE  Turned(a, b, i, a.openText, None, a.reasoningStreams) /\ b.carrier = a.carrier
  <2>1. Message(i, "activity", None) \in Msg /\ Message(i, "activity", None).id = i /\ Message(i, "activity", None).calls = <<>>
    BY <1>1, MessageFacts, Vocabulary DEF Roles, Owner
  <2> QED BY <1>1, <1>3, <1>5, <1>7, <2>1 DEF WithActivity
<1>8. ASSUME NEW b, b = ActivitySnapshotted(a, e)
      PROVE  Turned(a, b, i, a.openText, None, a.reasoningStreams) /\ b.carrier = a.carrier
  <2>1. PICK m, h, w : /\ m = [Message(i, "activity", g) EXCEPT !.written = TRUE]
                       /\ h = (IF e.replace THEN g ELSE a.messages[n].owner)
                       /\ w = [a.messages[n] EXCEPT !.written = TRUE, !.owner = h]
    OBVIOUS
  <2>2. m \in Msg /\ m.id = i /\ m.calls = <<>>
    <3>1. PICK q \in Msg : q = Message(i, "activity", g) /\ q.id = i /\ q.calls = <<>>
      BY <1>1, MessageFacts DEF Roles
    <3> QED BY <2>1, <3>1 DEF Msg, MessageRecord
  <2>3. CASE n = 0
    <3>1. b = PushMessage(a, m)
      BY <1>1, <1>8, <2>1, <2>3 DEF ActivitySnapshotted
    <3> QED BY <1>5, <2>2, <3>1
  <2>4. CASE n # 0 /\ a.messages[n].role = "activity"
    <3>1. PICK q \in Msg : q = a.messages[n] /\ q.id = i
      BY <1>2, <2>4
    <3>2. g \in Owner /\ h \in Owner
      BY <1>1, <2>1, <3>1, MsgFields
    <3>3. w \in Msg /\ w.id = i /\ w.written
      BY <2>1, <3>1, <3>2 DEF Msg, MessageRecord
    <3>4. b = [a EXCEPT !.messages = [a.messages EXCEPT ![n] = w]]
      <4>1. n \in DOMAIN a.messages
        BY <1>2, <2>4
      <4> HIDE <1>2
      <4> QED BY <1>0, <1>1, <1>8, <2>1, <2>4, <4>1 DEF ActivitySnapshotted, IsApplier, Fields
    <3> QED BY <1>4, <2>4, <3>3, <3>4
  <2>5. CASE n # 0 /\ a.messages[n].role # "activity"
    <3>1. b = a
      BY <1>1, <1>8, <2>5 DEF ActivitySnapshotted
    <3> QED BY <1>3, <3>1
  <2> QED BY <2>3, <2>4, <2>5
<1> QED BY <1>1, <1>6, <1>7, <1>8

\* A signature changes no list and nobody's streams.
LEMMA SignTurns ==
    ASSUME NEW a, Sized(a), NEW i, NEW b, b = SignMessage(a, i)
    PROVE  (\A j : Turned(a, b, j, a.openText, None, a.reasoningStreams)) /\ b.carrier = a.carrier
<1>0. /\ IsApplier(a) /\ a.messages \in Seq(Msg) /\ a.reasoning \in Seq(Msg) /\ a.carrier \in [Ids -> Nat]
      /\ Grown(a.reasoning, a.reasoning, None) /\ \A j : Grown(a.messages, a.messages, j)
  BY GrownOnes DEF Sized
<1>1. \A m \in Msg : /\ [m EXCEPT !.signed = TRUE] \in Msg /\ [m EXCEPT !.signed = TRUE].id = m.id
                     /\ [m EXCEPT !.signed = TRUE].written = m.written
  <2> SUFFICES ASSUME NEW m \in Msg
               PROVE  /\ [m EXCEPT !.signed = TRUE] \in Msg /\ [m EXCEPT !.signed = TRUE].id = m.id
                      /\ [m EXCEPT !.signed = TRUE].written = m.written
    OBVIOUS
  <2> QED BY DEF Msg, MessageRecord
<1>2. CASE At(a.reasoning, i) # 0
  <2>1. PICK n \in DOMAIN a.reasoning : n = At(a.reasoning, i)
    BY <1>0, <1>2, AtFacts
  <2>2. PICK m : m = [a.reasoning[n] EXCEPT !.signed = TRUE]
    OBVIOUS
  <2>3. a.reasoning[n] \in Msg
    BY <1>0
  <2>4. m \in Msg /\ m.id = a.reasoning[n].id /\ m.written = a.reasoning[n].written
    BY <1>1, <2>2, <2>3
  <2>5. PICK more : more = [a.reasoning EXCEPT ![n] = m]
    OBVIOUS
  <2>6. more \in Seq(Msg) /\ Grown(a.reasoning, more, None)
    BY <1>0, <2>4, <2>5, GrownOnes
  <2>7. b = [a EXCEPT !.reasoning = more]
    BY <1>0, <1>2, <2>1, <2>2, <2>5 DEF SignMessage, IsApplier, Fields
  <2>8. Looks([a EXCEPT !.reasoning = more], a.messages, a.carrier, a.openText, more, a.reasoningStreams)
    BY <1>0, LooksSet
  <2> QED BY <1>0, <2>6, <2>7, <2>8 DEF Looks, Turned, Sized
<1>3. CASE At(a.reasoning, i) = 0 /\ At(a.messages, i) # 0 /\ a.messages[At(a.messages, i)].role # "activity"
  <2>1. PICK n \in DOMAIN a.messages : n = At(a.messages, i)
    BY <1>0, <1>3, AtFacts
  <2>2. PICK m : m = [a.messages[n] EXCEPT !.signed = TRUE]
    OBVIOUS
  <2>3. a.messages[n] \in Msg
    BY <1>0
  <2>4. m \in Msg /\ m.id = a.messages[n].id /\ m.written = a.messages[n].written
    BY <1>1, <2>2, <2>3
  <2>5. PICK more : more = [a.messages EXCEPT ![n] = m]
    OBVIOUS
  <2>6. b = [a EXCEPT !.messages = more]
    BY <1>0, <1>3, <2>1, <2>2, <2>5 DEF SignMessage, IsApplier, Fields
  <2>7. Looks([a EXCEPT !.messages = more], more, a.carrier, a.openText, a.reasoning, a.reasoningStreams)
    BY <1>0, LooksSet
  <2>8. Looks(b, more, a.carrier, a.openText, a.reasoning, a.reasoningStreams)
    BY <2>6, <2>7
  <2>9. \A j : Turned(a, b, j, a.openText, None, a.reasoningStreams)
    BY <1>0, <2>4, <2>5, <2>8, Reworded
  <2> QED BY <2>8, <2>9 DEF Looks
<1>4. CASE At(a.reasoning, i) = 0 /\ ~(At(a.messages, i) # 0 /\ a.messages[At(a.messages, i)].role # "activity")
  <2>1. b = a
    BY <1>4 DEF SignMessage
  <2> QED BY <1>0, <2>1 DEF Turned
<1> QED BY <1>2, <1>3, <1>4

\* The events that may make an entry outside a stream, and those of the streams.
Entering == {"TOOL_CALL_RESULT", "ACTIVITY_SNAPSHOT", "ACTIVITY_DELTA"}
OfStreams == {"START", "CONTENT", "END", "CHUNK"}

\* So whatever is neither a stream's nor a snapshot leaves them.
LEMMA AsideTurns ==
    ASSUME NEW a, Sized(a), \A c \in Ids : a.carrier[c] # 0 => a.carrier[c] \in DOMAIN a.messages,
           NEW e, WellFormed(e), e.type \notin OfStreams \cup {"MESSAGES_SNAPSHOT"},
           NEW b, b = Apply(a, e).applier
    PROVE  /\ b.carrier = a.carrier
           /\ \E i : /\ Turned(a, b, i, a.openText, None, a.reasoningStreams)
                     /\ i = None \/ (e.type \in Entering /\ i = e.id)
<1>0. /\ IsApplier(a) /\ a.messages \in Seq(Msg) /\ a.reasoning \in Seq(Msg) /\ a.carrier \in [Ids -> Nat]
      /\ Grown(a.reasoning, a.reasoning, None) /\ \A j : Grown(a.messages, a.messages, j)
  BY GrownOnes DEF Sized
<1>1. \A x : x = Applied(x).applier
  BY DEF Applied
<1>2. \A x : Looks(x, a.messages, a.carrier, a.openText, a.reasoning, a.reasoningStreams) =>
                Turned(a, x, None, a.openText, None, a.reasoningStreams) /\ x.carrier = a.carrier
  BY <1>0 DEF Looks, Turned, Sized
<1>3. Looks(a, a.messages, a.carrier, a.openText, a.reasoning, a.reasoningStreams)
  BY <1>0 DEF Looks
<1>4. CASE e.type \in Entering
  <2>1. e.id \in Ids /\ e.tag \in Owner /\ (e.type = "TOOL_CALL_RESULT" => e.call \in Ids)
    BY <1>4 DEF WellFormed, Entering
  <2>2. Turned(a, b, e.id, a.openText, None, a.reasoningStreams) /\ b.carrier = a.carrier
    <3>1. CASE e.type = "TOOL_CALL_RESULT"
      <4>1. b = ToolCallResult(a, e)
        BY <1>1, <3>1 DEF Apply
      <4> QED BY <2>1, <3>1, <4>1, EntryTurns
    <3>2. CASE e.type = "ACTIVITY_SNAPSHOT"
      <4>1. b = ActivitySnapshotted(a, e)
        BY <1>1, <3>2 DEF Apply
      <4> QED BY <2>1, <4>1, EntryTurns
    <3>3. CASE e.type = "ACTIVITY_DELTA"
      <4>1. b = WithActivity(a, e.id)
        BY <1>1, <3>3 DEF Apply
      <4> QED BY <2>1, <4>1, EntryTurns
    <3> QED BY <1>4, <3>1, <3>2, <3>3 DEF Entering
  <2> QED BY <1>4, <2>2
<1>5. CASE e.type = "ENCRYPTED"
  <2>1. b = IF e.subtype = "tool-call" THEN SignCall(a, e.id) ELSE SignMessage(a, e.id)
    BY <1>1, <1>5 DEF Apply
  <2>2. e.id \in Ids
    BY <1>5 DEF WellFormed
  <2>3. Turned(a, SignCall(a, e.id), None, a.openText, None, a.reasoningStreams) /\ SignCall(a, e.id).carrier = a.carrier
    BY <2>2, CallTold
  <2>4. Turned(a, SignMessage(a, e.id), None, a.openText, None, a.reasoningStreams) /\ SignMessage(a, e.id).carrier = a.carrier
    BY SignTurns
  <2> QED BY <2>1, <2>3, <2>4
<1>6. CASE e.type = "STATE_SNAPSHOT"
  <2>1. b = [a EXCEPT !.state = e.state]
    BY <1>1, <1>6 DEF Apply
  <2>2. Looks([a EXCEPT !.state = e.state], a.messages, a.carrier, a.openText, a.reasoning, a.reasoningStreams)
    BY <1>0, LooksSet
  <2> QED BY <1>2, <2>1, <2>2
<1>7. CASE e.type \in {"SUBAGENT_STARTED", "SUBAGENT_FINISHED", "SUBAGENT_ERROR"}
  <2>1. /\ \A p : \E y : SubagentAnnounced(a, e.id, p) = [a EXCEPT !.subagents = y]
        /\ \A t : \E y : SubagentClosed(a, e.id, t) = [a EXCEPT !.subagents = y]
    <3>1. ASSUME NEW p
          PROVE  \E y : SubagentAnnounced(a, e.id, p) = [a EXCEPT !.subagents = y]
      <4>1. PICK n, old : n = At(a.subagents, e.id) /\ old = a.subagents[n]
        OBVIOUS
      <4>2. PICK more, again : /\ more = Append(a.subagents, Subagent(e.id, p, "running"))
                               /\ again = [a.subagents EXCEPT ![n] = Subagent(e.id, IF p = None THEN old.parent ELSE p,
                                                                             "running")]
        OBVIOUS
      <4>3. SubagentAnnounced(a, e.id, p) = IF n = 0 THEN [a EXCEPT !.subagents = more] ELSE [a EXCEPT !.subagents = again]
        BY <1>0, <4>1, <4>2 DEF SubagentAnnounced, IsApplier, Fields
      <4> QED BY <4>3
    <3>2. ASSUME NEW t
          PROVE  \E y : SubagentClosed(a, e.id, t) = [a EXCEPT !.subagents = y]
      <4>1. PICK n, old : n = At(a.subagents, e.id) /\ old = a.subagents[n]
        OBVIOUS
      <4>2. PICK late, over : /\ late = Append(a.subagents, Subagent(e.id, None, t))
                              /\ over = [a.subagents EXCEPT ![n] = [old EXCEPT !.status = t]]
        OBVIOUS
      <4>3. SubagentClosed(a, e.id, t) = IF n = 0 THEN [a EXCEPT !.subagents = late] ELSE [a EXCEPT !.subagents = over]
        BY <1>0, <4>1, <4>2 DEF SubagentClosed, IsApplier, Fields
      <4> QED BY <4>3
    <3> QED BY <3>1, <3>2
  <2>2. \E y : b = [a EXCEPT !.subagents = y]
    <3>1. CASE e.type = "SUBAGENT_STARTED"
      <4>1. b = SubagentAnnounced(a, e.id, e.parent)
        BY <1>1, <3>1 DEF Apply
      <4> QED BY <2>1, <4>1
    <3>2. CASE e.type \in {"SUBAGENT_FINISHED", "SUBAGENT_ERROR"}
      <4>1. b = SubagentClosed(a, e.id, "finished") \/ b = SubagentClosed(a, e.id, "failed")
        BY <1>1, <3>2 DEF Apply
      <4> QED BY <2>1, <4>1
    <3> QED BY <1>7, <3>1, <3>2
  <2>3. PICK y : b = [a EXCEPT !.subagents = y]
    BY <2>2
  <2>4. Looks([a EXCEPT !.subagents = y], a.messages, a.carrier, a.openText, a.reasoning, a.reasoningStreams)
    BY <1>0, LooksSet
  <2> QED BY <1>2, <2>3, <2>4
<1>8. CASE e.type \notin OfStreams \cup Entering \cup {"MESSAGES_SNAPSHOT", "ENCRYPTED", "STATE_SNAPSHOT", "SUBAGENT_STARTED",
                                                      "SUBAGENT_FINISHED", "SUBAGENT_ERROR"}
  <2>1. Apply(a, e) = Applied(a)
    BY <1>8 DEF Apply, OfStreams, Entering
  <2> QED BY <1>1, <1>2, <1>3, <2>1
<1> QED BY <1>4, <1>5, <1>6, <1>7, <1>8

-----------------------------------------------------------------------------
(* The streams of chunks an applier keeps by itself *)

\* Agent `s` leaves the id out of some of its chunks of kind `k`: as `g`, or at all; and it
\* names stream `i` in others.
Leaves(s, k, g) == \E e \in Emits[s] : Bare(e) /\ e.kind = k /\ e.tag = g
Leaving(s, k) == \E e \in Emits[s] : Bare(e) /\ e.kind = k
NamedAs(s, k, i) == \E e \in Emits[s] : Named(e) /\ e.kind = k /\ e.id = i

\* Where somebody leaves the id out: what chunks said of a stream is there, and it is
\* open; and what is open for him who leaves it out is a stream of chunks.
Chunkwise(s, k, list, open) ==
    Leaving(s, k) =>
        /\ open \in Seq(Slot)
        /\ \A i \in Ids : NamedAs(s, k, i) /\ Holds(list, i) =>
              (\E t \in Listed(open) : t.id = i) /\ Told(list, i)
        /\ \A t \in Listed(open) : Leaves(s, k, t.owner) => NamedAs(s, k, t.id) /\ Holds(list, t.id)

\* The streams of chunks stay open, and none is opened for him.
Calm(s, k, open, after) ==
    Leaving(s, k) =>
        /\ after \in Seq(Slot)
        /\ \A t \in Listed(open) : NamedAs(s, k, t.id) => t \in Listed(after)
        /\ \A t \in Listed(after) : t \in Listed(open) \/ ~Leaves(s, k, t.owner)

\* What closing a stream and opening one do to the list.
LEMMA SlotFacts ==
    ASSUME NEW open \in Seq(Slot), NEW i \in Ids, NEW g \in Owner
    PROVE  /\ Without(open, i) \in Seq(Slot) /\ Reopened(open, i, g) \in Seq(Slot)
           /\ \A t \in Listed(Without(open, i)) : t \in Listed(open)
           /\ \A t \in Listed(open) : t.id # i => t \in Listed(Without(open, i)) /\ t \in Listed(Reopened(open, i, g))
           /\ \A t \in Listed(Reopened(open, i, g)) : t \in Listed(open) \/ (t.id = i /\ t.owner = g)
           /\ \E t \in Listed(Reopened(open, i, g)) : t.id = i
<1>1. PICK x, y : x = Without(open, i) /\ y = Reopened(open, i, g)
  OBVIOUS
<1>2. x \in Seq(Slot) /\ Listed(x) = {s \in Listed(open) : s.id # i}
  BY <1>1, SlotsKept
<1>3. y \in Seq(Slot) /\ Listed(y) = {s \in Listed(open) : s.id # i} \cup {[id |-> i, owner |-> g]}
  BY <1>1, SlotsKept
<1>4. PICK new : new = [id |-> i, owner |-> g]
  OBVIOUS
<1>5. new.id = i /\ new.owner = g
  BY <1>4
<1>6. \A t : t \in Listed(y) <=> (t \in Listed(open) /\ t.id # i) \/ t = new
  BY <1>3, <1>4
<1>7. \A t : t \in Listed(x) <=> t \in Listed(open) /\ t.id # i
  BY <1>2
<1> QED BY <1>1, <1>2, <1>3, <1>5, <1>6, <1>7

\* Both are calm if the stream is none of chunks.
LEMMA CalmOnes ==
    ASSUME NEW s, NEW k, NEW open, Leaving(s, k) => open \in Seq(Slot)
    PROVE  /\ Calm(s, k, open, open)
           /\ \A i \in Ids : (Leaving(s, k) => ~NamedAs(s, k, i)) =>
                 /\ Calm(s, k, open, Without(open, i))
                 /\ \A g \in Owner : ~Leaves(s, k, g) => Calm(s, k, open, Reopened(open, i, g))
<1>1. Calm(s, k, open, open)
  BY DEF Calm
<1>2. ASSUME NEW i \in Ids, Leaving(s, k), ~NamedAs(s, k, i)
      PROVE  /\ Calm(s, k, open, Without(open, i))
             /\ \A g \in Owner : ~Leaves(s, k, g) => Calm(s, k, open, Reopened(open, i, g))
  <2>1. Calm(s, k, open, Without(open, i))
    <3>1. PICK g : g \in Owner
      BY Vocabulary
    <3>2. /\ Without(open, i) \in Seq(Slot)
          /\ \A t \in Listed(Without(open, i)) : t \in Listed(open)
          /\ \A t \in Listed(open) : t.id # i => t \in Listed(Without(open, i))
      BY <1>2, <3>1, SlotFacts
    <3> QED BY <1>2, <3>2 DEF Calm
  <2>2. ASSUME NEW g \in Owner, ~Leaves(s, k, g)
        PROVE  Calm(s, k, open, Reopened(open, i, g))
    <3>1. /\ Reopened(open, i, g) \in Seq(Slot)
          /\ \A t \in Listed(open) : t.id # i => t \in Listed(Reopened(open, i, g))
          /\ \A t \in Listed(Reopened(open, i, g)) : t \in Listed(open) \/ (t.id = i /\ t.owner = g)
      BY <1>2, SlotFacts
    <3> QED BY <1>2, <2>2, <3>1 DEF Calm
  <2> QED BY <2>1, <2>2
<1>3. \A after : ~Leaving(s, k) => Calm(s, k, open, after)
  BY DEF Calm
<1> QED BY <1>1, <1>2, <1>3

\* Something else happens to the list.
LEMMA StreamsKept ==
    ASSUME NEW s, NEW k, NEW list, NEW open, Chunkwise(s, k, list, open),
           NEW i, Leaving(s, k) => ~NamedAs(s, k, i), NEW more, Grown(list, more, i),
           NEW after, Calm(s, k, open, after)
    PROVE  Chunkwise(s, k, more, after)
<1> SUFFICES ASSUME Leaving(s, k) PROVE Chunkwise(s, k, more, after)
  BY DEF Chunkwise
<1>1. after \in Seq(Slot)
  BY DEF Calm
<1>2. \A j : NamedAs(s, k, j) => \A n \in DOMAIN more : more[n].id = j => n \in DOMAIN list /\ list[n].id = j
  BY DEF Grown
<1>3. ASSUME NEW j \in Ids, NamedAs(s, k, j), Holds(more, j)
      PROVE  (\E t \in Listed(after) : t.id = j) /\ Told(more, j)
  <2>1. Holds(list, j)
    BY <1>2, <1>3 DEF Holds
  <2>2. (\E t \in Listed(open) : t.id = j) /\ Told(list, j)
    BY <1>3, <2>1 DEF Chunkwise
  <2>3. \E t \in Listed(after) : t.id = j
    BY <1>3, <2>2 DEF Calm
  <2>4. Told(more, j)
    BY <1>2, <1>3, <2>2 DEF Told, Grown, One
  <2> QED BY <2>3, <2>4
<1>4. ASSUME NEW t \in Listed(after), Leaves(s, k, t.owner)
      PROVE  NamedAs(s, k, t.id) /\ Holds(more, t.id)
  <2>1. t \in Listed(open)
    BY <1>4 DEF Calm
  <2>2. NamedAs(s, k, t.id) /\ Holds(list, t.id)
    BY <1>4, <2>1 DEF Chunkwise
  <2> QED BY <2>2 DEF Holds, Grown
<1> QED BY <1>1, <1>3, <1>4 DEF Chunkwise

\* A chunk of a stream is told.
LEMMA StreamsSpoken ==
    ASSUME NEW s, NEW k, NEW list, NEW open, Chunkwise(s, k, list, open),
           NEW i \in Ids, NamedAs(s, k, i), NEW g \in Owner, NEW more, Grown(list, more, i),
           One(list, i) => Told(more, i),
           NEW after, after = Reopened(open, i, g) \/ (after = open /\ Holds(list, i))
    PROVE  Chunkwise(s, k, more, after)
<1> SUFFICES ASSUME Leaving(s, k) PROVE Chunkwise(s, k, more, after)
  BY DEF Chunkwise
<1>0. /\ open \in Seq(Slot)
      /\ \A j \in Ids : NamedAs(s, k, j) /\ Holds(list, j) => (\E t \in Listed(open) : t.id = j) /\ Told(list, j)
      /\ \A t \in Listed(open) : Leaves(s, k, t.owner) => NamedAs(s, k, t.id) /\ Holds(list, t.id)
  BY DEF Chunkwise
<1>1. Told(more, i)
  <2>1. ~Holds(list, i) => One(list, i)
    BY DEF Holds, One
  <2> QED BY <1>0, <2>1 DEF Told
<1>2. /\ Reopened(open, i, g) \in Seq(Slot)
      /\ \A t \in Listed(open) : t.id # i => t \in Listed(Reopened(open, i, g))
      /\ \A t \in Listed(Reopened(open, i, g)) : t \in Listed(open) \/ (t.id = i /\ t.owner = g)
      /\ \E t \in Listed(Reopened(open, i, g)) : t.id = i
  BY <1>0, SlotFacts
<1>3. /\ after \in Seq(Slot)
      /\ \A t \in Listed(after) : t \in Listed(open) \/ t.id = i
      /\ \A t \in Listed(open) : t.id # i => t \in Listed(after)
      /\ \E t \in Listed(after) : t.id = i
  BY <1>0, <1>2
<1>4. ASSUME NEW j \in Ids, NamedAs(s, k, j), Holds(more, j)
      PROVE  (\E t \in Listed(after) : t.id = j) /\ Told(more, j)
  <2>1. CASE j = i
    BY <1>3, <1>1, <2>1
  <2>2. CASE j # i
    <3>1. \A n \in DOMAIN more : more[n].id = j => n \in DOMAIN list /\ list[n].id = j
      BY <2>2 DEF Grown
    <3>2. Holds(list, j)
      BY <1>4, <3>1 DEF Holds
    <3>3. (\E t \in Listed(open) : t.id = j) /\ Told(list, j)
      BY <1>0, <1>4, <3>2
    <3>4. Told(more, j)
      BY <1>4, <3>1, <3>3 DEF Told, Grown, One
    <3> QED BY <1>3, <2>2, <3>3, <3>4
  <2> QED BY <2>1, <2>2
<1>5. ASSUME NEW t \in Listed(after), Leaves(s, k, t.owner)
      PROVE  NamedAs(s, k, t.id) /\ Holds(more, t.id)
  <2>1. CASE t.id = i
    BY <1>1, <2>1 DEF Told
  <2>2. CASE t.id # i
    <3>1. NamedAs(s, k, t.id) /\ Holds(list, t.id)
      BY <1>0, <1>3, <1>5, <2>2
    <3> QED BY <3>1 DEF Holds, Grown
  <2> QED BY <2>1, <2>2
<1> QED BY <1>3, <1>4, <1>5 DEF Chunkwise

\* A call that comes in chunks is carried by the message they name.
Hung(s, messages, carrier) ==
    \A e \in Emits[s] : Named(e) /\ e.kind = "tool" /\ carrier[e.id] # 0 =>
        messages[carrier[e.id]].id = CarrierId(e.id, e.parent)

\* It stays so as messages come and calls are hung where they belong.
LEMMA CallsKept ==
    ASSUME NEW s \in Agents, NEW messages, NEW carrier \in [Ids -> Nat], Hung(s, messages, carrier),
           \A d \in Ids : carrier[d] # 0 => carrier[d] \in DOMAIN messages,
           NEW more, NEW i, Grown(messages, more, i)
    PROVE  /\ Hung(s, more, carrier)
           /\ \A c \in Ids, n \in DOMAIN more : \A after :
                 /\ Rehung(carrier, after, c, n)
                 /\ \A e \in Emits[s] : Named(e) /\ e.kind = "tool" /\ e.id = c => more[n].id = CarrierId(e.id, e.parent)
                 => Hung(s, more, after)
<1>1. \A e \in Emits[s] : Named(e) => e.id \in Ids
  BY DEF WireAssumption, WellFormed, Named
<1>2. ASSUME NEW e \in Emits[s], Named(e), e.kind = "tool", carrier[e.id] # 0
      PROVE  more[carrier[e.id]].id = CarrierId(e.id, e.parent)
  BY <1>1, <1>2 DEF Hung, Grown
<1>3. ASSUME NEW c \in Ids, NEW n \in DOMAIN more, NEW after, Rehung(carrier, after, c, n),
             \A e \in Emits[s] : Named(e) /\ e.kind = "tool" /\ e.id = c => more[n].id = CarrierId(e.id, e.parent)
      PROVE  Hung(s, more, after)
  <2>1. ASSUME NEW e \in Emits[s], Named(e), e.kind = "tool", after[e.id] # 0
        PROVE  more[after[e.id]].id = CarrierId(e.id, e.parent)
    <3>1. e.id \in Ids
      BY <1>1, <2>1
    <3>2. after[e.id] = carrier[e.id] \/ (e.id = c /\ after[e.id] = n)
      BY <1>3, <3>1 DEF Rehung
    <3> QED BY <1>2, <1>3, <2>1, <3>2
  <2> QED BY <2>1 DEF Hung
<1> QED BY <1>2, <1>3 DEF Hung

\* What an applier may rely on when a chunk names no stream.
Sound(s, a) ==
    /\ Chunkwise(s, "text", a.messages, a.openText)
    /\ Chunkwise(s, "reasoning", a.reasoning, a.reasoningStreams)
    /\ Hung(s, a.messages, a.carrier)

\* A step that starts no stream of chunks leaves all of it true.
LEMMA SoundStays ==
    ASSUME NEW s, NEW a, Sound(s, a), NEW b, NEW i, NEW o, NEW j, NEW t, Turned(a, b, i, o, j, t),
           Leaving(s, "text") => ~NamedAs(s, "text", i), Calm(s, "text", a.openText, o),
           Leaving(s, "reasoning") => ~NamedAs(s, "reasoning", j),
           Calm(s, "reasoning", a.reasoningStreams, t), Hung(s, b.messages, b.carrier)
    PROVE  Sound(s, b)
<1>1. Chunkwise(s, "text", b.messages, o)
  BY StreamsKept DEF Sound, Turned
<1>2. Chunkwise(s, "reasoning", b.reasoning, t)
  BY StreamsKept DEF Sound, Turned
<1> QED BY <1>1, <1>2 DEF Sound, Turned

\* What an agent that keeps to Orderly, Sorted and Plain does not do to its chunks.
LEMMA ProducerFacts ==
    ASSUME NEW s \in Agents, Orderly(s), Sorted(s), Plain(s), NEW e \in Emits[s]
    PROVE  /\ \A k, i : NamedAs(s, k, i) => i \in Ids /\ i # None /\ i \notin Derived
           /\ e.type \in Streaming => ~NamedAs(s, e.kind, e.id)
           /\ e.type \in Streaming /\ e.kind = "block" /\ Leaving(s, "reasoning") => ~NamedAs(s, "reasoning", e.id)
           /\ e.type = "START" => \A k : BucketOf(k) = BucketOf(e.kind) => ~Leaves(s, k, e.tag)
           /\ e.type \in Entering => ~NamedAs(s, "text", e.id)
           /\ e.type = "MESSAGES_SNAPSHOT" => \A k, i : ~Leaving(s, k) /\ ~NamedAs(s, k, i)
<1>1. ASSUME NEW f \in Emits[s], Named(f)
      PROVE  /\ f.id \in Ids /\ f.id # None /\ f.id \notin Derived /\ f.type = "CHUNK"
             /\ e.type \in Streaming => ~SameStream(f, e)
             /\ e.type = "TOOL_CALL_RESULT" /\ f.kind = "text" => e.id # f.id
  <2>1. WellFormed(f)
    BY DEF WireAssumption
  <2>2. f.id \in Ids /\ f.id # None /\ f.type = "CHUNK"
    BY <1>1, <2>1 DEF WellFormed, Named
  <2> QED BY <1>1, <2>2, DerivedFacts DEF Orderly
<1>2. \A k, i : NamedAs(s, k, i) => i \in Ids /\ i # None /\ i \notin Derived
  BY <1>1 DEF NamedAs
<1>3. e.type \in Streaming => ~NamedAs(s, e.kind, e.id)
  BY <1>1 DEF NamedAs, SameStream
<1>4. ASSUME e.type \in Streaming, e.kind = "block", Leaving(s, "reasoning"), NamedAs(s, "reasoning", e.id)
      PROVE  FALSE
  <2>1. PICK d \in Emits[s] : Bare(d) /\ d.kind = "reasoning"
    BY <1>4 DEF Leaving
  <2>2. PICK f \in Emits[s] : Named(f) /\ f.kind = "reasoning" /\ f.id = e.id
    BY <1>4 DEF NamedAs
  <2> QED BY <1>4, <2>1, <2>2 DEF Plain
<1>5. ASSUME e.type = "START", NEW k, BucketOf(k) = BucketOf(e.kind), Leaves(s, k, e.tag)
      PROVE  FALSE
  <2>1. PICK d \in Emits[s] : Bare(d) /\ d.kind = k /\ d.tag = e.tag
    BY <1>5 DEF Leaves
  <2> QED BY <1>5, <2>1 DEF Plain
<1>6. ASSUME e.type \in Entering, NamedAs(s, "text", e.id)
      PROVE  FALSE
  <2>1. PICK f \in Emits[s] : Named(f) /\ f.kind = "text" /\ f.id = e.id
    BY <1>6 DEF NamedAs
  <2>2. e.type # "TOOL_CALL_RESULT" /\ e.id \in Ids /\ f.type = "CHUNK"
    BY <1>1, <2>1
  <2>3. Says(s, <<"spoken", e.id>>)
    BY <2>1, <2>2 DEF Says, Entities
  <2>4. Says(s, <<"activity", e.id>>)
    BY <1>6, <2>2 DEF Says, Entities, Entering
  <2> QED BY <2>2, <2>3, <2>4, OneSort
<1>7. ASSUME e.type = "MESSAGES_SNAPSHOT", NEW k, NEW i
      PROVE  ~Leaving(s, k) /\ ~NamedAs(s, k, i)
  <2>1. \A f \in Emits[s] : f.type # "CHUNK"
    BY <1>7 DEF Sorted
  <2> QED BY <2>1 DEF Leaving, NamedAs, Bare, Named
<1> QED BY <1>2, <1>3, <1>4, <1>5, <1>6, <1>7

\* What an applier may rely on holds after an event that is no chunk.
LEMMA SoundOn ==
    ASSUME NEW s \in Agents, Orderly(s), Sorted(s), Plain(s), NEW a, Sized(a), Sound(s, a),
           \A c \in Ids : a.carrier[c] # 0 => a.carrier[c] \in DOMAIN a.messages,
           NEW e \in Emits[s], e.type # "CHUNK",
           e.type = "START" /\ e.kind = "tool" /\ e.parent # None => Holds(a.messages, e.parent),
           e.type = "CONTENT" /\ e.kind = "text" => Holds(a.messages, e.id),
           e.type = "CONTENT" /\ e.kind = "reasoning" => Holds(a.reasoning, e.id),
           Apply(a, e).ok, NEW b, b = Apply(a, e).applier
    PROVE  Sound(s, b)
<1>0. /\ IsApplier(a) /\ a.messages \in Seq(Msg) /\ a.reasoning \in Seq(Msg) /\ a.carrier \in [Ids -> Nat]
      /\ WellFormed(e) /\ \A x : x = Applied(x).applier
  BY DEF Sized, WireAssumption, Applied
<1>1. /\ Leaving(s, "text") => a.openText \in Seq(Slot)
      /\ Leaving(s, "reasoning") => a.reasoningStreams \in Seq(Slot)
      /\ Calm(s, "text", a.openText, a.openText) /\ Calm(s, "reasoning", a.reasoningStreams, a.reasoningStreams)
  BY CalmOnes DEF Sound, Chunkwise
<1>2. \A k, i : NamedAs(s, k, i) => i # None /\ i \notin Derived
  BY ProducerFacts
<1>3. ASSUME NEW i, ~NamedAs(s, "text", i), Turned(a, b, i, a.openText, None, a.reasoningStreams),
             Hung(s, b.messages, b.carrier)
      PROVE  Sound(s, b)
  BY <1>1, <1>2, <1>3, SoundStays
<1>4. ASSUME NEW i, NEW o, NEW j, NEW t, Turned(a, b, i, o, j, t), b.carrier = a.carrier
      PROVE  Hung(s, b.messages, b.carrier)
  BY <1>0, <1>4, CallsKept DEF Sound, Turned
<1>5. CASE e.type \notin OfStreams \cup {"MESSAGES_SNAPSHOT"}
  <2>1. PICK i : /\ Turned(a, b, i, a.openText, None, a.reasoningStreams)
                 /\ i = None \/ (e.type \in Entering /\ i = e.id)
    BY <1>0, <1>5, AsideTurns
  <2>2. b.carrier = a.carrier
    BY <1>0, <1>5, AsideTurns
  <2>3. ~NamedAs(s, "text", i)
    BY <1>2, <2>1, ProducerFacts
  <2> QED BY <1>3, <1>4, <2>1, <2>2, <2>3
<1>6. CASE e.type = "MESSAGES_SNAPSHOT"
  <2>1. \A k, i : ~Leaving(s, k) /\ ~NamedAs(s, k, i)
    BY <1>6, ProducerFacts
  <2>2. Hung(s, b.messages, b.carrier)
    BY <2>1 DEF Hung, NamedAs
  <2> QED BY <2>1, <2>2 DEF Sound, Chunkwise
<1>7. CASE e.type = "START"
  <2>0. e.kind \in Kinds /\ e.id \in Ids /\ e.tag \in Owner /\ e.parent \in Ids \cup {None} /\ e.type \in Streaming
    BY <1>0, <1>7 DEF WellFormed, Streaming
  <2>1. Apply(a, e) = ApplyStream(a, e)
    BY <1>7 DEF Apply
  <2>2. CASE e.kind = "text"
    <3>1. b = TextStart(a, e.id, RoleOf(e), e.tag)
      BY <1>0, <1>7, <2>1, <2>2 DEF ApplyStream
    <3>2. RoleOf(e) \in Roles
      BY <1>7, <2>2 DEF Sorted
    <3>3. /\ Turned(a, b, e.id, Reopened(a.openText, e.id, e.tag), None, a.reasoningStreams)
          /\ b.carrier = a.carrier
      BY <2>0, <3>1, <3>2, TextTurns
    <3>4. ~NamedAs(s, "text", e.id) /\ ~Leaves(s, "text", e.tag)
      BY <1>7, <2>0, <2>2, ProducerFacts
    <3>5. Calm(s, "text", a.openText, Reopened(a.openText, e.id, e.tag))
      BY <1>1, <2>0, <3>4, CalmOnes
    <3>6. Hung(s, b.messages, b.carrier)
      BY <1>4, <3>3
    <3> QED BY <1>1, <1>2, <3>3, <3>4, <3>5, <3>6, SoundStays
  <2>3. CASE e.kind = "tool"
    <3>1. PICK p : p = CarrierId(e.id, e.parent)
      OBVIOUS
    <3>2. b = ToolCallStart(a, e.id, p, e.tag)
      BY <1>0, <1>7, <2>1, <2>3, <3>1 DEF ApplyStream
    <3>3. p \in Ids \cup Derived /\ (e.parent # None => p = e.parent) /\ (e.parent = None => p \in Derived)
      BY <2>0, <3>1, DerivedFacts
    <3>4. /\ Turned(a, b, p, a.openText, None, a.reasoningStreams)
          /\ Holds(a.messages, p) => \A j : Turned(a, b, j, a.openText, None, a.reasoningStreams)
          /\ \E n \in DOMAIN b.messages : Rehung(a.carrier, b.carrier, e.id, n) /\ b.messages[n].id = p
      <4>1. PICK c \in Ids, g \in Owner : c = e.id /\ g = e.tag
        BY <2>0
      <4>2. b = ToolCallStart(a, c, p, g)
        BY <3>2, <4>1
      <4>3. /\ Turned(a, b, p, a.openText, None, a.reasoningStreams)
            /\ Holds(a.messages, p) => \A j : Turned(a, b, j, a.openText, None, a.reasoningStreams)
            /\ \E n \in DOMAIN b.messages : Rehung(a.carrier, b.carrier, c, n) /\ b.messages[n].id = p
        BY <3>3, <4>2, CallTurns
      <4> QED BY <4>1, <4>3
    <3>5. PICK i : ~NamedAs(s, "text", i) /\ Turned(a, b, i, a.openText, None, a.reasoningStreams)
      <4>1. CASE e.parent = None
        BY <1>2, <3>3, <3>4, <4>1
      <4>2. CASE e.parent # None
        <5>1. Holds(a.messages, p)
          BY <1>7, <2>3, <3>3, <4>2
        <5> QED BY <1>2, <3>4, <5>1
      <4> QED BY <4>1, <4>2
    <3>6. ~NamedAs(s, "tool", e.id)
      BY <1>7, <2>0, <2>3, ProducerFacts
    <3>7. \A f \in Emits[s] : ~(Named(f) /\ f.kind = "tool" /\ f.id = e.id)
      BY <3>6 DEF NamedAs
    <3>8. Hung(s, b.messages, b.carrier)
      <4>1. PICK n \in DOMAIN b.messages : Rehung(a.carrier, b.carrier, e.id, n)
        BY <3>4
      <4>2. Grown(a.messages, b.messages, i) /\ Hung(s, a.messages, a.carrier)
        BY <3>5 DEF Turned, Sound
      <4> QED BY <1>0, <2>0, <3>7, <4>1, <4>2, CallsKept
    <3> QED BY <1>3, <3>5, <3>8
  <2>4. CASE e.kind \in {"block", "reasoning"}
    <3>1. b = ReasoningStart(a, e.id, e.tag)
      BY <1>0, <1>7, <2>1, <2>4 DEF ApplyStream
    <3>2. /\ Turned(a, b, None, a.openText, e.id, Reopened(a.reasoningStreams, e.id, e.tag))
          /\ b.carrier = a.carrier
      BY <2>0, <3>1, ThoughtTurns
    <3>3. /\ Leaving(s, "reasoning") => ~NamedAs(s, "reasoning", e.id)
          /\ ~Leaves(s, "reasoning", e.tag)
      <4>1. BucketOf("reasoning") = BucketOf(e.kind)
        BY <2>4 DEF BucketOf
      <4> QED BY <1>7, <2>0, <2>4, <4>1, ProducerFacts
    <3>4. Calm(s, "reasoning", a.reasoningStreams, Reopened(a.reasoningStreams, e.id, e.tag))
      BY <1>1, <2>0, <3>3, CalmOnes
    <3>5. Hung(s, b.messages, b.carrier)
      BY <1>4, <3>2
    <3> QED BY <1>1, <1>2, <3>2, <3>3, <3>4, <3>5, SoundStays
  <2> QED BY <2>0, <2>2, <2>3, <2>4 DEF Kinds, ChunkKinds
<1>8. CASE e.type = "CONTENT"
  <2>0. e.kind \in ChunkKinds /\ e.id \in Ids /\ e.tag \in Owner /\ Apply(a, e) = ApplyStream(a, e)
    BY <1>0, <1>8 DEF WellFormed, Apply
  <2>1. b.carrier = a.carrier /\ Turned(a, b, None, a.openText, None, a.reasoningStreams)
    <3>1. CASE e.kind = "text"
      <4>1. Apply(a, e) = TextContent(a, e.id, e.tag)
        BY <1>8, <2>0, <3>1 DEF ApplyStream
      <4> QED BY <1>8, <2>0, <3>1, <4>1, TextTold
    <3>2. CASE e.kind = "tool"
      <4>1. Apply(a, e) = ToolCallArgs(a, e.id)
        BY <1>8, <2>0, <3>2 DEF ApplyStream
      <4> QED BY <2>0, <4>1, CallTold
    <3>3. CASE e.kind = "reasoning"
      <4>1. b = ReasoningContent(a, e.id, e.tag)
        BY <1>0, <1>8, <2>0, <3>3 DEF ApplyStream
      <4>2. Holds(a.reasoning, e.id) /\ At(a.reasoning, e.id) # 0
        BY <1>0, <1>8, <3>3, AtFacts
      <4>3. b = Think(a, e.id)
        BY <4>1, <4>2 DEF ReasoningContent
      <4>4. \A j : Turned(a, Think(a, e.id), None, a.openText, j, a.reasoningStreams)
        BY <2>0, <4>2, ThoughtTurns
      <4>5. Think(a, e.id).carrier = a.carrier
        BY <2>0, <4>2, ThoughtTurns
      <4> QED BY <4>3, <4>4, <4>5
    <3> QED BY <2>0, <3>1, <3>2, <3>3 DEF ChunkKinds
  <2> QED BY <1>2, <1>3, <1>4, <2>1
<1>9. CASE e.type = "END"
  <2>0. e.kind \in Kinds /\ e.id \in Ids /\ e.tag \in Owner /\ Apply(a, e) = ApplyStream(a, e) /\ e.type \in Streaming
    BY <1>0, <1>9 DEF WellFormed, Apply, Streaming
  <2>1. CASE e.kind = "text"
    <3>1. b = TextEnd(a, e.id)
      BY <1>0, <1>9, <2>0, <2>1 DEF ApplyStream
    <3>2. Turned(a, b, None, Without(a.openText, e.id), None, a.reasoningStreams) /\ b.carrier = a.carrier
      BY <2>0, <3>1, TextTurns
    <3>3. ~NamedAs(s, "text", e.id)
      BY <1>9, <2>0, <2>1, ProducerFacts
    <3>4. Calm(s, "text", a.openText, Without(a.openText, e.id))
      BY <1>1, <2>0, <3>3, CalmOnes
    <3>5. Hung(s, b.messages, b.carrier)
      BY <1>4, <3>2
    <3> QED BY <1>1, <1>2, <3>2, <3>4, <3>5, SoundStays
  <2>2. CASE e.kind = "tool"
    <3>1. b = a
      BY <1>0, <1>9, <2>0, <2>2 DEF ApplyStream
    <3> QED BY <3>1
  <2>3. CASE e.kind \in {"block", "reasoning"}
    <3>1. b = ReasoningEnd(a, e.id)
      BY <1>0, <1>9, <2>0, <2>3 DEF ApplyStream
    <3>2. Turned(a, b, None, a.openText, None, Without(a.reasoningStreams, e.id)) /\ b.carrier = a.carrier
      BY <2>0, <3>1, ThoughtTurns
    <3>3. Leaving(s, "reasoning") => ~NamedAs(s, "reasoning", e.id)
      BY <1>9, <2>0, <2>3, ProducerFacts
    <3>4. Calm(s, "reasoning", a.reasoningStreams, Without(a.reasoningStreams, e.id))
      BY <1>1, <2>0, <3>3, CalmOnes
    <3>5. Hung(s, b.messages, b.carrier)
      BY <1>4, <3>2
    <3> QED BY <1>1, <1>2, <3>2, <3>4, <3>5, SoundStays
  <2> QED BY <2>0, <2>1, <2>2, <2>3 DEF Kinds, ChunkKinds
<1> QED BY <1>5, <1>6, <1>7, <1>8, <1>9 DEF OfStreams

\* Nor does a chunk break it, whether it names its stream or was resolved to it.
LEMMA SoundText ==
    ASSUME NEW s \in Agents, Orderly(s), Sorted(s), Plain(s), NEW a, Sized(a), Sound(s, a),
           \A c \in Ids : a.carrier[c] # 0 => a.carrier[c] \in DOMAIN a.messages,
           NEW i \in Ids, NamedAs(s, "text", i), NEW g \in Owner, TextChunk(a, i, g).ok,
           NEW b, b = TextChunk(a, i, g).applier
    PROVE  Sound(s, b)
<1>0. a.carrier \in [Ids -> Nat] /\ Grown(a.messages, a.messages, None)
  BY GrownOnes DEF Sized
<1>1. PICK o : /\ Turned(a, b, i, o, None, a.reasoningStreams)
               /\ o = Reopened(a.openText, i, g) \/ (o = a.openText /\ Holds(a.messages, i))
  BY SpokenChunk
<1>2. b.carrier = a.carrier /\ (One(a.messages, i) => Told(b.messages, i))
  BY SpokenChunk
<1>3. /\ Chunkwise(s, "text", a.messages, a.openText) /\ Chunkwise(s, "reasoning", a.reasoning, a.reasoningStreams)
      /\ Hung(s, a.messages, a.carrier)
  BY DEF Sound
<1>4. /\ Grown(a.messages, b.messages, i) /\ b.openText = o /\ Grown(a.reasoning, b.reasoning, None)
      /\ b.reasoningStreams = a.reasoningStreams
  BY <1>1 DEF Turned
<1>5. Chunkwise(s, "text", b.messages, b.openText)
  BY <1>1, <1>2, <1>3, <1>4, StreamsSpoken
<1>6. Chunkwise(s, "reasoning", b.reasoning, b.reasoningStreams)
  <2>1. Calm(s, "reasoning", a.reasoningStreams, a.reasoningStreams)
    BY <1>3, CalmOnes DEF Chunkwise
  <2>2. \A e \in Emits[s] : Named(e) => e.id # None
    BY DEF Named
  <2>3. ~NamedAs(s, "reasoning", None)
    BY <2>2 DEF NamedAs
  <2> QED BY <1>3, <1>4, <2>1, <2>3, StreamsKept
<1>7. Hung(s, b.messages, b.carrier)
  BY <1>0, <1>2, <1>3, <1>4, CallsKept
<1> QED BY <1>5, <1>6, <1>7 DEF Sound

\* The same of a thought.
LEMMA SoundThought ==
    ASSUME NEW s \in Agents, Orderly(s), Sorted(s), Plain(s), NEW a, Sized(a), Sound(s, a),
           \A c \in Ids : a.carrier[c] # 0 => a.carrier[c] \in DOMAIN a.messages,
           NEW i \in Ids, NamedAs(s, "reasoning", i), NEW g \in Owner,
           NEW b, b = ReasoningChunk(a, i, g).applier
    PROVE  Sound(s, b)
<1>0. a.carrier \in [Ids -> Nat] /\ Grown(a.messages, a.messages, None)
  BY GrownOnes DEF Sized
<1>1. PICK t : /\ Turned(a, b, None, a.openText, i, t)
               /\ t = Reopened(a.reasoningStreams, i, g) \/ (t = a.reasoningStreams /\ Holds(a.reasoning, i))
  BY ThoughtChunk
<1>2. b.carrier = a.carrier /\ (One(a.reasoning, i) => Told(b.reasoning, i))
  BY ThoughtChunk
<1>3. /\ Chunkwise(s, "text", a.messages, a.openText) /\ Chunkwise(s, "reasoning", a.reasoning, a.reasoningStreams)
      /\ Hung(s, a.messages, a.carrier)
  BY DEF Sound
<1>4. /\ Grown(a.messages, b.messages, None) /\ b.openText = a.openText /\ Grown(a.reasoning, b.reasoning, i)
      /\ b.reasoningStreams = t
  BY <1>1 DEF Turned
<1>5. Chunkwise(s, "reasoning", b.reasoning, b.reasoningStreams)
  BY <1>1, <1>2, <1>3, <1>4, StreamsSpoken
<1>6. Chunkwise(s, "text", b.messages, b.openText)
  <2>1. Calm(s, "text", a.openText, a.openText)
    BY <1>3, CalmOnes DEF Chunkwise
  <2>2. \A e \in Emits[s] : Named(e) => e.id # None
    BY DEF Named
  <2>3. ~NamedAs(s, "text", None)
    BY <2>2 DEF NamedAs
  <2> QED BY <1>3, <1>4, <2>1, <2>3, StreamsKept
<1>7. Hung(s, b.messages, b.carrier)
  BY <1>0, <1>2, <1>3, <1>4, CallsKept
<1> QED BY <1>5, <1>6, <1>7 DEF Sound

\* The same of a call.
LEMMA SoundCall ==
    ASSUME NEW s \in Agents, Orderly(s), Sorted(s), Plain(s), NEW a, Sized(a), Sound(s, a),
           \A c \in Ids : a.carrier[c] # 0 => a.carrier[c] \in DOMAIN a.messages,
           NEW e \in Emits[s], Named(e), e.kind = "tool", e.parent # None => Holds(a.messages, e.parent),
           ToolCallChunk(a, e).ok, NEW b, b = ToolCallChunk(a, e).applier
    PROVE  Sound(s, b)
<1>0. /\ a.carrier \in [Ids -> Nat] /\ a.messages \in Seq(Msg)
      /\ e.id \in Ids /\ e.id # None /\ e.tag \in Owner /\ e.parent \in Ids \cup {None}
  BY DEF Sized, WireAssumption, WellFormed, Named
<1>1. /\ \A k, i : NamedAs(s, k, i) => i # None /\ i \notin Derived
      /\ Calm(s, "text", a.openText, a.openText) /\ Calm(s, "reasoning", a.reasoningStreams, a.reasoningStreams)
  BY ProducerFacts, CalmOnes DEF Sound, Chunkwise
<1>2. ASSUME NEW i, ~NamedAs(s, "text", i), Turned(a, b, i, a.openText, None, a.reasoningStreams),
             Hung(s, b.messages, b.carrier)
      PROVE  Sound(s, b)
  BY <1>1, <1>2, SoundStays
<1>3. Hung(s, a.messages, a.carrier)
  BY DEF Sound
<1>4. CASE a.carrier[e.id] # 0
  <2>1. ToolCallChunk(a, e) = ToolCallArgs(a, e.id)
    BY <1>0, <1>4 DEF ToolCallChunk
  <2>2. Turned(a, b, None, a.openText, None, a.reasoningStreams) /\ b.carrier = a.carrier
    <3>1. PICK c \in Ids : c = e.id
      BY <1>0
    <3>2. a.carrier[c] # 0 => a.carrier[c] \in DOMAIN a.messages
      OBVIOUS
    <3>3. PICK y : y = ToolCallArgs(a, c)
      OBVIOUS
    <3>4. /\ \A j : Turned(a, y.applier, j, a.openText, None, a.reasoningStreams)
          /\ y.applier.carrier = a.carrier
      BY <1>0, <3>2, <3>3, CallTold
    <3>5. b = y.applier
      BY <2>1, <3>1, <3>3
    <3> QED BY <3>4, <3>5
  <2>3. Hung(s, b.messages, b.carrier)
    BY <1>0, <1>3, <2>2, CallsKept DEF Turned
  <2> QED BY <1>1, <1>2, <2>2, <2>3
<1>5. CASE a.carrier[e.id] = 0
  <2>1. PICK c \in Ids, g \in Owner : c = e.id /\ g = e.tag
    BY <1>0
  <2>2. PICK p, x : p = CarrierId(c, e.parent) /\ x = ToolCallStart(a, c, p, g)
    OBVIOUS
  <2>3. ToolCallChunk(a, e) = IF e.named THEN ToolCallArgs(x, c) ELSE Failed(a)
    BY <1>0, <1>5, <2>1, <2>2 DEF ToolCallChunk
  <2>4. ToolCallArgs(x, c).ok /\ b = ToolCallArgs(x, c).applier
    BY <2>3 DEF Failed
  <2>5. p \in Ids \cup Derived /\ (e.parent # None => p = e.parent) /\ (e.parent = None => p \in Derived)
    BY <1>0, <2>2, DerivedFacts
  <2>6. /\ Turned(a, x, p, a.openText, None, a.reasoningStreams)
        /\ Holds(a.messages, p) => \A j : Turned(a, x, j, a.openText, None, a.reasoningStreams)
        /\ \E n \in DOMAIN x.messages : Rehung(a.carrier, x.carrier, c, n) /\ x.messages[n].id = p
    BY <2>2, <2>5, CallTurns
  <2>7. PICK i : ~NamedAs(s, "text", i) /\ Turned(a, x, i, a.openText, None, a.reasoningStreams)
    <3>1. CASE e.parent = None
      BY <1>1, <2>5, <2>6, <3>1
    <3>2. CASE e.parent # None
      BY <1>1, <2>5, <2>6, <3>2
    <3> QED BY <3>1, <3>2
  <2>8. PICK n \in DOMAIN x.messages : Rehung(a.carrier, x.carrier, c, n) /\ x.messages[n].id = p
    BY <2>6
  <2>9. /\ Sized(x) /\ x.openText = a.openText /\ x.reasoningStreams = a.reasoningStreams
        /\ x.carrier \in [Ids -> Nat] /\ Grown(a.messages, x.messages, i)
    BY <2>7 DEF Turned, Sized
  <2>10. \A d \in Ids : x.carrier[d] # 0 => x.carrier[d] \in DOMAIN x.messages
    <3>1. ASSUME NEW d \in Ids, x.carrier[d] # 0
          PROVE  x.carrier[d] \in DOMAIN x.messages
      <4>1. x.carrier[d] = a.carrier[d] \/ x.carrier[d] = n
        BY <1>0, <2>8 DEF Rehung
      <4>2. DOMAIN a.messages \subseteq DOMAIN x.messages
        BY <2>9 DEF Grown
      <4> QED BY <3>1, <4>1, <4>2
    <3> QED BY <3>1
  <2>11. Turned(x, b, i, x.openText, None, x.reasoningStreams) /\ b.carrier = x.carrier
    <3>1. x.carrier[c] # 0 => x.carrier[c] \in DOMAIN x.messages
      BY <2>10
    <3>2. PICK y : y = ToolCallArgs(x, c)
      OBVIOUS
    <3>3. /\ \A j : Turned(x, y.applier, j, x.openText, None, x.reasoningStreams)
          /\ y.applier.carrier = x.carrier
      BY <2>9, <3>1, <3>2, CallTold
    <3> QED BY <2>4, <3>2, <3>3
  <2>12. Turned(a, b, i, a.openText, None, a.reasoningStreams)
    <3>1. PICK o, t : o = a.openText /\ t = a.reasoningStreams
      OBVIOUS
    <3>2. Turned(a, x, i, o, None, t) /\ Turned(x, b, i, o, None, t)
      BY <2>7, <2>9, <2>11, <3>1
    <3>3. Turned(a, b, i, o, None, t)
      BY ONLY <3>2, TurnedOn
    <3> QED BY <3>1, <3>3
  <2>13. Hung(s, x.messages, x.carrier)
    <3>1. \A f \in Emits[s] : Named(f) /\ f.kind = "tool" /\ f.id = c => x.messages[n].id = CarrierId(f.id, f.parent)
      <4>1. ASSUME NEW f \in Emits[s], Named(f), f.kind = "tool", f.id = c
            PROVE  f.parent = e.parent
        BY <2>1, <4>1 DEF Plain, SameStream
      <4> QED BY <2>2, <2>8, <4>1
    <3> QED BY <1>0, <1>3, <2>8, <2>9, <3>1, CallsKept
  <2>14. Hung(s, b.messages, b.carrier)
    <3>1. Grown(x.messages, b.messages, i)
      BY <2>11 DEF Turned
    <3> QED BY <2>9, <2>10, <2>11, <2>13, <3>1, CallsKept
  <2> QED BY <1>2, <2>7, <2>12, <2>14
<1> QED BY <1>4, <1>5

\* The stream a chunk without an id is resolved to: its author's, or the only one.
LEMMA ResolvedTo ==
    ASSUME NEW open \in Seq(Slot), NEW g, ResolveOpen(open, g) # None
    PROVE  \E t \in Listed(open) :
              t.id = ResolveOpen(open, g) /\ (t.owner = g \/ \A u \in Listed(open) : u = t)
<1> DEFINE I == {n \in 1..Len(open) : open[n].owner = g}
<1>1. PICK own : own = (IF I # {} THEN Max(I) ELSE 0)
  OBVIOUS
<1>2. I \in SUBSET (1..Len(open)) /\ Len(open) \in Nat /\ DOMAIN open = 1..Len(open)
  OBVIOUS
<1>3. I # {} => Max(I) \in I
  <2> HIDE DEF I
  <2> QED BY <1>2, LastNumber
<1>4. ResolveOpen(open, g) = IF own # 0 THEN open[own].id
                             ELSE IF g = None /\ Len(open) = 1 THEN open[1].id ELSE None
  BY <1>1 DEF ResolveOpen, SelectLastInSeq
<1>5. own # 0 => own \in DOMAIN open /\ open[own].owner = g
  BY <1>1, <1>2, <1>3
<1> HIDE DEF I
<1>6. CASE own # 0
  BY <1>4, <1>5, <1>6 DEF Listed
<1>7. CASE own = 0
  <2>1. Len(open) = 1 /\ ResolveOpen(open, g) = open[1].id
    BY <1>4, <1>7
  <2>2. DOMAIN open = {1}
    BY <1>2, <2>1
  <2> QED BY <2>1, <2>2 DEF Listed
<1> QED BY <1>6, <1>7

\* It is a stream of chunks if there is one.
LEMMA ResolvedSound ==
    ASSUME NEW s, NEW k, NEW list, NEW open, Chunkwise(s, k, list, open),
           NEW e \in Emits[s], Bare(e), e.kind = k, NEW j \in Ids, NamedAs(s, k, j), Holds(list, j),
           NEW i, i = ResolveOpen(open, e.tag), i # None
    PROVE  i \in Ids /\ NamedAs(s, k, i) /\ Told(list, i)
<1>1. Leaving(s, k) /\ Leaves(s, k, e.tag)
  BY DEF Leaving, Leaves
<1>2. /\ open \in Seq(Slot)
      /\ \A d \in Ids : NamedAs(s, k, d) /\ Holds(list, d) => (\E t \in Listed(open) : t.id = d) /\ Told(list, d)
      /\ \A t \in Listed(open) : Leaves(s, k, t.owner) => NamedAs(s, k, t.id) /\ Holds(list, t.id)
  BY <1>1 DEF Chunkwise
<1>3. PICK t \in Listed(open) : t.id = i /\ (t.owner = e.tag \/ \A u \in Listed(open) : u = t)
  <2>1. PICK g : g = e.tag
    OBVIOUS
  <2>2. ResolveOpen(open, g) # None /\ i = ResolveOpen(open, g)
    BY <2>1
  <2>3. \E t \in Listed(open) : t.id = ResolveOpen(open, g) /\ (t.owner = g \/ \A u \in Listed(open) : u = t)
    <3>1. PICK w \in Seq(Slot) : w = open
      BY <1>2
    <3>2. ResolveOpen(w, g) # None
      BY <2>2, <3>1
    <3>3. \E t \in Listed(w) : t.id = ResolveOpen(w, g) /\ (t.owner = g \/ \A u \in Listed(w) : u = t)
      BY ONLY <3>2, ResolvedTo
    <3> QED BY <3>1, <3>3
  <2> QED BY <2>1, <2>2, <2>3
<1>4. i \in Ids
  <2>1. PICK n \in DOMAIN open : t = open[n]
    BY <1>3 DEF Listed
  <2>2. t \in Slot
    BY <1>2, <2>1
  <2>3. t.id \in Ids
    BY <2>2 DEF Slot
  <2> QED BY <1>3, <2>3
<1>5. NamedAs(s, k, i) /\ Holds(list, i)
  <2>1. CASE t.owner = e.tag
    BY <1>1, <1>2, <1>3, <2>1
  <2>2. CASE \A u \in Listed(open) : u = t
    BY <1>2, <1>3, <2>2
  <2> QED BY <1>3, <2>1, <2>2
<1> QED BY <1>2, <1>4, <1>5

\* A chunk for a message that is written leaves the conversation as it is, and so does
\* the content the normalizer makes of it, whichever such message each is led to.
LEMMA TextAgain ==
    ASSUME NEW a, NEW b, SameView(a, b), b.messages \in Seq(Msg),
           NEW i \in Ids, Told(b.messages, i), NEW y \in Ids, Told(b.messages, y), NEW g \in Owner, NEW h
    PROVE  SameView(TextChunk(a, i, g).applier, TextContent(b, y, h).applier)
<1>1. /\ IsApplier(a) /\ IsApplier(b) /\ a.messages = b.messages
      /\ a.carrier = b.carrier /\ a.reasoning = b.reasoning
  BY DEF SameView
<1>2. ASSUME NEW d, IsApplier(d), d.messages = b.messages, NEW j, Told(b.messages, j), NEW f
      PROVE  TextContent(d, j, f).applier = d
  <2>1. /\ Holds(d.messages, j) /\ d.messages \in Seq(Msg)
        /\ \A n \in DOMAIN d.messages : d.messages[n].id = j => d.messages[n].written
    BY <1>2 DEF Told
  <2>2. PICK n \in DOMAIN d.messages : n = At(d.messages, j) /\ n # 0 /\ d.messages[n].id = j
    BY <2>1, AtFacts
  <2>3. AppendText(d, n).applier = d
    BY <1>2, <2>1, <2>2, WrittenStays
  <2> QED BY <2>2, <2>3 DEF TextContent
<1>3. TextContent(b, y, h).applier = b /\ TextContent(b, i, g).applier = b /\ TextContent(a, i, g).applier = a
  BY <1>1, <1>2
<1>4. SameView(TextContent(TextStart(a, i, "assistant", g), i, g).applier, TextContent(b, i, g).applier)
  BY TextOnce
<1>5. i # None
  BY EventsAssumption
<1> QED BY <1>3, <1>4, <1>5 DEF TextChunk

\* The same of a thought.
LEMMA ThoughtAgain ==
    ASSUME NEW a, NEW b, SameView(a, b), b.reasoning \in Seq(Msg),
           NEW i \in Ids, Told(b.reasoning, i), NEW y \in Ids, Told(b.reasoning, y), NEW g \in Owner, NEW h
    PROVE  SameView(ReasoningChunk(a, i, g).applier, ReasoningContent(b, y, h))
<1>1. /\ IsApplier(a) /\ IsApplier(b) /\ a.messages = b.messages
      /\ a.carrier = b.carrier /\ a.reasoning = b.reasoning
  BY DEF SameView
<1>2. ASSUME NEW d, IsApplier(d), d.reasoning = b.reasoning, NEW j, Told(b.reasoning, j), NEW f
      PROVE  ReasoningContent(d, j, f) = d
  <2>1. /\ Holds(d.reasoning, j) /\ d.reasoning \in Seq(Msg)
        /\ \A n \in DOMAIN d.reasoning : d.reasoning[n].id = j => d.reasoning[n].written
    BY <1>2 DEF Told
  <2>2. At(d.reasoning, j) # 0 /\ d.reasoning[At(d.reasoning, j)].written
    BY <2>1, AtFacts
  <2>3. Think(d, j) = d
    BY <1>2, <2>1, <2>2, WrittenStays
  <2> QED BY <2>2, <2>3 DEF ReasoningContent
<1>3. ReasoningContent(b, y, h) = b /\ ReasoningContent(b, i, g) = b /\ ReasoningContent(a, i, g) = a
  BY <1>1, <1>2
<1>4. SameView(ReasoningContent(ReasoningStart(a, i, g), i, g), ReasoningContent(b, i, g))
  BY ThoughtOnce
<1>5. i # None
  BY EventsAssumption
<1> QED BY <1>3, <1>4, <1>5 DEF ReasoningChunk, Applied

\* A chunk without an id does the same with a normalizer as without, if it was led
\* to a stream of chunks.
LEMMA BareOn ==
    ASSUME NEW s \in Agents, Orderly(s), Sorted(s), Plain(s), NEW a, NEW b, SameView(a, b), Sized(a), Sound(s, a),
           \A c \in Ids : a.carrier[c] # 0 => a.carrier[c] \in DOMAIN a.messages,
           NEW e \in Emits[s], Bare(e), Apply(a, e).ok, NEW y \in Ids, NamedAs(s, e.kind, y),
           e.kind = "text" => Holds(b.messages, y), e.kind = "reasoning" => Holds(b.reasoning, y),
           NEW h, NEW c, c = Content(e.kind, y, h)
    PROVE  SameView(Apply(a, e).applier, Apply(b, c).applier) /\ Sound(s, Apply(a, e).applier)
<1>0. /\ e.type = "CHUNK" /\ e.id = None /\ e.kind \in {"text", "tool", "reasoning"} /\ e.tag \in Owner
      /\ Leaving(s, e.kind)
  BY WireAssumption, Vocabulary DEF WellFormed, Bare, Leaving
<1>1. a.messages = b.messages /\ a.reasoning = b.reasoning /\ b.messages \in Seq(Msg) /\ b.reasoning \in Seq(Msg)
  BY DEF SameView, Sized
<1>2. /\ Chunkwise(s, "text", a.messages, a.openText)
      /\ Chunkwise(s, "reasoning", a.reasoning, a.reasoningStreams)
  BY DEF Sound
<1>3. c.type = "CONTENT" /\ c.kind = e.kind /\ c.id = y /\ c.tag = h
  BY DEF Content
<1>4. PICK g \in Owner : g = e.tag
  BY <1>0
<1>5. CASE e.kind = "tool"
  BY <1>0, <1>5 DEF Apply, ApplyChunk, ToolCallChunk, Failed
<1>6. CASE e.kind = "text"
  <2>1. PICK i : i = ResolveOpen(a.openText, g)
    OBVIOUS
  <2>2. Apply(a, e) = TextChunk(a, i, g)
    BY <1>0, <1>4, <1>6, <2>1 DEF Apply, ApplyChunk
  <2>3. i # None
    BY <2>2 DEF TextChunk, Failed
  <2>4. NamedAs(s, "text", y) /\ Holds(a.messages, y) /\ Leaving(s, "text")
    BY <1>0, <1>1, <1>6
  <2>5. i \in Ids /\ NamedAs(s, "text", i) /\ Told(a.messages, i)
    BY <1>2, <1>4, <1>6, <2>1, <2>3, <2>4, ResolvedSound
  <2>6. Told(a.messages, y)
    BY <1>2, <2>4 DEF Chunkwise
  <2>7. SameView(TextChunk(a, i, g).applier, TextContent(b, y, h).applier)
    BY <1>1, <2>5, <2>6, TextAgain
  <2>8. Apply(b, c) = TextContent(b, y, h)
    BY <1>3, <1>6 DEF Apply, ApplyStream
  <2>9. Sound(s, TextChunk(a, i, g).applier)
    <3>1. PICK d : d = TextChunk(a, i, g).applier
      OBVIOUS
    <3>2. Sound(s, d)
      BY <2>2, <2>5, <3>1, SoundText
    <3> QED BY <3>1, <3>2
  <2> QED BY <2>2, <2>7, <2>8, <2>9
<1>7. CASE e.kind = "reasoning"
  <2>1. PICK i : i = ResolveOpen(a.reasoningStreams, g)
    OBVIOUS
  <2>2. Apply(a, e) = ReasoningChunk(a, i, g)
    BY <1>0, <1>4, <1>7, <2>1 DEF Apply, ApplyChunk
  <2>3. i # None
    BY <2>2 DEF ReasoningChunk, Failed
  <2>4. NamedAs(s, "reasoning", y) /\ Holds(a.reasoning, y) /\ Leaving(s, "reasoning")
    BY <1>0, <1>1, <1>7
  <2>5. i \in Ids /\ NamedAs(s, "reasoning", i) /\ Told(a.reasoning, i)
    BY <1>2, <1>4, <1>7, <2>1, <2>3, <2>4, ResolvedSound
  <2>6. Told(a.reasoning, y)
    BY <1>2, <2>4 DEF Chunkwise
  <2>7. SameView(ReasoningChunk(a, i, g).applier, ReasoningContent(b, y, h))
    BY <1>1, <2>5, <2>6, ThoughtAgain
  <2>8. Apply(b, c) = Applied(ReasoningContent(b, y, h))
    BY <1>3, <1>7 DEF Apply, ApplyStream
  <2>9. Sound(s, ReasoningChunk(a, i, g).applier)
    <3>1. PICK d : d = ReasoningChunk(a, i, g).applier
      OBVIOUS
    <3>2. Sound(s, d)
      BY <2>5, <3>1, SoundThought
    <3> QED BY <3>1, <3>2
  <2> QED BY <2>2, <2>7, <2>8, <2>9 DEF Applied
<1> QED BY <1>0, <1>5, <1>6, <1>7

\* A chunk that names its stream is one its applier may rely on.
LEMMA SoundNamed ==
    ASSUME NEW s \in Agents, Orderly(s), Sorted(s), Plain(s), NEW a, Sized(a), Sound(s, a),
           \A c \in Ids : a.carrier[c] # 0 => a.carrier[c] \in DOMAIN a.messages,
           NEW e \in Emits[s], Named(e), e.parent # None => Holds(a.messages, e.parent), Apply(a, e).ok
    PROVE  Sound(s, Apply(a, e).applier)
<1>0. /\ e.type = "CHUNK" /\ e.id # None /\ e.id \in Ids /\ e.tag \in Owner
      /\ e.kind \in {"text", "tool", "reasoning"} /\ NamedAs(s, e.kind, e.id)
  BY WireAssumption, Vocabulary DEF WellFormed, Named, NamedAs
<1>1. PICK i \in Ids, g \in Owner : i = e.id /\ g = e.tag
  BY <1>0
<1>2. PICK b : b = Apply(a, e).applier
  OBVIOUS
<1>3. CASE e.kind = "text"
  <2>1. Apply(a, e) = TextChunk(a, i, g)
    BY <1>0, <1>1, <1>3 DEF Apply, ApplyChunk
  <2>2. Sound(s, b)
    BY <1>0, <1>1, <1>2, <1>3, <2>1, SoundText
  <2> QED BY <1>2, <2>2
<1>4. CASE e.kind = "reasoning"
  <2>1. Apply(a, e) = ReasoningChunk(a, i, g)
    BY <1>0, <1>1, <1>4 DEF Apply, ApplyChunk
  <2>2. Sound(s, b)
    BY <1>0, <1>1, <1>2, <1>4, <2>1, SoundThought
  <2> QED BY <1>2, <2>2
<1>5. CASE e.kind = "tool"
  <2>1. Apply(a, e) = ToolCallChunk(a, e)
    BY <1>0, <1>5 DEF Apply, ApplyChunk
  <2>2. Sound(s, b)
    BY <1>2, <1>5, <2>1, SoundCall
  <2> QED BY <1>2, <2>2
<1> QED BY <1>0, <1>3, <1>4, <1>5

\* What is in flight at the normalizer is held at the applier.
LEMMA InFlightHeld ==
    ASSUME NEW e, Ready(agent, server, streams, client, e), Fits(agent, client, applier),
           NEW k, NEW i, NEW t \in Listed(streams), t.kind = k, t.id = i
    PROVE  /\ k = "text" => Holds(applier.messages, i)
           /\ k = "tool" => applier.carrier[i] # 0
           /\ k = "reasoning" => Holds(applier.reasoning, i)
           /\ t.owed => NamedAs(agent, k, i)
<1>1. /\ streams \in Seq(N!Stream) /\ Entry(agent, server.owner, client.open, t)
  BY ReadyFacts DEF InFlight
<1>2. k \in ChunkKinds /\ i \in Ids
  BY <1>1, ListedFields
<1>3. client.open[k][i] # Absent
  BY <1>1 DEF Entry
<1>4. t.owed => NamedAs(agent, k, i)
  BY <1>1 DEF Entry, Chunked, NamedAs
<1>5. k = "text" => Holds(applier.messages, i)
  BY <1>2, <1>3 DEF Fits, Held, Spoken, Holds
<1>6. k = "tool" => applier.carrier[i] # 0
  BY <1>2, <1>3 DEF Fits, Held
<1>7. k = "reasoning" => Holds(applier.reasoning, i)
  BY <1>2, <1>3 DEF Fits, Thoughts
<1> QED BY <1>4, <1>5, <1>6, <1>7

\* One more event of a line that ends well.
LEMMA TakenAfter ==
    ASSUME verdict = "ok", NEW e, S!Accepts(server, e), Becomes(Send(Whole, e)), verdict' = "ok",
           IsApplier(applier), applier.messages \in Seq(Msg), NEW xs \in Seq(Ends)
    PROVE  /\ Ingest(e).out = xs => Ingest(e).ok
           /\ \A x \in Heard : x.type # "CHUNK" /\ Ingest(e).out = Append(xs, x) =>
                 SameView(applier', Apply(applier, x).applier)
           /\ \A x, y \in Heard : \A p :
                 x.type = "START" /\ y.type = "CONTENT" /\ Ingest(e).out = xs \o <<x, y>> /\ p = Apply(applier, x) =>
                    SameView(applier', Apply(p.applier, y).applier)
<1>1. PICK v, r : v = S!Fold(server, e) /\ r = Ingest(e)
  OBVIOUS
<1>2. PICK line : line = Line(v, r.open, client, applier, "ok")
  OBVIOUS
<1>3. ASSUME NEW d, NEW b, NEW u, Handled(line, r.out) = Line(v, r.open, d, b, u)
      PROVE  u = "ok" /\ r.ok /\ applier' = b
  BY <1>1, <1>2, <1>3, TakenLine
<1>4. ASSUME r.out = xs
      PROVE  r.ok
  <2>1. \E d, b, u : /\ Handled(line, xs) = Line(v, r.open, d, b, u)
                     /\ u = "ok" => SameView(b, applier)
    <3>1. PICK h : h = Handled(Line(v, r.open, client, applier, "ok"), xs)
      OBVIOUS
    <3>2. \E d, b, u : h = Line(v, r.open, d, b, u) /\ (u = "ok" => SameView(b, applier))
      BY <3>1, EndsView
    <3> QED BY <1>2, <3>1, <3>2
  <2> QED BY <1>3, <1>4, <2>1
<1>5. ASSUME NEW x \in Heard, x.type # "CHUNK", r.out = Append(xs, x)
      PROVE  SameView(applier', Apply(applier, x).applier)
  <2>1. PICK h : h = Handled(Line(v, r.open, client, applier, "ok"), Append(xs, x))
    OBVIOUS
  <2>2. PICK d, b, u : /\ h = Line(v, r.open, d, b, u)
                       /\ u = "ok" => Apply(applier, x).ok /\ SameView(b, Apply(applier, x).applier)
    BY <1>5, <2>1, LastView
  <2>3. u = "ok" /\ applier' = b
    BY <1>2, <1>3, <1>5, <2>1, <2>2
  <2> QED BY <2>2, <2>3
<1>6. ASSUME NEW x \in Heard, NEW y \in Heard, NEW p, x.type = "START", y.type = "CONTENT",
             r.out = xs \o <<x, y>>, p = Apply(applier, x)
      PROVE  SameView(applier', Apply(p.applier, y).applier)
  <2>1. PICK h : h = Handled(Line(v, r.open, client, applier, "ok"), xs \o <<x, y>>)
    OBVIOUS
  <2>2. PICK d, b, u : /\ h = Line(v, r.open, d, b, u)
                       /\ u = "ok" => Apply(p.applier, y).ok /\ SameView(b, Apply(p.applier, y).applier)
    BY <1>6, <2>1, LastTwoView
  <2>3. u = "ok" /\ applier' = b
    BY <1>2, <1>3, <1>6, <2>1, <2>2
  <2> QED BY <2>2, <2>3
<1> QED BY <1>1, <1>4, <1>5, <1>6

\* A chunk does to both appliers the same, and leaves the one fed directly sound.
LEMMA ChunkView ==
    ASSUME NEW e, Ready(agent, server, streams, client, e), e.type = "CHUNK", Sorted(agent), Plain(agent),
           Fits(agent, client, applier), Tidy(e), verdict = "ok", Becomes(Send(Whole, e)), verdict' = "ok",
           NEW a, SameView(a, applier), Sized(a), Sound(agent, a), Apply(a, e).ok
    PROVE  SameView(Apply(a, e).applier, applier') /\ Sound(agent, Apply(a, e).applier)
<1>0. /\ agent \in Agents /\ Orderly(agent) /\ e \in Emits[agent] /\ WellFormed(e) /\ S!Accepts(server, e)
      /\ streams \in Seq(N!Stream) /\ Single(streams) /\ e.kind \in ChunkKinds /\ e.tag \in Owner
      /\ e.parent \in Ids \cup {None}
  BY ReadyFacts, Vocabulary DEF Ready, InFlight, WellFormed
<1>1. /\ IsApplier(applier) /\ applier.messages \in Seq(Msg) /\ applier.reasoning \in Seq(Msg)
      /\ applier.messages = a.messages /\ applier.carrier = a.carrier /\ applier.reasoning = a.reasoning
      /\ Conversation(agent, client.owner, applier.messages, applier.carrier)
      /\ \A c \in Ids : a.carrier[c] # 0 => a.carrier[c] \in DOMAIN a.messages
  BY DEF SameView, Fits, Conversation, Thoughts
<1>2. Ingest(e) = N!Normalize(streams, e)
  BY <1>0 DEF Ingest
<1>3. <<>> \in Seq(Ends) /\ \A x : Append(<<>>, x) = <<x>>
  OBVIOUS
<1>4. N!Normalize(streams, e).ok
  <2>1. ~N!Normalize(streams, e).ok => N!Normalize(streams, e).out = <<>>
    BY ChunkRefused
  <2>2. PICK xs \in Seq(Ends) : xs = <<>>
    BY <1>3
  <2>3. Ingest(e).out = xs => Ingest(e).ok
    BY <1>0, <1>1, TakenAfter
  <2> QED BY <1>2, <2>1, <2>2, <2>3
<1>5. PICK i : i = N!StreamId(streams, e)
  OBVIOUS
<1>6. PICK g : g = N!OwnerOf(streams, e.kind, i, e.tag)
  OBVIOUS
<1>7. PlacedAs(e, streams, i, g)
  BY <1>4, <1>5, <1>6 DEF PlacedAs
<1>8. i # None
  BY <1>7, ChunkPlaced
<1>9. Named(e) => Sound(agent, Apply(a, e).applier)
  <2>1. e.parent # None => Holds(a.messages, e.parent)
    BY <1>1 DEF Tidy, Holds
  <2> QED BY <1>0, <1>1, <2>1, SoundNamed
<1>10. PICK y : y = Content(e.kind, i, g)
  OBVIOUS
<1>11. CASE N!Current(streams, e.kind, g) = i
  <2>1. Ingest(e).out = <<y>>
    <3>1. Goes(streams, e, i, g)
      BY <1>7, <1>11, ChunkPlaced
    <3> QED BY <1>2, <1>10, <3>1 DEF Goes
  <2>2. PICK t \in Listed(streams) : t.kind = e.kind /\ t.owner = g /\ t.id = i
    BY <1>0, <1>8, <1>11, CurrentListed
  <2>3. i \in Ids /\ g \in Owner
    BY <1>0, <2>2, ListedFields
  <2>4. y \in Heard /\ y.type = "CONTENT"
    <3>1. Content(e.kind, i, g) \in Heard
      BY <1>0, <2>3, HeardOnes
    <3> QED BY <1>10, <3>1 DEF Content
  <2>5. SameView(applier', Apply(applier, y).applier)
    <3>1. PICK xs \in Seq(Ends) : xs = <<>>
      BY <1>3
    <3>2. Ingest(e).out = Append(xs, y) /\ y.type # "CHUNK"
      BY <1>3, <2>1, <2>4, <3>1
    <3>3. \A x \in Heard : x.type # "CHUNK" /\ Ingest(e).out = Append(xs, x) =>
                 SameView(applier', Apply(applier, x).applier)
      BY <1>0, <1>1, TakenAfter
    <3> QED BY <2>4, <3>2, <3>3
  <2>6. /\ e.kind = "text" => Holds(applier.messages, i)
        /\ e.kind = "tool" => applier.carrier[i] # 0
        /\ e.kind = "reasoning" => Holds(applier.reasoning, i)
    BY <2>2, InFlightHeld
  <2>7. CASE Named(e)
    <3>1. i = e.id
      BY <1>5, <2>7 DEF N!StreamId, Named
    <3>2. SameView(Apply(a, e).applier, Apply(applier, y).applier)
      BY <1>0, <1>1, <1>10, <2>6, <2>7, <3>1, GoneOnView
    <3> QED BY <1>9, <2>5, <2>7, <3>2 DEF SameView
  <2>8. CASE ~Named(e)
    <3>1. Bare(e)
      BY <2>8 DEF Bare, Named
    <3>2. NamedAs(agent, e.kind, i)
      <4>1. PICK n : n = N!OfId(streams, e.kind, i)
        OBVIOUS
      <4>2. streams[n].owed
        BY <1>5, <1>8, <3>1, <4>1 DEF Tidy, ContinuesChunks
      <4>3. n \in DOMAIN streams /\ streams[n].kind = e.kind /\ streams[n].id = i
        BY <1>0, <2>2, <4>1, IdFound
      <4>4. streams[n] \in Listed(streams)
        BY <1>0, <4>3, ListedOnes
      <4> QED BY <4>2, <4>3, <4>4, InFlightHeld
    <3>3. SameView(Apply(a, e).applier, Apply(applier, y).applier) /\ Sound(agent, Apply(a, e).applier)
      BY <1>0, <1>1, <1>10, <2>3, <2>6, <3>1, <3>2, BareOn
    <3> QED BY <2>5, <3>3 DEF SameView
  <2> QED BY <2>7, <2>8
<1>12. CASE N!Current(streams, e.kind, g) # i
  <2>1. e.id # None
    BY <1>0, <1>5, <1>6, <1>8, <1>12, NamelessGoesOn
  <2>2. Named(e) /\ i = e.id /\ e.id \in Ids
    BY <1>0, <1>5, <2>1 DEF Named, N!StreamId, WellFormed
  <2>3. g = e.tag
    BY <1>6, <1>12, <2>2, FirstTag
  <2>4. PICK x : x = Opening(e.kind, e.id, e.tag, e.parent)
    OBVIOUS
  <2>5. y = Content(e.kind, e.id, e.tag)
    BY <1>10, <2>2, <2>3
  <2>6. x \in Heard /\ x.type = "START" /\ y \in Heard /\ y.type = "CONTENT"
    <3>1. PICK k \in ChunkKinds, j \in Ids, h \in Owner, q \in Ids \cup {None} :
             k = e.kind /\ j = e.id /\ h = e.tag /\ q = e.parent
      BY <1>0, <2>2
    <3>2. Content(k, j, h) \in Heard /\ Opening(k, j, h, q) \in Heard
      BY HeardOnes
    <3> QED BY <2>4, <2>5, <3>1, <3>2 DEF Opening, Content
  <2>7. PICK xs : xs = N!CloseOwner(streams, g).out
    OBVIOUS
  <2>8. Ingest(e).out = xs \o <<x, y>>
    <3>1. Opens(streams, e, i, g)
      BY <1>7, <1>12, ChunkPlaced
    <3> QED BY <1>2, <1>10, <2>2, <2>3, <2>4, <2>7, <3>1 DEF Opens
  <2>9. xs \in Seq(Ends)
    <3>1. PICK r : r = N!CloseOwner(streams, g)
      OBVIOUS
    <3>2. EndsIn(r)
      BY <1>0, <3>1, ClosedEnds
    <3> QED BY <2>7, <3>1, <3>2 DEF EndsIn, N!Result
  <2>10. PICK p : p = Apply(applier, x)
    OBVIOUS
  <2>11. SameView(applier', Apply(p.applier, y).applier)
    <3>1. \A z, w \in Heard : \A q :
             z.type = "START" /\ w.type = "CONTENT" /\ Ingest(e).out = xs \o <<z, w>> /\ q = Apply(applier, z) =>
                SameView(applier', Apply(q.applier, w).applier)
      BY <1>0, <1>1, <2>9, TakenAfter
    <3> QED BY <2>6, <2>8, <2>10, <3>1
  <2>12. e.kind = "tool" /\ applier.carrier[e.id] # 0 =>
            applier.messages[applier.carrier[e.id]].id = CarrierId(e.id, e.parent)
    BY <1>0, <1>1, <2>2 DEF Sound, Hung
  <2>13. SameView(Apply(a, e).applier, Apply(Apply(applier, x).applier, y).applier)
    <3>1. PICK owner : owner = client.owner
      OBVIOUS
    <3>2. Conversation(agent, owner, applier.messages, applier.carrier)
      BY <1>1, <3>1
    <3> QED BY <1>0, <1>1, <2>2, <2>4, <2>5, <2>12, <3>2, OpenedView
  <2> QED BY <1>9, <2>2, <2>10, <2>11, <2>13 DEF SameView
<1> QED BY <1>11, <1>12

\* So does any other event.
LEMMA PlainView ==
    ASSUME NEW e, Ready(agent, server, streams, client, e), e.type # "CHUNK", Sorted(agent), Plain(agent),
           Fits(agent, client, applier), Tidy(e), verdict = "ok", Becomes(Send(Whole, e)), verdict' = "ok",
           NEW a, SameView(a, applier), Sized(a), Sound(agent, a)
    PROVE  SameView(Apply(a, e).applier, applier') /\ Sound(agent, Apply(a, e).applier)
<1>0. /\ agent \in Agents /\ Orderly(agent) /\ e \in Emits[agent] /\ WellFormed(e) /\ S!StreamRules(server, e)
      /\ InFlight(agent, server.open, server.owner, streams, client.open)
  BY ReadyFacts
<1>1. /\ applier.messages \in Seq(Msg)
      /\ applier.messages = a.messages /\ applier.carrier = a.carrier /\ applier.reasoning = a.reasoning
      /\ \A c \in Ids : a.carrier[c] # 0 => a.carrier[c] \in DOMAIN a.messages
  BY DEF SameView, Fits, Conversation
<1>2. Apply(a, e).ok /\ SameView(Apply(a, e).applier, applier')
  BY <1>1, ExplicitView
<1>3. e.type = "START" /\ e.kind = "tool" /\ e.parent # None => Holds(a.messages, e.parent)
  BY <1>1 DEF Tidy, Holds
<1>4. ASSUME e.type = "CONTENT", e.kind \in {"text", "reasoning"}
      PROVE  client.open[e.kind][e.id] # Absent /\ e.id \in Ids
  <2>1. e.kind \in ChunkKinds /\ e.id \in Ids /\ e.kind # "block"
    BY <1>0, <1>4, Vocabulary DEF WellFormed
  <2>2. server.open[e.kind][e.id] # Absent
    BY <1>0, <1>4, <2>1, Names DEF S!StreamRules, S!IsOpen
  <2> QED BY <1>0, <2>1, <2>2 DEF InFlight
<1>5. e.type = "CONTENT" /\ e.kind = "text" => Holds(a.messages, e.id)
  BY <1>1, <1>4 DEF Fits, Held, Spoken, Holds
<1>6. e.type = "CONTENT" /\ e.kind = "reasoning" => Holds(a.reasoning, e.id)
  BY <1>1, <1>4 DEF Fits, Thoughts
<1>7. PICK b : b = Apply(a, e).applier
  OBVIOUS
<1>8. Sound(agent, b)
  BY <1>0, <1>1, <1>2, <1>3, <1>5, <1>6, <1>7, SoundOn
<1> QED BY <1>2, <1>7, <1>8

\* While the line goes on and the applier fed directly has not failed, the two hold the
\* same, and that one may rely on its own account of the streams.
RInv ==
    raw.ok /\ verdict = "ok" => SameView(raw.applier, applier) /\ Sound(agent, raw.applier)

\* With nothing held there is nothing to rely on.
LEMMA SoundAtFirst ==
    ASSUME NEW s \in Agents
    PROVE  IsApplier(NewApplier) /\ Sound(s, NewApplier)
<1>1. /\ NewApplier.messages = <<>> /\ NewApplier.reasoning = <<>>
      /\ NewApplier.openText = <<>> /\ NewApplier.reasoningStreams = <<>>
      /\ NewApplier.carrier = [i \in Ids |-> 0]
  BY DEF NewApplier
<1>2. IsApplier(NewApplier)
  BY DEF NewApplier, IsApplier, Fields
<1>3. DOMAIN <<>> = {} /\ <<>> \in Seq(Slot)
  OBVIOUS
<1>4. (\A i : ~Holds(<<>>, i)) /\ Listed(<<>>) = {}
  BY <1>3 DEF Holds, Listed
<1>5. \A k : Chunkwise(s, k, <<>>, <<>>)
  BY <1>3, <1>4 DEF Chunkwise
<1>6. \A e \in Emits[s] : Named(e) => e.id \in Ids
  BY WireAssumption DEF WellFormed, Named
<1>7. Hung(s, <<>>, [i \in Ids |-> 0])
  BY <1>6 DEF Hung
<1> QED BY <1>1, <1>2, <1>5, <1>7 DEF Sound

\* Whatever the agent utters, both take alike.
LEMMA BothTake ==
    ASSUME TInv, RInv, Orderly(agent), Sorted(agent), Plain(agent), NEW e \in Emits[agent], Utter(e)
    PROVE  RInv'
<1> SUFFICES ASSUME raw'.ok, verdict' = "ok"
             PROVE  SameView(raw'.applier, applier') /\ Sound(agent', raw'.applier)
  BY DEF RInv
<1>0. /\ server.started /\ verdict = "ok" /\ Tidy(e) /\ S!Accepts(server, e) /\ agent' = agent
      /\ TypeOK /\ Accord(agent, server, streams, client) /\ Fits(agent, client, applier)
      /\ Becomes(Send(Whole, e)) /\ raw' = IF raw.ok THEN Apply(raw.applier, e) ELSE raw
  BY DEF Utter, TInv, IInv
<1>1. Ready(agent, server, streams, client, e)
  BY <1>0 DEF Ready, TypeOK
<1>2. raw.ok /\ raw' = Apply(raw.applier, e)
  BY <1>0
<1>3. PICK a : a = raw.applier
  OBVIOUS
<1>4. SameView(a, applier) /\ Sound(agent, a)
  BY <1>0, <1>2, <1>3 DEF RInv
<1>5. Sized(a)
  BY <1>0, <1>4 DEF SameView, Sized, Fits, Conversation, Thoughts
<1>6. Apply(a, e).ok
  BY <1>2, <1>3
<1>7. SameView(Apply(a, e).applier, applier') /\ Sound(agent, Apply(a, e).applier)
  <2>1. CASE e.type = "CHUNK"
    BY <1>0, <1>1, <1>4, <1>5, <1>6, <2>1, ChunkView
  <2>2. CASE e.type # "CHUNK"
    BY <1>0, <1>1, <1>4, <1>5, <2>2, PlainView
  <2> QED BY <2>1, <2>2
<1> QED BY <1>0, <1>2, <1>3, <1>7

\* An applier that is fed the chunks themselves assembles the transcript that the
\* normalizer's client does, though each resolves a chunk without an id against streams
\* of its own (apply.rs resolve_open, chunks.rs stream_id).
THEOREM RawTranscript ==
    ASSUME \A a \in Agents : Orderly(a) /\ Sorted(a) /\ Plain(a)
    PROVE  TranscriptSpec => []RawAssembles
<1>1. TranscriptInit => RInv
  <2> SUFFICES ASSUME TranscriptInit PROVE RInv
    OBVIOUS
  <2>1. agent \in Agents /\ applier = NewApplier /\ raw.applier = NewApplier
    BY DEF TranscriptInit, Init, Applied
  <2> QED BY <2>1, SoundAtFirst DEF RInv, SameView
<1>2. TInv /\ RInv /\ [TranscriptNext]_transcriptVars => RInv'
  <2> SUFFICES ASSUME TInv, RInv, [TranscriptNext]_transcriptVars PROVE RInv'
    OBVIOUS
  <2>1. Orderly(agent) /\ Sorted(agent) /\ Plain(agent)
    BY DEF TInv, IInv, TypeOK
  <2>2. CASE BeginBoth
    <3>1. applier' = NewApplier
      BY <2>1, <2>2, BothBegin
    <3>2. applier = NewApplier /\ verdict = "ok" /\ raw' = raw /\ agent' = agent
      BY <2>2 DEF BeginBoth, TInv, IInv
    <3> QED BY <3>1, <3>2 DEF RInv
  <2>3. ASSUME NEW e \in Emits[agent], Utter(e)
        PROVE  RInv'
    BY <2>1, <2>3, BothTake
  <2>4. CASE UNCHANGED transcriptVars
    BY <2>4 DEF transcriptVars, vars, RInv
  <2> QED BY <2>2, <2>3, <2>4 DEF TranscriptNext, Over
<1>3. TranscriptSpec => []TInv
  BY TranscriptConsistent
<1>4. RInv => RawAssembles
  BY DEF RInv, RawAssembles, SameView
<1> QED BY <1>1, <1>2, <1>3, <1>4, PTL DEF TranscriptSpec
=============================================================================
