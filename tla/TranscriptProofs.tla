-------------------------- MODULE TranscriptProofs --------------------------
(***************************************************************************)
(* What the applier holds of a run, for any agents that keep to Orderly and *)
(* Sorted, any ids, subagents and transformers: it can apply whatever the   *)
(* client's verifier lets through, and it attributes what it holds as the   *)
(* verifier does.                                                           *)
(***************************************************************************)
EXTENDS Transcript, WireProofs

USE EventsAssumption, WireAssumption, TranscriptAssumption

\* The ids a message can have: an agent's, or the one made up for a call's message.
Derived == {CarrierId(c, None) : c \in Ids}
Msg == MessageRecord(Ids \cup Derived)

Holds(list, i) == \E n \in DOMAIN list : list[n].id = i
Distinct(list) == \A m, n \in DOMAIN list : list[m].id = list[n].id => m = n

\* What agent `s` may ever say: of an id, of a thought, of an activity.
Says(s, x) == \E e \in Emits[s] : x \in Entities(e)
Thought(s, i) ==
    \E e \in Emits[s] : e.type \in Streaming \cup {"CHUNK"} /\ e.kind \in {"block", "reasoning"} /\ e.id = i
Activity(s, i) ==
    \E e \in Emits[s] : e.type \in {"ACTIVITY_SNAPSHOT", "ACTIVITY_DELTA"} /\ e.id = i

\* A message is where its id says, for the owner the verifier holds, and so are its
\* calls; or it was made up for a call.
Placed(s, owner, m) ==
    /\ \/ /\ m.id \in Ids /\ Says(s, <<Sort(m.role), m.id>>)
          /\ owner[BucketOfRole(m.role)][m.id] = m.owner
       \/ m.role = "assistant" /\ \E c \in Ids : m.id = CarrierId(c, None) /\ Carries(m, c)
    /\ m.calls # <<>> => m.role = "assistant"
    /\ \A c \in Ids : Carries(m, c) => owner["call"][c] = m.owner

Conversation(s, owner, messages, carrier) ==
    /\ messages \in Seq(Msg) /\ Distinct(messages)
    /\ \A n \in DOMAIN messages : Placed(s, owner, messages[n])
    /\ carrier \in [Ids -> Nat]
    /\ \A c \in Ids : carrier[c] # 0 =>
          carrier[c] \in DOMAIN messages /\ Carries(messages[carrier[c]], c)

\* What is open at the verifier, or recorded as an activity, is held.
Spoken(messages, i) == \E n \in DOMAIN messages : messages[n].id = i /\ Sort(messages[n].role) = "spoken"
Held(s, owner, open, messages, carrier) ==
    \A i \in Ids :
        /\ open["text"][i] # Absent => Spoken(messages, i)
        /\ open["tool"][i] # Absent => carrier[i] # 0
        /\ Activity(s, i) /\ owner["activity"][i] # Absent => Holds(messages, i)

\* The same for the thoughts.
Thoughts(s, owner, open, reasoning) ==
    /\ reasoning \in Seq(Msg)
    /\ \A n \in DOMAIN reasoning :
          /\ reasoning[n].id \in Ids /\ Thought(s, reasoning[n].id)
          /\ owner["reasoning"][reasoning[n].id] = reasoning[n].owner
    /\ \A i \in Ids :
          /\ open["reasoning"][i] # Absent => Holds(reasoning, i)
          /\ Thought(s, i) /\ owner["reasoning"][i] # Absent => Holds(reasoning, i)

\* What the agent's own chunks name is nobody else's.
OwnChunk(e) ==
    /\ Named(e) /\ e.tag = None
    /\ e.kind = "text" \/ (e.kind = "tool" /\ e.parent = None)
Unclaimed(s, owner) ==
    \A e \in Emits[s] : OwnChunk(e) => owner[BucketOf(e.kind)][e.id] \in {Absent, None}

\* An applier, by the fields that matter.
Fields == {"state", "messages", "carrier", "openText", "reasoning", "openReasoning",
           "reasoningStreams", "subagents"}
IsApplier(a) == a = [f \in Fields |-> a[f]]
View(a, messages, carrier, reasoning) ==
    IsApplier(a) /\ a.messages = messages /\ a.carrier = carrier /\ a.reasoning = reasoning

Fits(s, c, a) ==
    /\ IsApplier(a)
    /\ Conversation(s, c.owner, a.messages, a.carrier)
    /\ Held(s, c.owner, c.open, a.messages, a.carrier)
    /\ Thoughts(s, c.owner, c.open, a.reasoning)
    /\ Unclaimed(s, c.owner)

-----------------------------------------------------------------------------
(* Searches *)

\* The last of some numbers.
LEMMA LastNumber ==
    ASSUME NEW L \in Nat, NEW I \in SUBSET (1..L), I # {}
    PROVE  Max(I) \in I /\ \A n \in I : n <= Max(I)
<1> DEFINE Back == {L - n : n \in I}
<1>1. Back \in SUBSET Nat /\ Back # {}
  <2>1. \A n \in I : n \in 1..L /\ L - n \in Nat
    OBVIOUS
  <2> QED BY <2>1
<1> HIDE DEF Back
<1>2. PICK b \in Back : \A d \in Back : b <= d
  BY <1>1, LeastNumber
<1>3. PICK n \in I : b = L - n
  BY DEF Back
<1>4. \A m \in I : L - m \in Back
  BY DEF Back
<1>5. \A m \in I : m <= n
  BY <1>2, <1>3, <1>4
<1> QED BY <1>3, <1>5 DEF Max

\* A message is found by its id if it is there.
LEMMA AtFacts ==
    ASSUME NEW list \in Seq(Msg), NEW i
    PROVE  /\ At(list, i) # 0 => At(list, i) \in DOMAIN list /\ list[At(list, i)].id = i
           /\ At(list, i) = 0 <=> ~Holds(list, i)
<1> DEFINE I == {n \in 1..Len(list) : list[n].id = i}
<1>1. At(list, i) = IF I # {} THEN Max(I) ELSE 0
  BY DEF At, SelectLastInSeq
<1>2. I # {} => Max(I) \in I
  <2>1. I \in SUBSET (1..Len(list)) /\ Len(list) \in Nat
    OBVIOUS
  <2> HIDE DEF I
  <2> QED BY <2>1, LastNumber
<1> QED BY <1>1, <1>2 DEF Holds

\* So is the last message that names an entity.
LEMMA NamingFacts ==
    ASSUME NEW list \in Seq(Msg), NEW b, NEW i
    PROVE  /\ LastNaming(list, b, i) \in Nat
           /\ LastNaming(list, b, i) # 0 =>
                 LastNaming(list, b, i) \in DOMAIN list /\ Naming(list[LastNaming(list, b, i)], b, i)
           /\ LastNaming(list, b, i) = 0 => \A n \in DOMAIN list : ~Naming(list[n], b, i)
<1> DEFINE I == {n \in 1..Len(list) : Naming(list[n], b, i)}
<1>1. LastNaming(list, b, i) = IF I # {} THEN Max(I) ELSE 0
  BY DEF LastNaming, SelectLastInSeq
<1>2. I # {} => Max(I) \in I
  <2>1. I \in SUBSET (1..Len(list)) /\ Len(list) \in Nat
    OBVIOUS
  <2> HIDE DEF I
  <2> QED BY <2>1, LastNumber
<1> QED BY <1>1, <1>2

-----------------------------------------------------------------------------
(* The conversation *)

LEMMA MsgFields ==
    ASSUME NEW m \in Msg
    PROVE  /\ m.id \in Ids \cup Derived /\ m.role \in Roles /\ m.owner \in Owner
           /\ m.calls \in Seq(CallRecord) /\ BucketOfRole(m.role) \in Buckets
           /\ \A g \in Owner : [m EXCEPT !.owner = g] \in Msg
           /\ \A x \in BOOLEAN : [m EXCEPT !.written = x] \in Msg /\ [m EXCEPT !.signed = x] \in Msg
           /\ \A calls \in Seq(CallRecord) : [m EXCEPT !.calls = calls] \in Msg
BY Vocabulary DEF Msg, MessageRecord, BucketOfRole

\* A made-up id is no agent's, and says whose call it is for.
LEMMA DerivedFacts ==
    /\ Derived \cap Ids = {}
    /\ \A c \in Ids : CarrierId(c, None) \in Derived
    /\ \A c, d \in Ids : CarrierId(c, None) = CarrierId(d, None) => c = d
    /\ \A c \in Ids, p \in Ids : CarrierId(c, p) = p
<1>1. \A c, d \in Ids : CarrierId(c, None) = CarrierId(d, None) => c = d
  BY DEF CarrierId
<1>2. \A c \in Ids, p \in Ids : CarrierId(c, p) = p
  BY DEF CarrierId
<1> QED BY <1>1, <1>2 DEF Derived

\* Owners that were recorded stay.
Grows(owner, after) == \A b \in Buckets, i \in Ids : owner[b][i] # Absent => after[b][i] = owner[b][i]

LEMMA PlacedGrows ==
    ASSUME NEW s, NEW owner, NEW after, Grows(owner, after), NEW m \in Msg, Placed(s, owner, m)
    PROVE  Placed(s, after, m)
<1>1. m.owner # Absent /\ BucketOfRole(m.role) \in Buckets /\ "call" \in Buckets
  BY MsgFields, Vocabulary
<1>2. \A c \in Ids : Carries(m, c) => after["call"][c] = m.owner
  BY <1>1 DEF Placed, Grows
<1>3. m.id \in Ids /\ owner[BucketOfRole(m.role)][m.id] = m.owner =>
         after[BucketOfRole(m.role)][m.id] = m.owner
  BY <1>1 DEF Grows
<1> QED BY <1>2, <1>3 DEF Placed

LEMMA ConversationGrows ==
    ASSUME NEW s, NEW owner, NEW after, Grows(owner, after), NEW messages, NEW carrier,
           Conversation(s, owner, messages, carrier)
    PROVE  Conversation(s, after, messages, carrier)
<1>1. \A n \in DOMAIN messages : messages[n] \in Msg
  BY DEF Conversation
<1>2. \A n \in DOMAIN messages : Placed(s, after, messages[n])
  BY <1>1, PlacedGrows DEF Conversation
<1> QED BY <1>2 DEF Conversation

\* A message is added.
LEMMA MessageAdded ==
    ASSUME NEW s, NEW owner, NEW messages, NEW carrier, Conversation(s, owner, messages, carrier),
           NEW m \in Msg, ~Holds(messages, m.id), Placed(s, owner, m)
    PROVE  /\ Conversation(s, owner, Append(messages, m), carrier)
           /\ \A i : Holds(messages, i) => Holds(Append(messages, m), i)
           /\ \A i : Spoken(messages, i) => Spoken(Append(messages, m), i)
           /\ Holds(Append(messages, m), m.id)
           /\ Sort(m.role) = "spoken" => Spoken(Append(messages, m), m.id)
           /\ Len(messages) + 1 \in DOMAIN Append(messages, m) /\ Append(messages, m)[Len(messages) + 1] = m
<1> DEFINE more == Append(messages, m)
<1>0. messages \in Seq(Msg)
  BY DEF Conversation
<1>1. /\ more \in Seq(Msg) /\ DOMAIN more = 1..(Len(messages) + 1)
      /\ more[Len(messages) + 1] = m /\ Len(messages) \in Nat
      /\ \A n \in DOMAIN messages : n \in DOMAIN more /\ more[n] = messages[n]
      /\ \A n \in DOMAIN more : n = Len(messages) + 1 \/ n \in DOMAIN messages
      /\ Len(messages) + 1 \in DOMAIN more
  BY <1>0
<1> HIDE DEF more
<1>2. Distinct(more)
  BY <1>1 DEF Distinct, Conversation, Holds
<1>3. \A n \in DOMAIN more : Placed(s, owner, more[n])
  BY <1>1 DEF Conversation
<1>4. \A c \in Ids : carrier[c] # 0 => carrier[c] \in DOMAIN more /\ Carries(more[carrier[c]], c)
  BY <1>1 DEF Conversation
<1>5. Conversation(s, owner, more, carrier)
  BY <1>1, <1>2, <1>3, <1>4 DEF Conversation
<1>6. \A i : (Holds(messages, i) => Holds(more, i)) /\ (Spoken(messages, i) => Spoken(more, i))
  BY <1>1 DEF Holds, Spoken
<1>7. Holds(more, m.id) /\ (Sort(m.role) = "spoken" => Spoken(more, m.id))
  BY <1>1 DEF Holds, Spoken
<1> QED BY <1>1, <1>5, <1>6, <1>7 DEF more

\* A message is rewritten: it stays the same message and carries what it did.
LEMMA MessageRewritten ==
    ASSUME NEW s, NEW owner, NEW messages \in Seq(Msg), Distinct(messages), NEW carrier,
           NEW n \in DOMAIN messages, NEW m \in Msg,
           m.id = messages[n].id, m.role = messages[n].role,
           \A c \in Ids : Carries(messages[n], c) => Carries(m, c),
           Placed(s, owner, m), \A k \in DOMAIN messages : k # n => Placed(s, owner, messages[k]),
           carrier \in [Ids -> Nat],
           \A c \in Ids : carrier[c] # 0 =>
              carrier[c] \in DOMAIN messages /\ Carries(messages[carrier[c]], c)
    PROVE  /\ Conversation(s, owner, [messages EXCEPT ![n] = m], carrier)
           /\ \A i : Holds(messages, i) => Holds([messages EXCEPT ![n] = m], i)
           /\ \A i : Spoken(messages, i) => Spoken([messages EXCEPT ![n] = m], i)
           /\ n \in DOMAIN [messages EXCEPT ![n] = m] /\ [messages EXCEPT ![n] = m][n] = m
<1> DEFINE after == [messages EXCEPT ![n] = m]
<1>1. /\ after \in Seq(Msg) /\ DOMAIN after = DOMAIN messages /\ after[n] = m
      /\ \A k \in DOMAIN messages : k # n => after[k] = messages[k]
  OBVIOUS
<1> HIDE DEF after
<1>2. \A k \in DOMAIN messages : after[k].id = messages[k].id /\ after[k].role = messages[k].role
  BY <1>1
<1>3. Distinct(after)
  BY <1>1, <1>2 DEF Distinct
<1>4. \A k \in DOMAIN after : Placed(s, owner, after[k])
  BY <1>1
<1>5. \A k \in DOMAIN messages, c \in Ids : Carries(messages[k], c) => Carries(after[k], c)
  BY <1>1
<1>6. \A c \in Ids : carrier[c] # 0 => carrier[c] \in DOMAIN after /\ Carries(after[carrier[c]], c)
  BY <1>1, <1>5
<1>7. Conversation(s, owner, after, carrier)
  BY <1>1, <1>3, <1>4, <1>6 DEF Conversation
<1>8. \A i : (Holds(messages, i) => Holds(after, i)) /\ (Spoken(messages, i) => Spoken(after, i))
  BY <1>1, <1>2 DEF Holds, Spoken
<1> QED BY <1>1, <1>7, <1>8 DEF after

\* A message is marked, written or signed: nothing else about it changes.
LEMMA MessageMarked ==
    ASSUME NEW s, NEW owner, NEW messages, NEW carrier, Conversation(s, owner, messages, carrier),
           NEW n \in DOMAIN messages, NEW m \in Msg,
           m.id = messages[n].id, m.role = messages[n].role, m.owner = messages[n].owner,
           \A c \in Ids : Carries(messages[n], c) <=> Carries(m, c),
           m.calls # <<>> => messages[n].calls # <<>>
    PROVE  /\ Conversation(s, owner, [messages EXCEPT ![n] = m], carrier)
           /\ \A i : Holds(messages, i) => Holds([messages EXCEPT ![n] = m], i)
           /\ \A i : Spoken(messages, i) => Spoken([messages EXCEPT ![n] = m], i)
<1>1. /\ messages \in Seq(Msg) /\ Distinct(messages) /\ carrier \in [Ids -> Nat]
      /\ \A k \in DOMAIN messages : Placed(s, owner, messages[k])
      /\ \A c \in Ids : carrier[c] # 0 => carrier[c] \in DOMAIN messages /\ Carries(messages[carrier[c]], c)
  BY DEF Conversation
<1>2. Placed(s, owner, messages[n])
  BY <1>1
<1>3. Placed(s, owner, m)
  BY <1>2 DEF Placed
<1> QED BY <1>1, <1>3, MessageRewritten

\* A call is found at a message that carries it.
LEMMA CarrierMoved ==
    ASSUME NEW s, NEW owner, NEW messages, NEW carrier, Conversation(s, owner, messages, carrier),
           NEW c \in Ids, NEW n \in DOMAIN messages, Carries(messages[n], c)
    PROVE  /\ Conversation(s, owner, messages, [carrier EXCEPT ![c] = n])
           /\ [carrier EXCEPT ![c] = n][c] # 0
           /\ \A d \in Ids : carrier[d] # 0 => [carrier EXCEPT ![c] = n][d] # 0
<1> DEFINE after == [carrier EXCEPT ![c] = n]
<1>1. messages \in Seq(Msg) /\ carrier \in [Ids -> Nat]
  BY DEF Conversation
<1>2. n \in Nat /\ n # 0
  BY <1>1
<1>3. after \in [Ids -> Nat] /\ \A d \in Ids : after[d] = IF d = c THEN n ELSE carrier[d]
  BY <1>1, <1>2
<1> HIDE DEF after
<1>4. Conversation(s, owner, messages, after)
  BY <1>3 DEF Conversation
<1>5. after[c] # 0 /\ \A d \in Ids : carrier[d] # 0 => after[d] # 0
  BY <1>2, <1>3
<1> QED BY <1>4, <1>5 DEF after

-----------------------------------------------------------------------------
(* The applier's operations on it *)

LEMMA ApplierFields ==
    ASSUME NEW a, IsApplier(a)
    PROVE  /\ \A x : /\ View([a EXCEPT !.messages = x], x, a.carrier, a.reasoning)
                     /\ View([a EXCEPT !.reasoning = x], a.messages, a.carrier, x)
                     /\ View([a EXCEPT !.openText = x], a.messages, a.carrier, a.reasoning)
                     /\ View([a EXCEPT !.state = x], a.messages, a.carrier, a.reasoning)
                     /\ View([a EXCEPT !.subagents = x], a.messages, a.carrier, a.reasoning)
           /\ \A x, y : /\ View([a EXCEPT !.messages = x, !.carrier = y], x, y, a.reasoning)
                        /\ View([a EXCEPT !.reasoningStreams = x, !.openReasoning = y],
                                a.messages, a.carrier, a.reasoning)
           /\ \A x, y, z : /\ View([a EXCEPT !.messages = x, !.carrier = y, !.openText = z], x, y, a.reasoning)
                           /\ View([a EXCEPT !.reasoningStreams = x, !.reasoning = y, !.openReasoning = z],
                                   a.messages, a.carrier, y)
<1> USE DEF IsApplier, View, Fields
<1>1. ASSUME NEW x
      PROVE  /\ View([a EXCEPT !.messages = x], x, a.carrier, a.reasoning)
             /\ View([a EXCEPT !.reasoning = x], a.messages, a.carrier, x)
  OBVIOUS
<1>2. ASSUME NEW x
      PROVE  /\ View([a EXCEPT !.openText = x], a.messages, a.carrier, a.reasoning)
             /\ View([a EXCEPT !.state = x], a.messages, a.carrier, a.reasoning)
             /\ View([a EXCEPT !.subagents = x], a.messages, a.carrier, a.reasoning)
  OBVIOUS
<1>3. ASSUME NEW x, NEW y
      PROVE  /\ View([a EXCEPT !.messages = x, !.carrier = y], x, y, a.reasoning)
             /\ View([a EXCEPT !.reasoningStreams = x, !.openReasoning = y],
                     a.messages, a.carrier, a.reasoning)
  OBVIOUS
<1>4. ASSUME NEW x, NEW y, NEW z
      PROVE  /\ View([a EXCEPT !.messages = x, !.carrier = y, !.openText = z], x, y, a.reasoning)
             /\ View([a EXCEPT !.reasoningStreams = x, !.reasoning = y, !.openReasoning = z],
                     a.messages, a.carrier, y)
  OBVIOUS
<1> HIDE DEF IsApplier, View, Fields
<1> QED BY <1>1, <1>2, <1>3, <1>4

\* b is an applier that holds what a held, and more, for these owners.
Advances(s, owner, a, b) ==
    /\ IsApplier(b) /\ Conversation(s, owner, b.messages, b.carrier)
    /\ \A i : Holds(a.messages, i) => Holds(b.messages, i)
    /\ \A i : Spoken(a.messages, i) => Spoken(b.messages, i)
    /\ \A c \in Ids : a.carrier[c] # 0 => b.carrier[c] # 0
    /\ b.reasoning = a.reasoning

LEMMA AdvancesView ==
    ASSUME NEW s, NEW owner, NEW a, IsApplier(a), Conversation(s, owner, a.messages, a.carrier),
           NEW b, View(b, a.messages, a.carrier, a.reasoning)
    PROVE  Advances(s, owner, a, b)
BY DEF View, Advances

LEMMA AdvancesOn ==
    ASSUME NEW s, NEW owner, NEW a, NEW b, Advances(s, owner, a, b), NEW d, Advances(s, owner, b, d)
    PROVE  Advances(s, owner, a, d)
BY DEF Advances

\* A message without calls is pushed.
LEMMA Pushed ==
    ASSUME NEW a, IsApplier(a), a.carrier \in [Ids -> Nat], NEW m, m.calls = <<>>
    PROVE  View(PushMessage(a, m), Append(a.messages, m), a.carrier, a.reasoning)
<1> DEFINE carrier == [c \in Ids |-> IF Carries(m, c) THEN Len(a.messages) + 1 ELSE a.carrier[c]]
<1>1. \A c \in Ids : ~Carries(m, c)
  <2>1. DOMAIN m.calls = {}
    OBVIOUS
  <2> QED BY <2>1 DEF Carries
<1>2. carrier = a.carrier
  BY <1>1
<1>3. PushMessage(a, m) = [a EXCEPT !.messages = Append(a.messages, m), !.carrier = carrier]
  BY DEF PushMessage, IsApplier, Fields
<1> DEFINE more == Append(a.messages, m)
<1> HIDE DEF carrier, more
<1>4. View([a EXCEPT !.messages = more, !.carrier = carrier], more, carrier, a.reasoning)
  BY ApplierFields
<1>5. PushMessage(a, m) = [a EXCEPT !.messages = more, !.carrier = carrier]
  BY <1>3 DEF more
<1> QED BY <1>2, <1>4, <1>5 DEF more

\* A fresh message without calls is one more.
LEMMA FreshPushed ==
    ASSUME NEW s, NEW owner, NEW a, IsApplier(a), Conversation(s, owner, a.messages, a.carrier),
           NEW m \in Msg, m.calls = <<>>, ~Holds(a.messages, m.id), Placed(s, owner, m)
    PROVE  /\ Advances(s, owner, a, PushMessage(a, m)) /\ Holds(PushMessage(a, m).messages, m.id)
           /\ Sort(m.role) = "spoken" => Spoken(PushMessage(a, m).messages, m.id)
<1> DEFINE b == PushMessage(a, m)
           more == Append(a.messages, m)
<1>1. View(b, more, a.carrier, a.reasoning)
  BY Pushed DEF Conversation
<1>2. /\ Conversation(s, owner, more, a.carrier)
      /\ \A i : Holds(a.messages, i) => Holds(more, i)
      /\ \A i : Spoken(a.messages, i) => Spoken(more, i)
      /\ Holds(more, m.id)
      /\ Sort(m.role) = "spoken" => Spoken(more, m.id)
  BY MessageAdded
<1> HIDE DEF b, more
<1>3. b.messages = more /\ IsApplier(b) /\ b.carrier = a.carrier /\ b.reasoning = a.reasoning
  BY <1>1 DEF View
<1>4. Advances(s, owner, a, b) /\ Holds(b.messages, m.id) /\ (Sort(m.role) = "spoken" => Spoken(b.messages, m.id))
  BY <1>2, <1>3 DEF Advances
<1> QED BY <1>4 DEF b

\* A marked message changes nothing that counts.
LEMMA Marked ==
    ASSUME NEW s, NEW owner, NEW a, IsApplier(a), Conversation(s, owner, a.messages, a.carrier),
           NEW n \in DOMAIN a.messages, NEW m \in Msg,
           m.id = a.messages[n].id, m.role = a.messages[n].role, m.owner = a.messages[n].owner,
           \A c \in Ids : Carries(a.messages[n], c) <=> Carries(m, c),
           m.calls # <<>> => a.messages[n].calls # <<>>,
           NEW b, b = [a EXCEPT !.messages = [a.messages EXCEPT ![n] = m]]
    PROVE  Advances(s, owner, a, b)
<1> DEFINE after == [a.messages EXCEPT ![n] = m]
<1>1. View(b, after, a.carrier, a.reasoning)
  BY ApplierFields
<1>2. /\ Conversation(s, owner, after, a.carrier)
      /\ \A i : Holds(a.messages, i) => Holds(after, i)
      /\ \A i : Spoken(a.messages, i) => Spoken(after, i)
  BY MessageMarked
<1> HIDE DEF after
<1> QED BY <1>1, <1>2 DEF View, Advances

\* The calls of a message, each marked or not.
LEMMA CallsMarked ==
    ASSUME NEW m \in Msg, NEW calls,
           calls \in [DOMAIN m.calls -> CallRecord],
           \A k \in DOMAIN m.calls : calls[k].id = m.calls[k].id,
           NEW w, w = [m EXCEPT !.calls = calls]
    PROVE  /\ w \in Msg /\ w.id = m.id /\ w.role = m.role /\ w.owner = m.owner
           /\ \A c \in Ids : Carries(m, c) <=> Carries(w, c)
           /\ w.calls # <<>> => m.calls # <<>>
<1>1. m.calls \in Seq(CallRecord) /\ DOMAIN m.calls = 1..Len(m.calls) /\ Len(m.calls) \in Nat
  BY MsgFields
<1>2. DOMAIN calls = DOMAIN m.calls /\ calls \in Seq(CallRecord)
  BY <1>1
<1>3. w \in Msg
  BY <1>2, MsgFields
<1>4. w.id = m.id /\ w.role = m.role /\ w.owner = m.owner /\ w.calls = calls
  BY DEF Msg, MessageRecord
<1>5. \A c : Carries(m, c) <=> Carries(w, c)
  BY <1>2, <1>4 DEF Carries
<1>6. calls # <<>> => m.calls # <<>>
  BY <1>1, <1>2
<1> QED BY <1>3, <1>4, <1>5, <1>6

\* An id is of one sort, whoever says so.
LEMMA OneSort ==
    ASSUME NEW s \in Agents, Sorted(s), NEW i \in Ids, NEW x, NEW y, Says(s, <<x, i>>), Says(s, <<y, i>>)
    PROVE  x = y
<1>1. PICK e \in Emits[s] : <<x, i>> \in Entities(e)
  BY DEF Says
<1>2. PICK f \in Emits[s] : <<y, i>> \in Entities(f)
  BY DEF Says
<1>3. \A p \in Entities(e), q \in Entities(f) : p[2] \in Ids /\ p[2] = q[2] => p[1] = q[1]
  BY DEF Sorted
<1> QED BY <1>1, <1>2, <1>3

\* So a message under it is of that sort.
LEMMA HeldSort ==
    ASSUME NEW s \in Agents, Sorted(s), NEW owner, NEW m, Placed(s, owner, m),
           m.id \in Ids, NEW x, Says(s, <<x, m.id>>)
    PROVE  Sort(m.role) = x /\ owner[BucketOfRole(m.role)][m.id] = m.owner
<1>1. \A c \in Ids : m.id # CarrierId(c, None)
  BY DerivedFacts
<1> QED BY <1>1, OneSort DEF Placed

\* The sorts by their roles.
LEMMA SortRoles ==
    ASSUME NEW role \in Roles
    PROVE  /\ Sort(role) = "spoken" <=> role \in {"assistant", "user"}
           /\ Sort(role) = "tool" <=> role = "tool"
           /\ Sort(role) = "activity" <=> role = "activity"
           /\ Sort(role) = "reasoning" <=> role = "reasoning"
           /\ BucketOfRole(role) = IF role \in {"activity", "reasoning"} THEN role ELSE "message"
BY DEF Sort, Roles, BucketOfRole

\* A message as it is made.
LEMMA MessageFacts ==
    ASSUME NEW i \in Ids \cup Derived, NEW role \in Roles, NEW g \in Owner
    PROVE  /\ Message(i, role, g) \in Msg
           /\ Message(i, role, g).id = i /\ Message(i, role, g).role = role
           /\ Message(i, role, g).owner = g /\ Message(i, role, g).calls = <<>>
           /\ \A c : ~Carries(Message(i, role, g), c)
<1> DEFINE m == Message(i, role, g)
<1>1. m = [id |-> i, role |-> role, owner |-> g, written |-> FALSE, signed |-> FALSE,
           calls |-> <<>>, answers |-> None]
  BY DEF Message
<1>2. <<>> \in Seq(CallRecord) /\ None \in Ids \cup {None} /\ DOMAIN <<>> = {}
  OBVIOUS
<1> HIDE DEF m
<1>3. m \in Msg
  BY <1>1, <1>2 DEF Msg, MessageRecord
<1>4. m.id = i /\ m.role = role /\ m.owner = g /\ m.calls = <<>>
  BY <1>1
<1>5. \A c : ~Carries(m, c)
  BY <1>2, <1>4 DEF Carries
<1> QED BY <1>3, <1>4, <1>5 DEF m

\* Such a message is placed if its owner is the verifier's.
LEMMA MessagePlaced ==
    ASSUME NEW s, NEW owner, NEW i \in Ids, NEW role \in Roles, NEW g \in Owner,
           Says(s, <<Sort(role), i>>), owner[BucketOfRole(role)][i] = g,
           NEW m, m.id = i, m.role = role, m.owner = g, m.calls = <<>>
    PROVE  Placed(s, owner, m)
<1>1. \A c : ~Carries(m, c)
  <2>1. DOMAIN m.calls = {}
    OBVIOUS
  <2> QED BY <2>1 DEF Carries
<1> QED BY <1>1 DEF Placed

LEMMA TextStarted ==
    ASSUME NEW s \in Agents, Sorted(s), NEW owner, NEW a, IsApplier(a),
           Conversation(s, owner, a.messages, a.carrier),
           NEW i \in Ids, NEW role \in Roles, Sort(role) = "spoken", NEW g \in Owner,
           Says(s, <<"spoken", i>>), ~Holds(a.messages, i) => owner["message"][i] = g
    PROVE  Advances(s, owner, a, TextStart(a, i, role, g)) /\ Spoken(TextStart(a, i, role, g).messages, i)
<1> DEFINE open == Reopened(a.openText, i, g)
           b == [a EXCEPT !.openText = open]
<1>0. a.messages \in Seq(Msg)
  BY DEF Conversation
<1>1. View(b, a.messages, a.carrier, a.reasoning)
  BY ApplierFields
<1>2. TextStart(a, i, role, g) = IF At(a.messages, i) # 0 THEN b ELSE PushMessage(b, Message(i, role, g))
  BY DEF TextStart
<1> HIDE DEF b, open
<1>3. Advances(s, owner, a, b)
  BY <1>1, AdvancesView
<1>4. IsApplier(b) /\ b.messages = a.messages /\ b.carrier = a.carrier
  BY <1>1 DEF View
<1>5. CASE At(a.messages, i) # 0
  <2>1. PICK n \in DOMAIN a.messages : a.messages[n].id = i
    BY <1>0, <1>5, AtFacts
  <2>2. Sort(a.messages[n].role) = "spoken"
    BY <2>1, HeldSort DEF Conversation
  <2> QED BY <1>2, <1>3, <1>4, <1>5, <2>1, <2>2 DEF Spoken
<1>6. CASE At(a.messages, i) = 0
  <2> DEFINE m == Message(i, role, g)
  <2>1. /\ m \in Msg /\ m.id = i /\ m.role = role /\ m.owner = g /\ m.calls = <<>>
    BY MessageFacts
  <2> HIDE DEF m
  <2>2. ~Holds(a.messages, i)
    BY <1>0, <1>6, AtFacts
  <2>3. Placed(s, owner, m)
    BY <2>1, <2>2, MessagePlaced, SortRoles
  <2>4. Advances(s, owner, b, PushMessage(b, m)) /\ Spoken(PushMessage(b, m).messages, m.id)
    BY <1>4, <2>1, <2>2, <2>3, FreshPushed
  <2>5. Advances(s, owner, a, PushMessage(b, m))
    BY <1>3, <2>4, AdvancesOn
  <2> QED BY <1>2, <1>6, <2>1, <2>4, <2>5 DEF m
<1> QED BY <1>5, <1>6

\* Text is written into a message that is none of an activity's.
LEMMA TextWritten ==
    ASSUME NEW s, NEW owner, NEW a, IsApplier(a), Conversation(s, owner, a.messages, a.carrier),
           NEW i \in Ids, Spoken(a.messages, i), NEW g
    PROVE  TextContent(a, i, g).ok /\ Advances(s, owner, a, TextContent(a, i, g).applier)
<1>0. a.messages \in Seq(Msg) /\ Distinct(a.messages)
  BY DEF Conversation
<1>1. PICK k \in DOMAIN a.messages : a.messages[k].id = i /\ Sort(a.messages[k].role) = "spoken"
  BY DEF Spoken
<1> DEFINE n == At(a.messages, i)
<1>2. n # 0 /\ n \in DOMAIN a.messages /\ a.messages[n].id = i
  BY <1>0, <1>1, AtFacts DEF Holds
<1>3. n = k
  BY <1>0, <1>1, <1>2 DEF Distinct
<1>4. a.messages[n].role # "activity"
  BY <1>1, <1>3 DEF Sort
<1> DEFINE m == [a.messages[n] EXCEPT !.written = TRUE]
           b == [a EXCEPT !.messages = [a.messages EXCEPT ![n] = m]]
<1>5. TextContent(a, i, g) = Applied(b)
  BY <1>2, <1>4 DEF TextContent, AppendText, IsApplier, Fields
<1> HIDE DEF n
<1>6. a.messages[n] \in Msg
  BY <1>0, <1>2
<1>7. m \in Msg /\ m.id = a.messages[n].id /\ m.role = a.messages[n].role
      /\ m.owner = a.messages[n].owner /\ m.calls = a.messages[n].calls
  BY <1>6, MsgFields DEF Msg, MessageRecord
<1> HIDE DEF m
<1>8. \A c \in Ids : Carries(a.messages[n], c) <=> Carries(m, c)
  BY <1>7 DEF Carries
<1>9. Advances(s, owner, a, b)
  BY <1>2, <1>7, <1>8, Marked
<1> HIDE DEF b
<1> QED BY <1>5, <1>9 DEF Applied

\* A call is hung on an assistant's message.
LEMMA HangView ==
    ASSUME NEW a, IsApplier(a), a.messages \in Seq(Msg), a.carrier \in [Ids -> Nat],
           NEW n \in DOMAIN a.messages, a.messages[n].role = "assistant", NEW c \in Ids
    PROVE  \E m \in Msg :
              /\ m.id = a.messages[n].id /\ m.role = a.messages[n].role /\ m.owner = a.messages[n].owner
              /\ \A d \in Ids : Carries(m, d) <=> Carries(a.messages[n], d) \/ d = c
              /\ View(HangCall(a, n, c), [a.messages EXCEPT ![n] = m], [a.carrier EXCEPT ![c] = n],
                      a.reasoning)
<1> DEFINE old == a.messages[n]
           calls == IF Carries(old, c) THEN old.calls ELSE Append(old.calls, ToolCall(c))
           m == [old EXCEPT !.calls = calls]
<1>1. old \in Msg /\ old.calls \in Seq(CallRecord)
  BY MsgFields
<1>2. ToolCall(c) \in CallRecord /\ ToolCall(c).id = c
  BY DEF ToolCall, CallRecord
<1>3. calls \in Seq(CallRecord)
  BY <1>1, <1>2
<1>4. HangCall(a, n, c) = [a EXCEPT !.messages = [a.messages EXCEPT ![n] = m],
                                    !.carrier = [a.carrier EXCEPT ![c] = n]]
  BY DEF HangCall, IsApplier, Fields
<1>5. m \in Msg
  BY <1>1, <1>3, MsgFields
<1>6. m.id = old.id /\ m.role = old.role /\ m.owner = old.owner /\ m.calls = calls
  BY <1>1 DEF Msg, MessageRecord
<1>7. ASSUME NEW d \in Ids
      PROVE  Carries(m, d) <=> Carries(old, d) \/ d = c
  <2>1. CASE Carries(old, c)
    BY <1>6, <2>1 DEF Carries
  <2>2. CASE ~Carries(old, c)
    <3> DEFINE more == Append(old.calls, ToolCall(c))
    <3>1. /\ DOMAIN more = 1..(Len(old.calls) + 1) /\ Len(old.calls) \in Nat
          /\ DOMAIN old.calls = 1..Len(old.calls)
          /\ \A k \in DOMAIN old.calls : k \in DOMAIN more /\ more[k] = old.calls[k]
          /\ \A k \in DOMAIN more : k \in DOMAIN old.calls \/ k = Len(old.calls) + 1
          /\ Len(old.calls) + 1 \in DOMAIN more
          /\ more[Len(old.calls) + 1] = ToolCall(c)
      BY <1>1, <1>2
    <3>2. calls = more
      BY <2>2
    <3> HIDE DEF more, calls, m, old
    <3>3. m.calls = more
      BY <1>6, <3>2
    <3> QED BY <1>2, <3>1, <3>3 DEF Carries
  <2> QED BY <2>1, <2>2
<1> DEFINE after == [a.messages EXCEPT ![n] = m]
           moved == [a.carrier EXCEPT ![c] = n]
<1> HIDE DEF after, moved, m
<1>8. View([a EXCEPT !.messages = after, !.carrier = moved], after, moved, a.reasoning)
  BY ApplierFields
<1>9. View(HangCall(a, n, c), after, moved, a.reasoning)
  BY <1>4, <1>8 DEF after, moved
<1> QED BY <1>5, <1>6, <1>7, <1>9 DEF after, moved

\* The owner of the call is the message's.
LEMMA CallHung ==
    ASSUME NEW s, NEW owner, NEW a, IsApplier(a), Conversation(s, owner, a.messages, a.carrier),
           NEW n \in DOMAIN a.messages, a.messages[n].role = "assistant", NEW c \in Ids,
           owner["call"][c] = a.messages[n].owner
    PROVE  Advances(s, owner, a, HangCall(a, n, c)) /\ HangCall(a, n, c).carrier[c] # 0
<1> DEFINE b == HangCall(a, n, c)
<1>0. a.messages \in Seq(Msg) /\ a.carrier \in [Ids -> Nat] /\ Distinct(a.messages)
  BY DEF Conversation
<1>1. PICK m \in Msg :
         /\ m.id = a.messages[n].id /\ m.role = a.messages[n].role /\ m.owner = a.messages[n].owner
         /\ \A d \in Ids : Carries(m, d) <=> Carries(a.messages[n], d) \/ d = c
         /\ View(b, [a.messages EXCEPT ![n] = m], [a.carrier EXCEPT ![c] = n], a.reasoning)
  BY <1>0, HangView
<1> DEFINE after == [a.messages EXCEPT ![n] = m]
           moved == [a.carrier EXCEPT ![c] = n]
<1>2. /\ \A k \in DOMAIN a.messages : Placed(s, owner, a.messages[k])
      /\ \A d \in Ids : a.carrier[d] # 0 =>
            a.carrier[d] \in DOMAIN a.messages /\ Carries(a.messages[a.carrier[d]], d)
  BY DEF Conversation
<1>3. Placed(s, owner, m)
  <2>1. Placed(s, owner, a.messages[n])
    BY <1>2
  <2> QED BY <1>1, <2>1 DEF Placed
<1>4. /\ Conversation(s, owner, after, a.carrier)
      /\ \A i : Holds(a.messages, i) => Holds(after, i)
      /\ \A i : Spoken(a.messages, i) => Spoken(after, i)
      /\ n \in DOMAIN after /\ after[n] = m
  BY <1>0, <1>1, <1>2, <1>3, MessageRewritten
<1> HIDE DEF after, b
<1>5. Carries(after[n], c)
  BY <1>1, <1>4
<1>6. /\ Conversation(s, owner, after, moved) /\ moved[c] # 0
      /\ \A d \in Ids : a.carrier[d] # 0 => moved[d] # 0
  BY <1>4, <1>5, CarrierMoved
<1>7. View(b, after, moved, a.reasoning)
  BY <1>1 DEF after
<1> HIDE DEF moved
<1>8. Advances(s, owner, a, b) /\ b.carrier[c] # 0
  BY <1>4, <1>6, <1>7 DEF View, Advances
<1> QED BY <1>8 DEF b

\* The last of a list is rewritten.
LEMMA LastRewritten ==
    ASSUME NEW list \in Seq(Msg), NEW m \in Msg
    PROVE  /\ Append(list, m) \in Seq(Msg) /\ Len(list) + 1 \in DOMAIN Append(list, m)
           /\ Append(list, m)[Len(list) + 1] = m
           /\ \A w \in Msg : [Append(list, m) EXCEPT ![Len(list) + 1] = w] = Append(list, w)
<1>1. ASSUME NEW w \in Msg
      PROVE  [Append(list, m) EXCEPT ![Len(list) + 1] = w] = Append(list, w)
  <2> DEFINE L == Len(list) + 1
             f == Append(list, m)
             g == Append(list, w)
  <2>1. /\ f \in Seq(Msg) /\ g \in Seq(Msg) /\ Len(f) = L /\ Len(g) = L /\ L \in 1..L
        /\ g[L] = w /\ \A k \in 1..L : k # L => f[k] = list[k] /\ g[k] = list[k]
    OBVIOUS
  <2> HIDE DEF f, g, L
  <2> DEFINE h == [f EXCEPT ![L] = w]
  <2>2. h \in Seq(Msg) /\ Len(h) = L /\ \A k \in 1..L : h[k] = IF k = L THEN w ELSE f[k]
    BY <2>1, ExceptSeq
  <2> HIDE DEF h
  <2>3. \A k \in 1..L : h[k] = g[k]
    BY <2>1, <2>2
  <2>4. h = g
    BY <2>1, <2>2, <2>3, SeqEqual
  <2> QED BY <2>4 DEF h, f, g, L
<1> QED BY <1>1

\* A message is made up for a call.
LEMMA CallMade ==
    ASSUME NEW s, NEW owner, NEW a, IsApplier(a), Conversation(s, owner, a.messages, a.carrier),
           NEW c \in Ids, ~Holds(a.messages, CarrierId(c, None)), NEW g \in Owner, owner["call"][c] = g,
           NEW b, b = HangCall(PushMessage(a, Message(CarrierId(c, None), "assistant", g)),
                               Len(a.messages) + 1, c)
    PROVE  Advances(s, owner, a, b) /\ b.carrier[c] # 0
<1> DEFINE i == CarrierId(c, None)
           new == Message(i, "assistant", g)
           p == PushMessage(a, new)
           more == Append(a.messages, new)
           n == Len(a.messages) + 1
<1>0. a.messages \in Seq(Msg) /\ a.carrier \in [Ids -> Nat] /\ Len(a.messages) \in Nat
  BY DEF Conversation
<1>1. /\ new \in Msg /\ new.id = i /\ new.role = "assistant" /\ new.owner = g /\ new.calls = <<>>
      /\ \A d : ~Carries(new, d)
  <2>1. i \in Ids \cup Derived /\ "assistant" \in Roles
    BY DerivedFacts DEF Roles
  <2> QED BY <2>1, MessageFacts
<1> HIDE DEF new
<1>2. View(p, more, a.carrier, a.reasoning)
  BY <1>0, <1>1, Pushed
<1>3. /\ more \in Seq(Msg) /\ n \in DOMAIN more /\ more[n] = new
      /\ \A m \in Msg : [more EXCEPT ![n] = m] = Append(a.messages, m)
  BY <1>0, <1>1, LastRewritten
<1> HIDE DEF more, p
<1>4. p.messages = more /\ p.carrier = a.carrier /\ IsApplier(p) /\ p.reasoning = a.reasoning
  BY <1>2 DEF View
<1>5. PICK m \in Msg :
         /\ m.id = new.id /\ m.role = new.role /\ m.owner = new.owner
         /\ \A d \in Ids : Carries(m, d) <=> Carries(new, d) \/ d = c
         /\ View(HangCall(p, n, c), [more EXCEPT ![n] = m], [a.carrier EXCEPT ![c] = n], a.reasoning)
  <2> HIDE DEF n
  <2> QED BY <1>0, <1>1, <1>3, <1>4, HangView
<1> DEFINE after == Append(a.messages, m)
           moved == [a.carrier EXCEPT ![c] = n]
<1>6. Placed(s, owner, m)
  BY <1>1, <1>5 DEF Placed
<1>7. /\ Conversation(s, owner, after, a.carrier)
      /\ \A j : Holds(a.messages, j) => Holds(after, j)
      /\ \A j : Spoken(a.messages, j) => Spoken(after, j)
      /\ n \in DOMAIN after /\ after[n] = m
  BY <1>1, <1>5, <1>6, MessageAdded
<1>8. View(b, after, moved, a.reasoning)
  BY <1>3, <1>5 DEF p, new
<1> HIDE DEF after, n
<1>9. Carries(after[n], c)
  BY <1>5, <1>7
<1>10. /\ Conversation(s, owner, after, moved) /\ moved[c] # 0
       /\ \A d \in Ids : a.carrier[d] # 0 => moved[d] # 0
  BY <1>7, <1>9, CarrierMoved
<1> HIDE DEF moved
<1> QED BY <1>7, <1>8, <1>10 DEF View, Advances

\* TOOL_CALL_START finds its message, or makes one.
LEMMA ToolStarted ==
    ASSUME NEW s, NEW owner, NEW a, IsApplier(a), Conversation(s, owner, a.messages, a.carrier),
           NEW c \in Ids, NEW p \in Ids \cup {None}, NEW g \in Owner,
           p # None => \E n \in DOMAIN a.messages :
              /\ a.messages[n].id = p /\ a.messages[n].role = "assistant"
              /\ owner["call"][c] = a.messages[n].owner,
           p = None /\ ~Holds(a.messages, CarrierId(c, None)) => owner["call"][c] = g,
           NEW b, b = ToolCallStart(a, c, CarrierId(c, p), g)
    PROVE  Advances(s, owner, a, b) /\ b.carrier[c] # 0
<1> DEFINE i == CarrierId(c, p)
           n == At(a.messages, i)
<1>0. a.messages \in Seq(Msg) /\ Distinct(a.messages)
  BY DEF Conversation
<1>1. /\ n # 0 => n \in DOMAIN a.messages /\ a.messages[n].id = i
      /\ n = 0 <=> ~Holds(a.messages, i)
  BY <1>0, AtFacts
<1>2. b = IF n # 0 THEN HangCall(a, n, c)
          ELSE HangCall(PushMessage(a, Message(i, "assistant", g)), Len(a.messages) + 1, c)
  BY DEF ToolCallStart
<1>3. ASSUME n # 0
      PROVE  a.messages[n].role = "assistant" /\ owner["call"][c] = a.messages[n].owner
  <2>1. CASE p # None
    <3>1. i = p
      BY <2>1, DerivedFacts
    <3>2. PICK k \in DOMAIN a.messages :
             /\ a.messages[k].id = p /\ a.messages[k].role = "assistant"
             /\ owner["call"][c] = a.messages[k].owner
      BY <2>1
    <3>3. n \in DOMAIN a.messages /\ a.messages[n].id = a.messages[k].id
      BY <1>1, <1>3, <3>1, <3>2
    <3>4. n = k
      BY <1>0, <3>3 DEF Distinct
    <3> QED BY <3>2, <3>4
  <2>2. CASE p = None
    <3> HIDE DEF n
    <3>1. n \in DOMAIN a.messages /\ a.messages[n].id = CarrierId(c, None)
      BY <1>1, <1>3, <2>2
    <3>2. Placed(s, owner, a.messages[n])
      BY <3>1 DEF Conversation
    <3>3. a.messages[n].id \notin Ids
      BY <3>1
    <3>4. a.messages[n].role = "assistant" /\ Carries(a.messages[n], c)
      BY <3>1, <3>2, <3>3, DerivedFacts DEF Placed
    <3> QED BY <3>2, <3>4 DEF Placed
  <2> QED BY <2>1, <2>2
<1>4. CASE n # 0
  <2> HIDE DEF n
  <2>1. n \in DOMAIN a.messages /\ b = HangCall(a, n, c)
    BY <1>1, <1>2, <1>4
  <2> QED BY <1>3, <1>4, <2>1, CallHung
<1>5. CASE n = 0
  <2>1. ~Holds(a.messages, i)
    BY <1>1, <1>5
  <2>2. p = None
    <3>1. p # None => i = p
      BY DerivedFacts
    <3> QED BY <2>1, <3>1 DEF Holds
  <2>3. b = HangCall(PushMessage(a, Message(CarrierId(c, None), "assistant", g)), Len(a.messages) + 1, c)
    BY <1>2, <1>5, <2>2
  <2>4. ~Holds(a.messages, CarrierId(c, None)) /\ owner["call"][c] = g
    BY <2>1, <2>2
  <2> QED BY <2>3, <2>4, CallMade
<1> QED BY <1>4, <1>5

\* The arguments of a call, and what signs it, mark it where it is carried.
LEMMA CallMarks ==
    ASSUME NEW s, NEW owner, NEW a, IsApplier(a), Conversation(s, owner, a.messages, a.carrier),
           NEW c \in Ids, a.carrier[c] # 0
    PROVE  /\ ToolCallArgs(a, c).ok /\ Advances(s, owner, a, ToolCallArgs(a, c).applier)
           /\ Advances(s, owner, a, SignCall(a, c))
<1> DEFINE n == a.carrier[c]
           m == a.messages[n]
           w == [k \in DOMAIN m.calls |->
                    IF m.calls[k].id = c THEN [m.calls[k] EXCEPT !.written = TRUE] ELSE m.calls[k]]
           z == [k \in DOMAIN m.calls |->
                    IF m.calls[k].id = c THEN [m.calls[k] EXCEPT !.signed = TRUE] ELSE m.calls[k]]
           mw == [m EXCEPT !.calls = w]
           mz == [m EXCEPT !.calls = z]
           bw == [a EXCEPT !.messages = [a.messages EXCEPT ![n] = mw]]
           bz == [a EXCEPT !.messages = [a.messages EXCEPT ![n] = mz]]
<1>1. n \in DOMAIN a.messages /\ a.messages \in Seq(Msg)
  BY DEF Conversation
<1>2. m \in Msg
  BY <1>1
<1>3. /\ ToolCallArgs(a, c) = Applied(bw)
      /\ SignCall(a, c) = bz
  BY DEF ToolCallArgs, SignCall, IsApplier, Fields
<1>4. \A k \in DOMAIN m.calls : m.calls[k] \in CallRecord
  BY <1>2, MsgFields
<1> HIDE DEF m, n
<1>5. /\ w \in [DOMAIN m.calls -> CallRecord] /\ z \in [DOMAIN m.calls -> CallRecord]
      /\ \A k \in DOMAIN m.calls : w[k].id = m.calls[k].id /\ z[k].id = m.calls[k].id
  BY <1>4 DEF CallRecord
<1> HIDE DEF w, z
<1>6. /\ mw \in Msg /\ mw.id = m.id /\ mw.role = m.role /\ mw.owner = m.owner
      /\ \A d \in Ids : Carries(m, d) <=> Carries(mw, d)
      /\ mw.calls # <<>> => m.calls # <<>>
  BY <1>2, <1>5, CallsMarked
<1>7. /\ mz \in Msg /\ mz.id = m.id /\ mz.role = m.role /\ mz.owner = m.owner
      /\ \A d \in Ids : Carries(m, d) <=> Carries(mz, d)
      /\ mz.calls # <<>> => m.calls # <<>>
  BY <1>2, <1>5, CallsMarked
<1> HIDE DEF mw, mz
<1>8. Advances(s, owner, a, bw)
  BY <1>1, <1>6, Marked DEF m
<1>9. Advances(s, owner, a, bz)
  BY <1>1, <1>7, Marked DEF m
<1> HIDE DEF bw, bz
<1> QED BY <1>3, <1>8, <1>9 DEF Applied

\* Another owner for the message under one id leaves the others where they are.
LEMMA OthersPlaced ==
    ASSUME NEW s, NEW owner \in Owners, NEW i \in Ids, NEW g \in Owner,
           NEW m \in Msg, m.id # i, Placed(s, owner, m)
    PROVE  Placed(s, [owner EXCEPT !["message"][i] = g], m)
<1> DEFINE after == [owner EXCEPT !["message"][i] = g]
<1>1. \A b \in Buckets, j \in Ids : after[b][j] = IF b = "message" /\ j = i THEN g ELSE owner[b][j]
  BY Vocabulary, OwnersRewritten
<1> HIDE DEF after
<1>2. "call" \in Buckets /\ BucketOfRole(m.role) \in Buckets
  BY Vocabulary, MsgFields
<1>3. Placed(s, after, m)
  BY <1>1, <1>2 DEF Placed
<1> QED BY <1>3 DEF after

\* The newest result is its message, by whoever gave it.
LEMMA ResultTaken ==
    ASSUME NEW s \in Agents, Sorted(s), NEW owner \in Owners, NEW a, IsApplier(a),
           Conversation(s, owner, a.messages, a.carrier),
           NEW e, e.id \in Ids, e.tag \in Owner, e.call \in Ids, Says(s, <<"tool", e.id>>),
           NEW after, after = [owner EXCEPT !["message"][e.id] = e.tag]
    PROVE  Advances(s, after, a, ToolCallResult(a, e))
<1> DEFINE i == e.id
           n == At(a.messages, i)
<1>0. /\ a.messages \in Seq(Msg) /\ Distinct(a.messages) /\ a.carrier \in [Ids -> Nat]
      /\ \A k \in DOMAIN a.messages : Placed(s, owner, a.messages[k]) /\ a.messages[k] \in Msg
      /\ \A c \in Ids : a.carrier[c] # 0 =>
            a.carrier[c] \in DOMAIN a.messages /\ Carries(a.messages[a.carrier[c]], c)
  BY DEF Conversation
<1>1. /\ n # 0 => n \in DOMAIN a.messages /\ a.messages[n].id = i
      /\ n = 0 <=> ~Holds(a.messages, i)
  BY <1>0, AtFacts
<1>2. \A k \in DOMAIN a.messages : a.messages[k].id # i => Placed(s, after, a.messages[k])
  BY <1>0, OthersPlaced
<1>3. after["message"][i] = e.tag
  BY Vocabulary, OwnersRewritten
<1>4. CASE n = 0
  <2> DEFINE m == [Message(i, "tool", e.tag) EXCEPT !.answers = e.call]
  <2> DEFINE new == Message(i, "tool", e.tag)
  <2>1. m \in Msg /\ m.id = i /\ m.role = "tool" /\ m.owner = e.tag /\ m.calls = <<>>
    <3>1. new \in Msg /\ new.id = i /\ new.role = "tool" /\ new.owner = e.tag /\ new.calls = <<>>
      BY MessageFacts DEF Roles
    <3> HIDE DEF new
    <3>2. m = [new EXCEPT !.answers = e.call]
      BY DEF new
    <3> HIDE DEF m
    <3> QED BY <3>1, <3>2 DEF Msg, MessageRecord
  <2>2. ToolCallResult(a, e) = PushMessage(a, m)
    BY <1>4 DEF ToolCallResult
  <2> HIDE DEF m
  <2>3. ~Holds(a.messages, m.id)
    BY <1>1, <1>4, <2>1
  <2>4. Conversation(s, after, a.messages, a.carrier)
    BY <1>0, <1>2, <2>1, <2>3 DEF Conversation, Holds
  <2>5. Placed(s, after, m)
    <3>1. m.role \in Roles /\ Sort("tool") = "tool" /\ BucketOfRole("tool") = "message"
      BY <2>1, MsgFields, SortRoles
    <3> QED BY <1>3, <2>1, <3>1, MessagePlaced
  <2> QED BY <2>1, <2>2, <2>3, <2>4, <2>5, FreshPushed
<1>5. CASE n # 0
  <2> DEFINE m == [a.messages[n] EXCEPT !.owner = e.tag]
             now == [a.messages EXCEPT ![n] = m]
             b == [a EXCEPT !.messages = now]
  <2>1. n \in DOMAIN a.messages /\ a.messages[n].id = i /\ a.messages[n] \in Msg
    BY <1>0, <1>1, <1>5
  <2>2. Sort(a.messages[n].role) = "tool"
    BY <1>0, <2>1, HeldSort
  <2>3. a.messages[n].role = "tool" /\ BucketOfRole(a.messages[n].role) = "message"
    BY <2>1, <2>2, MsgFields, SortRoles
  <2>4. ToolCallResult(a, e) = b
    BY <1>5, <2>3 DEF ToolCallResult, IsApplier, Fields
  <2> HIDE DEF n
  <2>5. /\ m \in Msg /\ m.id = i /\ m.role = "tool" /\ m.owner = e.tag
        /\ m.calls = a.messages[n].calls
    BY <2>1, <2>3, MsgFields DEF Msg, MessageRecord
  <2>6. a.messages[n].calls = <<>>
    BY <1>0, <2>1, <2>3 DEF Placed
  <2> HIDE DEF m
  <2>7. Placed(s, after, m)
    <3>1. m.role \in Roles /\ Sort(m.role) = "tool" /\ BucketOfRole(m.role) = "message"
      BY <2>2, <2>3, <2>5, MsgFields
    <3> QED BY <1>3, <2>5, <2>6, <3>1, MessagePlaced
  <2>8. \A c \in Ids : Carries(a.messages[n], c) => Carries(m, c)
    BY <2>5 DEF Carries
  <2>9. \A k \in DOMAIN a.messages : k # n => Placed(s, after, a.messages[k])
    BY <1>0, <1>2, <2>1 DEF Distinct
  <2>10. /\ Conversation(s, after, now, a.carrier)
         /\ \A j : Holds(a.messages, j) => Holds(now, j)
         /\ \A j : Spoken(a.messages, j) => Spoken(now, j)
    <3>1. m \in Msg /\ m.id = a.messages[n].id /\ m.role = a.messages[n].role
      BY <2>1, <2>3, <2>5
    <3>2. n \in DOMAIN a.messages
      BY <2>1
    <3>3. /\ a.messages \in Seq(Msg) /\ Distinct(a.messages) /\ a.carrier \in [Ids -> Nat]
          /\ \A c \in Ids : a.carrier[c] # 0 =>
                a.carrier[c] \in DOMAIN a.messages /\ Carries(a.messages[a.carrier[c]], c)
      BY <1>0
    <3> HIDE DEF i
    <3> QED BY ONLY <2>7, <2>8, <2>9, <3>1, <3>2, <3>3, MessageRewritten
  <2> HIDE DEF now
  <2>11. View(b, now, a.carrier, a.reasoning)
    BY ApplierFields
  <2> HIDE DEF b
  <2> QED BY <2>4, <2>10, <2>11 DEF View, Advances
<1> QED BY <1>4, <1>5

\* An activity is published, or published again.
LEMMA ActivityTaken ==
    ASSUME NEW s \in Agents, Sorted(s), NEW owner, NEW a, IsApplier(a),
           Conversation(s, owner, a.messages, a.carrier),
           NEW e, e.id \in Ids, e.tag \in Owner, Says(s, <<"activity", e.id>>),
           ~Holds(a.messages, e.id) \/ e.replace => owner["activity"][e.id] = e.tag
    PROVE  /\ Advances(s, owner, a, ActivitySnapshotted(a, e))
           /\ Holds(ActivitySnapshotted(a, e).messages, e.id)
<1> DEFINE i == e.id
           n == At(a.messages, i)
<1>0. /\ a.messages \in Seq(Msg) /\ Distinct(a.messages) /\ a.carrier \in [Ids -> Nat]
      /\ \A k \in DOMAIN a.messages : Placed(s, owner, a.messages[k]) /\ a.messages[k] \in Msg
      /\ \A c \in Ids : a.carrier[c] # 0 =>
            a.carrier[c] \in DOMAIN a.messages /\ Carries(a.messages[a.carrier[c]], c)
  BY DEF Conversation
<1>1. /\ n # 0 => n \in DOMAIN a.messages /\ a.messages[n].id = i
      /\ n = 0 <=> ~Holds(a.messages, i)
  BY <1>0, AtFacts
<1>2. "activity" \in Roles /\ Sort("activity") = "activity" /\ BucketOfRole("activity") = "activity"
  BY DEF Roles, Sort, BucketOfRole
<1>3. CASE n = 0
  <2> DEFINE new == Message(i, "activity", e.tag)
             m == [new EXCEPT !.written = TRUE]
  <2>1. m \in Msg /\ m.id = i /\ m.role = "activity" /\ m.owner = e.tag /\ m.calls = <<>>
    <3>1. new \in Msg /\ new.id = i /\ new.role = "activity" /\ new.owner = e.tag /\ new.calls = <<>>
      BY <1>2, MessageFacts
    <3> HIDE DEF new
    <3> QED BY <3>1 DEF Msg, MessageRecord
  <2>2. ActivitySnapshotted(a, e) = PushMessage(a, m)
    BY <1>3 DEF ActivitySnapshotted
  <2> HIDE DEF m
  <2>3. ~Holds(a.messages, m.id) /\ owner["activity"][i] = e.tag
    BY <1>1, <1>3, <2>1
  <2>4. Placed(s, owner, m)
    BY <1>2, <2>1, <2>3, MessagePlaced
  <2> HIDE DEF n
  <2> QED BY <2>1, <2>2, <2>3, <2>4, FreshPushed
<1>4. CASE n # 0
  <2> DEFINE g == IF e.replace THEN e.tag ELSE a.messages[n].owner
             m == [a.messages[n] EXCEPT !.written = TRUE, !.owner = g]
             now == [a.messages EXCEPT ![n] = m]
             b == [a EXCEPT !.messages = now]
  <2>1. n \in DOMAIN a.messages /\ a.messages[n].id = i /\ a.messages[n] \in Msg
    BY <1>0, <1>1, <1>4
  <2>2. /\ Sort(a.messages[n].role) = "activity"
        /\ owner[BucketOfRole(a.messages[n].role)][i] = a.messages[n].owner
    BY <1>0, <2>1, HeldSort
  <2>3. a.messages[n].role = "activity" /\ BucketOfRole(a.messages[n].role) = "activity"
    BY <1>2, <2>1, <2>2, MsgFields, SortRoles
  <2>4. ActivitySnapshotted(a, e) = b
    BY <1>4, <2>3 DEF ActivitySnapshotted, IsApplier, Fields
  <2> HIDE DEF n
  <2>5. g \in Owner /\ owner["activity"][i] = g
    BY <2>1, <2>2, <2>3, MsgFields
  <2> HIDE DEF g
  <2>6. /\ m \in Msg /\ m.id = i /\ m.role = "activity" /\ m.owner = g
        /\ m.calls = a.messages[n].calls
    BY <2>1, <2>3, <2>5 DEF Msg, MessageRecord
  <2>7. a.messages[n].calls = <<>>
    BY <1>0, <2>1, <2>3 DEF Placed
  <2> HIDE DEF m
  <2>8. Placed(s, owner, m)
    BY <1>2, <2>5, <2>6, <2>7, MessagePlaced
  <2>9. \A c \in Ids : Carries(a.messages[n], c) => Carries(m, c)
    BY <2>6 DEF Carries
  <2>10. /\ Conversation(s, owner, now, a.carrier)
         /\ \A j : Holds(a.messages, j) => Holds(now, j)
         /\ \A j : Spoken(a.messages, j) => Spoken(now, j)
    <3>1. m \in Msg /\ m.id = a.messages[n].id /\ m.role = a.messages[n].role /\ n \in DOMAIN a.messages
      BY <2>1, <2>3, <2>6
    <3>2. \A k \in DOMAIN a.messages : k # n => Placed(s, owner, a.messages[k])
      BY <1>0
    <3>3. /\ a.messages \in Seq(Msg) /\ Distinct(a.messages) /\ a.carrier \in [Ids -> Nat]
          /\ \A c \in Ids : a.carrier[c] # 0 =>
                a.carrier[c] \in DOMAIN a.messages /\ Carries(a.messages[a.carrier[c]], c)
      BY <1>0
    <3> HIDE DEF i
    <3> QED BY ONLY <2>8, <2>9, <3>1, <3>2, <3>3, MessageRewritten
  <2>11. Holds(now, i)
    BY <1>1, <1>4, <2>10
  <2> HIDE DEF now
  <2>12. View(b, now, a.carrier, a.reasoning)
    BY ApplierFields
  <2> HIDE DEF b
  <2> QED BY <2>4, <2>10, <2>11, <2>12 DEF View, Advances
<1> QED BY <1>3, <1>4

\* A message is signed, unless it is an activity; or a thought is.
LEMMA MessageSigned ==
    ASSUME NEW s, NEW owner, NEW a, IsApplier(a), Conversation(s, owner, a.messages, a.carrier),
           NEW i, At(a.reasoning, i) = 0
    PROVE  Advances(s, owner, a, SignMessage(a, i))
<1> DEFINE n == At(a.messages, i)
<1>0. a.messages \in Seq(Msg)
  BY DEF Conversation
<1>1. n # 0 => n \in DOMAIN a.messages
  BY <1>0, AtFacts
<1>2. CASE n = 0 \/ a.messages[n].role = "activity"
  <2>1. SignMessage(a, i) = a
    BY <1>2 DEF SignMessage
  <2> QED BY <2>1 DEF Advances
<1>3. CASE n # 0 /\ a.messages[n].role # "activity"
  <2> DEFINE m == [a.messages[n] EXCEPT !.signed = TRUE]
             b == [a EXCEPT !.messages = [a.messages EXCEPT ![n] = m]]
  <2>1. SignMessage(a, i) = b
    BY <1>3 DEF SignMessage, IsApplier, Fields
  <2> HIDE DEF n
  <2>2. n \in DOMAIN a.messages /\ a.messages[n] \in Msg
    BY <1>0, <1>1, <1>3
  <2>3. m \in Msg /\ m.id = a.messages[n].id /\ m.role = a.messages[n].role
        /\ m.owner = a.messages[n].owner /\ m.calls = a.messages[n].calls
    BY <2>2 DEF Msg, MessageRecord
  <2> HIDE DEF m
  <2>4. \A c \in Ids : Carries(a.messages[n], c) <=> Carries(m, c)
    BY <2>3 DEF Carries
  <2>5. Advances(s, owner, a, b)
    BY <2>2, <2>3, <2>4, Marked
  <2> QED BY <2>1, <2>5
<1> QED BY <1>2, <1>3

-----------------------------------------------------------------------------
(* The thoughts beside it *)

\* They stay while the owners of thoughts do and no other is open.
LEMMA ThoughtsKept ==
    ASSUME NEW s, NEW owner, NEW open, NEW reasoning, Thoughts(s, owner, open, reasoning),
           NEW after, \A i \in Ids : Thought(s, i) => after["reasoning"][i] = owner["reasoning"][i],
           NEW now, \A i \in Ids : now["reasoning"][i] # Absent => open["reasoning"][i] # Absent
    PROVE  Thoughts(s, after, now, reasoning)
BY DEF Thoughts

\* A thought begins, or goes on.
LEMMA ThoughtBegins ==
    ASSUME NEW s, NEW owner, NEW open, NEW reasoning, Thoughts(s, owner, open, reasoning),
           NEW i \in Ids, Thought(s, i), NEW g \in Owner,
           NEW after, \A j \in Ids : j # i => after["reasoning"][j] = owner["reasoning"][j],
           after["reasoning"][i] = IF owner["reasoning"][i] = Absent THEN g ELSE owner["reasoning"][i],
           NEW now, \A j \in Ids : j # i /\ now["reasoning"][j] # Absent => open["reasoning"][j] # Absent,
           NEW more, more = IF At(reasoning, i) # 0 THEN reasoning
                            ELSE Append(reasoning, Message(i, "reasoning", g))
    PROVE  Thoughts(s, after, now, more)
<1>0. reasoning \in Seq(Msg)
  BY DEF Thoughts
<1>1. At(reasoning, i) = 0 <=> ~Holds(reasoning, i)
  BY <1>0, AtFacts
<1>2. ASSUME NEW n \in DOMAIN reasoning
      PROVE  /\ reasoning[n].id \in Ids /\ Thought(s, reasoning[n].id)
             /\ after["reasoning"][reasoning[n].id] = reasoning[n].owner
  <2>1. /\ reasoning[n].id \in Ids /\ Thought(s, reasoning[n].id)
        /\ owner["reasoning"][reasoning[n].id] = reasoning[n].owner
    BY DEF Thoughts
  <2>2. reasoning[n].owner \in Owner
    BY <1>0, MsgFields
  <2> QED BY <2>1, <2>2, Vocabulary
<1>3. \A j \in Ids : j # i =>
         /\ now["reasoning"][j] # Absent => Holds(reasoning, j)
         /\ Thought(s, j) /\ after["reasoning"][j] # Absent => Holds(reasoning, j)
  BY DEF Thoughts
<1>4. CASE At(reasoning, i) # 0
  BY <1>0, <1>1, <1>2, <1>3, <1>4 DEF Thoughts
<1>5. CASE At(reasoning, i) = 0
  <2> DEFINE m == Message(i, "reasoning", g)
  <2>1. m \in Msg /\ m.id = i /\ m.owner = g
    BY MessageFacts DEF Roles
  <2> HIDE DEF m
  <2>2. /\ more \in Seq(Msg) /\ DOMAIN more = 1..(Len(reasoning) + 1)
        /\ more[Len(reasoning) + 1] = m /\ Len(reasoning) \in Nat
        /\ \A n \in DOMAIN reasoning : n \in DOMAIN more /\ more[n] = reasoning[n]
        /\ \A n \in DOMAIN more : n = Len(reasoning) + 1 \/ n \in DOMAIN reasoning
        /\ Len(reasoning) + 1 \in DOMAIN more
    <3>1. more = Append(reasoning, m)
      BY <1>5 DEF m
    <3> QED BY <1>0, <2>1, <3>1
  <2>3. owner["reasoning"][i] = Absent
    BY <1>1, <1>5 DEF Thoughts
  <2>4. \A n \in DOMAIN more :
           /\ more[n].id \in Ids /\ Thought(s, more[n].id)
           /\ after["reasoning"][more[n].id] = more[n].owner
    BY <1>2, <2>1, <2>2, <2>3
  <2>5. Holds(more, i) /\ \A j : Holds(reasoning, j) => Holds(more, j)
    BY <2>1, <2>2 DEF Holds
  <2> QED BY <1>3, <2>2, <2>4, <2>5 DEF Thoughts
<1> QED BY <1>4, <1>5

\* A thought is marked, written or signed.
LEMMA ThoughtMarked ==
    ASSUME NEW s, NEW owner, NEW open, NEW reasoning, Thoughts(s, owner, open, reasoning),
           NEW n \in DOMAIN reasoning, NEW m \in Msg,
           m.id = reasoning[n].id, m.owner = reasoning[n].owner
    PROVE  Thoughts(s, owner, open, [reasoning EXCEPT ![n] = m])
<1> DEFINE after == [reasoning EXCEPT ![n] = m]
<1>0. reasoning \in Seq(Msg)
  BY DEF Thoughts
<1>1. /\ after \in Seq(Msg) /\ DOMAIN after = DOMAIN reasoning
      /\ \A k \in DOMAIN reasoning : after[k].id = reasoning[k].id /\ after[k].owner = reasoning[k].owner
  BY <1>0
<1> HIDE DEF after
<1>2. \A j : Holds(reasoning, j) => Holds(after, j)
  BY <1>1 DEF Holds
<1>3. Thoughts(s, owner, open, after)
  BY <1>1, <1>2 DEF Thoughts
<1> QED BY <1>3 DEF after

\* What the applier does of it.
LEMMA ReasoningViews ==
    ASSUME NEW s, NEW owner, NEW open, NEW a, IsApplier(a), Thoughts(s, owner, open, a.reasoning),
           NEW i \in Ids, NEW g
    PROVE  /\ View(ReasoningStart(a, i, g), a.messages, a.carrier,
                   IF At(a.reasoning, i) # 0 THEN a.reasoning
                   ELSE Append(a.reasoning, Message(i, "reasoning", g)))
           /\ View(ReasoningEnd(a, i), a.messages, a.carrier, a.reasoning)
           /\ Holds(a.reasoning, i) =>
                 /\ \E r : /\ View(ReasoningContent(a, i, g), a.messages, a.carrier, r)
                           /\ Thoughts(s, owner, open, r)
                 /\ \E r : /\ View(SignMessage(a, i), a.messages, a.carrier, r)
                           /\ Thoughts(s, owner, open, r)
<1> DEFINE n == At(a.reasoning, i)
<1>0. a.reasoning \in Seq(Msg)
  BY DEF Thoughts
<1>1. /\ n # 0 => n \in DOMAIN a.reasoning /\ a.reasoning[n].id = i
      /\ n = 0 <=> ~Holds(a.reasoning, i)
  BY <1>0, AtFacts
<1>2. View(ReasoningStart(a, i, g), a.messages, a.carrier,
           IF n # 0 THEN a.reasoning ELSE Append(a.reasoning, Message(i, "reasoning", g)))
  <2> DEFINE x == Reopened(a.reasoningStreams, i, g)
             y == IF n # 0 THEN a.reasoning ELSE Append(a.reasoning, Message(i, "reasoning", g))
             z == a.openReasoning \cup {i}
  <2>1. ReasoningStart(a, i, g) = [a EXCEPT !.reasoningStreams = x, !.reasoning = y, !.openReasoning = z]
    BY DEF ReasoningStart, IsApplier, Fields
  <2> HIDE DEF x, y, z
  <2>2. View([a EXCEPT !.reasoningStreams = x, !.reasoning = y, !.openReasoning = z], a.messages, a.carrier, y)
    BY ApplierFields
  <2> QED BY <2>1, <2>2 DEF y
<1>3. View(ReasoningEnd(a, i), a.messages, a.carrier, a.reasoning)
  <2> DEFINE x == Without(a.reasoningStreams, i)
             y == a.openReasoning \ {i}
  <2>1. ReasoningEnd(a, i) = [a EXCEPT !.reasoningStreams = x, !.openReasoning = y]
    BY DEF ReasoningEnd, IsApplier, Fields
  <2> HIDE DEF x, y
  <2>2. View([a EXCEPT !.reasoningStreams = x, !.openReasoning = y], a.messages, a.carrier, a.reasoning)
    BY ApplierFields
  <2> QED BY <2>1, <2>2
<1>4. ASSUME Holds(a.reasoning, i)
      PROVE  /\ \E r : View(ReasoningContent(a, i, g), a.messages, a.carrier, r) /\ Thoughts(s, owner, open, r)
             /\ \E r : View(SignMessage(a, i), a.messages, a.carrier, r) /\ Thoughts(s, owner, open, r)
  <2> DEFINE m == [a.reasoning[n] EXCEPT !.written = TRUE]
             w == [a.reasoning[n] EXCEPT !.signed = TRUE]
             x == [a.reasoning EXCEPT ![n] = m]
             y == [a.reasoning EXCEPT ![n] = w]
  <2>1. n # 0 /\ n \in DOMAIN a.reasoning /\ a.reasoning[n] \in Msg
    BY <1>0, <1>1, <1>4
  <2>2. /\ ReasoningContent(a, i, g) = [a EXCEPT !.reasoning = x]
        /\ SignMessage(a, i) = [a EXCEPT !.reasoning = y]
    BY <2>1 DEF ReasoningContent, Think, SignMessage, IsApplier, Fields
  <2> HIDE DEF n
  <2>3. /\ m \in Msg /\ m.id = a.reasoning[n].id /\ m.owner = a.reasoning[n].owner
        /\ w \in Msg /\ w.id = a.reasoning[n].id /\ w.owner = a.reasoning[n].owner
    BY <2>1 DEF Msg, MessageRecord
  <2> HIDE DEF m, w
  <2>4. Thoughts(s, owner, open, x) /\ Thoughts(s, owner, open, y)
    BY <2>1, <2>3, ThoughtMarked
  <2> HIDE DEF x, y
  <2>5. /\ View([a EXCEPT !.reasoning = x], a.messages, a.carrier, x)
        /\ View([a EXCEPT !.reasoning = y], a.messages, a.carrier, y)
    BY ApplierFields
  <2> QED BY <2>2, <2>4, <2>5
<1> QED BY <1>2, <1>3, <1>4

-----------------------------------------------------------------------------
(* A snapshot *)

\* Places for a message each, no message twice.
Slots(places) ==
    /\ places \in Seq(Seq(Msg))
    /\ \A n \in DOMAIN places : places[n] = <<>> \/ \E m \in Msg : places[n] = <<m>>
    /\ \A j, n \in DOMAIN places, m, w \in Msg :
          places[j] = <<m>> /\ places[n] = <<w>> /\ m.id = w.id => j = n

\* A list is filled from the first of them.
FilledUpto(list, places, n) ==
    /\ list \in Seq(Msg) /\ Distinct(list)
    /\ \A k \in DOMAIN list : \E j \in 1..n : places[j] = <<list[k]>>
    /\ \A j \in 1..n, m \in Msg : places[j] = <<m>> => \E k \in DOMAIN list : list[k] = m

\* The list goes on with what is in the next place.
LEMMA FilledMore ==
    ASSUME NEW places, Slots(places), NEW n \in 1..Len(places), NEW list, FilledUpto(list, places, n - 1)
    PROVE  FilledUpto(list \o places[n], places, n)
<1>0. /\ places \in Seq(Seq(Msg)) /\ list \in Seq(Msg) /\ Len(places) \in Nat
      /\ DOMAIN places = 1..Len(places) /\ n - 1 \in Nat
      /\ \A j \in 1..(n - 1) : j \in 1..n /\ j \in DOMAIN places /\ j # n
      /\ \A j \in 1..n : j \in 1..(n - 1) \/ j = n
      /\ n \in 1..n /\ n \in DOMAIN places
  BY DEF Slots, FilledUpto
<1>1. CASE places[n] = <<>>
  <2>1. list \o places[n] = list
    BY <1>0, <1>1
  <2>2. \A m : places[n] # <<m>>
    BY <1>1
  <2> QED BY <1>0, <2>1, <2>2 DEF FilledUpto
<1>2. ASSUME NEW m \in Msg, places[n] = <<m>>
      PROVE  FilledUpto(list \o places[n], places, n)
  <2> DEFINE more == Append(list, m)
  <2>1. list \o places[n] = more
    BY <1>0, <1>2
  <2>2. /\ more \in Seq(Msg) /\ DOMAIN more = 1..(Len(list) + 1)
        /\ more[Len(list) + 1] = m /\ Len(list) \in Nat
        /\ \A k \in DOMAIN list : k \in DOMAIN more /\ more[k] = list[k]
        /\ \A k \in DOMAIN more : k = Len(list) + 1 \/ k \in DOMAIN list
        /\ Len(list) + 1 \in DOMAIN more
    BY <1>0
  <2> HIDE DEF more
  <2>3. \A k \in DOMAIN list : list[k].id # m.id
    <3> SUFFICES ASSUME NEW k \in DOMAIN list, list[k].id = m.id PROVE FALSE
      OBVIOUS
    <3>1. PICK j \in 1..(n - 1) : places[j] = <<list[k]>>
      BY DEF FilledUpto
    <3>2. list[k] \in Msg
      BY <1>0
    <3>3. j = n
      BY <1>0, <1>2, <3>1, <3>2 DEF Slots
    <3> QED BY <1>0, <3>3
  <2>4. Distinct(more)
    BY <2>2, <2>3 DEF Distinct, FilledUpto
  <2>5. ASSUME NEW k \in DOMAIN more
        PROVE  \E j \in 1..n : places[j] = <<more[k]>>
    <3>1. CASE k = Len(list) + 1
      BY <1>0, <1>2, <2>2, <3>1
    <3>2. CASE k \in DOMAIN list
      BY <1>0, <2>2, <3>2 DEF FilledUpto
    <3> QED BY <2>2, <3>1, <3>2
  <2>6. ASSUME NEW j \in 1..n, NEW w \in Msg, places[j] = <<w>>
        PROVE  \E k \in DOMAIN more : more[k] = w
    <3>1. CASE j = n
      <4>1. w = m
        BY <1>2, <2>6, <3>1
      <4> QED BY <2>2, <4>1
    <3>2. CASE j \in 1..(n - 1)
      BY <2>2, <2>6, <3>2 DEF FilledUpto
    <3> QED BY <1>0, <3>1, <3>2
  <2> QED BY <2>1, <2>2, <2>4, <2>5, <2>6 DEF FilledUpto
<1> QED BY <1>0, <1>1, <1>2 DEF Slots

\* Until all places are told.
LEMMA Filled ==
    ASSUME NEW places, Slots(places)
    PROVE  FilledUpto(FlattenSeq(places), places, Len(places))
<1> DEFINE L == Len(places)
           A == Seq(Msg)
           follow == [n \in 1..L |-> [list \in A |-> list \o places[n]]]
           Walk(f) == f = [n \in 1..L |-> IF n = 1 THEN places[n] ELSE f[n - 1] \o places[n]]
<1>0. /\ L \in Nat /\ places \in Seq(Seq(Msg)) /\ \A n \in 1..L : places[n] \in Seq(Msg) /\ n - 1 \in 0..L
      /\ \A n \in 1..L : n # 1 => n - 1 \in 1..L
      /\ L # 0 => 1 \in 1..L /\ L \in 1..L
  BY DEF Slots
<1>1. PICK f : Recurs(f, A, <<>>, follow, L)
  <2>1. <<>> \in A
    OBVIOUS
  <2>2. follow \in [1..L -> [A -> A]]
    BY <1>0, ConcatProperties
  <2> HIDE DEF A, follow
  <2> QED BY <1>0, <2>1, <2>2, Recursion
<1>2. f[0] = <<>> /\ \A n \in 0..L : f[n] \in Seq(Msg)
  BY <1>1 DEF Recurs
<1>3. \A n \in 1..L : f[n] = f[n - 1] \o places[n]
  BY <1>0, <1>1 DEF Recurs
<1>4. FilledUpto(<<>>, places, 0)
  BY DEF FilledUpto, Distinct
<1>5. \A n \in 0..L : FilledUpto(f[n], places, n)
  <2> DEFINE T == {n \in 0..L : FilledUpto(f[n], places, n)}
  <2>1. 0 \in T
    BY <1>0, <1>2, <1>4
  <2>2. ASSUME NEW n \in 1..L, n - 1 \in T
        PROVE  n \in T
    <3>1. FilledUpto(f[n - 1], places, n - 1)
      BY <2>2
    <3>2. FilledUpto(f[n - 1] \o places[n], places, n)
      BY <3>1, FilledMore
    <3>3. FilledUpto(f[n], places, n) /\ n \in 0..L
      <4>1. f[n] = f[n - 1] \o places[n]
        BY <1>3
      <4>2. FilledUpto(f[n], places, n)
        BY ONLY <3>2, <4>1
      <4> QED BY <1>0, <4>2
    <3> QED BY <3>3
  <2> HIDE DEF T
  <2>3. \A n \in 0..L : n \in T
    BY <1>0, <2>1, <2>2, IntervalInduction DEF T
  <2> QED BY <2>3 DEF T
<1>6. CASE L = 0
  <2>1. FlattenSeq(places) = <<>>
    BY <1>0, <1>6 DEF FlattenSeq
  <2> QED BY <1>4, <1>6, <2>1
<1>7. CASE L # 0
  <2> DEFINE h == [n \in 1..L |-> f[n]]
             g == CHOOSE walk : Walk(walk)
  <2>1. FlattenSeq(places) = g[L]
    BY <1>7 DEF FlattenSeq
  <2>2. Walk(h)
    <3>1. f[1] = places[1]
      <4>1. 1 \in 1..L /\ 1 - 1 = 0
        BY <1>0, <1>7
      <4>2. f[1] = f[1 - 1] \o places[1]
        BY <1>3, <4>1
      <4>3. f[1] = <<>> \o places[1] /\ places[1] \in Seq(Msg)
        BY <1>0, <1>2, <4>1, <4>2
      <4> QED BY <4>3
    <3> QED BY <1>0, <1>3, <3>1
  <2>3. Walk(g)
    <3> HIDE DEF Walk
    <3> QED BY <2>2
  <2> HIDE DEF g
  <2>4. \A n \in 1..L : g[n] = IF n = 1 THEN places[n] ELSE g[n - 1] \o places[n]
    BY <2>3, Zenon
  <2>5. \A n \in 1..L : h[n] = IF n = 1 THEN places[n] ELSE h[n - 1] \o places[n]
    BY <2>2, Zenon
  <2> DEFINE T == {n \in 0..L : n # 0 => g[n] = h[n]}
  <2>6. \A n \in 1..L : n - 1 \in T => n \in T
    <3> HIDE DEF h
    <3> QED BY <1>0, <2>4, <2>5
  <2>7. 0 \in T
    BY <1>0
  <2> HIDE DEF T
  <2>8. L \in T
    BY <1>0, <2>6, <2>7, IntervalInduction DEF T
  <2>9. g[L] = f[L]
    BY <1>0, <1>7, <2>8 DEF T
  <2> QED BY <1>0, <1>5, <2>1, <2>9
<1> QED BY <1>6, <1>7


\* Every message of the conversation has a place, then every message of the snapshot.
LEMMA MergePlaces ==
    ASSUME NEW messages \in Seq(Msg), NEW snapshot, WellStated(snapshot)
    PROVE  /\ snapshot \in Seq(Msg) /\ Len(messages) \in Nat
           /\ Places(messages, snapshot) \in Seq(Seq(Msg))
           /\ \A n \in DOMAIN messages :
                 /\ n \in DOMAIN Places(messages, snapshot)
                 /\ Places(messages, snapshot)[n] = Replacement(messages[n], snapshot)
           /\ \A n \in DOMAIN snapshot :
                 /\ Len(messages) + n \in DOMAIN Places(messages, snapshot)
                 /\ Places(messages, snapshot)[Len(messages) + n] = Addition(snapshot[n], messages)
           /\ \A j \in DOMAIN Places(messages, snapshot) :
                 j \in DOMAIN messages \/ \E n \in DOMAIN snapshot : j = Len(messages) + n
<1> DEFINE here == [n \in DOMAIN messages |-> Replacement(messages[n], snapshot)]
           more == [n \in DOMAIN snapshot |-> Addition(snapshot[n], messages)]
<1>1. snapshot \in Seq(Msg)
  <2>1. \A m \in MessageRecord(Ids) : m \in Msg
    BY DEF Msg, MessageRecord
  <2>2. snapshot \in Seq(MessageRecord(Ids))
    BY DEF WellStated
  <2> QED BY <2>1, <2>2
<1>2. ASSUME NEW n \in DOMAIN messages
      PROVE  Replacement(messages[n], snapshot) \in Seq(Msg)
  <2>1. At(snapshot, messages[n].id) # 0 => snapshot[At(snapshot, messages[n].id)] \in Msg
    BY <1>1, AtFacts
  <2> QED BY <2>1 DEF Replacement
<1>3. \A n \in DOMAIN snapshot : Addition(snapshot[n], messages) \in Seq(Msg)
  BY <1>1 DEF Addition
<1>4. here \in Seq(Seq(Msg)) /\ Len(here) = Len(messages) /\ DOMAIN here = DOMAIN messages
  <2>1. here \in [1..Len(messages) -> Seq(Msg)] /\ Len(messages) \in Nat /\ DOMAIN messages = 1..Len(messages)
    BY <1>2
  <2> HIDE DEF here
  <2> QED BY <2>1
<1>5. more \in Seq(Seq(Msg)) /\ Len(more) = Len(snapshot) /\ DOMAIN more = DOMAIN snapshot
  <2>1. more \in [1..Len(snapshot) -> Seq(Msg)] /\ Len(snapshot) \in Nat /\ DOMAIN snapshot = 1..Len(snapshot)
    BY <1>1, <1>3
  <2> HIDE DEF more
  <2> QED BY <2>1
<1>6. /\ \A n \in DOMAIN here : here[n] = Replacement(messages[n], snapshot)
      /\ \A n \in DOMAIN more : more[n] = Addition(snapshot[n], messages)
      /\ Places(messages, snapshot) = here \o more
  BY DEF Places
<1> HIDE DEF here, more
<1>7. /\ here \o more \in Seq(Seq(Msg)) /\ Len(here \o more) = Len(here) + Len(more)
      /\ \A n \in 1..(Len(here) + Len(more)) :
            (here \o more)[n] = IF n <= Len(here) THEN here[n] ELSE more[n - Len(here)]
  <2> DEFINE A == Seq(Msg)
  <2>1. here \in Seq(A) /\ more \in Seq(A)
    BY <1>4, <1>5
  <2> HIDE DEF A
  <2>2. /\ here \o more \in Seq(A) /\ Len(here \o more) = Len(here) + Len(more)
        /\ \A n \in 1..(Len(here) + Len(more)) :
              (here \o more)[n] = IF n <= Len(here) THEN here[n] ELSE more[n - Len(here)]
    BY ONLY <2>1, ConcatProperties
  <2> QED BY <2>2 DEF A
<1>8. /\ Len(here) \in Nat /\ Len(more) \in Nat /\ DOMAIN (here \o more) = 1..(Len(here) + Len(more))
      /\ DOMAIN here = 1..Len(here) /\ DOMAIN more = 1..Len(more)
  BY <1>4, <1>5, <1>7
<1>9. \A n \in DOMAIN messages : n \in DOMAIN (here \o more) /\ (here \o more)[n] = here[n]
  BY <1>4, <1>7, <1>8
<1>10. ASSUME NEW n \in DOMAIN snapshot
       PROVE  Len(messages) + n \in DOMAIN (here \o more) /\ (here \o more)[Len(messages) + n] = more[n]
  <2>1. n \in 1..Len(more) /\ ~(Len(here) + n <= Len(here)) /\ (Len(here) + n) - Len(here) = n
        /\ Len(here) + n \in 1..(Len(here) + Len(more))
    BY <1>5, <1>8
  <2> QED BY <1>4, <1>7, <1>8, <2>1
<1>11. ASSUME NEW j \in DOMAIN (here \o more)
       PROVE  j \in DOMAIN messages \/ \E n \in DOMAIN snapshot : j = Len(messages) + n
  <2>1. j \in 1..Len(here) \/ (j - Len(here) \in 1..Len(more) /\ j = Len(here) + (j - Len(here)))
    BY <1>8
  <2> QED BY <1>4, <1>5, <1>8, <2>1
<1> QED BY <1>1, <1>4, <1>5, <1>6, <1>7, <1>9, <1>10, <1>11

\* What comes in a place has the id it had, or an id that is new.
LEMMA MergeSlots ==
    ASSUME NEW messages \in Seq(Msg), Distinct(messages), NEW snapshot, WellStated(snapshot)
    PROVE  Slots(Places(messages, snapshot))
<1> DEFINE places == Places(messages, snapshot)
<1>1. /\ snapshot \in Seq(Msg) /\ Len(messages) \in Nat
      /\ places \in Seq(Seq(Msg))
      /\ \A n \in DOMAIN messages : places[n] = Replacement(messages[n], snapshot)
      /\ \A n \in DOMAIN snapshot : places[Len(messages) + n] = Addition(snapshot[n], messages)
      /\ \A j \in DOMAIN places : j \in DOMAIN messages \/ \E n \in DOMAIN snapshot : j = Len(messages) + n
  BY MergePlaces
<1> HIDE DEF places
<1>2. ASSUME NEW n \in DOMAIN messages
      PROVE  places[n] = <<>> \/ \E m \in Msg : places[n] = <<m>> /\ m.id = messages[n].id
  <2>1. CASE KeepsLocal(snapshot, messages[n])
    <3>1. places[n] = <<messages[n]>>
      BY <1>1, <2>1 DEF Replacement
    <3>2. messages[n] \in Msg
      OBVIOUS
    <3> QED BY <3>1, <3>2
  <2>2. CASE ~KeepsLocal(snapshot, messages[n])
    <3> DEFINE k == At(snapshot, messages[n].id)
    <3>1. k # 0 => k \in DOMAIN snapshot /\ snapshot[k].id = messages[n].id
      BY <1>1, AtFacts
    <3>2. places[n] = IF k = 0 THEN <<>> ELSE <<snapshot[k]>>
      BY <1>1, <2>2 DEF Replacement
    <3> HIDE DEF k
    <3> QED BY <1>1, <3>1, <3>2
  <2> QED BY <2>1, <2>2
<1>3. ASSUME NEW n \in DOMAIN snapshot
      PROVE  /\ snapshot[n] \in Msg
             /\ \/ places[Len(messages) + n] = <<>>
                \/ places[Len(messages) + n] = <<snapshot[n]>> /\ ~Holds(messages, snapshot[n].id)
  <2>1. snapshot[n] \in Msg
    BY <1>1
  <2>2. At(messages, snapshot[n].id) = 0 <=> ~Holds(messages, snapshot[n].id)
    BY AtFacts
  <2>3. places[Len(messages) + n] = IF At(messages, snapshot[n].id) = 0 THEN <<snapshot[n]>> ELSE <<>>
    BY <1>1 DEF Addition
  <2> QED BY <2>1, <2>2, <2>3
<1>4. ASSUME NEW j \in DOMAIN places
      PROVE  places[j] = <<>> \/ \E m \in Msg : places[j] = <<m>>
  <2>1. CASE j \in DOMAIN messages
    BY <1>2, <2>1
  <2>2. ASSUME NEW n \in DOMAIN snapshot, j = Len(messages) + n
        PROVE  places[j] = <<>> \/ \E m \in Msg : places[j] = <<m>>
    BY <1>3, <2>2
  <2> QED BY <1>1, <2>1, <2>2
<1>5. ASSUME NEW j \in DOMAIN places, NEW n \in DOMAIN places, NEW m \in Msg, NEW w \in Msg,
             places[j] = <<m>>, places[n] = <<w>>, m.id = w.id
      PROVE  j = n
  <2>1. ASSUME NEW p \in DOMAIN messages, NEW x \in Msg, places[p] = <<x>>
        PROVE  messages[p].id = x.id /\ Holds(messages, x.id)
    <3>1. <<>> # <<x>> /\ \A y \in Msg : <<x>> = <<y>> => x = y
      OBVIOUS
    <3> QED BY <1>2, <2>1, <3>1 DEF Holds
  <2>2. ASSUME NEW p \in DOMAIN snapshot, NEW x \in Msg, places[Len(messages) + p] = <<x>>
        PROVE  snapshot[p] = x /\ ~Holds(messages, x.id)
    <3>1. <<>> # <<x>> /\ \A y \in Msg : <<x>> = <<y>> => x = y
      OBVIOUS
    <3> QED BY <1>3, <2>2, <3>1
  <2>3. CASE j \in DOMAIN messages
    <3>1. n \in DOMAIN messages
      <4>1. Holds(messages, w.id)
        BY <1>5, <2>1, <2>3
      <4>2. ASSUME NEW q \in DOMAIN snapshot, n = Len(messages) + q PROVE FALSE
        BY <1>5, <2>2, <4>1, <4>2
      <4> QED BY <1>1, <4>2
    <3> QED BY <1>5, <2>1, <2>3, <3>1 DEF Distinct
  <2>4. ASSUME NEW p \in DOMAIN snapshot, j = Len(messages) + p
        PROVE  j = n
    <3>1. snapshot[p] = m /\ ~Holds(messages, m.id)
      BY <1>5, <2>2, <2>4
    <3>2. n \notin DOMAIN messages
      BY <1>5, <2>1, <3>1
    <3>3. PICK q \in DOMAIN snapshot : n = Len(messages) + q
      BY <1>1, <3>2
    <3>4. snapshot[q] = w
      BY <1>5, <2>2, <3>3
    <3> QED BY <1>5, <2>4, <3>1, <3>3, <3>4 DEF WellStated
  <2> QED BY <1>1, <2>3, <2>4
<1> QED BY <1>1, <1>4, <1>5 DEF Slots, places


\* What a merged conversation is made of: the snapshot's messages, all of them, and the
\* activities it leaves to the client.
LEMMA MergedFacts ==
    ASSUME NEW messages \in Seq(Msg), Distinct(messages), NEW snapshot, WellStated(snapshot),
           \A j \in DOMAIN messages, n \in DOMAIN snapshot :
              messages[j].id = snapshot[n].id => ~KeepsLocal(snapshot, messages[j]),
           NEW merged, merged = Merged(messages, snapshot)
    PROVE  /\ merged \in Seq(Msg) /\ Distinct(merged)
           /\ \A k \in DOMAIN merged :
                 \/ \E n \in DOMAIN snapshot : merged[k] = snapshot[n]
                 \/ \E j \in DOMAIN messages : merged[k] = messages[j] /\ KeepsLocal(snapshot, messages[j])
           /\ \A n \in DOMAIN snapshot : \E k \in DOMAIN merged : merged[k] = snapshot[n]
           /\ \A j \in DOMAIN messages :
                 KeepsLocal(snapshot, messages[j]) => \E k \in DOMAIN merged : merged[k] = messages[j]
<1> DEFINE places == Places(messages, snapshot)
<1>1. /\ snapshot \in Seq(Msg) /\ Len(messages) \in Nat
      /\ places \in Seq(Seq(Msg))
      /\ \A n \in DOMAIN messages : n \in DOMAIN places /\ places[n] = Replacement(messages[n], snapshot)
      /\ \A n \in DOMAIN snapshot :
            /\ Len(messages) + n \in DOMAIN places
            /\ places[Len(messages) + n] = Addition(snapshot[n], messages)
      /\ \A j \in DOMAIN places : j \in DOMAIN messages \/ \E n \in DOMAIN snapshot : j = Len(messages) + n
  BY MergePlaces
<1>2. FilledUpto(merged, places, Len(places))
  BY MergeSlots, Filled DEF Merged
<1> HIDE DEF places
<1>3. /\ merged \in Seq(Msg) /\ Distinct(merged)
      /\ DOMAIN places = 1..Len(places)
      /\ \A k \in DOMAIN merged : \E j \in DOMAIN places : places[j] = <<merged[k]>>
      /\ \A j \in DOMAIN places, m \in Msg : places[j] = <<m>> => \E k \in DOMAIN merged : merged[k] = m
  <2>1. DOMAIN places = 1..Len(places)
    BY <1>1
  <2> QED BY <1>2, <2>1, Zenon DEF FilledUpto
<1>4. \A x, y : <<x>> = <<y>> => x = y
  OBVIOUS
<1>5. \A x : <<>> # <<x>>
  OBVIOUS
<1>6. ASSUME NEW k \in DOMAIN merged
      PROVE  \/ \E n \in DOMAIN snapshot : merged[k] = snapshot[n]
             \/ \E j \in DOMAIN messages : merged[k] = messages[j] /\ KeepsLocal(snapshot, messages[j])
  <2>1. PICK p \in DOMAIN places : places[p] = <<merged[k]>>
    BY <1>3
  <2>2. ASSUME p \in DOMAIN messages, ~KeepsLocal(snapshot, messages[p])
        PROVE  \E n \in DOMAIN snapshot : merged[k] = snapshot[n]
    <3> DEFINE n == At(snapshot, messages[p].id)
    <3>1. n # 0 => n \in DOMAIN snapshot
      BY <1>1, AtFacts
    <3>2. places[p] = IF n = 0 THEN <<>> ELSE <<snapshot[n]>>
      BY <1>1, <2>2 DEF Replacement
    <3> HIDE DEF n
    <3> QED BY <1>4, <1>5, <2>1, <3>1, <3>2
  <2>3. ASSUME p \in DOMAIN messages, KeepsLocal(snapshot, messages[p])
        PROVE  merged[k] = messages[p]
    <3>1. places[p] = <<messages[p]>>
      BY <1>1, <2>3 DEF Replacement
    <3> QED BY <1>4, <2>1, <3>1
  <2>4. ASSUME NEW n \in DOMAIN snapshot, p = Len(messages) + n
        PROVE  merged[k] = snapshot[n]
    <3>1. places[p] = IF At(messages, snapshot[n].id) = 0 THEN <<snapshot[n]>> ELSE <<>>
      BY <1>1, <2>4 DEF Addition
    <3> QED BY <1>4, <1>5, <2>1, <3>1
  <2> QED BY <1>1, <2>2, <2>3, <2>4
<1>7. ASSUME NEW n \in DOMAIN snapshot
      PROVE  \E k \in DOMAIN merged : merged[k] = snapshot[n]
  <2>1. snapshot[n] \in Msg
    BY <1>1
  <2>2. CASE Holds(messages, snapshot[n].id)
    <3>1. PICK j \in DOMAIN messages : messages[j].id = snapshot[n].id
      BY <2>2 DEF Holds
    <3>2. ~KeepsLocal(snapshot, messages[j])
      BY <3>1
    <3> DEFINE q == At(snapshot, messages[j].id)
    <3>3. q # 0 /\ q \in DOMAIN snapshot /\ snapshot[q].id = messages[j].id
      <4>1. Holds(snapshot, messages[j].id)
        BY <3>1 DEF Holds
      <4> QED BY <1>1, <4>1, AtFacts
    <3>4. places[j] = IF q = 0 THEN <<>> ELSE <<snapshot[q]>>
      BY <1>1, <3>2 DEF Replacement
    <3> HIDE DEF q
    <3>5. q = n
      BY <3>1, <3>3 DEF WellStated
    <3> QED BY <1>1, <1>3, <2>1, <3>3, <3>4, <3>5
  <2>3. CASE ~Holds(messages, snapshot[n].id)
    <3>1. At(messages, snapshot[n].id) = 0
      BY <2>3, AtFacts
    <3>2. places[Len(messages) + n] = <<snapshot[n]>>
      BY <1>1, <3>1 DEF Addition
    <3> QED BY <1>1, <1>3, <2>1, <3>2
  <2> QED BY <2>2, <2>3
<1>8. ASSUME NEW j \in DOMAIN messages, KeepsLocal(snapshot, messages[j])
      PROVE  \E k \in DOMAIN merged : merged[k] = messages[j]
  <2>1. places[j] = <<messages[j]>>
    BY <1>1, <1>8 DEF Replacement
  <2>2. messages[j] \in Msg
    OBVIOUS
  <2> QED BY <1>1, <1>3, <2>1, <2>2
<1> QED BY <1>3, <1>6, <1>7, <1>8

\* What the verifiers read in a snapshot.
LEMMA HistoryFacts ==
    ASSUME NEW snapshot, WellStated(snapshot), NEW history, history = HistoryOf(snapshot)
    PROVE  /\ snapshot \in Seq(Msg)
           /\ \A n \in DOMAIN snapshot :
                 /\ snapshot[n].id \in Ids /\ snapshot[n].owner \in Owner /\ snapshot[n].role \in Roles
                 /\ snapshot[n].calls # <<>> => snapshot[n].role = "assistant"
                 /\ history[BucketOfRole(snapshot[n].role)][snapshot[n].id] = snapshot[n].owner
                 /\ \A c \in Ids : Carries(snapshot[n], c) => history["call"][c] = snapshot[n].owner
           /\ \A b \in Buckets, i \in Ids :
                 history[b][i] # Absent => \E n \in DOMAIN snapshot : Naming(snapshot[n], b, i)
<1>1. snapshot \in Seq(Msg)
  <2>1. \A m \in MessageRecord(Ids) : m \in Msg
    BY DEF Msg, MessageRecord
  <2>2. snapshot \in Seq(MessageRecord(Ids))
    BY DEF WellStated
  <2> QED BY <2>1, <2>2
<1>2. ASSUME NEW n \in DOMAIN snapshot
      PROVE  /\ snapshot[n].id \in Ids /\ snapshot[n].owner \in Owner /\ snapshot[n].role \in Roles
             /\ BucketOfRole(snapshot[n].role) \in Buckets \ {"call"}
  <2>1. snapshot[n] \in MessageRecord(Ids)
    BY DEF WellStated
  <2>2. snapshot[n].id \in Ids /\ snapshot[n].owner \in Owner /\ snapshot[n].role \in Roles
    BY <2>1 DEF MessageRecord
  <2>3. BucketOfRole(snapshot[n].role) \in Buckets \ {"call"}
    BY <2>2, SortRoles DEF Roles, Buckets
  <2> QED BY <2>2, <2>3
<1>3. \A b \in Buckets, i \in Ids :
         history[b][i] = IF LastNaming(snapshot, b, i) = 0 THEN Absent
                         ELSE snapshot[LastNaming(snapshot, b, i)].owner
  BY DEF HistoryOf
<1>4. ASSUME NEW b \in Buckets, NEW i \in Ids, NEW n \in DOMAIN snapshot, Naming(snapshot[n], b, i),
             \A k \in DOMAIN snapshot : Naming(snapshot[k], b, i) => k = n
      PROVE  history[b][i] = snapshot[n].owner
  <2> DEFINE k == LastNaming(snapshot, b, i)
  <2>1. /\ k # 0 => k \in DOMAIN snapshot /\ Naming(snapshot[k], b, i)
        /\ k = 0 => \A q \in DOMAIN snapshot : ~Naming(snapshot[q], b, i)
    BY <1>1, NamingFacts
  <2>2. history[b][i] = IF k = 0 THEN Absent ELSE snapshot[k].owner
    BY <1>3
  <2> HIDE DEF k
  <2> QED BY <1>4, <2>1, <2>2
<1>5. ASSUME NEW n \in DOMAIN snapshot
      PROVE  history[BucketOfRole(snapshot[n].role)][snapshot[n].id] = snapshot[n].owner
  <2> DEFINE b == BucketOfRole(snapshot[n].role)
  <2>1. b \in Buckets /\ b # "call" /\ snapshot[n].id \in Ids
    BY <1>2
  <2>2. Naming(snapshot[n], b, snapshot[n].id)
    BY <2>1 DEF Naming
  <2>3. \A k \in DOMAIN snapshot : Naming(snapshot[k], b, snapshot[n].id) => k = n
    BY <2>1 DEF Naming, WellStated
  <2> HIDE DEF b
  <2>4. history[b][snapshot[n].id] = snapshot[n].owner
    BY <1>4, <2>1, <2>2, <2>3
  <2> QED BY <2>4 DEF b
<1>6. ASSUME NEW n \in DOMAIN snapshot, NEW c \in Ids, Carries(snapshot[n], c)
      PROVE  history["call"][c] = snapshot[n].owner
  <2>1. "call" \in Buckets /\ Naming(snapshot[n], "call", c)
    BY <1>6 DEF Naming, Buckets
  <2>2. \A k \in DOMAIN snapshot : Naming(snapshot[k], "call", c) => k = n
    BY <1>6 DEF Naming, WellStated
  <2> QED BY <1>4, <2>1, <2>2
<1>7. ASSUME NEW b \in Buckets, NEW i \in Ids, history[b][i] # Absent
      PROVE  \E n \in DOMAIN snapshot : Naming(snapshot[n], b, i)
  <2> DEFINE k == LastNaming(snapshot, b, i)
  <2>1. k # 0 => k \in DOMAIN snapshot /\ Naming(snapshot[k], b, i)
    BY <1>1, NamingFacts
  <2>2. history[b][i] = IF k = 0 THEN Absent ELSE snapshot[k].owner
    BY <1>3
  <2> HIDE DEF k
  <2> QED BY <1>7, <2>1, <2>2
<1>8. \A n \in DOMAIN snapshot : snapshot[n].calls # <<>> => snapshot[n].role = "assistant"
  BY DEF WellStated
<1> QED BY <1>1, <1>2, <1>5, <1>6, <1>7, <1>8


\* The owners after a conversation is restated.
Reseeded(owner, history, after) ==
    \A b \in Buckets, i \in Ids :
        after[b][i] = IF history[b][i] # Absent THEN history[b][i] ELSE owner[b][i]

\* What Sorted gives for a snapshot the agent may emit.
LEMMA SnapshotSorted ==
    ASSUME NEW s \in Agents, Sorted(s), NEW e \in Emits[s], e.type = "MESSAGES_SNAPSHOT"
    PROVE  /\ WellStated(e.messages) /\ e.history = HistoryOf(e.messages)
           /\ \A n \in DOMAIN e.messages : Says(s, <<Sort(e.messages[n].role), e.messages[n].id>>)
           /\ \A i : Activity(s, i) => ~ListsActivities(e)
           /\ \A i : Thought(s, i) => e.history["reasoning"][i] = Absent
           /\ \A f \in Emits[s] : f.type # "CHUNK"
<1>1. WellStated(e.messages) /\ e.history = HistoryOf(e.messages)
  BY DEF Sorted
<1>2. ASSUME NEW n \in DOMAIN e.messages
      PROVE  Says(s, <<Sort(e.messages[n].role), e.messages[n].id>>)
  <2>1. Entities(e) = {<<Sort(m.role), m.id>> : m \in Range(e.messages)}
    BY DEF Entities, Streaming
  <2>2. e.messages[n] \in Range(e.messages)
    BY DEF Range
  <2> QED BY <2>1, <2>2 DEF Says
<1>3. \A f \in Emits[s] :
         /\ f.type # "CHUNK"
         /\ f.type \in Streaming /\ f.kind \in {"block", "reasoning"} => e.history["reasoning"][f.id] = Absent
         /\ f.type \in {"ACTIVITY_SNAPSHOT", "ACTIVITY_DELTA"} => ~ListsActivities(e)
  BY DEF Sorted
<1> QED BY <1>1, <1>2, <1>3 DEF Activity, Thought

\* Where the calls of a conversation are found.
Moved(messages) == [c \in Ids |-> LastNaming(messages, "call", c)]

\* What is open, if the snapshot restates it, and the activities are still there.
Restated(s, owner, messages, history, after, merged, moved) ==
    /\ Conversation(s, after, merged, moved)
    /\ \A i \in Ids : history["message"][i] # Absent /\ Spoken(messages, i) => Spoken(merged, i)
    /\ \A i \in Ids : history["call"][i] # Absent => moved[i] # 0
    /\ \A i \in Ids : Activity(s, i) /\ after["activity"][i] # Absent =>
          owner["activity"][i] # Absent /\ (Holds(messages, i) => Holds(merged, i))

LEMMA SnapshotTaken ==
    ASSUME NEW s \in Agents, Sorted(s), NEW owner, NEW messages, NEW carrier,
           Conversation(s, owner, messages, carrier),
           NEW e \in Emits[s], e.type = "MESSAGES_SNAPSHOT",
           NEW after, Reseeded(owner, e.history, after),
           NEW merged, merged = Merged(messages, e.messages),
           NEW moved, moved = Moved(merged)
    PROVE  Restated(s, owner, messages, e.history, after, merged, moved)
<1> DEFINE snapshot == e.messages
           history == e.history
<1>0. /\ {"message", "reasoning", "call", "activity"} = Buckets /\ Absent \notin Owner
      /\ \A role \in Roles : BucketOfRole(role) \in Buckets
  BY SortRoles, Vocabulary
<1>1. /\ WellStated(snapshot) /\ history = HistoryOf(snapshot)
      /\ \A n \in DOMAIN snapshot : Says(s, <<Sort(snapshot[n].role), snapshot[n].id>>)
      /\ \A i : Activity(s, i) => \A n \in DOMAIN snapshot : snapshot[n].role # "activity"
  BY SnapshotSorted DEF ListsActivities
<1>2. Reseeded(owner, history, after) /\ merged = Merged(messages, snapshot)
  OBVIOUS
<1> HIDE DEF snapshot, history
<1>3. /\ snapshot \in Seq(Msg)
      /\ \A n \in DOMAIN snapshot :
            /\ snapshot[n].id \in Ids /\ snapshot[n].owner \in Owner /\ snapshot[n].role \in Roles
            /\ snapshot[n].calls # <<>> => snapshot[n].role = "assistant"
            /\ history[BucketOfRole(snapshot[n].role)][snapshot[n].id] = snapshot[n].owner
            /\ \A c \in Ids : Carries(snapshot[n], c) => history["call"][c] = snapshot[n].owner
      /\ \A b \in Buckets, i \in Ids :
            history[b][i] # Absent => \E n \in DOMAIN snapshot : Naming(snapshot[n], b, i)
  BY <1>1, HistoryFacts
<1>4. /\ messages \in Seq(Msg) /\ Distinct(messages)
      /\ \A n \in DOMAIN messages : Placed(s, owner, messages[n]) /\ messages[n] \in Msg
  BY DEF Conversation
\* Kept activities are not in the snapshot.
<1>5. ASSUME NEW j \in DOMAIN messages, KeepsLocal(snapshot, messages[j])
      PROVE  /\ messages[j].role = "activity" /\ \A n \in DOMAIN snapshot : snapshot[n].role # "activity"
             /\ messages[j].id \in Ids /\ Says(s, <<"activity", messages[j].id>>)
             /\ owner["activity"][messages[j].id] = messages[j].owner
             /\ messages[j].calls = <<>>
  <2>1. messages[j].role = "activity" /\ \A n \in DOMAIN snapshot : snapshot[n].role # "activity"
    BY <1>5 DEF KeepsLocal
  <2>2. "activity" \in Roles /\ Sort("activity") = "activity" /\ BucketOfRole("activity") = "activity"
    BY DEF Roles, Sort, BucketOfRole
  <2>3. Placed(s, owner, messages[j])
    BY <1>4
  <2> QED BY <2>1, <2>2, <2>3 DEF Placed
<1>6. ASSUME NEW j \in DOMAIN messages, NEW n \in DOMAIN snapshot, messages[j].id = snapshot[n].id
      PROVE  ~KeepsLocal(snapshot, messages[j])
  <2> SUFFICES ASSUME KeepsLocal(snapshot, messages[j]) PROVE FALSE
    OBVIOUS
  <2>1. Says(s, <<"activity", snapshot[n].id>>) /\ Says(s, <<Sort(snapshot[n].role), snapshot[n].id>>)
    BY <1>1, <1>5, <1>6
  <2>2. Sort(snapshot[n].role) = "activity"
    BY <1>3, <2>1, OneSort
  <2>3. snapshot[n].role # "activity" /\ snapshot[n].role \in Roles
    BY <1>3, <1>5
  <2> QED BY ONLY <2>2, <2>3, SortRoles
<1>7. /\ merged \in Seq(Msg) /\ Distinct(merged)
      /\ \A k \in DOMAIN merged :
            \/ \E n \in DOMAIN snapshot : merged[k] = snapshot[n]
            \/ \E j \in DOMAIN messages : merged[k] = messages[j] /\ KeepsLocal(snapshot, messages[j])
      /\ \A n \in DOMAIN snapshot : \E k \in DOMAIN merged : merged[k] = snapshot[n]
      /\ \A j \in DOMAIN messages :
            KeepsLocal(snapshot, messages[j]) => \E k \in DOMAIN merged : merged[k] = messages[j]
  BY <1>1, <1>2, <1>4, <1>6, MergedFacts
<1>8. ASSUME NEW n \in DOMAIN snapshot
      PROVE  Placed(s, after, snapshot[n])
  <2>1. after[BucketOfRole(snapshot[n].role)][snapshot[n].id] = snapshot[n].owner
    <3> DEFINE b == BucketOfRole(snapshot[n].role)
    <3>1. b \in Buckets /\ snapshot[n].id \in Ids
      BY <1>0, <1>3
    <3>2. history[b][snapshot[n].id] = snapshot[n].owner /\ snapshot[n].owner # Absent
      BY <1>0, <1>3
    <3> HIDE DEF b
    <3>3. after[b][snapshot[n].id] = snapshot[n].owner
      BY <1>2, <3>1, <3>2 DEF Reseeded
    <3> QED BY <3>3 DEF b
  <2>2. ASSUME NEW c \in Ids, Carries(snapshot[n], c)
        PROVE  after["call"][c] = snapshot[n].owner
    <3>1. history["call"][c] = snapshot[n].owner /\ snapshot[n].owner # Absent /\ "call" \in Buckets
      BY <1>0, <1>3, <2>2
    <3> QED BY <1>2, <3>1 DEF Reseeded
  <2> QED BY <1>1, <1>3, <2>1, <2>2 DEF Placed
<1>9. ASSUME NEW i \in Ids, \A n \in DOMAIN snapshot : snapshot[n].role # "activity"
      PROVE  after["activity"][i] = owner["activity"][i]
  <2>1. history["activity"][i] = Absent
    <3> SUFFICES ASSUME history["activity"][i] # Absent PROVE FALSE
      OBVIOUS
    <3>1. PICK n \in DOMAIN snapshot : Naming(snapshot[n], "activity", i)
      BY <1>0, <1>3
    <3>2. BucketOfRole(snapshot[n].role) = "activity"
      BY <3>1 DEF Naming
    <3> QED BY <1>3, <1>9, <3>2, SortRoles
  <2> QED BY <1>0, <1>2, <2>1 DEF Reseeded
<1>10. ASSUME NEW j \in DOMAIN messages, KeepsLocal(snapshot, messages[j])
       PROVE  Placed(s, after, messages[j])
  <2>1. after["activity"][messages[j].id] = messages[j].owner
    BY <1>5, <1>9, <1>10
  <2>2. Sort("activity") = "activity" /\ BucketOfRole("activity") = "activity" /\ DOMAIN <<>> = {}
    BY DEF Sort, BucketOfRole
  <2>3. \A c \in Ids : ~Carries(messages[j], c)
    BY <1>5, <1>10, <2>2 DEF Carries
  <2> QED BY <1>5, <1>10, <2>1, <2>2, <2>3 DEF Placed
<1>11. \A k \in DOMAIN merged : Placed(s, after, merged[k])
  BY <1>7, <1>8, <1>10
<1>12. ASSUME NEW c \in Ids
       PROVE  /\ moved[c] \in Nat
              /\ moved[c] # 0 => moved[c] \in DOMAIN merged /\ Carries(merged[moved[c]], c)
              /\ moved[c] = 0 => \A k \in DOMAIN merged : ~Carries(merged[k], c)
  <2> DEFINE k == LastNaming(merged, "call", c)
  <2>1. /\ k \in Nat
        /\ k # 0 => k \in DOMAIN merged /\ Naming(merged[k], "call", c)
        /\ k = 0 => \A q \in DOMAIN merged : ~Naming(merged[q], "call", c)
    BY <1>7, NamingFacts
  <2>2. moved[c] = k
    BY DEF Moved
  <2> HIDE DEF k
  <2> QED BY <2>1, <2>2 DEF Naming
<1>13. Conversation(s, after, merged, moved)
  <2>1. moved \in [Ids -> Nat]
    BY <1>12 DEF Moved
  <2> QED BY <1>7, <1>11, <1>12, <2>1 DEF Conversation
<1>14. ASSUME NEW i \in Ids, history["message"][i] # Absent, Spoken(messages, i)
       PROVE  Spoken(merged, i)
  <2>1. PICK n \in DOMAIN snapshot : Naming(snapshot[n], "message", i)
    BY <1>0, <1>3, <1>14
  <2>2. snapshot[n].id = i
    BY <2>1 DEF Naming
  <2>3. PICK j \in DOMAIN messages : messages[j].id = i /\ Sort(messages[j].role) = "spoken"
    BY <1>14 DEF Spoken
  <2>4. Says(s, <<"spoken", i>>)
    BY <1>4, <2>3, TranscriptAssumption DEF Placed
  <2>5. Sort(snapshot[n].role) = "spoken"
    BY <1>1, <2>2, <2>4, OneSort
  <2> QED BY <1>7, <2>2, <2>5 DEF Spoken
<1>15. ASSUME NEW i \in Ids, history["call"][i] # Absent
       PROVE  moved[i] # 0
  <2>1. PICK n \in DOMAIN snapshot : Naming(snapshot[n], "call", i)
    BY <1>0, <1>3, <1>15
  <2>2. \E k \in DOMAIN merged : Carries(merged[k], i)
    BY <1>7, <2>1 DEF Naming
  <2> QED BY <1>12, <2>2
<1>16. ASSUME NEW i \in Ids, Activity(s, i), after["activity"][i] # Absent
       PROVE  owner["activity"][i] # Absent /\ (Holds(messages, i) => Holds(merged, i))
  <2>1. \A n \in DOMAIN snapshot : snapshot[n].role # "activity"
    BY <1>1, <1>16
  <2>2. owner["activity"][i] # Absent
    BY <1>9, <1>16, <2>1
  <2>3. ASSUME NEW j \in DOMAIN messages, messages[j].id = i
        PROVE  KeepsLocal(snapshot, messages[j])
    <3>1. Says(s, <<"activity", i>>)
      <4>1. PICK f \in Emits[s] : f.type \in {"ACTIVITY_SNAPSHOT", "ACTIVITY_DELTA"} /\ f.id = i
        BY <1>16 DEF Activity
      <4>2. Entities(f) = {<<"activity", f.id>>}
        BY <4>1 DEF Entities, Streaming
      <4> QED BY <4>1, <4>2 DEF Says
    <3>2. Sort(messages[j].role) = "activity"
      BY <1>4, <2>3, <3>1, HeldSort
    <3>3. messages[j].role = "activity"
      <4>1. messages[j].role \in Roles
        BY <1>4, MsgFields
      <4> QED BY <3>2, <4>1, SortRoles
    <3> QED BY <2>1, <3>3 DEF KeepsLocal
  <2> QED BY <1>7, <2>2, <2>3 DEF Holds
<1> QED BY <1>13, <1>14, <1>15, <1>16 DEF history, Restated


-----------------------------------------------------------------------------
(* One event at the consumer *)

\* The conversation goes on.
LEMMA FitsAdvance ==
    ASSUME NEW s, NEW c, NEW a, Fits(s, c, a), NEW d, NEW b, Advances(s, d.owner, a, b),
           \A i \in Ids :
              /\ d.open["text"][i] # Absent => c.open["text"][i] # Absent \/ Spoken(b.messages, i)
              /\ d.open["tool"][i] # Absent => c.open["tool"][i] # Absent \/ b.carrier[i] # 0
              /\ Activity(s, i) /\ d.owner["activity"][i] # Absent =>
                    c.owner["activity"][i] # Absent \/ Holds(b.messages, i),
           Thoughts(s, d.owner, d.open, a.reasoning), Unclaimed(s, d.owner)
    PROVE  Fits(s, d, b)
<1>1. Held(s, d.owner, d.open, b.messages, b.carrier)
  BY DEF Fits, Advances, Held
<1> QED BY <1>1 DEF Fits, Advances

\* The thoughts do.
LEMMA FitsThinks ==
    ASSUME NEW s, NEW c, NEW a, Fits(s, c, a), NEW d, NEW b, NEW r,
           View(b, a.messages, a.carrier, r), Thoughts(s, d.owner, d.open, r),
           Conversation(s, d.owner, a.messages, a.carrier),
           \A i \in Ids :
              /\ d.open["text"][i] # Absent => c.open["text"][i] # Absent
              /\ d.open["tool"][i] # Absent => c.open["tool"][i] # Absent
              /\ d.owner["activity"][i] # Absent => c.owner["activity"][i] # Absent,
           Unclaimed(s, d.owner)
    PROVE  Fits(s, d, b)
<1>1. Held(s, d.owner, d.open, a.messages, a.carrier)
  BY DEF Fits, Held
<1> QED BY <1>1 DEF Fits, View

\* It fits the events the client hears of, besides what its verifier asks.
StartDue(s, c, a, x) ==
    /\ x.kind = "text" =>
          /\ Says(s, <<"spoken", x.id>>) /\ RoleOf(x) \in Roles /\ Sort(RoleOf(x)) = "spoken"
          /\ C!OwnerOf(c, x) = x.tag
    /\ x.kind = "tool" =>
          IF x.parent = None THEN C!OwnerOf(c, x) = x.tag
          ELSE \E n \in DOMAIN a.messages :
                  a.messages[n].id = x.parent /\ a.messages[n].role = "assistant"
    /\ x.kind \in {"block", "reasoning"} => Thought(s, x.id)
    /\ \A e \in Emits[s] : OwnChunk(e) /\ SameStream(e, x) => C!OwnerOf(c, x) = None

\* A START gives its id an owner, and takes none away.
LEMMA StartTurns ==
    ASSUME NEW s \in Agents, NEW c \in C!Verifier, c.started, ~c.finished,
           NEW x, WellFormed(x), x.type = "START", C!Accepts(c, x), Unclaimed(s, c.owner),
           NEW o, o = C!OwnerOf(c, x),
           \A e \in Emits[s] : OwnChunk(e) /\ SameStream(e, x) => o = None,
           NEW d, d = C!Verify(c, x)
    PROVE  /\ o \in Owner /\ C!MayOwn(c, x)
           /\ \A k \in ChunkKinds, i \in Ids :
                 d.open[k][i] = IF k = x.kind /\ i = x.id THEN o ELSE c.open[k][i]
           /\ \A b \in Buckets, i \in Ids :
                 d.owner[b][i] = IF b = BucketOf(x.kind) /\ i = x.id THEN o ELSE c.owner[b][i]
           /\ Grows(c.owner, d.owner) /\ Unclaimed(s, d.owner)
<1> DEFINE open == [c.open EXCEPT ![x.kind][x.id] = o]
           owner == [c.owner EXCEPT ![BucketOf(x.kind)][x.id] = o]
<1>1. C!MayOwn(c, x)
  BY ClientJudges
<1>2. /\ x.kind \in Kinds /\ x.id \in Ids /\ x.tag \in Owner /\ x.parent \in Ids \cup {None}
      /\ c.owner \in Owners /\ BucketOf(x.kind) \in Buckets /\ c.open \in OpenOf(ChunkKinds)
  BY ClientFields, Vocabulary DEF WellFormed
<1>3. S!OwnerOf(c, x) = o /\ S!MayOwn(c, x)
  BY <1>1, SameRules
<1>4. o \in Owner /\ (c.owner[BucketOf(x.kind)][x.id] # Absent => o = c.owner[BucketOf(x.kind)][x.id])
  BY <1>2, <1>3, OwnerFacts
<1>5. ASSUME x.kind # "block"
      PROVE  d.owner = owner /\ d.open = open /\ x.kind \in ChunkKinds
  <2>1. Turns(c, d, open, owner)
    BY <1>5, ClientStarts
  <2>2. x.kind \in ChunkKinds
    BY <1>2, <1>5, Vocabulary
  <2> HIDE DEF open, owner
  <2> QED BY <2>1, <2>2 DEF Turns
<1>6. ASSUME x.kind = "block"
      PROVE  d.owner = owner /\ d.open = c.open /\ x.kind \notin ChunkKinds
  <2> DEFINE same == [c.owner EXCEPT !["reasoning"][x.id] = o]
  <2>1. Turns(c, d, c.open, same)
    BY <1>6, ClientBlocks
  <2>2. same = owner
    BY <1>6, Vocabulary
  <2> HIDE DEF owner, same
  <2> QED BY <1>6, <2>1, <2>2, Vocabulary DEF Turns
<1>7. \A b \in Buckets, i \in Ids :
         owner[b][i] = IF b = BucketOf(x.kind) /\ i = x.id THEN o ELSE c.owner[b][i]
  BY <1>2, <1>4 DEF Owners
<1>8. x.kind \in ChunkKinds =>
         \A k \in ChunkKinds, i \in Ids :
            open[k][i] = IF k = x.kind /\ i = x.id THEN o ELSE c.open[k][i]
  BY <1>2, <1>4 DEF OpenOf
<1> HIDE DEF open, owner
<1>9. \A k \in ChunkKinds, i \in Ids :
         d.open[k][i] = IF k = x.kind /\ i = x.id THEN o ELSE c.open[k][i]
  BY <1>5, <1>6, <1>8
<1>10. \A b \in Buckets, i \in Ids :
          d.owner[b][i] = IF b = BucketOf(x.kind) /\ i = x.id THEN o ELSE c.owner[b][i]
  BY <1>5, <1>6, <1>7
<1>11. Grows(c.owner, d.owner)
  BY <1>4, <1>10 DEF Grows
<1>12. Unclaimed(s, d.owner)
  <2> SUFFICES ASSUME NEW e \in Emits[s], OwnChunk(e)
               PROVE  d.owner[BucketOf(e.kind)][e.id] \in {Absent, None}
    BY DEF Unclaimed
  <2>1. e.id \in Ids /\ e.kind \in {"text", "tool"} /\ BucketOf(e.kind) \in Buckets
    <3>1. WellFormed(e)
      BY WireAssumption
    <3> QED BY <3>1, Vocabulary DEF OwnChunk, Named, WellFormed
  <2>2. BucketOf(e.kind) = BucketOf(x.kind) => e.kind = x.kind
    BY <1>2, <2>1, Vocabulary
  <2>3. c.owner[BucketOf(e.kind)][e.id] \in {Absent, None}
    BY DEF Unclaimed
  <2>4. SameStream(e, x) => o = None
    OBVIOUS
  <2> QED BY <1>10, <2>1, <2>2, <2>3, <2>4 DEF SameStream
<1> QED BY <1>1, <1>4, <1>9, <1>10, <1>11, <1>12

\* A message begins.
LEMMA TextBegins ==
    ASSUME NEW s \in Agents, Sorted(s), NEW c \in C!Verifier, c.started, ~c.finished, NEW a, Fits(s, c, a),
           NEW x, WellFormed(x), x.type = "START", x.kind = "text", C!Accepts(c, x), StartDue(s, c, a, x),
           NEW d, d = C!Verify(c, x)
    PROVE  Apply(a, x).ok /\ Fits(s, d, Apply(a, x).applier)
<1> DEFINE b == TextStart(a, x.id, RoleOf(x), x.tag)
<1>o. PICK o : o = C!OwnerOf(c, x)
  OBVIOUS
<1>1. Apply(a, x) = Applied(b)
  BY DEF Apply, ApplyStream
<1>2. /\ x.id \in Ids /\ x.tag \in Owner /\ "text" \in ChunkKinds /\ BucketOf("text") = "message"
      /\ c.open \in OpenOf(ChunkKinds) /\ {"message", "reasoning", "call", "activity"} = Buckets
      /\ {"text", "tool", "reasoning"} = ChunkKinds
  BY ClientFields, Vocabulary DEF WellFormed
<1>4. /\ o \in Owner
      /\ \A k \in ChunkKinds, i \in Ids :
            d.open[k][i] = IF k = x.kind /\ i = x.id THEN o ELSE c.open[k][i]
      /\ \A bu \in Buckets, i \in Ids :
            d.owner[bu][i] = IF bu = BucketOf(x.kind) /\ i = x.id THEN o ELSE c.owner[bu][i]
      /\ Grows(c.owner, d.owner) /\ Unclaimed(s, d.owner)
  <2>1. Unclaimed(s, c.owner) /\ \A e \in Emits[s] : OwnChunk(e) /\ SameStream(e, x) => o = None
    BY <1>o DEF StartDue, Fits
  <2> QED BY <1>o, <2>1, StartTurns
<1>5. o = x.tag /\ Says(s, <<"spoken", x.id>>) /\ RoleOf(x) \in Roles /\ Sort(RoleOf(x)) = "spoken"
  BY <1>o DEF StartDue
<1>6. \A k \in ChunkKinds, i \in Ids :
         d.open[k][i] = IF k = "text" /\ i = x.id THEN o ELSE c.open[k][i]
  BY <1>4
<1>7. Conversation(s, d.owner, a.messages, a.carrier) /\ IsApplier(a)
  BY <1>4, ConversationGrows DEF Fits
<1>8. d.owner["message"][x.id] = x.tag
  BY <1>2, <1>4, <1>5
<1>9. Advances(s, d.owner, a, b) /\ Spoken(b.messages, x.id)
  BY <1>2, <1>5, <1>7, <1>8, TextStarted
<1>10. Thoughts(s, d.owner, d.open, a.reasoning)
  <2>1. \A i \in Ids : d.owner["reasoning"][i] = c.owner["reasoning"][i] /\ d.open["reasoning"][i] = c.open["reasoning"][i]
    BY <1>2, <1>4, <1>6
  <2> QED BY <2>1, ThoughtsKept DEF Fits
<1> HIDE DEF b
<1>11. \A i \in Ids : /\ d.open["text"][i] # Absent => c.open["text"][i] # Absent \/ Spoken(b.messages, i)
                      /\ d.open["tool"][i] = c.open["tool"][i]
                      /\ d.owner["activity"][i] = c.owner["activity"][i]
  BY <1>2, <1>4, <1>6, <1>9
<1>12. Fits(s, d, b)
  BY <1>4, <1>9, <1>10, <1>11, FitsAdvance
<1> QED BY <1>1, <1>12 DEF Applied

\* A call begins.
LEMMA CallBegins ==
    ASSUME NEW s \in Agents, NEW c \in C!Verifier, c.started, ~c.finished, NEW a, Fits(s, c, a),
           NEW x, WellFormed(x), x.type = "START", x.kind = "tool", C!Accepts(c, x), StartDue(s, c, a, x),
           NEW d, d = C!Verify(c, x)
    PROVE  Apply(a, x).ok /\ Fits(s, d, Apply(a, x).applier)
<1> DEFINE b == ToolCallStart(a, x.id, CarrierId(x.id, x.parent), x.tag)
<1>o. PICK o : o = C!OwnerOf(c, x)
  OBVIOUS
<1>1. Apply(a, x) = Applied(b)
  BY DEF Apply, ApplyStream
<1>2. /\ x.id \in Ids /\ x.tag \in Owner /\ x.parent \in Ids \cup {None} /\ BucketOf("tool") = "call"
      /\ c.open \in OpenOf(ChunkKinds) /\ {"message", "reasoning", "call", "activity"} = Buckets
      /\ {"text", "tool", "reasoning"} = ChunkKinds /\ c.owner \in Owners
  BY ClientFields, Vocabulary DEF WellFormed
<1>4. /\ o \in Owner /\ C!MayOwn(c, x)
      /\ \A k \in ChunkKinds, i \in Ids :
            d.open[k][i] = IF k = x.kind /\ i = x.id THEN o ELSE c.open[k][i]
      /\ \A bu \in Buckets, i \in Ids :
            d.owner[bu][i] = IF bu = BucketOf(x.kind) /\ i = x.id THEN o ELSE c.owner[bu][i]
      /\ Grows(c.owner, d.owner) /\ Unclaimed(s, d.owner)
  <2>1. Unclaimed(s, c.owner) /\ \A e \in Emits[s] : OwnChunk(e) /\ SameStream(e, x) => o = None
    BY <1>o DEF StartDue, Fits
  <2> QED BY <1>o, <2>1, StartTurns
<1>5. IF x.parent = None THEN o = x.tag
      ELSE \E n \in DOMAIN a.messages : a.messages[n].id = x.parent /\ a.messages[n].role = "assistant"
  BY <1>o DEF StartDue
<1>6. ASSUME x.parent # None, NEW n \in DOMAIN a.messages,
             a.messages[n].id = x.parent, a.messages[n].role = "assistant"
      PROVE  o = a.messages[n].owner
  <2>1. /\ Placed(s, c.owner, a.messages[n]) /\ a.messages[n] \in Msg
        /\ BucketOfRole("assistant") = "message"
    BY DEF Fits, Conversation, BucketOfRole
  <2>2. c.owner["message"][x.parent] = a.messages[n].owner
    BY <1>2, <1>6, <2>1, TranscriptAssumption DEF Placed
  <2>3. a.messages[n].owner \in Owner /\ Absent \notin Owner
    BY <2>1, MsgFields, Vocabulary
  <2>4. C!Carrier(c, x) = a.messages[n].owner
    BY <1>6, <2>2 DEF C!Carrier
  <2>5. x.tag # None => x.tag = a.messages[n].owner
    BY <1>4, <2>3, <2>4, Names DEF C!MayOwn, C!MayOwnCall, C!ExpectOwner, Agrees
  <2>6. C!Asserted(c, x) = a.messages[n].owner
    BY <2>4, <2>5 DEF C!Asserted
  <2> QED BY <1>o, <2>3, <2>6, Names DEF C!OwnerOf, C!CallOwner
<1>7. \A k \in ChunkKinds, i \in Ids :
         d.open[k][i] = IF k = "tool" /\ i = x.id THEN o ELSE c.open[k][i]
  BY <1>4
<1>8. Conversation(s, d.owner, a.messages, a.carrier) /\ IsApplier(a)
  BY <1>4, ConversationGrows DEF Fits
<1>9. d.owner["call"][x.id] = o
  BY <1>2, <1>4
<1>10. /\ x.parent # None => \E n \in DOMAIN a.messages :
            /\ a.messages[n].id = x.parent /\ a.messages[n].role = "assistant"
            /\ d.owner["call"][x.id] = a.messages[n].owner
       /\ x.parent = None /\ ~Holds(a.messages, CarrierId(x.id, None)) => d.owner["call"][x.id] = x.tag
  BY <1>5, <1>6, <1>9
<1>11. Advances(s, d.owner, a, b) /\ b.carrier[x.id] # 0
  <2> HIDE DEF b
  <2>1. b = ToolCallStart(a, x.id, CarrierId(x.id, x.parent), x.tag)
    BY DEF b
  <2> DEFINE owner == d.owner
             i == x.id
             p == x.parent
             g == x.tag
  <2>2. /\ Conversation(s, owner, a.messages, a.carrier) /\ IsApplier(a)
        /\ i \in Ids /\ p \in Ids \cup {None} /\ g \in Owner
        /\ p # None => \E n \in DOMAIN a.messages :
             /\ a.messages[n].id = p /\ a.messages[n].role = "assistant"
             /\ owner["call"][i] = a.messages[n].owner
        /\ p = None /\ ~Holds(a.messages, CarrierId(i, None)) => owner["call"][i] = g
        /\ b = ToolCallStart(a, i, CarrierId(i, p), g)
    BY <1>2, <1>8, <1>10, <2>1
  <2> HIDE DEF owner, i, p, g
  <2>3. Advances(s, owner, a, b) /\ b.carrier[i] # 0
    BY ONLY <2>2, ToolStarted
  <2> QED BY <2>3 DEF owner, i
<1>12. Thoughts(s, d.owner, d.open, a.reasoning)
  <2>1. \A i \in Ids : d.owner["reasoning"][i] = c.owner["reasoning"][i] /\ d.open["reasoning"][i] = c.open["reasoning"][i]
    BY <1>2, <1>4, <1>7
  <2> QED BY <2>1, ThoughtsKept DEF Fits
<1> HIDE DEF b
<1>13. \A i \in Ids : /\ d.open["text"][i] = c.open["text"][i]
                      /\ d.open["tool"][i] # Absent => c.open["tool"][i] # Absent \/ b.carrier[i] # 0
                      /\ d.owner["activity"][i] = c.owner["activity"][i]
  BY <1>2, <1>4, <1>7, <1>11
<1>14. Fits(s, d, b)
  BY <1>4, <1>11, <1>12, <1>13, FitsAdvance
<1> QED BY <1>1, <1>14 DEF Applied

\* A thought begins, or the bracket around it.
LEMMA ThinkingBegins ==
    ASSUME NEW s \in Agents, NEW c \in C!Verifier, c.started, ~c.finished, NEW a, Fits(s, c, a),
           NEW x, WellFormed(x), x.type = "START", x.kind \in {"block", "reasoning"},
           C!Accepts(c, x), StartDue(s, c, a, x), NEW d, d = C!Verify(c, x)
    PROVE  Apply(a, x).ok /\ Fits(s, d, Apply(a, x).applier)
<1> DEFINE b == ReasoningStart(a, x.id, x.tag)
           r == IF At(a.reasoning, x.id) # 0 THEN a.reasoning
                ELSE Append(a.reasoning, Message(x.id, "reasoning", x.tag))
<1>o. PICK o : o = C!OwnerOf(c, x)
  OBVIOUS
<1>1. Apply(a, x) = Applied(b)
  BY DEF Apply, ApplyStream
<1>2. /\ x.id \in Ids /\ x.tag \in Owner /\ BucketOf(x.kind) = "reasoning"
      /\ c.open \in OpenOf(ChunkKinds) /\ {"message", "reasoning", "call", "activity"} = Buckets
      /\ {"text", "tool", "reasoning"} = ChunkKinds /\ c.owner \in Owners
  BY ClientFields, Vocabulary DEF WellFormed
<1>4. /\ o \in Owner
      /\ \A k \in ChunkKinds, i \in Ids :
            d.open[k][i] = IF k = x.kind /\ i = x.id THEN o ELSE c.open[k][i]
      /\ \A bu \in Buckets, i \in Ids :
            d.owner[bu][i] = IF bu = BucketOf(x.kind) /\ i = x.id THEN o ELSE c.owner[bu][i]
      /\ Grows(c.owner, d.owner) /\ Unclaimed(s, d.owner)
  <2>1. Unclaimed(s, c.owner) /\ \A e \in Emits[s] : OwnChunk(e) /\ SameStream(e, x) => o = None
    BY <1>o DEF StartDue, Fits
  <2> QED BY <1>o, <2>1, StartTurns
<1>5. o = IF c.owner["reasoning"][x.id] = Absent THEN x.tag ELSE c.owner["reasoning"][x.id]
  <2>1. C!Recorded(c, x) = c.owner["reasoning"][x.id]
    BY <1>2, Names DEF C!Recorded
  <2>2. C!OwnerOf(c, x) = C!Claimed(c, x)
    BY DEF C!OwnerOf
  <2> QED BY <1>o, <2>1, <2>2, Names DEF C!Claimed
<1>6. \A k \in ChunkKinds, i \in Ids : k # "reasoning" \/ i # x.id => d.open[k][i] = c.open[k][i]
  <2>1. BucketOf(x.kind) = "reasoning" => x.kind # "text" /\ x.kind # "tool"
    OBVIOUS
  <2> QED BY <1>2, <1>4, <2>1
<1>7. Conversation(s, d.owner, a.messages, a.carrier) /\ IsApplier(a)
  BY <1>4, ConversationGrows DEF Fits
<1>8. View(b, a.messages, a.carrier, r)
  BY <1>2, <1>7, ReasoningViews DEF Fits
<1>9. r = IF At(a.reasoning, x.id) # 0 THEN a.reasoning
          ELSE Append(a.reasoning, Message(x.id, "reasoning", x.tag))
  OBVIOUS
<1> HIDE DEF b, r
<1>10. Thoughts(s, d.owner, d.open, r)
  <2>1. /\ \A j \in Ids : j # x.id => d.owner["reasoning"][j] = c.owner["reasoning"][j]
        /\ d.owner["reasoning"][x.id] =
              IF c.owner["reasoning"][x.id] = Absent THEN x.tag ELSE c.owner["reasoning"][x.id]
        /\ \A j \in Ids : j # x.id /\ d.open["reasoning"][j] # Absent => c.open["reasoning"][j] # Absent
    BY <1>2, <1>4, <1>5, <1>6
  <2>2. Thought(s, x.id) /\ Thoughts(s, c.owner, c.open, a.reasoning)
    BY DEF StartDue, Fits
  <2> DEFINE owner == c.owner
             open == c.open
             after == d.owner
             now == d.open
             i == x.id
             g == x.tag
             reasoning == a.reasoning
  <2>3. /\ \A j \in Ids : j # i => after["reasoning"][j] = owner["reasoning"][j]
        /\ after["reasoning"][i] = IF owner["reasoning"][i] = Absent THEN g ELSE owner["reasoning"][i]
        /\ \A j \in Ids : j # i /\ now["reasoning"][j] # Absent => open["reasoning"][j] # Absent
        /\ Thought(s, i) /\ Thoughts(s, owner, open, reasoning) /\ i \in Ids /\ g \in Owner
        /\ r = IF At(reasoning, i) # 0 THEN reasoning ELSE Append(reasoning, Message(i, "reasoning", g))
    BY <1>2, <1>9, <2>1, <2>2
  <2> HIDE DEF owner, open, after, now, i, g, reasoning
  <2>4. Thoughts(s, after, now, r)
    BY ONLY <2>3, ThoughtBegins
  <2> QED BY <2>4 DEF after, now
<1>11. \A i \in Ids : /\ d.open["text"][i] = c.open["text"][i] /\ d.open["tool"][i] = c.open["tool"][i]
                      /\ d.owner["activity"][i] = c.owner["activity"][i]
  BY <1>2, <1>4, <1>6
<1>12. Fits(s, d, b)
  BY <1>4, <1>7, <1>8, <1>10, <1>11, FitsThinks
<1> QED BY <1>1, <1>12 DEF Applied


\* A stream goes on.
LEMMA StreamGoesOn ==
    ASSUME NEW s \in Agents, NEW c \in C!Verifier, c.started, ~c.finished, NEW a, Fits(s, c, a),
           NEW x, WellFormed(x), x.type = "CONTENT", C!Accepts(c, x), NEW d, d = C!Verify(c, x)
    PROVE  Apply(a, x).ok /\ Fits(s, d, Apply(a, x).applier)
<1>1. x.kind \in ChunkKinds /\ x.kind # "block" /\ x.id \in Ids /\ x.tag \in Owner
  BY Vocabulary DEF WellFormed
<1>2. d = c /\ c.open[x.kind][x.id] # Absent
  BY <1>1, ClientStays, ClientJudges
<1>3. /\ IsApplier(a) /\ Conversation(s, c.owner, a.messages, a.carrier)
      /\ Held(s, c.owner, c.open, a.messages, a.carrier)
      /\ Thoughts(s, c.owner, c.open, a.reasoning) /\ Unclaimed(s, c.owner)
  BY DEF Fits
<1>4. CASE x.kind = "text"
  <2> DEFINE r == TextContent(a, x.id, x.tag)
  <2>1. Apply(a, x) = r
    BY <1>4 DEF Apply, ApplyStream
  <2>2. Spoken(a.messages, x.id)
    BY <1>1, <1>2, <1>3, <1>4 DEF Held
  <2>3. r.ok /\ Advances(s, c.owner, a, r.applier)
    BY <1>1, <1>3, <2>2, TextWritten
  <2> HIDE DEF r
  <2>4. Fits(s, c, r.applier)
    BY <1>3, <2>3, FitsAdvance
  <2> QED BY <1>2, <2>1, <2>3, <2>4
<1>5. CASE x.kind = "tool"
  <2> DEFINE r == ToolCallArgs(a, x.id)
  <2>1. Apply(a, x) = r
    BY <1>5 DEF Apply, ApplyStream
  <2>2. a.carrier[x.id] # 0
    BY <1>1, <1>2, <1>3, <1>5 DEF Held
  <2>3. r.ok /\ Advances(s, c.owner, a, r.applier)
    BY <1>1, <1>3, <2>2, CallMarks
  <2> HIDE DEF r
  <2>4. Fits(s, c, r.applier)
    BY <1>3, <2>3, FitsAdvance
  <2> QED BY <1>2, <2>1, <2>3, <2>4
<1>6. CASE x.kind = "reasoning"
  <2> DEFINE b == ReasoningContent(a, x.id, x.tag)
  <2>1. Apply(a, x) = Applied(b)
    BY <1>6 DEF Apply, ApplyStream
  <2>2. Holds(a.reasoning, x.id)
    BY <1>1, <1>2, <1>3, <1>6 DEF Thoughts
  <2>3. PICK r : View(b, a.messages, a.carrier, r) /\ Thoughts(s, c.owner, c.open, r)
    BY <1>1, <1>3, <2>2, ReasoningViews
  <2> HIDE DEF b
  <2>4. Fits(s, c, b)
    BY <1>3, <2>3, FitsThinks
  <2> QED BY <1>2, <2>1, <2>4 DEF Applied
<1> QED BY <1>1, <1>4, <1>5, <1>6, Vocabulary

\* A stream, or the bracket around a thought, ends.
LEMMA StreamEnds ==
    ASSUME NEW s \in Agents, NEW c \in C!Verifier, c.started, ~c.finished, NEW a, Fits(s, c, a),
           NEW x, WellFormed(x), x.type = "END", C!Accepts(c, x), NEW d, d = C!Verify(c, x)
    PROVE  /\ Apply(a, x).ok /\ Fits(s, d, Apply(a, x).applier)
           /\ Apply(a, x).applier.messages = a.messages /\ d.owner = c.owner
           /\ \A k \in ChunkKinds, i \in Ids : d.open[k][i] # Absent => c.open[k][i] # Absent
<1>1. x.kind \in Kinds /\ x.id \in Ids /\ x.tag \in Owner /\ {"text", "tool", "reasoning"} = ChunkKinds
  BY Vocabulary DEF WellFormed
<1>2. d.owner = c.owner /\ \A k \in ChunkKinds, i \in Ids : d.open[k][i] # Absent => c.open[k][i] # Absent
  <2>1. CASE x.kind = "block"
    BY <2>1, ClientStays
  <2>2. CASE x.kind # "block"
    <3> DEFINE open == [c.open EXCEPT ![x.kind][x.id] = Absent]
    <3>1. Turns(c, d, open, c.owner)
      BY <2>2, ClientEnds
    <3>2. x.kind \in ChunkKinds /\ c.open \in OpenOf(ChunkKinds)
      BY <1>1, <2>2, Vocabulary, ClientFields
    <3>3. \A k \in ChunkKinds, i \in Ids : open[k][i] # Absent => c.open[k][i] # Absent
      BY <1>1, <3>2 DEF OpenOf
    <3> HIDE DEF open
    <3> QED BY <3>1, <3>3 DEF Turns
  <2> QED BY <2>1, <2>2
<1>3. /\ IsApplier(a) /\ Conversation(s, c.owner, a.messages, a.carrier)
      /\ Thoughts(s, c.owner, c.open, a.reasoning) /\ Unclaimed(s, c.owner)
  BY DEF Fits
<1>4. \E b : Apply(a, x) = Applied(b) /\ View(b, a.messages, a.carrier, a.reasoning)
  <2>1. CASE x.kind = "text"
    <3> DEFINE y == Without(a.openText, x.id)
    <3>1. Apply(a, x) = Applied([a EXCEPT !.openText = y])
      BY <2>1 DEF Apply, ApplyStream, TextEnd
    <3> HIDE DEF y
    <3> QED BY <1>3, <3>1, ApplierFields
  <2>2. CASE x.kind = "tool"
    <3>1. Apply(a, x) = Applied(a)
      BY <2>2 DEF Apply, ApplyStream
    <3> QED BY <1>3, <3>1 DEF View
  <2>3. CASE x.kind \in {"reasoning", "block"}
    <3>1. Apply(a, x) = Applied(ReasoningEnd(a, x.id))
      BY <2>3 DEF Apply, ApplyStream
    <3>2. View(ReasoningEnd(a, x.id), a.messages, a.carrier, a.reasoning)
      BY <1>1, <1>3, ReasoningViews
    <3> QED BY <3>1, <3>2
  <2> QED BY <1>1, <2>1, <2>2, <2>3, Vocabulary
<1>5. PICK b : Apply(a, x) = Applied(b) /\ View(b, a.messages, a.carrier, a.reasoning)
  BY <1>4
<1>6. Thoughts(s, d.owner, d.open, a.reasoning)
  BY <1>1, <1>2, <1>3, ThoughtsKept
<1>7. Fits(s, d, b)
  BY <1>1, <1>2, <1>3, <1>5, <1>6, FitsThinks
<1> QED BY <1>2, <1>5, <1>7 DEF Applied, View

\* A call is answered.
LEMMA CallAnswered ==
    ASSUME NEW s \in Agents, Orderly(s), Sorted(s), NEW c \in C!Verifier, c.started, ~c.finished,
           NEW a, Fits(s, c, a),
           NEW x \in Emits[s], x.type = "TOOL_CALL_RESULT", C!Accepts(c, x), NEW d, d = C!Verify(c, x)
    PROVE  Apply(a, x).ok /\ Fits(s, d, Apply(a, x).applier)
<1> DEFINE b == ToolCallResult(a, x)
           after == [c.owner EXCEPT !["message"][x.id] = x.tag]
<1>1. WellFormed(x) /\ x.id \in Ids /\ x.tag \in Owner /\ x.call \in Ids
  BY WireAssumption DEF WellFormed
<1>2. d.open = c.open /\ d.owner = after
  BY <1>1, ClientAnswers DEF Turns
<1>3. c.owner \in Owners /\ "message" \in Buckets
  BY ClientFields, Vocabulary
<1>4. \A bu \in Buckets, i \in Ids :
         after[bu][i] = IF bu = "message" /\ i = x.id THEN x.tag ELSE c.owner[bu][i]
  BY <1>1, <1>3 DEF Owners
<1>5. Says(s, <<"tool", x.id>>)
  <2>1. Entities(x) = {<<"tool", x.id>>}
    BY DEF Entities, Streaming
  <2> QED BY <2>1 DEF Says
<1>6. Apply(a, x) = Applied(b)
  BY DEF Apply
<1>7. Advances(s, after, a, b)
  BY <1>1, <1>3, <1>5, ResultTaken DEF Fits
<1> HIDE DEF after, b
<1>8. Unclaimed(s, after)
  <2> SUFFICES ASSUME NEW e \in Emits[s], OwnChunk(e)
               PROVE  after[BucketOf(e.kind)][e.id] \in {Absent, None}
    BY DEF Unclaimed
  <2>1. e.id \in Ids /\ e.kind \in {"text", "tool"} /\ BucketOf(e.kind) \in Buckets
    <3>1. WellFormed(e)
      BY WireAssumption
    <3> QED BY <3>1, Vocabulary DEF OwnChunk, Named, WellFormed
  <2>2. ~(BucketOf(e.kind) = "message" /\ e.id = x.id)
    <3>1. e.kind = "text" => x.id # e.id
      BY DEF Orderly, OwnChunk
    <3> QED BY <2>1, <3>1, Vocabulary
  <2>3. c.owner[BucketOf(e.kind)][e.id] \in {Absent, None}
    BY DEF Fits, Unclaimed
  <2> QED BY <1>4, <2>1, <2>2, <2>3
<1>9. \A i \in Ids : /\ after["reasoning"][i] = c.owner["reasoning"][i]
                     /\ after["activity"][i] = c.owner["activity"][i]
  BY <1>4, Vocabulary
<1>10. Thoughts(s, after, c.open, a.reasoning)
  BY <1>9, ThoughtsKept DEF Fits
<1>11. Fits(s, d, b)
  BY <1>2, <1>7, <1>8, <1>9, <1>10, FitsAdvance
<1> QED BY <1>6, <1>11 DEF Applied


\* An activity is published, or patched.
ActivityDue(c, x) ==
    /\ x.type = "ACTIVITY_SNAPSHOT" /\ x.replace => c.owner["activity"][x.id] \in {Absent, x.tag}
    /\ x.type = "ACTIVITY_DELTA" => c.owner["activity"][x.id] # Absent

LEMMA ActivityMoves ==
    ASSUME NEW s \in Agents, Sorted(s), NEW c \in C!Verifier, c.started, ~c.finished,
           NEW a, Fits(s, c, a),
           NEW x \in Emits[s], x.type \in {"ACTIVITY_SNAPSHOT", "ACTIVITY_DELTA"},
           C!Accepts(c, x), ActivityDue(c, x), NEW d, d = C!Verify(c, x)
    PROVE  Apply(a, x).ok /\ Fits(s, d, Apply(a, x).applier)
<1>1. WellFormed(x) /\ x.id \in Ids /\ x.tag \in Owner
  BY WireAssumption DEF WellFormed
<1>2. /\ c.owner \in Owners /\ "activity" \in Buckets /\ "message" \in Buckets /\ "reasoning" \in Buckets
      /\ Absent \notin Owner
  BY ClientFields, Vocabulary
<1>3. Activity(s, x.id) /\ Says(s, <<"activity", x.id>>)
  <2>1. Entities(x) = {<<"activity", x.id>>}
    BY DEF Entities, Streaming
  <2> QED BY <2>1 DEF Says, Activity
<1>4. /\ IsApplier(a) /\ Conversation(s, c.owner, a.messages, a.carrier)
      /\ Held(s, c.owner, c.open, a.messages, a.carrier)
      /\ Thoughts(s, c.owner, c.open, a.reasoning) /\ Unclaimed(s, c.owner)
      /\ a.messages \in Seq(Msg)
  BY DEF Fits, Conversation
<1>5. c.owner["activity"][x.id] # Absent => Holds(a.messages, x.id)
  BY <1>1, <1>3, <1>4 DEF Held
<1>6. CASE x.type = "ACTIVITY_DELTA"
  <2>1. d = c
    BY <1>6 DEF C!Verify, C!Fold
  <2>2. At(a.messages, x.id) # 0
    BY <1>4, <1>5, <1>6, AtFacts DEF ActivityDue
  <2>3. Apply(a, x) = Applied(a)
    BY <1>6, <2>2 DEF Apply, WithActivity
  <2> QED BY <2>1, <2>3 DEF Applied
<1>7. CASE x.type = "ACTIVITY_SNAPSHOT"
  <2> DEFINE b == ActivitySnapshotted(a, x)
             taken == [c.owner EXCEPT !["activity"][x.id] = x.tag]
  <2>1. Apply(a, x) = Applied(b)
    BY <1>7 DEF Apply
  <2>2. taken \in Owners /\ \A bu \in Buckets, i \in Ids :
           taken[bu][i] = IF bu = "activity" /\ i = x.id THEN x.tag ELSE c.owner[bu][i]
    BY <1>1, <1>2 DEF Owners
  <2> DEFINE known == x.replace \/ c.owner["activity"][x.id] = Absent
  <2>3. d.open = c.open /\ (known => d.owner = taken) /\ (~known => d.owner = c.owner)
    <3>1. CASE known
      <4>1. d = [c EXCEPT !.owner["activity"][x.id] = x.tag]
        BY <1>7, <3>1, Names DEF C!Verify, C!Fold
      <4>2. d = [c EXCEPT !.owner = taken]
        BY <4>1
      <4> HIDE DEF taken
      <4> QED BY <3>1, <4>2, Names
    <3>2. CASE ~known
      <4>1. d = c
        BY <1>7, <3>2, Names DEF C!Verify, C!Fold
      <4> QED BY <3>2, <4>1
    <3> QED BY <3>1, <3>2
  <2>4. x.replace => c.owner["activity"][x.id] \in {Absent, x.tag}
    BY <1>7 DEF ActivityDue
  <2> HIDE DEF taken
  <2>5. Grows(c.owner, d.owner)
    BY <2>2, <2>3, <2>4 DEF Grows
  <2>6. ~Holds(a.messages, x.id) \/ x.replace => d.owner["activity"][x.id] = x.tag
    BY <1>1, <1>2, <1>5, <2>2, <2>3
  <2>7. Conversation(s, d.owner, a.messages, a.carrier)
    BY <1>4, <2>5, ConversationGrows
  <2>8. Advances(s, d.owner, a, b) /\ Holds(b.messages, x.id)
    BY <1>1, <1>3, <1>4, <2>6, <2>7, ActivityTaken
  <2>9. \A bu \in Buckets, i \in Ids : bu # "activity" \/ i # x.id => d.owner[bu][i] = c.owner[bu][i]
    BY <2>2, <2>3
  <2> HIDE DEF b, known
  <2>10. Thoughts(s, d.owner, d.open, a.reasoning)
    BY <1>2, <1>4, <2>3, <2>9, ThoughtsKept
  <2>11. Unclaimed(s, d.owner)
    <3> SUFFICES ASSUME NEW e \in Emits[s], OwnChunk(e)
                 PROVE  d.owner[BucketOf(e.kind)][e.id] \in {Absent, None}
      BY DEF Unclaimed
    <3>1. e.id \in Ids /\ BucketOf(e.kind) \in {"message", "call"} /\ {"message", "call"} \subseteq Buckets
      <4>1. WellFormed(e)
        BY WireAssumption
      <4> QED BY <4>1, Vocabulary DEF OwnChunk, Named, WellFormed
    <3>2. c.owner[BucketOf(e.kind)][e.id] \in {Absent, None}
      BY <1>4 DEF Unclaimed
    <3> QED BY <2>9, <3>1, <3>2
  <2>12. \A i \in Ids : d.owner["activity"][i] # Absent => c.owner["activity"][i] # Absent \/ Holds(b.messages, i)
    BY <1>2, <2>8, <2>9
  <2>13. Fits(s, d, b)
    BY <2>3, <2>8, <2>10, <2>11, <2>12, FitsAdvance
  <2> QED BY <2>1, <2>13 DEF Applied
<1> QED BY <1>6, <1>7

\* A conversation is restated with what is open.
SnapshotDue(c, x) ==
    \A i \in Ids : /\ c.open["text"][i] # Absent => x.history["message"][i] # Absent
                   /\ c.open["tool"][i] # Absent => x.history["call"][i] # Absent

LEMMA ConversationRestated ==
    ASSUME NEW s \in Agents, Sorted(s), NEW c \in C!Verifier, c.started, ~c.finished,
           NEW a, Fits(s, c, a),
           NEW x \in Emits[s], x.type = "MESSAGES_SNAPSHOT",
           C!Accepts(c, x), SnapshotDue(c, x), NEW d, d = C!Verify(c, x)
    PROVE  Apply(a, x).ok /\ Fits(s, d, Apply(a, x).applier)
<1> DEFINE merged == Merged(a.messages, x.messages)
           moved == [i \in Ids |-> LastNaming(merged, "call", i)]
           open == Present(a.openText, merged)
           b == [a EXCEPT !.messages = merged, !.carrier = moved, !.openText = open]
           after == C!Seeded(c, x.history, TRUE)
<1>1. WellFormed(x) /\ x.history \in Owners
  BY WireAssumption DEF WellFormed
<1>2. d.open = c.open /\ d.owner = after
  <2>1. d = [c EXCEPT !.owner = after]
    BY DEF C!Verify, C!Fold
  <2> HIDE DEF after
  <2> QED BY <2>1, Names
<1>3. Reseeded(c.owner, x.history, after)
  BY Names DEF Reseeded, C!Seeded
<1>4. Apply(a, x) = Applied(b)
  BY DEF Apply, ReplaceMessages, Fits, IsApplier, Fields
<1> HIDE DEF after, open
<1>5. /\ IsApplier(a) /\ Conversation(s, c.owner, a.messages, a.carrier)
      /\ Held(s, c.owner, c.open, a.messages, a.carrier)
      /\ Thoughts(s, c.owner, c.open, a.reasoning) /\ Unclaimed(s, c.owner)
  BY DEF Fits
<1>m. merged = Merged(a.messages, x.messages) /\ moved = Moved(merged)
  BY DEF Moved
<1> HIDE DEF merged, moved
<1>6. /\ Conversation(s, after, merged, moved)
      /\ \A i \in Ids : x.history["message"][i] # Absent /\ Spoken(a.messages, i) => Spoken(merged, i)
      /\ \A i \in Ids : x.history["call"][i] # Absent => moved[i] # 0
      /\ \A i \in Ids : Activity(s, i) /\ after["activity"][i] # Absent =>
            c.owner["activity"][i] # Absent /\ (Holds(a.messages, i) => Holds(merged, i))
  <2> DEFINE owner == c.owner
             messages == a.messages
             carrier == a.carrier
  <2>1. /\ Sorted(s) /\ Conversation(s, owner, messages, carrier) /\ s \in Agents /\ x \in Emits[s]
        /\ x.type = "MESSAGES_SNAPSHOT" /\ Reseeded(owner, x.history, after)
        /\ merged = Merged(messages, x.messages) /\ moved = Moved(merged)
    BY <1>3, <1>5, <1>m
  <2> HIDE DEF owner, messages, carrier, b
  <2>2. Restated(s, owner, messages, x.history, after, merged, moved)
    BY ONLY <2>1, SnapshotTaken
  <2> QED BY <2>2 DEF owner, messages, Restated
<1>7. View(b, merged, moved, a.reasoning)
  BY <1>5, ApplierFields
<1> HIDE DEF b
<1>8. Held(s, after, c.open, merged, moved)
  BY <1>5, <1>6 DEF Held, SnapshotDue
<1>9. Thoughts(s, after, c.open, a.reasoning)
  <2>1. \A i \in Ids : Thought(s, i) => after["reasoning"][i] = c.owner["reasoning"][i]
    <3>1. \A i \in Ids : Thought(s, i) => x.history["reasoning"][i] = Absent
      BY SnapshotSorted
    <3> QED BY <1>3, <3>1, Vocabulary DEF Reseeded
  <2> QED BY <1>5, <2>1, ThoughtsKept
<1>10. Unclaimed(s, after)
  <2>1. \A f \in Emits[s] : f.type # "CHUNK"
    BY SnapshotSorted
  <2> QED BY <2>1 DEF Unclaimed, OwnChunk, Named
<1>11. Fits(s, d, b)
  BY <1>2, <1>6, <1>7, <1>8, <1>9, <1>10 DEF Fits, View
<1> QED BY <1>4, <1>11 DEF Applied

\* Something is signed.
LEMMA ValueSigned ==
    ASSUME NEW s \in Agents, NEW c \in C!Verifier, c.started, ~c.finished, NEW a, Fits(s, c, a),
           NEW x, WellFormed(x), x.type = "ENCRYPTED", C!Accepts(c, x), NEW d, d = C!Verify(c, x)
    PROVE  Apply(a, x).ok /\ Fits(s, d, Apply(a, x).applier)
<1>1. d = c
  BY DEF C!Verify, C!Fold
<1>2. x.id \in Ids
  BY DEF WellFormed
<1>3. /\ IsApplier(a) /\ Conversation(s, c.owner, a.messages, a.carrier)
      /\ Held(s, c.owner, c.open, a.messages, a.carrier)
      /\ Thoughts(s, c.owner, c.open, a.reasoning) /\ Unclaimed(s, c.owner)
      /\ a.carrier \in [Ids -> Nat] /\ a.reasoning \in Seq(Msg)
  BY DEF Fits, Conversation, Thoughts
<1>4. CASE x.subtype = "tool-call"
  <2>1. Apply(a, x) = Applied(SignCall(a, x.id))
    BY <1>4 DEF Apply
  <2>2. CASE a.carrier[x.id] = 0
    BY <1>1, <2>1, <2>2 DEF SignCall, Applied
  <2>3. CASE a.carrier[x.id] # 0
    <3> DEFINE b == SignCall(a, x.id)
    <3>1. Advances(s, c.owner, a, b)
      BY <1>2, <1>3, <2>3, CallMarks
    <3> HIDE DEF b
    <3>2. Fits(s, c, b)
      BY <1>3, <3>1, FitsAdvance
    <3> QED BY <1>1, <2>1, <3>2 DEF Applied, b
  <2> QED BY <2>2, <2>3
<1>5. CASE x.subtype # "tool-call"
  <2> DEFINE b == SignMessage(a, x.id)
  <2>1. Apply(a, x) = Applied(b)
    BY <1>5 DEF Apply
  <2>2. CASE Holds(a.reasoning, x.id)
    <3>1. PICK r : View(b, a.messages, a.carrier, r) /\ Thoughts(s, c.owner, c.open, r)
      BY <1>2, <1>3, <2>2, ReasoningViews
    <3> HIDE DEF b
    <3>2. Fits(s, c, b)
      BY <1>3, <3>1, FitsThinks
    <3> QED BY <1>1, <2>1, <3>2 DEF Applied
  <2>3. CASE ~Holds(a.reasoning, x.id)
    <3>1. At(a.reasoning, x.id) = 0
      BY <1>3, <2>3, AtFacts
    <3>2. Advances(s, c.owner, a, b)
      BY <1>3, <3>1, MessageSigned
    <3> HIDE DEF b
    <3>3. Fits(s, c, b)
      BY <1>3, <3>2, FitsAdvance
    <3> QED BY <1>1, <2>1, <3>3 DEF Applied
  <2> QED BY <2>2, <2>3
<1> QED BY <1>4, <1>5

\* Nothing of it is about the conversation.
Aside(x) ==
    x.type \notin {"RUN_STARTED", "START", "CONTENT", "END", "CHUNK", "TOOL_CALL_RESULT", "MESSAGES_SNAPSHOT",
                   "ACTIVITY_SNAPSHOT", "ACTIVITY_DELTA", "ENCRYPTED"}

LEMMA AsideTaken ==
    ASSUME NEW s \in Agents, NEW c \in C!Verifier, NEW a, Fits(s, c, a),
           NEW x, Aside(x), C!Accepts(c, x), NEW d, d = C!Verify(c, x)
    PROVE  Apply(a, x).ok /\ Fits(s, d, Apply(a, x).applier)
<1>1. d.open = c.open /\ d.owner = c.owner
  <2>1. d = C!Fold(c, x)
    BY DEF C!Verify
  <2> DEFINE u == c.subagents \cup {x.id}
             w == c.subagents \ {x.id}
             y == c.closed \cup {x.id}
             p == c.steps \cup {<<x.tag, x.name>>}
             q == c.steps \ {<<x.tag, x.name>>}
  <2>2. \/ d = c
        \/ d = [c EXCEPT !.steps = p]
        \/ d = [c EXCEPT !.steps = q]
        \/ d = [c EXCEPT !.subagents = u]
        \/ d = [c EXCEPT !.subagents = w, !.closed = y]
        \/ d = [c EXCEPT !.finished = TRUE]
    BY <2>1 DEF Aside, C!Fold
  <2> HIDE DEF u, w, y, p, q
  <2> QED BY <2>2, Names
<1>2. \E b : Apply(a, x) = Applied(b) /\ View(b, a.messages, a.carrier, a.reasoning)
  <2>0. IsApplier(a)
    BY DEF Fits
  <2>1. \/ Apply(a, x) = Applied(a)
        \/ \E y : Apply(a, x) = Applied([a EXCEPT !.state = y])
        \/ \E y : Apply(a, x) = Applied([a EXCEPT !.subagents = y])
    <3>1. CASE x.type = "STATE_SNAPSHOT"
      BY <3>1 DEF Apply
    <3>2. CASE x.type \in {"SUBAGENT_STARTED", "SUBAGENT_FINISHED", "SUBAGENT_ERROR"}
      <4>1. \E y : SubagentAnnounced(a, x.id, x.parent) = [a EXCEPT !.subagents = y]
        BY DEF SubagentAnnounced
      <4>2. \A z : \E y : SubagentClosed(a, x.id, z) = [a EXCEPT !.subagents = y]
        BY DEF SubagentClosed
      <4> QED BY <3>2, <4>1, <4>2 DEF Apply
    <3>3. CASE x.type \notin {"STATE_SNAPSHOT", "SUBAGENT_STARTED", "SUBAGENT_FINISHED", "SUBAGENT_ERROR"}
      BY <3>3 DEF Apply, Aside
    <3> QED BY <3>1, <3>2, <3>3
  <2>2. CASE Apply(a, x) = Applied(a)
    BY <2>0, <2>2 DEF View
  <2>3. ASSUME NEW y, Apply(a, x) = Applied([a EXCEPT !.state = y])
        PROVE  \E b : Apply(a, x) = Applied(b) /\ View(b, a.messages, a.carrier, a.reasoning)
    BY <2>0, <2>3, ApplierFields
  <2>4. ASSUME NEW y, Apply(a, x) = Applied([a EXCEPT !.subagents = y])
        PROVE  \E b : Apply(a, x) = Applied(b) /\ View(b, a.messages, a.carrier, a.reasoning)
    BY <2>0, <2>4, ApplierFields
  <2> QED BY <2>1, <2>2, <2>3, <2>4
<1>3. PICK b : Apply(a, x) = Applied(b) /\ View(b, a.messages, a.carrier, a.reasoning)
  BY <1>2
<1>4. Fits(s, d, b)
  BY <1>1, <1>3 DEF Fits, View
<1> QED BY <1>3, <1>4 DEF Applied

\* What is due of an event, besides what the verifier asks of it.
Due(s, c, a, x) ==
    /\ x.type = "START" => StartDue(s, c, a, x)
    /\ x.type \in {"ACTIVITY_SNAPSHOT", "ACTIVITY_DELTA"} => x \in Emits[s] /\ ActivityDue(c, x)
    /\ x.type = "MESSAGES_SNAPSHOT" => x \in Emits[s] /\ SnapshotDue(c, x)
    /\ x.type = "TOOL_CALL_RESULT" => x \in Emits[s]

\* What the client accepts, and is due, can be applied; and what it holds still fits.
LEMMA EventTaken ==
    ASSUME NEW s \in Agents, Orderly(s), Sorted(s), NEW c \in C!Verifier, NEW a, Fits(s, c, a),
           NEW x \in Heard, x.type \notin {"RUN_STARTED", "CHUNK"}, C!Accepts(c, x), Due(s, c, a, x),
           NEW d, d = C!Verify(c, x)
    PROVE  Apply(a, x).ok /\ Fits(s, d, Apply(a, x).applier)
<1>1. WellFormed(x)
  BY HeardIsWellFormed
<1>2. ~c.finished /\ (x.type # "CUSTOM" => c.started)
  BY DEF C!Accepts, C!RunRules
<1>3. CASE x.type = "START"
  <2>1. x.kind \in {"text", "tool", "block", "reasoning"} /\ StartDue(s, c, a, x)
    BY <1>1, <1>3, Vocabulary DEF WellFormed, Due
  <2>2. CASE x.kind = "text"
    BY <1>1, <1>2, <1>3, <2>1, <2>2, TextBegins
  <2>3. CASE x.kind = "tool"
    BY <1>1, <1>2, <1>3, <2>1, <2>3, CallBegins
  <2>4. CASE x.kind \in {"block", "reasoning"}
    BY <1>1, <1>2, <1>3, <2>1, <2>4, ThinkingBegins
  <2> QED BY <2>1, <2>2, <2>3, <2>4
<1>4. CASE x.type = "CONTENT"
  BY <1>1, <1>2, <1>4, StreamGoesOn
<1>5. CASE x.type = "END"
  BY <1>1, <1>2, <1>5, StreamEnds
<1>6. CASE x.type = "TOOL_CALL_RESULT"
  BY <1>2, <1>6, CallAnswered DEF Due
<1>7. CASE x.type \in {"ACTIVITY_SNAPSHOT", "ACTIVITY_DELTA"}
  BY <1>2, <1>7, ActivityMoves DEF Due
<1>8. CASE x.type = "MESSAGES_SNAPSHOT"
  BY <1>2, <1>8, ConversationRestated DEF Due
<1>9. CASE x.type = "ENCRYPTED"
  BY <1>1, <1>2, <1>9, ValueSigned
<1>10. CASE x.type \notin {"START", "CONTENT", "END", "TOOL_CALL_RESULT", "MESSAGES_SNAPSHOT",
                           "ACTIVITY_SNAPSHOT", "ACTIVITY_DELTA", "ENCRYPTED"}
  BY <1>10, AsideTaken DEF Aside
<1> QED BY <1>3, <1>4, <1>5, <1>6, <1>7, <1>8, <1>9, <1>10

\* Nothing but ENDs came since: it is due as it was.
Quieter(c, a, d, b) ==
    /\ b.messages = a.messages /\ d.owner = c.owner
    /\ \A k \in ChunkKinds, i \in Ids : d.open[k][i] # Absent => c.open[k][i] # Absent

LEMMA DueStill ==
    ASSUME NEW s, NEW c, NEW a, NEW d, NEW b, Quieter(c, a, d, b), NEW x, Due(s, c, a, x)
    PROVE  Due(s, d, b, x)
<1>1. C!OwnerOf(d, x) = C!OwnerOf(c, x)
  <2>1. d.owner = c.owner
    BY DEF Quieter
  <2> QED BY <2>1 DEF C!OwnerOf, C!CallOwner, C!Asserted, C!Carrier, C!Claimed, C!Recorded
<1>2. StartDue(s, c, a, x) => StartDue(s, d, b, x)
  BY <1>1 DEF StartDue, Quieter
<1>3. ActivityDue(c, x) => ActivityDue(d, x)
  BY DEF ActivityDue, Quieter
<1>4. SnapshotDue(c, x) => SnapshotDue(d, x)
  BY Vocabulary DEF SnapshotDue, Quieter
<1> QED BY <1>2, <1>3, <1>4 DEF Due

LEMMA QuieterOn ==
    ASSUME NEW c, NEW a, NEW d, NEW b, Quieter(c, a, d, b), NEW e, NEW u, Quieter(d, b, e, u)
    PROVE  Quieter(c, a, e, u)
BY DEF Quieter

\* A run that ends early leaves no stream open.
LEMMA Aborted ==
    ASSUME NEW s, NEW c, NEW a, Fits(s, c, a)
    PROVE  Fits(s, c, AbortSubagents(a))
<1> DEFINE b == AbortSubagents(a)
<1>1. IsApplier(a)
  BY DEF Fits
<1>2. /\ IsApplier(b) /\ b.messages = a.messages /\ b.carrier = a.carrier /\ b.reasoning = a.reasoning
  BY <1>1 DEF AbortSubagents, IsApplier, Fields
<1> HIDE DEF b
<1>3. Fits(s, c, b)
  BY <1>2 DEF Fits
<1> QED BY <1>3 DEF b

-----------------------------------------------------------------------------
(* The consumer's walk *)

\* A line, field by field.
Line(v, o, c, a, w) == [server |-> v, streams |-> o, client |-> c, applier |-> a, verdict |-> w]

\* One event of it.
LEMMA HandledOne ==
    ASSUME NEW s \in Agents, Orderly(s), Sorted(s), NEW c \in C!Verifier, NEW a, Fits(s, c, a),
           NEW x \in Heard, x.type \notin {"RUN_STARTED", "CHUNK"}, C!Accepts(c, x), Due(s, c, a, x),
           NEW v, NEW o
    PROVE  \E b : /\ Handle(Line(v, o, c, a, "ok"), x) = Line(v, o, C!Verify(c, x), b, "ok")
                  /\ Fits(s, C!Verify(c, x), b)
                  /\ x.type = "END" => Quieter(c, a, C!Verify(c, x), b)
<1> DEFINE d == C!Verify(c, x)
           r == Apply(a, x)
           b == IF x.type = "RUN_ERROR" THEN AbortSubagents(r.applier) ELSE r.applier
<1>1. r.ok /\ Fits(s, d, r.applier)
  BY EventTaken
<1>2. Fits(s, d, b)
  <2> HIDE DEF d, r
  <2> QED BY <1>1, Aborted
<1>3. x.type = "END" => Quieter(c, a, d, r.applier)
  <2> SUFFICES ASSUME x.type = "END" PROVE Quieter(c, a, d, r.applier)
    OBVIOUS
  <2>1. WellFormed(x) /\ ~c.finished /\ c.started
    BY HeardIsWellFormed DEF C!Accepts, C!RunRules
  <2> QED BY <2>1, StreamEnds DEF Quieter
<1>4. Handle(Line(v, o, c, a, "ok"), x) = Folded([Line(v, o, c, a, "ok") EXCEPT !.client = C!Verify(@, x)], x, r)
  BY DEF Handle, Line
<1>5. [Line(v, o, c, a, "ok") EXCEPT !.client = C!Verify(@, x)] = Line(v, o, d, a, "ok")
  BY DEF Line
<1> HIDE DEF d, r
<1>6. Folded(Line(v, o, d, a, "ok"), x, r) = Terminated(Line(v, o, d, r.applier, "ok"), x)
  BY <1>1 DEF Folded, Line
<1>7. Terminated(Line(v, o, d, r.applier, "ok"), x) = Line(v, o, d, b, "ok")
  BY DEF Terminated, Line
<1>8. x.type = "END" => b = r.applier
  OBVIOUS
<1> HIDE DEF b
<1>9. /\ Handle(Line(v, o, c, a, "ok"), x) = Line(v, o, d, b, "ok") /\ Fits(s, d, b)
      /\ x.type = "END" => Quieter(c, a, d, b)
  BY <1>2, <1>3, <1>4, <1>5, <1>6, <1>7, <1>8
<1> QED BY <1>9 DEF d

Follows(h, line, xs) ==
    /\ h[0] = line
    /\ \A n \in 1..Len(xs) : h[n] = Handle(h[n - 1], xs[n])

\* Handled handles one event after the other.
LEMMA HandledWalks ==
    ASSUME NEW line, NEW xs \in Seq(Heard)
    PROVE  \E h : Follows(h, line, xs) /\ Handled(line, xs) = h[Len(xs)]
<1> DEFINE L == Len(xs)
           Upto(h, k) == h = [n \in 0..k |-> IF n = 0 THEN line ELSE Handle(h[n - 1], xs[n])]
           T == {k \in 0..L : \E h : Upto(h, k)}
<1>1. L \in Nat
  OBVIOUS
<1>2. 0 \in T
  <2> DEFINE h == [n \in 0..0 |-> line]
  <2>1. \A n \in 0..0 : n = 0
    OBVIOUS
  <2>2. Upto(h, 0)
    BY <2>1
  <2> HIDE DEF Upto, h
  <2> QED BY <1>1, <2>2
<1>3. ASSUME NEW k \in 1..L, k - 1 \in T
      PROVE  k \in T
  <2>1. PICK h : Upto(h, k - 1)
    BY <1>3
  <2> DEFINE g == [n \in 0..k |-> IF n = k THEN Handle(h[k - 1], xs[k]) ELSE h[n]]
  <2>2. /\ k - 1 \in 0..(k - 1) /\ k # 0 /\ k \in Nat
        /\ \A n \in 0..k : n # k => n \in 0..(k - 1) /\ (n # 0 => n - 1 \in 0..(k - 1))
        /\ \A n \in 0..(k - 1) : n \in 0..k /\ n # k
    BY <1>1
  <2>3. \A n \in 0..(k - 1) : h[n] = IF n = 0 THEN line ELSE Handle(h[n - 1], xs[n])
    <3> SUFFICES ASSUME NEW n \in 0..(k - 1)
                 PROVE  h[n] = IF n = 0 THEN line ELSE Handle(h[n - 1], xs[n])
      OBVIOUS
    <3> QED BY <2>1, Zenon
  <2>4. \A n \in 0..k : g[n] = IF n = 0 THEN line ELSE Handle(g[n - 1], xs[n])
    <3> SUFFICES ASSUME NEW n \in 0..k
                 PROVE  g[n] = IF n = 0 THEN line ELSE Handle(g[n - 1], xs[n])
      OBVIOUS
    <3>1. CASE n = k
      BY <2>2, <3>1
    <3>2. CASE n # k
      <4>1. g[n] = h[n] /\ (n # 0 => g[n - 1] = h[n - 1])
        BY <2>2, <3>2
      <4> QED BY <2>2, <2>3, <3>2, <4>1
    <3> QED BY <3>1, <3>2
  <2>5. g = [n \in 0..k |-> g[n]]
    OBVIOUS
  <2> HIDE DEF g
  <2>6. Upto(g, k)
    BY <2>4, <2>5
  <2> QED BY <1>1, <2>6
<1>4. \A n \in 0..L : n \in T
  <2> HIDE DEF T
  <2> QED BY <1>1, <1>2, <1>3, IntervalInduction
<1>5. \E h : Upto(h, L)
  BY <1>1, <1>4
<1> DEFINE g == CHOOSE h : Upto(h, L)
<1>6. Handled(line, xs) = g[L]
  BY DEF Handled
<1>7. Upto(g, L)
  <2> HIDE DEF Upto
  <2> QED BY <1>5
<1> HIDE DEF g
<1>8. Follows(g, line, xs)
  <2>1. 0 \in 0..L /\ \A n \in 1..L : n \in 0..L /\ n # 0
    BY <1>1
  <2>2. g[0] = line
    BY <1>7, <2>1, Zenon
  <2>3. ASSUME NEW n \in 1..L
        PROVE  g[n] = Handle(g[n - 1], xs[n])
    BY <1>7, <2>1, Zenon
  <2> QED BY <2>2, <2>3 DEF Follows
<1> QED BY <1>6, <1>8

\* At most one event of a walk is neither an END nor content, and only ENDs come before it.
Led(xs, x) ==
    \A n \in 1..Len(xs) :
        \/ xs[n].type \in {"END", "CONTENT"}
        \/ xs[n] = x /\ \A m \in 1..(n - 1) : xs[m].type = "END"

LEMMA Followed ==
    ASSUME NEW s \in Agents, Orderly(s), Sorted(s), NEW c \in C!Verifier, NEW a, Fits(s, c, a),
           NEW x, x.type \notin {"RUN_STARTED", "CHUNK"}, Due(s, c, a, x),
           NEW xs, NEW d, Passes(c, xs, d), Led(xs, x), NEW v, NEW o
    PROVE  \E b : Handled(Line(v, o, c, a, "ok"), xs) = Line(v, o, d, b, "ok") /\ Fits(s, d, b)
<1> DEFINE L == Len(xs)
           line == Line(v, o, c, a, "ok")
<1>1. xs \in Seq(Heard) /\ L \in Nat /\ Judged(c, xs) = [ok |-> TRUE, client |-> d]
  BY DEF Passes
<1>2. PICK f : Judges(f, c, xs) /\ Judged(c, xs) = f[L]
  BY <1>1, JudgedWalks
<1>3. PICK h : Follows(h, line, xs) /\ Handled(line, xs) = h[L]
  BY <1>1, HandledWalks
<1>4. \A n \in 0..L : f[n].ok
  <2> DEFINE T == {n \in 0..L : f[L - n].ok}
  <2>1. 0 \in T
    BY <1>1, <1>2
  <2>2. ASSUME NEW n \in 1..L, n - 1 \in T
        PROVE  n \in T
    <3>1. /\ L - (n - 1) \in 1..L /\ (L - (n - 1)) - 1 = L - n /\ n \in 0..L
      BY <1>1
    <3>2. PICK m : m = L - (n - 1)
      OBVIOUS
    <3>3. f[m] = Judge(f[m - 1], xs[m]) /\ f[m].ok /\ m - 1 = L - n
      BY <1>2, <2>2, <3>1, <3>2 DEF Judges
    <3>4. f[m - 1].ok
      BY <3>3 DEF Judge
    <3> QED BY <3>1, <3>3, <3>4
  <2>3. \A n \in 0..L : n \in T
    <3> HIDE DEF T
    <3> QED BY <1>1, <2>1, <2>2, IntervalInduction
  <2> SUFFICES ASSUME NEW n \in 0..L PROVE f[n].ok
    OBVIOUS
  <2>4. L - n \in 0..L /\ L - (L - n) = n
    BY <1>1
  <2> QED BY <2>3, <2>4
<1> DEFINE At0(n, b) ==
              /\ h[n] = Line(v, o, f[n].client, b, "ok") /\ Fits(s, f[n].client, b)
              /\ f[n].client \in C!Verifier
              /\ (\A m \in 1..n : xs[m].type = "END") => Quieter(c, a, f[n].client, b)
           T == {n \in 0..L : \E b : At0(n, b)}
<1>5. 0 \in T
  <2>1. f[0].client = c /\ h[0] = Line(v, o, c, a, "ok")
    BY <1>2, <1>3 DEF Judges, Follows
  <2>2. Quieter(c, a, c, a)
    BY DEF Quieter
  <2>3. At0(0, a)
    BY <2>1, <2>2
  <2> QED BY <1>1, <2>3
<1>6. ASSUME NEW n \in 1..L, n - 1 \in T
      PROVE  n \in T
  <2>1. PICK b : At0(n - 1, b)
    BY <1>6
  <2>2. PICK u : u = f[n - 1].client
    OBVIOUS
  <2>3. PICK y : y = xs[n]
    OBVIOUS
  <2>4. /\ n - 1 \in 0..L /\ n \in 0..L /\ n \in 1..n /\ \A m \in 1..(n - 1) : m \in 1..n
        /\ y \in Heard /\ WellFormed(y)
    <3>1. y \in Heard
      BY <1>1, <2>3
    <3> QED BY <1>1, <3>1, HeardIsWellFormed
  <2>5. /\ f[n - 1].ok /\ f[n].ok
        /\ f[n] = Judge(f[n - 1], y) /\ h[n] = Handle(h[n - 1], y)
    BY <1>2, <1>3, <1>4, <2>3, <2>4 DEF Judges, Follows
  <2>6. C!Accepts(u, y) /\ f[n].client = C!Verify(u, y)
    BY <2>2, <2>5 DEF Judge
  <2>7. /\ h[n - 1] = Line(v, o, u, b, "ok") /\ Fits(s, u, b) /\ u \in C!Verifier
        /\ (\A m \in 1..(n - 1) : xs[m].type = "END") => Quieter(c, a, u, b)
    BY <2>1, <2>2
  <2>8. y.type \notin {"RUN_STARTED", "CHUNK"} /\ Due(s, u, b, y)
    <3>1. CASE y.type \in {"END", "CONTENT"}
      BY <3>1 DEF Due
    <3>2. CASE y.type \notin {"END", "CONTENT"}
      <4>1. y = x /\ Quieter(c, a, u, b)
        BY <2>3, <2>7, <3>2 DEF Led
      <4> QED BY <4>1, DueStill
    <3> QED BY <3>1, <3>2
  <2>9. PICK z : /\ Handle(Line(v, o, u, b, "ok"), y) = Line(v, o, C!Verify(u, y), z, "ok")
                 /\ Fits(s, C!Verify(u, y), z)
                 /\ y.type = "END" => Quieter(u, b, C!Verify(u, y), z)
    BY <2>4, <2>6, <2>7, <2>8, HandledOne
  <2>10. C!Verify(u, y) \in C!Verifier
    BY <2>4, <2>7, ClientTypes
  <2>11. (\A m \in 1..n : xs[m].type = "END") => Quieter(c, a, f[n].client, z)
    BY <2>3, <2>4, <2>6, <2>7, <2>9, QuieterOn
  <2>12. At0(n, z)
    BY <2>5, <2>6, <2>7, <2>9, <2>10, <2>11
  <2> HIDE DEF At0
  <2> QED BY <2>4, <2>12
<1>7. \A n \in 0..L : n \in T
  <2> HIDE DEF T
  <2> QED BY <1>1, <1>5, <1>6, IntervalInduction
<1>8. PICK b : At0(L, b)
  BY <1>1, <1>7
<1>9. f[L].client = d
  BY <1>1, <1>2
<1> QED BY <1>3, <1>8, <1>9

-----------------------------------------------------------------------------
(* What the normalizer makes of an event *)

Ends == {x \in Heard : x.type = "END"}

\* A stream that is closed makes at most an END, and so do many.
LEMMA SettleEnds ==
    ASSUME NEW t \in N!Stream
    PROVE  N!Settle(t) \in Seq(Ends)
<1>1. CASE t.owed
  <2> DEFINE e == End(t.kind, t.id, t.owner)
  <2>1. N!Settle(t) = <<e>> /\ e \in Heard
    BY <1>1, SettleHeard
  <2>2. e.type = "END"
    BY DEF End
  <2> HIDE DEF e
  <2>3. e \in Ends
    BY <2>1, <2>2 DEF Ends
  <2>4. <<e>> \in Seq(Ends)
    BY <2>3
  <2> QED BY <2>1, <2>4
<1>2. CASE ~t.owed
  <2>1. N!Settle(t) = <<>> /\ <<>> \in Seq(Ends)
    BY <1>2, SettleHeard
  <2> QED BY <2>1
<1> QED BY <1>1, <1>2

\* What is left are streams.
EndsIn(r) == \E out \in Seq(Ends), left \in Seq(N!Stream) : r = N!Result(TRUE, out, left)

LEMMA ClosedEnds ==
    ASSUME NEW open \in Seq(N!Stream)
    PROVE  /\ \A g : EndsIn(N!CloseOwner(open, g))
           /\ \A k, i : EndsIn(N!CloseId(open, k, i))
           /\ EndsIn(N!CloseAll(open))
<1>0. <<>> \in Seq(Ends) /\ <<>> \in Seq(N!Stream)
  OBVIOUS
<1>1. ASSUME NEW n \in {0} \cup DOMAIN open
      PROVE  EndsIn(N!CloseAt(open, n))
  <2>1. CASE n = 0
    BY <1>0, <2>1 DEF EndsIn, N!CloseAt
  <2>2. CASE n # 0
    <3>1. n \in DOMAIN open /\ N!CloseAt(open, n) = N!Result(TRUE, N!Settle(open[n]), N!RemoveAt(open, n))
      BY <1>1, <2>2 DEF N!CloseAt
    <3>2. N!Settle(open[n]) \in Seq(Ends)
      BY <3>1, SettleEnds
    <3>3. N!RemoveAt(open, n) \in Seq(N!Stream)
      BY <3>1 DEF N!RemoveAt
    <3> QED BY <3>1, <3>2, <3>3 DEF EndsIn
  <2> QED BY <2>1, <2>2
<1>2. ASSUME NEW g
      PROVE  EndsIn(N!CloseOwner(open, g))
  BY <1>1, OwnerFound DEF N!CloseOwner
<1>3. ASSUME NEW k, NEW i
      PROVE  EndsIn(N!CloseId(open, k, i))
  BY <1>1, IdFound DEF N!CloseId
<1>4. EndsIn(N!CloseAll(open))
  <2>1. PICK f : Settles(f, open) /\ N!CloseAll(open) = N!Result(TRUE, f[Len(open)], <<>>)
    BY SettledAll
  <2> DEFINE L == Len(open)
             A == Seq(Ends)
             T == {n \in 0..L : f[n] \in A}
  <2>2. L \in Nat /\ 0 \in 0..L /\ \A n \in 1..L : open[n] \in N!Stream /\ n \in 0..L
    OBVIOUS
  <2>3. 0 \in T
    BY <1>0, <2>1, <2>2 DEF Settles
  <2>4. ASSUME NEW n \in 1..L, n - 1 \in T
        PROVE  n \in T
    <3>1. N!Settle(open[n]) \in A
      BY <2>2, SettleEnds
    <3>2. f[n - 1] \o N!Settle(open[n]) \in A
      BY <2>4, <3>1, ConcatProperties
    <3>3. f[n] = f[n - 1] \o N!Settle(open[n])
      BY <2>1 DEF Settles
    <3> HIDE DEF A
    <3> QED BY <2>2, <3>2, <3>3
  <2>5. \A n \in 0..L : n \in T
    <3> HIDE DEF T
    <3> QED BY <2>2, <2>3, <2>4, IntervalInduction
  <2>6. f[L] \in Seq(Ends)
    BY <2>2, <2>5
  <2> QED BY <1>0, <2>1, <2>6 DEF EndsIn
<1> QED BY <1>2, <1>3, <1>4

\* An explicit event follows ENDs.
LEMMA ExplicitEnds ==
    ASSUME NEW open \in Seq(N!Stream), NEW e
    PROVE  \E out \in Seq(Ends) : \E left : N!ObserveExplicit(open, e) = N!Result(TRUE, out, left)
<1>0. <<>> \in Seq(Ends)
  OBVIOUS
<1>1. \A r : EndsIn(r) => \E out \in Seq(Ends) : \E left : r = N!Result(TRUE, out, left)
  BY DEF EndsIn
<1>2. CASE e.type \in {"START", "CONTENT"} /\ e.kind # "block"
  <2>1. N!ObserveExplicit(open, e) = N!OpenExplicit(open, e)
    BY <1>2 DEF N!ObserveExplicit
  <2> DEFINE g == N!OwnerOf(open, e.kind, e.id, e.tag)
             s == [kind |-> e.kind, id |-> e.id, owed |-> FALSE, owner |-> g]
  <2>2. PICK out \in Seq(Ends), left \in Seq(N!Stream) : N!CloseOwner(open, g) = N!Result(TRUE, out, left)
    BY ClosedEnds DEF EndsIn
  <2>3. \/ N!OpenExplicit(open, e) = N!Result(TRUE, <<>>, open)
        \/ N!OpenExplicit(open, e) = N!Result(TRUE, N!CloseOwner(open, g).out, Append(N!CloseOwner(open, g).open, s))
    BY DEF N!OpenExplicit
  <2>4. N!CloseOwner(open, g).out = out
    BY <2>2 DEF N!Result
  <2> HIDE DEF g, s
  <2> QED BY <1>0, <2>1, <2>3, <2>4
<1>3. CASE e.type = "END" /\ e.kind # "block"
  <2>1. N!ObserveExplicit(open, e) = N!Result(TRUE, <<>>, N!Others(open, e.kind, e.id))
    BY <1>3 DEF N!ObserveExplicit, N!CloseExplicit
  <2> QED BY <1>0, <2>1
<1>4. CASE e.type = "END" /\ e.kind = "block"
  <2>1. N!ObserveExplicit(open, e) = N!CloseId(open, "reasoning", e.id)
    BY <1>4 DEF N!ObserveExplicit
  <2>2. \A k, i : EndsIn(N!CloseId(open, k, i))
    BY ClosedEnds
  <2>3. EndsIn(N!CloseId(open, "reasoning", e.id))
    BY ONLY <2>2
  <2> QED BY <1>1, <2>1, <2>3
<1>5. CASE e.type = "TOOL_CALL_RESULT"
  <2>1. N!ObserveExplicit(open, e) = N!CloseForResult(open, e)
    BY <1>5 DEF N!ObserveExplicit
  <2>2. PICK out \in Seq(Ends), left \in Seq(N!Stream) : N!CloseId(open, "tool", e.call) = N!Result(TRUE, out, left)
    <3>1. \A k, i : EndsIn(N!CloseId(open, k, i))
      BY ClosedEnds
    <3>2. EndsIn(N!CloseId(open, "tool", e.call))
      BY ONLY <3>1
    <3> QED BY <3>2 DEF EndsIn
  <2>3. PICK more \in Seq(Ends), rest \in Seq(N!Stream) : N!CloseOwner(left, e.tag) = N!Result(TRUE, more, rest)
    <3>1. \A g : EndsIn(N!CloseOwner(left, g))
      BY <2>2, ClosedEnds
    <3>2. EndsIn(N!CloseOwner(left, e.tag))
      BY ONLY <3>1
    <3> QED BY <3>2 DEF EndsIn
  <2>4. /\ N!CloseId(open, "tool", e.call).out = out /\ N!CloseId(open, "tool", e.call).open = left
        /\ N!CloseOwner(left, e.tag).out = more /\ N!CloseOwner(left, e.tag).open = rest
    BY <2>2, <2>3 DEF N!Result
  <2>5. N!CloseForResult(open, e) = N!Result(TRUE, out \o more, rest)
    BY <2>4 DEF N!CloseForResult
  <2>6. out \o more \in Seq(Ends)
    BY <2>2, <2>3, ConcatProperties
  <2> QED BY <2>1, <2>5, <2>6
<1>6. CASE e.type \in {"RUN_FINISHED", "RUN_ERROR"}
  <2>1. N!ObserveExplicit(open, e) = N!CloseAll(open)
    BY <1>6 DEF N!ObserveExplicit
  <2> QED BY <1>1, <2>1, ClosedEnds
<1>7. CASE ~(e.type \in {"START", "CONTENT"} /\ e.kind # "block") /\ e.type \notin {"END", "TOOL_CALL_RESULT", "RUN_FINISHED", "RUN_ERROR"}
  <2>1. N!ObserveExplicit(open, e) = N!Result(TRUE, <<>>, open)
    BY <1>7 DEF N!ObserveExplicit
  <2> QED BY <1>0, <2>1
<1> QED BY <1>2, <1>3, <1>4, <1>5, <1>6, <1>7

\* What the consumer hears of an explicit event: ENDs, then the event.
LEMMA ExplicitOut ==
    ASSUME NEW e, e.type # "CHUNK", streams \in Seq(N!Stream)
    PROVE  \E xs \in Seq(Ends) : Ingest(e).out = Append(xs, e) /\ Ingest(e).ok
<1>1. CASE e.type = "RUN_ERROR"
  <2>1. Ingest(e) = N!Result(TRUE, <<e>>, streams)
    BY <1>1 DEF Ingest
  <2>2. Ingest(e).out = Append(<<>>, e) /\ <<>> \in Seq(Ends) /\ Ingest(e).ok
    BY <2>1 DEF N!Result
  <2> QED BY <2>2
<1>2. CASE e.type # "RUN_ERROR"
  <2>0. PICK out \in Seq(Ends) : \E left : N!ObserveExplicit(streams, e) = N!Result(TRUE, out, left)
    BY ExplicitEnds
  <2>1. PICK left : N!ObserveExplicit(streams, e) = N!Result(TRUE, out, left)
    BY <2>0
  <2>2. N!Normalize(streams, e) = [ok |-> TRUE, out |-> Append(out, e), open |-> left]
    BY <2>1, Normalized
  <2>3. Ingest(e) = N!Normalize(streams, e)
    BY <1>2 DEF Ingest
  <2>4. Ingest(e).out = Append(out, e) /\ Ingest(e).ok
    BY <2>2, <2>3
  <2> QED BY <2>1, <2>4
<1> QED BY <1>1, <1>2

\* So it is the one event of its walk that counts.
LEMMA ExplicitLed ==
    ASSUME NEW e, e.type # "CHUNK", streams \in Seq(N!Stream)
    PROVE  Led(Ingest(e).out, e)
<1>1. PICK xs \in Seq(Ends) : Ingest(e).out = Append(xs, e)
  BY ExplicitOut
<1>2. \A n \in 1..Len(xs) : xs[n].type = "END"
  BY DEF Ends
<1>3. /\ Len(Append(xs, e)) = Len(xs) + 1 /\ Append(xs, e)[Len(xs) + 1] = e /\ Len(xs) \in Nat
      /\ \A n \in 1..Len(xs) : Append(xs, e)[n] = xs[n]
  OBVIOUS
<1> DEFINE ys == Append(xs, e)
<1> HIDE DEF ys
<1>4. /\ Len(ys) = Len(xs) + 1 /\ ys[Len(xs) + 1] = e /\ Ingest(e).out = ys
      /\ \A n \in 1..Len(xs) : ys[n].type = "END"
  BY <1>1, <1>2, <1>3 DEF ys
<1>5. Led(ys, e)
  <2> SUFFICES ASSUME NEW n \in 1..Len(ys)
               PROVE  \/ ys[n].type \in {"END", "CONTENT"}
                      \/ ys[n] = e /\ \A m \in 1..(n - 1) : ys[m].type = "END"
    BY DEF Led
  <2>1. n \in 1..Len(xs) \/ (n = Len(xs) + 1 /\ n - 1 = Len(xs))
    BY <1>3, <1>4
  <2> QED BY <1>4, <2>1
<1> QED BY <1>4, <1>5

\* A chunk goes on with a stream, or is led by the START made for it.
LEMMA ChunkLed ==
    ASSUME NEW open \in Seq(N!Stream), NEW e, NEW i, NEW g, PlacedAs(e, open, i, g)
    PROVE  /\ N!Current(open, e.kind, g) = i => Led(N!Normalize(open, e).out, Content(e.kind, i, g))
           /\ N!Current(open, e.kind, g) # i => Led(N!Normalize(open, e).out, Opening(e.kind, i, g, e.parent))
<1> DEFINE x == Opening(e.kind, i, g, e.parent)
           y == Content(e.kind, i, g)
<1>1. y.type = "CONTENT"
  BY DEF Content
<1> HIDE DEF x, y
<1>2. CASE N!Current(open, e.kind, g) = i
  <2>1. N!Normalize(open, e).out = <<y>>
    BY <1>2, ChunkPlaced DEF Goes, y
  <2>2. Led(<<y>>, y)
    BY <1>1 DEF Led
  <2> QED BY <1>2, <2>1, <2>2 DEF y
<1>3. CASE N!Current(open, e.kind, g) # i
  <2>1. PICK xs \in Seq(Ends), left \in Seq(N!Stream) : N!CloseOwner(open, g) = N!Result(TRUE, xs, left)
    BY ClosedEnds DEF EndsIn
  <2>2. N!Normalize(open, e).out = xs \o <<x, y>>
    <3>1. N!CloseOwner(open, g).out = xs
      BY <2>1 DEF N!Result
    <3>2. Opens(open, e, i, g)
      BY <1>3, ChunkPlaced
    <3>3. N!Normalize(open, e).out = N!CloseOwner(open, g).out \o <<x, y>>
      BY <3>2 DEF Opens, x, y
    <3> QED BY <3>1, <3>3
  <2>3. \A n \in 1..Len(xs) : xs[n].type = "END"
    BY DEF Ends
  <2>4. /\ Len(xs \o <<x, y>>) = Len(xs) + 2 /\ Len(xs) \in Nat
        /\ (xs \o <<x, y>>)[Len(xs) + 1] = x /\ (xs \o <<x, y>>)[Len(xs) + 2] = y
        /\ \A n \in 1..Len(xs) : (xs \o <<x, y>>)[n] = xs[n]
    OBVIOUS
  <2> DEFINE ys == xs \o <<x, y>>
  <2> HIDE DEF ys
  <2>5. /\ Len(ys) = Len(xs) + 2 /\ ys[Len(xs) + 1] = x /\ ys[Len(xs) + 2] = y
        /\ \A n \in 1..Len(xs) : ys[n].type = "END"
    BY <2>3, <2>4 DEF ys
  <2>6. Led(ys, x)
    <3> SUFFICES ASSUME NEW n \in 1..Len(ys)
                 PROVE  \/ ys[n].type \in {"END", "CONTENT"}
                        \/ ys[n] = x /\ \A m \in 1..(n - 1) : ys[m].type = "END"
      BY DEF Led
    <3>1. n \in 1..Len(xs) \/ (n = Len(xs) + 1 /\ n - 1 = Len(xs)) \/ n = Len(xs) + 2
      BY <2>4, <2>5
    <3> QED BY <1>1, <2>5, <3>1
  <2> QED BY <1>3, <2>2, <2>6 DEF ys, x
<1> QED BY <1>2, <1>3

-----------------------------------------------------------------------------
(* What a tidy producer's events are due *)

\* An id that is nobody's, or its tag's, becomes its tag's.
LEMMA OwnedByTag ==
    ASSUME NEW c \in C!Verifier, NEW x, WellFormed(x), x.type = "START", x.kind # "tool" \/ x.parent = None,
           c.owner[BucketOf(x.kind)][x.id] \in {Absent, x.tag}
    PROVE  C!OwnerOf(c, x) = x.tag
<1>1. x.tag \in Owner /\ Absent \notin Owner
  BY Vocabulary DEF WellFormed
<1>2. CASE x.kind = "tool"
  <2>1. C!Asserted(c, x) = IF x.tag # None THEN x.tag ELSE Absent
    BY <1>2, Names DEF C!Asserted, C!Carrier
  <2>2. c.owner["call"][x.id] \in {Absent, x.tag}
    BY <1>2, Vocabulary
  <2>3. C!OwnerOf(c, x) = C!CallOwner(c, x)
    BY <1>2 DEF C!OwnerOf
  <2> QED BY <1>1, <2>1, <2>2, <2>3, Names DEF C!CallOwner
<1>3. CASE x.kind # "tool"
  <2>1. C!OwnerOf(c, x) = C!Claimed(c, x)
    BY <1>3 DEF C!OwnerOf
  <2>2. C!Recorded(c, x) = c.owner[BucketOf(x.kind)][x.id]
    BY Names DEF C!Recorded
  <2> QED BY <2>1, <2>2, Names DEF C!Claimed
<1> QED BY <1>2, <1>3

\* What the consumer has open is recorded.
LEMMA OpenRecorded ==
    ASSUME NEW s, NEW c, NEW a, Fits(s, c, a), NEW i \in Ids
    PROVE  /\ c.open["text"][i] # Absent => c.owner["message"][i] # Absent
           /\ c.open["tool"][i] # Absent => c.owner["call"][i] # Absent
<1>1. /\ Conversation(s, c.owner, a.messages, a.carrier)
      /\ Held(s, c.owner, c.open, a.messages, a.carrier)
  BY DEF Fits
<1>2. \A n \in DOMAIN a.messages :
         /\ a.messages[n] \in Msg /\ Placed(s, c.owner, a.messages[n])
         /\ a.messages[n].owner # Absent /\ a.messages[n].role \in Roles
  <2>1. \A n \in DOMAIN a.messages : a.messages[n] \in Msg /\ Placed(s, c.owner, a.messages[n])
    BY <1>1 DEF Conversation
  <2> QED BY <2>1, MsgFields, Vocabulary
<1>3. ASSUME c.open["text"][i] # Absent
      PROVE  c.owner["message"][i] # Absent
  <2>1. PICK n \in DOMAIN a.messages : a.messages[n].id = i /\ Sort(a.messages[n].role) = "spoken"
    BY <1>1, <1>3 DEF Held, Spoken
  <2>2. BucketOfRole(a.messages[n].role) = "message"
    BY <1>2, <2>1, SortRoles
  <2>3. c.owner["message"][i] = a.messages[n].owner
    BY <1>2, <2>1, <2>2, TranscriptAssumption DEF Placed
  <2> QED BY <1>2, <2>3
<1>4. ASSUME c.open["tool"][i] # Absent
      PROVE  c.owner["call"][i] # Absent
  <2>1. a.carrier[i] \in DOMAIN a.messages /\ Carries(a.messages[a.carrier[i]], i)
    BY <1>1, <1>4 DEF Held, Conversation
  <2> QED BY <1>2, <2>1 DEF Placed
<1> QED BY <1>3, <1>4

LEMMA TidyDue ==
    ASSUME NEW e, Ready(agent, server, streams, client, e), e.type # "CHUNK", Sorted(agent),
           Fits(agent, client, applier), Tidy(e)
    PROVE  Due(agent, client, applier, e)
<1>1. /\ agent \in Agents /\ Orderly(agent) /\ e \in Emits[agent] /\ WellFormed(e)
      /\ client \in C!Verifier /\ streams \in Seq(N!Stream) /\ client.owner = server.owner
      /\ InFlight(agent, server.open, server.owner, streams, client.open)
  BY ReadyFacts
<1>2. CASE e.type = "START"
  <2>1. e.kind \in {"text", "tool", "block", "reasoning"} /\ e.id \in Ids /\ e.parent \in Ids \cup {None}
    BY <1>1, <1>2, Vocabulary DEF WellFormed
  <2>2. e.kind \in {"text", "tool"} => client.owner[BucketOf(e.kind)][e.id] = Absent
    BY <1>1, <1>2 DEF Tidy, Fresh
  <2>3. e.kind = "text" \/ (e.kind = "tool" /\ e.parent = None) => C!OwnerOf(client, e) = e.tag
    BY <1>1, <1>2, <2>2, OwnedByTag
  <2>4. e.kind = "text" => Says(agent, <<"spoken", e.id>>) /\ RoleOf(e) \in Roles /\ Sort(RoleOf(e)) = "spoken"
    <3> SUFFICES ASSUME e.kind = "text"
                 PROVE  Says(agent, <<"spoken", e.id>>) /\ RoleOf(e) \in Roles /\ Sort(RoleOf(e)) = "spoken"
      OBVIOUS
    <3>1. Entities(e) = {<<"spoken", e.id>>}
      BY <1>2 DEF Entities, Streaming
    <3> QED BY <1>1, <1>2, <3>1 DEF Says, Sorted
  <2>5. e.parent # None =>
           \E n \in DOMAIN applier.messages :
              applier.messages[n].id = e.parent /\ applier.messages[n].role = "assistant"
    BY <1>2 DEF Tidy
  <2>6. e.kind \in {"block", "reasoning"} => Thought(agent, e.id)
    BY <1>1, <1>2 DEF Thought, Streaming
  <2>7. \A f \in Emits[agent] : ~(OwnChunk(f) /\ SameStream(f, e))
    BY <1>1, <1>2 DEF Orderly, OwnChunk, Streaming
  <2>8. StartDue(agent, client, applier, e)
    BY <2>3, <2>4, <2>5, <2>6, <2>7 DEF StartDue
  <2> QED BY <1>2, <2>8 DEF Due
<1>3. CASE e.type \in {"ACTIVITY_SNAPSHOT", "ACTIVITY_DELTA"}
  <2>1. ActivityDue(client, e)
    BY <1>1 DEF Tidy, Fresh, ActivityDue
  <2> QED BY <1>1, <1>3, <2>1 DEF Due
<1>4. CASE e.type = "MESSAGES_SNAPSHOT"
  <2>1. \A f \in Emits[agent] : f.type # "CHUNK"
    BY <1>1, <1>4, SnapshotSorted
  <2>2. \A k \in ChunkKinds, i \in Ids : client.open[k][i] # Absent => server.open[k][i] # Absent
    <3> SUFFICES ASSUME NEW k \in ChunkKinds, NEW i \in Ids, client.open[k][i] # Absent,
                        Owes(Listed(streams), k, i)
                 PROVE  FALSE
      BY <1>1 DEF InFlight
    <3>1. PICK t \in Listed(streams) : t.owed
      BY DEF Owes
    <3>2. Chunked(agent, t.kind, t.id, t.owner)
      BY <1>1, <3>1 DEF InFlight, Entry
    <3> QED BY <2>1, <3>2 DEF Chunked, Named
  <2>3. Restates(e.history)
    BY <1>4 DEF Tidy
  <2>4. ASSUME NEW i \in Ids
        PROVE  /\ client.open["text"][i] # Absent => e.history["message"][i] # Absent
               /\ client.open["tool"][i] # Absent => e.history["call"][i] # Absent
    <3>1. /\ client.open["text"][i] # Absent => S!IsOpen(server, "text", i)
          /\ client.open["tool"][i] # Absent => S!IsOpen(server, "tool", i)
      BY <2>2, Vocabulary, Names DEF S!IsOpen
    <3>2. /\ client.open["text"][i] # Absent => client.owner["message"][i] # Absent
          /\ client.open["tool"][i] # Absent => client.owner["call"][i] # Absent
      BY OpenRecorded
    <3> QED BY <1>1, <2>3, <3>1, <3>2 DEF Restates
  <2> QED BY <1>1, <1>4, <2>4 DEF Due, SnapshotDue
<1>5. CASE e.type \notin {"START", "ACTIVITY_SNAPSHOT", "ACTIVITY_DELTA", "MESSAGES_SNAPSHOT"}
  BY <1>1, <1>5 DEF Due
<1> QED BY <1>2, <1>3, <1>4, <1>5

\* The START that leads a first chunk is under the chunk's own tag.
LEMMA FirstTag ==
    ASSUME NEW a, NEW v, NEW open, NEW c, NEW e, Ready(a, v, open, c, e), Named(e),
           NEW g, g = N!OwnerOf(open, e.kind, e.id, e.tag), N!Current(open, e.kind, g) # e.id
    PROVE  g = e.tag
<1>1. open \in Seq(N!Stream) /\ Single(open)
  BY ReadyFacts DEF InFlight
<1> DEFINE n == N!OfId(open, e.kind, e.id)
<1>2. N!OwnerOf(open, e.kind, e.id, e.tag) = IF e.tag # None THEN e.tag ELSE IF n = 0 THEN None ELSE open[n].owner
  BY DEF N!OwnerOf
<1>3. n = 0 \/ (n \in DOMAIN open /\ open[n].kind = e.kind /\ open[n].id = e.id)
  BY <1>1, IdFound
<1> HIDE DEF n
<1>4. ASSUME e.tag = None, n # 0
      PROVE  FALSE
  <2>1. open[n] \in Listed(open) /\ open[n].kind = e.kind /\ open[n].id = e.id /\ open[n].owner = g
    BY <1>1, <1>2, <1>3, <1>4, ListedOnes
  <2>2. N!Current(open, e.kind, g) = e.id
    BY <1>1, <2>1, CurrentListed
  <2> QED BY <2>2
<1> QED BY <1>2, <1>4

LEMMA ChunkDue ==
    ASSUME NEW e, Ready(agent, server, streams, client, e), Named(e), Sorted(agent),
           Fits(agent, client, applier), Tidy(e), NEW x, x = Opening(e.kind, e.id, e.tag, e.parent)
    PROVE  Due(agent, client, applier, x)
<1>1. /\ agent \in Agents /\ Orderly(agent) /\ e \in Emits[agent] /\ WellFormed(e) /\ e.type = "CHUNK"
      /\ client \in C!Verifier /\ server \in S!Verifier /\ client.owner = server.owner
      /\ server.owner \in Owners
  BY ReadyFacts DEF Named
<1>2. /\ e.kind \in {"text", "tool", "reasoning"} /\ e.id \in Ids /\ e.tag \in Owner
      /\ e.parent \in Ids \cup {None} /\ e.kind \in Kinds /\ Absent \notin Owner
      /\ BucketOf(e.kind) \in Buckets
  BY <1>1, Vocabulary DEF WellFormed, Named
<1>3. /\ x.type = "START" /\ x.kind = e.kind /\ x.id = e.id /\ x.tag = e.tag /\ x.parent = e.parent
      /\ RoleOf(x) = "assistant"
  BY DEF Opening, RoleOf
<1>4. WellFormed(x)
  BY <1>2, <1>3 DEF WellFormed
<1>5. e.kind \in {"text", "tool"} /\ (e.kind = "tool" => e.parent = None) =>
         client.owner[BucketOf(e.kind)][e.id] \in {Absent, e.tag}
  <2> SUFFICES ASSUME e.kind \in {"text", "tool"}, e.kind = "tool" => e.parent = None
               PROVE  client.owner[BucketOf(e.kind)][e.id] \in {Absent, e.tag}
    OBVIOUS
  <2>1. CASE e.tag = None
    <3>1. OwnChunk(e)
      BY <2>1 DEF OwnChunk
    <3> QED BY <1>1, <2>1, <3>1 DEF Fits, Unclaimed
  <2>2. CASE e.tag # None
    <3> DEFINE o == S!OwnerOf(server, e)
    <3>1. S!MayOwn(server, e)
      BY ReadyFacts DEF S!StreamRules, Named
    <3>2. o = e.tag /\ (server.owner[BucketOf(e.kind)][e.id] # Absent => o = server.owner[BucketOf(e.kind)][e.id])
      BY <1>1, <1>2, <2>2, <3>1, OwnerFacts
    <3> QED BY <1>1, <3>2
  <2> QED BY <2>1, <2>2
<1>6. e.kind = "text" \/ (e.kind = "tool" /\ e.parent = None) => C!OwnerOf(client, x) = x.tag
  BY <1>1, <1>3, <1>4, <1>5, OwnedByTag
<1>7. e.kind = "text" => Says(agent, <<"spoken", x.id>>)
  <2>1. e.kind = "text" => Entities(e) = {<<"spoken", e.id>>}
    BY <1>1 DEF Entities
  <2> QED BY <1>1, <1>3, <2>1 DEF Says
<1>8. RoleOf(x) \in Roles /\ Sort(RoleOf(x)) = "spoken"
  BY <1>3 DEF Roles, Sort
<1>9. e.parent # None =>
         \E n \in DOMAIN applier.messages :
            applier.messages[n].id = e.parent /\ applier.messages[n].role = "assistant"
  BY <1>1 DEF Tidy
<1>10. e.kind = "reasoning" => Thought(agent, x.id)
  BY <1>1, <1>3 DEF Thought
<1>11. \A f \in Emits[agent] : OwnChunk(f) /\ SameStream(f, x) => C!OwnerOf(client, x) = None
  <2> SUFFICES ASSUME NEW f \in Emits[agent], OwnChunk(f), SameStream(f, x)
               PROVE  C!OwnerOf(client, x) = None
    OBVIOUS
  <2>1. Named(f) /\ f.tag = None /\ SameStream(e, f) /\ f.kind = e.kind
        /\ (f.kind = "text" \/ (f.kind = "tool" /\ f.parent = None))
    BY <1>3 DEF OwnChunk, SameStream
  <2>2. e.tag = None
    BY <1>1, <2>1 DEF Orderly
  <2>3. e.kind = "tool" => e.parent = None
    BY <1>1, <2>1 DEF Sorted
  <2> QED BY <1>3, <1>6, <2>1, <2>2, <2>3
<1>12. StartDue(agent, client, applier, x)
  BY <1>2, <1>3, <1>6, <1>7, <1>8, <1>9, <1>10, <1>11 DEF StartDue
<1> QED BY <1>3, <1>12 DEF Due

-----------------------------------------------------------------------------
(* The run's steps, with the applier at their end *)

\* One thing more than IInv: while the line goes on, what the applier holds fits the
\* client's verifier.
TInv ==
    /\ IInv
    /\ ~server.started => applier = NewApplier
    /\ verdict = "ok" /\ server.started => Fits(agent, client, applier)

LEMMA Accepted ==
    ASSUME NEW line, line.verdict = "ok", NEW e, S!Accepts(line.server, e)
    PROVE  Send(line, e) = HandleAll(Witnessed(line, e), IngestedBy(Witnessed(line, e), e))
BY DEF Send

\* An event that is sent is handled as the normalizer gives it out.
LEMMA SentOn ==
    ASSUME verdict = "ok", NEW e, S!Accepts(server, e)
    PROVE  Send(Whole, e) =
              Settled(Handled(Line(S!Fold(server, e), Ingest(e).open, client, applier, "ok"), Ingest(e).out),
                      Ingest(e))
<1> DEFINE line == Witnessed(Whole, e)
           w == S!Observe(server, e)
           r == Ingest(e)
<1>1. Whole.verdict = "ok" /\ Whole.server = server
  BY DEF Whole
<1>2. Send(Whole, e) = HandleAll(line, IngestedBy(line, e))
  <2>1. S!Accepts(Whole.server, e)
    BY <1>1
  <2> QED BY <1>1, <2>1, Accepted
<1>3. w = S!Fold(server, e)
  BY DEF S!Observe
<1> HIDE DEF w
<1>4. line = Line(w, streams, client, applier, "ok")
  BY DEF Witnessed, Whole, Line, w
<1> HIDE DEF line
<1>5. IngestedBy(line, e) = r
  BY <1>4 DEF IngestedBy, Ingest, Line
<1> HIDE DEF r
<1>6. [line EXCEPT !.streams = r.open] = Line(w, r.open, client, applier, "ok")
  BY <1>4 DEF Line
<1>7. HandleAll(line, r) = Settled(Handled(Line(w, r.open, client, applier, "ok"), r.out), r)
  BY <1>6 DEF HandleAll
<1> QED BY <1>2, <1>3, <1>5, <1>7 DEF r

\* The one event of its walk that counts is due.
LEMMA OneDue ==
    ASSUME NEW e, Ready(agent, server, streams, client, e), Sorted(agent), Fits(agent, client, applier),
           Tidy(e), e.type = "CHUNK" => Ingest(e).ok
    PROVE  \E x : /\ x.type \notin {"RUN_STARTED", "CHUNK"}
                  /\ Due(agent, client, applier, x) /\ Led(Ingest(e).out, x)
<1>1. /\ streams \in Seq(N!Stream) /\ Single(streams) /\ e.type # "RUN_STARTED" /\ WellFormed(e)
  BY ReadyFacts DEF InFlight
<1>2. CASE e.type # "CHUNK"
  BY <1>1, <1>2, TidyDue, ExplicitLed
<1>3. CASE e.type = "CHUNK"
  <2>1. PICK i : i = N!StreamId(streams, e)
    OBVIOUS
  <2>2. PICK g : g = N!OwnerOf(streams, e.kind, i, e.tag)
    OBVIOUS
  <2>3. Ingest(e) = N!Normalize(streams, e) /\ N!Normalize(streams, e).ok
    BY <1>3 DEF Ingest
  <2>4. PlacedAs(e, streams, i, g) /\ i # None
    <3>1. PlacedAs(e, streams, i, g)
      BY <1>3, <2>1, <2>2, <2>3 DEF PlacedAs
    <3> QED BY <3>1, ChunkPlaced
  <2>5. CASE N!Current(streams, e.kind, g) = i
    <3>1. Content(e.kind, i, g).type = "CONTENT"
      BY DEF Content
    <3>2. Due(agent, client, applier, Content(e.kind, i, g))
      BY <3>1 DEF Due
    <3>3. Led(Ingest(e).out, Content(e.kind, i, g))
      BY <1>1, <2>3, <2>4, <2>5, ChunkLed
    <3> QED BY <3>1, <3>2, <3>3
  <2>6. CASE N!Current(streams, e.kind, g) # i
    <3>1. e.id # None
      BY <1>1, <2>1, <2>2, <2>4, <2>6, NamelessGoesOn
    <3>2. Named(e) /\ i = e.id
      BY <1>3, <2>1, <3>1 DEF Named, N!StreamId
    <3>3. g = e.tag
      BY <2>2, <2>6, <3>2, FirstTag
    <3>4. PICK x : x = Opening(e.kind, e.id, e.tag, e.parent)
      OBVIOUS
    <3>5. x.type = "START"
      BY <3>4 DEF Opening
    <3>6. Due(agent, client, applier, x)
      BY <3>2, <3>4, ChunkDue
    <3>7. Led(Ingest(e).out, x)
      BY <1>1, <2>3, <2>4, <2>6, <3>2, <3>3, <3>4, ChunkLed
    <3> QED BY <3>5, <3>6, <3>7
  <2> QED BY <2>5, <2>6
<1> QED BY <1>2, <1>3

\* Whatever a tidy agent utters, the applier takes.
LEMMA Uttered ==
    ASSUME TInv, Orderly(agent), Sorted(agent), NEW e \in Emits[agent], Utter(e)
    PROVE  TInv'
<1>0. /\ server.started /\ verdict = "ok" /\ Tidy(e) /\ S!Accepts(server, e) /\ agent' = agent
      /\ TypeOK /\ Accord(agent, server, streams, client) /\ Fits(agent, client, applier)
      /\ Becomes(Send(Whole, e))
  BY DEF Utter, TInv, IInv
<1>1. /\ agent \in Agents /\ server \in S!Verifier /\ streams \in Seq(N!Stream) /\ client \in C!Verifier
  BY <1>0 DEF TypeOK
<1>2. Ready(agent, server, streams, client, e)
  BY <1>0, <1>1 DEF Ready
<1>3. PICK w : w = S!Fold(server, e)
  OBVIOUS
<1>4. PICK r : r = Ingest(e)
  OBVIOUS
<1>5. Send(Whole, e) = Settled(Handled(Line(w, r.open, client, applier, "ok"), r.out), r)
  BY <1>0, <1>3, <1>4, SentOn
<1>6. CASE e.type = "CHUNK" /\ ~r.ok
  <2>1. w.started /\ r = [ok |-> FALSE, out |-> <<>>, open |-> streams]
    BY <1>2, <1>3, <1>4, <1>6, Unplaced
  <2>2. Handled(Line(w, r.open, client, applier, "ok"), r.out) = Line(w, r.open, client, applier, "ok")
    <3>1. <<>> \in Seq(Heard) /\ Len(<<>>) = 0
      OBVIOUS
    <3>2. r.out = <<>>
      BY <2>1
    <3>3. PICK line : line = Line(w, r.open, client, applier, "ok")
      OBVIOUS
    <3>4. PICK f : Follows(f, line, <<>>) /\ Handled(line, <<>>) = f[Len(<<>>)]
      BY <3>1, HandledWalks
    <3> QED BY <3>1, <3>2, <3>3, <3>4 DEF Follows
  <2>3. Send(Whole, e) = Line(w, streams, client, AbortSubagents(applier), "unresolved")
    <3>1. Send(Whole, e) = Settled(Line(w, streams, client, applier, "ok"), r)
      BY <1>5, <2>1, <2>2
    <3>2. ~r.ok
      BY <2>1
    <3>3. Settled(Line(w, streams, client, applier, "ok"), r) =
             Fail(Line(w, streams, client, applier, "ok"), "unresolved")
      BY <3>2 DEF Settled, Line
    <3>4. Fail(Line(w, streams, client, applier, "ok"), "unresolved") =
             Line(w, streams, client, AbortSubagents(applier), "unresolved")
      <4> DEFINE line == [Line(w, streams, client, applier, "ok") EXCEPT !.verdict = "unresolved"]
      <4>1. line = Line(w, streams, client, applier, "unresolved")
        BY DEF Line
      <4>2. Fail(Line(w, streams, client, applier, "ok"), "unresolved") =
               [line EXCEPT !.applier = AbortSubagents(@)]
        BY Zenon DEF Fail
      <4> HIDE DEF line
      <4>3. [line EXCEPT !.applier = AbortSubagents(@)] =
               Line(w, streams, client, AbortSubagents(applier), "unresolved")
        BY <4>1 DEF Line
      <4> QED BY <4>2, <4>3
    <3> QED BY <3>1, <3>3, <3>4
  <2>4. /\ server' = w /\ streams' = streams /\ client' = client /\ verdict' = "unresolved"
    BY <1>0, <2>3 DEF Becomes, Line
  <2>5. Judged(client, r.out) = [ok |-> TRUE, client |-> client]
    BY <1>1, <2>1, JudgedNone
  <2>6. Deliver(e)
    BY <1>4, <2>1, <2>4, <2>5 DEF Deliver
  <2>7. IInv'
    BY <1>0, <1>2, <1>3, <2>4, <2>6, Delivered
  <2> QED BY <2>1, <2>4, <2>7 DEF TInv
<1>7. CASE e.type = "CHUNK" => r.ok
  <2>1. Conveys(agent, w, r, client)
    BY <1>2, <1>3, <1>4, <1>7, Carried
  <2>2. PICK d : Passes(client, r.out, d)
    BY <2>1 DEF Conveys
  <2>3. PICK x : /\ x.type \notin {"RUN_STARTED", "CHUNK"}
                 /\ Due(agent, client, applier, x) /\ Led(r.out, x)
    BY <1>0, <1>2, <1>4, <1>7, OneDue
  <2>4. PICK b : /\ Handled(Line(w, r.open, client, applier, "ok"), r.out) = Line(w, r.open, d, b, "ok")
                 /\ Fits(agent, d, b)
    <3>1. PICK xs : xs = r.out
      OBVIOUS
    <3>2. Passes(client, xs, d) /\ Led(xs, x) /\ Fits(agent, client, applier)
      BY <1>0, <2>2, <2>3, <3>1
    <3>3. \E b : Handled(Line(w, r.open, client, applier, "ok"), xs) = Line(w, r.open, d, b, "ok")
                 /\ Fits(agent, d, b)
      <4>1. PICK c, a : c = client /\ a = applier
        OBVIOUS
      <4>2. c \in C!Verifier /\ Fits(agent, c, a) /\ Due(agent, c, a, x) /\ Passes(c, xs, d)
        BY <1>1, <2>3, <3>2, <4>1
      <4>3. \E b : Handled(Line(w, r.open, c, a, "ok"), xs) = Line(w, r.open, d, b, "ok")
                   /\ Fits(agent, d, b)
        <5>1. PICK y : y = Handled(Line(w, r.open, c, a, "ok"), xs)
          OBVIOUS
        <5>2. \E b : y = Line(w, r.open, d, b, "ok") /\ Fits(agent, d, b)
          BY ONLY <1>1, <2>3, <3>2, <4>2, <5>1, Orderly(agent), Sorted(agent), Followed
        <5> QED BY <5>1, <5>2
      <4> QED BY <4>1, <4>3
    <3> QED BY <3>1, <3>3
  <2>5. r.ok /\ w.started
    BY <2>1 DEF Conveys
  <2>6. Send(Whole, e) = Line(w, r.open, d, b, "ok")
    BY <1>5, <2>4, <2>5 DEF Settled
  <2>7. /\ server' = w /\ streams' = r.open /\ client' = d /\ applier' = b /\ verdict' = "ok"
    BY <1>0, <2>6 DEF Becomes, Line
  <2>8. Judged(client, r.out) = [ok |-> TRUE, client |-> d]
    BY <2>2 DEF Passes
  <2>9. Deliver(e)
    BY <1>4, <2>5, <2>7, <2>8 DEF Deliver
  <2>10. IInv'
    BY <1>0, <1>2, <1>3, <2>7, <2>9, Delivered
  <2> QED BY <1>0, <2>4, <2>5, <2>7, <2>10 DEF TInv
<1> QED BY <1>6, <1>7

\* Before anything is said, nothing is held and nothing is owned.
LEMMA NothingHeld ==
    ASSUME NEW s \in Agents, NEW c,
           c.owner = [b \in Buckets |-> [i \in Ids |-> Absent]],
           \A k \in ChunkKinds, i \in Ids : c.open[k][i] = Absent
    PROVE  Fits(s, c, NewApplier)
<1>1. /\ NewApplier.messages = <<>> /\ NewApplier.reasoning = <<>>
      /\ NewApplier.carrier = [i \in Ids |-> 0]
  BY DEF NewApplier
<1>2. IsApplier(NewApplier)
  BY DEF NewApplier, IsApplier, Fields
<1>3. \A b \in Buckets, i \in Ids : c.owner[b][i] = Absent
  OBVIOUS
<1>4. /\ {"message", "call", "activity", "reasoning"} = Buckets
      /\ {"text", "tool", "reasoning"} = ChunkKinds
  BY Vocabulary
<1>5. Conversation(s, c.owner, <<>>, [i \in Ids |-> 0])
  BY DEF Conversation, Distinct
<1>6. Held(s, c.owner, c.open, <<>>, [i \in Ids |-> 0])
  BY <1>3, <1>4 DEF Held
<1>7. Thoughts(s, c.owner, c.open, <<>>)
  BY <1>3, <1>4 DEF Thoughts
<1>8. Unclaimed(s, c.owner)
  <2> SUFFICES ASSUME NEW e \in Emits[s], OwnChunk(e)
               PROVE  c.owner[BucketOf(e.kind)][e.id] = Absent
    BY DEF Unclaimed
  <2>1. WellFormed(e)
    OBVIOUS
  <2>2. BucketOf(e.kind) \in Buckets /\ e.id \in Ids
    BY <2>1, Vocabulary DEF OwnChunk, Named, WellFormed
  <2> QED BY <1>3, <2>2
<1> QED BY <1>1, <1>2, <1>5, <1>6, <1>7, <1>8 DEF Fits

\* The driver's RUN_STARTED finds the applier empty, and leaves it so.
LEMMA BothBegin ==
    ASSUME TInv, Sorted(agent), BeginBoth
    PROVE  TInv' /\ applier' = NewApplier
<1>0. IInv /\ ~server.started /\ verdict = "ok" /\ applier = NewApplier /\ agent' = agent
  BY DEF BeginBoth, TInv, IInv
<1>1. PICK h \in Replays[agent] : Becomes(Send(Whole, RunStarted(h)))
  BY DEF BeginBoth
<1>2. PICK e : e = RunStarted(h)
  OBVIOUS
<1>3. e.type = "RUN_STARTED" /\ e.history = h
  BY <1>2 DEF RunStarted
<1>4. /\ server = S!Fresh /\ client = C!Fresh /\ streams = <<>> /\ agent \in Agents
      /\ server \in S!Verifier /\ client \in C!Verifier
      /\ Alike(server, client) /\ ~server.ended /\ ~client.started /\ ~client.finished
  BY <1>0, FreshOnes DEF IInv, TypeOK, Alike
<1>5. h = NoOwners /\ h \in Owners /\ e \in Heard
  BY <1>1, <1>2, <1>4, HeardOnes DEF Sorted
<1>6. S!Accepts(server, e) /\ C!Accepts(client, e)
  <2>1. S!Accepts(server, e)
    BY <1>0, <1>3, <1>4 DEF S!Accepts, S!RunRules, S!StreamRules, S!ContinuationRules, S!ScopeRules
  <2>2. C!Accepts(client, e)
    BY <1>3, <1>4 DEF C!Accepts, C!RunRules, C!StreamRules, C!ContinuationRules, C!ScopeRules
  <2> QED BY <2>1, <2>2
<1>7. PICK w : w = S!Fold(server, e)
  OBVIOUS
<1>8. PICK d : d = C!Verify(client, e)
  OBVIOUS
<1>9. Ingest(e) = [ok |-> TRUE, out |-> <<e>>, open |-> <<>>]
  <2>1. N!ObserveExplicit(streams, e) = N!Result(TRUE, <<>>, streams)
    BY <1>3 DEF N!ObserveExplicit
  <2>2. N!Normalize(streams, e) = [ok |-> TRUE, out |-> Append(<<>>, e), open |-> streams]
    BY <1>3, <2>1, Normalized
  <2> QED BY <1>3, <1>4, <2>2 DEF Ingest
<1>10. w.started
  <2>1. w = [server EXCEPT !.started = TRUE, !.owner = S!Seeded(server, e.history, FALSE)]
    BY <1>3, <1>7 DEF S!Fold
  <2> QED BY <1>4, <2>1, Names
<1>11. /\ d.owner = [b \in Buckets |-> [i \in Ids |-> Absent]]
       /\ \A k \in ChunkKinds, i \in Ids : d.open[k][i] = Absent
       /\ d \in C!Verifier
  <2>1. d = [client EXCEPT !.started = TRUE, !.owner = C!Seeded(client, h, FALSE)]
    BY <1>3, <1>6, <1>8 DEF C!Verify, C!Fold
  <2>2. d.owner = C!Seeded(client, h, FALSE) /\ d.open = client.open
    BY <1>4, <2>1, Names
  <2>3. client.owner = NoOwners
    BY <1>4, Names DEF C!Fresh, C!NoOwners, NoOwners
  <2>4. C!Seeded(client, h, FALSE) = [b \in Buckets |-> [i \in Ids |-> Absent]]
    BY <1>5, <2>3, Names DEF C!Seeded, NoOwners
  <2>5. WellFormed(e)
    BY <1>5, HeardIsWellFormed
  <2>6. d \in C!Verifier
    BY <1>4, <1>8, <2>5, ClientTypes
  <2> QED BY <1>4, <2>2, <2>4, <2>6, FreshOnes
<1>12. Fits(agent, d, NewApplier)
  BY <1>4, <1>11, NothingHeld
<1>13. Handled(Line(w, <<>>, client, applier, "ok"), <<e>>) = Line(w, <<>>, d, NewApplier, "ok")
  <2>1. PICK line : line = Line(w, <<>>, client, applier, "ok")
    OBVIOUS
  <2>2. <<e>> \in Seq(Heard) /\ Len(<<e>>) = 1 /\ <<e>>[1] = e /\ 1 \in 1..1 /\ 1 - 1 = 0
    BY <1>5
  <2>3. PICK f : Follows(f, line, <<e>>) /\ Handled(line, <<e>>) = f[Len(<<e>>)]
    BY <2>2, HandledWalks
  <2>4. Handled(line, <<e>>) = Handle(line, e)
    BY <2>2, <2>3 DEF Follows
  <2>5. Apply(applier, e) = Applied(NewApplier)
    BY <1>0, <1>3 DEF Apply
  <2>6. Handle(line, e) = Folded([line EXCEPT !.client = C!Verify(@, e)], e, Apply(applier, e))
    BY <1>6, <2>1 DEF Handle, Line
  <2>7. [line EXCEPT !.client = C!Verify(@, e)] = Line(w, <<>>, d, applier, "ok")
    BY <1>8, <2>1 DEF Line
  <2>8. Folded(Line(w, <<>>, d, applier, "ok"), e, Applied(NewApplier)) =
           Terminated(Line(w, <<>>, d, NewApplier, "ok"), e)
    BY DEF Folded, Line, Applied
  <2>9. Terminated(Line(w, <<>>, d, NewApplier, "ok"), e) = Line(w, <<>>, d, NewApplier, "ok")
    BY <1>3 DEF Terminated
  <2> QED BY <2>1, <2>4, <2>5, <2>6, <2>7, <2>8, <2>9
<1>14. Send(Whole, e) = Line(w, <<>>, d, NewApplier, "ok")
  <2>1. Send(Whole, e) = Settled(Handled(Line(w, Ingest(e).open, client, applier, "ok"), Ingest(e).out), Ingest(e))
    BY <1>0, <1>6, <1>7, SentOn
  <2>2. Ingest(e).ok /\ Ingest(e).open = <<>> /\ Ingest(e).out = <<e>>
    BY <1>9
  <2>3. Send(Whole, e) = Settled(Line(w, <<>>, d, NewApplier, "ok"), Ingest(e))
    BY <1>13, <2>1, <2>2
  <2> QED BY <2>2, <2>3 DEF Settled
<1>15. server' = w /\ streams' = <<>> /\ client' = d /\ applier' = NewApplier /\ verdict' = "ok"
  BY <1>1, <1>2, <1>14 DEF Becomes, Line
<1>16. Deliver(e)
  <2>1. Passes(client, <<e>>, d)
    <3>1. Passes(client, Append(<<>>, e), d)
      BY <1>4, <1>5, <1>6, <1>8, PassesNone, PassesMore
    <3>2. Append(<<>>, e) = <<e>>
      OBVIOUS
    <3> QED BY <3>1, <3>2
  <2>2. Judged(client, <<e>>) = [ok |-> TRUE, client |-> d]
    BY <2>1 DEF Passes
  <2> QED BY <1>9, <1>15, <2>2 DEF Deliver
<1>17. server' = S!Observe(server, e)
  BY <1>6, <1>7, <1>15 DEF S!Observe
<1>18. IInv'
  BY <1>0, <1>2, <1>5, <1>16, <1>17, Starts
<1> QED BY <1>0, <1>10, <1>12, <1>15, <1>18 DEF TInv

-----------------------------------------------------------------------------
(* The theorems *)

\* At every moment of a run the applier's transcript fits the client verifier's account,
\* and that one the producer's.  For agents that keep to Orderly and Sorted.
THEOREM TranscriptConsistent ==
    ASSUME \A a \in Agents : Orderly(a) /\ Sorted(a)
    PROVE  TranscriptSpec => []TInv
<1>1. TranscriptInit => TInv
  <2> SUFFICES ASSUME TranscriptInit PROVE TInv
    OBVIOUS
  <2>1. Init /\ applier = NewApplier
    BY DEF TranscriptInit
  <2>2. TypeOK
    BY <2>1, FreshOnes DEF Init, TypeOK
  <2>3. InFlight(agent, server.open, server.owner, streams, client.open)
    BY <2>1, FreshOnes, NoneInFlight DEF Init
  <2>4. Accord(agent, server, streams, client) /\ ~server.started
    BY <2>1, <2>3, FreshOnes DEF Init, Accord
  <2>5. IInv
    BY <2>1, <2>2, <2>4 DEF Init, IInv, ClientAccepts
  <2> QED BY <2>1, <2>4, <2>5 DEF TInv
<1>2. TInv /\ [TranscriptNext]_transcriptVars => TInv'
  <2> SUFFICES ASSUME TInv, [TranscriptNext]_transcriptVars PROVE TInv'
    OBVIOUS
  <2>1. Orderly(agent) /\ Sorted(agent)
    BY DEF TInv, IInv, TypeOK
  <2>2. CASE BeginBoth
    BY <2>1, <2>2, BothBegin
  <2>3. ASSUME NEW e \in Emits[agent], Utter(e)
        PROVE  TInv'
    BY <2>1, <2>3, Uttered
  <2>4. CASE UNCHANGED transcriptVars
    BY <2>4 DEF transcriptVars, vars, TInv, IInv, TypeOK, ClientAccepts
  <2> QED BY <2>2, <2>3, <2>4 DEF TranscriptNext, Over
<1> QED BY <1>1, <1>2, PTL DEF TranscriptSpec

\* The applier never fails on a stream that both verifiers pass: whatever call, message or
\* activity an event names, it holds (apply.rs, whose errors end the run).
THEOREM VerifiedApplies ==
    ASSUME \A a \in Agents : Orderly(a) /\ Sorted(a)
    PROVE  TranscriptSpec => []VerifiedIsApplied
<1>1. TInv => VerifiedIsApplied
  BY DEF TInv, IInv, TypeOK, ClientAccepts, VerifiedIsApplied
<1> QED BY <1>1, TranscriptConsistent, PTL

\* The transcript attributes every message, call, activity and thought as the verifiers do.
THEOREM TranscriptOwners ==
    ASSUME \A a \in Agents : Orderly(a) /\ Sorted(a)
    PROVE  TranscriptSpec => []OwnersAgree
<1>1. TInv => OwnersAgree
  <2> SUFFICES ASSUME TInv, verdict = "ok" PROVE OwnersAgree
    BY DEF OwnersAgree
  <2>1. CASE ~server.started
    <3>1. applier.messages = <<>> /\ applier.reasoning = <<>>
      BY <2>1 DEF TInv, NewApplier
    <3> QED BY <3>1 DEF OwnersAgree
  <2>2. CASE server.started
    <3>1. /\ Conversation(agent, client.owner, applier.messages, applier.carrier)
          /\ Thoughts(agent, client.owner, client.open, applier.reasoning)
      BY <2>2 DEF TInv, Fits
    <3>2. ASSUME NEW n \in DOMAIN applier.messages, NEW m, m = applier.messages[n]
          PROVE  /\ m.id \notin Ids \/ client.owner[BucketOfRole(m.role)][m.id] \in {Absent, m.owner}
                 /\ \A k \in DOMAIN m.calls : m.owner = client.owner["call"][m.calls[k].id]
      <4>1. Placed(agent, client.owner, m) /\ m \in Msg
        BY <3>1, <3>2 DEF Conversation
      <4>2. m.id \notin Ids \/ client.owner[BucketOfRole(m.role)][m.id] = m.owner
        BY <4>1 DEF Placed
      <4>3. ASSUME NEW k \in DOMAIN m.calls
            PROVE  m.owner = client.owner["call"][m.calls[k].id]
        <5>1. m.calls[k].id \in Ids
          <6>1. m.calls \in Seq(CallRecord)
            BY <4>1, MsgFields
          <6>2. m.calls[k] \in CallRecord
            BY <6>1
          <6> QED BY <6>2 DEF CallRecord
        <5>2. Carries(m, m.calls[k].id)
          BY DEF Carries
        <5> QED BY <4>1, <5>1, <5>2 DEF Placed
      <4> QED BY <4>2, <4>3
    <3>3. \A n \in DOMAIN applier.reasoning :
             applier.reasoning[n].owner = client.owner["reasoning"][applier.reasoning[n].id]
      BY <3>1 DEF Thoughts
    <3> QED BY <3>2, <3>3 DEF OwnersAgree
  <2> QED BY <2>1, <2>2
<1> QED BY <1>1, TranscriptConsistent, PTL

=============================================================================
