----------------------------- MODULE WireProofs -----------------------------
(***************************************************************************)
(* The wire, for any agents that keep to Orderly, any ids, subagents and    *)
(* steps: the server verifier, the chunk normalizer and the client verifier *)
(* keep three accounts of one stream, and they do not drift apart.          *)
(***************************************************************************)
EXTENDS WireAgreement, SequenceTheorems, FiniteSetTheorems, WellFoundedInduction, TLAPS

(***************************************************************************)
(* Induction over the natural numbers, in a form a first-order prover can   *)
(* use: over a set of numbers instead of a predicate.                       *)
(***************************************************************************)

\* A set of numbers has a least one: the intervals below its members are finite sets,
\* and those are well-founded under inclusion.
LEMMA LeastNumber ==
    ASSUME NEW T \in SUBSET Nat, T # {}
    PROVE  \E n \in T : \A m \in T : n <= m
<1> DEFINE Below == {1..n : n \in T}
<1>1. Below \subseteq FiniteSubsetsOf(Nat)
  BY FS_Interval DEF FiniteSubsetsOf
<1>2. PICK least \in Below : \A below \in Below : <<below, least>> \notin StrictSubsetOrdering(Nat)
  <2>1. Below # {}
    OBVIOUS
  <2> HIDE DEF Below
  <2> QED BY <1>1, <2>1, FS_StrictSubsetOrderingWellFounded, WFMin
<1>3. PICK n \in T : least = 1..n
  OBVIOUS
<1>4. ASSUME NEW m \in T, m < n
      PROVE  FALSE
  <2>1. <<1..m, 1..n>> \in StrictSubsetOrdering(Nat)
    BY <1>4 DEF StrictSubsetOrdering
  <2> QED BY <1>2, <1>3, <2>1
<1> QED BY <1>4

\* What holds of zero and of the successor of what it holds of, holds of every number.
LEMMA SetInduction ==
    ASSUME NEW T \in SUBSET Nat, 0 \in T, \A n \in T : n + 1 \in T
    PROVE  T = Nat
<1> SUFFICES ASSUME Nat \ T # {} PROVE FALSE
  OBVIOUS
<1>1. PICK n \in Nat \ T : \A m \in Nat \ T : n <= m
  BY LeastNumber
<1>2. n # 0
  OBVIOUS
<1>3. n - 1 \in Nat /\ n - 1 < n
  BY <1>2
<1>4. n - 1 \in T
  BY <1>1, <1>3
<1>5. (n - 1) + 1 \in T
  BY <1>4
<1> QED BY <1>1, <1>3, <1>5

\* The same up to a number.
LEMMA IntervalInduction ==
    ASSUME NEW top \in Nat, NEW T, 0 \in T, \A n \in 1..top : n - 1 \in T => n \in T
    PROVE  \A n \in 0..top : n \in T
<1> DEFINE Reached == {n \in Nat : n <= top => n \in T}
<1>1. 0 \in Reached
  OBVIOUS
<1>2. ASSUME NEW n \in Reached
      PROVE  n + 1 \in Reached
  <2>1. n \in Nat /\ n + 1 \in Nat /\ (n + 1) - 1 = n
    OBVIOUS
  <2>2. n + 1 <= top => n + 1 \in 1..top /\ n \in T
    BY <2>1
  <2>3. n + 1 <= top => n + 1 \in T
    BY <2>1, <2>2
  <2> QED BY <2>1, <2>3
<1>3. Reached = Nat
  <2> HIDE DEF Reached
  <2>1. Reached \in SUBSET Nat
    BY DEF Reached
  <2> QED BY <1>1, <1>2, <2>1, SetInduction
<1> QED BY <1>3

\* f is the recursive function over the numbers up to `top` whose n-th value is made of
\* the one before by the n-th of the functions in `follow`.
Recurs(f, A, start, follow, top) ==
    /\ f \in [0..top -> A] /\ f[0] = start
    /\ \A n \in 1..top : f[n] = follow[n][f[n - 1]]

\* There is one.
LEMMA Recursion ==
    ASSUME NEW A, NEW start \in A, NEW top \in Nat, NEW follow \in [1..top -> [A -> A]]
    PROVE  \E f : Recurs(f, A, start, follow, top)
<1> DEFINE Upto(f, k) == /\ f \in [0..k -> A] /\ f[0] = start
                         /\ \A n \in 1..k : f[n] = follow[n][f[n - 1]]
           Reached == {k \in Nat : k <= top => \E f : Upto(f, k)}
<1>1. 0 \in Reached
  <2>1. Upto([n \in 0..0 |-> start], 0)
    OBVIOUS
  <2> QED BY <2>1
<1>2. ASSUME NEW k \in Reached
      PROVE  k + 1 \in Reached
  <2> HIDE DEF Upto
  <2> SUFFICES ASSUME k + 1 <= top PROVE \E f : Upto(f, k + 1)
    OBVIOUS
  <2> USE DEF Upto
  <2>1. k \in Nat /\ k <= top /\ \A n \in 1..k : n - 1 \in 0..k /\ n \in 0..k
    OBVIOUS
  <2>2. PICK f : Upto(f, k)
    BY <2>1
  <2> DEFINE g == [n \in 0..(k + 1) |-> IF n <= k THEN f[n] ELSE follow[k + 1][f[k]]]
  <2>3. f[k] \in A /\ follow[k + 1] \in [A -> A]
    BY <2>1, <2>2
  <2>4. g \in [0..(k + 1) -> A] /\ g[0] = start
    BY <2>1, <2>2, <2>3
  <2>5. \A n \in 1..(k + 1) : g[n] = follow[n][g[n - 1]]
    <3> SUFFICES ASSUME NEW n \in 1..(k + 1) PROVE g[n] = follow[n][g[n - 1]]
      OBVIOUS
    <3>1. g[n - 1] = f[n - 1]
      BY <2>1
    <3>2. CASE n <= k
      BY <2>1, <2>2, <3>1, <3>2
    <3>3. CASE n = k + 1
      BY <2>1, <3>1, <3>3
    <3> QED BY <2>1, <3>2, <3>3
  <2>6. Upto(g, k + 1)
    BY <2>4, <2>5
  <2> HIDE DEF Upto
  <2> QED BY <2>6
<1>3. top \in Reached
  <2> HIDE DEF Reached
  <2>1. Reached \in SUBSET Nat
    BY DEF Reached
  <2> QED BY <1>1, <1>2, <2>1, SetInduction
<1> QED BY <1>3 DEF Recurs

USE EventsAssumption, WireAssumption

\* Some bracketed event is about this stream; some chunk names it under this tag.
Bracketed(a, k, i) == \E f \in Emits[a] : f.type \in Streaming /\ f.kind = k /\ f.id = i
Chunked(a, k, i, g) == \E f \in Emits[a] : Named(f) /\ f.kind = k /\ f.id = i /\ f.tag = g

\* A stream in flight is open at the consumer for its owner; one that is owed its END
\* comes from chunks, and the producer knows its owner.
Entry(a, owner, seen, s) ==
    /\ seen[s.kind][s.id] # Absent /\ Agrees(s.owner, seen[s.kind][s.id])
    /\ s.owed => /\ Chunked(a, s.kind, s.id, s.owner)
                 /\ owner[BucketOf(s.kind)][s.id] # Absent
                 /\ Agrees(s.owner, owner[BucketOf(s.kind)][s.id])
    /\ ~s.owed => Bracketed(a, s.kind, s.id)

\* The normalizer's list as a set: an owner has one stream, so nothing is lost.
Single(open) == \A m, n \in DOMAIN open : open[m].owner = open[n].owner => m = n
Listed(open) == {open[n] : n \in DOMAIN open}
Owes(some, k, i) == \E s \in some : s.kind = k /\ s.id = i /\ s.owed

\* What is in flight between a producer that holds `held` open, a normalizer and a
\* consumer that has `seen` open: what the producer holds open is bracketed and open
\* at the consumer, and the rest there is owed an END.
InFlight(a, held, owner, open, seen) ==
    /\ Single(open)
    /\ \A s \in Listed(open) : Entry(a, owner, seen, s)
    /\ \A k \in Kinds, i \in Ids : held[k][i] # Absent => Bracketed(a, k, i)
    /\ \A k \in ChunkKinds, i \in Ids : held[k][i] # Absent => seen[k][i] = held[k][i]
    /\ \A k \in ChunkKinds, i \in Ids :
          seen[k][i] # Absent => held[k][i] # Absent \/ Owes(Listed(open), k, i)
    /\ \A i \in Ids : held["block"][i] # Absent => owner["reasoning"][i] = held["block"][i]

\* The two verifiers agree on all but what is open.
Alike(v, c) ==
    /\ v.started = c.started /\ v.ended = c.finished /\ v.owner = c.owner
    /\ v.steps = c.steps /\ v.active = c.subagents /\ v.closed = c.closed

Accord(a, v, open, c) ==
    Alike(v, c) /\ (~v.ended => InFlight(a, v.open, v.owner, open, c.open))

IInv ==
    /\ TypeOK
    /\ ClientAccepts
    /\ ~server.started =>
          verdict = "ok" /\ server = S!Fresh /\ streams = <<>> /\ client = C!Fresh
    /\ verdict = "ok" => Accord(agent, server, streams, client)

-----------------------------------------------------------------------------
(* Types *)

\* Which ids are open, and for whom.
OpenOf(kinds) == [kinds -> [Ids -> Owner \cup {Absent}]]

\* The three modules' names for one thing.
LEMMA Names ==
    /\ S!Verifier = [started : BOOLEAN, ended : BOOLEAN, open : OpenOf(Kinds), owner : Owners,
                     steps : SUBSET (Owner \X StepNames), active : SUBSET Subagents,
                     closed : SUBSET Subagents]
    /\ C!Verifier = [started : BOOLEAN, finished : BOOLEAN, open : OpenOf(ChunkKinds), owner : Owners,
                     steps : SUBSET (Owner \X StepNames), subagents : SUBSET Subagents,
                     closed : SUBSET Subagents]
    /\ N!Stream = [kind : ChunkKinds, id : Ids, owed : BOOLEAN, owner : Owner]
    /\ S!Absent = Absent /\ C!Absent = Absent
    /\ S!Kinds = Kinds /\ S!ChunkKinds = ChunkKinds /\ C!ChunkKinds = ChunkKinds
    /\ S!Buckets = Buckets /\ C!Buckets = Buckets
    /\ \A k : S!BucketOf(k) = BucketOf(k) /\ C!BucketOf(k) = BucketOf(k)
    /\ \A g, o : (S!Agrees(g, o) <=> Agrees(g, o)) /\ (C!Agrees(g, o) <=> Agrees(g, o))
BY DEF S!Verifier, C!Verifier, N!Stream, OpenOf, S!Kinds, C!ChunkKinds, S!ChunkKinds, N!ChunkKinds,
       S!Absent, C!Absent, S!Owner, C!Owner, N!Owner, S!Owners, C!Owners, S!Buckets, C!Buckets,
       S!BucketOf, C!BucketOf, S!Agrees, C!Agrees,
       Kinds, ChunkKinds, Absent, Owner, Owners, Buckets, BucketOf, Agrees

\* What the proofs use of Events' definitions.
LEMMA Vocabulary ==
    /\ None \in Owner /\ None \notin Ids /\ Absent \notin Owner /\ Subagents \subseteq Owner
    /\ ChunkKinds = {"text", "tool", "reasoning"} /\ Kinds = ChunkKinds \cup {"block"}
    /\ "block" \notin ChunkKinds
    /\ \A k \in Kinds : BucketOf(k) \in Buckets
    /\ BucketOf("text") = "message" /\ BucketOf("tool") = "call"
    /\ BucketOf("reasoning") = "reasoning" /\ BucketOf("block") = "reasoning"
    /\ \A k, l \in ChunkKinds : BucketOf(k) = BucketOf(l) => k = l
    /\ Buckets = {"message", "reasoning", "call", "activity"}
    /\ Owners = [Buckets -> [Ids -> Owner \cup {Absent}]]
BY DEF Owner, ChunkKinds, Kinds, BucketOf, Buckets, Owners

\* Every event an agent emits, and every event the normalizer makes.
Opening(k, i, g, p) == [type |-> "START", kind |-> k, id |-> i, tag |-> g, parent |-> p]
Emitted == UNION {Emits[a] : a \in Agents}
Echoes == {RunStarted(h) : h \in Owners}
Openings == {Opening(t[1], t[2], t[3], t[4]) : t \in ChunkKinds \X Ids \X Owner \X (Ids \cup {None})}
Contents == {Content(t[1], t[2], t[3]) : t \in ChunkKinds \X Ids \X Owner}
Endings == {End(t[1], t[2], t[3]) : t \in ChunkKinds \X Ids \X Owner}
Heard == Emitted \cup Echoes \cup Openings \cup Contents \cup Endings

\* All of them are well formed.
LEMMA HeardIsWellFormed ==
    ASSUME NEW e \in Heard
    PROVE  WellFormed(e)
<1>1. e \in Emitted => WellFormed(e)
  BY DEF Emitted
<1>2. e \in Echoes => WellFormed(e)
  BY DEF Echoes, RunStarted, WellFormed
<1>3. e \in Openings => WellFormed(e)
  BY Vocabulary DEF Openings, Opening, WellFormed
<1>4. e \in Contents => WellFormed(e)
  BY Vocabulary DEF Contents, Content, WellFormed
<1>5. e \in Endings => WellFormed(e)
  BY Vocabulary DEF Endings, End, WellFormed
<1> QED BY <1>1, <1>2, <1>3, <1>4, <1>5 DEF Heard

\* Which events are heard.
LEMMA HeardOnes ==
    /\ \A a \in Agents : Emits[a] \subseteq Heard
    /\ \A h \in Owners : RunStarted(h) \in Heard
    /\ \A k \in ChunkKinds, i \in Ids, g \in Owner :
          /\ Content(k, i, g) \in Heard /\ End(k, i, g) \in Heard
          /\ \A p \in Ids \cup {None} : Opening(k, i, g, p) \in Heard
<1>1. \A a \in Agents : Emits[a] \subseteq Emitted
  BY DEF Emitted
<1>2. \A h \in Owners : RunStarted(h) \in Echoes
  BY DEF Echoes
<1>3. ASSUME NEW k \in ChunkKinds, NEW i \in Ids, NEW g \in Owner
      PROVE  /\ Content(k, i, g) \in Contents /\ End(k, i, g) \in Endings
             /\ \A p \in Ids \cup {None} : Opening(k, i, g, p) \in Openings
  <2>1. <<k, i, g>> \in ChunkKinds \X Ids \X Owner
    OBVIOUS
  <2>2. Content(k, i, g) \in Contents /\ End(k, i, g) \in Endings
    BY <2>1 DEF Contents, Endings
  <2>3. ASSUME NEW p \in Ids \cup {None}
        PROVE  Opening(k, i, g, p) \in Openings
    <3>1. <<k, i, g, p>> \in ChunkKinds \X Ids \X Owner \X (Ids \cup {None})
      OBVIOUS
    <3> QED BY <3>1 DEF Openings
  <2> QED BY <2>2, <2>3
<1> QED BY <1>1, <1>2, <1>3 DEF Heard

-----------------------------------------------------------------------------
(* The rules of the two sides *)

\* The rules of ownership are the same on both sides.
LEMMA SameRules ==
    ASSUME NEW v, NEW c, v.owner = c.owner, NEW e, NEW f,
           e.kind = f.kind, e.id = f.id, e.tag = f.tag, e.parent = f.parent
    PROVE  /\ S!MayOwn(v, e) <=> C!MayOwn(c, f)
           /\ S!OwnerOf(v, e) = C!OwnerOf(c, f)
<1>1. S!MayClaim(v, e) <=> C!ExpectOwner(C!Recorded(c, f), f.tag)
  BY Names DEF S!MayClaim, C!ExpectOwner, C!Recorded
<1>2. S!Claimed(v, e) = C!Claimed(c, f)
  BY Names DEF S!Claimed, C!Claimed, C!Recorded
<1>3. S!Inherited(v, e) = C!Carrier(c, f)
  BY Names DEF S!Inherited, C!Carrier
<1>4. S!Asserted(v, e) = C!Asserted(c, f)
  BY <1>3 DEF S!Asserted, C!Asserted
<1>5. S!MayOwnCall(v, e) <=> C!MayOwnCall(c, f)
  BY <1>3, <1>4, Names DEF S!MayOwnCall, C!MayOwnCall, C!ExpectOwner
<1>6. S!CallOwner(v, e) = C!CallOwner(c, f)
  BY <1>4, Names DEF S!CallOwner, C!CallOwner
<1> QED BY <1>1, <1>2, <1>5, <1>6 DEF S!MayOwn, C!MayOwn, S!OwnerOf, C!OwnerOf

\* A replayed conversation seeds both sides alike.
LEMMA SameSeeds ==
    ASSUME NEW v, NEW c, v.owner = c.owner, v.owner \in Owners, NEW h \in Owners, NEW b \in BOOLEAN
    PROVE  S!Seeded(v, h, b) = C!Seeded(c, h, b) /\ C!Seeded(c, h, b) \in Owners
<1>1. S!Seeded(v, h, b) = C!Seeded(c, h, b)
  BY Names DEF S!Seeded, C!Seeded
<1>2. C!Seeded(c, h, b) \in Owners
  BY Names, Vocabulary DEF C!Seeded
<1> QED BY <1>1, <1>2

\* What an owner comes to: an agreeing tag, if there is one, and the recorded owner is
\* not given up.
LEMMA OwnerFacts ==
    ASSUME NEW v, v.owner \in Owners, NEW e, e.kind \in Kinds, e.id \in Ids, e.tag \in Owner,
           e.kind = "tool" => e.parent \in Ids \cup {None}
    PROVE  /\ S!OwnerOf(v, e) \in Owner
           /\ S!MayOwn(v, e) /\ e.tag # None => S!OwnerOf(v, e) = e.tag
           /\ S!MayOwn(v, e) /\ v.owner[BucketOf(e.kind)][e.id] # Absent =>
                 S!OwnerOf(v, e) = v.owner[BucketOf(e.kind)][e.id]
<1> DEFINE recorded == v.owner[BucketOf(e.kind)][e.id]
<1>1. recorded \in Owner \cup {Absent} /\ None \in Owner /\ Absent \notin Owner
  BY Vocabulary
<1>2. CASE e.kind # "tool"
  <2>1. S!OwnerOf(v, e) = IF recorded = Absent THEN e.tag ELSE recorded
    BY <1>2, Names DEF S!OwnerOf, S!Claimed
  <2>2. S!MayOwn(v, e) => recorded = Absent \/ Agrees(e.tag, recorded)
    BY <1>2, Names DEF S!MayOwn, S!MayClaim
  <2> QED BY <1>1, <2>1, <2>2 DEF Agrees
<1>3. CASE e.kind = "tool"
  <2> DEFINE carrier == S!Inherited(v, e)
             asserted == S!Asserted(v, e)
  <2>1. recorded = v.owner["call"][e.id]
    BY <1>3, Vocabulary
  <2>2. carrier \in Owner \cup {Absent}
    BY <1>3, Names, Vocabulary DEF S!Inherited
  <2>3. asserted = IF e.tag # None THEN e.tag ELSE carrier
    BY DEF S!Asserted
  <2>4. S!OwnerOf(v, e) = IF asserted # Absent THEN asserted ELSE IF recorded # Absent THEN recorded ELSE None
    BY <1>3, <2>1, Names DEF S!OwnerOf, S!CallOwner
  <2>5. S!MayOwn(v, e) => \/ asserted = Absent \/ recorded = Absent \/ asserted = recorded
    BY <1>3, <2>1, Names DEF S!MayOwn, S!MayOwnCall
  <2> HIDE DEF recorded, carrier, asserted
  <2>6. /\ S!OwnerOf(v, e) \in Owner
        /\ S!MayOwn(v, e) /\ e.tag # None => S!OwnerOf(v, e) = e.tag
        /\ S!MayOwn(v, e) /\ recorded # Absent => S!OwnerOf(v, e) = recorded
    BY <1>1, <2>2, <2>3, <2>4, <2>5
  <2> QED BY <2>6 DEF recorded
<1> QED BY <1>2, <1>3

\* The consumer's rules, in a run under way.
LEMMA ClientJudges ==
    ASSUME NEW c, c.started, ~c.finished, NEW e, e.type # "RUN_STARTED"
    PROVE  /\ e.type = "START" =>
                 (C!Accepts(c, e) <=> /\ C!MayOwn(c, e)
                                      /\ e.kind = "block" \/ c.open[e.kind][e.id] = Absent)
           /\ e.type \in {"CONTENT", "END"} /\ e.kind # "block" =>
                 (C!Accepts(c, e) <=> /\ c.open[e.kind][e.id] # Absent
                                      /\ Agrees(e.tag, c.open[e.kind][e.id]))
           /\ e.type = "END" /\ e.kind = "block" =>
                 (C!Accepts(c, e) <=> C!ExpectOwner(C!Recorded(c, e), e.tag))
           /\ e.type = "TOOL_CALL_RESULT" => (C!Accepts(c, e) <=> c.open["tool"][e.call] = Absent)
           /\ e.type = "RUN_FINISHED" => (C!Accepts(c, e) <=> C!AllClosed(c))
           /\ e.type \notin {"START", "CONTENT", "END", "TOOL_CALL_RESULT", "RUN_FINISHED"} =>
                 (C!Accepts(c, e) <=> C!ContinuationRules(c, e) /\ C!ScopeRules(c, e))
<1> USE DEF C!Accepts, C!RunRules, C!StreamRules
<1>1. CASE e.type = "START"
  BY <1>1, Names DEF C!ContinuationRules, C!ScopeRules, C!IsOpen
<1>2. CASE e.type \in {"CONTENT", "END"}
  BY <1>2, Names DEF C!ContinuationRules, C!ScopeRules, C!IsOpen
<1>3. CASE e.type = "TOOL_CALL_RESULT"
  BY <1>3, Names DEF C!ContinuationRules, C!ScopeRules, C!IsOpen
<1>4. CASE e.type = "RUN_FINISHED"
  BY <1>4 DEF C!ContinuationRules, C!ScopeRules
<1>5. CASE e.type \notin {"START", "CONTENT", "END", "TOOL_CALL_RESULT", "RUN_FINISHED"}
  BY <1>5
<1> QED BY <1>1, <1>2, <1>3, <1>4, <1>5

\* One entry of what is open is rewritten, and no other changes.
LEMMA Rewritten ==
    ASSUME NEW kinds, NEW f \in OpenOf(kinds), NEW k \in kinds, NEW i \in Ids,
           NEW x \in Owner \cup {Absent}
    PROVE  /\ [f EXCEPT ![k][i] = x] \in OpenOf(kinds)
           /\ \A l \in kinds, j \in Ids :
                 [f EXCEPT ![k][i] = x][l][j] = IF l = k /\ j = i THEN x ELSE f[l][j]
BY DEF OpenOf

\* So is one of the owners.
LEMMA OwnersRewritten ==
    ASSUME NEW f \in Owners, NEW b \in Buckets, NEW i \in Ids, NEW x \in Owner
    PROVE  /\ [f EXCEPT ![b][i] = x] \in Owners
           /\ \A d \in Buckets, j \in Ids :
                 [f EXCEPT ![b][i] = x][d][j] = IF d = b /\ j = i THEN x ELSE f[d][j]
BY DEF Owners

\* The fields of a verifier at the consumer, one at a time.
LEMMA ClientFields ==
    ASSUME NEW c \in C!Verifier
    PROVE  /\ c.started \in BOOLEAN /\ c.finished \in BOOLEAN
           /\ c.open \in OpenOf(ChunkKinds) /\ c.owner \in Owners
           /\ c.steps \subseteq Owner \X StepNames
           /\ c.subagents \subseteq Subagents /\ c.closed \subseteq Subagents
           /\ [c EXCEPT !.started = TRUE] \in C!Verifier
           /\ [c EXCEPT !.finished = TRUE] \in C!Verifier
           /\ \A f \in OpenOf(ChunkKinds) : [c EXCEPT !.open = f] \in C!Verifier
           /\ \A f \in Owners : [c EXCEPT !.owner = f] \in C!Verifier
           /\ \A f \in SUBSET (Owner \X StepNames) : [c EXCEPT !.steps = f] \in C!Verifier
BY Names

\* d is c but for what is open and who owns what.
Turns(c, d, open, owner) ==
    /\ d \in C!Verifier /\ d.open = open /\ d.owner = owner
    /\ d.started = c.started /\ d.finished = c.finished
    /\ d.steps = c.steps /\ d.subagents = c.subagents /\ d.closed = c.closed

\* What the consumer makes of the events it accepts, first those about streams.
LEMMA ClientOwners ==
    ASSUME NEW c \in C!Verifier, NEW e, WellFormed(e), e.type = "START"
    PROVE  /\ e.kind \in Kinds /\ e.id \in Ids /\ C!OwnerOf(c, e) \in Owner
           /\ [c.owner EXCEPT ![BucketOf(e.kind)][e.id] = C!OwnerOf(c, e)] \in Owners
<1> DEFINE o == C!OwnerOf(c, e)
<1>0. c.owner \in Owners
  BY ClientFields
<1>1. e.kind \in Kinds /\ e.id \in Ids /\ e.tag \in Owner /\ e.parent \in Ids \cup {None}
  BY DEF WellFormed
<1>2. S!OwnerOf(c, e) \in Owner
  BY <1>0, <1>1, OwnerFacts
<1>3. S!OwnerOf(c, e) = o
  BY SameRules
<1>4. BucketOf(e.kind) \in Buckets
  BY <1>1, Vocabulary
<1> HIDE DEF o
<1>5. o \in Owner /\ [c.owner EXCEPT ![BucketOf(e.kind)][e.id] = o] \in Owners
  BY <1>0, <1>1, <1>2, <1>3, <1>4, OwnersRewritten
<1> QED BY <1>1, <1>5 DEF o

\* A START opens the stream and gives the id its owner.
LEMMA ClientStarts ==
    ASSUME NEW c \in C!Verifier, NEW e, WellFormed(e), C!Accepts(c, e), e.type = "START", e.kind # "block"
    PROVE  Turns(c, C!Verify(c, e), [c.open EXCEPT ![e.kind][e.id] = C!OwnerOf(c, e)],
                 [c.owner EXCEPT ![BucketOf(e.kind)][e.id] = C!OwnerOf(c, e)])
<1> DEFINE o == C!OwnerOf(c, e)
           open == [c.open EXCEPT ![e.kind][e.id] = o]
           owner == [c.owner EXCEPT ![BucketOf(e.kind)][e.id] = o]
<1>1. C!Verify(c, e) = [c EXCEPT !.open[e.kind][e.id] = o, !.owner[BucketOf(e.kind)][e.id] = o]
  BY Names DEF C!Verify, C!Fold
<1>2. e.kind \in ChunkKinds /\ e.id \in Ids /\ o \in Owner /\ owner \in Owners
  BY ClientOwners, Vocabulary
<1> HIDE DEF o
<1>3. open \in OpenOf(ChunkKinds)
  BY <1>2, ClientFields, Rewritten
<1>4. C!Verify(c, e) = [c EXCEPT !.open = open, !.owner = owner]
  BY <1>1
<1> HIDE DEF open, owner
<1>5. Turns(c, C!Verify(c, e), open, owner)
  BY <1>2, <1>3, <1>4, Names DEF Turns
<1> QED BY <1>5 DEF o, open, owner

\* That of a reasoning block gives the id its owner only.
LEMMA ClientBlocks ==
    ASSUME NEW c \in C!Verifier, NEW e, WellFormed(e), C!Accepts(c, e), e.type = "START", e.kind = "block"
    PROVE  Turns(c, C!Verify(c, e), c.open, [c.owner EXCEPT !["reasoning"][e.id] = C!OwnerOf(c, e)])
<1> DEFINE o == C!OwnerOf(c, e)
           owner == [c.owner EXCEPT !["reasoning"][e.id] = o]
<1>1. C!Verify(c, e) = [c EXCEPT !.owner["reasoning"][e.id] = o]
  BY DEF C!Verify, C!Fold
<1>2. owner \in Owners
  BY ClientOwners, Vocabulary
<1> HIDE DEF o
<1>3. C!Verify(c, e) = [c EXCEPT !.owner = owner]
  BY <1>1
<1> HIDE DEF owner
<1>4. Turns(c, C!Verify(c, e), c.open, owner)
  BY <1>2, <1>3, Names DEF Turns
<1> QED BY <1>4 DEF o, owner

\* An END closes the stream.
LEMMA ClientEnds ==
    ASSUME NEW c \in C!Verifier, NEW e, WellFormed(e), C!Accepts(c, e), e.type = "END", e.kind # "block"
    PROVE  Turns(c, C!Verify(c, e), [c.open EXCEPT ![e.kind][e.id] = Absent], c.owner)
<1> DEFINE open == [c.open EXCEPT ![e.kind][e.id] = Absent]
<1>1. C!Verify(c, e) = [c EXCEPT !.open[e.kind][e.id] = Absent]
  BY Names DEF C!Verify, C!Fold
<1>2. e.kind \in ChunkKinds /\ e.id \in Ids
  BY Vocabulary DEF WellFormed
<1>3. open \in OpenOf(ChunkKinds)
  BY <1>2, ClientFields, Rewritten
<1>4. C!Verify(c, e) = [c EXCEPT !.open = open]
  BY <1>1
<1> HIDE DEF open
<1>5. Turns(c, C!Verify(c, e), open, c.owner)
  BY <1>3, <1>4, Names DEF Turns
<1> QED BY <1>5 DEF open

\* A CONTENT, and a block's END, leave no trace.
LEMMA ClientStays ==
    ASSUME NEW c \in C!Verifier, NEW e, C!Accepts(c, e), e.type = "CONTENT" \/ (e.type = "END" /\ e.kind = "block")
    PROVE  C!Verify(c, e) = c
BY DEF C!Verify, C!Fold

\* A result owns its message.
LEMMA ClientAnswers ==
    ASSUME NEW c \in C!Verifier, NEW e, WellFormed(e), C!Accepts(c, e), e.type = "TOOL_CALL_RESULT"
    PROVE  Turns(c, C!Verify(c, e), c.open, [c.owner EXCEPT !["message"][e.id] = e.tag])
<1> DEFINE owner == [c.owner EXCEPT !["message"][e.id] = e.tag]
<1>1. C!Verify(c, e) = [c EXCEPT !.owner["message"][e.id] = e.tag]
  BY DEF C!Verify, C!Fold
<1>2. e.id \in Ids /\ e.tag \in Owner
  BY DEF WellFormed
<1>3. owner \in Owners
  <2>1. "message" \in Buckets /\ c.owner \in Owners
    BY ClientFields, Vocabulary
  <2> QED BY <1>2, <2>1, OwnersRewritten
<1>4. C!Verify(c, e) = [c EXCEPT !.owner = owner]
  BY <1>1
<1> HIDE DEF owner
<1>5. Turns(c, C!Verify(c, e), c.open, owner)
  BY <1>3, <1>4, Names DEF Turns
<1> QED BY <1>5 DEF owner

\* Whatever it hears, accepted or not, it stays a verifier.
LEMMA ClientTypes ==
    ASSUME NEW c \in C!Verifier, NEW e, WellFormed(e)
    PROVE  C!Verify(c, e) \in C!Verifier
<1> SUFFICES ASSUME C!Accepts(c, e) PROVE C!Verify(c, e) \in C!Verifier
  BY ClientFields DEF C!Verify
<1>0. c.open \in OpenOf(ChunkKinds) /\ c.owner \in Owners
  BY ClientFields
<1>1. CASE e.type = "START"
  BY <1>1, ClientStarts, ClientBlocks DEF Turns
<1>2. CASE e.type \in {"CONTENT", "END"}
  BY <1>2, ClientEnds, ClientStays DEF Turns
<1>3. CASE e.type = "TOOL_CALL_RESULT"
  BY <1>3, ClientAnswers DEF Turns
<1>4. CASE e.type \in {"RUN_FINISHED", "RUN_ERROR"}
  <2>1. C!Verify(c, e) = [c EXCEPT !.finished = TRUE]
    BY <1>4 DEF C!Verify, C!Fold
  <2> QED BY <2>1, ClientFields
<1>5. CASE e.type \notin {"START", "CONTENT", "END", "TOOL_CALL_RESULT", "RUN_FINISHED", "RUN_ERROR"}
  <2> SUFFICES C!Fold(c, e) \in C!Verifier
    BY DEF C!Verify
  <2>1. CASE e.type = "RUN_STARTED"
    <3>1. C!Seeded(c, e.history, FALSE) \in Owners
      BY <2>1, ClientFields, SameSeeds DEF WellFormed
    <3>2. C!Fold(c, e) = [c EXCEPT !.started = TRUE, !.owner = C!Seeded(c, e.history, FALSE)]
      BY <2>1 DEF C!Fold
    <3> QED BY <3>1, <3>2, Names
  <2>2. CASE e.type = "MESSAGES_SNAPSHOT"
    <3>1. C!Seeded(c, e.history, TRUE) \in Owners
      BY <2>2, ClientFields, SameSeeds DEF WellFormed
    <3>2. C!Fold(c, e) = [c EXCEPT !.owner = C!Seeded(c, e.history, TRUE)]
      BY <2>2 DEF C!Fold
    <3> QED BY <3>1, <3>2, ClientFields
  <2>3. CASE e.type = "ACTIVITY_SNAPSHOT"
    <3>1. e.id \in Ids /\ e.tag \in Owner
      BY <2>3 DEF WellFormed
    <3>2. [c.owner EXCEPT !["activity"][e.id] = e.tag] \in Owners
      BY <1>0, <3>1, OwnersRewritten, Vocabulary
    <3>3. C!Fold(c, e) \in {c, [c EXCEPT !.owner["activity"][e.id] = e.tag]}
      BY <2>3 DEF C!Fold
    <3> QED BY <3>2, <3>3, ClientFields
  <2>4. CASE e.type \in {"STEP_STARTED", "STEP_FINISHED"}
    <3>1. <<e.tag, e.name>> \in Owner \X StepNames
      BY <2>4 DEF WellFormed
    <3>2. C!Fold(c, e) \in {[c EXCEPT !.steps = @ \cup {<<e.tag, e.name>>}],
                           [c EXCEPT !.steps = @ \ {<<e.tag, e.name>>}]}
      BY <2>4 DEF C!Fold
    <3> DEFINE u == c.steps \cup {<<e.tag, e.name>>}
               w == c.steps \ {<<e.tag, e.name>>}
    <3>3. u \in SUBSET (Owner \X StepNames) /\ w \in SUBSET (Owner \X StepNames)
      BY <3>1, ClientFields
    <3>4. C!Fold(c, e) \in {[c EXCEPT !.steps = u], [c EXCEPT !.steps = w]}
      BY <3>2
    <3> HIDE DEF u, w
    <3>5. [c EXCEPT !.steps = u] \in C!Verifier /\ [c EXCEPT !.steps = w] \in C!Verifier
      BY <3>3, ClientFields
    <3> QED BY <3>4, <3>5
  <2>5. CASE e.type \in {"SUBAGENT_STARTED", "SUBAGENT_FINISHED", "SUBAGENT_ERROR"}
    <3>1. e.id \in Subagents
      BY <2>5 DEF WellFormed
    <3>2. C!Fold(c, e) \in {[c EXCEPT !.subagents = @ \cup {e.id}],
                           [c EXCEPT !.subagents = @ \ {e.id}, !.closed = @ \cup {e.id}]}
      BY <2>5 DEF C!Fold
    <3> DEFINE u == c.subagents \cup {e.id}
               w == c.subagents \ {e.id}
               x == c.closed \cup {e.id}
    <3>3. u \in SUBSET Subagents /\ w \in SUBSET Subagents /\ x \in SUBSET Subagents
      BY <3>1, ClientFields
    <3>4. C!Fold(c, e) \in {[c EXCEPT !.subagents = u], [c EXCEPT !.subagents = w, !.closed = x]}
      BY <3>2
    <3> HIDE DEF u, w, x
    <3>5. [c EXCEPT !.subagents = u] \in C!Verifier
      BY <3>3, Names
    <3>6. [c EXCEPT !.subagents = w, !.closed = x] \in C!Verifier
      BY <3>3, Names
    <3> QED BY <3>4, <3>5, <3>6
  <2>6. CASE e.type \notin {"RUN_STARTED", "MESSAGES_SNAPSHOT", "ACTIVITY_SNAPSHOT", "STEP_STARTED",
                          "STEP_FINISHED", "SUBAGENT_STARTED", "SUBAGENT_FINISHED", "SUBAGENT_ERROR"}
    BY <1>5, <2>6 DEF C!Fold
  <2> QED BY <2>1, <2>2, <2>3, <2>4, <2>5, <2>6
<1> QED BY <1>1, <1>2, <1>3, <1>4, <1>5

-----------------------------------------------------------------------------
(* The producer *)

\* The fields of a verifier at the producer, one at a time.
LEMMA ServerFields ==
    ASSUME NEW v \in S!Verifier
    PROVE  /\ v.started \in BOOLEAN /\ v.ended \in BOOLEAN
           /\ v.open \in OpenOf(Kinds) /\ v.owner \in Owners
           /\ v.steps \subseteq Owner \X StepNames
           /\ v.active \subseteq Subagents /\ v.closed \subseteq Subagents
           /\ [v EXCEPT !.started = TRUE] \in S!Verifier
           /\ [v EXCEPT !.ended = TRUE] \in S!Verifier
           /\ \A f \in OpenOf(Kinds) : [v EXCEPT !.open = f] \in S!Verifier
           /\ \A f \in Owners : [v EXCEPT !.owner = f] \in S!Verifier
           /\ \A f \in SUBSET (Owner \X StepNames) : [v EXCEPT !.steps = f] \in S!Verifier
BY Names

\* w is v but for what is open and who owns what.
Proceeds(v, w, open, owner) ==
    /\ w \in S!Verifier /\ w.open = open /\ w.owner = owner
    /\ w.started = v.started /\ w.ended = v.ended
    /\ w.steps = v.steps /\ w.active = v.active /\ w.closed = v.closed

\* An id that is claimed gets an owner.
LEMMA ServerOwners ==
    ASSUME NEW v \in S!Verifier, NEW e, WellFormed(e),
           e.type = "START" \/ Named(e)
    PROVE  /\ e.kind \in Kinds /\ e.id \in Ids /\ S!OwnerOf(v, e) \in Owner
           /\ [v.owner EXCEPT ![BucketOf(e.kind)][e.id] = S!OwnerOf(v, e)] \in Owners
<1> DEFINE o == S!OwnerOf(v, e)
<1>0. v.owner \in Owners
  BY ServerFields
<1>1. e.kind \in Kinds /\ e.id \in Ids /\ e.tag \in Owner /\ e.parent \in Ids \cup {None}
  BY Vocabulary DEF WellFormed, Named
<1>2. o \in Owner
  BY <1>0, <1>1, OwnerFacts
<1>3. BucketOf(e.kind) \in Buckets
  BY <1>1, Vocabulary
<1> HIDE DEF o
<1>4. o \in Owner /\ [v.owner EXCEPT ![BucketOf(e.kind)][e.id] = o] \in Owners
  BY <1>0, <1>1, <1>2, <1>3, OwnersRewritten
<1> QED BY <1>1, <1>4 DEF o

\* What the producer makes of the events it accepts, first those about streams: what
\* x a stream is open for afterwards, and whom its id belongs to.
LEMMA ServerOpens ==
    ASSUME NEW v \in S!Verifier, NEW e, WellFormed(e), e.type = "START" \/ Named(e),
           NEW x \in Owner \cup {Absent}, x = IF e.type = "START" THEN S!OwnerOf(v, e) ELSE Absent
    PROVE  Proceeds(v, S!Fold(v, e), [v.open EXCEPT ![e.kind][e.id] = x],
                    [v.owner EXCEPT ![BucketOf(e.kind)][e.id] = S!OwnerOf(v, e)])
<1> DEFINE o == S!OwnerOf(v, e)
           open == [v.open EXCEPT ![e.kind][e.id] = x]
           owner == [v.owner EXCEPT ![BucketOf(e.kind)][e.id] = o]
<1>1. S!Fold(v, e) = [v EXCEPT !.open[e.kind][e.id] = x, !.owner[BucketOf(e.kind)][e.id] = o]
  BY Names DEF S!Fold, Named
<1>2. e.kind \in Kinds /\ e.id \in Ids /\ o \in Owner /\ owner \in Owners
  BY ServerOwners
<1> HIDE DEF o
<1>3. open \in OpenOf(Kinds)
  BY <1>2, ServerFields, Rewritten
<1>4. S!Fold(v, e) = [v EXCEPT !.open = open, !.owner = owner]
  BY <1>1
<1> HIDE DEF open, owner
<1>5. Proceeds(v, S!Fold(v, e), open, owner)
  BY <1>2, <1>3, <1>4, Names DEF Proceeds
<1> QED BY <1>5 DEF o, open, owner

\* An END closes the stream.
LEMMA ServerEnds ==
    ASSUME NEW v \in S!Verifier, NEW e, WellFormed(e), e.type = "END"
    PROVE  Proceeds(v, S!Fold(v, e), [v.open EXCEPT ![e.kind][e.id] = Absent], v.owner)
<1> DEFINE open == [v.open EXCEPT ![e.kind][e.id] = Absent]
<1>1. S!Fold(v, e) = [v EXCEPT !.open[e.kind][e.id] = Absent]
  BY Names DEF S!Fold
<1>2. e.kind \in Kinds /\ e.id \in Ids
  BY DEF WellFormed
<1>3. open \in OpenOf(Kinds)
  BY <1>2, ServerFields, Rewritten
<1>4. S!Fold(v, e) = [v EXCEPT !.open = open]
  BY <1>1
<1> HIDE DEF open
<1>5. Proceeds(v, S!Fold(v, e), open, v.owner)
  BY <1>3, <1>4, Names DEF Proceeds
<1> QED BY <1>5 DEF open

\* A CONTENT, and a chunk without an id, leave no trace.
LEMMA ServerStays ==
    ASSUME NEW v \in S!Verifier, NEW e, e.type = "CONTENT" \/ (e.type = "CHUNK" /\ ~Named(e))
    PROVE  S!Fold(v, e) = v
BY DEF S!Fold, Named

\* A result owns its message.
LEMMA ServerAnswers ==
    ASSUME NEW v \in S!Verifier, NEW e, WellFormed(e), e.type = "TOOL_CALL_RESULT"
    PROVE  Proceeds(v, S!Fold(v, e), v.open, [v.owner EXCEPT !["message"][e.id] = e.tag])
<1> DEFINE owner == [v.owner EXCEPT !["message"][e.id] = e.tag]
<1>1. S!Fold(v, e) = [v EXCEPT !.owner["message"][e.id] = e.tag]
  BY DEF S!Fold
<1>2. e.id \in Ids /\ e.tag \in Owner
  BY DEF WellFormed
<1>3. owner \in Owners
  <2>1. "message" \in Buckets /\ v.owner \in Owners
    BY ServerFields, Vocabulary
  <2> QED BY <1>2, <2>1, OwnersRewritten
<1>4. S!Fold(v, e) = [v EXCEPT !.owner = owner]
  BY <1>1
<1> HIDE DEF owner
<1>5. Proceeds(v, S!Fold(v, e), v.open, owner)
  BY <1>3, <1>4, Names DEF Proceeds
<1> QED BY <1>5 DEF owner

\* A refused chunk of an id may have been taken off the open ones.
LEMMA ServerRefuses ==
    ASSUME NEW v \in S!Verifier, NEW e, WellFormed(e)
    PROVE  \/ S!Residue(v, e) = v
           \/ /\ Named(e) /\ e.kind \in Kinds /\ e.id \in Ids
              /\ Proceeds(v, S!Residue(v, e), [v.open EXCEPT ![e.kind][e.id] = Absent], v.owner)
<1> SUFFICES ASSUME Named(e), S!Residue(v, e) = [v EXCEPT !.open[e.kind][e.id] = Absent]
             PROVE  /\ e.kind \in Kinds /\ e.id \in Ids
                    /\ Proceeds(v, S!Residue(v, e), [v.open EXCEPT ![e.kind][e.id] = Absent], v.owner)
  BY Names DEF S!Residue, Named
<1> DEFINE open == [v.open EXCEPT ![e.kind][e.id] = Absent]
<1>1. e.kind \in Kinds /\ e.id \in Ids
  BY Vocabulary DEF WellFormed, Named
<1>2. open \in OpenOf(Kinds)
  BY <1>1, ServerFields, Rewritten
<1>3. S!Residue(v, e) = [v EXCEPT !.open = open]
  OBVIOUS
<1> HIDE DEF open
<1>4. Proceeds(v, S!Residue(v, e), open, v.owner)
  BY <1>2, <1>3, Names DEF Proceeds
<1> QED BY <1>1, <1>4 DEF open

-----------------------------------------------------------------------------
(* The events about neither streams nor the run's end *)

Unstreamed(e) == e.type \notin {"START", "CONTENT", "END", "CHUNK", "TOOL_CALL_RESULT", "RUN_FINISHED"}

\* They leave what is open alone, and both sides make the same of them; only a restated
\* conversation changes who owns a stream's id.
Together(v, w, c, d) ==
    /\ w \in S!Verifier /\ d \in C!Verifier
    /\ w.open = v.open /\ d.open = c.open /\ Alike(w, d)

\* What the producer accepts of these, the consumer accepts.
LEMMA UnstreamedPass ==
    ASSUME NEW v \in S!Verifier, NEW c \in C!Verifier, Alike(v, c), v.started,
           NEW e, Unstreamed(e), S!Accepts(v, e)
    PROVE  C!Accepts(c, e)
<1>1. ~c.finished /\ c.started /\ e.type # "RUN_STARTED"
  BY DEF S!Accepts, S!RunRules, Alike
<1>2. C!ContinuationRules(c, e)
  <2>1. S!EncryptedOwner(v, e) = C!EncryptedOwner(c, e)
    BY Names DEF S!EncryptedOwner, C!EncryptedOwner, Alike
  <2> QED BY <2>1, Names DEF S!Accepts, S!ContinuationRules, C!ContinuationRules, C!ExpectOwner, Alike, Unstreamed
<1>3. C!ScopeRules(c, e)
  BY DEF S!Accepts, S!ScopeRules, C!ScopeRules, Alike
<1> QED BY <1>1, <1>2, <1>3, ClientJudges DEF Unstreamed

\* Only RUN_ERROR ends the run, and a restated conversation renames only whom it names.
LEMMA UnstreamedFold ==
    ASSUME NEW v \in S!Verifier, NEW c \in C!Verifier, Alike(v, c), v.started,
           NEW e, WellFormed(e), Unstreamed(e), S!Accepts(v, e)
    PROVE  /\ Together(v, S!Fold(v, e), c, C!Verify(c, e))
           /\ S!Fold(v, e).started
           /\ S!Fold(v, e).ended <=> e.type = "RUN_ERROR"
           /\ \A k \in Kinds, i \in Ids :
                 \/ S!Fold(v, e).owner[BucketOf(k)][i] = v.owner[BucketOf(k)][i]
                 \/ e.type = "MESSAGES_SNAPSHOT" /\ e.history[BucketOf(k)][i] # Absent
<1> DEFINE w == S!Fold(v, e)
           d == C!Fold(c, e)
           Known == \A k \in Kinds, i \in Ids :
                       \/ w.owner[BucketOf(k)][i] = v.owner[BucketOf(k)][i]
                       \/ e.type = "MESSAGES_SNAPSHOT" /\ e.history[BucketOf(k)][i] # Absent
<1>1. C!Verify(c, e) = d
  BY UnstreamedPass DEF C!Verify
<1>2. e.type # "RUN_STARTED" /\ ~v.ended
  BY DEF S!Accepts, S!RunRules
<1>3. v.owner \in Owners /\ c.owner \in Owners
  BY ServerFields, ClientFields
<1> SUFFICES Together(v, w, c, d) /\ w.started /\ (w.ended <=> e.type = "RUN_ERROR") /\ Known
  BY <1>1
<1>4. CASE e.type = "RUN_ERROR"
  <2>1. w = [v EXCEPT !.ended = TRUE] /\ d = [c EXCEPT !.finished = TRUE]
    BY <1>4 DEF S!Fold, C!Fold
  <2> HIDE DEF w, d
  <2>2. w \in S!Verifier /\ d \in C!Verifier
    BY <2>1, ServerFields, ClientFields
  <2>3. Together(v, w, c, d)
    BY <2>1, <2>2, Names DEF Together, Alike
  <2> QED BY <1>4, <2>1, <2>3, Names
<1>5. CASE e.type = "MESSAGES_SNAPSHOT"
  <2> DEFINE owner == C!Seeded(c, e.history, TRUE)
  <2>1. S!Seeded(v, e.history, TRUE) = owner /\ owner \in Owners
    <3>1. e.history \in Owners /\ v.owner = c.owner
      BY <1>5 DEF WellFormed, Alike
    <3> QED BY <1>3, <3>1, SameSeeds
  <2>2. w = [v EXCEPT !.owner = owner] /\ d = [c EXCEPT !.owner = owner]
    BY <1>5, <2>1 DEF S!Fold, C!Fold
  <2>3. \A b \in Buckets, i \in Ids : owner[b][i] = c.owner[b][i] \/ e.history[b][i] # Absent
    BY Names DEF C!Seeded
  <2> HIDE DEF w, d, owner
  <2>4. w \in S!Verifier /\ d \in C!Verifier
    BY <2>1, <2>2, ServerFields, ClientFields
  <2>5. Together(v, w, c, d)
    BY <2>2, <2>4, Names DEF Together, Alike
  <2>6. w.owner = owner /\ w.started = v.started /\ w.ended = v.ended
    BY <2>2, Names
  <2>7. Known
    <3>1. \A k \in Kinds : BucketOf(k) \in Buckets
      BY Vocabulary
    <3>2. v.owner = c.owner
      BY DEF Alike
    <3> QED BY <1>5, <2>3, <2>6, <3>1, <3>2
  <2> QED BY <1>2, <1>5, <2>5, <2>6, <2>7
<1>6. CASE e.type = "ACTIVITY_SNAPSHOT"
  <2> DEFINE owner == [v.owner EXCEPT !["activity"][e.id] = e.tag]
  <2>1. e.id \in Ids /\ e.tag \in Owner /\ "activity" \in Buckets
    BY <1>6, Vocabulary DEF WellFormed
  <2>2. \/ w = v /\ d = c
        \/ w = [v EXCEPT !.owner = owner] /\ d = [c EXCEPT !.owner = owner]
    BY <1>6, Names DEF S!Fold, C!Fold, Alike
  <2>3. owner \in Owners /\ \A k \in Kinds, i \in Ids : owner[BucketOf(k)][i] = v.owner[BucketOf(k)][i]
    BY <1>3, <2>1, OwnersRewritten, Vocabulary
  <2> HIDE DEF w, d, owner
  <2>4. w \in S!Verifier /\ d \in C!Verifier
    BY <2>2, <2>3, Names
  <2>5. Together(v, w, c, d)
    BY <2>2, <2>4, Names DEF Together, Alike
  <2>6. w.owner \in {owner, v.owner} /\ w.started = v.started /\ w.ended = v.ended
    BY <2>2, Names
  <2> QED BY <1>2, <1>6, <2>3, <2>5, <2>6
<1>7. CASE e.type \in {"STEP_STARTED", "STEP_FINISHED"}
  <2> DEFINE more == v.steps \cup {<<e.tag, e.name>>}
             fewer == v.steps \ {<<e.tag, e.name>>}
  <2>1. <<e.tag, e.name>> \in Owner \X StepNames
    BY <1>7 DEF WellFormed
  <2>2. more \in SUBSET (Owner \X StepNames) /\ fewer \in SUBSET (Owner \X StepNames)
    BY <2>1, ServerFields
  <2>3. \/ w = [v EXCEPT !.steps = more] /\ d = [c EXCEPT !.steps = more]
        \/ w = [v EXCEPT !.steps = fewer] /\ d = [c EXCEPT !.steps = fewer]
    BY <1>7 DEF S!Fold, C!Fold, Alike
  <2> HIDE DEF w, d, more, fewer
  <2>4. w \in S!Verifier /\ d \in C!Verifier
    BY <2>2, <2>3, Names
  <2>5. Together(v, w, c, d)
    BY <2>3, <2>4, Names DEF Together, Alike
  <2>6. w.owner = v.owner /\ w.started = v.started /\ w.ended = v.ended
    BY <2>3, Names
  <2> QED BY <1>2, <1>7, <2>5, <2>6
<1>8. CASE e.type \in {"SUBAGENT_STARTED", "SUBAGENT_FINISHED", "SUBAGENT_ERROR"}
  <2> DEFINE more == v.active \cup {e.id}
             fewer == v.active \ {e.id}
             over == v.closed \cup {e.id}
  <2>1. e.id \in Subagents
    BY <1>8 DEF WellFormed
  <2>2. more \in SUBSET Subagents /\ fewer \in SUBSET Subagents /\ over \in SUBSET Subagents
    BY <2>1, ServerFields
  <2>3. \/ w = [v EXCEPT !.active = more] /\ d = [c EXCEPT !.subagents = more]
        \/ /\ w = [v EXCEPT !.active = fewer, !.closed = over]
           /\ d = [c EXCEPT !.subagents = fewer, !.closed = over]
    BY <1>8 DEF S!Fold, C!Fold, Alike
  <2> HIDE DEF w, d, more, fewer, over
  <2>4. w \in S!Verifier /\ d \in C!Verifier
    BY <2>2, <2>3, Names
  <2>5. Together(v, w, c, d)
    BY <2>3, <2>4, Names DEF Together, Alike
  <2>6. w.owner = v.owner /\ w.started = v.started /\ w.ended = v.ended
    BY <2>3, Names
  <2> QED BY <1>2, <1>8, <2>5, <2>6
<1>9. CASE e.type \notin {"RUN_ERROR", "MESSAGES_SNAPSHOT", "ACTIVITY_SNAPSHOT", "STEP_STARTED",
                        "STEP_FINISHED", "SUBAGENT_STARTED", "SUBAGENT_FINISHED", "SUBAGENT_ERROR"}
  <2>1. w = v /\ d = c
    BY <1>2, <1>9 DEF S!Fold, C!Fold, Unstreamed
  <2> HIDE DEF w, d
  <2> QED BY <1>2, <1>9, <2>1 DEF Together
<1> QED BY <1>4, <1>5, <1>6, <1>7, <1>8, <1>9

-----------------------------------------------------------------------------
(* The normalizer's list *)

\* The set holds what the list holds.
LEMMA ListedOnes ==
    ASSUME NEW open \in Seq(N!Stream)
    PROVE  /\ Listed(open) \subseteq N!Stream
           /\ \A n \in DOMAIN open : open[n] \in Listed(open)
           /\ \A s \in Listed(open) : \E n \in DOMAIN open : s = open[n]
           /\ Single(open) => \A s, t \in Listed(open) : s.owner = t.owner => s = t
BY DEF Listed, Single

\* The fields of a stream in flight.
LEMMA ListedFields ==
    ASSUME NEW open \in Seq(N!Stream), NEW s \in Listed(open)
    PROVE  s.kind \in ChunkKinds /\ s.id \in Ids /\ s.owner \in Owner /\ s.owed \in BOOLEAN
<1>1. s \in N!Stream
  BY ListedOnes
<1> QED BY <1>1, Names

\* A search by owner, or by kind and id, finds a stream if there is one.
LEMMA OwnerFound ==
    ASSUME NEW open \in Seq(N!Stream), NEW g
    PROVE  \/ N!OfOwner(open, g) = 0 /\ \A s \in Listed(open) : s.owner # g
           \/ N!OfOwner(open, g) \in DOMAIN open /\ open[N!OfOwner(open, g)].owner = g
<1> DEFINE I == {n \in 1..Len(open) : open[n].owner = g}
<1>1. N!OfOwner(open, g) = IF I # {} THEN N!Min(I) ELSE 0
  BY DEF N!OfOwner, N!SelectInSeq
<1>2. I # {} => N!Min(I) \in I
  <2>1. I \in SUBSET Nat
    OBVIOUS
  <2> HIDE DEF I
  <2>2. I # {} => \E n \in I : \A m \in I : n <= m
    BY <2>1, LeastNumber
  <2> QED BY <2>2 DEF N!Min
<1> QED BY <1>1, <1>2 DEF Listed

\* The same for kind and id.
LEMMA IdFound ==
    ASSUME NEW open \in Seq(N!Stream), NEW k, NEW i
    PROVE  \/ N!OfId(open, k, i) = 0 /\ \A s \in Listed(open) : ~(s.kind = k /\ s.id = i)
           \/ /\ N!OfId(open, k, i) \in DOMAIN open
              /\ open[N!OfId(open, k, i)].kind = k /\ open[N!OfId(open, k, i)].id = i
<1> DEFINE I == {n \in 1..Len(open) : open[n].kind = k /\ open[n].id = i}
<1>1. N!OfId(open, k, i) = IF I # {} THEN N!Min(I) ELSE 0
  BY DEF N!OfId, N!SelectInSeq
<1>2. I # {} => N!Min(I) \in I
  <2>1. I \in SUBSET Nat
    OBVIOUS
  <2> HIDE DEF I
  <2>2. I # {} => \E n \in I : \A m \in I : n <= m
    BY <2>1, LeastNumber
  <2> QED BY <2>2 DEF N!Min
<1> QED BY <1>1, <1>2 DEF Listed

\* A stream under an owner that had none is added.
LEMMA Appended ==
    ASSUME NEW open \in Seq(N!Stream), Single(open), NEW s \in N!Stream,
           \A t \in Listed(open) : t.owner # s.owner
    PROVE  /\ Append(open, s) \in Seq(N!Stream) /\ Single(Append(open, s))
           /\ Listed(Append(open, s)) = Listed(open) \cup {s}
<1>1. Append(open, s) \in Seq(N!Stream) /\ DOMAIN Append(open, s) = 1..(Len(open) + 1)
  OBVIOUS
<1>2. \A n \in DOMAIN open : Append(open, s)[n] = open[n]
  OBVIOUS
<1>3. Append(open, s)[Len(open) + 1] = s /\ DOMAIN open = 1..Len(open)
  OBVIOUS
<1> DEFINE app == Append(open, s)
<1> HIDE DEF app
<1>4. app \in Seq(N!Stream) /\ DOMAIN app = 1..(Len(open) + 1)
  BY <1>1 DEF app
<1>5. /\ \A n \in DOMAIN open : app[n] = open[n]
      /\ app[Len(open) + 1] = s /\ DOMAIN open = 1..Len(open)
  BY <1>2, <1>3 DEF app
<1>6. Len(open) \in Nat /\ \A n \in DOMAIN app : n \in DOMAIN open \/ n = Len(open) + 1
  BY <1>4, <1>5
<1>7. \A n \in DOMAIN open : n \in DOMAIN app /\ open[n].owner # s.owner
  BY <1>4, <1>5 DEF Listed
<1>8. Single(app)
  BY <1>5, <1>6, <1>7 DEF Single
<1>9. Listed(app) = Listed(open) \cup {s}
  <2>1. Len(open) + 1 \in DOMAIN app
    BY <1>4, <1>6
  <2> QED BY <1>5, <1>6, <1>7, <2>1 DEF Listed
<1> QED BY <1>1, <1>8, <1>9 DEF app

\* One stream is taken out by its index.
LEMMA Removed ==
    ASSUME NEW open \in Seq(N!Stream), Single(open), NEW n \in DOMAIN open
    PROVE  /\ N!RemoveAt(open, n) \in Seq(N!Stream) /\ Single(N!RemoveAt(open, n))
           /\ Listed(N!RemoveAt(open, n)) = Listed(open) \ {open[n]}
<1> DEFINE L == Len(open)
           from(m) == IF m < n THEN m ELSE m + 1
           r == N!RemoveAt(open, n)
<1>1. L \in Nat /\ n \in 1..L /\ DOMAIN open = 1..L
  OBVIOUS
<1>2. r \in Seq(N!Stream) /\ Len(r) = L - 1 /\ \A m \in 1..(L - 1) : r[m] = open[from(m)]
  <2>1. /\ SubSeq(open, 1, n - 1) \in Seq(N!Stream) /\ Len(SubSeq(open, 1, n - 1)) = n - 1
        /\ \A m \in 1..(n - 1) : SubSeq(open, 1, n - 1)[m] = open[m]
    BY <1>1, SubSeqProperties
  <2>2. /\ SubSeq(open, n + 1, L) \in Seq(N!Stream) /\ Len(SubSeq(open, n + 1, L)) = L - n
        /\ \A m \in 1..(L - n) : SubSeq(open, n + 1, L)[m] = open[m + n]
    BY <1>1, SubSeqProperties
  <2>3. r = SubSeq(open, 1, n - 1) \o SubSeq(open, n + 1, L)
    BY DEF N!RemoveAt
  <2> DEFINE front == SubSeq(open, 1, n - 1)
             back == SubSeq(open, n + 1, L)
  <2> HIDE DEF r, front, back
  <2> USE DEF front, back
  <2>4. /\ front \in Seq(N!Stream) /\ Len(front) = n - 1 /\ back \in Seq(N!Stream)
        /\ Len(back) = L - n /\ r = front \o back
    BY <2>1, <2>2, <2>3
  <2>5. \A m \in 1..(n - 1) : front[m] = open[m]
    BY <2>1
  <2>6. \A m \in 1..(L - n) : back[m] = open[m + n]
    BY <2>2
  <2> HIDE DEF front, back
  <2>7. /\ r \in Seq(N!Stream) /\ Len(r) = L - 1
        /\ \A m \in 1..Len(r) : r[m] = IF m <= n - 1 THEN front[m] ELSE back[m - (n - 1)]
    <3>1. Len(front) + Len(back) = L - 1 /\ L - 1 \in Nat
      BY <1>1, <2>4
    <3>2. /\ front \o back \in Seq(N!Stream) /\ Len(front \o back) = Len(front) + Len(back)
          /\ \A m \in 1..(Len(front) + Len(back)) :
                (front \o back)[m] = IF m <= Len(front) THEN front[m] ELSE back[m - Len(front)]
      BY <2>4, ConcatProperties
    <3>3. r \in Seq(N!Stream) /\ Len(r) = L - 1
      BY <2>4, <3>1, <3>2
    <3>4. \A m \in 1..(L - 1) : r[m] = IF m <= n - 1 THEN front[m] ELSE back[m - (n - 1)]
      BY <2>4, <3>1, <3>2
    <3> QED BY <3>3, <3>4
  <2>8. ASSUME NEW m \in 1..(L - 1)
        PROVE  r[m] = open[from(m)]
    <3>1. CASE m < n
      BY <1>1, <2>7, <2>5, <3>1
    <3>2. CASE m >= n
      <4>1. r[m] = back[m - (n - 1)] /\ m - (n - 1) \in 1..(L - n)
        BY <1>1, <2>7, <3>2
      <4> QED BY <1>1, <2>6, <3>2, <4>1
    <3> QED BY <1>1, <3>1, <3>2
  <2> QED BY <2>7, <2>8
<1> HIDE DEF r
<1>3. DOMAIN r = 1..(L - 1) /\ \A m \in 1..(L - 1) : from(m) \in 1..L /\ from(m) # n
  BY <1>1, <1>2
<1>4. \A m, p \in 1..(L - 1) : from(m) = from(p) => m = p
  BY <1>1
<1>5. \A p \in 1..L : p # n => \E m \in 1..(L - 1) : from(m) = p
  <2> SUFFICES ASSUME NEW p \in 1..L, p # n PROVE \E m \in 1..(L - 1) : from(m) = p
    OBVIOUS
  <2>1. CASE p < n
    BY <1>1, <2>1
  <2>2. CASE p > n
    <3>1. p - 1 \in 1..(L - 1) /\ from(p - 1) = p
      BY <1>1, <2>2
    <3> QED BY <3>1
  <2> QED BY <1>1, <2>1, <2>2
<1> HIDE DEF from
<1>6. Single(r)
  BY <1>1, <1>2, <1>3, <1>4 DEF Single
<1>7. Listed(r) = Listed(open) \ {open[n]}
  <2>1. \A p \in 1..L : p # n => open[p] # open[n]
    BY <1>1 DEF Single
  <2>2. \A s \in Listed(r) : s \in Listed(open) /\ s # open[n]
    BY <1>1, <1>2, <1>3, <2>1 DEF Listed
  <2>3. \A p \in 1..L : p # n => open[p] \in Listed(r)
    BY <1>2, <1>3, <1>5 DEF Listed
  <2> QED BY <1>1, <2>2, <2>3 DEF Listed
<1> QED BY <1>2, <1>6, <1>7 DEF r

-----------------------------------------------------------------------------
(* The three recursive walks: what each step of them makes of the one before *)

Judges(f, c, xs) ==
    /\ f[0] = [ok |-> TRUE, client |-> c]
    /\ \A n \in 1..Len(xs) : f[n] = Judge(f[n - 1], xs[n])

\* RunStream's loop over the events of one ingest.
LEMMA JudgedWalks ==
    ASSUME NEW c \in C!Verifier, NEW xs \in Seq(Heard)
    PROVE  \E f : Judges(f, c, xs) /\ Judged(c, xs) = f[Len(xs)]
<1> DEFINE A == [ok : BOOLEAN, client : C!Verifier]
           start == [ok |-> TRUE, client |-> c]
           follow == [n \in 1..Len(xs) |-> [j \in A |-> Judge(j, xs[n])]]
           Walk(f) == f = [n \in 0..Len(xs) |->
                              IF n = 0 THEN start ELSE Judge(f[n - 1], xs[n])]
<1>1. Len(xs) \in Nat /\ \A n \in 1..Len(xs) : xs[n] \in Heard /\ n - 1 \in 0..Len(xs) /\ n # 0
  OBVIOUS
<1>2. follow \in [1..Len(xs) -> [A -> A]]
  <2> SUFFICES ASSUME NEW n \in 1..Len(xs), NEW j \in A
               PROVE  Judge(j, xs[n]) \in A
    OBVIOUS
  <2>1. WellFormed(xs[n])
    BY <1>1, HeardIsWellFormed
  <2>2. j.client \in C!Verifier /\ j.ok \in BOOLEAN
    OBVIOUS
  <2>3. C!Verify(j.client, xs[n]) \in C!Verifier
    BY <2>1, <2>2, ClientTypes
  <2>4. C!Accepts(j.client, xs[n]) \in BOOLEAN
    BY DEF C!Accepts
  <2>5. [ok |-> C!Accepts(j.client, xs[n]), client |-> C!Verify(j.client, xs[n])] \in A
    BY <2>3, <2>4, Zenon
  <2> HIDE DEF A
  <2> QED BY <2>5 DEF Judge
<1>3. PICK f : Recurs(f, A, start, follow, Len(xs))
  <2>1. start \in A
    OBVIOUS
  <2> HIDE DEF A, start, follow
  <2> QED BY <1>1, <1>2, <2>1, Recursion
<1>4. Walk(f)
  <2>1. f \in [0..Len(xs) -> A] /\ f[0] = start
    BY <1>3 DEF Recurs
  <2>2. \A n \in 1..Len(xs) : f[n] = Judge(f[n - 1], xs[n])
    <3> SUFFICES ASSUME NEW n \in 1..Len(xs) PROVE f[n] = Judge(f[n - 1], xs[n])
      OBVIOUS
    <3>1. f[n] = follow[n][f[n - 1]] /\ f[n - 1] \in A
      BY <1>1, <1>3 DEF Recurs
    <3> HIDE DEF A
    <3> QED BY <3>1
  <2>3. \A n \in 0..Len(xs) : n # 0 => n \in 1..Len(xs)
    BY <1>1
  <2> HIDE DEF A, start, follow
  <2> QED BY <2>1, <2>2, <2>3
<1> DEFINE g == CHOOSE walk : Walk(walk)
<1>5. Judged(c, xs) = g[Len(xs)]
  BY DEF Judged
<1>6. Walk(g)
  <2> HIDE DEF Walk
  <2> QED BY <1>4
<1> HIDE DEF g
<1>7. Judges(g, c, xs)
  <2>1. 0 \in 0..Len(xs) /\ \A n \in 1..Len(xs) : n \in 0..Len(xs) /\ n # 0
    BY <1>1
  <2>2. g[0] = start
    BY <1>6, <2>1, Zenon
  <2>3. ASSUME NEW n \in 1..Len(xs)
        PROVE  g[n] = Judge(g[n - 1], xs[n])
    BY <1>6, <2>1, Zenon
  <2> QED BY <2>2, <2>3 DEF Judges
<1> QED BY <1>5, <1>7

\* Of no events, nothing comes.
LEMMA JudgedNone ==
    ASSUME NEW c \in C!Verifier
    PROVE  Judged(c, <<>>) = [ok |-> TRUE, client |-> c]
<1>1. <<>> \in Seq(Heard) /\ Len(<<>>) = 0
  OBVIOUS
<1>2. PICK f : Judges(f, c, <<>>) /\ Judged(c, <<>>) = f[Len(<<>>)]
  BY <1>1, JudgedWalks
<1> QED BY <1>1, <1>2 DEF Judges

\* Each event is judged after those before it.
LEMMA JudgedMore ==
    ASSUME NEW c \in C!Verifier, NEW xs \in Seq(Heard), NEW e \in Heard
    PROVE  Judged(c, Append(xs, e)) = Judge(Judged(c, xs), e)
<1> DEFINE L == Len(xs)
           ys == Append(xs, e)
<1>1. /\ L \in Nat /\ ys \in Seq(Heard) /\ Len(ys) = L + 1
      /\ \A n \in 1..L : ys[n] = xs[n] /\ n \in 1..(L + 1)
      /\ ys[L + 1] = e /\ L + 1 \in 1..(L + 1) /\ (L + 1) - 1 = L /\ L \in 0..L
  OBVIOUS
<1>2. PICK f : Judges(f, c, xs) /\ Judged(c, xs) = f[L]
  BY JudgedWalks
<1> HIDE DEF ys
<1>3. PICK g : Judges(g, c, ys) /\ Judged(c, ys) = g[L + 1]
  BY <1>1, JudgedWalks
<1>4. \A n \in 0..L : f[n] = g[n]
  <2>1. f[0] = g[0]
    BY <1>2, <1>3 DEF Judges
  <2>2. \A n \in 1..L : f[n - 1] = g[n - 1] => f[n] = g[n]
    BY <1>1, <1>2, <1>3 DEF Judges
  <2> DEFINE T == {n \in 0..L : f[n] = g[n]}
  <2>3. 0 \in T
    BY <1>1, <2>1
  <2>4. \A n \in 1..L : n - 1 \in T => n \in T
    BY <1>1, <2>2
  <2>5. \A n \in 0..L : n \in T
    <3> HIDE DEF T
    <3> QED BY <1>1, <2>3, <2>4, IntervalInduction
  <2> QED BY <2>5
<1>5. g[L + 1] = Judge(g[L], e)
  BY <1>1, <1>3 DEF Judges
<1> QED BY <1>1, <1>2, <1>3, <1>4, <1>5 DEF ys

\* The consumer takes all of some events, and is d then.
Passes(c, xs, d) ==
    /\ xs \in Seq(Heard) /\ d \in C!Verifier
    /\ Judged(c, xs) = [ok |-> TRUE, client |-> d]

\* It takes no events as it is.
LEMMA PassesNone ==
    ASSUME NEW c \in C!Verifier
    PROVE  Passes(c, <<>>, c)
BY JudgedNone DEF Passes

\* One more that it accepts is taken too.
LEMMA PassesMore ==
    ASSUME NEW c \in C!Verifier, NEW xs, NEW d, Passes(c, xs, d), NEW e \in Heard, C!Accepts(d, e)
    PROVE  Passes(c, Append(xs, e), C!Verify(d, e))
<1>1. Judged(c, Append(xs, e)) = Judge([ok |-> TRUE, client |-> d], e)
  BY JudgedMore DEF Passes
<1>2. Judge([ok |-> TRUE, client |-> d], e) = [ok |-> C!Accepts(d, e), client |-> C!Verify(d, e)]
  BY DEF Judge
<1>3. C!Accepts(d, e) = TRUE
  BY DEF C!Accepts
<1>4. C!Verify(d, e) \in C!Verifier
  BY HeardIsWellFormed, ClientTypes DEF Passes
<1> QED BY <1>1, <1>2, <1>3, <1>4 DEF Passes

\* The ENDs of a list, one stream after the other.
Settles(f, open) ==
    /\ f[0] = <<>>
    /\ \A n \in 1..Len(open) : f[n] = f[n - 1] \o N!Settle(open[n])

\* The END owed for a stream, or nothing.
LEMMA SettleHeard ==
    ASSUME NEW s \in N!Stream
    PROVE  /\ N!Settle(s) \in Seq(Heard)
           /\ s.owed => /\ N!Settle(s) = <<End(s.kind, s.id, s.owner)>>
                        /\ End(s.kind, s.id, s.owner) \in Heard
           /\ ~s.owed => N!Settle(s) = <<>>
<1>1. s.kind \in ChunkKinds /\ s.id \in Ids /\ s.owner \in Owner
  BY Names
<1>2. End(s.kind, s.id, s.owner) \in Heard
  BY <1>1, HeardOnes
<1>3. N!Settle(s) = IF s.owed THEN <<End(s.kind, s.id, s.owner)>> ELSE <<>>
  BY DEF N!Settle, N!End, End
<1> QED BY <1>2, <1>3

\* CloseAll settles the streams in the order of the list.
LEMMA SettledAll ==
    ASSUME NEW open \in Seq(N!Stream)
    PROVE  \E f : /\ Settles(f, open) /\ N!CloseAll(open) = N!Result(TRUE, f[Len(open)], <<>>)
                  /\ \A n \in 0..Len(open) : f[n] \in Seq(Heard)
<1> DEFINE A == Seq(Heard)
           follow == [n \in 1..Len(open) |-> [xs \in A |-> xs \o N!Settle(open[n])]]
           Walk(f) == f = [n \in 0..Len(open) |->
                              IF n = 0 THEN <<>> ELSE f[n - 1] \o N!Settle(open[n])]
<1>1. /\ Len(open) \in Nat
      /\ \A n \in 1..Len(open) : open[n] \in N!Stream /\ n - 1 \in 0..Len(open) /\ n # 0
  OBVIOUS
<1>2. follow \in [1..Len(open) -> [A -> A]]
  <2> SUFFICES ASSUME NEW n \in 1..Len(open), NEW xs \in A
               PROVE  xs \o N!Settle(open[n]) \in A
    OBVIOUS
  <2>1. N!Settle(open[n]) \in Seq(Heard)
    BY <1>1, SettleHeard
  <2> QED BY <2>1, ConcatProperties
<1>3. PICK f : Recurs(f, A, <<>>, follow, Len(open))
  <2>1. <<>> \in A
    OBVIOUS
  <2> HIDE DEF A, follow
  <2> QED BY <1>1, <1>2, <2>1, Recursion
<1>4. f \in [0..Len(open) -> A] /\ f[0] = <<>> /\ \A n \in 1..Len(open) : f[n] = f[n - 1] \o N!Settle(open[n])
  <2>1. f \in [0..Len(open) -> A] /\ f[0] = <<>>
    BY <1>3 DEF Recurs
  <2>2. ASSUME NEW n \in 1..Len(open)
        PROVE  f[n] = f[n - 1] \o N!Settle(open[n])
    <3>1. f[n] = follow[n][f[n - 1]] /\ f[n - 1] \in A
      BY <1>1, <1>3 DEF Recurs
    <3> HIDE DEF A
    <3> QED BY <3>1
  <2> QED BY <2>1, <2>2
<1>5. Walk(f)
  <2>1. \A n \in 0..Len(open) : n # 0 => n \in 1..Len(open)
    BY <1>1
  <2> HIDE DEF A
  <2> QED BY <1>4, <2>1
<1> DEFINE g == CHOOSE walk : Walk(walk)
<1>6. N!CloseAll(open) = N!Result(TRUE, g[Len(open)], <<>>)
  BY DEF N!CloseAll
<1>7. Walk(g)
  <2> HIDE DEF Walk
  <2> QED BY <1>5
<1> HIDE DEF g
<1>8. Settles(g, open)
  <2>1. 0 \in 0..Len(open) /\ \A n \in 1..Len(open) : n \in 0..Len(open) /\ n # 0
    BY <1>1
  <2>2. g[0] = <<>>
    BY <1>7, <2>1, Zenon
  <2>3. ASSUME NEW n \in 1..Len(open)
        PROVE  g[n] = g[n - 1] \o N!Settle(open[n])
    BY <1>7, <2>1, Zenon
  <2> QED BY <2>2, <2>3 DEF Settles
<1>9. \A n \in 0..Len(open) : g[n] \in A
  <2> DEFINE T == {n \in 0..Len(open) : g[n] \in A}
  <2>1. 0 \in T
    <3>1. g[0] = <<>> /\ <<>> \in A /\ 0 \in 0..Len(open)
      BY <1>1, <1>8 DEF Settles
    <3> QED BY <3>1
  <2>2. ASSUME NEW n \in 1..Len(open), n - 1 \in T
        PROVE  n \in T
    <3>1. N!Settle(open[n]) \in Seq(Heard)
      BY <1>1, SettleHeard
    <3>2. g[n - 1] \o N!Settle(open[n]) \in A
      BY <2>2, <3>1, ConcatProperties
    <3>3. g[n] = g[n - 1] \o N!Settle(open[n])
      BY <1>8 DEF Settles
    <3>4. n \in 0..Len(open)
      BY <1>1
    <3> HIDE DEF A
    <3> QED BY <3>2, <3>3, <3>4
  <2>3. \A n \in 0..Len(open) : n \in T
    <3> HIDE DEF T
    <3> QED BY <1>1, <2>1, <2>2, IntervalInduction
  <2> QED BY <2>3
<1> QED BY <1>6, <1>8, <1>9

\* The streams but those under an id, in their order.
Sifts(f, open, k, i) ==
    /\ f[0] = <<>>
    /\ \A n \in 1..Len(open) :
          f[n] = IF open[n].kind = k /\ open[n].id = i THEN f[n - 1] ELSE Append(f[n - 1], open[n])

\* Others walks the list, keeping the streams that are not under the id.
LEMMA OthersSift ==
    ASSUME NEW open \in Seq(N!Stream), NEW k, NEW i
    PROVE  \E f : Sifts(f, open, k, i) /\ N!Others(open, k, i) = f[Len(open)]
<1> DEFINE A == Seq(N!Stream)
           Sifted(xs, n) == IF open[n].kind = k /\ open[n].id = i THEN xs ELSE Append(xs, open[n])
           follow == [n \in 1..Len(open) |-> [xs \in A |-> Sifted(xs, n)]]
           Walk(f) == f = [n \in 0..Len(open) |->
                              IF n = 0 THEN <<>>
                              ELSE IF open[n].kind = k /\ open[n].id = i THEN f[n - 1]
                              ELSE Append(f[n - 1], open[n])]
<1>1. /\ Len(open) \in Nat
      /\ \A n \in 1..Len(open) : open[n] \in N!Stream /\ n - 1 \in 0..Len(open) /\ n # 0
  OBVIOUS
<1>2. follow \in [1..Len(open) -> [A -> A]]
  <2> SUFFICES ASSUME NEW n \in 1..Len(open), NEW xs \in A
               PROVE  Sifted(xs, n) \in A
    OBVIOUS
  <2> QED BY <1>1
<1>3. PICK f : Recurs(f, A, <<>>, follow, Len(open))
  <2>1. <<>> \in A
    OBVIOUS
  <2> HIDE DEF A, follow
  <2> QED BY <1>1, <1>2, <2>1, Recursion
<1>4. f \in [0..Len(open) -> A] /\ f[0] = <<>> /\ \A n \in 1..Len(open) : f[n] = Sifted(f[n - 1], n)
  <2>1. f \in [0..Len(open) -> A] /\ f[0] = <<>>
    BY <1>3 DEF Recurs
  <2>2. ASSUME NEW n \in 1..Len(open)
        PROVE  f[n] = Sifted(f[n - 1], n)
    <3>1. f[n] = follow[n][f[n - 1]] /\ f[n - 1] \in A
      BY <1>1, <1>3 DEF Recurs
    <3> HIDE DEF A, Sifted
    <3> QED BY <3>1
  <2> QED BY <2>1, <2>2
<1>5. Walk(f)
  <2>1. \A n \in 0..Len(open) : n # 0 => n \in 1..Len(open)
    BY <1>1
  <2> HIDE DEF A
  <2> QED BY <1>4, <2>1
<1> DEFINE g == CHOOSE walk : Walk(walk)
<1>6. N!Others(open, k, i) = g[Len(open)]
  BY DEF N!Others
<1>7. Walk(g)
  <2> HIDE DEF Walk
  <2> QED BY <1>5
<1> HIDE DEF g
<1>8. Sifts(g, open, k, i)
  <2>1. 0 \in 0..Len(open) /\ \A n \in 1..Len(open) : n \in 0..Len(open) /\ n # 0
    BY <1>1
  <2>2. g[0] = <<>>
    BY <1>7, <2>1, Zenon
  <2>3. ASSUME NEW n \in 1..Len(open)
        PROVE  g[n] = Sifted(g[n - 1], n)
    BY <1>7, <2>1, Zenon
  <2> QED BY <2>2, <2>3 DEF Sifts
<1> QED BY <1>6, <1>8

\* What it keeps is all of those, and still one per owner.
LEMMA OthersListed ==
    ASSUME NEW open \in Seq(N!Stream), Single(open), NEW k, NEW i
    PROVE  /\ N!Others(open, k, i) \in Seq(N!Stream) /\ Single(N!Others(open, k, i))
           /\ Listed(N!Others(open, k, i)) = {s \in Listed(open) : ~(s.kind = k /\ s.id = i)}
<1> DEFINE At(s) == s.kind = k /\ s.id = i
           Kept(n) == {s \in N!Stream : ~At(s) /\ \E m \in 1..n : s = open[m]}
<1>1. PICK f : Sifts(f, open, k, i) /\ N!Others(open, k, i) = f[Len(open)]
  BY OthersSift
<1> DEFINE Good(n) == f[n] \in Seq(N!Stream) /\ Single(f[n]) /\ Listed(f[n]) = Kept(n)
           T == {n \in 0..Len(open) : Good(n)}
<1>2. Len(open) \in Nat /\ \A n \in 1..Len(open) : open[n] \in N!Stream /\ n \in Nat /\ n \in DOMAIN open
  OBVIOUS
<1>3. 0 \in T
  <2>1. f[0] = <<>>
    BY <1>1 DEF Sifts
  <2>2. Listed(<<>>) = {} /\ Single(<<>>) /\ <<>> \in Seq(N!Stream)
    BY DEF Listed, Single
  <2>3. Kept(0) = {}
    OBVIOUS
  <2> HIDE DEF Kept
  <2>4. Good(0)
    BY <2>1, <2>2, <2>3, Zenon
  <2>5. 0 \in 0..Len(open)
    BY <1>2
  <2> QED BY <2>4, <2>5
<1>4. ASSUME NEW n \in 1..Len(open), n - 1 \in T
      PROVE  n \in T
  <2>1. Good(n - 1) /\ n \in 0..Len(open) /\ n \in Nat
    BY <1>2, <1>4
  <2>2. \A m \in Nat : m \in 1..n <=> m \in 1..(n - 1) \/ m = n
    BY <2>1
  <2>3. n \in 1..n /\ \A m \in 1..(n - 1) : m \in Nat /\ m # n /\ m \in DOMAIN open
    BY <1>2, <2>1
  <2>4. CASE At(open[n])
    <3>1. f[n] = f[n - 1]
      BY <1>1, <2>4 DEF Sifts
    <3>2. Kept(n) = Kept(n - 1)
      BY <2>2, <2>3, <2>4
    <3> HIDE DEF Kept
    <3> QED BY <2>1, <3>1, <3>2
  <2>5. CASE ~At(open[n])
    <3>1. f[n] = Append(f[n - 1], open[n])
      BY <1>1, <2>5 DEF Sifts
    <3>2. Kept(n) = Kept(n - 1) \cup {open[n]}
      BY <1>2, <2>2, <2>3, <2>5
    <3>3. \A t \in Kept(n - 1) : t.owner # open[n].owner
      BY <1>2, <2>3 DEF Single
    <3> HIDE DEF Kept
    <3>4. f[n] \in Seq(N!Stream) /\ Single(f[n]) /\ Listed(f[n]) = Listed(f[n - 1]) \cup {open[n]}
      BY <1>2, <2>1, <3>1, <3>3, Appended
    <3> QED BY <2>1, <3>2, <3>4
  <2> QED BY <2>4, <2>5
<1>5. \A n \in 0..Len(open) : n \in T
  <2> HIDE DEF T
  <2> QED BY <1>2, <1>3, <1>4, IntervalInduction
<1>6. Good(Len(open))
  BY <1>2, <1>5
<1>7. Kept(Len(open)) = {s \in Listed(open) : ~At(s)}
  BY <1>2 DEF Listed
<1> QED BY <1>1, <1>6, <1>7

-----------------------------------------------------------------------------
(* Closing streams *)

\* What Orderly gives for a stream sent in chunks.
LEMMA OrderlyFacts ==
    ASSUME NEW a \in Agents, Orderly(a), NEW k, NEW i, NEW g, Chunked(a, k, i, g)
    PROVE  /\ ~Bracketed(a, k, i)
           /\ \A h : Chunked(a, k, i, h) => (g = None <=> h = None)
           /\ \A f \in Emits[a] : /\ k = "text" /\ f.type = "TOOL_CALL_RESULT" => f.id # i
                                  /\ f.type = "MESSAGES_SNAPSHOT" => f.history[BucketOf(k)][i] = Absent
BY DEF Orderly, Chunked, Bracketed, SameStream, Streaming

\* And for a reasoning block.
LEMMA OrderlyBlocks ==
    ASSUME NEW a \in Agents, Orderly(a), NEW i, Bracketed(a, "block", i),
           NEW f \in Emits[a], f.type = "MESSAGES_SNAPSHOT"
    PROVE  f.history["reasoning"][i] = Absent
BY Vocabulary DEF Orderly, Bracketed, Streaming

\* A stream that is owed its END is alone under its id.
LEMMA Alone ==
    ASSUME NEW a \in Agents, Orderly(a), NEW held, NEW owner, NEW open \in Seq(N!Stream), NEW seen,
           InFlight(a, held, owner, open, seen),
           NEW s \in Listed(open), NEW t \in Listed(open), s.owed, s.kind = t.kind, s.id = t.id
    PROVE  s = t
<1>1. Entry(a, owner, seen, s) /\ Entry(a, owner, seen, t)
  BY DEF InFlight
<1>2. Chunked(a, s.kind, s.id, s.owner)
  BY <1>1 DEF Entry
<1>3. t.owed
  BY <1>1, <1>2, OrderlyFacts, ListedOnes DEF Entry
<1>4. Chunked(a, s.kind, s.id, t.owner)
  BY <1>1, <1>3 DEF Entry
<1>5. s.owner = None <=> t.owner = None
  BY <1>2, <1>4, OrderlyFacts
<1>6. s.owner = t.owner
  BY <1>1, <1>5 DEF Entry, Agrees
<1> QED BY <1>6, ListedOnes DEF InFlight

\* What closing some streams comes to, here and at the consumer.
Closes(c, open, r, gone, d) ==
    /\ Passes(c, r.out, d) /\ Turns(c, d, d.open, c.owner)
    /\ r.open \in Seq(N!Stream) /\ Single(r.open) /\ Listed(r.open) = Listed(open) \ gone
    /\ \A k \in ChunkKinds, i \in Ids : d.open[k][i] = IF Owes(gone, k, i) THEN Absent ELSE c.open[k][i]

\* Closing some streams leaves the others in flight.
LEMMA StillInFlight ==
    ASSUME NEW a \in Agents, Orderly(a), NEW held, NEW owner, NEW open \in Seq(N!Stream),
           NEW c, InFlight(a, held, owner, open, c.open),
           NEW r, NEW gone \in SUBSET Listed(open), NEW d, Closes(c, open, r, gone, d)
    PROVE  InFlight(a, held, owner, r.open, d.open)
<1> USE DEF InFlight
<1>0. Listed(open) \subseteq N!Stream /\ Listed(r.open) = Listed(open) \ gone /\ Single(r.open)
  BY ListedOnes DEF Closes
<1>1. \A k \in ChunkKinds, i \in Ids : d.open[k][i] = IF Owes(gone, k, i) THEN Absent ELSE c.open[k][i]
  BY DEF Closes
<1>2. ASSUME NEW s \in Listed(r.open)
      PROVE  Entry(a, owner, d.open, s)
  <2>1. s \in Listed(open) /\ s \notin gone /\ s.kind \in ChunkKinds /\ s.id \in Ids
    BY <1>0, Names
  <2>2. ASSUME NEW t \in gone, t.owed, t.kind = s.kind, t.id = s.id
        PROVE  FALSE
    <3>1. t \in Listed(open)
      OBVIOUS
    <3> HIDE DEF InFlight
    <3>2. t = s
      BY <2>1, <2>2, <3>1, Alone
    <3> QED BY <2>1, <3>2
  <2>3. d.open[s.kind][s.id] = c.open[s.kind][s.id]
    BY <1>1, <2>1, <2>2 DEF Owes
  <2> QED BY <2>1, <2>3 DEF Entry
<1>3. ASSUME NEW k \in ChunkKinds, NEW i \in Ids, held[k][i] # Absent
      PROVE  d.open[k][i] = held[k][i]
  <2>1. Bracketed(a, k, i) /\ c.open[k][i] = held[k][i]
    BY <1>3, Vocabulary
  <2>2. ~Owes(gone, k, i)
    BY <2>1, OrderlyFacts DEF Owes, Entry
  <2> QED BY <1>1, <2>1, <2>2
<1>4. ASSUME NEW k \in ChunkKinds, NEW i \in Ids, d.open[k][i] # Absent
      PROVE  held[k][i] # Absent \/ Owes(Listed(r.open), k, i)
  <2>1. ~Owes(gone, k, i) /\ c.open[k][i] # Absent
    BY <1>1, <1>4
  <2>2. held[k][i] # Absent \/ Owes(Listed(open), k, i)
    BY <2>1
  <2> QED BY <1>0, <2>1, <2>2 DEF Owes
<1> QED BY <1>0, <1>2, <1>3, <1>4

\* The END of a stream in flight is one the consumer takes.
LEMMA EndHeard ==
    ASSUME NEW c \in C!Verifier, c.started, ~c.finished, NEW k \in ChunkKinds, NEW i \in Ids, NEW g \in Owner,
           c.open[k][i] # Absent, Agrees(g, c.open[k][i])
    PROVE  /\ C!Accepts(c, End(k, i, g))
           /\ Turns(c, C!Verify(c, End(k, i, g)), [c.open EXCEPT ![k][i] = Absent], c.owner)
<1> DEFINE e == End(k, i, g)
<1>1. e.type = "END" /\ e.kind = k /\ e.id = i /\ e.tag = g /\ e.kind # "block"
  BY Vocabulary DEF End
<1>2. e \in Heard
  BY HeardOnes
<1> HIDE DEF e
<1>3. WellFormed(e)
  BY <1>2, HeardIsWellFormed
<1>4. C!Accepts(c, e)
  BY <1>1, ClientJudges
<1>5. Turns(c, C!Verify(c, e), [c.open EXCEPT ![e.kind][e.id] = Absent], c.owner)
  BY <1>1, <1>3, <1>4, ClientEnds
<1> QED BY <1>1, <1>4, <1>5 DEF e

\* At most one END.
Brief(xs) == xs = <<>> \/ \E e \in Heard : xs = <<e>>

\* One stream is closed by its index: at most one END, which the consumer takes.
LEMMA ClosingAt ==
    ASSUME NEW a \in Agents, NEW held, NEW owner, NEW open \in Seq(N!Stream),
           NEW c \in C!Verifier, c.started, ~c.finished, InFlight(a, held, owner, open, c.open),
           NEW n \in {0} \cup DOMAIN open
    PROVE  /\ \E d : Closes(c, open, N!CloseAt(open, n), IF n = 0 THEN {} ELSE {open[n]}, d)
           /\ Brief(N!CloseAt(open, n).out)
<1>1. CASE n = 0
  <2>1. N!CloseAt(open, n) = [ok |-> TRUE, out |-> <<>>, open |-> open]
    BY <1>1 DEF N!CloseAt, N!Result
  <2>2. Closes(c, open, N!CloseAt(open, n), {}, c)
    BY <2>1, PassesNone DEF Closes, Turns, Owes, InFlight
  <2> QED BY <1>1, <2>1, <2>2 DEF Brief
<1>2. CASE n # 0
  <2> DEFINE s == open[n]
             r == N!CloseAt(open, n)
             E == End(s.kind, s.id, s.owner)
  <2>1. n \in DOMAIN open /\ s \in N!Stream /\ s \in Listed(open)
    BY <1>2, ListedOnes
  <2>2. s.kind \in ChunkKinds /\ s.id \in Ids /\ s.owner \in Owner
    BY <2>1, Names
  <2>3. r = [ok |-> TRUE, out |-> N!Settle(s), open |-> N!RemoveAt(open, n)]
    BY <1>2 DEF N!CloseAt, N!Result
  <2>4. r.open \in Seq(N!Stream) /\ Single(r.open) /\ Listed(r.open) = Listed(open) \ {s}
    BY <2>1, <2>3, Removed DEF InFlight
  <2>5. c.open \in OpenOf(ChunkKinds)
    BY ClientFields
  <2>6. c.open[s.kind][s.id] # Absent /\ Agrees(s.owner, c.open[s.kind][s.id])
    BY <2>1 DEF InFlight, Entry
  <2> HIDE DEF s, r
  <2>7. CASE ~s.owed
    <3>1. r.out = <<>>
      BY <2>1, <2>3, <2>7, SettleHeard
    <3>2. Passes(c, r.out, c) /\ Turns(c, c, c.open, c.owner)
      BY <3>1, PassesNone DEF Turns
    <3>3. \A k, i : ~Owes({s}, k, i)
      BY <2>7 DEF Owes
    <3>4. Closes(c, open, r, {s}, c)
      BY <2>4, <3>2, <3>3 DEF Closes
    <3> QED BY <1>2, <3>1, <3>4 DEF Brief, s, r
  <2>8. CASE s.owed
    <3> DEFINE d == C!Verify(c, E)
    <3>1. N!Settle(s) = <<E>> /\ E \in Heard
      BY <2>1, <2>8, SettleHeard
    <3>2. C!Accepts(c, E) /\ Turns(c, d, [c.open EXCEPT ![s.kind][s.id] = Absent], c.owner)
      BY <2>2, <2>6, EndHeard
    <3> HIDE DEF E
    <3>3. r.out = Append(<<>>, E) /\ r.out = <<E>>
      BY <2>3, <3>1
    <3>4. Passes(c, r.out, d)
      BY <3>1, <3>2, <3>3, PassesNone, PassesMore
    <3> HIDE DEF d
    <3>5. d.open = [c.open EXCEPT ![s.kind][s.id] = Absent]
      BY <3>2 DEF Turns
    <3>6. \A k \in ChunkKinds, i \in Ids :
             d.open[k][i] = IF k = s.kind /\ i = s.id THEN Absent ELSE c.open[k][i]
      BY <2>2, <2>5, <3>5 DEF OpenOf
    <3>7. ASSUME NEW k \in ChunkKinds, NEW i \in Ids
          PROVE  Owes({s}, k, i) <=> k = s.kind /\ i = s.id
      BY <2>8 DEF Owes
    <3>8. ASSUME NEW k \in ChunkKinds, NEW i \in Ids
          PROVE  d.open[k][i] = IF Owes({s}, k, i) THEN Absent ELSE c.open[k][i]
      <4>1. CASE Owes({s}, k, i)
        BY <3>6, <3>7, <4>1
      <4>2. CASE ~Owes({s}, k, i)
        BY <3>6, <3>7, <4>2
      <4> QED BY <4>1, <4>2
    <3>9. Turns(c, d, d.open, c.owner)
      BY <3>2, <3>5
    <3>10. Closes(c, open, r, {s}, d)
      BY <2>4, <3>4, <3>8, <3>9 DEF Closes
    <3>11. Brief(r.out)
      BY <3>1, <3>3 DEF Brief
    <3> QED BY <1>2, <3>10, <3>11 DEF s, r
  <2> QED BY <2>7, <2>8
<1> QED BY <1>1, <1>2

\* Whatever its owner streams is closed.
LEMMA ClosingOwner ==
    ASSUME NEW a \in Agents, NEW held, NEW owner, NEW open \in Seq(N!Stream),
           NEW c \in C!Verifier, c.started, ~c.finished, InFlight(a, held, owner, open, c.open),
           NEW g
    PROVE  /\ \E d : Closes(c, open, N!CloseOwner(open, g), {s \in Listed(open) : s.owner = g}, d)
           /\ Brief(N!CloseOwner(open, g).out)
<1> DEFINE n == N!OfOwner(open, g)
           gone == IF n = 0 THEN {} ELSE {open[n]}
<1>1. \/ n = 0 /\ \A s \in Listed(open) : s.owner # g
      \/ n \in DOMAIN open /\ open[n].owner = g
  BY OwnerFound
<1>2. N!CloseOwner(open, g) = N!CloseAt(open, n)
  BY DEF N!CloseOwner
<1>3. DOMAIN open = 1..Len(open) /\ 0 \notin 1..Len(open)
  OBVIOUS
<1> HIDE DEF n
<1>4. gone = {s \in Listed(open) : s.owner = g}
  <2>1. CASE n = 0
    BY <1>1, <1>3, <2>1
  <2>2. CASE n # 0
    <3>1. open[n] \in Listed(open) /\ open[n].owner = g
      BY <1>1, <2>2, ListedOnes
    <3>2. \A s \in Listed(open) : s.owner = g => s = open[n]
      BY <3>1, ListedOnes DEF InFlight
    <3> QED BY <2>2, <3>1, <3>2
  <2> QED BY <2>1, <2>2
<1>5. n \in {0} \cup DOMAIN open
  BY <1>1
<1>6. (\E d : Closes(c, open, N!CloseAt(open, n), gone, d)) /\ Brief(N!CloseAt(open, n).out)
  BY <1>5, ClosingAt
<1> QED BY <1>2, <1>4, <1>6

\* A stream under the id is closed, the owed one if there is one.
LEMMA ClosingId ==
    ASSUME NEW a \in Agents, Orderly(a), NEW held, NEW owner, NEW open \in Seq(N!Stream),
           NEW c \in C!Verifier, c.started, ~c.finished, InFlight(a, held, owner, open, c.open),
           NEW k, NEW i
    PROVE  \E d, gone : /\ Closes(c, open, N!CloseId(open, k, i), gone, d)
                        /\ gone \subseteq Listed(open)
                        /\ Owes(Listed(open), k, i) => Owes(gone, k, i)
<1> DEFINE n == N!OfId(open, k, i)
           gone == IF n = 0 THEN {} ELSE {open[n]}
<1>1. \/ n = 0 /\ \A s \in Listed(open) : ~(s.kind = k /\ s.id = i)
      \/ n \in DOMAIN open /\ open[n].kind = k /\ open[n].id = i
  BY IdFound
<1>2. N!CloseId(open, k, i) = N!CloseAt(open, n)
  BY DEF N!CloseId
<1>3. DOMAIN open = 1..Len(open) /\ 0 \notin 1..Len(open)
  OBVIOUS
<1> HIDE DEF n
<1>4. gone \subseteq Listed(open)
  BY <1>1, ListedOnes
<1>5. ASSUME Owes(Listed(open), k, i)
      PROVE  Owes(gone, k, i)
  <2>1. PICK s \in Listed(open) : s.kind = k /\ s.id = i /\ s.owed
    BY <1>5 DEF Owes
  <2>2. n \in DOMAIN open /\ n # 0 /\ open[n].kind = k /\ open[n].id = i
    BY <1>1, <1>3, <2>1
  <2>3. open[n] \in Listed(open)
    BY <2>2, ListedOnes
  <2>4. s = open[n]
    BY <2>1, <2>2, <2>3, Alone
  <2>5. s \in gone
    BY <2>2, <2>4
  <2> QED BY <2>1, <2>5 DEF Owes
<1>6. n \in {0} \cup DOMAIN open
  BY <1>1
<1>7. \E d : Closes(c, open, N!CloseAt(open, n), gone, d)
  BY <1>6, ClosingAt
<1> QED BY <1>2, <1>4, <1>5, <1>7

\* One after the other.
LEMMA PassesJoin ==
    ASSUME NEW c \in C!Verifier, NEW xs, NEW d, Passes(c, xs, d), NEW ys, Brief(ys),
           NEW z, Passes(d, ys, z)
    PROVE  Passes(c, xs \o ys, z)
<1>1. xs \in Seq(Heard) /\ d \in C!Verifier /\ z \in C!Verifier
  BY DEF Passes
<1>2. Judged(c, xs) = [ok |-> TRUE, client |-> d] /\ Judged(d, ys) = [ok |-> TRUE, client |-> z]
  BY DEF Passes
<1>3. CASE ys = <<>>
  <2>1. xs \o ys = xs
    BY <1>1, <1>3
  <2>2. d = z
    BY <1>1, <1>2, <1>3, JudgedNone
  <2> QED BY <2>1, <2>2
<1>4. ASSUME NEW e \in Heard, ys = <<e>>
      PROVE  Passes(c, xs \o ys, z)
  <2>1. xs \o ys = Append(xs, e) /\ ys = Append(<<>>, e) /\ <<>> \in Seq(Heard)
    BY <1>1, <1>4
  <2>2. Judged(d, ys) = Judge(Judged(d, <<>>), e)
    BY <1>1, <2>1, JudgedMore
  <2>3. Judged(d, <<>>) = Judged(c, xs)
    BY <1>1, <1>2, JudgedNone
  <2>4. Judged(c, Append(xs, e)) = Judge(Judged(c, xs), e)
    BY <1>1, JudgedMore
  <2>5. Append(xs, e) \in Seq(Heard)
    BY <1>1
  <2> QED BY <1>1, <1>2, <2>1, <2>2, <2>3, <2>4, <2>5 DEF Passes
<1> QED BY <1>3, <1>4 DEF Brief

-----------------------------------------------------------------------------
(* How what is in flight changes *)

\* Streams care for the owners of chunk streams and of open blocks.
LEMMA Reowned ==
    ASSUME NEW a, NEW held, NEW owner, NEW open \in Seq(N!Stream), NEW seen,
           InFlight(a, held, owner, open, seen),
           NEW others,
           \A k \in ChunkKinds, i \in Ids, g \in Owner :
              Chunked(a, k, i, g) /\ owner[BucketOf(k)][i] # Absent =>
                 others[BucketOf(k)][i] = owner[BucketOf(k)][i],
           \A i \in Ids : held["block"][i] # Absent => others["reasoning"][i] = owner["reasoning"][i]
    PROVE  InFlight(a, held, others, open, seen)
<1>1. ASSUME NEW s \in Listed(open)
      PROVE  Entry(a, others, seen, s)
  <2>1. s.kind \in ChunkKinds /\ s.id \in Ids /\ s.owner \in Owner
    BY ListedFields
  <2>2. Entry(a, owner, seen, s)
    BY DEF InFlight
  <2> QED BY <2>1, <2>2 DEF Entry
<1> QED BY <1>1 DEF InFlight

\* A stream goes on under an owner that had none.
LEMMA Joined ==
    ASSUME NEW a, NEW held, NEW owner, NEW open \in Seq(N!Stream), NEW seen,
           InFlight(a, held, owner, open, seen),
           NEW s \in N!Stream, \A t \in Listed(open) : t.owner # s.owner,
           Entry(a, owner, seen, s)
    PROVE  /\ Append(open, s) \in Seq(N!Stream)
           /\ InFlight(a, held, owner, Append(open, s), seen)
<1>1. /\ Append(open, s) \in Seq(N!Stream) /\ Single(Append(open, s))
      /\ Listed(Append(open, s)) = Listed(open) \cup {s}
  BY Appended DEF InFlight
<1>2. \A k, i : Owes(Listed(open), k, i) => Owes(Listed(Append(open, s)), k, i)
  BY <1>1 DEF Owes
<1>3. \A t \in Listed(Append(open, s)) : Entry(a, owner, seen, t)
  BY <1>1 DEF InFlight
<1> DEFINE more == Append(open, s)
<1> HIDE DEF more
<1>4. InFlight(a, held, owner, more, seen)
  BY <1>1, <1>2, <1>3 DEF InFlight, more
<1> QED BY <1>1, <1>4 DEF more

\* A stream that nobody had in flight is opened at the consumer, for x: by the producer,
\* which holds it open then, or by the normalizer, which owes it an END.
LEMMA Begun ==
    ASSUME NEW a, NEW held, NEW owner, NEW open \in Seq(N!Stream), NEW seen,
           InFlight(a, held, owner, open, seen),
           NEW s \in N!Stream, \A t \in Listed(open) : t.owner # s.owner,
           \A t \in Listed(open) : ~(t.kind = s.kind /\ t.id = s.id),
           NEW x \in Owner, NEW now, NEW heard,
           \A k \in ChunkKinds, i \in Ids :
              heard[k][i] = IF k = s.kind /\ i = s.id THEN x ELSE seen[k][i],
           \A k \in Kinds, i \in Ids : k # s.kind \/ i # s.id => now[k][i] = held[k][i],
           now[s.kind][s.id] = IF s.owed THEN Absent ELSE x,
           ~s.owed => Bracketed(a, s.kind, s.id),
           Entry(a, owner, heard, s)
    PROVE  /\ Append(open, s) \in Seq(N!Stream)
           /\ InFlight(a, now, owner, Append(open, s), heard)
<1> DEFINE more == Append(open, s)
<1>1. more \in Seq(N!Stream) /\ Single(more) /\ Listed(more) = Listed(open) \cup {s}
  BY Appended DEF InFlight
<1>2. x # Absent /\ s.kind \in ChunkKinds /\ s.id \in Ids /\ s.kind # "block" /\ s.owed \in BOOLEAN
  BY Names, Vocabulary
<1> HIDE DEF more
<1>3. ASSUME NEW t \in Listed(more)
      PROVE  Entry(a, owner, heard, t)
  <2>1. CASE t = s
    BY <2>1
  <2>2. CASE t \in Listed(open)
    <3>1. t.kind \in ChunkKinds /\ t.id \in Ids /\ ~(t.kind = s.kind /\ t.id = s.id)
      BY <2>2, ListedFields
    <3>2. heard[t.kind][t.id] = seen[t.kind][t.id]
      BY <3>1
    <3>3. Entry(a, owner, seen, t)
      BY <2>2 DEF InFlight
    <3> QED BY <3>2, <3>3 DEF Entry
  <2> QED BY <1>1, <2>1, <2>2
<1>4. ASSUME NEW k \in Kinds, NEW i \in Ids, now[k][i] # Absent
      PROVE  Bracketed(a, k, i)
  <2>1. CASE k = s.kind /\ i = s.id
    BY <1>2, <1>4, <2>1
  <2>2. CASE k # s.kind \/ i # s.id
    BY <1>4, <2>2 DEF InFlight
  <2> QED BY <2>1, <2>2
<1>5. ASSUME NEW k \in ChunkKinds, NEW i \in Ids
      PROVE  /\ now[k][i] # Absent => heard[k][i] = now[k][i]
             /\ heard[k][i] # Absent => now[k][i] # Absent \/ Owes(Listed(more), k, i)
  <2>1. CASE k = s.kind /\ i = s.id
    <3>1. s.owed => Owes(Listed(more), k, i)
      BY <1>1, <2>1 DEF Owes
    <3>2. heard[k][i] = x /\ (s.owed => now[k][i] = Absent) /\ (~s.owed => now[k][i] = x)
      BY <2>1
    <3> QED BY <1>2, <3>1, <3>2
  <2>2. CASE k # s.kind \/ i # s.id
    <3>1. heard[k][i] = seen[k][i] /\ now[k][i] = held[k][i]
      BY <2>2, Vocabulary
    <3>2. Owes(Listed(open), k, i) => Owes(Listed(more), k, i)
      BY <1>1 DEF Owes
    <3> QED BY <3>1, <3>2 DEF InFlight
  <2> QED BY <2>1, <2>2
<1>6. \A i \in Ids : now["block"][i] = held["block"][i]
  <2>1. "block" \in Kinds
    BY Vocabulary
  <2> QED BY <1>2, <2>1
<1>7. InFlight(a, now, owner, more, heard)
  BY <1>1, <1>3, <1>4, <1>5, <1>6 DEF InFlight
<1> QED BY <1>1, <1>7 DEF more

-----------------------------------------------------------------------------
(* One event at a time *)

\* The producer's verifier lets an event through, and the sides are linked.
Ready(a, v, open, c, e) ==
    /\ a \in Agents /\ Orderly(a) /\ e \in Emits[a]
    /\ v \in S!Verifier /\ open \in Seq(N!Stream) /\ c \in C!Verifier
    /\ v.started /\ S!Accepts(v, e) /\ Accord(a, v, open, c)

\* The consumer takes what the normalizer makes of it, and they are linked again.
Conveys(a, w, r, c) ==
    /\ w \in S!Verifier /\ w.started /\ r.ok /\ r.open \in Seq(N!Stream)
    /\ \E d : Passes(c, r.out, d) /\ Accord(a, w, r.open, d)

\* What is known of an event the producer lets through.
LEMMA ReadyFacts ==
    ASSUME NEW a, NEW v, NEW open, NEW c, NEW e, Ready(a, v, open, c, e)
    PROVE  /\ a \in Agents /\ Orderly(a) /\ e \in Emits[a] /\ e \in Heard /\ WellFormed(e)
           /\ v \in S!Verifier /\ open \in Seq(N!Stream) /\ c \in C!Verifier
           /\ v.started /\ ~v.ended /\ c.started /\ ~c.finished /\ Alike(v, c)
           /\ e.type # "RUN_STARTED"
           /\ S!StreamRules(v, e) /\ S!ContinuationRules(v, e)
           /\ InFlight(a, v.open, v.owner, open, c.open) /\ c.owner = v.owner
           /\ v.open \in OpenOf(Kinds) /\ v.owner \in Owners /\ c.open \in OpenOf(ChunkKinds)
<1>1. e \in Heard
  BY HeardOnes DEF Ready
<1>2. WellFormed(e)
  BY <1>1, HeardIsWellFormed
<1>3. ~v.ended /\ e.type # "RUN_STARTED" /\ S!StreamRules(v, e) /\ S!ContinuationRules(v, e)
  BY DEF Ready, S!Accepts, S!RunRules
<1>4. v.open \in OpenOf(Kinds) /\ v.owner \in Owners /\ c.open \in OpenOf(ChunkKinds)
  BY ServerFields, ClientFields DEF Ready
<1> QED BY <1>1, <1>2, <1>3, <1>4 DEF Ready, Accord, Alike

\* An explicit event follows the ENDs it causes.
LEMMA Normalized ==
    ASSUME NEW open, NEW e, e.type # "CHUNK", NEW out, NEW left,
           N!ObserveExplicit(open, e) = N!Result(TRUE, out, left)
    PROVE  N!Normalize(open, e) = [ok |-> TRUE, out |-> Append(out, e), open |-> left]
<1> DEFINE observed == N!ObserveExplicit(open, e)
<1>1. N!Normalize(open, e) = [observed EXCEPT !.out = Append(@, e)]
  BY DEF N!Normalize
<1>2. observed = [ok |-> TRUE, out |-> out, open |-> left]
  BY DEF N!Result
<1> HIDE DEF observed
<1> QED BY <1>1, <1>2

\* The consumer takes more of a stream it has open.
LEMMA HeardContent ==
    ASSUME NEW d \in C!Verifier, d.started, ~d.finished, NEW e, e.type = "CONTENT", e.kind # "block",
           d.open[e.kind][e.id] # Absent, Agrees(e.tag, d.open[e.kind][e.id])
    PROVE  C!Accepts(d, e) /\ C!Verify(d, e) = d
<1>1. C!Accepts(d, e)
  BY ClientJudges
<1> QED BY <1>1, ClientStays

\* The fields of a stream's events.
LEMMA StreamKinds ==
    ASSUME NEW e, WellFormed(e), e.type \in {"START", "CONTENT", "END"}
    PROVE  /\ e.kind \in Kinds /\ e.id \in Ids /\ e.tag \in Owner
           /\ e.kind # "block" => e.kind \in ChunkKinds
BY Vocabulary DEF WellFormed

\* Whom the normalizer takes a stream of the producer's to be: it agrees with who opened it.
LEMMA GuessAgrees ==
    ASSUME NEW a, NEW held, NEW owner, NEW open \in Seq(N!Stream), NEW seen,
           InFlight(a, held, owner, open, seen),
           NEW k \in ChunkKinds, NEW i \in Ids, NEW g \in Owner, Agrees(g, seen[k][i])
    PROVE  N!OwnerOf(open, k, i, g) \in Owner /\ Agrees(N!OwnerOf(open, k, i, g), seen[k][i])
<1> DEFINE n == N!OfId(open, k, i)
<1>1. \/ n = 0
      \/ n \in DOMAIN open /\ open[n].kind = k /\ open[n].id = i
  BY IdFound
<1>2. N!OwnerOf(open, k, i, g) = IF g # None THEN g ELSE IF n = 0 THEN None ELSE open[n].owner
  BY DEF N!OwnerOf
<1>3. n \in DOMAIN open => n # 0
  OBVIOUS
<1> HIDE DEF n
<1>4. ASSUME n \in DOMAIN open, open[n].kind = k, open[n].id = i
      PROVE  open[n].owner \in Owner /\ Agrees(open[n].owner, seen[k][i])
  <2>1. open[n] \in Listed(open)
    BY <1>4, ListedOnes
  <2> QED BY <1>4, <2>1, ListedFields DEF InFlight, Entry
<1> QED BY <1>1, <1>2, <1>3, <1>4, Vocabulary DEF Agrees

\* CONTENT of a stream: it becomes what its owner has in flight, if it was not.
LEMMA OnContent ==
    ASSUME NEW a, NEW v, NEW open, NEW c, NEW e, Ready(a, v, open, c, e), e.type = "CONTENT", e.kind # "block"
    PROVE  Conveys(a, S!Fold(v, e), N!Normalize(open, e), c)
<1> DEFINE k == e.kind
           i == e.id
           g == N!OwnerOf(open, k, i, e.tag)
           r == N!CloseOwner(open, g)
           gone == {s \in Listed(open) : s.owner = g}
           more == [kind |-> k, id |-> i, owed |-> FALSE, owner |-> g]
<1>0. /\ a \in Agents /\ Orderly(a) /\ e \in Heard /\ v \in S!Verifier /\ c \in C!Verifier
      /\ open \in Seq(N!Stream) /\ v.started /\ c.started /\ ~c.finished
      /\ InFlight(a, v.open, v.owner, open, c.open) /\ Alike(v, c)
  BY ReadyFacts
<1>1. k \in ChunkKinds /\ i \in Ids /\ e.tag \in Owner /\ k \in Kinds
  BY ReadyFacts, StreamKinds
<1>2. v.open[k][i] # Absent /\ Agrees(e.tag, v.open[k][i])
  BY ReadyFacts, Names DEF S!StreamRules, S!IsOpen
<1>3. c.open[k][i] # Absent /\ Agrees(e.tag, c.open[k][i]) /\ Bracketed(a, k, i)
  BY <1>0, <1>1, <1>2 DEF InFlight
<1>4. g \in Owner /\ Agrees(g, c.open[k][i])
  BY <1>0, <1>1, <1>3, GuessAgrees
<1>5. S!Fold(v, e) = v
  BY <1>0, ServerStays
<1>6. N!ObserveExplicit(open, e) = N!OpenExplicit(open, e)
  BY DEF N!ObserveExplicit
<1>7. CASE N!Current(open, k, g) = i
  <2>1. N!ObserveExplicit(open, e) = N!Result(TRUE, <<>>, open)
    BY <1>6, <1>7 DEF N!OpenExplicit
  <2>2. N!Normalize(open, e) = [ok |-> TRUE, out |-> Append(<<>>, e), open |-> open]
    BY <2>1, Normalized
  <2>3. C!Accepts(c, e) /\ C!Verify(c, e) = c
    BY <1>0, <1>3, HeardContent
  <2>4. Passes(c, Append(<<>>, e), c)
    BY <1>0, <2>3, PassesNone, PassesMore
  <2> QED BY <1>0, <1>5, <2>2, <2>4 DEF Conveys, Ready
<1>8. CASE N!Current(open, k, g) # i
  <2>1. N!ObserveExplicit(open, e) = N!Result(TRUE, r.out, Append(r.open, more))
    BY <1>6, <1>8 DEF N!OpenExplicit
  <2>2. N!Normalize(open, e) = [ok |-> TRUE, out |-> Append(r.out, e), open |-> Append(r.open, more)]
    BY <2>1, Normalized
  <2>3. more \in N!Stream
    BY <1>1, <1>4, Names
  <2> HIDE DEF g
  <2>4. PICK d : Closes(c, open, r, gone, d)
    BY <1>0, ClosingOwner
  <2> HIDE DEF r, gone, more
  <2>5. gone \in SUBSET Listed(open)
    BY DEF gone
  <2>6. InFlight(a, v.open, v.owner, r.open, d.open)
    BY <1>0, <2>4, <2>5, StillInFlight
  <2>7. d.open[k][i] = c.open[k][i]
    BY <1>0, <1>1, <1>2, <1>3, <2>6 DEF InFlight
  <2>8. Entry(a, v.owner, d.open, more)
    BY <1>3, <1>4, <2>7 DEF Entry, more
  <2>9. r.open \in Seq(N!Stream) /\ \A t \in Listed(r.open) : t.owner # more.owner
    BY <2>4 DEF Closes, gone, more
  <2>10. Append(r.open, more) \in Seq(N!Stream) /\ InFlight(a, v.open, v.owner, Append(r.open, more), d.open)
    BY <2>3, <2>6, <2>8, <2>9, Joined
  <2>11. Passes(c, r.out, d) /\ Turns(c, d, d.open, c.owner)
    BY <2>4 DEF Closes
  <2>12. d \in C!Verifier /\ d.started /\ ~d.finished /\ Alike(v, d)
    BY <1>0, <2>11 DEF Turns, Alike
  <2>13. C!Accepts(d, e) /\ C!Verify(d, e) = d
    BY <1>3, <2>7, <2>12, HeardContent
  <2>14. Passes(c, Append(r.out, e), d)
    BY <1>0, <2>11, <2>13, PassesMore
  <2>15. Accord(a, v, Append(r.open, more), d)
    BY <2>10, <2>12 DEF Accord
  <2> QED BY <1>0, <1>5, <2>2, <2>10, <2>14, <2>15 DEF Conveys
<1> QED BY <1>7, <1>8

\* A stream begins, at the producer or in its first chunk.
Begins(e, s) ==
    /\ e.type = "START" \/ Named(e)
    /\ s = [kind |-> e.kind, id |-> e.id, owed |-> e.type # "START", owner |-> e.tag]

\* Nobody has it in flight, nor open.
Unheard(v, open, c, e) ==
    /\ e.kind \in ChunkKinds /\ e.id \in Ids /\ e.tag \in Owner
    /\ S!MayOwn(v, e) /\ v.open[e.kind][e.id] = Absent /\ c.open[e.kind][e.id] = Absent
    /\ \A t \in Listed(open) : ~(t.kind = e.kind /\ t.id = e.id)

\* f is the START the consumer hears for e.
StartOf(e, f) ==
    /\ f \in Heard /\ f.type = "START"
    /\ f.kind = e.kind /\ f.id = e.id /\ f.tag = e.tag /\ f.parent = e.parent

\* The consumer takes the START of a stream it does not have open.
LEMMA StartHeard ==
    ASSUME NEW v, NEW d \in C!Verifier, v.owner = d.owner, d.started, ~d.finished,
           NEW e, NEW f, StartOf(e, f), e.kind # "block", S!MayOwn(v, e), d.open[e.kind][e.id] = Absent
    PROVE  /\ C!Accepts(d, f)
           /\ Turns(d, C!Verify(d, f), [d.open EXCEPT ![e.kind][e.id] = S!OwnerOf(v, e)],
                    [d.owner EXCEPT ![BucketOf(e.kind)][e.id] = S!OwnerOf(v, e)])
<1> USE DEF StartOf
<1>1. C!MayOwn(d, f) /\ C!OwnerOf(d, f) = S!OwnerOf(v, e)
  BY SameRules
<1>2. WellFormed(f)
  BY HeardIsWellFormed
<1>3. C!Accepts(d, f)
  BY <1>1, ClientJudges
<1>4. Turns(d, C!Verify(d, f), [d.open EXCEPT ![f.kind][f.id] = C!OwnerOf(d, f)],
            [d.owner EXCEPT ![BucketOf(f.kind)][f.id] = C!OwnerOf(d, f)])
  BY <1>2, <1>3, ClientStarts
<1> QED BY <1>1, <1>3, <1>4

\* Whatever the owner had in flight is closed, then the new stream is in flight.
LEMMA Beginning ==
    ASSUME NEW a, NEW v, NEW open, NEW c, NEW e, Ready(a, v, open, c, e), NEW s, Begins(e, s),
           Unheard(v, open, c, e), NEW f, StartOf(e, f)
    PROVE  /\ S!Fold(v, e) \in S!Verifier /\ S!Fold(v, e).started
           /\ Append(N!CloseOwner(open, e.tag).open, s) \in Seq(N!Stream)
           /\ \E z : /\ Passes(c, Append(N!CloseOwner(open, e.tag).out, f), z)
                     /\ Accord(a, S!Fold(v, e), Append(N!CloseOwner(open, e.tag).open, s), z)
                     /\ z.started /\ ~z.finished
                     /\ z.open[e.kind][e.id] # Absent /\ Agrees(e.tag, z.open[e.kind][e.id])
<1> DEFINE k == e.kind
           i == e.id
           b == BucketOf(e.kind)
           g == e.tag
           r == N!CloseOwner(open, g)
           gone == {t \in Listed(open) : t.owner = g}
           o == S!OwnerOf(v, e)
           x == IF e.type = "START" THEN o ELSE Absent
           w == S!Fold(v, e)
           now == [v.open EXCEPT ![k][i] = x]
           owner == [v.owner EXCEPT ![b][i] = o]
<1>0. /\ a \in Agents /\ Orderly(a) /\ e \in Emits[a] /\ WellFormed(e)
      /\ v \in S!Verifier /\ c \in C!Verifier
      /\ open \in Seq(N!Stream) /\ v.started /\ c.started /\ ~c.finished /\ ~v.ended
      /\ InFlight(a, v.open, v.owner, open, c.open) /\ Alike(v, c) /\ c.owner = v.owner
      /\ v.open \in OpenOf(Kinds) /\ v.owner \in Owners
  BY ReadyFacts
<1>1. /\ k \in ChunkKinds /\ i \in Ids /\ e.tag \in Owner /\ k \in Kinds /\ k # "block"
      /\ b \in Buckets /\ S!MayOwn(v, e)
      /\ v.open[k][i] = Absent /\ c.open[k][i] = Absent
      /\ \A t \in Listed(open) : ~(t.kind = k /\ t.id = i)
  BY Vocabulary DEF Unheard
<1>2. e.kind = "tool" => e.parent \in Ids \cup {None}
  BY <1>0 DEF WellFormed, Begins, Named
<1>3. /\ o \in Owner /\ Agrees(e.tag, o)
      /\ v.owner[b][i] # Absent => o = v.owner[b][i]
  BY <1>0, <1>1, <1>2, OwnerFacts DEF Agrees
<1>4. x \in Owner \cup {Absent}
  BY <1>3
<1>5. Proceeds(v, w, now, owner)
  BY <1>0, <1>4, ServerOpens DEF Begins
<1>6. s \in N!Stream /\ s.kind = k /\ s.id = i /\ s.owner = e.tag /\ (s.owed <=> e.type # "START")
  <2>1. (e.type # "START") \in BOOLEAN
    OBVIOUS
  <2> QED BY <1>1, <2>1, Names DEF Begins
<1>7. /\ s.owed => Chunked(a, k, i, e.tag)
      /\ ~s.owed => Bracketed(a, k, i)
  BY <1>0, <1>6 DEF Begins, Chunked, Bracketed, Streaming
<1>8. PICK d : Closes(c, open, r, gone, d)
  <2> HIDE DEF g
  <2> QED BY <1>0, ClosingOwner
<1>9. gone \in SUBSET Listed(open) /\ \A t \in gone : t.owner = e.tag
  OBVIOUS
<1>10. \A t \in Listed(open) \ gone : t.owner # e.tag
  OBVIOUS
<1>11. \A l \in Kinds, j \in Ids : now[l][j] = IF l = k /\ j = i THEN x ELSE v.open[l][j]
  <2> HIDE DEF x
  <2> QED BY <1>0, <1>1, <1>4 DEF OpenOf
<1>12. /\ owner \in Owners
       /\ \A m \in Buckets, j \in Ids : owner[m][j] = IF m = b /\ j = i THEN o ELSE v.owner[m][j]
  <2> HIDE DEF o
  <2> QED BY <1>0, <1>1, <1>3, OwnersRewritten
<1> HIDE DEF r, gone, w, now, owner
<1>13. InFlight(a, v.open, v.owner, r.open, d.open)
  BY <1>0, <1>8, <1>9, StillInFlight
<1>14. Passes(c, r.out, d) /\ Turns(c, d, d.open, c.owner) /\ r.open \in Seq(N!Stream) /\ Listed(r.open) = Listed(open) \ gone
  BY <1>8 DEF Closes
<1>15. d \in C!Verifier /\ d.started /\ ~d.finished /\ Alike(v, d) /\ d.owner = v.owner /\ d.open \in OpenOf(ChunkKinds)
  BY <1>0, <1>14, ClientFields DEF Turns, Alike
<1>16. d.open[k][i] = Absent
  BY <1>1, <1>8 DEF Closes
<1> DEFINE z == C!Verify(d, f)
           heard == [d.open EXCEPT ![k][i] = o]
<1>17. C!Accepts(d, f) /\ Turns(d, z, heard, [d.owner EXCEPT ![b][i] = o])
  BY <1>1, <1>15, <1>16, StartHeard
<1>18. Passes(c, Append(r.out, f), z)
  BY <1>0, <1>14, <1>17, PassesMore DEF StartOf
<1>19. \A l \in ChunkKinds, j \in Ids : heard[l][j] = IF l = k /\ j = i THEN o ELSE d.open[l][j]
  <2> HIDE DEF o
  <2> QED BY <1>1, <1>3, <1>15 DEF OpenOf
<1>20. z.open = heard /\ z.owner = owner /\ z.started /\ ~z.finished /\ Alike(w, z)
  <2>1. z.owner = owner
    BY <1>15, <1>17 DEF Turns, owner
  <2> HIDE DEF z
  <2> QED BY <1>5, <1>15, <1>17, <2>1 DEF Turns, Proceeds, Alike
<1> HIDE DEF z, heard, o, x
<1>21. InFlight(a, v.open, owner, r.open, d.open)
  <2>1. \A l \in Kinds, j \in Ids : v.owner[BucketOf(l)][j] # Absent => owner[BucketOf(l)][j] = v.owner[BucketOf(l)][j]
    BY <1>3, <1>12, Vocabulary
  <2>2. \A l \in ChunkKinds, j \in Ids, h \in Owner :
           Chunked(a, l, j, h) /\ v.owner[BucketOf(l)][j] # Absent => owner[BucketOf(l)][j] = v.owner[BucketOf(l)][j]
    BY <2>1, Vocabulary
  <2>3. \A j \in Ids : v.open["block"][j] # Absent => owner["reasoning"][j] = v.owner["reasoning"][j]
    <3>1. \A j \in Ids : v.owner["reasoning"][j] # Absent => owner["reasoning"][j] = v.owner["reasoning"][j]
      BY <1>3, <1>12, Vocabulary
    <3> QED BY <1>0, <3>1 DEF InFlight
  <2> QED BY <1>13, <1>14, <2>2, <2>3, Reowned
<1>22. Entry(a, owner, heard, s)
  <2>1. heard[k][i] = o /\ owner[b][i] = o /\ o # Absent
    BY <1>1, <1>3, <1>12, <1>19, Vocabulary
  <2> QED BY <1>3, <1>6, <1>7, <2>1 DEF Entry
<1>23. /\ Append(r.open, s) \in Seq(N!Stream)
       /\ InFlight(a, now, owner, Append(r.open, s), heard)
  <2>1. \A t \in Listed(r.open) : t.owner # s.owner /\ ~(t.kind = s.kind /\ t.id = s.id)
    BY <1>1, <1>6, <1>10, <1>14
  <2>2. \A l \in ChunkKinds, j \in Ids : heard[l][j] = IF l = s.kind /\ j = s.id THEN o ELSE d.open[l][j]
    BY <1>6, <1>19
  <2>3. \A l \in Kinds, j \in Ids : l # s.kind \/ j # s.id => now[l][j] = v.open[l][j]
    BY <1>6, <1>11
  <2>4. now[s.kind][s.id] = IF s.owed THEN Absent ELSE o
    BY <1>1, <1>6, <1>11 DEF x
  <2>5. ~s.owed => Bracketed(a, s.kind, s.id)
    BY <1>6, <1>7
  <2> QED BY <1>3, <1>6, <1>14, <1>21, <1>22, <2>1, <2>2, <2>3, <2>4, <2>5, Begun
<1>24. z.open[k][i] # Absent /\ Agrees(e.tag, z.open[k][i])
  BY <1>1, <1>3, <1>19, <1>20, Vocabulary
<1>25. w \in S!Verifier /\ w.started /\ w.open = now /\ w.owner = owner
  BY <1>0, <1>5 DEF Proceeds
<1>26. Accord(a, w, Append(r.open, s), z)
  BY <1>20, <1>23, <1>25 DEF Accord
<1> QED BY <1>18, <1>20, <1>23, <1>24, <1>25, <1>26 DEF r, w

\* Of a stream that is not in flight, only the tag tells the owner.
LEMMA NoneListed ==
    ASSUME NEW open \in Seq(N!Stream), NEW k, NEW i, NEW g,
           \A t \in Listed(open) : ~(t.kind = k /\ t.id = i)
    PROVE  N!OwnerOf(open, k, i, g) = g
<1> DEFINE n == N!OfId(open, k, i)
<1>1. \/ n = 0
      \/ n \in DOMAIN open /\ open[n].kind = k /\ open[n].id = i
  BY IdFound
<1>2. N!OwnerOf(open, k, i, g) = IF g # None THEN g ELSE IF n = 0 THEN None ELSE open[n].owner
  BY DEF N!OwnerOf
<1> HIDE DEF n
<1>3. n = 0
  BY <1>1, ListedOnes
<1> QED BY <1>2, <1>3

\* The stream an owner has, if it has one of this kind.
LEMMA CurrentListed ==
    ASSUME NEW open \in Seq(N!Stream), Single(open), NEW k, NEW g
    PROVE  /\ N!Current(open, k, g) # None =>
                 \E s \in Listed(open) : s.kind = k /\ s.owner = g /\ s.id = N!Current(open, k, g)
           /\ \A s \in Listed(open) : s.kind = k /\ s.owner = g => N!Current(open, k, g) = s.id
<1> DEFINE n == N!OfOwner(open, g)
<1>1. \/ n = 0 /\ \A s \in Listed(open) : s.owner # g
      \/ n \in DOMAIN open /\ open[n].owner = g
  BY OwnerFound
<1>2. N!Current(open, k, g) = IF n # 0 /\ open[n].kind = k THEN open[n].id ELSE None
  BY DEF N!Current
<1>3. n \in DOMAIN open => n # 0
  OBVIOUS
<1> HIDE DEF n
<1>4. n \in DOMAIN open => open[n] \in Listed(open)
  BY ListedOnes
<1>5. N!Current(open, k, g) # None =>
         \E s \in Listed(open) : s.kind = k /\ s.owner = g /\ s.id = N!Current(open, k, g)
  BY <1>1, <1>2, <1>3, <1>4
<1>6. ASSUME NEW s \in Listed(open), s.kind = k, s.owner = g
      PROVE  N!Current(open, k, g) = s.id
  <2>1. n \in DOMAIN open /\ open[n].owner = g
    BY <1>1, <1>6
  <2>2. open[n] = s
    BY <1>4, <1>6, <2>1, ListedOnes
  <2> QED BY <1>2, <1>3, <1>6, <2>1, <2>2
<1> QED BY <1>5, <1>6

\* START of a stream.
LEMMA OnStart ==
    ASSUME NEW a, NEW v, NEW open, NEW c, NEW e, Ready(a, v, open, c, e), e.type = "START", e.kind # "block"
    PROVE  Conveys(a, S!Fold(v, e), N!Normalize(open, e), c)
<1> DEFINE k == e.kind
           i == e.id
           r == N!CloseOwner(open, e.tag)
           s == [kind |-> k, id |-> i, owed |-> e.type # "START", owner |-> e.tag]
<1>0. /\ a \in Agents /\ Orderly(a) /\ e \in Emits[a] /\ e \in Heard /\ open \in Seq(N!Stream)
      /\ InFlight(a, v.open, v.owner, open, c.open)
  BY ReadyFacts
<1>1. k \in ChunkKinds /\ i \in Ids /\ e.tag \in Owner /\ k \in Kinds
  BY ReadyFacts, StreamKinds
<1>2. S!MayOwn(v, e) /\ v.open[k][i] = Absent
  BY ReadyFacts, Names DEF S!StreamRules, S!IsOpen
<1>3. Bracketed(a, k, i)
  BY <1>0 DEF Bracketed, Streaming
<1>4. c.open[k][i] = Absent
  <2>1. ~Owes(Listed(open), k, i)
    BY <1>0, <1>3, OrderlyFacts DEF Owes, InFlight, Entry
  <2> QED BY <1>0, <1>1, <1>2, <2>1 DEF InFlight
<1>5. \A t \in Listed(open) : ~(t.kind = k /\ t.id = i)
  BY <1>0, <1>4 DEF InFlight, Entry
<1>6. N!OwnerOf(open, k, i, e.tag) = e.tag
  BY <1>0, <1>5, NoneListed
<1>7. N!Current(open, k, e.tag) # i
  BY <1>0, <1>1, <1>5, CurrentListed, Vocabulary DEF InFlight
<1>8. N!ObserveExplicit(open, e) = N!Result(TRUE, r.out, Append(r.open, s))
  <2>1. (e.type # "START") = FALSE
    OBVIOUS
  <2>2. N!ObserveExplicit(open, e) = N!OpenExplicit(open, e)
    BY DEF N!ObserveExplicit
  <2> QED BY <1>6, <1>7, <2>1, <2>2 DEF N!OpenExplicit
<1>9. N!Normalize(open, e) = [ok |-> TRUE, out |-> Append(r.out, e), open |-> Append(r.open, s)]
  BY <1>8, Normalized
<1>10. Begins(e, s) /\ StartOf(e, e) /\ Unheard(v, open, c, e)
  BY <1>0, <1>1, <1>2, <1>4, <1>5 DEF Begins, StartOf, Unheard
<1> HIDE DEF s
<1>11. /\ S!Fold(v, e) \in S!Verifier /\ S!Fold(v, e).started
       /\ Append(r.open, s) \in Seq(N!Stream)
       /\ \E z : Passes(c, Append(r.out, e), z) /\ Accord(a, S!Fold(v, e), Append(r.open, s), z)
  BY <1>10, Beginning
<1> HIDE DEF r
<1> QED BY <1>9, <1>11 DEF Conveys

\* Rewriting an entry as it was changes nothing.
LEMMA SameWritten ==
    ASSUME NEW kinds, NEW f \in OpenOf(kinds), NEW k \in kinds, NEW i \in Ids
    PROVE  [f EXCEPT ![k][i] = f[k][i]] = f
BY DEF OpenOf

\* Owners are the same kind of table.
LEMMA OwnersOpen ==
    /\ Owners = OpenOf(Buckets)
BY DEF Owners, OpenOf

\* A chunk the normalizer cannot place leaves everything as it was.
LEMMA ChunkRefused ==
    ASSUME NEW open, NEW e, e.type = "CHUNK"
    PROVE  /\ N!Normalize(open, e).ok \in BOOLEAN
           /\ ~N!Normalize(open, e).ok => N!Normalize(open, e) = [ok |-> FALSE, out |-> <<>>, open |-> open]
BY DEF N!Normalize, N!ExpandChunk, N!Result

\* What a placed one becomes: more of the stream its owner has in flight, or a new one.
PlacedAs(e, open, i, g) ==
    /\ e.type = "CHUNK" /\ i = N!StreamId(open, e) /\ g = N!OwnerOf(open, e.kind, i, e.tag)
    /\ N!Normalize(open, e).ok

Goes(open, e, i, g) ==
    N!Normalize(open, e) = [ok |-> TRUE, out |-> <<Content(e.kind, i, g)>>, open |-> open]

Opens(open, e, i, g) ==
    N!Normalize(open, e) =
       [ok |-> TRUE,
        out |-> N!CloseOwner(open, g).out \o <<Opening(e.kind, i, g, e.parent), Content(e.kind, i, g)>>,
        open |-> Append(N!CloseOwner(open, g).open,
                        [kind |-> e.kind, id |-> i, owed |-> TRUE, owner |-> g])]

\* Those are the two it can become.
LEMMA ChunkPlaced ==
    ASSUME NEW open, NEW e, NEW i, NEW g, PlacedAs(e, open, i, g)
    PROVE  /\ i # None
           /\ N!Current(open, e.kind, g) = i => Goes(open, e, i, g)
           /\ N!Current(open, e.kind, g) # i => Opens(open, e, i, g)
<1> USE DEF PlacedAs
<1>1. N!Normalize(open, e) = N!ExpandChunk(open, e)
  BY DEF N!Normalize
<1>2. [N!Start(e.kind, i, g) EXCEPT !.parent = e.parent] = Opening(e.kind, i, g, e.parent)
  BY DEF N!Start, Opening
<1>3. N!Content(e.kind, i, g) = Content(e.kind, i, g)
  BY DEF N!Content, Content
<1> DEFINE refused == i = None \/ (N!Current(open, e.kind, g) # i /\ e.kind = "tool" /\ ~e.named)
           start == [N!Start(e.kind, i, g) EXCEPT !.parent = e.parent]
           content == N!Content(e.kind, i, g)
           closed == N!CloseOwner(open, g)
<1>4. N!ExpandChunk(open, e) =
         IF refused THEN N!Result(FALSE, <<>>, open)
         ELSE IF ~(N!Current(open, e.kind, g) # i) THEN N!Result(TRUE, <<content>>, open)
         ELSE N!Result(TRUE, closed.out \o <<start, content>>,
                       Append(closed.open, [kind |-> e.kind, id |-> i, owed |-> TRUE, owner |-> g]))
  BY DEF N!ExpandChunk
<1> HIDE DEF start, content, closed
<1>5. ~refused
  BY <1>1, <1>4 DEF N!Result
<1>6. start = Opening(e.kind, i, g, e.parent) /\ content = Content(e.kind, i, g)
  BY <1>2, <1>3 DEF start, content
<1>7. closed = N!CloseOwner(open, g)
  BY DEF closed
<1> HIDE DEF refused
<1>8. N!Current(open, e.kind, g) = i =>
         N!Normalize(open, e) = [ok |-> TRUE, out |-> <<Content(e.kind, i, g)>>, open |-> open]
  BY <1>1, <1>4, <1>5, <1>6 DEF N!Result
<1>9. N!Current(open, e.kind, g) # i =>
         N!Normalize(open, e) =
            [ok |-> TRUE, out |-> closed.out \o <<Opening(e.kind, i, g, e.parent), Content(e.kind, i, g)>>,
             open |-> Append(closed.open, [kind |-> e.kind, id |-> i, owed |-> TRUE, owner |-> g])]
  BY <1>1, <1>4, <1>5, <1>6 DEF N!Result
<1> QED BY <1>5, <1>7, <1>8, <1>9 DEF refused, Goes, Opens

\* The normalizer's own CONTENT is taken likewise.
LEMMA ContentHeard ==
    ASSUME NEW d \in C!Verifier, d.started, ~d.finished, NEW k \in ChunkKinds, NEW i \in Ids, NEW g \in Owner,
           d.open[k][i] # Absent, Agrees(g, d.open[k][i])
    PROVE  /\ Content(k, i, g) \in Heard /\ C!Accepts(d, Content(k, i, g))
           /\ C!Verify(d, Content(k, i, g)) = d
<1> DEFINE e == Content(k, i, g)
<1>1. e.type = "CONTENT" /\ e.kind = k /\ e.id = i /\ e.tag = g /\ e.kind # "block"
  BY Vocabulary DEF Content
<1>2. e \in Heard
  BY HeardOnes
<1> HIDE DEF e
<1>3. C!Accepts(d, e) /\ C!Verify(d, e) = d
  BY <1>1, HeardContent
<1> QED BY <1>2, <1>3 DEF e

\* The START and the CONTENT of a first chunk.
LEMMA TwoMore ==
    ASSUME NEW xs \in Seq(Heard), NEW e \in Heard, NEW f \in Heard
    PROVE  xs \o <<e, f>> = Append(Append(xs, e), f)
OBVIOUS

\* A chunk that names its stream.
LEMMA OnNamed ==
    ASSUME NEW a, NEW v, NEW open, NEW c, NEW e, Ready(a, v, open, c, e), Named(e), N!Normalize(open, e).ok
    PROVE  Conveys(a, S!Fold(v, e), N!Normalize(open, e), c)
<1> DEFINE k == e.kind
           i == e.id
           g == e.tag
           b == BucketOf(e.kind)
           w == S!Fold(v, e)
           o == S!OwnerOf(v, e)
           p == N!Normalize(open, e)
<1>0. /\ a \in Agents /\ Orderly(a) /\ e \in Emits[a] /\ open \in Seq(N!Stream) /\ e.type = "CHUNK"
      /\ v \in S!Verifier /\ c \in C!Verifier /\ v.started /\ ~v.ended /\ c.started /\ ~c.finished
      /\ InFlight(a, v.open, v.owner, open, c.open) /\ Alike(v, c) /\ WellFormed(e)
      /\ v.open \in OpenOf(Kinds) /\ v.owner \in Owners
  BY ReadyFacts DEF Named
<1>1. /\ k \in ChunkKinds /\ i \in Ids /\ g \in Owner /\ k \in Kinds /\ i # None
      /\ e.parent \in Ids \cup {None} /\ b \in Buckets
  BY <1>0, Vocabulary DEF WellFormed, Named
<1>2. S!MayOwn(v, e)
  BY ReadyFacts DEF S!StreamRules, Named
<1>3. Chunked(a, k, i, g) /\ ~Bracketed(a, k, i) /\ \A h : Chunked(a, k, i, h) => (g = None <=> h = None)
  <2>1. Chunked(a, k, i, g)
    BY <1>0 DEF Chunked
  <2> QED BY <1>0, <2>1, OrderlyFacts
<1>4. v.open[k][i] = Absent
  BY <1>0, <1>1, <1>3 DEF InFlight
<1>5. ASSUME NEW s \in Listed(open), s.kind = k, s.id = i
      PROVE  /\ s.owed /\ (g = None <=> s.owner = None)
             /\ v.owner[b][i] # Absent /\ Agrees(s.owner, v.owner[b][i])
             /\ c.open[k][i] # Absent /\ Agrees(s.owner, c.open[k][i])
  <2>1. Entry(a, v.owner, c.open, s)
    BY <1>0 DEF InFlight
  <2>2. s.owed
    BY <1>3, <1>5, <2>1 DEF Entry
  <2>3. Chunked(a, k, i, s.owner)
    BY <1>5, <2>1, <2>2 DEF Entry
  <2> QED BY <1>3, <1>5, <2>1, <2>2, <2>3 DEF Entry
<1>6. N!StreamId(open, e) = i
  BY <1>1 DEF N!StreamId
<1>7. N!OwnerOf(open, k, i, g) = g
  <2> DEFINE n == N!OfId(open, k, i)
  <2>1. \/ n = 0
        \/ n \in DOMAIN open /\ open[n].kind = k /\ open[n].id = i
    BY <1>0, IdFound
  <2>2. N!OwnerOf(open, k, i, g) = IF g # None THEN g ELSE IF n = 0 THEN None ELSE open[n].owner
    BY DEF N!OwnerOf
  <2> HIDE DEF n
  <2>3. n \in DOMAIN open => open[n] \in Listed(open)
    BY <1>0, ListedOnes
  <2> QED BY <1>5, <2>1, <2>2, <2>3
<1>8. /\ o \in Owner
      /\ g # None => o = g
      /\ v.owner[b][i] # Absent => o = v.owner[b][i]
  BY <1>0, <1>1, <1>2, OwnerFacts
<1>9. PlacedAs(e, open, i, g)
  BY <1>0, <1>6, <1>7 DEF PlacedAs
<1>10. CASE N!Current(open, k, g) = i
  <2>1. p = [ok |-> TRUE, out |-> <<Content(k, i, g)>>, open |-> open]
    BY <1>9, <1>10, ChunkPlaced DEF Goes
  <2>2. PICK s \in Listed(open) : s.kind = k /\ s.owner = g /\ s.id = i
    BY <1>0, <1>1, <1>10, CurrentListed DEF InFlight
  <2>3. o = v.owner[b][i] /\ c.open[k][i] # Absent /\ Agrees(g, c.open[k][i])
    BY <1>5, <1>8, <2>2
  <2>4. w \in S!Verifier /\ w.started /\ ~w.ended /\ w.open = v.open /\ Alike(w, c)
    <3> DEFINE now == [v.open EXCEPT ![k][i] = Absent]
               owner == [v.owner EXCEPT ![b][i] = o]
    <3>1. Proceeds(v, w, now, owner)
      BY <1>0, ServerOpens
    <3>2. now = v.open
      BY <1>0, <1>1, <1>4, SameWritten
    <3>3. owner = v.owner
      <4>1. v.owner \in OpenOf(Buckets)
        BY <1>0, OwnersOpen
      <4> QED BY <1>1, <2>3, <4>1, SameWritten
    <3> HIDE DEF now, owner, w
    <3> QED BY <1>0, <3>1, <3>2, <3>3 DEF Proceeds, Alike
  <2>5. Content(k, i, g) \in Heard /\ C!Accepts(c, Content(k, i, g)) /\ C!Verify(c, Content(k, i, g)) = c
    BY <1>0, <1>1, <2>3, ContentHeard
  <2>6. Passes(c, <<Content(k, i, g)>>, c)
    <3>1. <<Content(k, i, g)>> = Append(<<>>, Content(k, i, g))
      OBVIOUS
    <3> QED BY <1>0, <2>5, <3>1, PassesNone, PassesMore
  <2>7. Accord(a, w, open, c)
    <3>1. w.owner = v.owner
      BY <1>0, <2>4 DEF Alike
    <3> QED BY <1>0, <2>4, <3>1 DEF Accord
  <2> HIDE DEF w, p
  <2>8. Conveys(a, w, p, c)
    BY <1>0, <2>1, <2>4, <2>6, <2>7 DEF Conveys
  <2> QED BY <2>8 DEF w, p
<1>11. CASE N!Current(open, k, g) # i
  <2> DEFINE r == N!CloseOwner(open, g)
             s == [kind |-> k, id |-> i, owed |-> TRUE, owner |-> g]
             f == Opening(k, i, g, e.parent)
  <2>1. p = [ok |-> TRUE, out |-> r.out \o <<f, Content(k, i, g)>>, open |-> Append(r.open, s)]
    BY <1>9, <1>11, ChunkPlaced DEF Opens
  <2>2. \A t \in Listed(open) : ~(t.kind = k /\ t.id = i)
    <3> SUFFICES ASSUME NEW t \in Listed(open), t.kind = k, t.id = i PROVE FALSE
      OBVIOUS
    <3>1. (g = None <=> t.owner = None) /\ v.owner[b][i] # Absent /\ Agrees(t.owner, v.owner[b][i])
      BY <1>5
    <3>2. t.owner = g
      BY <1>8, <3>1 DEF Agrees
    <3>3. N!Current(open, k, g) = i
      BY <1>0, <3>2, CurrentListed DEF InFlight
    <3> QED BY <1>11, <3>3
  <2>3. c.open[k][i] = Absent
    <3>1. ~Owes(Listed(open), k, i)
      BY <2>2 DEF Owes
    <3> QED BY <1>0, <1>1, <1>4, <3>1 DEF InFlight
  <2>4. f \in Heard
    BY <1>1, HeardOnes
  <2>5. Begins(e, s)
    <3>1. (e.type # "START") = TRUE
      BY <1>0
    <3> QED BY <3>1 DEF Begins
  <2>6. StartOf(e, f)
    BY <2>4 DEF StartOf, Opening
  <2>7. Unheard(v, open, c, e)
    BY <1>1, <1>2, <1>4, <2>2, <2>3 DEF Unheard
  <2> HIDE DEF s, f
  <2>8. /\ w \in S!Verifier /\ w.started /\ Append(r.open, s) \in Seq(N!Stream)
        /\ \E z : /\ Passes(c, Append(r.out, f), z) /\ Accord(a, w, Append(r.open, s), z)
                  /\ z.started /\ ~z.finished /\ z.open[k][i] # Absent /\ Agrees(g, z.open[k][i])
    BY <2>5, <2>6, <2>7, Beginning
  <2>9. PICK z : /\ Passes(c, Append(r.out, f), z) /\ Accord(a, w, Append(r.open, s), z)
                 /\ z.started /\ ~z.finished /\ z.open[k][i] # Absent /\ Agrees(g, z.open[k][i])
    BY <2>8
  <2>10. z \in C!Verifier
    BY <2>9 DEF Passes
  <2>11. Content(k, i, g) \in Heard /\ C!Accepts(z, Content(k, i, g)) /\ C!Verify(z, Content(k, i, g)) = z
    BY <1>1, <2>9, <2>10, ContentHeard
  <2>12. Passes(c, Append(Append(r.out, f), Content(k, i, g)), z)
    BY <1>0, <2>9, <2>11, PassesMore
  <2>13. r.out \in Seq(Heard)
    <3>1. Brief(r.out)
      BY <1>0, ClosingOwner
    <3> HIDE DEF r
    <3>2. <<>> \in Seq(Heard) /\ \A y \in Heard : <<y>> \in Seq(Heard)
      OBVIOUS
    <3> QED BY <3>1, <3>2 DEF Brief
  <2>14. r.out \o <<f, Content(k, i, g)>> = Append(Append(r.out, f), Content(k, i, g))
    BY <2>4, <2>11, <2>13, TwoMore
  <2> HIDE DEF r, w, p
  <2>15. Conveys(a, w, p, c)
    BY <2>1, <2>8, <2>9, <2>12, <2>14 DEF Conveys
  <2> QED BY <2>15 DEF w, p
<1> QED BY <1>10, <1>11

\* A chunk without an id goes on with a stream in flight.
LEMMA NamelessGoesOn ==
    ASSUME NEW open \in Seq(N!Stream), Single(open), NEW e, e.id = None, NEW i, i = N!StreamId(open, e), i # None,
           NEW g, g = N!OwnerOf(open, e.kind, i, e.tag)
    PROVE  N!Current(open, e.kind, g) = i
<1> DEFINE k == e.kind
           ofKind == {n \in DOMAIN open : open[n].kind = k}
           own == N!Current(open, k, e.tag)
           m == N!OfId(open, k, i)
<1>1. i = IF e.tag # None \/ own # None THEN own
          ELSE IF \E n \in ofKind : ofKind = {n} THEN open[CHOOSE n \in ofKind : TRUE].id ELSE None
  BY DEF N!StreamId
<1>2. g = IF e.tag # None THEN e.tag ELSE IF m = 0 THEN None ELSE open[m].owner
  BY DEF N!OwnerOf
<1>3. CASE e.tag # None
  BY <1>1, <1>2, <1>3
<1>4. CASE e.tag = None
  <2>1. \E s \in Listed(open) : s.kind = k /\ s.id = i
    <3>1. CASE own # None
      <4>1. i = own
        BY <1>1, <3>1
      <4> QED BY <3>1, <4>1, CurrentListed
    <3>2. CASE own = None
      <4> DEFINE n == CHOOSE n \in ofKind : TRUE
      <4>1. (\E l \in ofKind : ofKind = {l}) /\ i = open[n].id
        BY <1>1, <1>4, <3>2
      <4>2. n \in ofKind
        BY <4>1
      <4> HIDE DEF n
      <4>3. n \in DOMAIN open /\ open[n].kind = k
        BY <4>2
      <4> QED BY <4>1, <4>3, ListedOnes
    <3> QED BY <3>1, <3>2
  <2>2. \/ m = 0 /\ \A s \in Listed(open) : ~(s.kind = k /\ s.id = i)
        \/ m \in DOMAIN open /\ open[m].kind = k /\ open[m].id = i
    BY IdFound
  <2>3. DOMAIN open = 1..Len(open) /\ 0 \notin 1..Len(open)
    OBVIOUS
  <2> HIDE DEF m
  <2>4. m \in DOMAIN open /\ m # 0 /\ open[m].kind = k /\ open[m].id = i
    BY <2>1, <2>2, <2>3
  <2>5. open[m] \in Listed(open) /\ open[m].owner = g
    BY <1>2, <1>4, <2>4, ListedOnes
  <2> QED BY <2>4, <2>5, CurrentListed
<1> QED BY <1>3, <1>4

\* So it is heard as more of that stream.
LEMMA OnNameless ==
    ASSUME NEW a, NEW v, NEW open, NEW c, NEW e, Ready(a, v, open, c, e), e.type = "CHUNK", ~Named(e),
           N!Normalize(open, e).ok
    PROVE  Conveys(a, S!Fold(v, e), N!Normalize(open, e), c)
<1> DEFINE k == e.kind
           i == N!StreamId(open, e)
           g == N!OwnerOf(open, e.kind, i, e.tag)
           p == N!Normalize(open, e)
<1>0. /\ a \in Agents /\ Orderly(a) /\ open \in Seq(N!Stream) /\ Single(open)
      /\ v \in S!Verifier /\ c \in C!Verifier /\ v.started /\ ~v.ended /\ c.started /\ ~c.finished
      /\ InFlight(a, v.open, v.owner, open, c.open) /\ Accord(a, v, open, c) /\ WellFormed(e)
  BY ReadyFacts DEF Ready, InFlight
<1>1. PlacedAs(e, open, i, g) /\ e.id = None
  BY DEF PlacedAs, Named
<1> HIDE DEF i, g
<1>2. i # None
  BY <1>1, ChunkPlaced
<1>3. N!Current(open, k, g) = i
  BY <1>0, <1>1, <1>2, NamelessGoesOn DEF PlacedAs
<1>4. Goes(open, e, i, g)
  BY <1>1, <1>3, ChunkPlaced
<1>5. PICK s \in Listed(open) : s.kind = k /\ s.owner = g /\ s.id = i
  BY <1>0, <1>2, <1>3, CurrentListed
<1>6. k \in ChunkKinds /\ i \in Ids /\ g \in Owner
  BY <1>0, <1>5, ListedFields
<1>7. c.open[k][i] # Absent /\ Agrees(g, c.open[k][i])
  BY <1>0, <1>5 DEF InFlight, Entry
<1>8. Content(k, i, g) \in Heard /\ C!Accepts(c, Content(k, i, g)) /\ C!Verify(c, Content(k, i, g)) = c
  BY <1>0, <1>6, <1>7, ContentHeard
<1>9. Passes(c, <<Content(k, i, g)>>, c)
  <2>1. <<Content(k, i, g)>> = Append(<<>>, Content(k, i, g))
    OBVIOUS
  <2> QED BY <1>0, <1>8, <2>1, PassesNone, PassesMore
<1>10. S!Fold(v, e) = v
  BY <1>0, ServerStays
<1>11. p = [ok |-> TRUE, out |-> <<Content(k, i, g)>>, open |-> open]
  BY <1>4 DEF Goes
<1> HIDE DEF p
<1>12. Conveys(a, v, p, c)
  BY <1>0, <1>9, <1>11 DEF Conveys
<1> QED BY <1>10, <1>12 DEF p

\* END of a stream: it is forgotten here and closed on both sides.
LEMMA OnEnd ==
    ASSUME NEW a, NEW v, NEW open, NEW c, NEW e, Ready(a, v, open, c, e), e.type = "END", e.kind # "block"
    PROVE  Conveys(a, S!Fold(v, e), N!Normalize(open, e), c)
<1> DEFINE k == e.kind
           i == e.id
           left == N!Others(open, k, i)
           p == N!Normalize(open, e)
           w == S!Fold(v, e)
           d == C!Verify(c, e)
<1>0. /\ a \in Agents /\ Orderly(a) /\ e \in Heard /\ WellFormed(e) /\ v \in S!Verifier /\ c \in C!Verifier
      /\ open \in Seq(N!Stream) /\ v.started /\ ~v.ended /\ c.started /\ ~c.finished
      /\ InFlight(a, v.open, v.owner, open, c.open) /\ Alike(v, c)
      /\ v.open \in OpenOf(Kinds) /\ c.open \in OpenOf(ChunkKinds)
  BY ReadyFacts
<1>1. k \in ChunkKinds /\ i \in Ids /\ e.tag \in Owner /\ k \in Kinds
  BY ReadyFacts, StreamKinds
<1>2. v.open[k][i] # Absent /\ Agrees(e.tag, v.open[k][i])
  BY ReadyFacts, Names DEF S!StreamRules, S!IsOpen
<1>3. c.open[k][i] # Absent /\ Agrees(e.tag, c.open[k][i])
  BY <1>0, <1>1, <1>2 DEF InFlight
<1>4. C!Accepts(c, e)
  BY <1>0, <1>3, ClientJudges
<1>5. Turns(c, d, [c.open EXCEPT ![k][i] = Absent], c.owner)
  BY <1>0, <1>4, ClientEnds
<1>6. Proceeds(v, w, [v.open EXCEPT ![k][i] = Absent], v.owner)
  BY <1>0, ServerEnds
<1>7. N!ObserveExplicit(open, e) = N!Result(TRUE, <<>>, left)
  BY DEF N!ObserveExplicit, N!CloseExplicit
<1>8. p = [ok |-> TRUE, out |-> Append(<<>>, e), open |-> left]
  BY <1>7, Normalized
<1>9. Passes(c, Append(<<>>, e), d)
  BY <1>0, <1>4, PassesNone, PassesMore
<1>10. /\ left \in Seq(N!Stream) /\ Single(left)
       /\ Listed(left) = {s \in Listed(open) : ~(s.kind = k /\ s.id = i)}
  BY <1>0, OthersListed DEF InFlight
<1>11. \A l \in ChunkKinds, j \in Ids : d.open[l][j] = IF l = k /\ j = i THEN Absent ELSE c.open[l][j]
  BY <1>0, <1>1, <1>5 DEF Turns, OpenOf
<1>12. \A l \in Kinds, j \in Ids : w.open[l][j] = IF l = k /\ j = i THEN Absent ELSE v.open[l][j]
  BY <1>0, <1>1, <1>6 DEF Proceeds, OpenOf
<1>13. w \in S!Verifier /\ w.started /\ ~w.ended /\ w.owner = v.owner /\ Alike(w, d)
  <2> HIDE DEF w, d
  <2> QED BY <1>0, <1>5, <1>6 DEF Proceeds, Turns, Alike
<1> HIDE DEF left, w, d, p
<1>14. ASSUME NEW s \in Listed(left)
       PROVE  Entry(a, v.owner, d.open, s)
  <2>1. s \in Listed(open) /\ ~(s.kind = k /\ s.id = i)
    BY <1>10
  <2>2. s.kind \in ChunkKinds /\ s.id \in Ids /\ Entry(a, v.owner, c.open, s)
    BY <1>0, <2>1, ListedFields DEF InFlight
  <2>3. d.open[s.kind][s.id] = c.open[s.kind][s.id]
    BY <1>11, <2>1, <2>2
  <2> QED BY <2>2, <2>3 DEF Entry
<1>15. ASSUME NEW l \in ChunkKinds, NEW j \in Ids
       PROVE  /\ w.open[l][j] # Absent => d.open[l][j] = w.open[l][j]
              /\ d.open[l][j] # Absent => w.open[l][j] # Absent \/ Owes(Listed(left), l, j)
  <2>1. CASE l = k /\ j = i
    BY <1>1, <1>11, <1>12, <2>1
  <2>2. CASE l # k \/ j # i
    <3>1. d.open[l][j] = c.open[l][j] /\ w.open[l][j] = v.open[l][j]
      BY <1>11, <1>12, <2>2, Vocabulary
    <3>2. Owes(Listed(open), l, j) => Owes(Listed(left), l, j)
      BY <1>10, <2>2 DEF Owes
    <3> QED BY <1>0, <3>1, <3>2 DEF InFlight
  <2> QED BY <2>1, <2>2
<1>16. \A l \in Kinds, j \in Ids : w.open[l][j] # Absent => Bracketed(a, l, j)
  BY <1>0, <1>12 DEF InFlight
<1>17. \A j \in Ids : w.open["block"][j] # Absent => v.owner["reasoning"][j] = w.open["block"][j]
  <2>1. "block" \in Kinds
    BY Vocabulary
  <2> QED BY <1>0, <1>12, <2>1 DEF InFlight
<1>18. InFlight(a, w.open, v.owner, left, d.open)
  BY <1>10, <1>14, <1>15, <1>16, <1>17 DEF InFlight
<1>19. Conveys(a, w, p, c)
  BY <1>8, <1>9, <1>10, <1>13, <1>18 DEF Conveys, Accord
<1> QED BY <1>19 DEF w, p

\* START of a reasoning block: it touches the owners only.
LEMMA OnBlockStart ==
    ASSUME NEW a, NEW v, NEW open, NEW c, NEW e, Ready(a, v, open, c, e), e.type = "START", e.kind = "block"
    PROVE  Conveys(a, S!Fold(v, e), N!Normalize(open, e), c)
<1> DEFINE i == e.id
           p == N!Normalize(open, e)
           w == S!Fold(v, e)
           d == C!Verify(c, e)
           o == S!OwnerOf(v, e)
           owner == [v.owner EXCEPT !["reasoning"][i] = o]
           now == [v.open EXCEPT !["block"][i] = o]
<1>0. /\ a \in Agents /\ e \in Emits[a] /\ e \in Heard /\ WellFormed(e) /\ v \in S!Verifier /\ c \in C!Verifier
      /\ open \in Seq(N!Stream) /\ v.started /\ ~v.ended /\ c.started /\ ~c.finished /\ e.type # "RUN_STARTED"
      /\ InFlight(a, v.open, v.owner, open, c.open) /\ Alike(v, c) /\ c.owner = v.owner
      /\ v.open \in OpenOf(Kinds) /\ v.owner \in Owners
  BY ReadyFacts
<1>1. i \in Ids /\ e.tag \in Owner /\ "block" \in Kinds /\ BucketOf(e.kind) = "reasoning" /\ "reasoning" \in Buckets
  BY <1>0, StreamKinds, Vocabulary
<1>2. S!MayOwn(v, e)
  BY ReadyFacts DEF S!StreamRules
<1>3. o \in Owner /\ (v.owner["reasoning"][i] # Absent => o = v.owner["reasoning"][i])
  BY <1>0, <1>1, <1>2, OwnerFacts
<1>4. C!MayOwn(c, e) /\ C!OwnerOf(c, e) = o
  BY <1>0, <1>2, SameRules
<1>5. C!Accepts(c, e)
  BY <1>0, <1>4, ClientJudges
<1>6. Turns(c, d, c.open, [c.owner EXCEPT !["reasoning"][i] = C!OwnerOf(c, e)])
  BY <1>0, <1>5, ClientBlocks
<1>7. Proceeds(v, w, now, owner)
  <2>1. Proceeds(v, w, [v.open EXCEPT ![e.kind][e.id] = o], [v.owner EXCEPT ![BucketOf(e.kind)][e.id] = o])
    BY <1>0, <1>3, ServerOpens
  <2> QED BY <1>1, <2>1
<1>8. N!ObserveExplicit(open, e) = N!Result(TRUE, <<>>, open)
  BY DEF N!ObserveExplicit
<1>9. p = [ok |-> TRUE, out |-> Append(<<>>, e), open |-> open]
  BY <1>8, Normalized
<1>10. Passes(c, Append(<<>>, e), d)
  BY <1>0, <1>5, PassesNone, PassesMore
<1>11. \A l \in Kinds, j \in Ids : now[l][j] = IF l = "block" /\ j = i THEN o ELSE v.open[l][j]
  <2> HIDE DEF o
  <2> QED BY <1>0, <1>1, <1>3 DEF OpenOf
<1>12. \A m \in Buckets, j \in Ids : owner[m][j] = IF m = "reasoning" /\ j = i THEN o ELSE v.owner[m][j]
  <2> HIDE DEF o
  <2> QED BY <1>0, <1>1, <1>3 DEF Owners
<1>13. Bracketed(a, "block", i)
  BY <1>0 DEF Bracketed, Streaming
<1>14. w \in S!Verifier /\ w.started /\ ~w.ended /\ w.open = now /\ w.owner = owner /\ d.open = c.open /\ Alike(w, d)
  <2>1. [c.owner EXCEPT !["reasoning"][i] = C!OwnerOf(c, e)] = owner
    BY <1>0, <1>4
  <2> HIDE DEF w, d, owner, now
  <2> QED BY <1>0, <1>6, <1>7, <2>1 DEF Proceeds, Turns, Alike
<1> HIDE DEF o, owner, now, w, d, p
<1>15. \A m \in Buckets, j \in Ids : v.owner[m][j] # Absent => owner[m][j] = v.owner[m][j]
  BY <1>3, <1>12
<1>16. InFlight(a, v.open, owner, open, c.open)
  <2>1. \A k \in ChunkKinds, j \in Ids, g \in Owner :
           Chunked(a, k, j, g) /\ v.owner[BucketOf(k)][j] # Absent => owner[BucketOf(k)][j] = v.owner[BucketOf(k)][j]
    <3>1. \A k \in ChunkKinds : BucketOf(k) \in Buckets
      BY Vocabulary
    <3> QED BY <1>15, <3>1
  <2>2. \A j \in Ids : v.open["block"][j] # Absent => owner["reasoning"][j] = v.owner["reasoning"][j]
    <3>1. \A j \in Ids : v.owner["reasoning"][j] # Absent => owner["reasoning"][j] = v.owner["reasoning"][j]
      BY <1>1, <1>15
    <3> QED BY <1>0, <3>1 DEF InFlight
  <2> QED BY <1>0, <2>1, <2>2, Reowned
<1>17. InFlight(a, now, owner, open, c.open)
  <2>1. \A l \in ChunkKinds, j \in Ids : now[l][j] = v.open[l][j]
    <3>1. "block" \notin ChunkKinds /\ ChunkKinds \subseteq Kinds
      BY Vocabulary
    <3> QED BY <1>11, <3>1
  <2>2. \A l \in Kinds, j \in Ids : now[l][j] # Absent => Bracketed(a, l, j)
    BY <1>11, <1>13, <1>16 DEF InFlight
  <2>3. \A j \in Ids : now["block"][j] # Absent => owner["reasoning"][j] = now["block"][j]
    BY <1>1, <1>11, <1>12, <1>16 DEF InFlight
  <2> QED BY <1>16, <2>1, <2>2, <2>3 DEF InFlight
<1>18. Conveys(a, w, p, c)
  BY <1>0, <1>9, <1>10, <1>14, <1>17 DEF Conveys, Accord
<1> QED BY <1>18 DEF w, p

\* END of a reasoning block: a message in flight under its id is closed first.
LEMMA OnBlockEnd ==
    ASSUME NEW a, NEW v, NEW open, NEW c, NEW e, Ready(a, v, open, c, e), e.type = "END", e.kind = "block"
    PROVE  Conveys(a, S!Fold(v, e), N!Normalize(open, e), c)
<1> DEFINE i == e.id
           p == N!Normalize(open, e)
           w == S!Fold(v, e)
           r == N!CloseId(open, "reasoning", i)
           now == [v.open EXCEPT !["block"][i] = Absent]
<1>0. /\ a \in Agents /\ Orderly(a) /\ e \in Heard /\ WellFormed(e) /\ v \in S!Verifier /\ c \in C!Verifier
      /\ open \in Seq(N!Stream) /\ v.started /\ ~v.ended /\ c.started /\ ~c.finished /\ e.type # "RUN_STARTED"
      /\ InFlight(a, v.open, v.owner, open, c.open) /\ Alike(v, c) /\ c.owner = v.owner
      /\ v.open \in OpenOf(Kinds)
  BY ReadyFacts
<1>1. i \in Ids /\ e.tag \in Owner /\ "block" \in Kinds /\ BucketOf(e.kind) = "reasoning"
  BY <1>0, StreamKinds, Vocabulary
<1>2. v.open["block"][i] # Absent /\ Agrees(e.tag, v.open["block"][i])
  BY ReadyFacts, Names DEF S!StreamRules, S!IsOpen
<1>3. v.owner["reasoning"][i] = v.open["block"][i]
  BY <1>0, <1>1, <1>2 DEF InFlight
<1>4. Proceeds(v, w, now, v.owner)
  BY <1>0, ServerEnds
<1>5. PICK d, gone : Closes(c, open, r, gone, d) /\ gone \subseteq Listed(open)
  BY <1>0, ClosingId
<1>6. N!ObserveExplicit(open, e) = N!Result(TRUE, r.out, r.open)
  <2>1. N!ObserveExplicit(open, e) = r
    BY DEF N!ObserveExplicit
  <2>2. r = N!Result(TRUE, r.out, r.open)
    BY DEF N!CloseId, N!CloseAt, N!Result
  <2> QED BY <2>1, <2>2
<1>7. p = [ok |-> TRUE, out |-> Append(r.out, e), open |-> r.open]
  BY <1>6, Normalized
<1>8. \A l \in Kinds, j \in Ids : now[l][j] = IF l = "block" /\ j = i THEN Absent ELSE v.open[l][j]
  BY <1>0, <1>1 DEF OpenOf
<1> HIDE DEF p, w, r, now
<1>9. InFlight(a, v.open, v.owner, r.open, d.open)
  BY <1>0, <1>5, StillInFlight
<1>10. Passes(c, r.out, d) /\ Turns(c, d, d.open, c.owner) /\ r.open \in Seq(N!Stream)
  BY <1>5 DEF Closes
<1>11. d \in C!Verifier /\ d.started /\ ~d.finished /\ Alike(v, d) /\ d.owner = v.owner
  BY <1>0, <1>10 DEF Turns, Alike
<1>12. C!Accepts(d, e)
  <2>1. C!ExpectOwner(C!Recorded(d, e), e.tag)
    BY <1>1, <1>2, <1>3, <1>11, Names DEF C!ExpectOwner, C!Recorded
  <2> QED BY <1>0, <1>11, <2>1, ClientJudges
<1>13. C!Verify(d, e) = d
  BY <1>11, <1>12, ClientStays
<1>14. Passes(c, Append(r.out, e), d)
  BY <1>0, <1>10, <1>12, <1>13, PassesMore
<1>15. InFlight(a, now, v.owner, r.open, d.open)
  <2>1. \A l \in ChunkKinds, j \in Ids : now[l][j] = v.open[l][j]
    <3>1. "block" \notin ChunkKinds /\ ChunkKinds \subseteq Kinds
      BY Vocabulary
    <3> QED BY <1>8, <3>1
  <2>2. \A l \in Kinds, j \in Ids : now[l][j] # Absent => Bracketed(a, l, j)
    BY <1>8, <1>9 DEF InFlight
  <2>3. \A j \in Ids : now["block"][j] # Absent => v.owner["reasoning"][j] = now["block"][j]
    BY <1>1, <1>8, <1>9 DEF InFlight
  <2> QED BY <1>9, <2>1, <2>2, <2>3 DEF InFlight
<1>16. w \in S!Verifier /\ w.started /\ ~w.ended /\ w.open = now /\ w.owner = v.owner /\ Alike(w, d)
  BY <1>0, <1>4, <1>11 DEF Proceeds, Alike
<1>17. Conveys(a, w, p, c)
  BY <1>7, <1>10, <1>14, <1>15, <1>16 DEF Conveys, Accord
<1> QED BY <1>17 DEF w, p

\* A result closes its call, and what the answering party streams.
LEMMA OnResult ==
    ASSUME NEW a, NEW v, NEW open, NEW c, NEW e, Ready(a, v, open, c, e), e.type = "TOOL_CALL_RESULT"
    PROVE  Conveys(a, S!Fold(v, e), N!Normalize(open, e), c)
<1> DEFINE p == N!Normalize(open, e)
           w == S!Fold(v, e)
           g == e.tag
           call == N!CloseId(open, "tool", e.call)
           rest == N!CloseOwner(call.open, g)
           answered(owners) == [owners EXCEPT !["message"][e.id] = e.tag]
<1>0. /\ a \in Agents /\ Orderly(a) /\ e \in Emits[a] /\ e \in Heard /\ WellFormed(e)
      /\ v \in S!Verifier /\ c \in C!Verifier
      /\ open \in Seq(N!Stream) /\ v.started /\ ~v.ended /\ c.started /\ ~c.finished /\ e.type # "RUN_STARTED"
      /\ InFlight(a, v.open, v.owner, open, c.open) /\ Alike(v, c) /\ c.owner = v.owner
      /\ v.owner \in Owners
  BY ReadyFacts
<1>1. e.id \in Ids /\ e.call \in Ids /\ e.tag \in Owner /\ "tool" \in ChunkKinds /\ "message" \in Buckets
  BY <1>0, Vocabulary DEF WellFormed
<1>2. v.open["tool"][e.call] = Absent
  BY ReadyFacts, Names DEF S!ContinuationRules, S!IsOpen
<1>3. PICK d, gone : /\ Closes(c, open, call, gone, d) /\ gone \subseteq Listed(open)
                     /\ Owes(Listed(open), "tool", e.call) => Owes(gone, "tool", e.call)
  BY <1>0, ClosingId
<1>4. N!ObserveExplicit(open, e) = N!Result(TRUE, call.out \o rest.out, rest.open)
  BY DEF N!ObserveExplicit, N!CloseForResult
<1>5. p = [ok |-> TRUE, out |-> Append(call.out \o rest.out, e), open |-> rest.open]
  BY <1>4, Normalized
<1>6. Proceeds(v, w, v.open, answered(v.owner))
  BY <1>0, ServerAnswers
<1> HIDE DEF p, w, call, g
<1>7. InFlight(a, v.open, v.owner, call.open, d.open)
  BY <1>0, <1>3, StillInFlight
<1>8. Passes(c, call.out, d) /\ Turns(c, d, d.open, c.owner) /\ call.open \in Seq(N!Stream)
  BY <1>3 DEF Closes
<1>9. d \in C!Verifier /\ d.started /\ ~d.finished /\ Alike(v, d) /\ d.owner = v.owner
  BY <1>0, <1>8 DEF Turns, Alike
<1>10. d.open["tool"][e.call] = Absent
  <2>1. d.open["tool"][e.call] = IF Owes(gone, "tool", e.call) THEN Absent ELSE c.open["tool"][e.call]
    BY <1>1, <1>3 DEF Closes
  <2>2. c.open["tool"][e.call] # Absent => Owes(Listed(open), "tool", e.call)
    BY <1>0, <1>1, <1>2 DEF InFlight
  <2>3. CASE Owes(gone, "tool", e.call)
    BY <2>1, <2>3
  <2>4. CASE ~Owes(gone, "tool", e.call)
    BY <1>3, <2>1, <2>2, <2>4
  <2> QED BY <2>3, <2>4
<1> DEFINE closed == {s \in Listed(call.open) : s.owner = g}
<1>11. PICK q : Closes(d, call.open, rest, closed, q) /\ Brief(rest.out)
  BY <1>7, <1>8, <1>9, <1>0, ClosingOwner
<1>12. closed \in SUBSET Listed(call.open)
  OBVIOUS
<1> HIDE DEF rest, closed
<1>13. InFlight(a, v.open, v.owner, rest.open, q.open)
  BY <1>0, <1>7, <1>8, <1>11, <1>12, StillInFlight
<1>14. Passes(d, rest.out, q) /\ Turns(d, q, q.open, d.owner) /\ rest.open \in Seq(N!Stream)
  BY <1>11 DEF Closes
<1>15. q \in C!Verifier /\ q.started /\ ~q.finished /\ Alike(v, q) /\ q.owner = v.owner
  BY <1>9, <1>14 DEF Turns, Alike
<1>16. q.open["tool"][e.call] = Absent
  BY <1>1, <1>10, <1>11 DEF Closes
<1>17. Passes(c, call.out \o rest.out, q)
  BY <1>0, <1>8, <1>11, <1>14, PassesJoin
<1>18. C!Accepts(q, e)
  BY <1>0, <1>15, <1>16, ClientJudges
<1> DEFINE z == C!Verify(q, e)
<1>19. Turns(q, z, q.open, answered(q.owner))
  BY <1>0, <1>15, <1>18, ClientAnswers
<1>20. Passes(c, Append(call.out \o rest.out, e), z)
  BY <1>0, <1>17, <1>18, PassesMore
<1>21. InFlight(a, v.open, answered(v.owner), rest.open, q.open)
  <2>1. \A m \in Buckets, j \in Ids : m # "message" \/ j # e.id => answered(v.owner)[m][j] = v.owner[m][j]
    BY <1>0, <1>1 DEF Owners
  <2>2. ASSUME NEW k \in ChunkKinds, NEW j \in Ids, NEW h \in Owner, Chunked(a, k, j, h)
        PROVE  answered(v.owner)[BucketOf(k)][j] = v.owner[BucketOf(k)][j]
    <3>1. BucketOf(k) \in Buckets /\ (BucketOf(k) = "message" => k = "text")
      BY Vocabulary
    <3>2. k = "text" => j # e.id
      BY <1>0, <2>2, OrderlyFacts
    <3> QED BY <2>1, <3>1, <3>2
  <2>3. \A j \in Ids : answered(v.owner)["reasoning"][j] = v.owner["reasoning"][j]
    <3>1. "reasoning" \in Buckets
      BY Vocabulary
    <3> QED BY <2>1, <3>1
  <2> HIDE DEF answered
  <2> QED BY <1>13, <1>14, <2>2, <2>3, Reowned
<1> HIDE DEF answered, z
<1>22. w \in S!Verifier /\ w.started /\ ~w.ended /\ w.open = v.open /\ w.owner = answered(v.owner) /\ Alike(w, z)
       /\ z.open = q.open
  <2>1. answered(q.owner) = answered(v.owner)
    BY <1>15
  <2> QED BY <1>0, <1>6, <1>15, <1>19, <2>1 DEF Proceeds, Turns, Alike
<1>23. Conveys(a, w, p, c)
  BY <1>5, <1>14, <1>20, <1>21, <1>22 DEF Conveys, Accord
<1> QED BY <1>23 DEF w, p

\* What settling every stream comes to at the consumer.
AllSettled(c, open, d) ==
    /\ Passes(c, N!CloseAll(open).out, d) /\ Turns(c, d, d.open, c.owner)
    /\ \A k \in ChunkKinds, i \in Ids :
          d.open[k][i] = IF Owes(Listed(open), k, i) THEN Absent ELSE c.open[k][i]

\* Every stream is closed one after the other, each while the consumer has it open.
LEMMA AllClosed ==
    ASSUME NEW a \in Agents, Orderly(a), NEW held, NEW owner, NEW open \in Seq(N!Stream),
           NEW c \in C!Verifier, c.started, ~c.finished, InFlight(a, held, owner, open, c.open)
    PROVE  \E d : AllSettled(c, open, d)
<1> DEFINE first(n) == {open[m] : m \in 1..n}
           After(d, n) == /\ Turns(c, d, d.open, c.owner)
                          /\ \A k \in ChunkKinds, i \in Ids :
                                d.open[k][i] = IF Owes(first(n), k, i) THEN Absent ELSE c.open[k][i]
<1>1. PICK f : /\ Settles(f, open) /\ N!CloseAll(open) = N!Result(TRUE, f[Len(open)], <<>>)
               /\ \A n \in 0..Len(open) : f[n] \in Seq(Heard)
  BY SettledAll
<1>2. /\ Len(open) \in Nat /\ 0 \in 0..Len(open) /\ Len(open) \in 0..Len(open)
      /\ \A n \in 1..Len(open) : /\ n \in Nat /\ n - 1 \in 0..Len(open) /\ n \in 0..Len(open)
                                 /\ n \in DOMAIN open /\ open[n] \in N!Stream
                                 /\ \A m \in 1..(n - 1) : m \in DOMAIN open /\ m # n
  OBVIOUS
<1> DEFINE T == {n \in 0..Len(open) : \E d : Passes(c, f[n], d) /\ After(d, n)}
<1>3. 0 \in T
  <2>1. Passes(c, f[0], c)
    BY <1>1, PassesNone DEF Settles
  <2>2. first(0) = {}
    OBVIOUS
  <2> HIDE DEF first
  <2>3. After(c, 0)
    BY <2>2 DEF Turns, Owes
  <2> HIDE DEF After
  <2> QED BY <1>2, <2>1, <2>3
<1>4. ASSUME NEW n \in 1..Len(open), n - 1 \in T
      PROVE  n \in T
  <2> DEFINE s == open[n]
             E == End(s.kind, s.id, s.owner)
  <2>1. PICK d : Passes(c, f[n - 1], d) /\ After(d, n - 1)
    BY <1>4
  <2>2. f[n] = f[n - 1] \o N!Settle(s) /\ f[n - 1] \in Seq(Heard)
    BY <1>1, <1>2 DEF Settles
  <2>3. s \in N!Stream /\ s \in Listed(open)
    BY <1>2, ListedOnes
  <2>4. s.kind \in ChunkKinds /\ s.id \in Ids /\ s.owner \in Owner
    BY <2>3, ListedFields
  <2>5. first(n) = first(n - 1) \cup {s}
    <3>1. 1..n = 1..(n - 1) \cup {n}
      BY <1>2
    <3> QED BY <3>1
  <2>6. \A t \in first(n - 1) : t \in Listed(open) /\ t # s
    BY <1>2 DEF InFlight, Single, Listed
  <2> HIDE DEF s, first
  <2>7. d \in C!Verifier /\ d.started /\ ~d.finished /\ d.open \in OpenOf(ChunkKinds)
    BY <2>1, ClientFields DEF Passes, Turns
  <2>8. CASE ~s.owed
    <3>1. f[n] = f[n - 1]
      BY <2>2, <2>3, <2>8, SettleHeard
    <3>2. \A k, i : Owes(first(n), k, i) <=> Owes(first(n - 1), k, i)
      BY <2>5, <2>8 DEF Owes
    <3>3. ASSUME NEW k \in ChunkKinds, NEW i \in Ids
          PROVE  d.open[k][i] = IF Owes(first(n), k, i) THEN Absent ELSE c.open[k][i]
      <4>1. d.open[k][i] = IF Owes(first(n - 1), k, i) THEN Absent ELSE c.open[k][i]
        BY <2>1
      <4> QED BY <3>2, <4>1
    <3>4. After(d, n)
      BY <2>1, <3>3
    <3> HIDE DEF After
    <3> QED BY <1>2, <2>1, <3>1, <3>4
  <2>9. CASE s.owed
    <3> DEFINE z == C!Verify(d, E)
    <3>1. ~Owes(first(n - 1), s.kind, s.id)
      <4> SUFFICES ASSUME NEW t \in first(n - 1), t.kind = s.kind, t.id = s.id, t.owed PROVE FALSE
        BY DEF Owes
      <4>1. t \in Listed(open) /\ t # s
        BY <2>6
      <4> QED BY <2>3, <4>1, Alone
    <3>2. d.open[s.kind][s.id] = c.open[s.kind][s.id]
      BY <2>1, <2>4, <3>1
    <3>3. c.open[s.kind][s.id] # Absent /\ Agrees(s.owner, c.open[s.kind][s.id])
      BY <2>3 DEF InFlight, Entry
    <3>4. N!Settle(s) = <<E>> /\ E \in Heard
      BY <2>3, <2>9, SettleHeard
    <3>5. C!Accepts(d, E) /\ Turns(d, z, [d.open EXCEPT ![s.kind][s.id] = Absent], d.owner)
      BY <2>4, <2>7, <3>2, <3>3, EndHeard
    <3> HIDE DEF E
    <3>6. f[n] = Append(f[n - 1], E)
      BY <2>2, <3>4
    <3>7. Passes(c, f[n], z)
      BY <2>1, <3>4, <3>5, <3>6, PassesMore
    <3> HIDE DEF z
    <3>8. \A k \in ChunkKinds, i \in Ids :
             z.open[k][i] = IF k = s.kind /\ i = s.id THEN Absent ELSE d.open[k][i]
      BY <2>4, <2>7, <3>5 DEF Turns, OpenOf
    <3>9. ASSUME NEW k \in ChunkKinds, NEW i \in Ids
          PROVE  z.open[k][i] = IF Owes(first(n), k, i) THEN Absent ELSE c.open[k][i]
      <4>1. Owes(first(n), k, i) <=> Owes(first(n - 1), k, i) \/ (k = s.kind /\ i = s.id)
        BY <2>5, <2>9 DEF Owes
      <4>2. d.open[k][i] = IF Owes(first(n - 1), k, i) THEN Absent ELSE c.open[k][i]
        BY <2>1
      <4>3. CASE k = s.kind /\ i = s.id
        BY <3>8, <4>1, <4>3
      <4>4. CASE ~(k = s.kind /\ i = s.id)
        <5>1. z.open[k][i] = d.open[k][i]
          BY <3>8, <4>4
        <5> QED BY <4>1, <4>2, <4>4, <5>1
      <4> QED BY <4>3, <4>4
    <3>10. Turns(c, z, z.open, c.owner)
      BY <2>1, <3>5 DEF Turns
    <3>11. After(z, n)
      BY <3>9, <3>10
    <3> HIDE DEF After
    <3> QED BY <1>2, <3>7, <3>11
  <2> QED BY <2>8, <2>9
<1>5. \A n \in 0..Len(open) : n \in T
  <2> HIDE DEF T
  <2> QED BY <1>2, <1>3, <1>4, IntervalInduction
<1>6. PICK d : Passes(c, f[Len(open)], d) /\ After(d, Len(open))
  BY <1>2, <1>5
<1>7. first(Len(open)) = Listed(open)
  BY DEF Listed
<1>8. N!CloseAll(open).out = f[Len(open)]
  BY <1>1 DEF N!Result
<1> HIDE DEF first
<1>9. AllSettled(c, open, d)
  BY <1>6, <1>7, <1>8 DEF AllSettled
<1> QED BY <1>9

\* The run finishes: whatever is left is owed its END, and gets it.
LEMMA OnFinished ==
    ASSUME NEW a, NEW v, NEW open, NEW c, NEW e, Ready(a, v, open, c, e), e.type = "RUN_FINISHED"
    PROVE  Conveys(a, S!Fold(v, e), N!Normalize(open, e), c)
<1> DEFINE p == N!Normalize(open, e)
           w == S!Fold(v, e)
           r == N!CloseAll(open)
<1>0. /\ a \in Agents /\ Orderly(a) /\ e \in Heard /\ WellFormed(e) /\ v \in S!Verifier /\ c \in C!Verifier
      /\ open \in Seq(N!Stream) /\ v.started /\ ~v.ended /\ c.started /\ ~c.finished /\ e.type # "RUN_STARTED"
      /\ InFlight(a, v.open, v.owner, open, c.open) /\ Alike(v, c)
  BY ReadyFacts
<1>1. /\ \A k \in Kinds, i \in Ids : v.open[k][i] = Absent
      /\ v.steps = {} /\ v.active = {}
  BY Names DEF Ready, S!Accepts, S!RunRules, S!NothingOpen, S!IsOpen
<1>2. w = [v EXCEPT !.ended = TRUE]
  BY DEF S!Fold
<1>3. N!ObserveExplicit(open, e) = N!Result(TRUE, r.out, <<>>)
  BY DEF N!ObserveExplicit, N!CloseAll, N!Result
<1>4. p = [ok |-> TRUE, out |-> Append(r.out, e), open |-> <<>>]
  BY <1>3, Normalized
<1>5. PICK d : /\ Passes(c, r.out, d) /\ Turns(c, d, d.open, c.owner)
               /\ \A k \in ChunkKinds, i \in Ids :
                     d.open[k][i] = IF Owes(Listed(open), k, i) THEN Absent ELSE c.open[k][i]
  <2>1. PICK d : AllSettled(c, open, d)
    BY <1>0, AllClosed
  <2> QED BY <2>1 DEF AllSettled
<1> HIDE DEF p, w, r
<1>6. d \in C!Verifier /\ d.started /\ ~d.finished /\ Alike(v, d)
  BY <1>0, <1>5 DEF Turns, Alike
<1>7. \A k \in ChunkKinds, i \in Ids : d.open[k][i] = Absent
  <2> SUFFICES ASSUME NEW k \in ChunkKinds, NEW i \in Ids PROVE d.open[k][i] = Absent
    OBVIOUS
  <2>1. v.open[k][i] = Absent
    BY <1>1, Vocabulary
  <2>2. c.open[k][i] # Absent => Owes(Listed(open), k, i)
    BY <1>0, <2>1 DEF InFlight
  <2> QED BY <1>5, <2>2
<1>8. C!AllClosed(d)
  BY <1>1, <1>6, <1>7, Names DEF C!AllClosed, C!IsOpen, Alike
<1>9. C!Accepts(d, e)
  BY <1>0, <1>6, <1>8, ClientJudges
<1> DEFINE z == C!Verify(d, e)
<1>10. z = [d EXCEPT !.finished = TRUE]
  BY <1>9 DEF C!Verify, C!Fold
<1>11. Passes(c, Append(r.out, e), z)
  BY <1>0, <1>5, <1>9, PassesMore
<1> HIDE DEF z
<1>12. w \in S!Verifier /\ w.started /\ w.ended /\ Alike(w, z)
  <2>1. w \in S!Verifier
    BY <1>0, <1>2, ServerFields
  <2>2. Alike(w, z) /\ w.ended /\ w.started
    BY <1>0, <1>2, <1>6, <1>10, Names DEF Alike
  <2> QED BY <2>1, <2>2
<1>13. Conveys(a, w, p, c)
  BY <1>4, <1>11, <1>12 DEF Conveys, Accord
<1> QED BY <1>13 DEF w, p

\* The run fails: its RUN_ERROR is not held up by what is in flight.
LEMMA OnError ==
    ASSUME NEW a, NEW v, NEW open, NEW c, NEW e, Ready(a, v, open, c, e), e.type = "RUN_ERROR"
    PROVE  Conveys(a, S!Fold(v, e), N!Result(TRUE, <<e>>, open), c)
<1> DEFINE w == S!Fold(v, e)
           d == C!Verify(c, e)
<1>0. /\ e \in Heard /\ WellFormed(e) /\ v \in S!Verifier /\ c \in C!Verifier
      /\ open \in Seq(N!Stream) /\ v.started /\ Alike(v, c) /\ S!Accepts(v, e)
  BY ReadyFacts DEF Ready
<1>1. Unstreamed(e)
  BY DEF Unstreamed
<1>2. C!Accepts(c, e)
  BY <1>0, <1>1, UnstreamedPass
<1>3. Together(v, w, c, d) /\ w.started /\ w.ended
  BY <1>0, <1>1, UnstreamedFold
<1>4. Passes(c, Append(<<>>, e), d)
  BY <1>0, <1>2, PassesNone, PassesMore
<1>5. <<e>> = Append(<<>>, e)
  OBVIOUS
<1> HIDE DEF w, d
<1>6. Conveys(a, w, N!Result(TRUE, <<e>>, open), c)
  BY <1>0, <1>3, <1>4, <1>5 DEF Conveys, Accord, Together, N!Result
<1> QED BY <1>6 DEF w

\* Everything else is passed on as it is; a restated conversation does not touch what is
\* in flight.
LEMMA OnUnstreamed ==
    ASSUME NEW a, NEW v, NEW open, NEW c, NEW e, Ready(a, v, open, c, e), Unstreamed(e), e.type # "RUN_ERROR"
    PROVE  Conveys(a, S!Fold(v, e), N!Normalize(open, e), c)
<1> DEFINE p == N!Normalize(open, e)
           w == S!Fold(v, e)
           d == C!Verify(c, e)
<1>0. /\ a \in Agents /\ Orderly(a) /\ e \in Emits[a] /\ e \in Heard /\ WellFormed(e)
      /\ v \in S!Verifier /\ c \in C!Verifier
      /\ open \in Seq(N!Stream) /\ v.started /\ Alike(v, c) /\ S!Accepts(v, e)
      /\ InFlight(a, v.open, v.owner, open, c.open)
  BY ReadyFacts DEF Ready
<1>1. C!Accepts(c, e)
  BY <1>0, UnstreamedPass
<1>2. /\ Together(v, w, c, d) /\ w.started /\ ~w.ended
      /\ \A k \in Kinds, i \in Ids :
            \/ w.owner[BucketOf(k)][i] = v.owner[BucketOf(k)][i]
            \/ e.type = "MESSAGES_SNAPSHOT" /\ e.history[BucketOf(k)][i] # Absent
  BY <1>0, UnstreamedFold
<1>3. Passes(c, Append(<<>>, e), d)
  BY <1>0, <1>1, PassesNone, PassesMore
<1>4. N!ObserveExplicit(open, e) = N!Result(TRUE, <<>>, open)
  BY DEF N!ObserveExplicit, Unstreamed
<1>5. p = [ok |-> TRUE, out |-> Append(<<>>, e), open |-> open]
  BY <1>4, Normalized DEF Unstreamed
<1> HIDE DEF p, w, d
<1>6. ASSUME NEW k \in ChunkKinds, NEW i \in Ids, NEW g \in Owner, Chunked(a, k, i, g)
      PROVE  w.owner[BucketOf(k)][i] = v.owner[BucketOf(k)][i]
  <2>1. e.type = "MESSAGES_SNAPSHOT" => e.history[BucketOf(k)][i] = Absent
    BY <1>0, <1>6, OrderlyFacts
  <2> QED BY <1>2, <2>1, Vocabulary
<1>7. ASSUME NEW i \in Ids, v.open["block"][i] # Absent
      PROVE  w.owner["reasoning"][i] = v.owner["reasoning"][i]
  <2>1. "block" \in Kinds /\ BucketOf("block") = "reasoning"
    BY Vocabulary
  <2>2. Bracketed(a, "block", i)
    BY <1>0, <1>7, <2>1 DEF InFlight
  <2>3. e.type = "MESSAGES_SNAPSHOT" => e.history["reasoning"][i] = Absent
    BY <1>0, <2>2, OrderlyBlocks
  <2> QED BY <1>2, <2>1, <2>3
<1>8. InFlight(a, v.open, w.owner, open, c.open)
  BY <1>0, <1>6, <1>7, Reowned
<1>9. Conveys(a, w, p, c)
  BY <1>0, <1>2, <1>3, <1>5, <1>8 DEF Conveys, Accord, Together
<1> QED BY <1>9 DEF w, p

-----------------------------------------------------------------------------
(* The run's steps *)

\* What the client's stream is told of an event the producer let through.
LEMMA Carried ==
    ASSUME NEW a, NEW v, NEW c, NEW e, Ready(a, v, streams, c, e), e.type = "CHUNK" => Ingest(e).ok
    PROVE  Conveys(a, S!Fold(v, e), Ingest(e), c)
<1>1. CASE e.type = "RUN_ERROR"
  <2>1. Ingest(e) = N!Result(TRUE, <<e>>, streams)
    BY <1>1 DEF Ingest
  <2>2. Conveys(a, S!Fold(v, e), N!Result(TRUE, <<e>>, streams), c)
    BY <1>1, OnError
  <2> QED BY <2>1, <2>2
<1>2. CASE e.type # "RUN_ERROR"
  <2>1. Ingest(e) = N!Normalize(streams, e)
    BY <1>2 DEF Ingest
  <2>2. Conveys(a, S!Fold(v, e), N!Normalize(streams, e), c)
    <3>1. CASE e.type = "CHUNK"
      <4>1. N!Normalize(streams, e).ok
        BY <2>1, <3>1
      <4> QED BY <3>1, <4>1, OnNamed, OnNameless
    <3>2. CASE e.type = "START"
      BY <3>2, OnStart, OnBlockStart
    <3>3. CASE e.type = "CONTENT"
      <4>1. e.kind # "block"
        BY <3>3, ReadyFacts, Vocabulary DEF WellFormed
      <4> QED BY <3>3, <4>1, OnContent
    <3>4. CASE e.type = "END"
      BY <3>4, OnEnd, OnBlockEnd
    <3>5. CASE e.type = "TOOL_CALL_RESULT"
      BY <3>5, OnResult
    <3>6. CASE e.type = "RUN_FINISHED"
      BY <3>6, OnFinished
    <3>7. CASE Unstreamed(e)
      BY <1>2, <3>7, OnUnstreamed
    <3> QED BY <3>1, <3>2, <3>3, <3>4, <3>5, <3>6, <3>7 DEF Unstreamed
  <2> QED BY <2>1, <2>2
<1> QED BY <1>1, <1>2

\* A chunk that cannot be placed: the producer goes on, the client's stream has failed.
LEMMA Unplaced ==
    ASSUME NEW a, NEW v, NEW c, NEW e, Ready(a, v, streams, c, e), e.type = "CHUNK", ~Ingest(e).ok
    PROVE  /\ S!Fold(v, e) \in S!Verifier /\ S!Fold(v, e).started
           /\ Ingest(e) = [ok |-> FALSE, out |-> <<>>, open |-> streams]
<1>1. v \in S!Verifier /\ v.started /\ WellFormed(e)
  BY ReadyFacts
<1>2. Ingest(e) = [ok |-> FALSE, out |-> <<>>, open |-> streams]
  <2>1. Ingest(e) = N!Normalize(streams, e)
    BY DEF Ingest
  <2> QED BY <2>1, ChunkRefused
<1>3. CASE Named(e)
  <2>1. Absent \in Owner \cup {Absent}
    OBVIOUS
  <2>2. Proceeds(v, S!Fold(v, e), [v.open EXCEPT ![e.kind][e.id] = Absent],
                 [v.owner EXCEPT ![BucketOf(e.kind)][e.id] = S!OwnerOf(v, e)])
    BY <1>1, <1>3, <2>1, ServerOpens
  <2> QED BY <1>1, <1>2, <2>2 DEF Proceeds
<1>4. CASE ~Named(e)
  BY <1>1, <1>2, <1>4, ServerStays
<1> QED BY <1>3, <1>4

\* So an event that the producer let through keeps the sides linked.
LEMMA Delivered ==
    ASSUME TypeOK, verdict = "ok", NEW e, Ready(agent, server, streams, client, e), Deliver(e),
           server' = S!Fold(server, e), agent' = agent
    PROVE  IInv'
<1> DEFINE r == Ingest(e)
           j == Judged(client, r.out)
<1>0. agent \in Agents /\ client \in C!Verifier /\ streams \in Seq(N!Stream)
  BY DEF TypeOK
<1>1. /\ streams' = r.open /\ client' = j.client
      /\ verdict' = IF ~j.ok THEN "refused" ELSE IF ~r.ok THEN "unresolved" ELSE "ok"
  BY DEF Deliver
<1>2. CASE e.type = "CHUNK" => r.ok
  <2>1. Conveys(agent, server', r, client)
    BY <1>2, Carried
  <2> HIDE DEF r
  <2>2. PICK d : Passes(client, r.out, d) /\ Accord(agent, server', r.open, d)
    BY <2>1 DEF Conveys
  <2>3. j = [ok |-> TRUE, client |-> d] /\ d \in C!Verifier
    BY <2>2 DEF Passes
  <2> HIDE DEF j
  <2>4. client' = d /\ streams' = r.open /\ verdict' = "ok"
    BY <1>1, <2>1, <2>3 DEF Conveys
  <2>5. TypeOK' /\ server'.started
    BY <1>0, <2>1, <2>3, <2>4 DEF TypeOK, Conveys
  <2>6. Accord(agent', server', streams', client')
    BY <2>2, <2>4
  <2> QED BY <2>4, <2>5, <2>6 DEF IInv, ClientAccepts
<1>3. CASE e.type = "CHUNK" /\ ~r.ok
  <2>1. server' \in S!Verifier /\ server'.started /\ r = [ok |-> FALSE, out |-> <<>>, open |-> streams]
    BY <1>3, Unplaced
  <2> HIDE DEF r
  <2>2. j = [ok |-> TRUE, client |-> client]
    BY <1>0, <2>1, JudgedNone
  <2> HIDE DEF j
  <2>3. client' = client /\ streams' = streams /\ verdict' = "unresolved"
    BY <1>1, <2>1, <2>2
  <2>4. TypeOK'
    BY <1>0, <2>1, <2>3 DEF TypeOK
  <2> QED BY <2>1, <2>3, <2>4 DEF IInv, ClientAccepts
<1> QED BY <1>2, <1>3

\* Nothing is open, nobody owns anything.
LEMMA FreshOnes ==
    /\ S!Fresh \in S!Verifier /\ C!Fresh \in C!Verifier /\ <<>> \in Seq(N!Stream)
    /\ Alike(S!Fresh, C!Fresh) /\ ~S!Fresh.started /\ ~S!Fresh.ended
    /\ \A k \in Kinds, i \in Ids : S!Fresh.open[k][i] = Absent
    /\ \A k \in ChunkKinds, i \in Ids : C!Fresh.open[k][i] = Absent
<1>1. S!NoOwners = NoOwners /\ C!NoOwners = NoOwners /\ NoOwners \in Owners
  BY Names DEF S!NoOwners, C!NoOwners, NoOwners, Owners
<1>2. S!Fresh \in S!Verifier
  BY <1>1, Names DEF S!Fresh, OpenOf
<1>3. C!Fresh \in C!Verifier
  BY <1>1, Names DEF C!Fresh, OpenOf
<1>4. Alike(S!Fresh, C!Fresh)
  BY <1>1 DEF S!Fresh, C!Fresh, Alike
<1>5. /\ ~S!Fresh.started /\ ~S!Fresh.ended
      /\ \A k \in Kinds, i \in Ids : S!Fresh.open[k][i] = Absent
      /\ \A k \in ChunkKinds, i \in Ids : C!Fresh.open[k][i] = Absent
  BY Names DEF S!Fresh, C!Fresh
<1> QED BY <1>2, <1>3, <1>4, <1>5

\* Nothing is in flight.
LEMMA NoneInFlight ==
    ASSUME NEW a, NEW held, NEW owner, NEW seen,
           \A k \in Kinds, i \in Ids : held[k][i] = Absent,
           \A k \in ChunkKinds, i \in Ids : seen[k][i] = Absent
    PROVE  InFlight(a, held, owner, <<>>, seen)
<1>1. Listed(<<>>) = {} /\ Single(<<>>)
  BY DEF Listed, Single
<1>2. "block" \in Kinds /\ ChunkKinds \subseteq Kinds
  BY Vocabulary
<1> QED BY <1>1, <1>2 DEF InFlight

\* The driver's RUN_STARTED seeds both sides with the same owners.
LEMMA Starts ==
    ASSUME IInv, ~server.started, NEW h \in Owners, server' = S!Observe(server, RunStarted(h)),
           Deliver(RunStarted(h)), agent' = agent
    PROVE  IInv'
<1> DEFINE e == RunStarted(h)
           j == Judged(client, <<e>>)
           owner == C!Seeded(client, h, FALSE)
<1>0. /\ server = S!Fresh /\ client = C!Fresh /\ streams = <<>> /\ agent \in Agents
      /\ server \in S!Verifier /\ client \in C!Verifier
  BY DEF IInv, TypeOK
<1>1. e \in Heard /\ e.type = "RUN_STARTED" /\ e.history = h
  BY HeardOnes DEF RunStarted
<1>2. Alike(server, client) /\ ~server.ended /\ ~client.started /\ ~client.finished
  BY <1>0, FreshOnes DEF Alike
<1>3. S!Seeded(server, h, FALSE) = owner /\ owner \in Owners
  <2>1. server.owner = client.owner /\ server.owner \in Owners
    BY <1>0, <1>2, ServerFields DEF Alike
  <2> QED BY <2>1, SameSeeds
<1> HIDE DEF e
<1>4. S!Accepts(server, e)
  BY <1>1, <1>2 DEF S!Accepts, S!RunRules, S!StreamRules, S!ContinuationRules, S!ScopeRules
<1>5. server' = [server EXCEPT !.started = TRUE, !.owner = owner]
  <2>1. server' = S!Fold(server, e)
    BY <1>4 DEF S!Observe, e
  <2> QED BY <1>1, <1>3, <2>1 DEF S!Fold
<1>6. C!Accepts(client, e)
  BY <1>1, <1>2 DEF C!Accepts, C!RunRules, C!StreamRules, C!ContinuationRules, C!ScopeRules
<1>7. C!Verify(client, e) = [client EXCEPT !.started = TRUE, !.owner = owner]
  BY <1>1, <1>6 DEF C!Verify, C!Fold
<1>8. Ingest(e) = [ok |-> TRUE, out |-> <<e>>, open |-> <<>>]
  <2>1. N!ObserveExplicit(streams, e) = N!Result(TRUE, <<>>, streams)
    BY <1>1 DEF N!ObserveExplicit
  <2>2. N!Normalize(streams, e) = [ok |-> TRUE, out |-> Append(<<>>, e), open |-> streams]
    BY <1>1, <2>1, Normalized
  <2> QED BY <1>0, <1>1, <2>2 DEF Ingest
<1> DEFINE d == C!Verify(client, e)
<1>9. Passes(client, <<e>>, d)
  <2>1. Passes(client, Append(<<>>, e), d)
    BY <1>0, <1>1, <1>6, PassesNone, PassesMore
  <2>2. Append(<<>>, e) = <<e>>
    OBVIOUS
  <2> QED BY <2>1, <2>2
<1> HIDE DEF d, owner
<1>10. j = [ok |-> TRUE, client |-> d] /\ d \in C!Verifier
  BY <1>9 DEF Passes
<1>11. streams' = <<>> /\ client' = d /\ verdict' = "ok"
  <2>1. streams' = Ingest(e).open /\ client' = Judged(client, Ingest(e).out).client
        /\ verdict' = IF ~Judged(client, Ingest(e).out).ok THEN "refused"
                      ELSE IF ~Ingest(e).ok THEN "unresolved" ELSE "ok"
    BY DEF Deliver, e
  <2> QED BY <1>8, <1>10, <2>1
<1>12. server' \in S!Verifier /\ server'.started /\ server'.open = server.open
  BY <1>0, <1>3, <1>5, Names
<1>13. Alike(server', d) /\ d.open = client.open
  BY <1>0, <1>2, <1>5, <1>7, Names DEF Alike, d
<1>14. InFlight(agent, server'.open, server'.owner, <<>>, d.open)
  <2>1. \A k \in Kinds, i \in Ids : server'.open[k][i] = Absent
    BY <1>0, <1>12, FreshOnes
  <2>2. \A k \in ChunkKinds, i \in Ids : d.open[k][i] = Absent
    BY <1>0, <1>13, FreshOnes
  <2> QED BY <2>1, <2>2, NoneInFlight
<1>15. TypeOK'
  BY <1>0, <1>10, <1>11, <1>12, FreshOnes DEF TypeOK
<1>16. Accord(agent', server', streams', client')
  BY <1>11, <1>13, <1>14 DEF Accord
<1> QED BY <1>11, <1>12, <1>15, <1>16 DEF IInv, ClientAccepts

\* An orderly agent has no stream open under an id that it sends chunks for, so a
\* refused chunk takes nothing off.
LEMMA RefusedStays ==
    ASSUME NEW a \in Agents, Orderly(a), NEW v \in S!Verifier, NEW open, NEW c, Accord(a, v, open, c),
           NEW e \in Emits[a]
    PROVE  S!Residue(v, e) = v
<1> SUFFICES ASSUME ~v.ended, Named(e), e.kind # "tool" PROVE S!Residue(v, e) = v
  BY DEF S!Residue, Named
<1>1. e \in Heard /\ v.open \in OpenOf(Kinds)
  BY HeardOnes, ServerFields
<1>2. WellFormed(e)
  BY <1>1, HeardIsWellFormed
<1>3. e.kind \in ChunkKinds /\ e.id \in Ids /\ e.kind \in Kinds
  BY <1>2, Vocabulary DEF WellFormed, Named
<1>4. Chunked(a, e.kind, e.id, e.tag)
  BY DEF Chunked
<1>5. ~Bracketed(a, e.kind, e.id)
  BY <1>4, OrderlyFacts
<1>6. v.open[e.kind][e.id] = Absent
  BY <1>3, <1>5 DEF Accord, InFlight
<1>7. [v.open EXCEPT ![e.kind][e.id] = Absent] = v.open
  BY <1>1, <1>3, <1>6, SameWritten
<1>8. S!Residue(v, e) \in {v, [v EXCEPT !.open[e.kind][e.id] = Absent]}
  BY Names DEF S!Residue
<1> DEFINE closed == [v.open EXCEPT ![e.kind][e.id] = Absent]
<1>9. S!Residue(v, e) \in {v, [v EXCEPT !.open = closed]}
  BY <1>8
<1> HIDE DEF closed
<1>10. closed = v.open
  BY <1>7 DEF closed
<1>11. [v EXCEPT !.open = v.open] = v
  BY Names
<1> QED BY <1>9, <1>10, <1>11

-----------------------------------------------------------------------------
(* The theorems *)

\* At every moment the three accounts of the stream fit together: the two verifiers
\* agree on who owns what and on the run, and what is open differs only by the streams
\* in flight in the normalizer.  For agents that keep to Orderly.
THEOREM Consistent ==
    ASSUME \A a \in Agents : Orderly(a)
    PROVE  Spec => []IInv
<1>1. Init => IInv
  <2> SUFFICES ASSUME Init PROVE IInv
    OBVIOUS
  <2>1. TypeOK
    BY FreshOnes DEF Init, TypeOK
  <2>2. InFlight(agent, server.open, server.owner, streams, client.open)
    BY FreshOnes, NoneInFlight DEF Init
  <2>3. Accord(agent, server, streams, client)
    BY <2>2, FreshOnes DEF Init, Accord
  <2> QED BY <2>1, <2>3 DEF Init, IInv, ClientAccepts
<1>2. IInv /\ [Next]_vars => IInv'
  <2> SUFFICES ASSUME IInv, [Next]_vars PROVE IInv'
    OBVIOUS
  <2>1. agent \in Agents /\ server \in S!Verifier /\ streams \in Seq(N!Stream) /\ client \in C!Verifier
    BY DEF IInv, TypeOK
  <2>2. ASSUME NEW h \in Replays[agent], Begin(h)
        PROVE  IInv'
    <3>1. h \in Owners
      BY <2>1, <2>2
    <3> QED BY <2>2, <3>1, Starts DEF Begin
  <2>3. ASSUME NEW e \in Emits[agent], Emit(e)
        PROVE  IInv'
    <3>1. Ready(agent, server, streams, client, e)
      BY <2>1, <2>3 DEF Emit, Ready, IInv
    <3>2. server' = S!Fold(server, e) /\ agent' = agent /\ Deliver(e) /\ verdict = "ok" /\ TypeOK
      BY <2>3 DEF Emit, S!Observe, IInv
    <3> QED BY <3>1, <3>2, Delivered
  <2>4. ASSUME NEW e \in Emits[agent], Refuse(e)
        PROVE  IInv'
    <3>1. server' = S!Residue(server, e) /\ UNCHANGED <<agent, streams, client, verdict>> /\ verdict = "ok"
      BY <2>4 DEF Refuse, S!Observe
    <3>2. Accord(agent, server, streams, client)
      BY <3>1 DEF IInv
    <3>3. server' = server
      BY <2>1, <3>1, <3>2, RefusedStays
    <3> QED BY <3>1, <3>3 DEF IInv, TypeOK, ClientAccepts
  <2>5. CASE UNCHANGED vars
    BY <2>5 DEF vars, IInv, TypeOK, ClientAccepts
  <2> QED BY <2>2, <2>3, <2>4, <2>5 DEF Next, Abandoned
<1> QED BY <1>1, <1>2, PTL DEF Spec

\* Every variable keeps to its type.
THEOREM TypeCorrect ==
    ASSUME \A a \in Agents : Orderly(a)
    PROVE  Spec => []TypeOK
<1>1. IInv => TypeOK
  BY DEF IInv
<1> QED BY <1>1, Consistent, PTL

\* What the emitting side lets through, the consuming side never refuses.
THEOREM ClientNeverRefuses ==
    ASSUME \A a \in Agents : Orderly(a)
    PROVE  Spec => []ClientAccepts
<1>1. IInv => ClientAccepts
  BY DEF IInv
<1> QED BY <1>1, Consistent, PTL

\* Both sides attribute every message, call and activity to the same agent.
THEOREM OwnersAreShared ==
    ASSUME \A a \in Agents : Orderly(a)
    PROVE  Spec => []SameOwners
<1>1. IInv => SameOwners
  BY DEF IInv, Accord, Alike, SameOwners
<1> QED BY <1>1, Consistent, PTL

\* What is open at the consumer is exactly what is open at the producer or owed an END by
\* the normalizer; on the run, its steps and its subagents the two sides agree.
THEOREM OpenIsShared ==
    ASSUME \A a \in Agents : Orderly(a)
    PROVE  Spec => []SameOpen
<1>1. IInv => SameOpen
  <2> SUFFICES ASSUME IInv, verdict = "ok", ~client.finished,
                      NEW k \in ChunkKinds, NEW i \in Ids
               PROVE  client.open[k][i] # Absent <=> server.open[k][i] # Absent \/ Owing(k, i)
    BY Names DEF IInv, Accord, Alike, SameOpen, C!IsOpen, S!IsOpen
  <2>1. InFlight(agent, server.open, server.owner, streams, client.open) /\ streams \in Seq(N!Stream)
    BY DEF IInv, Accord, Alike, TypeOK
  <2>2. Owing(k, i) <=> Owes(Listed(streams), k, i)
    BY <2>1, ListedOnes DEF Owing, Owes
  <2>3. Owes(Listed(streams), k, i) => client.open[k][i] # Absent
    BY <2>1 DEF InFlight, Entry, Owes
  <2> QED BY <2>1, <2>2, <2>3 DEF InFlight
<1> QED BY <1>1, Consistent, PTL

=============================================================================
