-------------------------- MODULE ClientThreadProofs --------------------------
(***************************************************************************)
(* A thread's runs one after the other, for any sets of runs, calls,        *)
(* messages, interrupts and subagents and any server: how a run ended       *)
(* stands, a decision goes out once, nothing is left in flight between two  *)
(* runs, and a request answers every call it owes an answer.                *)
(***************************************************************************)
EXTENDS ClientThread, SequenceTheorems, FiniteSetTheorems, WellFoundedInduction, TLAPS

(***************************************************************************)
(* Induction over the natural numbers, in a form a first-order prover can   *)
(* use: over a set of numbers instead of a predicate.                       *)
(***************************************************************************)

\* A set of numbers has a least one: the intervals below its members are finite sets,
\* and those are well-founded under inclusion.
LEMMA LeastNumber ==
    ASSUME NEW T \in SUBSET Nat, T # {}
    PROVE  \E n \in T : \A m \in T : n <= m
<1> DEFINE Below == {1..n : n \in T}
<1>1. Below \subseteq FiniteSubsetsOf(Nat)
  BY FS_Interval DEF FiniteSubsetsOf
<1>2. PICK least \in Below : \A below \in Below : <<below, least>> \notin StrictSubsetOrdering(Nat)
  <2>1. Below # {}
    OBVIOUS
  <2> HIDE DEF Below
  <2> QED BY <1>1, <2>1, FS_StrictSubsetOrderingWellFounded, WFMin
<1>3. PICK n \in T : least = 1..n
  OBVIOUS
<1>4. ASSUME NEW m \in T, m < n
      PROVE  FALSE
  <2>1. <<1..m, 1..n>> \in StrictSubsetOrdering(Nat)
    BY <1>4 DEF StrictSubsetOrdering
  <2> QED BY <1>2, <1>3, <2>1
<1> QED BY <1>4

\* What holds of zero and of the successor of what it holds of, holds of every number.
LEMMA SetInduction ==
    ASSUME NEW T \in SUBSET Nat, 0 \in T, \A n \in T : n + 1 \in T
    PROVE  T = Nat
<1> SUFFICES ASSUME Nat \ T # {} PROVE FALSE
  OBVIOUS
<1>1. PICK n \in Nat \ T : \A m \in Nat \ T : n <= m
  BY LeastNumber
<1>2. n # 0
  OBVIOUS
<1>3. n - 1 \in Nat /\ n - 1 < n
  BY <1>2
<1>4. n - 1 \in T
  BY <1>1, <1>3
<1>5. (n - 1) + 1 \in T
  BY <1>4
<1> QED BY <1>1, <1>3, <1>5

\* f walks from `start` through A, `top` steps far.
Walks(f, A, start, follow, top) ==
    /\ f \in [0..top -> A] /\ f[0] = start
    /\ \A n \in 1..top : f[n] = follow[f[n - 1]]

\* A function that follows another one step by step, as far as one likes.
LEMMA Iteration ==
    ASSUME NEW A, NEW start \in A, NEW follow \in [A -> A], NEW top \in Nat
    PROVE  \E f : Walks(f, A, start, follow, top)
<1> DEFINE Upto(f, k) == /\ f \in [0..k -> A] /\ f[0] = start
                         /\ \A n \in 1..k : f[n] = follow[f[n - 1]]
           Reached == {k \in Nat : k <= top => \E f : Upto(f, k)}
<1>1. 0 \in Reached
  <2>1. Upto([n \in 0..0 |-> start], 0)
    OBVIOUS
  <2> QED BY <2>1
<1>2. ASSUME NEW k \in Reached
      PROVE  k + 1 \in Reached
  <2> HIDE DEF Upto
  <2> SUFFICES ASSUME k + 1 <= top PROVE \E f : Upto(f, k + 1)
    OBVIOUS
  <2> USE DEF Upto
  <2>1. k \in Nat /\ k <= top /\ \A n \in 1..k : n - 1 \in 0..k /\ n \in 0..k
    OBVIOUS
  <2>2. PICK f : Upto(f, k)
    BY <2>1
  <2> DEFINE g == [n \in 0..(k + 1) |-> IF n <= k THEN f[n] ELSE follow[f[k]]]
  <2>3. f[k] \in A /\ follow[f[k]] \in A
    BY <2>1, <2>2
  <2>4. g \in [0..(k + 1) -> A] /\ g[0] = start
    BY <2>1, <2>2, <2>3
  <2>5. ASSUME NEW n \in 1..(k + 1)
        PROVE  g[n] = follow[g[n - 1]]
    <3>1. g[n - 1] = f[n - 1]
      BY <2>1
    <3>2. CASE n <= k
      BY <2>1, <2>2, <3>1, <3>2
    <3>3. CASE n = k + 1
      BY <2>1, <3>1, <3>3
    <3> QED BY <2>1, <3>2, <3>3
  <2>6. Upto(g, k + 1)
    BY <2>4, <2>5
  <2> HIDE DEF Upto
  <2> QED BY <2>6
<1>3. top \in Reached
  <2> HIDE DEF Reached
  <2>1. Reached \in SUBSET Nat
    BY DEF Reached
  <2> QED BY <1>1, <1>2, <2>1, SetInduction
<1> QED BY <1>3 DEF Walks

USE EventsAssumption, ThreadAssumption, AbsenceAssumption

\* A run is under way.
Live == stream.phase = "open" /\ ~stream.done

\* The thread, the stream and the record of how runs ended tell one story: the
\* active run is the stream's, and what was not dispatched has not ended.
RunsAgree ==
    /\ thread.active = IF Live THEN stream.run ELSE None
    /\ stream.phase # "none" => stream.run \in Runs
    /\ Live => stream.run \in thread.used /\ ends[stream.run] = "none"
    /\ stream.phase = "prepared" => stream.run \notin thread.used
    /\ \A r \in Runs : r \notin thread.used => ends[r] = "none"

\* What was sent is what the submission says, and no run is prepared beside one.
SubmissionAgrees ==
    /\ sends <= 1
    /\ thread.submission = None => sends = 0
    /\ stream.phase = "prepared" => thread.submission = None
    /\ thread.submission # None /\ ~Live => thread.submission.status = "unconfirmed"

\* A running subagent is one the verifier of the run under way holds open.
SubagentsAgree ==
    /\ setting.verify \/ setting.announced = {}
    /\ \A s \in Subagents : thread.subagents[s].status = "running" =>
          Live /\ setting.verify /\ s \in stream.verifier.subagents

\* Tool messages are what answers are, and nothing else.
Told(messages) == \A n \in DOMAIN messages :
    messages[n].role = "tool" <=> messages[n].id \in Answers

\* A call that is owed an answer is in the transcript or the server's list, has no
\* answer, and is decided at most where the list asks for it again.
Owing ==
    /\ owed \cap Answered(thread.messages) = {}
    /\ owed \subseteq Carried(thread.messages) \cup thread.listed
    /\ owed \cap thread.decided \subseteq thread.listed

\* While a run is under way its calls are in the transcript and undecided; a run that
\* is prepared answers all there is.
OwingNow ==
    /\ Live => owed \subseteq Carried(thread.messages) \ thread.decided
    /\ stream.phase = "prepared" =>
          owed \subseteq (IF stream.resume THEN Approvals(thread) ELSE {})
                         \cup (IF stream.answer = None THEN {} ELSE {stream.answer[2]})

AnswersAgree ==
    /\ Told(thread.messages)
    /\ setting.carriers \cap Answers = {}
    /\ \A history \in setting.restated : Told(history)
    /\ thread.interrupts # {} => thread.listed = {}
    /\ stream.resume => stream.answer = None
    /\ ~setting.reuses => Owing /\ OwingNow

\* Nobody works, through others, under itself.
Hierarchical(announced) == \E rank \in [Subagents -> 1..Cardinality(Subagents)] :
    \A s, p \in Subagents : <<s, p>> \in announced => rank[p] < rank[s]

\* What a restored thread will be asked: one message per id, a submission about the
\* questions that are pending, subagents under those announced before them.
SnapshotAgrees ==
    /\ Distinct(thread.messages)
    /\ \A history \in setting.restated : Distinct(history)
    /\ stream.phase = "prepared" /\ stream.answer # None =>
          stream.answer[1] \notin Known(thread.messages)
    /\ thread.submission # None =>
          /\ thread.submission.status = "in flight" => thread.submission.run = stream.run
          /\ thread.submission.run \in thread.used
          /\ thread.interrupts # {} /\ thread.submission.entries = thread.interrupts
    /\ Hierarchical(setting.announced)
    /\ \A s, p \in Subagents : thread.subagents[s].parent = p =>
          <<s, p>> \in setting.announced /\ thread.subagents[p].status # "announced never"
    /\ \A s \in stream.verifier.subagents \cup stream.verifier.closed :
          thread.subagents[s].status # "announced never"

-----------------------------------------------------------------------------
(* The verifier on the events that are told apart. *)

Heard ==
    {RunStarted(NoOwners)} \cup {MessagesSnapshot(h) : h \in Owners}
    \cup {StartUnder(p, c, None) : p \in Ids \cup {None}, c \in Calls}
    \cup {End("tool", c, None) : c \in Calls}
    \cup {ToolResult(m, c, None) : m \in Answers, c \in Calls}
    \cup {SubagentStarted(s, p) : s \in Subagents, p \in Owner}
    \cup {SubagentFinished(s) : s \in Subagents} \cup {SubagentError(s) : s \in Subagents}

LEMMA HeardTypes ==
    ASSUME NEW e \in Heard
    PROVE  /\ e.type \in {"RUN_STARTED", "MESSAGES_SNAPSHOT", "START", "END",
                          "TOOL_CALL_RESULT", "SUBAGENT_STARTED", "SUBAGENT_FINISHED", "SUBAGENT_ERROR"}
           /\ e.type \in {"RUN_STARTED", "MESSAGES_SNAPSHOT"} => e.history \in Owners
           /\ e.type = "START" => /\ e.kind = "tool" /\ e.id \in Ids /\ e.tag = None
                                 /\ e.parent \in Ids \cup {None}
           /\ e.type = "END" => e.kind = "tool" /\ e.id \in Ids
           /\ e.type = "TOOL_CALL_RESULT" => e.id \in Ids /\ e.tag = None
           /\ e.type \in {"SUBAGENT_STARTED", "SUBAGENT_FINISHED", "SUBAGENT_ERROR"} =>
                 e.id \in Subagents
<1>1. CASE e = RunStarted(NoOwners)
  BY <1>1 DEF RunStarted, Owners, NoOwners
<1>2. CASE \E p \in Ids \cup {None}, c \in Calls : e = StartUnder(p, c, None)
  BY <1>2 DEF Start, StartUnder
<1>3. CASE \E c \in Calls : e = End("tool", c, None)
  BY <1>3 DEF End
<1>4. CASE \E m \in Answers, c \in Calls : e = ToolResult(m, c, None)
  BY <1>4 DEF ToolResult
<1>5. CASE \E s \in Subagents, p \in Owner : e = SubagentStarted(s, p)
  BY <1>5 DEF SubagentStarted
<1>6. CASE \E s \in Subagents : e \in {SubagentFinished(s), SubagentError(s)}
  BY <1>6 DEF SubagentFinished, SubagentError
<1>7. CASE \E h \in Owners : e = MessagesSnapshot(h)
  BY <1>7 DEF MessagesSnapshot
<1> QED BY <1>1, <1>2, <1>3, <1>4, <1>5, <1>6, <1>7 DEF Heard

LEMMA VerifyType ==
    ASSUME NEW v \in C!Verifier, NEW e \in Heard
    PROVE  C!Verify(v, e) \in C!Verifier
<1> USE DEF C!Verifier, C!ChunkKinds, C!Owners, C!Owner, C!Absent, C!Buckets, C!BucketOf,
           ChunkKinds, Owners, Owner, Absent, Buckets
<1>1. CASE e.type = "START"
  <2>1. C!OwnerOf(v, e) \in Owner
    BY <1>1, HeardTypes DEF C!OwnerOf, C!CallOwner, C!Asserted, C!Carrier
  <2>2. C!Fold(v, e) = [v EXCEPT !.open["tool"][e.id] = C!OwnerOf(v, e),
                                !.owner["call"][e.id] = C!OwnerOf(v, e)]
    BY <1>1, HeardTypes DEF C!Fold
  <2>3. [v.open EXCEPT !["tool"][e.id] = C!OwnerOf(v, e)]
            \in [C!ChunkKinds -> [Ids -> C!Owner \cup {C!Absent}]]
    BY <1>1, <2>1, HeardTypes
  <2>4. [v.owner EXCEPT !["call"][e.id] = C!OwnerOf(v, e)] \in C!Owners
    BY <1>1, <2>1, HeardTypes
  <2>5. C!Fold(v, e) \in C!Verifier
    BY <2>2, <2>3, <2>4
  <2> QED BY <1>1, <2>5 DEF C!Verify
<1>2. CASE e.type = "END"
  <2>1. C!Fold(v, e) = [v EXCEPT !.open["tool"][e.id] = Absent]
    BY <1>2, HeardTypes DEF C!Fold
  <2>2. [v.open EXCEPT !["tool"][e.id] = Absent]
            \in [C!ChunkKinds -> [Ids -> C!Owner \cup {C!Absent}]]
    BY <1>2, HeardTypes
  <2>3. C!Fold(v, e) \in C!Verifier
    BY <2>1, <2>2
  <2> QED BY <1>2, <2>3 DEF C!Verify
<1>3. CASE e.type \in {"RUN_STARTED", "MESSAGES_SNAPSHOT"}
  <2>1. \A authoritative \in BOOLEAN : C!Seeded(v, e.history, authoritative) \in Owners
    BY <1>3, HeardTypes DEF C!Seeded
  <2> QED BY <1>3, <2>1 DEF C!Verify, C!Fold
<1>4. CASE e.type = "TOOL_CALL_RESULT"
  <2>1. C!Fold(v, e) = [v EXCEPT !.owner["message"][e.id] = None]
    BY <1>4, HeardTypes DEF C!Fold
  <2>2. [v.owner EXCEPT !["message"][e.id] = None] \in C!Owners
    BY <1>4, HeardTypes
  <2>3. C!Fold(v, e) \in C!Verifier
    BY <2>1, <2>2
  <2> QED BY <1>4, <2>3 DEF C!Verify
<1>5. CASE e.type \in {"SUBAGENT_STARTED", "SUBAGENT_FINISHED", "SUBAGENT_ERROR"}
  <2> HIDE DEF C!Owners, C!Owner, C!Absent, Owners, Owner, Absent
  <2>1. e.id \in Subagents /\ C!Verify(v, e) \in {v, C!Fold(v, e)}
    BY <1>5, HeardTypes DEF C!Verify
  <2>2. C!Fold(v, e) \in {[v EXCEPT !.subagents = @ \cup {e.id}],
                         [v EXCEPT !.subagents = @ \ {e.id}, !.closed = @ \cup {e.id}]}
    BY <1>5 DEF C!Fold
  <2>3. [v EXCEPT !.subagents = @ \cup {e.id}] \in C!Verifier
    BY <2>1
  <2>4. [v EXCEPT !.subagents = @ \ {e.id}, !.closed = @ \cup {e.id}] \in C!Verifier
    BY <2>1
  <2> QED BY <2>1, <2>2, <2>3, <2>4
<1> QED BY <1>1, <1>2, <1>3, <1>4, <1>5, HeardTypes

\* An accepted event opens and closes no subagent but the one it is about.
LEMMA VerifySubagents ==
    ASSUME NEW v \in C!Verifier, NEW e \in Heard, C!Accepts(v, e)
    PROVE  C!Verify(v, e).subagents =
              CASE e.type = "SUBAGENT_STARTED" -> v.subagents \cup {e.id}
                [] e.type \in {"SUBAGENT_FINISHED", "SUBAGENT_ERROR"} -> v.subagents \ {e.id}
                [] OTHER -> v.subagents
<1> USE DEF C!Verifier, C!Verify
<1>1. CASE e.type = "START"
  <2>1. C!Fold(v, e) = [v EXCEPT !.open["tool"][e.id] = C!OwnerOf(v, e),
                                !.owner[C!BucketOf("tool")][e.id] = C!OwnerOf(v, e)]
    BY <1>1, HeardTypes DEF C!Fold
  <2> QED BY <1>1, <2>1
<1>2. CASE e.type = "END"
  <2>1. C!Fold(v, e) = [v EXCEPT !.open["tool"][e.id] = C!Absent]
    BY <1>2, HeardTypes DEF C!Fold
  <2> QED BY <1>2, <2>1
<1>3. CASE e.type \in {"RUN_STARTED", "MESSAGES_SNAPSHOT", "TOOL_CALL_RESULT"}
  BY <1>3 DEF C!Fold
<1>4. CASE e.type \in {"SUBAGENT_STARTED", "SUBAGENT_FINISHED", "SUBAGENT_ERROR"}
  BY <1>4 DEF C!Fold
<1> QED BY <1>1, <1>2, <1>3, <1>4, HeardTypes

-----------------------------------------------------------------------------
(* Types. *)

\* abort_subagents touches the subagents only, and leaves none running.
LEMMA StoppedOnly ==
    ASSUME NEW t \in Threads
    PROVE  /\ Stopped(t) \in Threads
           /\ Stopped(t) = [t EXCEPT !.subagents = Stopped(t).subagents]
           /\ \A s \in Subagents : Stopped(t).subagents[s].status # "running"
<1> DEFINE stopped == [s \in Subagents |->
                          IF t.subagents[s].status = "running"
                          THEN [t.subagents[s] EXCEPT !.status = "aborted"] ELSE t.subagents[s]]
<1>1. \A s \in Subagents :
          t.subagents[s] \in [status : Statuses, parent : Owner]
  BY DEF Threads
<1>2. \A s \in Subagents :
          /\ stopped[s] \in [status : Statuses, parent : Owner]
          /\ stopped[s].status # "running"
  BY <1>1 DEF Statuses
<1>3. stopped \in [Subagents -> [status : Statuses, parent : Owner]]
  BY <1>2
<1> HIDE DEF stopped
<1>4. Stopped(t) = [t EXCEPT !.subagents = stopped]
  BY DEF Stopped, stopped
<1> QED BY <1>2, <1>3, <1>4 DEF Threads

\* unconfirm touches the submission only.
LEMMA UnconfirmedOnly ==
    ASSUME NEW t \in Threads
    PROVE  /\ Unconfirmed(t) \in Threads
           /\ Unconfirmed(t) = [t EXCEPT !.submission = Unconfirmed(t).submission]
           /\ Unconfirmed(t).submission = None <=> t.submission = None
           /\ t.submission # None => Unconfirmed(t).submission.status = "unconfirmed"
<1>1. CASE t.submission = None
  BY <1>1 DEF Unconfirmed, Threads
<1>2. CASE t.submission # None
  <2> DEFINE submission == [t.submission EXCEPT !.status = "unconfirmed"]
  <2>1. submission \in Submission /\ submission.status = "unconfirmed"
    BY <1>2 DEF Threads, Submission
  <2> HIDE DEF submission
  <2>2. Unconfirmed(t) = [t EXCEPT !.submission = submission]
    BY <1>2 DEF Unconfirmed, submission
  <2> QED BY <1>2, <2>1, <2>2 DEF Threads
<1> QED BY <1>1, <1>2

\* Both together, as every end that confirms nothing does.
LEMMA GivenUp ==
    ASSUME NEW t \in Threads
    PROVE  LET u == Stopped(Unconfirmed(t))
           IN  /\ u \in Threads
               /\ u = [t EXCEPT !.submission = u.submission, !.subagents = u.subagents]
               /\ u.submission = None <=> t.submission = None
               /\ t.submission # None => u.submission.status = "unconfirmed"
               /\ \A s \in Subagents : u.subagents[s].status # "running"
<1> DEFINE v == Unconfirmed(t)
           u == Stopped(v)
<1>1. /\ v \in Threads
      /\ v = [t EXCEPT !.submission = v.submission]
      /\ v.submission = None <=> t.submission = None
      /\ t.submission # None => v.submission.status = "unconfirmed"
  BY UnconfirmedOnly
<1>2. /\ u \in Threads
      /\ u = [v EXCEPT !.subagents = u.subagents]
      /\ \A s \in Subagents : u.subagents[s].status # "running"
  BY <1>1, StoppedOnly
<1> HIDE DEF u, v
<1>3. u.submission = v.submission
  BY <1>1, <1>2 DEF Threads
<1>4. u = [t EXCEPT !.submission = u.submission, !.subagents = u.subagents]
  BY <1>1, <1>2, <1>3 DEF Threads
<1> QED BY <1>1, <1>2, <1>3, <1>4 DEF u, v

\* What an event the verifier was told leaves of the stream.
LEMMA AfterType ==
    ASSUME stream \in Streams, NEW e \in Heard
    PROVE  After(e) \in C!Verifier
BY VerifyType DEF After, Streams

LEMMA StreamHeard ==
    ASSUME stream \in Streams, NEW w \in C!Verifier
    PROVE  /\ [stream EXCEPT !.verifier = w] \in Streams
           /\ [stream EXCEPT !.matched = TRUE, !.verifier = w] \in Streams
           /\ \A c \in Calls : [stream EXCEPT !.started = @ \cup {c}, !.verifier = w] \in Streams
<1>1. \A c \in Calls : stream.started \cup {c} \in SUBSET Calls
  BY DEF Streams
<1> HIDE DEF C!Verifier
<1> QED BY <1>1 DEF Streams

LEMMA AppendType ==
    ASSUME NEW messages \in Seq(Message), NEW c \in Calls, NEW id \in Ids \cup {MessageOf(c)},
           NEW role \in {"assistant", "tool"}
    PROVE  Append(messages, [id |-> id, role |-> role, calls |-> {c}]) \in Seq(Message)
<1>1. [id |-> id, role |-> role, calls |-> {c}] \in Message
  BY DEF Message
<1> QED BY <1>1

LEMMA PlacedType ==
    ASSUME NEW messages \in Seq(Message), NEW c \in Calls, NEW parent \in Ids \cup {None}
    PROVE  Placed(messages, c, parent) \in Seq(Message)
<1> DEFINE id == IF parent = None THEN MessageOf(c) ELSE parent
           joined == [n \in DOMAIN messages |->
                        IF /\ messages[n].id = id /\ Found(messages, n)
                           /\ messages[n].role = "assistant"
                        THEN [messages[n] EXCEPT !.calls = @ \cup {c}] ELSE messages[n]]
<1>1. ASSUME NEW n \in DOMAIN messages
      PROVE  joined[n] \in Message
  <2>1. messages[n] \in Message
    BY ElementOfSeq, n \in 1..Len(messages)
  <2>2. [messages[n] EXCEPT !.calls = @ \cup {c}] \in Message
    BY <2>1 DEF Message
  <2> QED BY <2>1, <2>2
<1>2. joined \in [1..Len(messages) -> Message]
  BY <1>1
<1>3. joined \in Seq(Message)
  BY <1>2, SeqDef
<1>4. CASE id \in Known(messages)
  BY <1>3, <1>4 DEF Placed
<1>5. CASE id \notin Known(messages)
  <2>1. id \in Ids \cup {MessageOf(c)}
    OBVIOUS
  <2>2. Append(messages, [id |-> id, role |-> "assistant", calls |-> {c}]) \in Seq(Message)
    BY <2>1, AppendType
  <2> QED BY <1>5, <2>2 DEF Placed
<1> QED BY <1>4, <1>5

LEMMA CarriedType ==
    ASSUME NEW messages \in Seq(Message)
    PROVE  Carried(messages) \subseteq Calls
<1>1. \A n \in DOMAIN messages : messages[n] \in Message
  BY ElementOfSeq
<1> QED BY <1>1 DEF Carried, Message

LEMMA OwnersInType ==
    ASSUME NEW history
    PROVE  OwnersIn(history) \in Owners
BY DEF OwnersIn, Owners, NoOwners, Buckets, Owner

\* Of the messages with an id there is a first, and a last, which is the one found.
LEMMA FirstPlace ==
    ASSUME NEW messages \in Seq(Message), NEW history \in Seq(Message), NEW k \in DOMAIN history
    PROVE  Place(messages, history, k) \in Nat
<1> DEFINE there == {n \in DOMAIN messages : messages[n].id = history[k].id}
<1>1. there \in SUBSET Nat /\ Len(messages) + k \in Nat
  OBVIOUS
<1>2. CASE history[k].id \in Known(messages)
  <2>1. there # {}
    BY <1>2 DEF Known
  <2>2. \E n \in there : \A m \in there : n <= m
    BY <1>1, <2>1, LeastNumber
  <2>3. \E n \in DOMAIN messages :
           /\ messages[n].id = history[k].id
           /\ \A m \in DOMAIN messages : messages[m].id = history[k].id => n <= m
    BY <2>2
  <2> QED BY <1>1, <2>3 DEF Place
<1> QED BY <1>1, <1>2 DEF Place

LEMMA LastFound ==
    ASSUME NEW messages \in Seq(Message), NEW id \in Known(messages)
    PROVE  \E n \in DOMAIN messages : messages[n].id = id /\ Found(messages, n)
<1> DEFINE beyond == {j \in Nat : Len(messages) - j \in DOMAIN messages
                                 /\ messages[Len(messages) - j].id = id}
<1>1. /\ Len(messages) \in Nat /\ DOMAIN messages = 1..Len(messages)
  OBVIOUS
<1>2. beyond # {}
  <2>1. PICK n \in DOMAIN messages : messages[n].id = id
    BY DEF Known
  <2>2. Len(messages) - n \in Nat /\ Len(messages) - (Len(messages) - n) = n
    BY <1>1
  <2> QED BY <2>1, <2>2
<1>3. PICK j \in beyond : \A i \in beyond : j <= i
  <2>1. beyond \in SUBSET Nat
    OBVIOUS
  <2> HIDE DEF beyond
  <2> QED BY <1>2, <2>1, LeastNumber
<1>4. ASSUME NEW k \in DOMAIN messages, messages[k].id = id
      PROVE  k <= Len(messages) - j
  <2>1. Len(messages) - k \in Nat /\ Len(messages) - (Len(messages) - k) = k
    BY <1>1
  <2>2. Len(messages) - k \in beyond
    BY <1>4, <2>1
  <2>3. j <= Len(messages) - k
    BY <1>3, <2>2
  <2> QED BY <1>1, <2>1, <2>3
<1> QED BY <1>4 DEF Found

\* What is merged are the messages of the snapshot, each once, in some order.
Reordered(history, merged) ==
    \E order \in [DOMAIN history -> DOMAIN history] :
        /\ merged = [n \in DOMAIN history |-> history[order[n]]]
        /\ \A m, n \in DOMAIN history : order[m] = order[n] => m = n

LEMMA MergedOrder ==
    ASSUME NEW messages \in Seq(Message), NEW history \in Seq(Message),
           NEW merged \in Merged(messages, history)
    PROVE  Reordered(history, merged)
<1>1. PICK order \in [DOMAIN history -> DOMAIN history] :
         /\ merged = [n \in DOMAIN history |-> history[order[n]]]
         /\ \A m, n \in DOMAIN history :
               m < n => Place(messages, history, order[m]) < Place(messages, history, order[n])
  BY DEF Merged
<1>2. ASSUME NEW m \in DOMAIN history, NEW n \in DOMAIN history, order[m] = order[n], m # n
      PROVE  FALSE
  <2>1. m \in Nat /\ n \in Nat
    OBVIOUS
  <2>2. Place(messages, history, order[m]) \in Nat
    BY FirstPlace
  <2>3. m < n \/ n < m
    BY <1>2, <2>1
  <2>4. Place(messages, history, order[m]) < Place(messages, history, order[n])
        \/ Place(messages, history, order[n]) < Place(messages, history, order[m])
    BY <1>1, <2>3
  <2> QED BY <1>2, <2>2, <2>4
<1> QED BY <1>1, <1>2 DEF Reordered

LEMMA MergedFacts ==
    ASSUME NEW messages \in Seq(Message), NEW history \in Seq(Message),
           NEW merged \in Merged(messages, history)
    PROVE  /\ merged \in Seq(Message)
           /\ Told(history) => Told(merged)
           /\ Distinct(history) => Distinct(merged)
<1>0. Reordered(history, merged)
  BY MergedOrder
<1>1. PICK order \in [DOMAIN history -> DOMAIN history] :
         /\ merged = [n \in DOMAIN history |-> history[order[n]]]
         /\ \A m, n \in DOMAIN history : order[m] = order[n] => m = n
  BY <1>0 DEF Reordered
<1>2. Len(history) \in Nat /\ DOMAIN history = 1..Len(history)
  OBVIOUS
<1>3. /\ DOMAIN merged = DOMAIN history
      /\ \A n \in DOMAIN history : order[n] \in DOMAIN history /\ merged[n] = history[order[n]]
  BY <1>1
<1>4. merged \in Seq(Message)
  <2>1. \A n \in DOMAIN history : history[n] \in Message
    BY <1>2, ElementOfSeq
  <2>2. merged \in [1..Len(history) -> Message]
    BY <1>1, <1>2, <2>1
  <2> QED BY <1>2, <2>2, SeqDef
<1> QED BY <1>1, <1>3, <1>4 DEF Told, Distinct

LEMMA TerminateType ==
    ASSUME TypeOK, NEW t \in Threads, NEW end \in Ends, NEW listed \in SUBSET Calls,
           Terminate(t, end, listed)
    PROVE  thread' \in Threads /\ stream' \in Streams /\ ends' \in [Runs -> Ends]
<1>1. stream' \in Streams
  BY DEF Terminate, TypeOK, Streams
<1>2. [t EXCEPT !.last = end, !.listed = listed, !.active = None] \in Threads
  BY DEF Threads
<1> QED BY <1>1, <1>2 DEF Terminate, TypeOK

LEMMA GiveUpType ==
    ASSUME TypeOK, NEW end \in Ends, GiveUp(end)
    PROVE  /\ thread' \in Threads /\ stream' \in Streams /\ ends' \in [Runs -> Ends]
           /\ UNCHANGED <<expired, sends, owed>>
<1>1. Stopped(Unconfirmed(thread)) \in Threads
  BY GivenUp DEF TypeOK
<1> QED BY <1>1, TerminateType DEF GiveUp

LEMMA ConfirmedType ==
    ASSUME TypeOK
    PROVE  Confirmed(thread) \subseteq Calls
BY DEF TypeOK, Confirmed, Threads

LEMMA NoStreamType == NoStream \in Streams
<1>1. C!Fresh \in C!Verifier
  BY DEF C!Fresh, C!Verifier, C!ChunkKinds, C!Owners, C!Owner, C!Absent, C!Buckets,
         C!NoOwners, ChunkKinds, Owners, Owner, Absent, Buckets
<1> QED BY <1>1 DEF NoStream, Streams

LEMMA TypeInit == Init => TypeOK
<1> SUFFICES ASSUME Init PROVE TypeOK
  OBVIOUS
<1>1. NewThread \in Threads
  BY DEF NewThread, Threads, Statuses, Ends, Owner
<1> QED BY <1>1, NoStreamType DEF Init, TypeOK, Ends

LEMMA TypePreparing ==
    ASSUME TypeOK, UNCHANGED setting,
           \/ Run \/ Resume
           \/ \E m \in Answers, c \in setting.calls : SendAnswer(m, c) \/ PushAnswer(m, c)
    PROVE  TypeOK'
<1>1. ASSUME NEW resume \in BOOLEAN, NEW answer \in (Answers \X Calls) \cup {None},
             Prepare(resume, answer)
      PROVE  TypeOK'
  <2>1. PICK r \in Runs :
           stream' = [NoStream EXCEPT !.phase = "prepared", !.run = r,
                                      !.resume = resume, !.answer = answer]
    BY <1>1 DEF Prepare
  <2>2. stream' \in Streams
    BY <2>1, NoStreamType DEF Streams
  <2> QED BY <1>1, <2>2 DEF TypeOK, Prepare
<1>2. ASSUME NEW m \in Answers, NEW c \in setting.calls, PushAnswer(m, c)
      PROVE  TypeOK'
  <2>1. c \in Calls /\ m \in Ids
    BY DEF TypeOK, Setting
  <2>2. Append(thread.messages, [id |-> m, role |-> "tool", calls |-> {c}]) \in Seq(Message)
    BY <2>1, AppendType DEF TypeOK, Threads
  <2>3. thread' \in Threads
    BY <1>2, <2>2 DEF PushAnswer, TypeOK, Threads
  <2> QED BY <1>2, <2>3 DEF TypeOK, PushAnswer
<1>3. ASSUME NEW m \in Answers, NEW c \in setting.calls, SendAnswer(m, c)
      PROVE  TypeOK'
  BY <1>1, <1>3 DEF SendAnswer, TypeOK, Setting
<1>4. CASE Run \/ Resume
  BY <1>1, <1>4 DEF Run, Resume
<1> QED BY <1>2, <1>3, <1>4

LEMMA HeardHere ==
    ASSUME TypeOK
    PROVE  /\ RunStarted(NoOwners) \in Heard
           /\ \A c \in setting.calls :
                 /\ c \in Calls
                 /\ \A p \in setting.carriers : p \in Ids \cup {None} /\ StartUnder(p, c, None) \in Heard
                 /\ End("tool", c, None) \in Heard
                 /\ \A m \in Answers : m \in Ids /\ ToolResult(m, c, None) \in Heard
           /\ \A history \in setting.restated :
                 /\ history \in Seq(Message)
                 /\ MessagesSnapshot(OwnersIn(history)) \in Heard
           /\ \A s \in Subagents : /\ \A p \in Owner : SubagentStarted(s, p) \in Heard
                                   /\ SubagentFinished(s) \in Heard
                                   /\ SubagentError(s) \in Heard
BY OwnersInType DEF TypeOK, Setting, Heard

\* The conversation is restated: nothing else of the thread changes.
LEMMA RestatedFacts ==
    ASSUME TypeOK, NEW history \in setting.restated, Restated(history)
    PROVE  /\ thread' = [thread EXCEPT !.messages = thread'.messages]
           /\ thread'.messages \in Seq(Message)
           /\ Told(history) => Told(thread'.messages)
           /\ Distinct(history) => Distinct(thread'.messages)
           /\ owed' = (Carried(thread'.messages) \ Answered(thread'.messages)) \ thread.decided
<1>1. thread.messages \in Seq(Message) /\ history \in Seq(Message)
  BY HeardHere DEF TypeOK, Threads
<1>2. PICK merged \in Merged(thread.messages, history) :
         /\ thread' = [thread EXCEPT !.messages = merged]
         /\ owed' = (Carried(merged) \ Answered(merged)) \ thread.decided
  BY DEF Restated
<1>3. thread'.messages = merged
  BY <1>2 DEF TypeOK, Threads
<1> QED BY <1>1, <1>2, <1>3, MergedFacts

LEMMA TypeReceive ==
    ASSUME TypeOK, UNCHANGED setting, Receive
    PROVE  TypeOK'
<1> USE HeardHere
<1> USE DEF TypeOK
<1>1. CASE Started
  <2>1. After(RunStarted(NoOwners)) \in C!Verifier
    BY AfterType
  <2>2. stream' \in Streams
    BY <1>1, <2>1, StreamHeard DEF Started
  <2> QED BY <1>1, <2>2 DEF Started, Resumes
<1>2. ASSUME NEW c \in setting.calls, NEW p \in setting.carriers, ToolStarted(c, p)
      PROVE  TypeOK'
  <2>1. After(StartUnder(p, c, None)) \in C!Verifier
    BY AfterType
  <2>2. stream' \in Streams
    BY <1>2, <2>1, StreamHeard DEF ToolStarted
  <2>3. Placed(thread.messages, c, p) \in Seq(Message)
    BY PlacedType DEF Threads
  <2>4. thread' \in Threads
    BY <1>2, <2>3 DEF ToolStarted, Threads
  <2> QED BY <1>2, <2>2, <2>4 DEF ToolStarted, Resumes
<1>3. ASSUME NEW c \in setting.calls, ToolEnded(c)
      PROVE  TypeOK'
  <2>1. After(End("tool", c, None)) \in C!Verifier
    BY AfterType
  <2>2. stream' \in Streams
    BY <1>3, <2>1, StreamHeard DEF ToolEnded
  <2> QED BY <1>3, <2>2 DEF ToolEnded, Resumes
<1>4. ASSUME NEW c \in setting.calls, NEW m \in Answers, ToolAnswered(m, c)
      PROVE  TypeOK'
  <2>1. After(ToolResult(m, c, None)) \in C!Verifier
    BY AfterType
  <2>2. stream' \in Streams
    BY <1>4, <2>1, StreamHeard DEF ToolAnswered
  <2>3. Append(thread.messages, [id |-> m, role |-> "tool", calls |-> {c}]) \in Seq(Message)
    BY AppendType DEF Threads
  <2>4. thread' \in Threads
    BY <1>4, <2>3 DEF ToolAnswered, Threads
  <2> QED BY <1>4, <2>2, <2>4 DEF ToolAnswered, Resumes
<1>5. ASSUME NEW s \in Subagents, NEW p \in Owner, SubagentAnnounced(s, p)
      PROVE  TypeOK'
  <2>1. After(SubagentStarted(s, p)) \in C!Verifier
    BY AfterType
  <2>2. stream' \in Streams
    BY <1>5, <2>1, StreamHeard DEF SubagentAnnounced
  <2>3. [thread.subagents EXCEPT ![s] =
            [status |-> "running", parent |-> IF p = None THEN @.parent ELSE p]]
            \in [Subagents -> [status : Statuses, parent : Owner]]
    BY DEF Threads, Statuses
  <2>4. thread' \in Threads
    BY <1>5, <2>3 DEF SubagentAnnounced, Threads
  <2> QED BY <1>5, <2>2, <2>4 DEF SubagentAnnounced, Resumes
<1>6. ASSUME NEW s \in Subagents, NEW status \in {"suspended", "finished", "failed"},
             SubagentConcluded(s, status)
      PROVE  TypeOK'
  <2> DEFINE e == IF status = "failed" THEN SubagentError(s) ELSE SubagentFinished(s)
  <2>1. After(e) \in C!Verifier
    BY AfterType
  <2> HIDE DEF e
  <2>2. stream' = [stream EXCEPT !.verifier = After(e)]
    BY <1>6 DEF SubagentConcluded, e
  <2>3. stream' \in Streams
    BY <2>1, <2>2 DEF Streams
  <2>4. /\ thread.subagents[s] \in [status : Statuses, parent : Owner]
        /\ status \in Statuses
    BY DEF Threads, Statuses
  <2> HIDE DEF Statuses
  <2>a. [thread.subagents EXCEPT ![s].status = status]
            \in [Subagents -> [status : Statuses, parent : Owner]]
    BY <2>4 DEF Threads
  <2>5. thread' \in Threads
    BY <1>6, <2>a DEF SubagentConcluded, Threads
  <2> QED BY <1>6, <2>3, <2>5 DEF SubagentConcluded, Resumes
<1>7. ASSUME NEW listed \in SUBSET setting.calls, Succeeded(listed)
      PROVE  TypeOK'
  <2> DEFINE t == [thread EXCEPT !.decided = @ \cup Confirmed(thread),
                                 !.submission = None, !.interrupts = {}]
  <2>1. t \in Threads
    BY ConfirmedType DEF Threads
  <2>2. listed \in SUBSET Calls /\ "success" \in Ends
    BY DEF Setting, Ends
  <2>3. Terminate(t, "success", listed)
    BY <1>7 DEF Succeeded
  <2> HIDE DEF t
  <2>4. thread' \in Threads /\ stream' \in Streams /\ ends' \in [Runs -> Ends]
    BY <2>1, <2>2, <2>3, TerminateType
  <2> QED BY <1>7, <2>2, <2>4 DEF Succeeded
<1>8. ASSUME NEW asked \in SUBSET setting.interrupts, Interrupted(asked)
      PROVE  TypeOK'
  <2> DEFINE t == [thread EXCEPT !.decided = @ \cup Confirmed(thread),
                                 !.submission = None, !.interrupts = asked]
  <2>1. asked \subseteq Interrupts
    BY DEF Setting
  <2>2. t \in Threads
    BY <2>1, ConfirmedType DEF Threads
  <2>3. Terminate(t, "interrupted", {})
    BY <1>8 DEF Interrupted
  <2> HIDE DEF t
  <2>4. thread' \in Threads /\ stream' \in Streams /\ ends' \in [Runs -> Ends]
    BY <2>2, <2>3, TerminateType DEF Ends
  <2> QED BY <1>8, <2>4 DEF Interrupted
<1>9. CASE Cancelled \/ Fail
  <2>1. PICK end \in Ends : GiveUp(end)
    BY <1>9 DEF Cancelled, Fail, Ends
  <2> QED BY <1>9, <2>1, GiveUpType DEF Cancelled, Fail
<1>10. ASSUME NEW history \in setting.restated, Restated(history)
       PROVE  TypeOK'
  <2>1. After(MessagesSnapshot(OwnersIn(history))) \in C!Verifier
    BY AfterType
  <2>2. stream' \in Streams
    BY <1>10, <2>1, StreamHeard DEF Restated
  <2>3. thread' \in Threads /\ owed' \subseteq Calls
    <3>1. Carried(thread'.messages) \subseteq Calls
      BY <1>10, RestatedFacts, CarriedType
    <3> QED BY <1>10, <3>1, RestatedFacts DEF Threads
  <2> QED BY <1>10, <2>2, <2>3 DEF Restated, Resumes
<1> QED BY <1>1, <1>2, <1>3, <1>4, <1>5, <1>6, <1>7, <1>8, <1>9, <1>10 DEF Receive

LEMMA TypePoll ==
    ASSUME TypeOK, RunsAgree, UNCHANGED setting, Poll
    PROVE  TypeOK'
<1> USE DEF TypeOK
<1>1. CASE Register
  BY <1>1 DEF Register, Streams
<1>2. CASE Check
  <2>1. CASE UNCHANGED <<thread, expired, stream, sends, owed, ends>>
    BY <1>2, <2>1 DEF Check
  <2>2. CASE GiveUp("aborted")
    BY <1>2, <2>2, GiveUpType DEF Check, Ends
  <2>3. CASE Terminate(thread, "aborted", {}) /\ UNCHANGED <<expired, sends, owed>>
    BY <1>2, <2>3, TerminateType DEF Check, Ends
  <2> QED BY <1>2, <2>1, <2>2, <2>3 DEF Check
<1>3. CASE Dispatch
  <2> DEFINE messages == IF stream.answer = None THEN thread.messages
                         ELSE Append(thread.messages, [id |-> stream.answer[1], role |-> "tool",
                                                       calls |-> {stream.answer[2]}])
             submission == IF stream.resume
                           THEN [run |-> stream.run, entries |-> thread.interrupts,
                                 status |-> "in flight"]
                           ELSE thread.submission
  <2>1. messages \in Seq(Message)
    BY AppendType DEF Threads, Streams
  <2>2. stream.run \in Runs /\ submission \in Submission \cup {None}
    BY <1>3 DEF Threads, Submission, Dispatch, RunsAgree
  <2>3. stream' \in Streams
    BY <1>3 DEF Dispatch, Streams
  <2>4. thread' = [thread EXCEPT !.used = @ \cup {stream.run}, !.active = stream.run,
                                 !.messages = messages, !.submission = submission]
    BY <1>3 DEF Dispatch
  <2> HIDE DEF messages, submission
  <2>5. thread' \in Threads
    BY <2>1, <2>2, <2>4 DEF Threads
  <2>6. sends' \in Nat /\ owed' \subseteq Calls
    BY <1>3 DEF Dispatch
  <2> QED BY <1>3, <2>3, <2>5, <2>6 DEF Dispatch
<1>4. CASE Expired
  BY <1>4, GiveUpType DEF Expired, Ends
<1>5. CASE Pending
  BY <1>5 DEF Pending
<1>6. CASE Yield
  BY <1>6 DEF Yield, Streams
<1> QED BY <1>1, <1>2, <1>3, <1>4, <1>5, <1>6, TypeReceive DEF Poll

LEMMA TypeAround ==
    ASSUME TypeOK,
           \/ TransportReady \/ Abort \/ AbortWake \/ Drop \/ \E i \in Interrupts : Expire(i)
    PROVE  UNCHANGED setting => TypeOK'
<1> USE DEF TypeOK
<1>1. CASE TransportReady
  BY <1>1 DEF TransportReady
<1>2. CASE Abort
  BY <1>2 DEF Abort, Streams
<1>3. CASE AbortWake
  BY <1>3 DEF AbortWake, Streams
<1>4. CASE Drop
  <2> DEFINE u == Stopped(Unconfirmed(thread))
  <2>1. u \in Threads
    BY GivenUp
  <2> HIDE DEF u
  <2>2. [u EXCEPT !.last = "aborted", !.listed = {}, !.active = None] \in Threads
    BY <2>1 DEF Threads, Ends
  <2>3. [ends EXCEPT ![stream.run] = "aborted"] \in [Runs -> Ends]
    BY DEF Ends
  <2>4. thread' \in Threads /\ ends' \in [Runs -> Ends]
    BY <1>4, <2>2, <2>3 DEF Drop, u
  <2> QED BY <1>4, <2>4, NoStreamType DEF Drop
<1>5. CASE \E i \in Interrupts : Expire(i)
  BY <1>5 DEF Expire, Threads
<1> QED BY <1>1, <1>2, <1>3, <1>4, <1>5

LEMMA TypeRestart ==
    ASSUME TypeOK, Restart
    PROVE  TypeOK'
<1> USE DEF TypeOK
<1> DEFINE u == Stopped(Unconfirmed(thread))
<1>1. u \in Threads
  BY GivenUp
<1> HIDE DEF u
<1>2. thread' = [u EXCEPT !.active = None,
                          !.last = IF thread.active = None THEN @ ELSE "aborted",
                          !.listed = IF thread.active = None THEN @ ELSE {}]
  BY DEF Restart, u
<1>3. thread' \in Threads
  BY <1>1, <1>2 DEF Threads, Ends
<1>4. ends' \in [Runs -> Ends]
  BY DEF Restart, Ends
<1>5. setting' \in Setting
  BY DEF Restart, Setting
<1> QED BY <1>3, <1>4, <1>5, NoStreamType DEF Restart

LEMMA TypeStep ==
    ASSUME TypeOK, RunsAgree, [Next]_vars
    PROVE  TypeOK'
<1>1. CASE UNCHANGED vars
  BY <1>1 DEF TypeOK, vars
<1>2. CASE Step /\ UNCHANGED setting
  BY <1>2, TypePreparing, TypePoll, TypeAround DEF Step
<1> QED BY <1>1, <1>2, TypeRestart DEF Next

-----------------------------------------------------------------------------
(* One run at a time, and each ends once. *)

\* What a run reported is not rewritten.
Stands == \A r \in Runs : ends[r] # "none" => ends'[r] = ends[r]

\* The record of a run is kept where the run itself is kept.
LEMMA RunsKept ==
    ASSUME RunsAgree,
           UNCHANGED <<stream.phase, stream.run, stream.done,
                       thread.active, thread.used, ends>>
    PROVE  RunsAgree' /\ Stands
BY DEF RunsAgree, Live, Stands

LEMMA RunsTerminated ==
    ASSUME TypeOK, RunsAgree, ~stream.done,
           NEW t \in Threads, t.active = thread.active, t.used = thread.used,
           NEW end, NEW listed, Terminate(t, end, listed)
    PROVE  RunsAgree' /\ Stands
<1>1. /\ stream'.phase = stream.phase /\ stream'.run = stream.run /\ stream'.done
  BY DEF Terminate, TypeOK, Streams
<1>2. /\ thread'.used = thread.used
      /\ thread'.active = None
  BY DEF Terminate, TypeOK, Threads, RunsAgree, Live
<1>3. \A r \in Runs : ends'[r] # ends[r] => Live /\ r = stream.run
  BY DEF Terminate, TypeOK, Live
<1> QED BY <1>1, <1>2, <1>3 DEF RunsAgree, Live, Stands

LEMMA RunsGivenUp ==
    ASSUME TypeOK, RunsAgree, ~stream.done, NEW end, GiveUp(end)
    PROVE  RunsAgree' /\ Stands
<1> DEFINE u == Stopped(Unconfirmed(thread))
<1>1. u \in Threads /\ u = [thread EXCEPT !.submission = u.submission, !.subagents = u.subagents]
  BY GivenUp DEF TypeOK
<1>2. Terminate(u, end, {})
  BY DEF GiveUp
<1> HIDE DEF u
<1>3. u.active = thread.active /\ u.used = thread.used
  BY <1>1 DEF TypeOK, Threads
<1> QED BY <1>1, <1>2, <1>3, RunsTerminated

LEMMA RunsReceive ==
    ASSUME TypeOK, RunsAgree, Receive
    PROVE  RunsAgree' /\ Stands
<1> USE DEF TypeOK
<1>1. CASE Started \/ \E c \in setting.calls : ToolEnded(c)
  BY <1>1, RunsKept DEF Started, ToolEnded, Streams
<1>2. ASSUME NEW c \in setting.calls, NEW p \in setting.carriers, ToolStarted(c, p)
      PROVE  RunsAgree' /\ Stands
  BY <1>2, RunsKept DEF ToolStarted, Streams, Threads
<1>3. ASSUME NEW c \in setting.calls, NEW m \in Answers, ToolAnswered(m, c)
      PROVE  RunsAgree' /\ Stands
  BY <1>3, RunsKept DEF ToolAnswered, Streams, Threads
<1>4. ASSUME NEW s \in Subagents, NEW p \in Owner, SubagentAnnounced(s, p)
      PROVE  RunsAgree' /\ Stands
  BY <1>4, RunsKept DEF SubagentAnnounced, Streams, Threads
<1>5. ASSUME NEW s \in Subagents, NEW status \in {"suspended", "finished", "failed"},
             SubagentConcluded(s, status)
      PROVE  RunsAgree' /\ Stands
  BY <1>5, RunsKept DEF SubagentConcluded, Streams, Threads
<1>6. ASSUME NEW listed \in SUBSET setting.calls, Succeeded(listed)
      PROVE  RunsAgree' /\ Stands
  <2> DEFINE t == [thread EXCEPT !.decided = @ \cup Confirmed(thread),
                                 !.submission = None, !.interrupts = {}]
  <2>1. t \in Threads /\ t.active = thread.active /\ t.used = thread.used
    BY ConfirmedType DEF Threads
  <2>2. Terminate(t, "success", listed) /\ ~stream.done
    BY <1>6 DEF Succeeded, Closing, Reading
  <2> HIDE DEF t
  <2> QED BY <2>1, <2>2, RunsTerminated
<1>7. ASSUME NEW asked \in SUBSET setting.interrupts, Interrupted(asked)
      PROVE  RunsAgree' /\ Stands
  <2> DEFINE t == [thread EXCEPT !.decided = @ \cup Confirmed(thread),
                                 !.submission = None, !.interrupts = asked]
  <2>1. t \in Threads /\ t.active = thread.active /\ t.used = thread.used
    BY ConfirmedType DEF Threads, Setting
  <2>2. Terminate(t, "interrupted", {}) /\ ~stream.done
    BY <1>7 DEF Interrupted, Closing, Reading
  <2> HIDE DEF t
  <2> QED BY <2>1, <2>2, RunsTerminated
<1>8. CASE Cancelled \/ Fail
  BY <1>8, RunsGivenUp DEF Cancelled, Fail, Closing, Reading
<1>9. ASSUME NEW history \in setting.restated, Restated(history)
      PROVE  RunsAgree' /\ Stands
  BY <1>9, RunsKept DEF Restated, Streams, Threads
<1> QED BY <1>1, <1>2, <1>3, <1>4, <1>5, <1>6, <1>7, <1>8, <1>9 DEF Receive

LEMMA RunsPoll ==
    ASSUME TypeOK, RunsAgree, Poll
    PROVE  RunsAgree' /\ Stands
<1> USE DEF TypeOK
<1>1. CASE Register
  BY <1>1, RunsKept DEF Register, Streams
<1>2. CASE Check
  <2>1. CASE UNCHANGED <<thread, expired, stream, sends, owed, ends>>
    BY <2>1, RunsKept
  <2>2. CASE ~stream.done /\ GiveUp("aborted")
    BY <2>2, RunsGivenUp
  <2>3. CASE ~stream.done /\ Terminate(thread, "aborted", {})
    BY <2>3, RunsTerminated
  <2> QED BY <1>2, <2>1, <2>2, <2>3 DEF Check
<1>3. CASE Dispatch
  <2>1. /\ stream'.phase = "open" /\ ~stream'.done /\ stream'.run = stream.run
        /\ thread'.active = stream.run /\ thread'.used = thread.used \cup {stream.run}
        /\ ends' = ends
    BY <1>3 DEF Dispatch, Streams, Threads
  <2> QED BY <1>3, <2>1 DEF Dispatch, RunsAgree, Live, Stands
<1>4. CASE Expired
  BY <1>4, RunsGivenUp DEF Expired
<1>5. CASE Pending
  BY <1>5, RunsKept DEF Pending
<1>6. CASE Yield
  BY <1>6, RunsKept DEF Yield, Streams
<1> QED BY <1>1, <1>2, <1>3, <1>4, <1>5, <1>6, RunsReceive DEF Poll

LEMMA RunsAround ==
    ASSUME TypeOK, RunsAgree,
           \/ TransportReady \/ Abort \/ AbortWake \/ Drop \/ \E i \in Interrupts : Expire(i)
    PROVE  RunsAgree' /\ Stands
<1> USE DEF TypeOK
<1>1. CASE TransportReady \/ \E i \in Interrupts : Expire(i)
  BY <1>1, RunsKept DEF TransportReady, Expire
<1>2. CASE Abort \/ AbortWake
  BY <1>2, RunsKept DEF Abort, AbortWake, Streams
<1>3. CASE Drop /\ ~Live
  BY <1>3 DEF Drop, RunsAgree, Live, Stands, NoStream
<1>4. CASE Drop /\ Live
  <2> DEFINE u == Stopped(Unconfirmed(thread))
  <2>1. u \in Threads /\ u.used = thread.used
    <3>1. u \in Threads /\ u = [thread EXCEPT !.submission = u.submission,
                                                !.subagents = u.subagents]
      BY GivenUp
    <3> HIDE DEF u
    <3> QED BY <3>1 DEF Threads
  <2> HIDE DEF u
  <2>2. thread' = [u EXCEPT !.last = "aborted", !.listed = {}, !.active = None]
    BY <1>4 DEF Drop, Live, u
  <2>3. thread'.active = None /\ thread'.used = thread.used
    BY <2>1, <2>2 DEF Threads
  <2>4. ends' = [ends EXCEPT ![stream.run] = "aborted"] /\ stream' = NoStream
    BY <1>4 DEF Drop, Live
  <2> QED BY <1>4, <2>3, <2>4 DEF RunsAgree, Live, Stands, NoStream
<1> QED BY <1>1, <1>2, <1>3, <1>4

LEMMA RunsRestart ==
    ASSUME TypeOK, RunsAgree, Restart
    PROVE  RunsAgree' /\ Stands
<1> USE DEF TypeOK
<1> DEFINE u == Stopped(Unconfirmed(thread))
<1>1. u \in Threads /\ u.used = thread.used
  <2>1. u \in Threads /\ u = [thread EXCEPT !.submission = u.submission,
                                              !.subagents = u.subagents]
    BY GivenUp
  <2> HIDE DEF u
  <2> QED BY <2>1 DEF Threads
<1> HIDE DEF u
<1>2. thread' = [u EXCEPT !.active = None,
                          !.last = IF thread.active = None THEN @ ELSE "aborted",
                          !.listed = IF thread.active = None THEN @ ELSE {}]
  BY DEF Restart, u
<1>3. thread'.active = None /\ thread'.used = thread.used
  BY <1>1, <1>2 DEF Threads
<1>4. /\ ends' = IF thread.active = None THEN ends
                 ELSE [ends EXCEPT ![thread.active] = "aborted"]
      /\ stream' = NoStream
  BY DEF Restart
<1>5. CASE Live
  BY <1>3, <1>4, <1>5 DEF RunsAgree, Live, Stands, NoStream
<1>6. CASE ~Live
  BY <1>3, <1>4, <1>6 DEF RunsAgree, Live, Stands, NoStream
<1> QED BY <1>5, <1>6

LEMMA RunsPrepared ==
    ASSUME TypeOK, RunsAgree, NEW resume, NEW answer, Prepare(resume, answer)
    PROVE  RunsAgree' /\ Stands
<1> PICK r \in Runs :
       Fresh(r) /\ stream' = [NoStream EXCEPT !.phase = "prepared", !.run = r,
                                              !.resume = resume, !.answer = answer]
  BY DEF Prepare
<1>1. /\ stream'.phase = "prepared" /\ stream'.run = r /\ r \notin thread.used
      /\ UNCHANGED <<thread, ends>> /\ ~Live
  BY DEF NoStream, Fresh, Prepare, Live
<1> QED BY <1>1 DEF RunsAgree, Live, Stands

LEMMA RunsStep ==
    ASSUME TypeOK, RunsAgree, [Next]_vars
    PROVE  RunsAgree' /\ Stands
<1>1. CASE UNCHANGED vars
  BY <1>1, RunsKept DEF vars
<1>2. CASE Run \/ Resume
  BY <1>2, RunsPrepared DEF Run, Resume
<1>3. ASSUME NEW m \in Answers, NEW c \in setting.calls, SendAnswer(m, c)
      PROVE  RunsAgree' /\ Stands
  BY <1>3, RunsPrepared DEF SendAnswer
<1>4. ASSUME NEW m \in Answers, NEW c \in setting.calls, PushAnswer(m, c)
      PROVE  RunsAgree' /\ Stands
  BY <1>4, RunsKept DEF PushAnswer, TypeOK, Threads
<1> QED BY <1>1, <1>2, <1>3, <1>4, RunsPoll, RunsAround, RunsRestart DEF Next, Step

LEMMA RunsInit == Init => RunsAgree
<1> SUFFICES ASSUME Init PROVE RunsAgree
  OBVIOUS
<1>1. thread.active = None /\ thread.used = {}
  BY DEF Init, NewThread
<1>2. stream.phase = "none"
  BY DEF Init, NoStream
<1>3. \A r \in Runs : ends[r] = "none"
  BY DEF Init
<1> QED BY <1>1, <1>2, <1>3 DEF RunsAgree, Live

LEMMA RunsInvariant == Spec => [](TypeOK /\ RunsAgree)
<1>1. Init => TypeOK /\ RunsAgree
  BY TypeInit, RunsInit
<1>2. TypeOK /\ RunsAgree /\ [Next]_vars => (TypeOK /\ RunsAgree)'
  BY TypeStep, RunsStep
<1> QED BY <1>1, <1>2, PTL DEF Spec

\* What a server sends, an application answers and a process restores keeps the
\* shape of a thread and its stream.
THEOREM TypeCorrect == Spec => []TypeOK
BY RunsInvariant, PTL

\* How a run ended stands for every set of runs: a late abort, a drop, a restart or a
\* second terminal finds the run no longer active, or its stream done.
THEOREM TerminalsStand == Spec => TerminalStands
<1>1. TypeOK /\ RunsAgree /\ [Next]_vars
         => [\A r \in Runs : ends[r] # "none" => ends'[r] = ends[r]]_vars
  BY RunsStep DEF Stands
<1> QED BY <1>1, RunsInvariant, PTL DEF Spec, TerminalStands

-----------------------------------------------------------------------------
(* What was submitted, and how often. *)

LEMMA SubmissionKept ==
    ASSUME SubmissionAgrees,
           UNCHANGED <<stream.phase, stream.done, thread.submission, sends>>
    PROVE  SubmissionAgrees'
BY DEF SubmissionAgrees, Live

\* An end that confirms nothing leaves the submission unconfirmed, sent once.
LEMMA SubmissionGivenUp ==
    ASSUME TypeOK, SubmissionAgrees, NEW end, GiveUp(end)
    PROVE  SubmissionAgrees'
<1> DEFINE u == Stopped(Unconfirmed(thread))
<1>1. /\ u \in Threads
      /\ u.submission = None <=> thread.submission = None
      /\ thread.submission # None => u.submission.status = "unconfirmed"
  BY GivenUp DEF TypeOK
<1>2. Terminate(u, end, {}) /\ sends' = sends
  BY DEF GiveUp
<1> HIDE DEF u
<1>3. thread'.submission = u.submission
  BY <1>1, <1>2 DEF Terminate, Threads
<1>4. stream'.phase = stream.phase /\ stream'.done
  BY <1>2 DEF Terminate, TypeOK, Streams
<1> QED BY <1>1, <1>2, <1>3, <1>4 DEF SubmissionAgrees, Live

\* The server's terminal settles it.
LEMMA SubmissionSettled ==
    ASSUME TypeOK, NEW t \in Threads, t.submission = None, NEW end, NEW listed,
           Terminate(t, end, listed), sends' = 0
    PROVE  SubmissionAgrees'
<1>1. thread'.submission = None
  BY DEF Terminate, Threads
<1> QED BY <1>1 DEF SubmissionAgrees

LEMMA SubmissionReceive ==
    ASSUME TypeOK, SubmissionAgrees, Receive
    PROVE  SubmissionAgrees'
<1> USE DEF TypeOK
<1>1. CASE Started \/ \E c \in setting.calls : ToolEnded(c)
  BY <1>1, SubmissionKept DEF Started, ToolEnded, Streams
<1>2. ASSUME NEW c \in setting.calls, NEW p \in setting.carriers, ToolStarted(c, p)
      PROVE  SubmissionAgrees'
  BY <1>2, SubmissionKept DEF ToolStarted, Streams, Threads
<1>3. ASSUME NEW c \in setting.calls, NEW m \in Answers, ToolAnswered(m, c)
      PROVE  SubmissionAgrees'
  BY <1>3, SubmissionKept DEF ToolAnswered, Streams, Threads
<1>4. ASSUME NEW s \in Subagents, NEW p \in Owner, SubagentAnnounced(s, p)
      PROVE  SubmissionAgrees'
  BY <1>4, SubmissionKept DEF SubagentAnnounced, Streams, Threads
<1>5. ASSUME NEW s \in Subagents, NEW status \in {"suspended", "finished", "failed"},
             SubagentConcluded(s, status)
      PROVE  SubmissionAgrees'
  BY <1>5, SubmissionKept DEF SubagentConcluded, Streams, Threads
<1>6. ASSUME NEW listed \in SUBSET setting.calls, Succeeded(listed)
      PROVE  SubmissionAgrees'
  <2> DEFINE t == [thread EXCEPT !.decided = @ \cup Confirmed(thread),
                                 !.submission = None, !.interrupts = {}]
  <2>1. t \in Threads /\ t.submission = None
    BY ConfirmedType DEF Threads
  <2>2. Terminate(t, "success", listed) /\ sends' = 0
    BY <1>6 DEF Succeeded
  <2> HIDE DEF t
  <2> QED BY <2>1, <2>2, SubmissionSettled
<1>7. ASSUME NEW asked \in SUBSET setting.interrupts, Interrupted(asked)
      PROVE  SubmissionAgrees'
  <2> DEFINE t == [thread EXCEPT !.decided = @ \cup Confirmed(thread),
                                 !.submission = None, !.interrupts = asked]
  <2>1. t \in Threads /\ t.submission = None
    BY ConfirmedType DEF Threads, Setting
  <2>2. Terminate(t, "interrupted", {}) /\ sends' = 0
    BY <1>7 DEF Interrupted
  <2> HIDE DEF t
  <2> QED BY <2>1, <2>2, SubmissionSettled
<1>8. CASE Cancelled \/ Fail
  BY <1>8, SubmissionGivenUp DEF Cancelled, Fail
<1>9. ASSUME NEW history \in setting.restated, Restated(history)
      PROVE  SubmissionAgrees'
  BY <1>9, SubmissionKept DEF Restated, Streams, Threads
<1> QED BY <1>1, <1>2, <1>3, <1>4, <1>5, <1>6, <1>7, <1>8, <1>9 DEF Receive

LEMMA SubmissionPoll ==
    ASSUME TypeOK, RunsAgree, SubmissionAgrees, Poll
    PROVE  SubmissionAgrees'
<1> USE DEF TypeOK
<1>1. CASE Register
  BY <1>1, SubmissionKept DEF Register, Streams
<1>2. CASE Check
  <2>1. CASE UNCHANGED <<thread, expired, stream, sends, owed, ends>>
    BY <2>1, SubmissionKept
  <2>2. CASE GiveUp("aborted")
    BY <2>2, SubmissionGivenUp
  <2>3. CASE /\ stream.phase # "open" /\ Terminate(thread, "aborted", {})
             /\ UNCHANGED <<expired, sends, owed>>
    BY <2>3 DEF Terminate, Streams, SubmissionAgrees, Live
  <2> QED BY <1>2, <2>1, <2>2, <2>3 DEF Check
<1>3. CASE Dispatch
  <2>1. thread.submission = None /\ sends = 0
    BY <1>3 DEF Dispatch, SubmissionAgrees
  <2>2. stream'.phase = "open" /\ ~stream'.done
    BY <1>3 DEF Dispatch, Streams
  <2>3. CASE stream.resume
    <3>1. sends' = 1
      BY <1>3, <2>1, <2>3 DEF Dispatch
    <3>2. thread'.submission = [run |-> stream.run, entries |-> thread.interrupts,
                                status |-> "in flight"]
      BY <1>3, <2>3 DEF Dispatch, Threads
    <3>3. thread'.submission \in Submission
      <4>1. stream.run \in Runs /\ thread.interrupts \in SUBSET Interrupts
        BY <1>3 DEF Dispatch, RunsAgree, Threads
      <4>2. [run |-> stream.run, entries |-> thread.interrupts, status |-> "in flight"]
               \in Submission
        BY <4>1 DEF Submission
      <4> QED BY <3>2, <4>2
    <3> QED BY <2>2, <3>1, <3>3 DEF SubmissionAgrees, Live
  <2>4. CASE ~stream.resume
    <3>1. sends' = 0 /\ thread'.submission = None
      BY <1>3, <2>1, <2>4 DEF Dispatch, Threads
    <3> QED BY <2>2, <3>1 DEF SubmissionAgrees, Live
  <2> QED BY <2>3, <2>4
<1>4. CASE Expired
  BY <1>4, SubmissionGivenUp DEF Expired
<1>5. CASE Pending
  BY <1>5, SubmissionKept DEF Pending
<1>6. CASE Yield
  BY <1>6, SubmissionKept DEF Yield, Streams
<1> QED BY <1>1, <1>2, <1>3, <1>4, <1>5, <1>6, SubmissionReceive DEF Poll

\* Leaving a stream behind, or a process.
LEMMA SubmissionDropped ==
    ASSUME TypeOK, SubmissionAgrees, Drop \/ Restart
    PROVE  SubmissionAgrees'
<1> USE DEF TypeOK
<1> DEFINE u == Stopped(Unconfirmed(thread))
<1>1. /\ u \in Threads
      /\ u.submission = None <=> thread.submission = None
      /\ thread.submission # None => u.submission.status = "unconfirmed"
  BY GivenUp
<1>2. \/ thread' = thread /\ ~Live
      \/ thread' = [u EXCEPT !.last = "aborted", !.listed = {}, !.active = None]
      \/ thread' = [u EXCEPT !.active = None,
                             !.last = IF thread.active = None THEN @ ELSE "aborted",
                             !.listed = IF thread.active = None THEN @ ELSE {}]
  BY DEF Drop, Restart, Live
<1>3. stream' = NoStream /\ sends' = sends
  BY DEF Drop, Restart
<1> HIDE DEF u
<1>4. (thread' = thread /\ ~Live) \/ thread'.submission = u.submission
  BY <1>1, <1>2 DEF Threads
<1>5. stream'.phase = "none"
  BY <1>3 DEF NoStream
<1> QED BY <1>1, <1>3, <1>4, <1>5 DEF SubmissionAgrees, Live

LEMMA SubmissionStep ==
    ASSUME TypeOK, RunsAgree, SubmissionAgrees, [Next]_vars
    PROVE  SubmissionAgrees'
<1> USE DEF TypeOK
<1>1. CASE UNCHANGED vars
  BY <1>1, SubmissionKept DEF vars
<1>2. ASSUME NEW resume, NEW answer, Prepare(resume, answer), thread.submission = None
      PROVE  SubmissionAgrees'
  <2>1. stream'.phase = "prepared" /\ UNCHANGED <<thread, sends>>
    BY <1>2 DEF Prepare, NoStream
  <2> QED BY <1>2, <2>1 DEF SubmissionAgrees, Live
<1>3. ASSUME NEW m \in Answers, NEW c \in setting.calls, SendAnswer(m, c)
      PROVE  SubmissionAgrees'
  BY <1>2, <1>3 DEF SendAnswer, Preflight
<1>4. ASSUME NEW m \in Answers, NEW c \in setting.calls, PushAnswer(m, c)
      PROVE  SubmissionAgrees'
  BY <1>4, SubmissionKept DEF PushAnswer, Threads
<1>5. CASE Run \/ Resume
  BY <1>2, <1>5 DEF Run, Resume, Preflight
<1>6. CASE TransportReady \/ \E i \in Interrupts : Expire(i)
  BY <1>6, SubmissionKept DEF TransportReady, Expire
<1>7. CASE Abort \/ AbortWake
  BY <1>7, SubmissionKept DEF Abort, AbortWake, Streams
<1> QED BY <1>1, <1>3, <1>4, <1>5, <1>6, <1>7, SubmissionPoll, SubmissionDropped DEF Next, Step

LEMMA SubmissionInit == Init => SubmissionAgrees
<1> SUFFICES ASSUME Init PROVE SubmissionAgrees
  OBVIOUS
<1>1. thread.submission = None /\ stream.phase = "none" /\ sends = 0
  BY DEF Init, NewThread, NoStream
<1> QED BY <1>1 DEF SubmissionAgrees

\* Whatever fails, expires, is aborted, dropped or restored, the pending interrupts are
\* answered on the wire at most once before a terminal confirms the answers.
THEOREM DecisionsGoOutOnce == Spec => []DecidedOnce
<1>1. Init => SubmissionAgrees
  BY SubmissionInit
<1>2. TypeOK /\ RunsAgree /\ SubmissionAgrees /\ [Next]_vars => SubmissionAgrees'
  BY SubmissionStep
<1>3. SubmissionAgrees => DecidedOnce
  BY DEF SubmissionAgrees, DecidedOnce
<1> QED BY <1>1, <1>2, <1>3, RunsInvariant, PTL DEF Spec

-----------------------------------------------------------------------------
(* Subagents, which the applier tracks and the verifier brackets. *)

NoneRunning(t) == \A s \in Subagents : t.subagents[s].status # "running"

LEMMA SubagentsKept ==
    ASSUME SubagentsAgree,
           UNCHANGED <<setting, thread.subagents, stream.phase, stream.done,
                       stream.verifier.subagents>>
    PROVE  SubagentsAgree'
BY DEF SubagentsAgree, Live

LEMMA SubagentsGone ==
    ASSUME SubagentsAgree, NoneRunning(thread)', setting'.verify \/ UNCHANGED setting
    PROVE  SubagentsAgree'
BY DEF SubagentsAgree, NoneRunning

LEMMA SubagentsGivenUp ==
    ASSUME TypeOK, NEW end, GiveUp(end)
    PROVE  NoneRunning(thread)'
<1> DEFINE u == Stopped(Unconfirmed(thread))
<1>1. u \in Threads /\ NoneRunning(u)
  BY GivenUp DEF NoneRunning, TypeOK
<1>2. Terminate(u, end, {})
  BY DEF GiveUp
<1> HIDE DEF u
<1> QED BY <1>1, <1>2 DEF Terminate, NoneRunning, Threads

\* The server's RUN_FINISHED finds every bracket closed, where it is verified, and no
\* subagent to track where it is not.
LEMMA SubagentsSettled ==
    ASSUME TypeOK, SubagentsAgree, Closing, UNCHANGED setting,
           NEW t \in Threads, t.subagents = thread.subagents, NEW end, NEW listed,
           Terminate(t, end, listed)
    PROVE  SubagentsAgree'
<1>1. setting.verify => stream.verifier.subagents = {}
  <2> SUFFICES ASSUME setting.verify PROVE stream.verifier.subagents = {}
    OBVIOUS
  <2>1. C!Accepts(stream.verifier, RunFinished)
    BY DEF Closing, Passes
  <2>2. RunFinished.type = "RUN_FINISHED"
    BY DEF RunFinished
  <2>3. C!RunRules(stream.verifier, RunFinished)
    BY <2>1 DEF C!Accepts
  <2> QED BY <2>2, <2>3 DEF C!RunRules, C!AllClosed
<1>2. NoneRunning(thread)
  BY <1>1 DEF SubagentsAgree, NoneRunning
<1>3. thread'.subagents = thread.subagents
  BY DEF Terminate, Threads
<1> QED BY <1>2, <1>3, SubagentsGone DEF NoneRunning

\* An event other than the three about subagents.
LEMMA SubagentsUnheard ==
    ASSUME TypeOK, SubagentsAgree, UNCHANGED setting, NEW e \in Heard, Passes(e),
           e.type \notin {"SUBAGENT_STARTED", "SUBAGENT_FINISHED", "SUBAGENT_ERROR"},
           UNCHANGED <<thread.subagents, stream.phase, stream.done>>,
           stream'.verifier = After(e)
    PROVE  SubagentsAgree'
<1>1. After(e).subagents = stream.verifier.subagents
  BY VerifySubagents DEF After, Passes, TypeOK, Streams
<1> QED BY <1>1, SubagentsKept

LEMMA SubagentsReceive ==
    ASSUME TypeOK, SubagentsAgree, UNCHANGED setting, Receive
    PROVE  SubagentsAgree'
<1> USE HeardHere
<1>1. CASE Started
  <2> DEFINE e == RunStarted(NoOwners)
  <2>1. e.type = "RUN_STARTED"
    BY DEF RunStarted
  <2> QED BY <1>1, <2>1, SubagentsUnheard DEF Started, TypeOK, Streams
<1>2. ASSUME NEW c \in setting.calls, NEW p \in setting.carriers, ToolStarted(c, p)
      PROVE  SubagentsAgree'
  <2> DEFINE e == StartUnder(p, c, None)
  <2>1. e.type = "START"
    BY DEF StartUnder, Start
  <2>2. /\ UNCHANGED <<thread.subagents, stream.phase, stream.done>>
        /\ stream'.verifier = After(e) /\ Passes(e)
    BY <1>2 DEF ToolStarted, TypeOK, Threads, Streams
  <2> QED BY <2>1, <2>2, SubagentsUnheard
<1>3. ASSUME NEW c \in setting.calls, ToolEnded(c)
      PROVE  SubagentsAgree'
  <2> DEFINE e == End("tool", c, None)
  <2>1. e.type = "END"
    BY DEF End
  <2> QED BY <1>3, <2>1, SubagentsUnheard DEF ToolEnded, TypeOK, Streams
<1>4. ASSUME NEW c \in setting.calls, NEW m \in Answers, ToolAnswered(m, c)
      PROVE  SubagentsAgree'
  <2> DEFINE e == ToolResult(m, c, None)
  <2>1. e.type = "TOOL_CALL_RESULT"
    BY DEF ToolResult
  <2>2. /\ UNCHANGED <<thread.subagents, stream.phase, stream.done>>
        /\ stream'.verifier = After(e) /\ Passes(e)
    BY <1>4 DEF ToolAnswered, TypeOK, Threads, Streams
  <2> QED BY <2>1, <2>2, SubagentsUnheard
<1>5. ASSUME NEW s \in Subagents, NEW p \in Owner, <<s, p>> \in setting.announced,
             SubagentAnnounced(s, p)
      PROVE  SubagentsAgree'
  <2> DEFINE e == SubagentStarted(s, p)
  <2>1. setting.verify
    BY <1>5 DEF SubagentsAgree
  <2>2. After(e).subagents = stream.verifier.subagents \cup {s}
    <3>1. e.type = "SUBAGENT_STARTED" /\ e.id = s
      BY DEF SubagentStarted
    <3> QED BY <1>5, <2>1, <3>1, VerifySubagents DEF SubagentAnnounced, After, Passes, TypeOK, Streams
  <2>3. /\ stream'.verifier = After(e) /\ stream'.phase = "open" /\ ~stream'.done
        /\ stream.phase = "open" /\ ~stream.done
    BY <1>5 DEF SubagentAnnounced, Reading, TypeOK, Streams
  <2>4. \A q \in Subagents \ {s} : thread'.subagents[q] = thread.subagents[q]
    BY <1>5 DEF SubagentAnnounced, TypeOK, Threads
  <2> QED BY <2>1, <2>2, <2>3, <2>4 DEF SubagentsAgree, Live
<1>6. ASSUME NEW s \in Subagents, NEW status \in {"suspended", "finished", "failed"},
             SubagentConcluded(s, status)
      PROVE  SubagentsAgree'
  <2> DEFINE e == IF status = "failed" THEN SubagentError(s) ELSE SubagentFinished(s)
  <2>1. e \in Heard /\ e.type \in {"SUBAGENT_FINISHED", "SUBAGENT_ERROR"} /\ e.id = s
    BY DEF SubagentError, SubagentFinished
  <2> HIDE DEF e
  <2>2. Passes(e) /\ stream' = [stream EXCEPT !.verifier = After(e)]
    BY <1>6 DEF SubagentConcluded, e
  <2>3. setting.verify => After(e).subagents = stream.verifier.subagents \ {s}
    BY <2>1, <2>2, VerifySubagents DEF After, Passes, TypeOK, Streams
  <2>4. /\ stream'.verifier = After(e) /\ stream'.phase = "open" /\ ~stream'.done
        /\ stream.phase = "open" /\ ~stream.done
    BY <1>6, <2>2 DEF SubagentConcluded, Reading, TypeOK, Streams
  <2>5. /\ \A q \in Subagents \ {s} : thread'.subagents[q] = thread.subagents[q]
        /\ thread'.subagents[s].status # "running"
    BY <1>6 DEF SubagentConcluded, TypeOK, Threads
  <2> QED BY <2>3, <2>4, <2>5 DEF SubagentsAgree, Live
<1>7. ASSUME NEW listed \in SUBSET setting.calls, Succeeded(listed)
      PROVE  SubagentsAgree'
  <2> DEFINE t == [thread EXCEPT !.decided = @ \cup Confirmed(thread),
                                 !.submission = None, !.interrupts = {}]
  <2>1. t \in Threads /\ t.subagents = thread.subagents
    BY ConfirmedType DEF Threads, TypeOK
  <2>2. Terminate(t, "success", listed) /\ Closing
    BY <1>7 DEF Succeeded
  <2> HIDE DEF t
  <2> QED BY <2>1, <2>2, SubagentsSettled
<1>8. ASSUME NEW asked \in SUBSET setting.interrupts, Interrupted(asked)
      PROVE  SubagentsAgree'
  <2> DEFINE t == [thread EXCEPT !.decided = @ \cup Confirmed(thread),
                                 !.submission = None, !.interrupts = asked]
  <2>1. t \in Threads /\ t.subagents = thread.subagents
    BY ConfirmedType DEF Threads, Setting, TypeOK
  <2>2. Terminate(t, "interrupted", {}) /\ Closing
    BY <1>8 DEF Interrupted
  <2> HIDE DEF t
  <2> QED BY <2>1, <2>2, SubagentsSettled
<1>9. CASE Cancelled \/ Fail
  BY <1>9, SubagentsGivenUp, SubagentsGone DEF Cancelled, Fail
<1>10. ASSUME NEW history \in setting.restated, Restated(history)
       PROVE  SubagentsAgree'
  <2> DEFINE e == MessagesSnapshot(OwnersIn(history))
  <2>1. e.type = "MESSAGES_SNAPSHOT"
    BY DEF MessagesSnapshot
  <2>2. /\ UNCHANGED <<thread.subagents, stream.phase, stream.done>>
        /\ stream'.verifier = After(e) /\ Passes(e)
    BY <1>10 DEF Restated, TypeOK, Threads, Streams
  <2> QED BY <2>1, <2>2, SubagentsUnheard
<1> QED BY <1>1, <1>2, <1>3, <1>4, <1>5, <1>6, <1>7, <1>8, <1>9, <1>10 DEF Receive

LEMMA SubagentsPoll ==
    ASSUME TypeOK, SubagentsAgree, UNCHANGED setting, Poll
    PROVE  SubagentsAgree'
<1> USE DEF TypeOK
<1>1. CASE Register
  BY <1>1, SubagentsKept DEF Register, Streams
<1>2. CASE Check
  <2>1. CASE UNCHANGED <<thread, expired, stream, sends, owed, ends>>
    BY <2>1, SubagentsKept
  <2>2. CASE GiveUp("aborted")
    BY <2>2, SubagentsGivenUp, SubagentsGone
  <2>3. CASE stream.phase # "open" /\ Terminate(thread, "aborted", {})
    BY <2>3, SubagentsGone DEF Terminate, SubagentsAgree, NoneRunning, Live
  <2> QED BY <1>2, <2>1, <2>2, <2>3 DEF Check
<1>3. CASE Dispatch
  <2>1. thread'.subagents = thread.subagents
    BY <1>3 DEF Dispatch, Threads
  <2>2. NoneRunning(thread)
    BY <1>3 DEF Dispatch, SubagentsAgree, NoneRunning, Live
  <2> QED BY <2>1, <2>2, SubagentsGone DEF NoneRunning
<1>4. CASE Expired
  BY <1>4, SubagentsGivenUp, SubagentsGone DEF Expired
<1>5. CASE Pending
  BY <1>5, SubagentsKept DEF Pending
<1>6. CASE Yield
  BY <1>6, SubagentsKept DEF Yield, Streams
<1> QED BY <1>1, <1>2, <1>3, <1>4, <1>5, <1>6, SubagentsReceive DEF Poll

LEMMA SubagentsDropped ==
    ASSUME TypeOK, SubagentsAgree, (Drop /\ UNCHANGED setting) \/ Restart
    PROVE  SubagentsAgree'
<1> USE DEF TypeOK
<1> DEFINE u == Stopped(Unconfirmed(thread))
<1>1. u \in Threads /\ NoneRunning(u)
  BY GivenUp DEF NoneRunning
<1>2. \/ thread' = thread /\ ~Live
      \/ thread' = [u EXCEPT !.last = "aborted", !.listed = {}, !.active = None]
      \/ thread' = [u EXCEPT !.active = None,
                             !.last = IF thread.active = None THEN @ ELSE "aborted",
                             !.listed = IF thread.active = None THEN @ ELSE {}]
  BY DEF Drop, Restart, Live
<1> HIDE DEF u
<1>3. NoneRunning(thread)'
  BY <1>1, <1>2 DEF Threads, NoneRunning, SubagentsAgree
<1>4. setting'.verify \/ UNCHANGED setting
  BY DEF Restart, Setting
<1> QED BY <1>3, <1>4, SubagentsGone

LEMMA SubagentsStep ==
    ASSUME TypeOK, SubagentsAgree, [Next]_vars
    PROVE  SubagentsAgree'
<1> USE DEF TypeOK
<1>1. CASE UNCHANGED vars
  BY <1>1, SubagentsKept DEF vars
<1>2. ASSUME NEW resume, NEW answer, Prepare(resume, answer), UNCHANGED setting
      PROVE  SubagentsAgree'
  <2>1. NoneRunning(thread)
    BY <1>2 DEF Prepare, SubagentsAgree, NoneRunning, Live
  <2> QED BY <1>2, <2>1, SubagentsGone DEF Prepare, NoneRunning
<1>3. ASSUME NEW m \in Answers, NEW c \in setting.calls, SendAnswer(m, c), UNCHANGED setting
      PROVE  SubagentsAgree'
  BY <1>2, <1>3 DEF SendAnswer
<1>4. ASSUME NEW m \in Answers, NEW c \in setting.calls, PushAnswer(m, c), UNCHANGED setting
      PROVE  SubagentsAgree'
  BY <1>4, SubagentsKept DEF PushAnswer, Threads
<1>5. CASE (Run \/ Resume) /\ UNCHANGED setting
  BY <1>2, <1>5 DEF Run, Resume
<1>6. CASE (TransportReady \/ \E i \in Interrupts : Expire(i)) /\ UNCHANGED setting
  BY <1>6, SubagentsKept DEF TransportReady, Expire
<1>7. CASE (Abort \/ AbortWake) /\ UNCHANGED setting
  BY <1>7, SubagentsKept DEF Abort, AbortWake, Streams
<1> QED BY <1>1, <1>3, <1>4, <1>5, <1>6, <1>7, SubagentsPoll, SubagentsDropped DEF Next, Step

LEMMA SubagentsInit ==
    ASSUME \A s \in Settings : s.verify \/ s.announced = {}, Init
    PROVE  SubagentsAgree
<1>1. setting.verify \/ setting.announced = {}
  BY DEF Init
<1>2. \A s \in Subagents : thread.subagents[s].status = "announced never"
  BY DEF Init, NewThread
<1> QED BY <1>1, <1>2 DEF SubagentsAgree

\* Between runs no submission and no subagent is in flight.  A thread that does not
\* verify its streams tracks subagents nobody brackets: RUN_FINISHED may leave one of
\* them running there, so such a thread is assumed to meet none.
THEOREM NothingLeftInFlight ==
    ASSUME \A s \in Settings : s.verify \/ s.announced = {}
    PROVE  Spec => []NothingInFlight
<1>1. Init => SubagentsAgree /\ SubmissionAgrees
  BY SubagentsInit, SubmissionInit
<1>2. /\ TypeOK /\ RunsAgree /\ SubagentsAgree /\ SubmissionAgrees /\ [Next]_vars
      => SubagentsAgree' /\ SubmissionAgrees'
  BY SubagentsStep, SubmissionStep
<1>3. /\ TypeOK /\ RunsAgree /\ SubagentsAgree /\ SubmissionAgrees
      => NothingInFlight
  <2> SUFFICES ASSUME TypeOK, RunsAgree, SubagentsAgree, SubmissionAgrees, thread.active = None
               PROVE  /\ thread.submission # None => thread.submission.status = "unconfirmed"
                      /\ \A s \in Subagents : thread.subagents[s].status # "running"
    BY DEF NothingInFlight
  <2>1. ~Live
    BY DEF RunsAgree, Live
  <2> QED BY <2>1 DEF SubagentsAgree, SubmissionAgrees
<1> QED BY <1>1, <1>2, <1>3, RunsInvariant, PTL DEF Spec

-----------------------------------------------------------------------------
(* The transcript, the server's list, the decisions, and what is owed. *)

LEMMA CarriedMembers ==
    ASSUME NEW messages, NEW c
    PROVE  c \in Carried(messages) <=>
              \E n \in DOMAIN messages : messages[n].role = "assistant" /\ c \in messages[n].calls
BY DEF Carried

\* A tool message answers its call and no other, and hides no call.
LEMMA AnswerAppended ==
    ASSUME NEW messages \in Seq(Message), Told(messages), NEW m \in Answers, NEW c \in Calls
    PROVE  LET after == Append(messages, [id |-> m, role |-> "tool", calls |-> {c}])
           IN  /\ Told(after)
               /\ Carried(messages) \subseteq Carried(after)
               /\ Answered(after) \subseteq Answered(messages) \cup {c}
<1> DEFINE answer == [id |-> m, role |-> "tool", calls |-> {c}]
           after == Append(messages, answer)
<1>1. /\ Len(messages) \in Nat /\ Len(after) = Len(messages) + 1
      /\ DOMAIN messages = 1..Len(messages)
      /\ DOMAIN after = 1..(Len(messages) + 1)
      /\ \A n \in DOMAIN messages : after[n] = messages[n]
      /\ after[Len(messages) + 1] = answer
  OBVIOUS
<1>2. answer.id = m /\ answer.role = "tool" /\ answer.calls = {c}
  OBVIOUS
<1> HIDE DEF after, answer
<1>3. Told(after)
  <2> SUFFICES ASSUME NEW n \in DOMAIN after
               PROVE  after[n].role = "tool" <=> after[n].id \in Answers
    BY DEF Told
  <2>1. CASE n \in DOMAIN messages
    BY <1>1, <2>1 DEF Told
  <2>2. CASE n = Len(messages) + 1
    BY <1>1, <1>2, <2>2
  <2> QED BY <1>1, <2>1, <2>2
<1>4. Carried(messages) \subseteq Carried(after)
  BY <1>1, CarriedMembers
<1>5. ASSUME NEW d \in Answered(after), d # c
      PROVE  d \in Answered(messages)
  <2>1. PICK n \in DOMAIN after :
           /\ after[n].role = "tool" /\ d \in after[n].calls
           /\ \A k \in n..Len(after) : after[k].role = "assistant" => d \notin after[k].calls
    BY DEF Answered
  <2>2. n \in DOMAIN messages
    BY <1>1, <1>2, <1>5, <2>1
  <2>3. \A k \in n..Len(messages) : k \in DOMAIN messages /\ k \in n..Len(after)
    BY <1>1, <2>2
  <2>4. d \in Calls
    BY DEF Answered
  <2> QED BY <1>1, <2>1, <2>2, <2>3, <2>4 DEF Answered
<1> QED BY <1>3, <1>4, <1>5 DEF after, answer

\* A call that starts is carried from then on, and answers nothing.
LEMMA CallPlaced ==
    ASSUME NEW messages \in Seq(Message), Told(messages), NEW c \in Calls,
           NEW parent \in (Ids \cup {None}) \ Answers, MessageOf(c) \notin Answers
    PROVE  LET after == Placed(messages, c, parent)
           IN  /\ Told(after)
               /\ Carried(messages) \cup {c} \subseteq Carried(after)
               /\ Answered(after) \subseteq Answered(messages)
<1> DEFINE id == IF parent = None THEN MessageOf(c) ELSE parent
           carrier == [id |-> id, role |-> "assistant", calls |-> {c}]
           joined == [n \in DOMAIN messages |->
                        IF /\ messages[n].id = id /\ Found(messages, n)
                           /\ messages[n].role = "assistant"
                        THEN [messages[n] EXCEPT !.calls = @ \cup {c}] ELSE messages[n]]
           after == Placed(messages, c, parent)
<1>1. id \notin Answers
  OBVIOUS
<1>2. Len(messages) \in Nat /\ DOMAIN messages = 1..Len(messages)
  OBVIOUS
<1>3. ASSUME NEW n \in DOMAIN messages
      PROVE  messages[n] \in Message
  BY <1>2, <1>3, ElementOfSeq
<1>4. \A n \in DOMAIN messages :
         /\ joined[n].id = messages[n].id /\ joined[n].role = messages[n].role
         /\ messages[n].calls \subseteq joined[n].calls
         /\ messages[n].role = "tool" => joined[n].calls = messages[n].calls
         /\ messages[n].id = id /\ Found(messages, n) /\ messages[n].role = "assistant"
               => c \in joined[n].calls
  BY <1>3 DEF Message
<1>5. DOMAIN after \in {1..Len(messages), 1..(Len(messages) + 1)} /\ Len(after) >= Len(messages)
      /\ Len(after) \in Nat /\ DOMAIN after = 1..Len(after)
  <2>1. CASE id \in Known(messages)
    <3>1. after = joined
      BY <2>1 DEF Placed
    <3>2. after \in Seq(Message)
      BY PlacedType
    <3>3. DOMAIN after = 1..Len(messages)
      BY <1>2, <3>1
    <3>4. Len(after) = Len(messages)
      BY <1>2, <3>2, <3>3, LenProperties
    <3> QED BY <1>2, <3>3, <3>4
  <2>2. CASE id \notin Known(messages)
    BY <1>2, <2>2 DEF Placed
  <2> QED BY <2>1, <2>2
<1>6. \A n \in DOMAIN messages :
         /\ n \in DOMAIN after
         /\ after[n].id = messages[n].id /\ after[n].role = messages[n].role
         /\ messages[n].calls \subseteq after[n].calls
         /\ messages[n].role = "tool" => after[n].calls = messages[n].calls
  <2>1. CASE id \in Known(messages)
    BY <1>4, <2>1 DEF Placed
  <2>2. CASE id \notin Known(messages)
    BY <1>2, <2>2 DEF Placed
  <2> QED BY <2>1, <2>2
<1>7. \A n \in DOMAIN after \ DOMAIN messages :
         /\ id \notin Known(messages) /\ n = Len(messages) + 1
         /\ after[n].id = id /\ after[n].role = "assistant" /\ after[n].calls = {c}
  <2>1. CASE id \in Known(messages)
    BY <2>1 DEF Placed
  <2>2. CASE id \notin Known(messages)
    BY <1>2, <2>2 DEF Placed
  <2> QED BY <2>1, <2>2
<1>8. \E n \in DOMAIN after : after[n].role = "assistant" /\ c \in after[n].calls
  <2>1. CASE id \in Known(messages)
    <3>1. PICK n \in DOMAIN messages : messages[n].id = id /\ Found(messages, n)
      BY <2>1, LastFound
    <3>2. messages[n].role = "assistant"
      BY <1>1, <1>3, <3>1 DEF Told, Message
    <3>3. after[n] = joined[n]
      BY <2>1 DEF Placed
    <3>4. c \in joined[n].calls
      BY <1>4, <3>1, <3>2
    <3> HIDE DEF after, joined, id
    <3> QED BY <1>6, <3>1, <3>2, <3>3, <3>4
  <2>2. CASE id \notin Known(messages)
    <3>1. after = Append(messages, carrier)
      BY <2>2 DEF Placed
    <3>2. Len(messages) + 1 \in DOMAIN after
      BY <1>2, <3>1
    <3>3. Len(messages) + 1 \notin DOMAIN messages
      BY <1>2
    <3> QED BY <1>7, <3>2, <3>3
  <2> QED BY <2>1, <2>2
<1> HIDE DEF after, joined, carrier, id
<1>9. Told(after)
  BY <1>1, <1>6, <1>7 DEF Told
<1>10. Carried(messages) \cup {c} \subseteq Carried(after)
  BY <1>6, <1>8, CarriedMembers
<1>11. ASSUME NEW d \in Answered(after)
       PROVE  d \in Answered(messages)
  <2>1. PICK n \in DOMAIN after :
           /\ after[n].role = "tool" /\ d \in after[n].calls
           /\ \A k \in n..Len(after) : after[k].role = "assistant" => d \notin after[k].calls
    BY DEF Answered
  <2>2. n \in DOMAIN messages
    BY <1>7, <2>1
  <2>3. messages[n].role = "tool" /\ d \in messages[n].calls
    BY <1>6, <2>1, <2>2
  <2>4. \A k \in n..Len(messages) : k \in DOMAIN messages /\ k \in n..Len(after)
    <3>1. Len(messages) \in Nat /\ Len(after) \in Nat /\ Len(messages) <= Len(after)
          /\ n \in 1..Len(messages) /\ DOMAIN messages = 1..Len(messages)
      BY <1>2, <1>5, <2>2
    <3> QED BY <3>1
  <2>5. \A k \in n..Len(messages) : messages[k].role = "assistant" => d \notin messages[k].calls
    BY <1>6, <2>1, <2>4
  <2>6. d \in Calls
    BY DEF Answered
  <2> QED BY <2>2, <2>3, <2>5, <2>6 DEF Answered
<1> QED BY <1>9, <1>10, <1>11 DEF after

LEMMA AnswersKept ==
    ASSUME AnswersAgree,
           UNCHANGED <<setting, thread.messages, thread.listed, thread.decided,
                       thread.interrupts, owed, stream.phase, stream.done,
                       stream.resume, stream.answer>>
    PROVE  AnswersAgree'
BY DEF AnswersAgree, Told, Owing, OwingNow, Live, Approvals

\* An end of the run under way, which may confirm decisions and list calls.
LEMMA AnswersTerminated ==
    ASSUME TypeOK, AnswersAgree, UNCHANGED setting, Live, NEW t \in Threads,
           t.messages = thread.messages, NEW end, NEW listed, Terminate(t, end, listed),
           listed # {} => t.interrupts = {},
           ~setting.reuses =>
              /\ owed' \cap Answered(thread.messages) = {}
              /\ owed' \subseteq Carried(thread.messages) \cup listed
              /\ owed' \cap t.decided \subseteq listed
    PROVE  AnswersAgree'
<1>1. /\ thread'.messages = thread.messages /\ thread'.listed = listed
      /\ thread'.decided = t.decided /\ thread'.interrupts = t.interrupts
  BY DEF Terminate, Threads, Live
<1>2. /\ stream'.phase = "open" /\ stream'.done
      /\ stream'.resume = stream.resume /\ stream'.answer = stream.answer
  BY DEF Terminate, Live, TypeOK, Streams
<1>3. ~setting.reuses => Owing' /\ OwingNow'
  BY <1>1, <1>2 DEF Owing, OwingNow, Live
<1> QED BY <1>1, <1>2, <1>3 DEF AnswersAgree, Told

LEMMA AnswersGivenUp ==
    ASSUME TypeOK, AnswersAgree, UNCHANGED setting, stream.phase # "none",
           ~stream.done, NEW end, GiveUp(end)
    PROVE  AnswersAgree'
<1> DEFINE u == Stopped(Unconfirmed(thread))
<1>1. /\ u \in Threads
      /\ u = [thread EXCEPT !.submission = u.submission, !.subagents = u.subagents]
  BY GivenUp DEF TypeOK
<1>2. Terminate(u, end, {}) /\ owed' = owed
  BY DEF GiveUp
<1> HIDE DEF u
<1>3. /\ u.messages = thread.messages /\ u.decided = thread.decided
      /\ u.interrupts = thread.interrupts /\ u.listed = thread.listed
  BY <1>1 DEF TypeOK, Threads
<1>4. CASE Live
  <2>1. ~setting.reuses => owed \cap Answered(thread.messages) = {}
                           /\ owed \subseteq Carried(thread.messages) \ thread.decided
    BY <1>4 DEF AnswersAgree, Owing, OwingNow
  <2> QED BY <1>1, <1>2, <1>3, <1>4, <2>1, AnswersTerminated
<1>5. CASE ~Live
  <2>1. thread' = u /\ stream'.phase = stream.phase /\ stream.phase # "open"
        /\ stream'.resume = stream.resume /\ stream'.answer = stream.answer
    BY <1>2, <1>5 DEF Terminate, Live, TypeOK, Streams
  <2>2. ~setting.reuses => Owing' /\ OwingNow'
    BY <1>2, <1>3, <2>1 DEF AnswersAgree, Owing, OwingNow, Live, Approvals
  <2> QED BY <1>3, <2>1, <2>2 DEF AnswersAgree, Told
<1> QED BY <1>4, <1>5

\* A tool message, from the application or the server.
LEMMA AnswersAppended ==
    ASSUME TypeOK, AnswersAgree, UNCHANGED setting, stream.phase # "prepared",
           NEW m \in Answers, NEW c \in Calls,
           thread'.messages = Append(thread.messages,
                                     [id |-> m, role |-> "tool", calls |-> {c}]),
           owed' = owed \ {c},
           UNCHANGED <<thread.listed, thread.decided, thread.interrupts, stream.phase,
                       stream.done, stream.resume, stream.answer>>
    PROVE  AnswersAgree'
<1>1. thread.messages \in Seq(Message)
  BY DEF TypeOK, Threads
<1>2. /\ Told(thread'.messages)
      /\ Carried(thread.messages) \subseteq Carried(thread'.messages)
      /\ Answered(thread'.messages) \subseteq Answered(thread.messages) \cup {c}
  BY <1>1, AnswerAppended DEF AnswersAgree
<1>3. ~setting.reuses => Owing' /\ OwingNow'
  BY <1>2 DEF AnswersAgree, Owing, OwingNow, Live
<1> QED BY <1>2, <1>3 DEF AnswersAgree, Told

LEMMA AnswersCalled ==
    ASSUME TypeOK, AnswersAgree, UNCHANGED setting,
           \A d \in Calls : MessageOf(d) \notin Answers,
           NEW c \in setting.calls, NEW p \in setting.carriers, ToolStarted(c, p)
    PROVE  AnswersAgree'
<1>1. /\ Live /\ stream'.phase = "open" /\ ~stream'.done
      /\ stream'.resume = stream.resume /\ stream'.answer = stream.answer
  BY DEF ToolStarted, Reading, Live, TypeOK, Streams
<1>2. /\ thread'.messages = Placed(thread.messages, c, p)
      /\ thread'.decided = thread.decided \ {c}
      /\ thread'.listed = thread.listed /\ thread'.interrupts = thread.interrupts
  BY DEF ToolStarted, TypeOK, Threads
<1>3. /\ thread.messages \in Seq(Message) /\ c \in Calls
      /\ p \in (Ids \cup {None}) \ Answers
  BY DEF TypeOK, Threads, Setting, AnswersAgree
<1>4. /\ Told(thread'.messages)
      /\ Carried(thread.messages) \cup {c} \subseteq Carried(thread'.messages)
      /\ Answered(thread'.messages) \subseteq Answered(thread.messages)
  BY <1>2, <1>3, CallPlaced DEF AnswersAgree
<1>5. ~setting.reuses => c \notin Answered(thread.messages)
  BY DEF ToolStarted, Answered
<1>6. owed' = owed \cup {c}
  BY DEF ToolStarted
<1>7. ~setting.reuses => Owing' /\ OwingNow'
  BY <1>1, <1>2, <1>4, <1>5, <1>6 DEF AnswersAgree, Owing, OwingNow, Live
<1> QED BY <1>1, <1>2, <1>4, <1>7 DEF AnswersAgree, Told

LEMMA AnswersReceive ==
    ASSUME TypeOK, AnswersAgree, UNCHANGED setting, Receive,
           \A c \in Calls : MessageOf(c) \notin Answers
    PROVE  AnswersAgree'
<1> USE DEF TypeOK
<1>1. CASE Started \/ \E c \in setting.calls : ToolEnded(c)
  BY <1>1, AnswersKept DEF Started, ToolEnded, Streams
<1>2. ASSUME NEW c \in setting.calls, NEW m \in Answers, ToolAnswered(m, c)
      PROVE  AnswersAgree'
  <2>1. /\ UNCHANGED <<thread.listed, thread.decided, thread.interrupts, stream.phase,
                       stream.done, stream.resume, stream.answer>>
        /\ thread'.messages = IF m \in Known(thread.messages) THEN thread.messages
                              ELSE Append(thread.messages,
                                          [id |-> m, role |-> "tool", calls |-> {c}])
        /\ owed' = owed \ {c} /\ stream.phase = "open" /\ c \in Calls
    BY <1>2 DEF ToolAnswered, Streams, Threads, Reading, Setting
  <2>2. CASE m \notin Known(thread.messages)
    BY <2>1, <2>2, AnswersAppended
  <2>3. CASE m \in Known(thread.messages)
    BY <2>1, <2>3 DEF AnswersAgree, Told, Owing, OwingNow, Live, Approvals
  <2> QED BY <2>2, <2>3
<1>3. ASSUME NEW s \in Subagents, NEW p \in Owner, SubagentAnnounced(s, p)
      PROVE  AnswersAgree'
  BY <1>3, AnswersKept DEF SubagentAnnounced, Streams, Threads
<1>4. ASSUME NEW s \in Subagents, NEW status \in {"suspended", "finished", "failed"},
             SubagentConcluded(s, status)
      PROVE  AnswersAgree'
  BY <1>4, AnswersKept DEF SubagentConcluded, Streams, Threads
<1>5. Live /\ ~setting.reuses => /\ owed \cap Answered(thread.messages) = {}
                                 /\ owed \subseteq Carried(thread.messages) \ thread.decided
  BY DEF AnswersAgree, Owing, OwingNow
<1>6. ASSUME NEW listed \in SUBSET setting.calls, Succeeded(listed)
      PROVE  AnswersAgree'
  <2> DEFINE t == [thread EXCEPT !.decided = @ \cup Confirmed(thread),
                                 !.submission = None, !.interrupts = {}]
  <2>1. /\ t \in Threads /\ t.messages = thread.messages /\ t.interrupts = {}
        /\ t.decided = thread.decided \cup Confirmed(thread)
    BY ConfirmedType DEF Threads
  <2>2. /\ Terminate(t, "success", listed) /\ Live
        /\ owed' = (owed \ Confirmed(thread)) \cup (listed \ Answered(thread.messages))
    BY <1>6 DEF Succeeded, Closing, Reading, Live
  <2> HIDE DEF t
  <2> QED BY <1>5, <2>1, <2>2, AnswersTerminated
<1>7. ASSUME NEW asked \in SUBSET setting.interrupts, Interrupted(asked)
      PROVE  AnswersAgree'
  <2> DEFINE t == [thread EXCEPT !.decided = @ \cup Confirmed(thread),
                                 !.submission = None, !.interrupts = asked]
  <2>1. /\ t \in Threads /\ t.messages = thread.messages
        /\ t.decided = thread.decided \cup Confirmed(thread)
    BY ConfirmedType DEF Threads, Setting
  <2>2. Terminate(t, "interrupted", {}) /\ Live /\ owed' = owed \ Confirmed(thread)
    BY <1>7 DEF Interrupted, Closing, Reading, Live
  <2> HIDE DEF t
  <2> QED BY <1>5, <2>1, <2>2, AnswersTerminated
<1>8. CASE Cancelled \/ Fail
  BY <1>8, AnswersGivenUp DEF Cancelled, Fail, Closing, Reading
<1>9. ASSUME NEW history \in setting.restated, Restated(history)
      PROVE  AnswersAgree'
  <2>1. /\ UNCHANGED <<thread.listed, thread.decided, thread.interrupts, stream.phase,
                       stream.done, stream.resume, stream.answer>>
        /\ stream.phase = "open"
    BY <1>9 DEF Restated, Reading, Streams, Threads
  <2>2. /\ Told(thread'.messages)
        /\ owed' = (Carried(thread'.messages) \ Answered(thread'.messages)) \ thread.decided
    BY <1>9, RestatedFacts DEF AnswersAgree
  <2>3. Owing' /\ OwingNow'
    BY <2>1, <2>2 DEF Owing, OwingNow
  <2> QED BY <2>1, <2>2, <2>3 DEF AnswersAgree
<1> QED BY <1>1, <1>2, <1>3, <1>4, <1>6, <1>7, <1>8, <1>9, AnswersCalled DEF Receive

\* The request goes out: an answer that is part of it comes with it.
LEMMA AnswersDispatched ==
    ASSUME TypeOK, AnswersAgree, UNCHANGED setting, Dispatch
    PROVE  /\ AnswersAgree'
           /\ ~setting.reuses =>
                 owed' \subseteq (IF stream.resume THEN Approvals(thread) ELSE {})
<1> USE DEF TypeOK
<1>1. /\ stream'.phase = "open" /\ ~stream'.done /\ stream.phase = "prepared"
      /\ stream'.resume = stream.resume /\ stream'.answer = stream.answer
  BY DEF Dispatch, Streams
<1>2. /\ thread'.listed = thread.listed /\ thread'.decided = thread.decided
      /\ thread'.interrupts = thread.interrupts
      /\ thread'.messages = IF stream.answer = None THEN thread.messages
                            ELSE Append(thread.messages,
                                        [id |-> stream.answer[1], role |-> "tool",
                                         calls |-> {stream.answer[2]}])
      /\ owed' = IF stream.answer = None THEN owed ELSE owed \ {stream.answer[2]}
  BY DEF Dispatch, Threads
<1>3. ~setting.reuses => owed' \subseteq (IF stream.resume THEN Approvals(thread) ELSE {})
  BY <1>1, <1>2 DEF AnswersAgree, OwingNow
<1>4. stream.resume => thread.listed = {}
  BY DEF Dispatch, Answerable, AnswersAgree
<1>5. CASE stream.answer = None
  <2>1. ~setting.reuses => Owing' /\ OwingNow'
    BY <1>1, <1>2, <1>3, <1>4, <1>5 DEF AnswersAgree, Owing, OwingNow, Live
  <2> QED BY <1>1, <1>2, <1>3, <1>5, <2>1 DEF AnswersAgree, Told
<1>6. CASE stream.answer # None
  <2>1. /\ stream.answer[1] \in Answers /\ stream.answer[2] \in Calls
        /\ thread.messages \in Seq(Message)
    BY <1>6 DEF Streams, Threads
  <2>2. Told(thread'.messages)
    <3>1. \A m \in Answers, c \in Calls :
             Told(Append(thread.messages, [id |-> m, role |-> "tool", calls |-> {c}]))
      BY <2>1, AnswerAppended DEF AnswersAgree
    <3>2. thread'.messages = Append(thread.messages, [id |-> stream.answer[1], role |-> "tool",
                                                      calls |-> {stream.answer[2]}])
      BY <1>2, <1>6
    <3> QED BY <2>1, <3>1, <3>2
  <2>3. ~setting.reuses => owed' = {}
    BY <1>3, <1>6 DEF AnswersAgree
  <2>4. ~setting.reuses => Owing' /\ OwingNow'
    BY <1>1, <2>3 DEF Owing, OwingNow
  <2> QED BY <1>1, <1>2, <1>3, <2>2, <2>4 DEF AnswersAgree, Told
<1> QED BY <1>5, <1>6

LEMMA AnswersPoll ==
    ASSUME TypeOK, RunsAgree, AnswersAgree, UNCHANGED setting, Poll,
           \A c \in Calls : MessageOf(c) \notin Answers
    PROVE  AnswersAgree'
<1> USE DEF TypeOK
<1>1. CASE Register
  BY <1>1, AnswersKept DEF Register, Streams
<1>2. CASE Check
  <2>1. CASE UNCHANGED <<thread, expired, stream, sends, owed, ends>>
    BY <2>1, AnswersKept
  <2>2. CASE stream.phase = "open" /\ ~stream.done /\ GiveUp("aborted")
    BY <2>2, AnswersGivenUp
  <2>3. CASE stream.phase # "open" /\ Terminate(thread, "aborted", {})
             /\ UNCHANGED <<expired, sends, owed>>
    <3>1. /\ stream'.phase = stream.phase /\ stream'.resume = stream.resume
          /\ stream'.answer = stream.answer /\ thread' = thread
      BY <2>3 DEF Terminate, Streams
    <3> QED BY <2>3, <3>1 DEF AnswersAgree, Told, Owing, OwingNow, Live, Approvals
  <2> QED BY <1>2, <2>1, <2>2, <2>3 DEF Check
<1>3. CASE Expired
  BY <1>3, AnswersGivenUp DEF Expired
<1>4. CASE Pending
  BY <1>4, AnswersKept DEF Pending
<1>5. CASE Yield
  BY <1>5, AnswersKept DEF Yield, Streams
<1> QED BY <1>1, <1>2, <1>3, <1>4, <1>5, AnswersReceive, AnswersDispatched DEF Poll

LEMMA AnswersDropped ==
    ASSUME TypeOK, RunsAgree, AnswersAgree, (Drop /\ UNCHANGED setting) \/ Restart
    PROVE  AnswersAgree'
<1> USE DEF TypeOK
<1> DEFINE u == Stopped(Unconfirmed(thread))
<1>1. /\ u \in Threads
      /\ u = [thread EXCEPT !.submission = u.submission, !.subagents = u.subagents]
  BY GivenUp
<1>2. \/ thread' = thread /\ ~Live
      \/ thread' = [u EXCEPT !.last = "aborted", !.listed = {}, !.active = None] /\ Live
      \/ thread' = [u EXCEPT !.active = None,
                             !.last = IF thread.active = None THEN @ ELSE "aborted",
                             !.listed = IF thread.active = None THEN @ ELSE {}]
  BY DEF Drop, Restart, Live
<1> HIDE DEF u
<1>3. /\ u.messages = thread.messages /\ u.decided = thread.decided
      /\ u.interrupts = thread.interrupts /\ u.listed = thread.listed
  BY <1>1 DEF Threads
<1>4. thread.active = None <=> ~Live
  BY DEF RunsAgree, Live
<1>5. /\ thread'.messages = thread.messages /\ thread'.decided = thread.decided
      /\ thread'.interrupts = thread.interrupts
      /\ thread'.listed = IF Live THEN {} ELSE thread.listed
  <2>1. CASE thread' = thread /\ ~Live
    BY <2>1
  <2>2. CASE Live /\ thread' = [u EXCEPT !.last = "aborted", !.listed = {}, !.active = None]
    BY <1>1, <1>3, <2>2 DEF Threads
  <2>3. CASE thread' = [u EXCEPT !.active = None,
                                 !.last = IF thread.active = None THEN @ ELSE "aborted",
                                 !.listed = IF thread.active = None THEN @ ELSE {}]
    BY <1>1, <1>3, <1>4, <2>3 DEF Threads
  <2> QED BY <1>2, <2>1, <2>2, <2>3
<1>6. stream'.phase = "none" /\ ~stream'.resume /\ owed' = owed
  BY DEF Drop, Restart, NoStream
<1>7. /\ setting'.carriers = setting.carriers /\ setting'.reuses = setting.reuses
      /\ setting'.restated = setting.restated
  BY DEF Restart, Setting
<1>8. ~setting.reuses => Owing' /\ OwingNow'
  BY <1>5, <1>6 DEF AnswersAgree, Owing, OwingNow, Live
<1> QED BY <1>5, <1>6, <1>7, <1>8 DEF AnswersAgree, Told

\* Preflight lets a run through that answers what is owed.
LEMMA AnswersPrepared ==
    ASSUME TypeOK, AnswersAgree, UNCHANGED setting, NEW resume \in BOOLEAN,
           NEW answer \in (Answers \X Calls) \cup {None}, resume => answer = None,
           Preflight(resume, IF answer = None THEN {} ELSE {answer[2]}),
           Prepare(resume, answer)
    PROVE  AnswersAgree'
<1>1. /\ stream'.phase = "prepared" /\ stream'.resume = resume /\ stream'.answer = answer
      /\ UNCHANGED <<thread, owed>>
  BY DEF Prepare, NoStream
<1>2. ~setting.reuses => owed \subseteq Unanswered(thread)
  BY DEF AnswersAgree, Owing, Unanswered
<1>3. ~setting.reuses => Owing' /\ OwingNow'
  BY <1>1, <1>2 DEF AnswersAgree, Owing, OwingNow, Live, Preflight, Approvals
<1> QED BY <1>1, <1>3 DEF AnswersAgree, Told

LEMMA AnswersStep ==
    ASSUME TypeOK, RunsAgree, AnswersAgree, [Next]_vars,
           \A c \in Calls : MessageOf(c) \notin Answers
    PROVE  AnswersAgree'
<1> USE DEF TypeOK
<1>1. CASE UNCHANGED vars
  BY <1>1, AnswersKept DEF vars
<1>2. CASE (Run \/ Resume) /\ UNCHANGED setting
  BY <1>2, AnswersPrepared DEF Run, Resume
<1>3. ASSUME NEW m \in Answers, NEW c \in setting.calls, SendAnswer(m, c), UNCHANGED setting
      PROVE  AnswersAgree'
  <2>1. <<m, c>> \in Answers \X Calls /\ <<m, c>> # None /\ <<m, c>>[2] = c
    BY DEF Setting
  <2> QED BY <1>3, <2>1, AnswersPrepared DEF SendAnswer
<1>4. ASSUME NEW m \in Answers, NEW c \in setting.calls, PushAnswer(m, c), UNCHANGED setting
      PROVE  AnswersAgree'
  <2>1. /\ thread'.messages = Append(thread.messages,
                                     [id |-> m, role |-> "tool", calls |-> {c}])
        /\ UNCHANGED <<thread.listed, thread.decided, thread.interrupts>>
        /\ c \in Calls
    BY <1>4 DEF PushAnswer, Threads, Setting
  <2> QED BY <1>4, <2>1, AnswersAppended DEF PushAnswer
<1>5. CASE (TransportReady \/ \E i \in Interrupts : Expire(i)) /\ UNCHANGED setting
  BY <1>5, AnswersKept DEF TransportReady, Expire
<1>6. CASE (Abort \/ AbortWake) /\ UNCHANGED setting
  BY <1>6, AnswersKept DEF Abort, AbortWake, Streams
<1> QED BY <1>1, <1>2, <1>3, <1>4, <1>5, <1>6, AnswersPoll, AnswersDropped DEF Next, Step

LEMMA AnswersInit ==
    ASSUME \A s \in Settings : s.carriers \cap Answers = {},
           \A s \in Settings : \A history \in s.restated : Told(history), Init
    PROVE  AnswersAgree
<1>1. /\ thread.messages = <<>> /\ thread.interrupts = {} /\ owed = {}
  BY DEF Init, NewThread
<1>2. stream.phase = "none" /\ ~stream.resume
  BY DEF Init, NoStream
<1>3. setting \in Settings
  BY DEF Init
<1> QED BY <1>1, <1>2, <1>3 DEF AnswersAgree, Told, Owing, OwingNow, Live

\* Only the dispatch of a request makes a run id used.
LEMMA UsedWhenDispatched ==
    ASSUME TypeOK, [Next]_vars, thread'.used # thread.used
    PROVE  Dispatch /\ UNCHANGED setting
<1> USE DEF TypeOK
<1>1. ASSUME NEW t \in Threads, t.used = thread.used, NEW end, NEW listed,
             Terminate(t, end, listed)
      PROVE  FALSE
  BY <1>1 DEF Terminate, Threads
<1>2. ASSUME NEW u \in Threads, u = Stopped(Unconfirmed(thread))
      PROVE  u.used = thread.used
  <2>1. u = [thread EXCEPT !.submission = u.submission, !.subagents = u.subagents]
    BY <1>2, GivenUp
  <2> QED BY <2>1 DEF Threads
<1>3. Stopped(Unconfirmed(thread)) \in Threads
  BY GivenUp
<1>4. ASSUME NEW end, GiveUp(end)
      PROVE  FALSE
  BY <1>1, <1>2, <1>3, <1>4 DEF GiveUp
<1>5. ~Receive
  <2>1. ASSUME NEW listed \in SUBSET setting.calls
        PROVE  ~Succeeded(listed)
    <3> DEFINE t == [thread EXCEPT !.decided = @ \cup Confirmed(thread),
                                   !.submission = None, !.interrupts = {}]
    <3>1. t \in Threads /\ t.used = thread.used
      BY ConfirmedType DEF Threads
    <3> HIDE DEF t
    <3>2. ~Terminate(t, "success", listed)
      BY <1>1, <3>1
    <3> QED BY <3>2 DEF Succeeded, t
  <2>2. ASSUME NEW asked \in SUBSET setting.interrupts
        PROVE  ~Interrupted(asked)
    <3> DEFINE t == [thread EXCEPT !.decided = @ \cup Confirmed(thread),
                                   !.submission = None, !.interrupts = asked]
    <3>1. t \in Threads /\ t.used = thread.used
      BY ConfirmedType DEF Threads, Setting
    <3> HIDE DEF t
    <3>2. ~Terminate(t, "interrupted", {})
      BY <1>1, <3>1
    <3> QED BY <3>2 DEF Interrupted, t
  <2>3. ~Cancelled /\ ~Fail
    BY <1>4 DEF Cancelled, Fail
  <2>4. ~Started /\ \A c \in setting.calls : ~ToolEnded(c)
    BY DEF Started, ToolEnded
  <2>5. \A c \in setting.calls, p \in setting.carriers : ~ToolStarted(c, p)
    BY DEF ToolStarted, Threads
  <2>6. \A c \in setting.calls, m \in Answers : ~ToolAnswered(m, c)
    BY DEF ToolAnswered, Threads
  <2>7. \A s \in Subagents, p \in Owner : ~SubagentAnnounced(s, p)
    BY DEF SubagentAnnounced, Threads
  <2>8. \A s \in Subagents, status \in {"suspended", "finished", "failed"} :
           ~SubagentConcluded(s, status)
    BY DEF SubagentConcluded, Threads
  <2>9. \A history \in setting.restated : ~Restated(history)
    BY DEF Restated, Threads
  <2> QED BY <2>1, <2>2, <2>3, <2>4, <2>5, <2>6, <2>7, <2>8, <2>9 DEF Receive
<1>6. ~Register /\ ~Pending /\ ~Yield /\ ~Expired
  BY <1>4 DEF Register, Pending, Yield, Expired
<1>7. ~Check
  <2>1. ~Terminate(thread, "aborted", {})
    BY <1>1
  <2> QED BY <1>4, <2>1 DEF Check
<1>8. ~Drop /\ ~Restart
  <2> DEFINE u == Stopped(Unconfirmed(thread))
  <2>1. u \in Threads /\ u.used = thread.used
    BY <1>2, <1>3
  <2> HIDE DEF u
  <2>2. thread' # [u EXCEPT !.last = "aborted", !.listed = {}, !.active = None]
    BY <2>1 DEF Threads
  <2>3. thread' # [u EXCEPT !.active = None,
                            !.last = IF thread.active = None THEN @ ELSE "aborted",
                            !.listed = IF thread.active = None THEN @ ELSE {}]
    BY <2>1 DEF Threads
  <2> QED BY <2>2, <2>3 DEF Drop, Restart, u
<1>9. ~TransportReady /\ ~Abort /\ ~AbortWake /\ \A i \in Interrupts : ~Expire(i)
  BY DEF TransportReady, Abort, AbortWake, Expire
<1>10. \A m \in Answers, c \in setting.calls : ~SendAnswer(m, c) /\ ~PushAnswer(m, c)
  BY DEF SendAnswer, PushAnswer, Prepare, Threads
<1>11. ~Run /\ ~Resume
  BY DEF Run, Resume, Prepare
<1>12. vars' # vars
  BY DEF vars
<1> QED BY <1>5, <1>6, <1>7, <1>8, <1>9, <1>10, <1>11, <1>12 DEF Next, Step, Poll

\* A request answers every call a server left open, for any calls, messages and runs,
\* whatever it resumes, lists as pending, places or restates.  A tool message shows its
\* call as answered, so no TOOL_CALL_START may carry its call on one: not by naming one
\* as its parent, nor by the name it makes up, nor since a restated conversation gives
\* the id of one sort of message to the other.
THEOREM RequestsAnswerCalls ==
    ASSUME \A s \in Settings : s.carriers \cap Answers = {},
           \A s \in Settings : \A history \in s.restated : Told(history),
           \A c \in Calls : MessageOf(c) \notin Answers
    PROVE  Spec => CallsAnswered
<1>1. Init => AnswersAgree
  BY AnswersInit
<1>2. TypeOK /\ RunsAgree /\ AnswersAgree /\ [Next]_vars => AnswersAgree'
  BY AnswersStep
<1>3. TypeOK /\ AnswersAgree /\ [Next]_vars
      => [thread'.used # thread.used /\ ~setting.reuses =>
             owed' \subseteq (IF stream.resume THEN Approvals(thread) ELSE {})]_vars
  BY UsedWhenDispatched, AnswersDispatched
<1> QED BY <1>1, <1>2, <1>3, RunsInvariant, PTL DEF Spec, CallsAnswered

-----------------------------------------------------------------------------
(* What a snapshot holds. *)

Announced(t, s) == t.subagents[s].status # "announced never"

\* abort_subagents and unconfirm change no ancestry and no answers.
LEMMA GivenUpKeeps ==
    ASSUME NEW t \in Threads
    PROVE  LET u == Stopped(Unconfirmed(t))
           IN  /\ \A s \in Subagents : /\ u.subagents[s].parent = t.subagents[s].parent
                                       /\ Announced(u, s) <=> Announced(t, s)
               /\ t.submission # None =>
                     /\ u.submission.run = t.submission.run
                     /\ u.submission.entries = t.submission.entries
<1> DEFINE v == Unconfirmed(t)
           u == Stopped(v)
<1>1. /\ v \in Threads /\ v.subagents = t.subagents
      /\ t.submission # None => /\ v.submission.run = t.submission.run
                                /\ v.submission.entries = t.submission.entries
  <2>1. v \in Threads
    BY UnconfirmedOnly
  <2>2. v.subagents = t.subagents
    BY DEF Unconfirmed, Threads
  <2>3. CASE t.submission = None
    BY <2>1, <2>2, <2>3
  <2>4. CASE t.submission # None
    <3>1. v.submission = [t.submission EXCEPT !.status = "unconfirmed"]
      BY <2>4 DEF Unconfirmed, Threads
    <3>2. t.submission \in Submission
      BY <2>4 DEF Threads
    <3> QED BY <2>1, <2>2, <3>1, <3>2 DEF Submission
  <2> QED BY <2>3, <2>4
<1> HIDE DEF v
<1>2. u.submission = v.submission
  BY <1>1 DEF Stopped, Threads
<1>3. \A s \in Subagents : /\ u.subagents[s].parent = v.subagents[s].parent
                           /\ Announced(u, s) <=> Announced(v, s)
  <2> SUFFICES ASSUME NEW s \in Subagents
               PROVE  /\ u.subagents[s].parent = v.subagents[s].parent
                      /\ Announced(u, s) <=> Announced(v, s)
    OBVIOUS
  <2>1. v.subagents[s] \in [status : Statuses, parent : Owner]
    BY <1>1 DEF Threads
  <2>2. u.subagents[s] = IF v.subagents[s].status = "running"
                         THEN [v.subagents[s] EXCEPT !.status = "aborted"] ELSE v.subagents[s]
    BY <1>1 DEF Stopped, Threads
  <2> QED BY <2>1, <2>2 DEF Announced
<1> QED BY <1>1, <1>2, <1>3 DEF Announced, v

LEMMA AppendDistinct ==
    ASSUME NEW messages \in Seq(Message), Distinct(messages), NEW entry,
           entry.id \notin Known(messages)
    PROVE  Distinct(Append(messages, entry))
<1> DEFINE after == Append(messages, entry)
<1>1. /\ Len(messages) \in Nat /\ DOMAIN messages = 1..Len(messages)
      /\ DOMAIN after = 1..(Len(messages) + 1)
      /\ \A n \in DOMAIN messages : after[n] = messages[n]
      /\ after[Len(messages) + 1] = entry
  OBVIOUS
<1> HIDE DEF after
<1>2. ASSUME NEW m \in DOMAIN after, NEW n \in DOMAIN after, after[m].id = after[n].id
      PROVE  m = n
  <2>1. CASE m \in DOMAIN messages /\ n \in DOMAIN messages
    BY <1>1, <1>2, <2>1 DEF Distinct
  <2>2. CASE m \in DOMAIN messages /\ n = Len(messages) + 1
    BY <1>1, <1>2, <2>2 DEF Known
  <2>3. CASE n \in DOMAIN messages /\ m = Len(messages) + 1
    BY <1>1, <1>2, <2>3 DEF Known
  <2> QED BY <1>1, <2>1, <2>2, <2>3
<1> QED BY <1>2 DEF Distinct, after

LEMMA PlacedDistinct ==
    ASSUME NEW messages \in Seq(Message), Distinct(messages), NEW c, NEW parent
    PROVE  Distinct(Placed(messages, c, parent))
<1> DEFINE id == IF parent = None THEN MessageOf(c) ELSE parent
<1>1. CASE id \notin Known(messages)
  <2> DEFINE entry == [id |-> id, role |-> "assistant", calls |-> {c}]
  <2>1. Placed(messages, c, parent) = Append(messages, entry)
    BY <1>1 DEF Placed
  <2>2. entry.id = id
    OBVIOUS
  <2> HIDE DEF entry, id
  <2> QED BY <1>1, <2>1, <2>2, AppendDistinct
<1>2. CASE id \in Known(messages)
  <2> DEFINE joined == [n \in DOMAIN messages |->
                          IF /\ messages[n].id = id /\ Found(messages, n)
                             /\ messages[n].role = "assistant"
                          THEN [messages[n] EXCEPT !.calls = @ \cup {c}] ELSE messages[n]]
  <2>1. Placed(messages, c, parent) = joined
    BY <1>2 DEF Placed
  <2>2. ASSUME NEW n \in DOMAIN messages
        PROVE  joined[n].id = messages[n].id
    <3>1. messages[n] \in Message
      BY <2>2, ElementOfSeq, n \in 1..Len(messages)
    <3> QED BY <3>1 DEF Message
  <2>3. DOMAIN joined = DOMAIN messages
    OBVIOUS
  <2> HIDE DEF joined, id
  <2> QED BY <2>1, <2>2, <2>3 DEF Distinct
<1> QED BY <1>1, <1>2

\* The brackets the verifier holds, open or closed, are of subagents it let start.
LEMMA VerifyBrackets ==
    ASSUME NEW v \in C!Verifier, NEW e \in Heard, C!Accepts(v, e)
    PROVE  C!Verify(v, e).subagents \cup C!Verify(v, e).closed
              = (v.subagents \cup v.closed)
                \cup (IF e.type = "SUBAGENT_STARTED" THEN {e.id} ELSE {})
<1> USE DEF C!Verifier, C!Verify
<1>1. CASE e.type = "START"
  <2>1. C!Fold(v, e) = [v EXCEPT !.open["tool"][e.id] = C!OwnerOf(v, e),
                                !.owner[C!BucketOf("tool")][e.id] = C!OwnerOf(v, e)]
    BY <1>1, HeardTypes DEF C!Fold
  <2> QED BY <1>1, <2>1
<1>2. CASE e.type = "END"
  <2>1. C!Fold(v, e) = [v EXCEPT !.open["tool"][e.id] = C!Absent]
    BY <1>2, HeardTypes DEF C!Fold
  <2> QED BY <1>2, <2>1
<1>3. CASE e.type \in {"RUN_STARTED", "MESSAGES_SNAPSHOT", "TOOL_CALL_RESULT"}
  BY <1>3 DEF C!Fold
<1>4. CASE e.type = "SUBAGENT_STARTED"
  BY <1>4 DEF C!Fold
<1>5. CASE e.type \in {"SUBAGENT_FINISHED", "SUBAGENT_ERROR"}
  <2>1. e.id \in v.subagents
    BY <1>5 DEF C!Accepts, C!ScopeRules
  <2> QED BY <1>5, <2>1 DEF C!Fold
<1> QED BY <1>1, <1>2, <1>3, <1>4, <1>5, HeardTypes

-----------------------------------------------------------------------------

\* The parts of SnapshotAgrees, each about what one half of a step changes.
SubmissionFits ==
    thread.submission # None =>
        /\ thread.submission.status = "in flight" => thread.submission.run = stream.run
        /\ thread.submission.run \in thread.used
        /\ thread.interrupts # {} /\ thread.submission.entries = thread.interrupts

Bracketed == stream.verifier.subagents \cup stream.verifier.closed

AncestryFits ==
    /\ Hierarchical(setting.announced)
    /\ \A s, p \in Subagents : thread.subagents[s].parent = p =>
          <<s, p>> \in setting.announced /\ Announced(thread, p)
    /\ \A s \in Bracketed : Announced(thread, s)

MessagesFit ==
    /\ Distinct(thread.messages)
    /\ \A history \in setting.restated : Distinct(history)
    /\ stream.phase = "prepared" /\ stream.answer # None =>
          stream.answer[1] \notin Known(thread.messages)

LEMMA SnapshotParts == SnapshotAgrees <=> MessagesFit /\ SubmissionFits /\ AncestryFits
BY DEF SnapshotAgrees, MessagesFit, SubmissionFits, AncestryFits, Bracketed, Announced

LEMMA SnapshotKept ==
    ASSUME SnapshotAgrees,
           UNCHANGED <<setting, thread.messages, thread.submission, thread.used,
                       thread.interrupts, thread.subagents, stream.phase, stream.run,
                       stream.answer, stream.verifier>>
    PROVE  SnapshotAgrees'
BY DEF SnapshotAgrees

\* The run is over, whoever ended it, or was never sent.
LEMMA SnapshotTerminated ==
    ASSUME TypeOK, SnapshotAgrees, UNCHANGED setting, NEW t \in Threads,
           t.messages = thread.messages, t.used = thread.used,
           NEW end, NEW listed, Terminate(t, end, listed),
           \A s \in Subagents : /\ t.subagents[s].parent = thread.subagents[s].parent
                                /\ Announced(t, s) <=> Announced(thread, s),
           t.submission # None =>
              /\ thread.submission # None /\ t.submission.status = "unconfirmed"
              /\ t.submission.run = thread.submission.run
              /\ t.submission.entries = thread.submission.entries
              /\ t.interrupts = thread.interrupts
    PROVE  SnapshotAgrees'
<1>1. /\ thread'.messages = t.messages /\ thread'.used = t.used
      /\ thread'.submission = t.submission /\ thread'.interrupts = t.interrupts
      /\ thread'.subagents = t.subagents
  BY DEF Terminate, Threads
<1>2. /\ stream'.phase = stream.phase /\ stream'.run = stream.run
      /\ stream'.answer = stream.answer /\ stream'.verifier = stream.verifier
  BY DEF Terminate, TypeOK, Streams
<1>3. MessagesFit'
  BY <1>1, <1>2, SnapshotParts DEF MessagesFit
<1>4. SubmissionFits'
  BY <1>1, <1>2, SnapshotParts DEF SubmissionFits
<1>5. Bracketed \subseteq Subagents
  BY DEF Bracketed, TypeOK, Streams, C!Verifier
<1>6. AncestryFits'
  <2>1. \A s \in Subagents : /\ thread'.subagents[s].parent = thread.subagents[s].parent
                             /\ Announced(thread, s)' <=> Announced(thread, s)
    BY <1>1 DEF Announced
  <2>2. Bracketed' = Bracketed
    BY <1>2 DEF Bracketed
  <2> QED BY <1>5, <2>1, <2>2, SnapshotParts DEF AncestryFits
<1> QED BY <1>3, <1>4, <1>6, SnapshotParts DEF SnapshotAgrees, MessagesFit, SubmissionFits,
          AncestryFits, Bracketed, Announced

LEMMA SnapshotWhole ==
    ASSUME MessagesFit', SubmissionFits', AncestryFits'
    PROVE  SnapshotAgrees'
BY DEF SnapshotAgrees, MessagesFit, SubmissionFits, AncestryFits, Bracketed, Announced

LEMMA SnapshotGivenUp ==
    ASSUME TypeOK, SnapshotAgrees, UNCHANGED setting, NEW end, GiveUp(end)
    PROVE  SnapshotAgrees'
<1> DEFINE u == Stopped(Unconfirmed(thread))
<1>1. /\ u \in Threads
      /\ u = [thread EXCEPT !.submission = u.submission, !.subagents = u.subagents]
      /\ u.submission = None <=> thread.submission = None
      /\ thread.submission # None => u.submission.status = "unconfirmed"
  BY GivenUp DEF TypeOK
<1>2. /\ \A s \in Subagents : /\ u.subagents[s].parent = thread.subagents[s].parent
                              /\ Announced(u, s) <=> Announced(thread, s)
      /\ thread.submission # None => /\ u.submission.run = thread.submission.run
                                     /\ u.submission.entries = thread.submission.entries
  BY GivenUpKeeps DEF TypeOK
<1>3. Terminate(u, end, {})
  BY DEF GiveUp
<1> HIDE DEF u
<1>4. /\ u.messages = thread.messages /\ u.used = thread.used
      /\ u.interrupts = thread.interrupts
  BY <1>1 DEF TypeOK, Threads
<1> QED BY <1>1, <1>2, <1>3, <1>4, SnapshotTerminated

\* What an event adds to the brackets.
LEMMA BracketsHeard ==
    ASSUME TypeOK, NEW e \in Heard, Passes(e), stream'.verifier = After(e)
    PROVE  Bracketed' \subseteq
              Bracketed \cup (IF e.type = "SUBAGENT_STARTED" THEN {e.id} ELSE {})
<1>1. CASE setting.verify
  BY <1>1, VerifyBrackets DEF Passes, After, Bracketed, TypeOK, Streams
<1>2. CASE ~setting.verify
  BY <1>2 DEF After, Bracketed
<1> QED BY <1>1, <1>2

\* An event about no subagent leaves the ancestry and the submission alone.
LEMMA SnapshotHeard ==
    ASSUME TypeOK, SnapshotAgrees, UNCHANGED setting, NEW e \in Heard, Passes(e),
           e.type # "SUBAGENT_STARTED", stream'.verifier = After(e),
           UNCHANGED <<thread.submission, thread.used, thread.interrupts, thread.subagents,
                       stream.phase, stream.run, stream.answer>>,
           stream.phase = "open", Distinct(thread'.messages)
    PROVE  SnapshotAgrees'
<1>1. Bracketed' \subseteq Bracketed
  BY BracketsHeard
<1>2. AncestryFits'
  BY <1>1, SnapshotParts DEF AncestryFits, Announced
<1>3. SubmissionFits'
  BY SnapshotParts DEF SubmissionFits
<1>4. MessagesFit'
  BY SnapshotParts DEF MessagesFit
<1> QED BY <1>2, <1>3, <1>4, SnapshotWhole

LEMMA SnapshotReceive ==
    ASSUME TypeOK, SubagentsAgree, SnapshotAgrees, UNCHANGED setting, Receive
    PROVE  SnapshotAgrees'
<1> USE HeardHere
<1>0. thread.messages \in Seq(Message) /\ Distinct(thread.messages)
  BY DEF SnapshotAgrees, TypeOK, Threads
<1>1. CASE Started
  <2> DEFINE e == RunStarted(NoOwners)
  <2>1. e.type = "RUN_STARTED"
    BY DEF RunStarted
  <2> QED BY <1>0, <1>1, <2>1, SnapshotHeard DEF Started, Reading, TypeOK, Streams
<1>2. ASSUME NEW c \in setting.calls, NEW p \in setting.carriers, ToolStarted(c, p)
      PROVE  SnapshotAgrees'
  <2> DEFINE e == StartUnder(p, c, None)
  <2>1. e.type = "START"
    BY DEF StartUnder, Start
  <2>2. /\ UNCHANGED <<thread.submission, thread.used, thread.interrupts, thread.subagents,
                       stream.phase, stream.run, stream.answer>>
        /\ stream'.verifier = After(e) /\ Passes(e) /\ stream.phase = "open"
        /\ thread'.messages = Placed(thread.messages, c, p)
    BY <1>2 DEF ToolStarted, Reading, TypeOK, Threads, Streams
  <2>3. Distinct(thread'.messages)
    BY <1>0, <2>2, PlacedDistinct
  <2> QED BY <2>1, <2>2, <2>3, SnapshotHeard
<1>3. ASSUME NEW c \in setting.calls, ToolEnded(c)
      PROVE  SnapshotAgrees'
  <2> DEFINE e == End("tool", c, None)
  <2>1. e.type = "END"
    BY DEF End
  <2> QED BY <1>0, <1>3, <2>1, SnapshotHeard DEF ToolEnded, Reading, TypeOK, Streams
<1>4. ASSUME NEW c \in setting.calls, NEW m \in Answers, ToolAnswered(m, c)
      PROVE  SnapshotAgrees'
  <2> DEFINE e == ToolResult(m, c, None)
             entry == [id |-> m, role |-> "tool", calls |-> {c}]
  <2>1. e.type = "TOOL_CALL_RESULT" /\ entry.id = m
    BY DEF ToolResult
  <2>2. /\ UNCHANGED <<thread.submission, thread.used, thread.interrupts, thread.subagents,
                       stream.phase, stream.run, stream.answer>>
        /\ stream'.verifier = After(e) /\ Passes(e) /\ stream.phase = "open"
        /\ thread'.messages = IF m \in Known(thread.messages) THEN thread.messages
                              ELSE Append(thread.messages, entry)
    BY <1>4 DEF ToolAnswered, Reading, TypeOK, Threads, Streams
  <2> HIDE DEF entry
  <2>3. Distinct(thread'.messages)
    BY <1>0, <2>1, <2>2, AppendDistinct
  <2> QED BY <2>1, <2>2, <2>3, SnapshotHeard
<1>5. ASSUME NEW s \in Subagents, NEW p \in Owner, <<s, p>> \in setting.announced,
             SubagentAnnounced(s, p)
      PROVE  SnapshotAgrees'
  <2> DEFINE e == SubagentStarted(s, p)
  <2>1. e.type = "SUBAGENT_STARTED" /\ e.id = s /\ e.parent = p
    BY DEF SubagentStarted
  <2>2. /\ UNCHANGED <<thread.messages, thread.submission, thread.used, thread.interrupts,
                       stream.phase, stream.run, stream.answer>>
        /\ stream'.verifier = After(e) /\ Passes(e) /\ stream.phase = "open"
    BY <1>5 DEF SubagentAnnounced, Reading, TypeOK, Threads, Streams
  <2>3. Bracketed' \subseteq Bracketed \cup {s}
    BY <2>1, <2>2, BracketsHeard
  <2>4. p \in Bracketed \cup {None}
    <3>1. setting.verify
      BY <1>5 DEF SubagentsAgree
    <3> QED BY <2>1, <2>2, <3>1 DEF Passes, C!Accepts, C!ScopeRules, Bracketed
  <2>5. /\ \A q \in Subagents \ {s} : thread'.subagents[q] = thread.subagents[q]
        /\ thread'.subagents[s].status = "running"
        /\ thread'.subagents[s].parent = IF p = None THEN thread.subagents[s].parent ELSE p
    BY <1>5 DEF SubagentAnnounced, TypeOK, Threads
  <2>6. Bracketed \subseteq Subagents
    BY DEF Bracketed, TypeOK, Streams, C!Verifier
  <2>7. \A q \in Subagents : Announced(thread, q) => Announced(thread, q)'
    BY <2>5 DEF Announced
  <2>8. Announced(thread, s)'
    BY <2>5 DEF Announced
  <2>9. \A q \in Bracketed : Announced(thread, q)
    BY SnapshotParts DEF AncestryFits
  <2>10. ASSUME NEW q \in Subagents, NEW parent \in Subagents,
                thread'.subagents[q].parent = parent
         PROVE  <<q, parent>> \in setting'.announced /\ Announced(thread, parent)'
    <3>1. CASE thread.subagents[q].parent = parent
      BY <2>7, <2>10, <3>1, SnapshotParts DEF AncestryFits
    <3>2. CASE q = s /\ p = parent
      BY <1>5, <2>4, <2>7, <2>9, <2>10, <3>2
    <3> QED BY <2>5, <2>10, <3>1, <3>2
  <2>11. AncestryFits'
    BY <2>3, <2>6, <2>7, <2>8, <2>9, <2>10, SnapshotParts DEF AncestryFits
  <2>12. SubmissionFits' /\ MessagesFit'
    BY <2>2, SnapshotParts DEF SubmissionFits, MessagesFit
  <2> QED BY <2>11, <2>12, SnapshotWhole
<1>6. ASSUME NEW s \in Subagents, NEW status \in {"suspended", "finished", "failed"},
             SubagentConcluded(s, status)
      PROVE  SnapshotAgrees'
  <2> DEFINE e == IF status = "failed" THEN SubagentError(s) ELSE SubagentFinished(s)
  <2>1. e \in Heard /\ e.type # "SUBAGENT_STARTED"
    BY DEF SubagentError, SubagentFinished
  <2> HIDE DEF e
  <2>2. Passes(e) /\ stream' = [stream EXCEPT !.verifier = After(e)]
    BY <1>6 DEF SubagentConcluded, e
  <2>3. /\ UNCHANGED <<thread.messages, thread.submission, thread.used, thread.interrupts,
                       stream.phase, stream.run, stream.answer>>
        /\ stream'.verifier = After(e)
    BY <1>6, <2>2 DEF SubagentConcluded, TypeOK, Threads, Streams
  <2>4. Bracketed' \subseteq Bracketed
    BY <2>1, <2>2, <2>3, BracketsHeard
  <2>5. /\ \A q \in Subagents \ {s} : thread'.subagents[q] = thread.subagents[q]
        /\ thread'.subagents[s].status # "announced never"
        /\ thread'.subagents[s].parent = thread.subagents[s].parent
    <3>1. thread.subagents[s] \in [status : Statuses, parent : Owner]
      BY DEF TypeOK, Threads
    <3>2. thread'.subagents = [thread.subagents EXCEPT ![s].status = status]
      BY <1>6 DEF SubagentConcluded, TypeOK, Threads
    <3>3. thread.subagents \in [Subagents -> [status : Statuses, parent : Owner]]
      BY DEF TypeOK, Threads
    <3>4. thread'.subagents[s] = [thread.subagents[s] EXCEPT !.status = status]
      BY <3>2, <3>3
    <3>5. /\ thread'.subagents[s].status = status
          /\ thread'.subagents[s].parent = thread.subagents[s].parent
      BY <3>1, <3>4
    <3>6. \A q \in Subagents \ {s} : thread'.subagents[q] = thread.subagents[q]
      BY <3>2, <3>3
    <3> QED BY <3>5, <3>6
  <2>6. Bracketed \subseteq Subagents
    BY DEF Bracketed, TypeOK, Streams, C!Verifier
  <2>7. \A q \in Subagents : /\ Announced(thread, q) => Announced(thread, q)'
                             /\ thread'.subagents[q].parent = thread.subagents[q].parent
    BY <2>5 DEF Announced
  <2>8. AncestryFits'
    BY <2>4, <2>6, <2>7, SnapshotParts DEF AncestryFits
  <2>9. SubmissionFits' /\ MessagesFit'
    BY <2>3, SnapshotParts DEF SubmissionFits, MessagesFit
  <2> QED BY <2>8, <2>9, SnapshotWhole
<1>7. ASSUME NEW listed \in SUBSET setting.calls, Succeeded(listed)
      PROVE  SnapshotAgrees'
  <2> DEFINE t == [thread EXCEPT !.decided = @ \cup Confirmed(thread),
                                 !.submission = None, !.interrupts = {}]
  <2>1. /\ t \in Threads /\ t.subagents = thread.subagents /\ t.submission = None
        /\ t.messages = thread.messages /\ t.used = thread.used
    BY ConfirmedType DEF Threads, TypeOK
  <2>2. Terminate(t, "success", listed)
    BY <1>7 DEF Succeeded
  <2> HIDE DEF t
  <2> QED BY <2>1, <2>2, SnapshotTerminated DEF Announced
<1>8. ASSUME NEW asked \in SUBSET setting.interrupts, Interrupted(asked)
      PROVE  SnapshotAgrees'
  <2> DEFINE t == [thread EXCEPT !.decided = @ \cup Confirmed(thread),
                                 !.submission = None, !.interrupts = asked]
  <2>1. /\ t \in Threads /\ t.subagents = thread.subagents /\ t.submission = None
        /\ t.messages = thread.messages /\ t.used = thread.used
    BY ConfirmedType DEF Threads, Setting, TypeOK
  <2>2. Terminate(t, "interrupted", {})
    BY <1>8 DEF Interrupted
  <2> HIDE DEF t
  <2> QED BY <2>1, <2>2, SnapshotTerminated DEF Announced
<1>9. CASE Cancelled \/ Fail
  BY <1>9, SnapshotGivenUp DEF Cancelled, Fail
<1>10. ASSUME NEW history \in setting.restated, Restated(history)
       PROVE  SnapshotAgrees'
  <2> DEFINE e == MessagesSnapshot(OwnersIn(history))
  <2>1. e.type = "MESSAGES_SNAPSHOT"
    BY DEF MessagesSnapshot
  <2>2. /\ UNCHANGED <<thread.submission, thread.used, thread.interrupts, thread.subagents,
                       stream.phase, stream.run, stream.answer>>
        /\ stream'.verifier = After(e) /\ Passes(e) /\ stream.phase = "open"
    BY <1>10 DEF Restated, Reading, TypeOK, Threads, Streams
  <2>3. Distinct(thread'.messages)
    BY <1>10, RestatedFacts DEF SnapshotAgrees
  <2> QED BY <2>1, <2>2, <2>3, SnapshotHeard
<1> QED BY <1>1, <1>2, <1>3, <1>4, <1>5, <1>6, <1>7, <1>8, <1>9, <1>10 DEF Receive

LEMMA SnapshotDispatched ==
    ASSUME TypeOK, RunsAgree, SubmissionAgrees, SnapshotAgrees, UNCHANGED setting, Dispatch
    PROVE  SnapshotAgrees'
<1> USE DEF TypeOK
<1>1. /\ stream.phase = "prepared" /\ stream.run \in Runs /\ thread.submission = None
  BY DEF Dispatch, RunsAgree, SubmissionAgrees
<1>2. /\ stream'.phase = "open" /\ stream'.run = stream.run
      /\ stream'.answer = stream.answer /\ stream'.verifier = stream.verifier
  BY DEF Dispatch, Streams
<1>3. /\ thread'.subagents = thread.subagents /\ thread'.interrupts = thread.interrupts
      /\ thread'.used = thread.used \cup {stream.run}
      /\ thread'.messages = IF stream.answer = None THEN thread.messages
                            ELSE Append(thread.messages,
                                        [id |-> stream.answer[1], role |-> "tool",
                                         calls |-> {stream.answer[2]}])
      /\ thread'.submission = IF stream.resume
                              THEN [run |-> stream.run, entries |-> thread.interrupts,
                                    status |-> "in flight"]
                              ELSE None
  BY <1>1 DEF Dispatch, Threads
<1>4. stream.resume => thread.interrupts # {}
  BY DEF Dispatch, Answerable
<1>5. SubmissionFits'
  <2>1. CASE stream.resume
    <3> DEFINE sent == [run |-> stream.run, entries |-> thread.interrupts,
                        status |-> "in flight"]
    <3>0. thread'.submission = sent /\ sent.run = stream.run
          /\ sent.entries = thread.interrupts
      BY <1>3, <2>1
    <3> HIDE DEF sent
    <3>1. /\ thread'.submission.run = stream.run
          /\ thread'.submission.entries = thread.interrupts
      BY <3>0
    <3> QED BY <1>2, <1>3, <1>4, <2>1, <3>1 DEF SubmissionFits
  <2>2. CASE ~stream.resume
    BY <1>3, <2>2 DEF SubmissionFits
  <2> QED BY <2>1, <2>2
<1>6. MessagesFit'
  <2>1. Distinct(thread'.messages)
    <3> DEFINE entry == [id |-> stream.answer[1], role |-> "tool",
                         calls |-> {stream.answer[2]}]
    <3>1. entry.id = stream.answer[1] /\ thread.messages \in Seq(Message)
      BY DEF Threads
    <3>2. /\ Distinct(thread.messages)
          /\ stream.answer # None => stream.answer[1] \notin Known(thread.messages)
      BY <1>1, SnapshotParts DEF MessagesFit
    <3>3. thread'.messages = IF stream.answer = None THEN thread.messages
                             ELSE Append(thread.messages, entry)
      BY <1>3
    <3> HIDE DEF entry
    <3> QED BY <3>1, <3>2, <3>3, AppendDistinct
  <2> QED BY <1>2, <2>1, SnapshotParts DEF MessagesFit
<1>7. AncestryFits'
  <2>1. \A s \in Subagents : Announced(thread, s)' <=> Announced(thread, s)
    BY <1>3 DEF Announced
  <2>2. Bracketed' = Bracketed /\ Bracketed \subseteq Subagents
    BY <1>2 DEF Bracketed, Streams, C!Verifier
  <2> QED BY <1>3, <2>1, <2>2, SnapshotParts DEF AncestryFits
<1> QED BY <1>5, <1>6, <1>7, SnapshotWhole

LEMMA SnapshotPoll ==
    ASSUME TypeOK, RunsAgree, SubmissionAgrees, SubagentsAgree, SnapshotAgrees,
           UNCHANGED setting, Poll
    PROVE  SnapshotAgrees'
<1> USE DEF TypeOK
<1>1. CASE Register
  BY <1>1, SnapshotKept DEF Register, Streams
<1>2. CASE Check
  <2>1. CASE UNCHANGED <<thread, expired, stream, sends, owed, ends>>
    BY <2>1, SnapshotKept
  <2>2. CASE GiveUp("aborted")
    BY <2>2, SnapshotGivenUp
  <2>3. CASE stream.phase # "open" /\ Terminate(thread, "aborted", {})
    BY <2>3, SnapshotKept DEF Terminate, Streams
  <2> QED BY <1>2, <2>1, <2>2, <2>3 DEF Check
<1>3. CASE Expired
  BY <1>3, SnapshotGivenUp DEF Expired
<1>4. CASE Pending
  BY <1>4, SnapshotKept DEF Pending
<1>5. CASE Yield
  BY <1>5, SnapshotKept DEF Yield, Streams
<1> QED BY <1>1, <1>2, <1>3, <1>4, <1>5, SnapshotReceive, SnapshotDispatched DEF Poll

LEMMA SnapshotDropped ==
    ASSUME TypeOK, SubmissionAgrees, SnapshotAgrees, (Drop /\ UNCHANGED setting) \/ Restart
    PROVE  SnapshotAgrees'
<1> USE DEF TypeOK
<1> DEFINE u == Stopped(Unconfirmed(thread))
<1>1. /\ u \in Threads
      /\ u = [thread EXCEPT !.submission = u.submission, !.subagents = u.subagents]
      /\ u.submission = None <=> thread.submission = None
      /\ thread.submission # None => u.submission.status = "unconfirmed"
  BY GivenUp
<1>2. /\ \A s \in Subagents : /\ u.subagents[s].parent = thread.subagents[s].parent
                              /\ Announced(u, s) <=> Announced(thread, s)
      /\ thread.submission # None => /\ u.submission.run = thread.submission.run
                                     /\ u.submission.entries = thread.submission.entries
  BY GivenUpKeeps
<1>3. \/ (thread' = thread /\ ~Live)
      \/ thread' = [u EXCEPT !.last = "aborted", !.listed = {}, !.active = None]
      \/ thread' = [u EXCEPT !.active = None,
                             !.last = IF thread.active = None THEN @ ELSE "aborted",
                             !.listed = IF thread.active = None THEN @ ELSE {}]
  BY DEF Drop, Restart, Live
<1> HIDE DEF u
<1>4. /\ u.messages = thread.messages /\ u.used = thread.used
      /\ u.interrupts = thread.interrupts
  BY <1>1 DEF Threads
<1>5. \/ (thread' = thread /\ ~Live)
      \/ /\ thread'.messages = u.messages /\ thread'.used = u.used
         /\ thread'.submission = u.submission /\ thread'.interrupts = u.interrupts
         /\ thread'.subagents = u.subagents
  <2>1. CASE thread' = [u EXCEPT !.last = "aborted", !.listed = {}, !.active = None]
    BY <1>1, <2>1 DEF Threads
  <2>2. CASE thread' = [u EXCEPT !.active = None,
                                 !.last = IF thread.active = None THEN @ ELSE "aborted",
                                 !.listed = IF thread.active = None THEN @ ELSE {}]
    BY <1>1, <2>2 DEF Threads
  <2> QED BY <1>3, <2>1, <2>2
<1>6. stream'.phase = "none" /\ stream'.verifier.subagents = {} /\ stream'.verifier.closed = {}
  BY DEF Drop, Restart, NoStream, C!Fresh
<1>7. setting'.announced = setting.announced /\ setting'.restated = setting.restated
  BY DEF Restart, Setting
<1>8. MessagesFit'
  BY <1>4, <1>5, <1>6, <1>7, SnapshotParts DEF MessagesFit
<1>9. SubmissionFits'
  <2>1. CASE thread' = thread /\ ~Live
    BY <2>1, SnapshotParts DEF SubmissionFits, SubmissionAgrees
  <2>2. CASE /\ thread'.used = u.used /\ thread'.submission = u.submission
             /\ thread'.interrupts = u.interrupts
    BY <1>1, <1>2, <1>4, <2>2, SnapshotParts DEF SubmissionFits
  <2> QED BY <1>5, <2>1, <2>2
<1>10. AncestryFits'
  <2>1. \A s \in Subagents : /\ thread'.subagents[s].parent = thread.subagents[s].parent
                             /\ Announced(thread, s)' <=> Announced(thread, s)
    BY <1>2, <1>5 DEF Announced
  <2> QED BY <1>6, <1>7, <2>1, SnapshotParts DEF AncestryFits, Bracketed
<1> QED BY <1>8, <1>9, <1>10, SnapshotWhole

LEMMA SnapshotPrepared ==
    ASSUME TypeOK, SnapshotAgrees, UNCHANGED setting, thread.submission = None,
           NEW resume, NEW answer,
           answer # None => answer[1] \notin Known(thread.messages),
           Prepare(resume, answer)
    PROVE  SnapshotAgrees'
<1>1. /\ stream'.answer = answer /\ thread' = thread
      /\ stream'.verifier.subagents = {} /\ stream'.verifier.closed = {}
  BY DEF Prepare, NoStream, C!Fresh
<1>2. MessagesFit'
  BY <1>1, SnapshotParts DEF MessagesFit
<1>3. SubmissionFits'
  BY <1>1 DEF SubmissionFits
<1>4. AncestryFits'
  BY <1>1, SnapshotParts DEF AncestryFits, Bracketed, Announced
<1> QED BY <1>2, <1>3, <1>4, SnapshotWhole

LEMMA SnapshotStep ==
    ASSUME TypeOK, RunsAgree, SubmissionAgrees, SubagentsAgree, SnapshotAgrees, [Next]_vars
    PROVE  SnapshotAgrees'
<1> USE DEF TypeOK
<1>1. CASE UNCHANGED vars
  BY <1>1, SnapshotKept DEF vars
<1>2. CASE (Run \/ Resume) /\ UNCHANGED setting
  BY <1>2, SnapshotPrepared DEF Run, Resume, Preflight
<1>3. ASSUME NEW m \in Answers, NEW c \in setting.calls, SendAnswer(m, c), UNCHANGED setting
      PROVE  SnapshotAgrees'
  <2>1. <<m, c>>[1] = m
    OBVIOUS
  <2> QED BY <1>3, <2>1, SnapshotPrepared DEF SendAnswer, Preflight
<1>4. ASSUME NEW m \in Answers, NEW c \in setting.calls, PushAnswer(m, c), UNCHANGED setting
      PROVE  SnapshotAgrees'
  <2> DEFINE entry == [id |-> m, role |-> "tool", calls |-> {c}]
  <2>1. /\ UNCHANGED <<thread.submission, thread.used, thread.interrupts, thread.subagents>>
        /\ stream' = stream /\ stream.phase = "none"
        /\ thread'.messages = Append(thread.messages, entry)
    BY <1>4 DEF PushAnswer, Threads
  <2>2. entry.id \notin Known(thread.messages) /\ thread.messages \in Seq(Message)
    BY <1>4 DEF PushAnswer, Threads
  <2> HIDE DEF entry
  <2>3. Distinct(thread'.messages)
    BY <2>1, <2>2, AppendDistinct, SnapshotParts DEF MessagesFit
  <2>4. MessagesFit'
    BY <1>4, <2>1, <2>3, SnapshotParts DEF MessagesFit
  <2>5. SubmissionFits' /\ AncestryFits'
    BY <1>4, <2>1, SnapshotParts DEF SubmissionFits, AncestryFits, Bracketed, Announced
  <2> QED BY <2>4, <2>5, SnapshotWhole
<1>5. CASE (TransportReady \/ \E i \in Interrupts : Expire(i)) /\ UNCHANGED setting
  BY <1>5, SnapshotKept DEF TransportReady, Expire
<1>6. CASE (Abort \/ AbortWake) /\ UNCHANGED setting
  BY <1>6, SnapshotKept DEF Abort, AbortWake, Streams
<1> QED BY <1>1, <1>2, <1>3, <1>4, <1>5, <1>6, SnapshotPoll, SnapshotDropped DEF Next, Step

-----------------------------------------------------------------------------
(* The walk up the ancestry, which ends. *)

LEMMA AncestorWalk ==
    ASSUME NEW t \in Threads, NEW s \in Subagents, Cardinality(Subagents) \in Nat
    PROVE  Ancestor(t, s)
              = [n \in 0..Cardinality(Subagents) |->
                    IF n = 0 THEN s
                    ELSE IF Ancestor(t, s)[n - 1] = None THEN None
                         ELSE t.subagents[Ancestor(t, s)[n - 1]].parent]
<1> DEFINE N == Cardinality(Subagents)
           Walk(f) == f = [n \in 0..N |->
                              IF n = 0 THEN s
                              ELSE IF f[n - 1] = None THEN None ELSE t.subagents[f[n - 1]].parent]
           follow == [x \in Owner |-> IF x = None THEN None ELSE t.subagents[x].parent]
<1>1. follow \in [Owner -> Owner]
  BY DEF Threads, Owner
<1>2. PICK f : Walks(f, Owner, s, follow, N)
  <2>1. s \in Owner /\ N \in Nat
    BY DEF Owner
  <2> HIDE DEF follow, N
  <2> QED BY <1>1, <2>1, Iteration
<1>3. Walk(f)
  <2>1. /\ f \in [0..N -> Owner] /\ f[0] = s
        /\ \A n \in 1..N : f[n] = follow[f[n - 1]]
    BY <1>2 DEF Walks
  <2>2. \A n \in 0..N : n # 0 => n \in 1..N /\ n - 1 \in 0..N
    OBVIOUS
  <2>3. \A n \in 0..N : f[n] = IF n = 0 THEN s
                              ELSE IF f[n - 1] = None THEN None ELSE t.subagents[f[n - 1]].parent
    BY <2>1, <2>2
  <2> QED BY <2>1, <2>3
<1>4. Ancestor(t, s) = CHOOSE up : Walk(up)
  BY DEF Ancestor
<1> HIDE DEF Walk
<1>5. Walk(CHOOSE up : Walk(up))
  BY <1>3
<1> QED BY <1>4, <1>5 DEF Walk

LEMMA AncestryEnds ==
    ASSUME NEW t \in Threads, Cardinality(Subagents) \in Nat,
           NEW rank \in [Subagents -> 1..Cardinality(Subagents)],
           \A s, p \in Subagents : t.subagents[s].parent = p =>
              rank[p] < rank[s] /\ Announced(t, p),
           NEW s \in Subagents, Announced(t, s)
    PROVE  /\ \A n \in 1..Cardinality(Subagents) :
                 Ancestor(t, s)[n] # None => Announced(t, Ancestor(t, s)[n])
           /\ Ancestor(t, s)[Cardinality(Subagents)] = None
<1> DEFINE N == Cardinality(Subagents)
           up == Ancestor(t, s)
           Climbs(n) == up[n] # None => /\ up[n] \in Subagents /\ Announced(t, up[n])
                                        /\ rank[up[n]] + n <= rank[s]
           Climbed == {n \in Nat : n <= N => Climbs(n)}
<1>1. /\ up[0] = s
      /\ \A n \in 1..N : up[n] = IF up[n - 1] = None THEN None ELSE t.subagents[up[n - 1]].parent
  <2>1. up = [n \in 0..N |-> IF n = 0 THEN s
                             ELSE IF up[n - 1] = None THEN None ELSE t.subagents[up[n - 1]].parent]
    BY AncestorWalk
  <2> HIDE DEF up
  <2> QED BY <2>1
<1> HIDE DEF up
<1>2. 0 \in Climbed
  BY <1>1
<1>3. ASSUME NEW n \in Climbed
      PROVE  n + 1 \in Climbed
  <2> SUFFICES ASSUME n + 1 <= N, up[n + 1] # None PROVE Climbs(n + 1)
    OBVIOUS
  <2>1. n \in Nat /\ n <= N /\ n + 1 \in 1..N /\ (n + 1) - 1 = n
    OBVIOUS
  <2>2. up[n] # None /\ up[n + 1] = t.subagents[up[n]].parent
    BY <1>1, <2>1
  <2>3. /\ up[n] \in Subagents /\ rank[up[n]] + n <= rank[s]
    BY <2>1, <2>2
  <2>4. up[n + 1] \in Subagents
    BY <2>2, <2>3 DEF Threads, Owner
  <2>5. rank[up[n + 1]] < rank[up[n]] /\ Announced(t, up[n + 1])
    BY <2>2, <2>3, <2>4
  <2>6. rank[up[n + 1]] \in Nat /\ rank[up[n]] \in Nat /\ rank[s] \in Nat
    BY <2>3, <2>4
  <2> QED BY <2>1, <2>3, <2>4, <2>5, <2>6
<1>4. Climbed = Nat
  <2>1. Climbed \in SUBSET Nat
    OBVIOUS
  <2> HIDE DEF Climbed
  <2> QED BY <1>2, <1>3, <2>1, SetInduction
<1>5. \A n \in 0..N : Climbs(n)
  BY <1>4
<1>6. up[N] = None
  <2>1. rank[s] <= N /\ N \in 0..N
    OBVIOUS
  <2> QED BY <1>5, <2>1
<1> QED BY <1>5, <1>6 DEF up

LEMMA SnapshotInit ==
    ASSUME \A s \in Settings : Hierarchical(s.announced),
           \A s \in Settings : \A history \in s.restated : Distinct(history), Init
    PROVE  SnapshotAgrees
<1>1. /\ thread.messages = <<>> /\ thread.submission = None
      /\ \A s \in Subagents : thread.subagents[s].parent = None
  BY DEF Init, NewThread
<1>2. /\ stream.phase = "none" /\ stream.verifier.subagents = {}
      /\ stream.verifier.closed = {}
  BY DEF Init, NoStream, C!Fresh
<1>3. Hierarchical(setting.announced) /\ \A history \in setting.restated : Distinct(history)
  BY DEF Init
<1>4. Distinct(thread.messages)
  BY <1>1 DEF Distinct
<1>5. \A s, p \in Subagents : thread.subagents[s].parent # p
  BY <1>1
<1> QED BY <1>1, <1>2, <1>3, <1>4, <1>5 DEF SnapshotAgrees

\* The snapshot of any moment can be restored by another process, through any events,
\* restated conversations among them, under three hypotheses, since nothing else checks
\* what a server sends: nobody is announced, through others, under itself; the thread
\* verifies or meets no subagents; no conversation is restated with an id listed twice.
THEOREM SnapshotsRestore ==
    ASSUME IsFiniteSet(Subagents),
           \A s \in Settings : s.verify \/ s.announced = {},
           \A s \in Settings : Hierarchical(s.announced),
           \A s \in Settings : \A history \in s.restated : Distinct(history)
    PROVE  Spec => []SnapshotRestores
<1>1. Init => SubmissionAgrees /\ SubagentsAgree /\ SnapshotAgrees
  BY SubagentsInit, SubmissionInit, SnapshotInit
<1>2. /\ TypeOK /\ RunsAgree /\ SubmissionAgrees /\ SubagentsAgree /\ SnapshotAgrees
      /\ [Next]_vars
      => SubmissionAgrees' /\ SubagentsAgree' /\ SnapshotAgrees'
  BY SubmissionStep, SubagentsStep, SnapshotStep
<1>3. TypeOK /\ RunsAgree /\ SubmissionAgrees /\ SnapshotAgrees => SnapshotRestores
  <2> SUFFICES ASSUME TypeOK, RunsAgree, SubmissionAgrees, SnapshotAgrees
               PROVE  Restorable(thread)
    BY DEF SnapshotRestores
  <2>1. Cardinality(Subagents) \in Nat
    BY FS_CardinalityType
  <2>2. PICK rank \in [Subagents -> 1..Cardinality(Subagents)] :
           \A s, p \in Subagents : <<s, p>> \in setting.announced => rank[p] < rank[s]
    BY DEF SnapshotAgrees, Hierarchical
  <2>3. \A s, p \in Subagents : thread.subagents[s].parent = p =>
           rank[p] < rank[s] /\ Announced(thread, p)
    BY <2>2, SnapshotParts DEF AncestryFits
  <2>4. ASSUME NEW s \in Subagents, thread.subagents[s].status # "announced never"
        PROVE  /\ \A n \in 1..Cardinality(Subagents) :
                     Ancestor(thread, s)[n] # None =>
                        thread.subagents[Ancestor(thread, s)[n]].status # "announced never"
               /\ Ancestor(thread, s)[Cardinality(Subagents)] = None
    BY <2>1, <2>3, <2>4, AncestryEnds DEF Announced, TypeOK
  <2>5. thread.active \in thread.used \cup {None}
    BY DEF RunsAgree
  <2>6. Distinct(thread.messages)
    BY DEF SnapshotAgrees
  <2>7. thread.submission # None =>
           /\ thread.submission.status = "in flight" => thread.active = thread.submission.run
           /\ thread.submission.run \in thread.used
           /\ thread.interrupts # {} /\ thread.submission.entries = thread.interrupts
    BY DEF SnapshotAgrees, SubmissionAgrees, RunsAgree
  <2> QED BY <2>4, <2>5, <2>6, <2>7 DEF Restorable
<1> QED BY <1>1, <1>2, <1>3, RunsInvariant, PTL DEF Spec

=============================================================================
