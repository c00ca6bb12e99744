----------------------------- MODULE Transcript -----------------------------
(***************************************************************************)
(* What one run's events become at the consumer, with a chain of            *)
(* transformers in the run and without: an agent whose events the server    *)
(* verifier would let through as they are emits them into a run that        *)
(* filters them first.  Each run is a line: transformers, server verifier,  *)
(* chunk normalizer, client verifier, applier (server/run.rs, then          *)
(* RunStream::ingest and handle in client/thread.rs).                       *)
(*                                                                         *)
(* The `whole` line has no transformers; the `shown` line has this          *)
(* setting's.  A third account, `raw`, is an applier fed the whole line's   *)
(* events directly, chunks and all.                                         *)
(***************************************************************************)
EXTENDS Transformers, WireAgreement

CONSTANT ChainOf    \* the transformers in a run of each kind of agent

\* The id made up for a call's message is nobody's.
ASSUME TranscriptAssumption ==
    /\ DOMAIN ChainOf = Agents
    /\ \A c \in Ids : CarrierId(c, None) \notin Ids

\* The whole line is WireAgreement's, and the applier at its end; there `verdict` may
\* say one thing more: the applier could not apply what the verifier let through.
VARIABLES
    applier,        \* client::apply::Applier
    shown,          \* the other line
    chain,          \* the state of its transformers
    raw             \* an applier without a normalizer, and whether it failed

transcriptVars == <<vars, applier, shown, chain, raw>>

\* `verdict`: "ok", or why the line's stream failed.
Verdicts == {"ok", "rejected", "unresolved", "refused", "unapplied"}
NewLine == [server |-> S!Fresh, streams |-> <<>>, client |-> C!Fresh,
            applier |-> NewApplier, verdict |-> "ok"]
Whole == [server |-> server, streams |-> streams, client |-> client,
          applier |-> applier, verdict |-> verdict]

Fail(line, cause) ==
    [line EXCEPT !.verdict = cause, !.applier = AbortSubagents(@)]

-----------------------------------------------------------------------------
(* The consumer: RunStream::ingest and handle *)

\* terminate: a terminal leaves no stream of the applier open.
Terminated(line, e) ==
    CASE e.type = "RUN_ERROR" -> [line EXCEPT !.applier = AbortSubagents(@)]
      [] OTHER -> line

Folded(line, e, result) ==
    IF ~result.ok THEN Fail([line EXCEPT !.applier = result.applier], "unapplied")
    ELSE Terminated([line EXCEPT !.applier = result.applier], e)

Handle(line, e) ==
    CASE line.verdict # "ok" -> line
      [] line.verdict = "ok" /\ ~C!Accepts(line.client, e) ->
            Fail([line EXCEPT !.client = C!Verify(@, e)], "refused")
      [] OTHER -> Folded([line EXCEPT !.client = C!Verify(@, e)], e, Apply(line.applier, e))

IngestedBy(line, e) ==
    IF e.type = "RUN_ERROR" THEN N!Result(TRUE, <<e>>, line.streams)
    ELSE N!Normalize(line.streams, e)

Handled(line, events) ==
    LET handled[n \in 0..Len(events)] ==
            IF n = 0 THEN line ELSE Handle(handled[n - 1], events[n])
    IN  handled[Len(events)]

Settled(handled, ingested) ==
    IF ingested.ok \/ handled.verdict # "ok" THEN handled ELSE Fail(handled, "unresolved")

HandleAll(line, ingested) ==
    Settled(Handled([line EXCEPT !.streams = ingested.open], ingested.out), ingested)

\* The producer: an event its verifier refuses is not sent.
Witnessed(line, e) == [line EXCEPT !.server = S!Observe(@, e)]
Send(line, e) ==
    CASE line.verdict # "ok" -> line
      [] line.verdict = "ok" /\ ~S!Accepts(line.server, e) ->
            [Witnessed(line, e) EXCEPT !.verdict = "rejected"]
      [] OTHER -> HandleAll(Witnessed(line, e), IngestedBy(Witnessed(line, e), e))

SendAll(line, events) == FoldLeft(Send, line, events)

-----------------------------------------------------------------------------
(* The run *)

TranscriptInit ==
    /\ Init
    /\ applier = NewApplier
    /\ shown = NewLine
    /\ chain = ChainOf[agent]
    /\ raw = Applied(NewApplier)

Becomes(line) ==
    /\ server' = line.server /\ streams' = line.streams /\ client' = line.client
    /\ applier' = line.applier /\ verdict' = line.verdict

\* Both runs begin, with a conversation of their own.
BeginBoth ==
    /\ ~server.started
    /\ \E history \in Replays[agent] :
          /\ Becomes(Send(Whole, RunStarted(history)))
          /\ shown' = Send(shown, RunStarted(history))
    /\ UNCHANGED <<agent, chain, raw>>

\* The ids of a tidy producer, one that uses them as the handles do: nothing is
\* started twice, a call names an assistant's message, a delta an activity
\* that was published, an activity keeps its owner, a chunk without an id continues
\* a stream of chunks, and a snapshot restates what is open.
Fresh(bucket, i) == server.owner[bucket][i] = Absent

Restates(history) ==
    \A i \in Ids :
        /\ S!IsOpen(server, "text", i) =>
              history["message"][i] = server.owner["message"][i]
        /\ S!IsOpen(server, "tool", i) =>
              history["call"][i] = server.owner["call"][i]
        /\ \A b \in {"message", "call", "activity"} :
              history[b][i] # Absent /\ ~Fresh(b, i) =>
                  history[b][i] = server.owner[b][i]

ContinuesChunks(e) ==
    LET i == N!StreamId(streams, e)
        n == N!OfId(streams, e.kind, i)
    IN  i # None => streams[n].owed

Tidy(e) ==
    /\ e.type = "START" /\ e.kind \in {"text", "tool"} => Fresh(BucketOf(e.kind), e.id)
    /\ e.type \in {"START", "CHUNK"} /\ e.parent # None =>
          \E n \in DOMAIN applier.messages :
              /\ applier.messages[n].id = e.parent
              /\ applier.messages[n].role = "assistant"
    /\ e.type = "ACTIVITY_DELTA" => ~Fresh("activity", e.id)
    /\ e.type = "ACTIVITY_SNAPSHOT" =>
          ~e.replace \/ server.owner["activity"][e.id] \in {Absent, e.tag}
    /\ e.type = "MESSAGES_SNAPSHOT" => Restates(e.history)
    /\ Bare(e) => ContinuesChunks(e)

-----------------------------------------------------------------------------
(* What an agent of a transcript is asked to keep to, beyond Orderly. *)

\* What an event says the message is that has an id: spoken, a tool's, an activity.
Sort(role) == IF role \in {"tool", "activity", "reasoning"} THEN role ELSE "spoken"
Entities(e) ==
    CASE e.type \in Streaming \cup {"CHUNK"} /\ e.kind = "text" -> {<<"spoken", e.id>>}
      [] e.type \in {"START", "CHUNK"} /\ e.kind = "tool" -> {<<"spoken", e.parent>>}
      [] e.type = "TOOL_CALL_RESULT" -> {<<"tool", e.id>>}
      [] e.type \in {"ACTIVITY_SNAPSHOT", "ACTIVITY_DELTA"} -> {<<"activity", e.id>>}
      [] e.type = "MESSAGES_SNAPSHOT" -> {<<Sort(m.role), m.id>> : m \in Range(e.messages)}
      [] OTHER -> {}

\* A snapshot names a message once and a call once, by an assistant's message.
Roles == {"assistant", "user", "tool", "activity", "reasoning"}
CallRecord == [id : Ids, written : BOOLEAN, signed : BOOLEAN]
MessageRecord(ids) ==
    [id : ids, role : Roles, owner : Owner, written : BOOLEAN, signed : BOOLEAN,
     calls : Seq(CallRecord), answers : Ids \cup {None}]
WellStated(messages) ==
    /\ messages \in Seq(MessageRecord(Ids))
    /\ \A m, n \in DOMAIN messages :
          /\ messages[m].id = messages[n].id => m = n
          /\ messages[m].calls # <<>> => messages[m].role = "assistant"
          /\ \A c \in Ids : Carries(messages[m], c) /\ Carries(messages[n], c) => m = n

ListsActivities(e) == \E n \in DOMAIN e.messages : e.messages[n].role = "activity"

\* An id is of one sort of message; the chunks of a call all name a message that
\* carries it, or none does; snapshots are well stated, do not come between chunks, and
\* leave the thoughts and the activities alone that the agent publishes by other events.
Sorted(a) ==
    /\ Replays[a] \subseteq {NoOwners}
    /\ \A e \in Emits[a] :
          /\ e.type = "START" /\ e.kind = "text" => Sort(RoleOf(e)) = "spoken" /\ RoleOf(e) \in Roles
          /\ e.type = "MESSAGES_SNAPSHOT" => WellStated(e.messages) /\ e.history = HistoryOf(e.messages)
    /\ \A e, f \in Emits[a] :
          /\ \A x \in Entities(e), y \in Entities(f) : x[2] \in Ids /\ x[2] = y[2] => x[1] = y[1]
          /\ Named(e) /\ Named(f) /\ SameStream(e, f) /\ e.kind = "tool" => (e.parent = None <=> f.parent = None)
          /\ f.type = "MESSAGES_SNAPSHOT" =>
                /\ e.type # "CHUNK"
                /\ e.type \in Streaming /\ e.kind \in {"block", "reasoning"} => f.history["reasoning"][e.id] = Absent
                /\ e.type \in {"ACTIVITY_SNAPSHOT", "ACTIVITY_DELTA"} => ~ListsActivities(f)

\* Who leaves the id out of chunks has no brackets of that kind for himself, nor a
\* reasoning block under the id of a chunk; the chunks of a call all name one message.
Plain(a) ==
    \A e, f, h \in Emits[a] :
        /\ Bare(e) /\ h.type = "START" /\ BucketOf(h.kind) = BucketOf(e.kind) => h.tag # e.tag
        /\ Bare(e) /\ Named(f) /\ h.type \in Streaming /\ h.kind = "block" =>
              ~(e.kind = "reasoning" /\ f.kind = "reasoning" /\ f.id = h.id)
        /\ Named(e) /\ Named(f) /\ SameStream(e, f) /\ e.kind = "tool" => e.parent = f.parent

-----------------------------------------------------------------------------
(* The run's steps *)

\* An event the unfiltered run would send.
Utter(e) ==
    /\ server.started
    /\ verdict = "ok"
    /\ Tidy(e)
    /\ S!Accepts(server, e)
    /\ Becomes(Send(Whole, e))
    /\ shown' = SendAll(shown, Chained(chain, e).out)
    /\ chain' = Chained(chain, e).chain
    /\ raw' = IF raw.ok THEN Apply(raw.applier, e) ELSE raw
    /\ UNCHANGED agent

\* Nothing legal is left to emit, or nobody listens.
Over ==
    /\ verdict # "ok" \/ server.ended
    /\ UNCHANGED transcriptVars

TranscriptNext ==
    \/ Over
    \/ BeginBoth
    \/ \E e \in Emits[agent] : Utter(e)

TranscriptSpec == TranscriptInit /\ [][TranscriptNext]_transcriptVars

-----------------------------------------------------------------------------
(* Properties *)

LineOK(line) ==
    /\ line.server \in S!Verifier /\ line.client \in C!Verifier
    /\ line.streams \in Seq(N!Stream)
    /\ line.verdict \in Verdicts
    /\ \A c \in Ids : line.applier.carrier[c] \in 0..Len(line.applier.messages)

TranscriptTypeOK == agent \in Agents /\ LineOK(Whole) /\ LineOK(shown)

\* A stream both verifiers pass can be applied: the applier has its own account of
\* which calls it holds and where, and an error of its own ends the run.
VerifiedIsApplied == verdict \in {"ok", "unresolved"}

\* A filtered run is refused nowhere when the unfiltered one is not: what a
\* transformer leaves of a message, a call, a step or a subagent must be whole,
\* and what it renames must still resolve at the consumer.
FilteredIsAccepted == verdict = "ok" => shown.verdict = "ok"

\* The transcript names for each message, activity and thought, and for each call
\* by the message that carries it, the owner the verifiers hold for it.
OwnersAgree ==
    verdict = "ok" =>
        /\ \A n \in DOMAIN applier.messages :
              LET m == applier.messages[n]
                  bucket == BucketOfRole(m.role)
              IN  /\ \/ m.id \notin Ids
                     \/ client.owner[bucket][m.id] \in {Absent, m.owner}
                  /\ \A k \in DOMAIN m.calls :
                        m.owner = client.owner["call"][m.calls[k].id]
        /\ \A n \in DOMAIN applier.reasoning :
              applier.reasoning[n].owner =
                  client.owner["reasoning"][applier.reasoning[n].id]

\* What each transformer promises to leave of a transcript.
Denied(c) == \E n \in DOMAIN chain : chain[n].mode = "deny" /\ c \in chain[n].dropped
Allowed(m) == [m EXCEPT !.calls = SelectSeq(@, LAMBDA call : ~Denied(call.id))]
Hides == \E n \in DOMAIN chain : chain[n].mode = "hidden"
Flattens == \E n \in DOMAIN chain : chain[n].mode \in {"inline", "hidden"}
Visible(m) ==
    /\ ~Denied(m.answers)
    /\ m.id \in Ids \/ Allowed(m).calls # <<>>
    /\ Hides => IF m.role = "tool" THEN server.owner["call"][m.answers] = None
                ELSE m.owner = None
Replaced(m) == m.role = "tool" /\ \E n \in DOMAIN chain : chain[n].mode = "replace"
VisibleOf(messages) ==
    LET visible == SelectSeq(messages, Visible)
        allowed == [n \in DOMAIN visible |-> Allowed(visible[n])]
    IN  IF Flattens THEN Flattened(allowed) ELSE allowed

Promoting == \E n \in DOMAIN chain : chain[n].mode \in {"promote", "replace"}
Unreplaced(messages) == SelectSeq(messages, LAMBDA m : ~Replaced(m))

\* The consumer of a filtered run holds the unfiltered transcript without the denied
\* calls and their results, without the subagents' work, or without its
\* attribution, and the whole shared state whoever published it; nothing else is
\* missing or misplaced, and a result that replaces the state is in one of the two.
ShownIsVisible ==
    verdict = "ok" /\ shown.verdict = "ok" =>
        /\ Unreplaced(shown.applier.messages) = Unreplaced(VisibleOf(applier.messages))
        /\ shown.applier.reasoning = VisibleOf(applier.reasoning)
        /\ shown.applier.subagents = IF Flattens THEN <<>> ELSE applier.subagents
        /\ Promoting \/ shown.applier.state = applier.state
        /\ \A n \in DOMAIN applier.messages :
              LET m == applier.messages[n]
              IN  Replaced(m) => \/ At(shown.applier.messages, m.id) # 0
                                 \/ shown.applier.state # None

\* An applier fed chunks directly assembles what the normalizer's client does:
\* both resolve a chunk without an id, each against streams of its own.
RawAssembles ==
    raw.ok /\ verdict = "ok" =>
        /\ raw.applier.messages = applier.messages
        /\ raw.applier.reasoning = applier.reasoning

=============================================================================
