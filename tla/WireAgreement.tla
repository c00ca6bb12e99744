--------------------------- MODULE WireAgreement ---------------------------
(***************************************************************************)
(* One run's events from the emitting verifier to the consuming one: an     *)
(* agent emits any event, the server verifier lets it through or refuses it *)
(* (the agent may carry on either way), and what gets through is normalized *)
(* and verified by the client, which stops at its first complaint.          *)
(*                                                                         *)
(* server/verify.rs, client/chunks.rs and client/verify.rs each keep their  *)
(* own account of what is open and who owns it; this module asks whether    *)
(* the three accounts can drift apart.                                      *)
(***************************************************************************)
EXTENDS Events, Integers, Sequences

CONSTANTS
    Agents,         \* kinds of agent
    Emits,          \* the events each kind may emit after RUN_STARTED
    Replays         \* the conversations its input echo may replay

\* The fields an event has carry what they may.
WellFormed(e) ==
    /\ e.type \in {"START", "CONTENT", "END"} => e.kind \in Kinds /\ e.id \in Ids /\ e.tag \in Owner
    /\ e.type = "CONTENT" => e.kind \in ChunkKinds
    /\ e.type = "START" => e.parent \in Ids \cup {None}
    /\ e.type = "CHUNK" => /\ e.kind \in ChunkKinds /\ e.id \in Ids \cup {None} /\ e.tag \in Owner
                            /\ e.parent \in Ids \cup {None} /\ e.named \in BOOLEAN
    /\ e.type = "TOOL_CALL_RESULT" => e.id \in Ids /\ e.call \in Ids /\ e.tag \in Owner
    /\ e.type = "ACTIVITY_SNAPSHOT" => e.id \in Ids /\ e.tag \in Owner /\ e.replace \in BOOLEAN
    /\ e.type \in {"ACTIVITY_DELTA", "ENCRYPTED"} => e.id \in Ids /\ e.tag \in Owner
    /\ e.type \in {"STEP_STARTED", "STEP_FINISHED"} => e.name \in StepNames /\ e.tag \in Owner
    /\ e.type \in {"SUBAGENT_STARTED", "SUBAGENT_FINISHED", "SUBAGENT_ERROR"} => e.id \in Subagents
    /\ e.type \in {"RUN_STARTED", "MESSAGES_SNAPSHOT"} => e.history \in Owners

ASSUME WireAssumption ==
    /\ DOMAIN Emits = Agents /\ DOMAIN Replays = Agents
    /\ \A a \in Agents : (\A e \in Emits[a] : WellFormed(e)) /\ Replays[a] \subseteq Owners

VARIABLES
    agent,      \* the kind of agent this run has
    server,     \* server::verify::Verifier
    streams,    \* ChunkNormalizer::open
    client,     \* client::verify::Verifier
    verdict     \* "ok" until the client's stream fails: a chunk it could not
                \* resolve, or an event its verifier refused

vars == <<agent, server, streams, client, verdict>>

S == INSTANCE ServerVerifier
C == INSTANCE ClientVerifier
N == INSTANCE ChunkNormalizer

Init ==
    /\ agent \in Agents
    /\ server = S!Fresh
    /\ streams = <<>>
    /\ client = C!Fresh
    /\ verdict = "ok"

-----------------------------------------------------------------------------
\* RunStream::ingest: RUN_ERROR bypasses the normalizer.
Ingest(e) ==
    IF e.type = "RUN_ERROR" THEN N!Result(TRUE, <<e>>, streams)
    ELSE N!Normalize(streams, e)

\* RunStream::handle for each expanded event, until one is refused.
Judge(judged, e) ==
    IF ~judged.ok THEN judged
    ELSE [ok |-> C!Accepts(judged.client, e), client |-> C!Verify(judged.client, e)]

Judged(verifier, events) ==
    LET judged[n \in 0..Len(events)] ==
            IF n = 0 THEN [ok |-> TRUE, client |-> verifier] ELSE Judge(judged[n - 1], events[n])
    IN  judged[Len(events)]

Deliver(e) ==
    LET ingested == Ingest(e)
        judged == Judged(client, ingested.out)
    IN  /\ streams' = ingested.open
        /\ client' = judged.client
        /\ verdict' = IF ~judged.ok THEN "refused"
                      ELSE IF ~ingested.ok THEN "unresolved" ELSE "ok"

\* Every run begins with the driver's RUN_STARTED.
Begin(history) ==
    /\ ~server.started
    /\ server' = S!Observe(server, RunStarted(history))
    /\ Deliver(RunStarted(history))
    /\ UNCHANGED agent

Emit(e) ==
    /\ server.started
    /\ verdict = "ok"
    /\ S!Accepts(server, e)
    /\ server' = S!Observe(server, e)
    /\ Deliver(e)
    /\ UNCHANGED agent

\* The emit fails, nothing is sent, and the agent need not stop.
Refuse(e) ==
    /\ server.started
    /\ verdict = "ok"
    /\ ~S!Accepts(server, e)
    /\ server' = S!Observe(server, e)
    /\ UNCHANGED <<agent, streams, client, verdict>>

\* The client failed its stream: the rest of the run reaches nobody.
Abandoned ==
    /\ verdict # "ok"
    /\ UNCHANGED vars

Next ==
    \/ Abandoned
    \/ \E h \in Replays[agent] : Begin(h)
    \/ \E e \in Emits[agent] : Emit(e) \/ Refuse(e)

Spec == Init /\ [][Next]_vars

-----------------------------------------------------------------------------
(* What a producer is asked to keep to, beyond the verifier's rules. *)

Streaming == {"START", "CONTENT", "END"}
Named(e) == e.type = "CHUNK" /\ e.id # None
SameStream(e, f) == e.kind = f.kind /\ e.id = f.id

\* A stream is bracketed or sent in chunks; its chunks are all tagged or none is; and
\* nothing else takes the id of a chunk stream, or of a reasoning block, for another's.
Orderly(a) ==
    \A e, f \in Emits[a] :
        /\ Named(e) /\ f.type \in Streaming => ~SameStream(e, f)
        /\ Named(e) /\ Named(f) /\ SameStream(e, f) => (e.tag = None <=> f.tag = None)
        /\ Named(e) /\ f.type = "TOOL_CALL_RESULT" /\ e.kind = "text" => f.id # e.id
        /\ (Named(e) \/ (e.type \in Streaming /\ e.kind = "block")) /\ f.type = "MESSAGES_SNAPSHOT" =>
              f.history[BucketOf(e.kind)][e.id] = Absent

-----------------------------------------------------------------------------
(* Properties *)

TypeOK ==
    /\ agent \in Agents
    /\ server \in S!Verifier
    /\ streams \in Seq(N!Stream)
    /\ client \in C!Verifier
    /\ verdict \in {"ok", "unresolved", "refused"}

\* What the emitting side lets through, the consuming side accepts: the server
\* verifier is there so that a stream it passed never fails three hops away.  Only
\* a chunk without an id may end the client's stream, when it resolves to nothing.
ClientAccepts == verdict # "refused"

\* Both sides attribute every message, call and activity to the same agent; if
\* they drifted, the client would refuse a legal continuation later on.
SameOwners == verdict = "ok" => server.owner = client.owner

\* What is open at the consumer is open at the producer, or owed an END by the
\* normalizer; and nothing the producer holds open is closed at the consumer.  The
\* sides agree on whether the run is over and which subagents and steps run.
Owing(k, i) == \E n \in DOMAIN streams : streams[n].kind = k /\ streams[n].id = i /\ streams[n].owed
SameOpen ==
    verdict = "ok" =>
        /\ ~client.finished =>
               \A k \in ChunkKinds, i \in Ids : C!IsOpen(client, k, i) <=> S!IsOpen(server, k, i) \/ Owing(k, i)
        /\ server.ended = client.finished
        /\ server.steps = client.steps
        /\ server.active = client.subagents
        /\ server.closed = client.closed

=============================================================================
