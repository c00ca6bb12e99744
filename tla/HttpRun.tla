------------------------------- MODULE HttpRun -------------------------------
(***************************************************************************)
(* One run over HTTP: the response body (ResponseBody), the connection, and   *)
(* the client that reads the body in chunks cut anywhere                      *)
(* (client/transport/http.rs and sse.rs), lifts it to events                  *)
(* (client/enforce.rs) and verifies them.                                    *)
(***************************************************************************)
EXTENDS SseFraming, LegacyUpgrade, Requests, ResponseBody

CONSTANTS
    Document,   \* the document a value of the wire stands for; another value is no JSON
    NewerDefinitions,   \* the schema a newer producer may follow
    Reads       \* how many bytes one read of the client may return, at most

VARIABLES
    wire,       \* bytes on their way
    client      \* what the client made of it
vars == <<bodyVars, wire, client>>

C == INSTANCE ClientVerifier

Answer(request) == IF request = Unset THEN "content-type" ELSE Serve(request)
Reader == [decoder |-> NewDecoder, legacy |-> NewLegacy, verifier |-> C!Fresh, received |-> <<>>, status |-> "open"]

Init == BodyInit /\ wire = Preamble(plan.style) /\ client = Reader

----------------------------------------------------------------------------
(* The server: what a step of the body puts on the wire.                    *)

Sending ==
    /\ Send
    /\ wire' = wire \o (IF Polled.kind = "event" THEN FrameBytes(plan.style, Polled.value) ELSE CommentBytes(plan.style))
    /\ UNCHANGED client
Reporting == Report /\ wire' = wire \o FrameBytes(plan.style, "RUN_ERROR") /\ UNCHANGED client
Quiet == UNCHANGED <<wire, client>>
Finishing == (Failed \/ Reported \/ Notice \/ DropBody) /\ Quiet

----------------------------------------------------------------------------
(* The client.                                                              *)

\* The request is answered.  run_raw: only a stream of events is read.
Connect ==
    \E answer \in {Answer(plan.request)} :
        /\ Answered(answer = "stream")
        /\ client' = IF answer = "stream" THEN client ELSE [client EXCEPT !.status = answer]
        /\ UNCHANGED wire

\* decode and verify: what is enforced away reaches nobody.
Verdict(r, document) ==
    IF C!Accepts(r.verifier, Decoded(document))
    THEN [r EXCEPT !.verifier = C!Verify(@, Decoded(document)), !.received = Append(@, document)]
    ELSE [r EXCEPT !.status = "refused"]
Judged(r, enforced) ==
    CASE enforced.verdict = "bad" -> [r EXCEPT !.status = "malformed"]
      [] enforced.verdict = "dropped" -> r
      [] enforced.verdict = "kept" -> Verdict(r, enforced.value)
Taking(r, document) == IF r.status = "open" THEN Judged(r, Enforced(document)) ELSE r
Lifted(r, upgrade) == FoldLeft(Taking, [r EXCEPT !.legacy = upgrade.legacy], upgrade.documents)
Readable(frame) == Parses(frame) /\ ValueOf(frame) \in DOMAIN Document /\ RetiredFits(Document[ValueOf(frame)])
Read(r, frame) ==
    IF r.status # "open" THEN r
    ELSE IF ~Readable(frame) THEN [r EXCEPT !.status = "malformed"]
    ELSE Lifted(r, Translate(r.legacy, Document[ValueOf(frame)]))
\* The frames of a chunk are read before what went wrong with it is told.
Told(r, status) == IF r.status = "open" THEN [r EXCEPT !.status = status] ELSE r
Took(r, outcome, otherwise) ==
    Told(FoldLeft(Read, [r EXCEPT !.decoder = outcome.decoder], outcome.frames),
         IF outcome.fault = "none" THEN otherwise ELSE outcome.fault)

ReadAtMost(n) == IF n < Len(wire) THEN n ELSE Len(wire)
Reading == link = "up" /\ client.status = "open"
Receive ==
    /\ Reading /\ wire # <<>>
    /\ \E n \in {ReadAtMost(r) : r \in Reads} :
           /\ client' = Took(client, Fed(client.decoder, SubSeq(wire, 1, n), plan.limit), "open")
           /\ wire' = SubSeq(wire, n + 1, Len(wire))
    /\ UNCHANGED <<plan, server, link>>

\* The body ends: it may also when the server died, where no length was promised.
BodyEnd ==
    /\ Reading /\ wire = <<>> /\ body \in {"ended", "died"}
    /\ client' = Took(client, Finished(client.decoder, plan.limit), "ended")
    /\ HangUp /\ UNCHANGED wire

\* The body fails, the connection breaks, or the client's timeout strikes.
Broken ==
    /\ Reading
    /\ client' = [client EXCEPT !.status = "broken"]
    /\ HangUp /\ UNCHANGED wire

\* The client drops the response: after an error of its own, or at any moment.
Leave == HangUp /\ client' = Told(client, "left") /\ UNCHANGED wire

Next ==
    \/ Sending \/ Reporting \/ Finishing
    \/ (Complete \/ Fail \/ Die) /\ Quiet
    \/ Connect \/ Receive \/ BodyEnd \/ Broken \/ Leave

\* A body that is being dropped is dropped to its end, and polled as long as it can be.
Spec == Init /\ [][Next]_vars /\ WF_vars(Finishing) /\ WF_vars(Reporting)

----------------------------------------------------------------------------
(* Properties.                                                              *)

\* What a client must make of the source, whatever the network does.
ValuesOf(items) == [n \in DOMAIN items |-> items[n].value]
Frames(p) ==
    LET values == ValuesOf(SelectSeq(p.items, LAMBDA item : item.kind = "event"))
    IN  IF p.owned /\ \E n \in DOMAIN p.items : p.items[n].kind = "error" THEN Append(values, "RUN_ERROR") ELSE values
Meaning(p) == FoldLeft(LAMBDA r, value : Read(r, <<"{", value>>), Reader, Frames(p))
Meant == [p \in Plans |-> Meaning(p)]
Fitting == {document \in UNION {Range(Meant[p].received) : p \in Plans} : Fits(document, Ref("Event"))}

\* What the client hands on is what the server sent, in order, from the beginning,
\* however the body is cut, broken or left: and all of it when the body ended well
\* (sse.rs:3-17).  A failed body never looks like a finished one.  Each document is
\* valid for the schema the client was built with.
ReceivedIsSent ==
    /\ IsPrefix(client.received, Meant[plan].received)
    /\ client.status = "ended" =>
           /\ body \in {"ended", "died"}
           /\ body = "ended" => client.received = Meant[plan].received
    /\ Range(client.received) \subseteq Fitting

\* Nothing is refused without cause: a request only where the client does not take
\* events or sent no input, not even of a newer version; a size only where two neighbouring frames do
\* not fit the limit together; a document only where one was cut by a death, or is
\* invalid for newer producers too (protocol.rs:1-5).
Newer == INSTANCE Enforcement WITH Definitions <- NewerDefinitions
Held(style) == IF style.split THEN 4 ELSE 3
Arriving(style) == IF style.split THEN 2 ELSE 3
Crowded(p) == Len(Frames(p)) > 1 /\ Held(p.style) + Arriving(p.style) > p.limit
Valid(value) ==
    IF TagOf(Document[value]) \in Retired THEN RetiredFits(Document[value])
    ELSE Newer!Fits(Document[value], Newer!Ref("Event"))
Understood == {value \in DOMAIN Document : Valid(value)}
FitsInput(input) == input \notin NoDocuments /\ Newer!Fits(input, Newer!Ref("RunAgentInput"))
Refusals(request) ==
    (IF Unwelcome(request.accept) THEN {"406"} ELSE {})
    \cup (IF TypePasses(request.type) THEN {} ELSE {"415"})
    \cup (IF request.sent \in NoDocuments \/ ~FitsInput(request.sent) THEN {"400", "413"} ELSE {})
MustRefuse(request) == ~Welcome(request.accept) \/ request.sent \in NoDocuments
RefusedOnlyForCause ==
    /\ plan.request # Unset =>
           /\ client.status \in {"400", "406", "413", "415"} => client.status \in Refusals(plan.request)
           /\ link = "up" => ~MustRefuse(plan.request)
    /\ client.status # "refused"
    /\ client.status = "oversize" => Crowded(plan) \/ Held(plan.style) > plan.limit
    /\ client.status = "malformed" => body = "died" \/ \E value \in Range(Frames(plan)) : value \notin Understood

\* A run whose client has gone is cancelled, unless it ended or died.
GoneIsCancelled ==
    link = "gone" /\ body # "none" /\ plan.token ~> tripped \/ body \in {"ended", "died"}
=============================================================================
