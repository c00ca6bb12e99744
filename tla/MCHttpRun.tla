------------------------------ MODULE MCHttpRun ------------------------------
(***************************************************************************)
(* Runs of a few events under every style of framing, with comments and       *)
(* errors; documents of a newer protocol and broken ones, under a part of the *)
(* vendored schema (crates/ag-ui/src/protocol/schema-1.0.json); and every     *)
(* legal run of up to three events of the retired reasoning family.          *)
(***************************************************************************)
EXTENDS HttpRun

----------------------------------------------------------------------------
(* The schema.                                                              *)

AText == [Anything EXCEPT !.type = "string"]
Exactly(t) == [Anything EXCEPT !.const = Text(t)]
OneOf(names) == [Anything EXCEPT !.oneOf = [n \in DOMAIN names |-> Ref(names[n])]]
Texts(names) == {Text(t) : t \in names}
ListOf(name) == [Anything EXCEPT !.type = "array", !.items = Ref(name)]
Open(properties, required) ==
    [Anything EXCEPT !.type = "object", !.properties = properties, !.required = required]
Exact(properties, required) == [Open(properties, required) EXCEPT !.closed = TRUE]
Composed(base, properties, required) == [Exact(properties, required) EXCEPT !.allOf = <<Ref(base)>>]
AnEvent(type, properties, required) == Composed("BaseEvent", ("type" :> Exactly(type)) @@ properties, {"type"} \cup required)

OfMessage(type) == AnEvent(type, [messageId |-> AText], {"messageId"})
Delta(type) == AnEvent(type, [messageId |-> AText, delta |-> AText], {"messageId", "delta"})
EventShapes ==
    [RUN_STARTED |-> AnEvent("RUN_STARTED", <<>>, {}),
     RUN_FINISHED |-> AnEvent("RUN_FINISHED", [outcome |-> Ref("RunFinishedOutcome")], {}),
     RUN_ERROR |-> AnEvent("RUN_ERROR", [message |-> AText], {"message"}),
     TEXT_MESSAGE_START |-> AnEvent("TEXT_MESSAGE_START", [messageId |-> AText, role |-> Ref("TextMessageRole")], {"messageId"}),
     TEXT_MESSAGE_CONTENT |-> Delta("TEXT_MESSAGE_CONTENT"),
     TEXT_MESSAGE_END |-> OfMessage("TEXT_MESSAGE_END"),
     REASONING_START |-> OfMessage("REASONING_START"),
     REASONING_MESSAGE_START |->
         AnEvent("REASONING_MESSAGE_START", [messageId |-> AText, role |-> Exactly("reasoning")], {"messageId", "role"}),
     REASONING_MESSAGE_CONTENT |-> Delta("REASONING_MESSAGE_CONTENT"),
     REASONING_MESSAGE_END |-> OfMessage("REASONING_MESSAGE_END"),
     REASONING_END |-> OfMessage("REASONING_END"),
     REASONING_ENCRYPTED_VALUE |->
         AnEvent("REASONING_ENCRYPTED_VALUE", [entityId |-> AText, subtype |-> Ref("Subtype")], {"entityId", "subtype"}),
     MESSAGES_SNAPSHOT |-> AnEvent("MESSAGES_SNAPSHOT", [messages |-> ListOf("Message")], {"messages"}),
     STATE_DELTA |-> AnEvent("STATE_DELTA", [delta |-> Ref("JsonPatch")], {"delta"})]
EventTypes ==
    <<"TEXT_MESSAGE_START", "TEXT_MESSAGE_CONTENT", "TEXT_MESSAGE_END", "STATE_DELTA", "MESSAGES_SNAPSHOT", "RUN_STARTED",
      "RUN_FINISHED", "RUN_ERROR", "REASONING_START", "REASONING_MESSAGE_START", "REASONING_MESSAGE_CONTENT",
      "REASONING_MESSAGE_END", "REASONING_END", "REASONING_ENCRYPTED_VALUE">>
Parts ==
    [Event |-> OneOf(EventTypes),
     EventType |-> [Anything EXCEPT !.enum = Texts(DOMAIN EventShapes)],
     BaseEvent |-> Open([type |-> Ref("EventType"), timestamp |-> [Anything EXCEPT !.type = "integer", !.most = 2]], {"type"}),
     TextMessageRole |-> [Anything EXCEPT !.type = "string", !.enum = Texts({"assistant", "user"})],
     Subtype |-> [Anything EXCEPT !.type = "string", !.enum = Texts({"tool-call", "message"})],
     RunFinishedOutcome |-> OneOf(<<"Success", "Interrupted">>),
     Success |-> Exact([type |-> Exactly("success")], {"type"}),
     Interrupted |-> Exact([type |-> Exactly("interrupt"), interrupts |-> [ListOf("Interrupt") EXCEPT !.minItems = 1]], {"type", "interrupts"}),
     Interrupt |-> Exact([id |-> AText, reason |-> AText], {"id", "reason"}),
     Message |-> OneOf(<<"UserMessage", "ReasoningMessage">>),
     BaseMessage |-> Open([id |-> AText, role |-> AText], {"id", "role"}),
     UserMessage |-> Composed("BaseMessage", [role |-> Exactly("user"), content |-> AText], {"id", "role", "content"}),
     ReasoningMessage |-> Composed("BaseMessage", [role |-> Exactly("reasoning")], {"id", "role"}),
     JsonPatch |-> ListOf("Operation"),
     Pointer |-> [AText EXCEPT !.pattern = TRUE],
     Operation |-> OneOf(<<"Add", "Remove">>),
     Add |-> Open([op |-> Exactly("add"), path |-> Ref("Pointer"), value |-> Anything], {"op", "path", "value"}),
     Remove |-> Open([op |-> Exactly("remove"), path |-> Ref("Pointer")], {"op", "path"})]
InputShapes ==
    [RunAgentInput |->
        Exact([threadId |-> AText, runId |-> AText, state |-> [Anything EXCEPT !.notNull = TRUE],
               messages |-> ListOf("Message"), resume |-> ListOf("ResumeEntry")], {"threadId", "runId", "messages"}),
     ResumeEntry |-> Exact([interruptId |-> AText, status |-> Ref("ResumeStatus")], {"interruptId", "status"}),
     ResumeStatus |-> [AText EXCEPT !.enum = Texts({"resolved", "cancelled"})]]
MCDefinitions == EventShapes @@ Parts @@ InputShapes
MCOrder == <<"content", "delta", "entityId", "id", "interruptId", "interrupts", "message", "messageId", "messages", "op",
             "outcome", "path", "reason", "resume", "role", "runId", "state", "status", "subtype", "threadId",
             "timestamp", "type", "value">>

\* A newer version adds members to unions and enumerations, and optional properties.
NewEvents == [PAUSED |-> AnEvent("PAUSED", [reason |-> AText], {"reason"})]
NewParts ==
    [Paused |-> Exact([type |-> Exactly("paused")], {"type"}),
     OracleMessage |-> Composed("BaseMessage", [role |-> Exactly("oracle")], {"id", "role"}),
     Swap |-> Open([op |-> Exactly("swap"), path |-> AText], {"op", "path"})]
MCNewerDefinitions ==
    NewEvents @@ NewParts @@
    [MCDefinitions EXCEPT
        !["Event"] = OneOf(Append(EventTypes, "PAUSED")), !["EventType"].enum = @ \cup Texts({"PAUSED"}),
        !["TextMessageRole"].enum = @ \cup Texts({"critic"}), !["Subtype"].enum = @ \cup Texts({"block"}),
        !["TEXT_MESSAGE_START"].properties = ("mood" :> AText) @@ @, !["Interrupt"].properties = ("mood" :> AText) @@ @,
        !["RunAgentInput"].properties = ("mood" :> AText) @@ @, !["ResumeStatus"].enum = @ \cup Texts({"deferred"}),
        !["RunFinishedOutcome"] = OneOf(<<"Success", "Interrupted", "Paused">>),
        !["Message"] = OneOf(<<"UserMessage", "ReasoningMessage", "OracleMessage">>),
        !["Operation"] = OneOf(<<"Add", "Remove", "Swap">>)]

----------------------------------------------------------------------------
(* The documents.                                                           *)

Doc(type, members) == Object(("type" :> Text(type)) @@ members)
OfM == [messageId |-> Text("m")]
Start0 == Doc("TEXT_MESSAGE_START", OfM)
With(document, name, value) == Object((name :> value) @@ document.members)
Finish(outcome) == Doc("RUN_FINISHED", [outcome |-> outcome])
Interrupts(s) == Finish(Object([type |-> Text("interrupt"), interrupts |-> Array(s)]))
AnInterrupt == Object([id |-> Text("i"), reason |-> Text("r"), mood |-> Text("sad")])
MessageBy(id, role) == Object([id |-> Text(id), role |-> Text(role), content |-> Text("c")])
Operation(op, path) == Object([op |-> Text(op), path |-> Text(path), from |-> Text("/b")])

Current ==
    [RUN_STARTED |-> Doc("RUN_STARTED", <<>>), RUN_FINISHED |-> Doc("RUN_FINISHED", <<>>), RUN_ERROR |-> Doc("RUN_ERROR", [message |-> Text("e")]),
     TEXT_START |-> Start0, TEXT_CONTENT |-> Doc("TEXT_MESSAGE_CONTENT", [delta |-> Text("d")] @@ OfM), TEXT_END |-> Doc("TEXT_MESSAGE_END", OfM)]
Later ==
    [CRITIC_START |-> With(With(With(Start0, "role", Text("critic")), "mood", Text("sad")), "timestamp", Whole(1)),
     NEWER |-> Doc("PAUSED", [reason |-> Text("r")]),
     SNAPSHOT |-> Doc("MESSAGES_SNAPSHOT", [messages |-> Array(<<MessageBy("m", "user"), Object([id |-> Text("o"), role |-> Text("oracle")])>>)]),
     PATCH |-> Doc("STATE_DELTA", [delta |-> Array(<<Operation("swap", "/a"), Operation("remove", "/a")>>)]),
     BLOCK_SIGNED |-> Doc("REASONING_ENCRYPTED_VALUE", [entityId |-> Text("m"), subtype |-> Text("block")]),
     PAUSED_FINISH |-> Finish(Object([type |-> Text("paused")])),
     INTERRUPTED |-> Interrupts(<<AnInterrupt>>)]
Broken0 ==
    [NO_ID |-> Doc("TEXT_MESSAGE_START", <<>>), NULL_ID |-> Doc("TEXT_MESSAGE_START", [messageId |-> Null]), LATE |-> With(Start0, "timestamp", Integer(3)),
     NO_TYPE |-> Object(OfM), LIST |-> Array(<<>>), WRONG_ROLE |-> Doc("REASONING_MESSAGE_START", [role |-> Text("user")] @@ OfM),
     NOTHING_ASKED |-> Interrupts(<<>>), UNREASONED |-> Interrupts(<<Object([id |-> Text("i")])>>), NO_POINTER |-> Doc("STATE_DELTA", [delta |-> Array(<<Operation("remove", "a")>>)]),
     NO_OUTCOME |-> Finish(Null), THOUGHTLESS |-> Doc("THINKING_TEXT_MESSAGE_CONTENT", <<>>)]
RetiredDocuments ==
    [type \in Retired |-> Doc(type, CASE type = "THINKING_START" -> [title |-> Text("t")]
                                      [] type = "THINKING_TEXT_MESSAGE_CONTENT" -> [delta |-> Text("d")] [] OTHER -> <<>>)]
MCDocument == Current @@ Later @@ Broken0 @@ RetiredDocuments

----------------------------------------------------------------------------
(* The requests.                                                            *)

Resuming(status) == Array(<<Object([interruptId |-> Text("i"), status |-> Text(status)])>>)
Plain == Object([threadId |-> Text("t"), runId |-> Text("r"), messages |-> Array(<<MessageBy("m", "user")>>)])
Bodies ==
    {Plain, With(Plain, "mood", Text("sad")), With(Plain, "messages", Array(<<MessageBy("o", "oracle")>>)),
     With(Plain, "resume", Resuming("deferred")), With(Plain, "state", Null), With(Plain, "messages", Null),
     With(Plain, "resume", Array(<<Text("i")>>)), Object([threadId |-> Text("t")])} \cup NoDocuments
Typed(essence, suffix) == [essence |-> essence, suffix |-> suffix]
Json == Typed("application/json", Unset)
Types == {Unset, Json, Typed("application/acme", "json"), Typed("text/plain", Unset)}
Ranges == {Slashless} \cup {Entry(m.kind, m.subtype, q) :
              m \in {EventStream, Media("text", "*"), Media("*", "*"), Media("application", "json")}, q \in {0, 4, Unset}}
Accepts0 == {Unset} \cup {<<r>> : r \in Ranges} \cup {<<r, s>> : r \in Ranges, s \in Ranges}
Requested ==
    {Request(accept, Json, Plain) : accept \in Accepts0}
    \cup {Request(accept, type, sent) : accept \in {Unset, <<Entry("*", "*", 0)>>}, type \in Types, sent \in Bodies}
Ordinary == Request(<<Entry("text", "event-stream", Unset)>>, Json, Plain)

----------------------------------------------------------------------------
(* The plans.                                                               *)

MCFreshIds == <<"r1", "r2", "r3">>
Styled(break, split, bom) == [break |-> break, split |-> split, bom |-> bom]
Ours == Styled("lf", FALSE, FALSE)
Foreign == [break : {"lf", "cr", "crlf"}, split : BOOLEAN, bom : {FALSE}]

AsEvents(values) == [n \in DOMAIN values |-> Item("event", values[n])]
Bracketed(values) == <<"RUN_STARTED">> \o values \o <<"RUN_FINISHED">>
Comment == Item("comment", None)
Talk == AsEvents(Bracketed(<<"TEXT_START", "TEXT_CONTENT", "TEXT_END">>))
Idle == <<Comment, Item("event", "RUN_STARTED"), Comment, Item("event", "NEWER"), Item("event", "RUN_FINISHED"), Comment>>
Started(item) == <<Item("event", "RUN_STARTED"), item>>
NewerRuns ==
    {<<"RUN_STARTED", "CRITIC_START", "TEXT_CONTENT", "TEXT_END", "INTERRUPTED">>,
     <<"RUN_STARTED", "SNAPSHOT", "PATCH", "BLOCK_SIGNED", "PAUSED_FINISH">>}

Served(style, items, limit) == Plan(Ordinary, TRUE, TRUE, style, items, limit)

\* Runs of the retired family close what they start, by its end or the block's.
Step(state, value) ==
    CASE state = "bad" \/ (state = "open" /\ value = "THINKING_TEXT_MESSAGE_START") -> "bad"
      [] value \in {"THINKING_TEXT_MESSAGE_START", "THINKING_TEXT_MESSAGE_CONTENT"} -> "open"
      [] value = "THINKING_START" -> state
      [] OTHER -> "closed"
LegalRun(s) == FoldLeft(Step, "closed", s) = "closed"
LegalRuns == {s \in SeqOf(Retired, 3) : LegalRun(s)}

MCPlans ==
    {Plan(request, TRUE, TRUE, Ours, <<>>, 6) : request \in {Unset} \cup Requested}
    \cup {Served(style, items, limit) : style \in Foreign \cup {Styled("lf", FALSE, TRUE)}, items \in {Talk, Idle}, limit \in {5, 6}}
    \cup {Plan(Ordinary, owned, token, Ours, Started(item), 6) : owned \in BOOLEAN, token \in BOOLEAN,
              item \in {Item("error", None), Item("unserializable", None), Item("event", "GARBLED"), Item("event", Invalid)}}
    \cup {Served(Ours, AsEvents(s), 6) : s \in NewerRuns}
    \cup {Served(Ours, Started(Item("event", value)), 6) : value \in DOMAIN Broken0}
    \cup {Served(Ours, AsEvents(Bracketed(s)), 6) : s \in LegalRuns}
=============================================================================
