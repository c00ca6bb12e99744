---------------------------- MODULE LegacyUpgrade ----------------------------
(***************************************************************************)
(* The boundary between wire documents and the events a client knows         *)
(* (crates/ag-ui/src/client/enforce.rs): the retired THINKING_* family       *)
(* becomes REASONING_* with ids it never had, every document is enforced,    *)
(* and what is left of it is decoded.                                        *)
(***************************************************************************)
EXTENDS Events, Enforcement

CONSTANT FreshIds       \* what random_id returns, in order: a bound on how many

NewLegacy == [reasoning |-> None, message |-> None, used |-> 0]

Fresh(l) == FreshIds[l.used + 1]
Reasoning(l) == IF l.reasoning = None THEN Fresh(l) ELSE l.reasoning
\* An id drawn because no block is open counts as used.
Drawn(l) == IF l.reasoning = None THEN l.used + 1 ELSE l.used

Upgrade(l, documents) == [legacy |-> l, documents |-> documents]

Renamed(document, type, id) ==
    Object(("type" :> Text(type)) @@ ("messageId" :> Text(id)) @@ document.members)
Untitled(document) == Object([name \in DOMAIN document.members \ {"title"} |-> document.members[name]])
InRole(document) == Object(("role" :> Text("reasoning")) @@ document.members)
Opened(document, id) == InRole(Renamed(document, "REASONING_MESSAGE_START", id))
Empty == Object(<<>>)

ThinkingStart(l, document) ==
    Upgrade([l EXCEPT !.reasoning = Fresh(l), !.used = @ + 1], <<Renamed(Untitled(document), "REASONING_START", Fresh(l))>>)
TextStart(l, document) ==
    Upgrade([l EXCEPT !.message = Reasoning(l), !.used = Drawn(l)], <<Opened(document, Reasoning(l))>>)
\* Content without a start opens its message.
TextContent(l, document) ==
    IF l.message # None THEN Upgrade(l, <<Renamed(document, "REASONING_MESSAGE_CONTENT", l.message)>>)
    ELSE Upgrade(TextStart(l, document).legacy,
                 <<Opened(Empty, Reasoning(l)), Renamed(document, "REASONING_MESSAGE_CONTENT", Reasoning(l))>>)
\* So does an end.
TextEnd(l, document) ==
    IF l.message # None THEN Upgrade([l EXCEPT !.message = None], <<Renamed(document, "REASONING_MESSAGE_END", l.message)>>)
    ELSE Upgrade([l EXCEPT !.used = Drawn(l)],
                 <<Opened(Empty, Reasoning(l)), Renamed(document, "REASONING_MESSAGE_END", Reasoning(l))>>)
\* The end of the block closes a message that was left open.
ThinkingEnd(l, document) ==
    Upgrade([l EXCEPT !.reasoning = None, !.message = None, !.used = Drawn(l)],
            (IF l.message = None THEN <<>> ELSE <<Renamed(Empty, "REASONING_MESSAGE_END", l.message)>>)
                \o <<Renamed(document, "REASONING_END", Reasoning(l))>>)

TagOf(document) ==
    IF Is("members", document) /\ "type" \in DOMAIN document.members /\ Is("text", document.members["type"])
    THEN document.members["type"].text ELSE None
Retired == {"THINKING_START", "THINKING_TEXT_MESSAGE_START", "THINKING_TEXT_MESSAGE_CONTENT",
            "THINKING_TEXT_MESSAGE_END", "THINKING_END"}
\* A retired document has to fit its retired shape first: only content has a required field.
RetiredFits(document) ==
    TagOf(document) = "THINKING_TEXT_MESSAGE_CONTENT" => "delta" \in DOMAIN document.members /\ Is("text", document.members["delta"])
\* Legacy::translate.
Translate(l, document) ==
    CASE TagOf(document) = "THINKING_START" -> ThinkingStart(l, document)
      [] TagOf(document) = "THINKING_TEXT_MESSAGE_START" -> TextStart(l, document)
      [] TagOf(document) = "THINKING_TEXT_MESSAGE_CONTENT" -> TextContent(l, document)
      [] TagOf(document) = "THINKING_TEXT_MESSAGE_END" -> TextEnd(l, document)
      [] TagOf(document) = "THINKING_END" -> ThinkingEnd(l, document)
      [] TagOf(document) = "RUN_STARTED" -> Upgrade([l EXCEPT !.reasoning = None, !.message = None], <<document>>)
      [] OTHER -> Upgrade(l, <<document>>)

----------------------------------------------------------------------------
(* decode, of a document that has been enforced.                             *)
MessageOf(document) == document.members["messageId"].text
OwnersIn(messages) ==
    [NoOwners EXCEPT !["message"] = [i \in Ids |-> IF \E n \in DOMAIN messages : messages[n].members["id"].text = i THEN None ELSE Absent]]
Decoded(document) ==
    CASE TagOf(document) = "RUN_STARTED" -> RunStarted(NoOwners)
      [] TagOf(document) = "RUN_FINISHED" -> RunFinished
      [] TagOf(document) = "RUN_ERROR" -> RunError
      [] TagOf(document) = "TEXT_MESSAGE_START" -> Start("text", MessageOf(document), None)
      [] TagOf(document) = "TEXT_MESSAGE_CONTENT" -> Content("text", MessageOf(document), None)
      [] TagOf(document) = "TEXT_MESSAGE_END" -> End("text", MessageOf(document), None)
      [] TagOf(document) = "REASONING_START" -> Start("block", MessageOf(document), None)
      [] TagOf(document) = "REASONING_MESSAGE_START" -> Start("reasoning", MessageOf(document), None)
      [] TagOf(document) = "REASONING_MESSAGE_CONTENT" -> Content("reasoning", MessageOf(document), None)
      [] TagOf(document) = "REASONING_MESSAGE_END" -> End("reasoning", MessageOf(document), None)
      [] TagOf(document) = "REASONING_END" -> End("block", MessageOf(document), None)
      [] TagOf(document) = "MESSAGES_SNAPSHOT" -> MessagesSnapshot(OwnersIn(document.members["messages"].items))
      [] TagOf(document) = "STATE_DELTA" -> StateDelta(document.members["delta"])
=============================================================================
