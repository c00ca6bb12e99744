------------------------------ MODULE Requests ------------------------------
(***************************************************************************)
(* What an endpoint answers to a request before any event: the negotiation   *)
(* of the response (crates/ag-ui/src/encode/mod.rs, axum/respond.rs), the     *)
(* extraction of the input (axum/extract.rs), and which refusal is told       *)
(* first (axum/router.rs, axum/error.rs).                                    *)
(*                                                                         *)
(* A media type is a kind and a subtype, "*" for any; a quality is in tenths, *)
(* Unset where there is none that parses.  A body is what it holds.          *)
(***************************************************************************)
EXTENDS Enforcement, FiniteSetsExt

Media(kind, subtype) == [kind |-> kind, subtype |-> subtype]
EventStream == Media("text", "event-stream")
Supported == <<EventStream>>

\* An entry of an Accept header, or one without a slash that nothing is read of.
Entry(kind, subtype, quality) == [media |-> Media(kind, subtype), quality |-> quality]
Slashless == [media |-> Unset, quality |-> Unset]
Everything == <<Entry("*", "*", Unset)>>

----------------------------------------------------------------------------
(* Negotiation: media_type.                                                 *)

Specs(accept) == SelectSeq(IF accept = Unset THEN Everything ELSE accept, LAMBDA entry : entry.media # Unset)
QualityIn(entry) == IF entry.quality = Unset THEN 10 ELSE entry.quality
Matches(range, media) == range.kind \in {"*", media.kind} /\ range.subtype \in {"*", media.subtype}
Specificity(range, media) ==
    (IF range.kind = media.kind THEN 4 ELSE 0) + (IF range.subtype = media.subtype THEN 2 ELSE 0)
\* The quality of the most specific range that matches, the first among equals.
Matching(media, specs) == SelectSeq(specs, LAMBDA spec : Matches(spec.media, media))
\* Fault: the first range that matches decides.
QualityOfFirst(media, specs) ==
    IF Matching(media, specs) = <<>> THEN 0 ELSE QualityIn(Head(Matching(media, specs)))
QualityOf(media, specs) ==
    LET matching == Matching(media, specs)
        best == Max({Specificity(spec.media, media) : spec \in Range(matching)})
    IN  IF matching = <<>> THEN 0
        ELSE QualityIn(Head(SelectSeq(matching, LAMBDA spec : Specificity(spec.media, media) = best)))
Negotiates(accept) == \E media \in Range(Supported) : QualityOf(media, Specs(accept)) > 0

----------------------------------------------------------------------------
(* Extraction: the declared type, the bytes, then the input under the schema. *)

Request(accept, type, sent) == [accept |-> accept, type |-> type, sent |-> sent]
\* A body that is no document: over the limit, blank, or not JSON at all.
TooLarge == [bytes |-> "too large"]
NoDocuments == {TooLarge, [bytes |-> "blank"], [bytes |-> "garbled"]}

IsJson(type) == type.essence \in {"application/json", "text/json"} \/ type.suffix = "json"
TypePasses(type) == type = Unset \/ IsJson(type)
Input(sent) == Normalize(sent, Ref("RunAgentInput"))
Extracted(request) ==
    CASE ~TypePasses(request.type) -> "415"
      [] TypePasses(request.type) /\ request.sent = TooLarge -> "413"
      [] OTHER -> IF request.sent \in NoDocuments \/ Input(request.sent).verdict # "kept" THEN "400" ELSE "stream"
\* Whatever the extraction says, the negotiation is told first.
Serve(request) == IF Negotiates(request.accept) THEN Extracted(request) ELSE "406"

----------------------------------------------------------------------------
(* The reference: what HTTP asks of a server, over all ranges at once.       *)

MoreSpecific(spec, other, media) == Specificity(spec.media, media) > Specificity(other.media, media)
Deciding(media, specs) ==
    {spec \in Range(specs) : Matches(spec.media, media)
        /\ \A other \in Range(specs) : Matches(other.media, media) => ~MoreSpecific(other, spec, media)}
Welcome(accept) == \E spec \in Deciding(EventStream, Specs(accept)) : QualityIn(spec) > 0
Unwelcome(accept) ==
    ~Welcome(accept) \/ \E spec \in Deciding(EventStream, Specs(accept)) : QualityIn(spec) = 0
=============================================================================
