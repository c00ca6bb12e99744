---------------------------- MODULE StreamParser ----------------------------
(***************************************************************************)
(* The incremental parser of a model's A2UI output                           *)
(* (crates/ag-ui-a2ui/src/toolkit/streaming.rs) and the renderer it feeds.   *)
(*                                                                         *)
(* The output is a sequence of tokens: a message opens, its version, its      *)
(* surface, the pieces of its components or of its value arrive, it closes.  *)
(* A chunk may end after any token.  A piece says what healing the fragment   *)
(* makes of it if the chunk ends there; the characters, and the strings that  *)
(* are not cut, are left out.  Validation is on, and the root is Root.        *)
(***************************************************************************)
EXTENDS Validator

CONSTANTS
    Responses,      \* outputs of the model: sequences of Sent messages
    Catalogs        \* the catalogs a parser may be made for

VARIABLES
    response,       \* what the model is writing
    catalog,        \* the parser's catalog
    at,             \* tokens read so far
    parser,         \* the state of the parser
    screen,         \* the renderer: a SurfaceStore fed with every part
    refused         \* whether the renderer refused one
vars == <<response, catalog, at, parser, screen, refused>>

----------------------------------------------------------------------------
(* The wire: what healing sees of each component and of each value.          *)

Piece(c, open, empty) == [component |-> c, open |-> open, empty |-> empty]
Bare(c) == [c EXCEPT !.children = <<>>, !.reads = {}, !.props = <<>>]
IsList(c) == c.children # <<>> /\ \A n \in DOMAIN c.children : c.children[n].at = "children" /\ ~IsTemplate(c.children[n])
HasTemplate(c) == c.children # <<>> /\ IsTemplate(c.children[1])
Growing(c) ==
    CASE IsList(c) -> [k \in DOMAIN c.children |-> Piece(WithChildren(c, SubSeq(c.children, 1, k - 1)), "children", FALSE)]
      [] HasTemplate(c) -> <<Piece(Bare(c), None, TRUE),
                             Piece(WithChildren(c, <<Child("children", c.children[1].to)>>), None, FALSE)>>
      [] OTHER -> <<>>
Pieces(c) == <<Piece(Bare(c), None, FALSE)>> \o Growing(c)

Token(kind, what) == [kind |-> kind, what |-> what]
TokensOf(kind, pieces) == [n \in DOMAIN pieces |-> Token(kind, pieces[n])]
ComponentTokens(c) == TokensOf("piece", Pieces(c)) \o <<Token("component", c)>>

\* A value arrives as the trees it grows through; a path may come before it or after.
Sent(message, first, values) == [message |-> message, first |-> first, values |-> values]
Contents(sent) ==
    CASE sent.message.operation.op = "updateComponents" ->
           FlattenSeq([n \in DOMAIN sent.message.operation.components |->
                          ComponentTokens(sent.message.operation.components[n])])
      [] sent.message.operation.op = "updateDataModel" -> TokensOf("value", sent.values)
      [] OTHER -> <<>>
Path(sent) ==
    IF sent.message.operation.op = "updateDataModel" THEN <<Token("path", sent.message.operation.path)>> ELSE <<>>
Version(sent) == <<Token("version", sent.message.version)>>
Surface(sent) == <<Token("surface", sent.message.operation.surface)>>
Body(sent) ==
    IF "fields" \in sent.first THEN Surface(sent) \o Path(sent) \o Contents(sent)
    ELSE Contents(sent) \o Path(sent) \o Surface(sent)
Arrival(sent) ==
    <<Token("open", None)>>
    \o (IF "version" \in sent.first THEN Version(sent) ELSE <<>>)
    \o <<Token("payload", sent.message.operation.op)>> \o Body(sent)
    \o (IF "version" \in sent.first THEN <<>> ELSE Version(sent))
    \o <<Token("close", sent.message)>>
Stream(sents) == FlattenSeq([n \in DOMAIN sents |-> Arrival(sents[n])])

----------------------------------------------------------------------------
(* The parser.                                                              *)

Fresh ==
    [seen |-> <<>>,             \* seen_components: by surface, by id
     models |-> <<>>,           \* yielded_data_model: the last update of a surface
     deleted |-> {},            \* deleted_surfaces
     ids |-> <<>>,              \* yielded_ids
     contents |-> <<>>,         \* yielded_contents
     started |-> {},            \* yielded_start_messages and yielded_surfaces
     surface |-> None,          \* surface_id
     active |-> None,           \* active_msg_type
     buffered |-> None,         \* buffered_start_message
     inMessage |-> FALSE,       \* a message is open, with
     named |-> None,            \* message_surface_id
     version |-> None,          \* message_version
     path |-> None, value |-> None, piece |-> None,     \* what healing would see
     dirty |-> FALSE,           \* topology_dirty
     parts |-> <<>>,            \* what this chunk has completed
     failed |-> FALSE]

Known(map, s, absent) == IF s \in DOMAIN map THEN map[s] ELSE absent
Forget(map, s) == Restrict(map, DOMAIN map \ {s})
Seen(p) == Known(p.seen, p.surface, <<>>)

StreamOptions == Piecemeal(FullSurface)
Checks(components) ==
    {e \in ValidateJson(CatalogOf[catalog], StreamOptions, components) : e.code # "unresolved_binding"} = {}
Valid(message) ==
    /\ EnvelopeErrors(message, 1) = {}
    /\ message.operation.op = "updateComponents" => Checks(message.operation.components)

\* deduplicate_data_model
Repeats(p, operation) ==
    /\ operation.op = "updateDataModel"
    /\ operation.surface \in DOMAIN p.models
    /\ p.models[operation.surface] = <<operation.path, operation.value>>
Remembered(p, operation) ==
    IF operation.op = "updateDataModel"
    THEN [p EXCEPT !.models = Set(@, operation.surface, <<operation.path, operation.value>>)] ELSE p
Yield(p, operation) ==
    IF Repeats(p, operation) THEN p ELSE [Remembered(p, operation) EXCEPT !.parts = Append(@, operation)]

(* analyze_topology: what can be reached from the root, and loops.           *)

Refs(c) == Range(References(CatalogOf[catalog], c))
Linked(seen, id) == IF id \in DOMAIN seen THEN {ref.to : ref \in Refs(seen[id])} ELSE {}
Spread(seen, ids) == ids \cup UNION {Linked(seen, id) : id \in ids}
Under(seen, ids) == FoldSet(LAMBDA id, found : Spread(seen, found), ids, DOMAIN seen)
Reachable(seen) == IF Root \in DOMAIN seen THEN Under(seen, {Root}) \cap DOMAIN seen ELSE {}
SelfReferring(seen) == \E id \in DOMAIN seen : id \in Linked(seen, id)
Looping(seen) == \E id \in Reachable(seen) : id \in Under(seen, Linked(seen, id))

(* Placeholders stand for children that have not arrived, and for the first  *)
(* child of a list that is still open.                                       *)

Base(key) == IF key.field = None THEN "loading_" \o key.target ELSE "loading_" \o key.field \o "_" \o key.target
FirstFree(base, taken) ==
    LET candidates == <<base, base \o "_1", base \o "_2">>
    IN  candidates[Min({n \in DOMAIN candidates : candidates[n] \notin taken})]
Holder(key, names, seen) == FirstFree(Base(key), DOMAIN seen \cup Range(names))
Names(keys, seen) ==
    FoldSet(LAMBDA key, names : names @@ (key :> Holder(key, names, seen)), <<>>, keys)

Awaiting(target) == [target |-> target, field |-> None]
OpenIn(p, c) ==
    /\ p.piece # None /\ p.piece.open # None /\ p.piece.component.id = c.id
    /\ c.children = <<>> /\ Defines(CatalogOf[catalog], c.type)
    /\ Follows(CatalogOf[catalog].components[c.type], Child(p.piece.open, c.id))
Wanted(p, seen) ==
    UNION {{Awaiting(ref.to) : ref \in {r \in Refs(seen[id]) : r.to \notin DOMAIN seen}} : id \in Reachable(seen)}
    \cup {[target |-> id, field |-> p.piece.open] : id \in {i \in Reachable(seen) : OpenIn(p, seen[i])}}
\* Fault: children that have not arrived stay as they are named.
RewrittenAsIs(p, c, seen, names) == c
Rewritten(p, c, seen, names) ==
    CASE ~Defines(CatalogOf[catalog], c.type) -> c
      [] OpenIn(p, c) ->
           WithChildren(c, <<Child(p.piece.open, names[[target |-> c.id, field |-> p.piece.open]])>>)
      [] OTHER -> [c EXCEPT !.children =
                      [n \in DOMAIN @ |-> IF @[n].to \in DOMAIN seen \/ @[n] \notin Refs(c) THEN @[n]
                                          ELSE [@[n] EXCEPT !.to = names[Awaiting(@)]]]]
StandIn(id) == With(Component(id, "Row"), [children |-> "array"])
Processed(p, seen, names) ==
    [n \in 1..Cardinality(Reachable(seen)) |-> Rewritten(p, seen[SetToSeq(Reachable(seen))[n]], seen, names)]
    \o [n \in 1..Cardinality(Range(names)) |-> StandIn(SetToSeq(Range(names))[n])]

(* yield_reachable.                                                         *)

MayYield(p) ==
    /\ p.active # None /\ p.surface # None
    /\ p.surface \in p.started \/ p.buffered # None
    /\ p.surface \notin p.deleted
    /\ p.version \in Versions
    /\ p.surface \in DOMAIN p.seen
Shown(p, c) == c.id \in DOMAIN Known(p.contents, p.surface, <<>>) /\ p.contents[p.surface][c.id] = c
\* Fault: what was emitted before is not compared with what it has become.
NewOnly(p, components) == Reachable(Seen(p)) \ Known(p.ids, p.surface, {}) # {}
News(p, components) ==
    \/ Reachable(Seen(p)) \ Known(p.ids, p.surface, {}) # {}
    \/ \E n \in DOMAIN components : ~Shown(p, components[n])
\* A start that was buffered goes out before the first components of its surface.
Started(p) ==
    IF p.buffered = None \/ p.surface \in p.started THEN p
    ELSE [Yield(p, p.buffered) EXCEPT !.started = @ \cup {p.surface}]
Emitted(p, components) ==
    [Yield(p, UpdateComponents(p.surface, components)) EXCEPT
        !.ids = Set(@, p.surface, Known(@, p.surface, {}) \cup Reachable(Seen(p))),
        !.contents = Set(@, p.surface, [id \in Ids(components) |-> components[FirstOf(components, id)]]
                                        @@ Known(@, p.surface, <<>>))]
\* A tree that does not hold up is dropped; the next chunk usually completes it.
Offered(p, components) ==
    CASE ~News(p, components) -> p
      [] News(p, components) /\ ~Checks(components) -> Started(p)
      [] OTHER -> Emitted(Started(p), components)
YieldReachable(p) ==
    CASE ~MayYield(p) -> p
      [] MayYield(p) /\ (SelfReferring(Seen(p)) \/ Looping(Seen(p))) -> [p EXCEPT !.failed = TRUE]
      [] OTHER -> Offered(p, Processed(p, Seen(p), Names(Wanted(p, Seen(p)), Seen(p))))

\* handle_partial_component
Cached(p, c, empty) ==
    IF p.named = None \/ empty THEN p
    ELSE [p EXCEPT !.surface = p.named, !.dirty = TRUE,
                   !.seen = Set(@, p.named, Set(Known(@, p.named, <<>>), c.id, c))]

----------------------------------------------------------------------------
(* Complete messages: handle_complete_object.                               *)

CompleteCreate(p, operation) ==
    LET s == operation.surface
        begun == IF s \in p.started THEN [p EXCEPT !.buffered = operation]
                 ELSE [Yield(p, operation) EXCEPT !.started = @ \cup {s}, !.buffered = None]
    IN  YieldReachable([begun EXCEPT !.active = "createSurface", !.deleted = @ \ {s}])
Merged(seen, components) ==
    [id \in Ids(components) |-> components[FirstOf(components, id)]] @@ seen
CompleteComponents(p, operation) ==
    YieldReachable([p EXCEPT !.active = "updateComponents",
                             !.seen = Set(@, operation.surface,
                                           Merged(Known(@, operation.surface, <<>>), operation.components))])
\* Fault: the components of the surface that is gone are kept.
DeletedOutside(p, s) ==
    [p EXCEPT !.ids = Forget(@, s), !.models = Forget(@, s), !.contents = Forget(@, s),
              !.started = @ \ {s}, !.deleted = @ \cup {s}]
Deleted(p, s) ==
    [p EXCEPT !.seen = Forget(@, s), !.ids = Forget(@, s), !.models = Forget(@, s), !.contents = Forget(@, s),
              !.started = @ \ {s}, !.deleted = @ \cup {s}]
\* A surface that was never sent cannot be deleted at the renderer.
CompleteDelete(p, operation) ==
    IF operation.surface \in p.started THEN Yield(Deleted(p, operation.surface), operation) ELSE p
Complete(p, operation) ==
    CASE operation.op = "createSurface" -> CompleteCreate(p, operation)
      [] operation.op = "updateComponents" -> CompleteComponents(p, operation)
      [] operation.op = "deleteSurface" -> CompleteDelete(p, operation)
      [] operation.op = "updateDataModel" -> Yield(p, operation)
Received(p, message) ==
    IF ~Valid(message) THEN [p EXCEPT !.failed = TRUE]
    ELSE Complete([p EXCEPT !.surface = message.operation.surface, !.version = message.version], message.operation)
Quiet(p) == [p EXCEPT !.inMessage = FALSE, !.path = None, !.value = None, !.piece = None]

(* One token.                                                               *)

Read(p, token) ==
    CASE token.kind = "open" -> [p EXCEPT !.inMessage = TRUE, !.named = None, !.version = None]
      [] token.kind = "version" -> [p EXCEPT !.version = token.what]
      [] token.kind = "payload" ->
           [p EXCEPT !.active = IF token.what \in {"createSurface", "updateComponents"} THEN token.what ELSE @]
      [] token.kind = "surface" -> [p EXCEPT !.named = token.what, !.surface = token.what]
      [] token.kind = "path" -> [p EXCEPT !.path = token.what]
      [] token.kind = "value" -> [p EXCEPT !.value = token.what]
      [] token.kind = "piece" -> [p EXCEPT !.piece = token.what]
      [] token.kind = "component" -> Cached([p EXCEPT !.piece = None], token.what, FALSE)
      [] token.kind = "close" -> Received(Quiet(p), token.what)

(* The end of a chunk.                                                      *)

SniffComponent(p) == IF p.piece = None THEN p ELSE Cached(p, p.piece.component, p.piece.empty)
\* An object that has grown is sent whole, for an update replaces what it names.
SniffDataModel(p) ==
    IF /\ p.inMessage /\ p.version \in Versions /\ p.named # None
       /\ p.path # None /\ p.value # None /\ p.value[<<>>] = "object" /\ Cardinality(DOMAIN p.value) > 1
    THEN Yield(p, UpdateDataModel(p.named, p.path, p.value)) ELSE p
Settled(p) == IF p.dirty THEN [YieldReachable(p) EXCEPT !.dirty = FALSE] ELSE p
EndOfChunk(p) == Settled(SniffDataModel(SniffComponent(p)))

----------------------------------------------------------------------------
Init ==
    /\ response \in Responses /\ catalog \in Catalogs
    /\ at = 0 /\ parser = Fresh
    /\ screen = EmptyStore /\ refused = FALSE

\* One more token of the chunk being read.
Scan ==
    /\ ~parser.failed /\ at < Len(Stream(response))
    /\ at' = at + 1
    /\ parser' = Read(parser, Stream(response)[at'])
    /\ UNCHANGED <<response, catalog, screen, refused>>

\* process_chunk returns: its parts reach the renderer, or are lost with its error.
Return ==
    /\ ~parser.failed
    /\ \E p \in {EndOfChunk(parser)} :
           /\ p # parser \/ p.parts # <<>>
           /\ parser' = [p EXCEPT !.parts = <<>>]
           /\ IF p.failed THEN UNCHANGED <<screen, refused>>
              ELSE /\ screen' = Replay(screen, p.parts).store
                   /\ refused' = (refused \/ ~Replay(screen, p.parts).ok)
    /\ UNCHANGED <<response, catalog, at>>

Next == Scan \/ Return
Spec == Init /\ [][Next]_vars

----------------------------------------------------------------------------
(* What the stream's consumer relies on.                                    *)

Messages == [n \in DOMAIN response |-> response[n].message]
Operations == [n \in DOMAIN response |-> response[n].message.operation]
\* The response as a whole is one the validator accepts.
Sound == ValidateMessages(CatalogOf[catalog], FullSurface, Messages) = {}

\* What a renderer draws of a list of components, starting from the root.
ById(components) == [id \in Ids(components) |-> components[FirstOf(components, id)]]
DrawnOf(components) == {ById(components)[id] : id \in Reachable(ById(components))}

\* Whatever has arrived can be drawn: no component on screen, at any moment,
\* refers to one that is not there (streaming.rs:39-43, 685).
DrawnWhole ==
    \A s \in LiveIn(screen) : \A c \in DrawnOf(screen[s].components) :
        {ref.to : ref \in Refs(c)} \subseteq Ids(screen[s].components)

\* Of a sound response the renderer refuses nothing, and once all of it has
\* arrived it shows what replaying the response at once shows, whatever the cuts
\* (streaming.rs:274).
Over == at = Len(Stream(response)) /\ ~parser.failed /\ EndOfChunk(parser) = parser /\ parser.parts = <<>>
Same(store) ==
    /\ LiveIn(screen) = LiveIn(store)
    /\ \A s \in LiveIn(store) :
           /\ DrawnOf(screen[s].components) = DrawnOf(store[s].components)
           /\ screen[s].model = store[s].model
RenderedIsReplayed ==
    /\ Sound => ~refused
    /\ Over /\ Sound => Same(Replay(EmptyStore, Operations).store)

\* The parser fails only on output no further input could rescue: never on a
\* response that is sound (streaming.rs:50-54, 791-795).
FailsOnlyOnBad == parser.failed => ~Sound
=============================================================================
