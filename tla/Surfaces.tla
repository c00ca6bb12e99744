------------------------------ MODULE Surfaces ------------------------------
(***************************************************************************)
(* A2UI messages (crates/ag-ui-a2ui/src/message.rs) and the store that       *)
(* replays them (surface.rs): the state of every surface one renderer shows. *)
(*                                                                         *)
(* A component keeps what the validator reads of it: which properties it has  *)
(* and the kind of JSON in each, its children by reference and its bindings.  *)
(* Themes and the values of its properties are left out.                     *)
(***************************************************************************)
EXTENDS DataModel

CONSTANTS
    SurfaceIds,
    ComponentIds,       \* the ids components may have
    ComponentTypes,     \* every type name that may be sent
    CatalogIds,
    None                \* an absent value, different from every other

Versions == {"v0.9", "v0.9.1"}

\* A reference to another component, at the property `at`; a template's
\* repeats its target for every item of the collection `each`.
Child(at, id) == [at |-> at, to |-> id, each |-> None]
Template(at, id, ref) == [at |-> at, to |-> id, each |-> ref]
IsTemplate(ref) == ref.each # None

\* `props`: the kind of JSON each property holds; `depth` and `calls`: how deep
\* its values and its function calls nest.
Component(id, type) ==
    [id |-> id, type |-> type, props |-> <<>>, children |-> <<>>, reads |-> {}, depth |-> 0, calls |-> 0]
With(c, props) == [c EXCEPT !.props = props @@ @]
\* A reference stands in a string, a list of them in an array or a template.
Shape(ref) == IF IsTemplate(ref) THEN "template" ELSE IF ref.at = "children" THEN "array" ELSE "string"
ShapeAt(refs, at) == Shape(refs[Min({n \in DOMAIN refs : refs[n].at = at})])
WithChildren(c, refs) ==
    [c EXCEPT !.children = refs, !.props = @ @@ [at \in {ref.at : ref \in Range(refs)} |-> ShapeAt(refs, at)]]
Reading(c, refs) == [With(c, [text |-> "binding"]) EXCEPT !.reads = refs]

CreateSurface(s, catalog, echo) == [op |-> "createSurface", surface |-> s, catalog |-> catalog, echo |-> echo]
UpdateComponents(s, components) == [op |-> "updateComponents", surface |-> s, components |-> components]
UpdateDataModel(s, path, value) == [op |-> "updateDataModel", surface |-> s, path |-> path, value |-> value]
DeleteSurface(s) == [op |-> "deleteSurface", surface |-> s]

----------------------------------------------------------------------------
(* The wire form of an operation: the version it declares, how many payload  *)
(* keys it has, and whether a field of the payload is missing or mistyped.   *)

Wire(operation) == [version |-> "v0.9", payloads |-> 1, lacks |-> FALSE, mistyped |-> FALSE, operation |-> operation]
Decodes(message) ==
    /\ message.version \in Versions
    /\ message.payloads = 1
    /\ ~message.lacks /\ ~message.mistyped

----------------------------------------------------------------------------
(* SurfaceStore::apply.  A store is a function from the surfaces it has seen *)
(* to their states, the deleted ones among them.                             *)

EmptyStore == <<>>
Created(create) ==
    [catalog |-> create.catalog, echo |-> create.echo, components |-> <<>>, model |-> NoModel, deleted |-> FALSE]
IsLive(store, s) == s \in DOMAIN store /\ ~store[s].deleted
LiveIn(store) == {s \in DOMAIN store : IsLive(store, s)}
Set(store, s, state) == [t \in DOMAIN store \cup {s} |-> IF t = s THEN state ELSE store[t]]

Ids(components) == {components[n].id : n \in DOMAIN components}
\* Replaced where it stands, or appended.
Placed(components, c) ==
    IF c.id \in Ids(components)
    THEN [n \in DOMAIN components |-> IF components[n].id = c.id THEN c ELSE components[n]]
    ELSE Append(components, c)

Updates(state, operation) ==
    CASE operation.op = "updateComponents" ->
           [ok |-> operation.components # <<>> /\ Cardinality(Ids(operation.components)) = Len(operation.components),
            state |-> [state EXCEPT !.components = FoldLeft(Placed, state.components, operation.components)]]
      [] operation.op = "updateDataModel" ->
           [ok |-> Update(state.model, operation.path, operation.value).ok,
            state |-> [state EXCEPT !.model = Update(state.model, operation.path, operation.value).tree]]
      [] operation.op = "deleteSurface" ->
           [ok |-> TRUE,
            state |-> [state EXCEPT !.deleted = TRUE, !.components = <<>>, !.model = NoModel]]

\* One operation is applied whole or not at all.
Changed(store, s, result) ==
    IF result.ok THEN [ok |-> TRUE, store |-> Set(store, s, result.state)] ELSE [ok |-> FALSE, store |-> store]
ApplyOperation(store, operation) ==
    CASE operation.op = "createSurface" /\ ~IsLive(store, operation.surface) ->
           [ok |-> TRUE, store |-> Set(store, operation.surface, Created(operation))]
      [] operation.op # "createSurface" /\ IsLive(store, operation.surface) ->
           Changed(store, operation.surface, Updates(store[operation.surface], operation))
      [] OTHER -> [ok |-> FALSE, store |-> store]

\* Operations in order, up to the first that is refused: what came before stays.
Replay(store, operations) ==
    FoldLeft(LAMBDA r, operation : IF r.ok THEN ApplyOperation(r.store, operation) ELSE r,
             [ok |-> TRUE, store |-> store], operations)
=============================================================================
