----------------------------- MODULE Validator -----------------------------
(***************************************************************************)
(* The A2UI validator (crates/ag-ui-a2ui/src/validate.rs) over a catalog     *)
(* (catalog.rs): what it reports of one list of components with its model,   *)
(* of a batch of messages, and of updates to surfaces already shown.         *)
(*                                                                         *)
(* A report is the set of its errors, each a code and the index it points    *)
(* at; the wording and the finer locators are left out.  Nodes are indices   *)
(* into the list, as in the code.                                            *)
(***************************************************************************)
EXTENDS Catalog

CONSTANTS
    CatalogOf,      \* the definitions behind each catalog id
    Root,           \* ROOT_ID
    MaxDepth,       \* MAX_DEPTH
    MaxCallDepth    \* MAX_FUNCTION_CALL_DEPTH

ASSUME ValidatorAssumption ==
    /\ Root \in ComponentIds
    /\ MaxDepth \in Nat /\ MaxDepth >= 3 /\ MaxCallDepth \in Nat

NoName == ""        \* an id or a type that is missing, or not a nonempty string
Error(code, at) == [code |-> code, at |-> at]
CodesOf(errors) == {e.code : e \in errors}

FullSurface ==
    [requireRoot |-> TRUE, allowDangling |-> FALSE, checkBindings |-> TRUE, requireValues |-> FALSE]
IncrementalUpdate == [FullSurface EXCEPT !.requireRoot = FALSE, !.allowDangling = TRUE]

----------------------------------------------------------------------------
(* Identity, types and properties.                                          *)

FirstOf(nodes, id) == Min({n \in DOMAIN nodes : nodes[n].id = id})
Named(nodes) == Ids(nodes) \ {NoName}
IdentityErrors(nodes) ==
    {Error("missing_id", n) : n \in {k \in DOMAIN nodes : nodes[k].id = NoName}}
    \cup {Error("duplicate_id", n) : n \in {k \in DOMAIN nodes : nodes[k].id # NoName /\ FirstOf(nodes, nodes[k].id) # k}}

Nodes(nodes, Test(_)) == {n \in DOMAIN nodes : Test(nodes[n])}
TypeErrors(catalog, nodes) ==
    LET checked(c) == c.type # NoName /\ catalog.components # <<>>
        known(c) == checked(c) /\ Defines(catalog, c.type)
    IN  {Error("missing_component_type", n) : n \in Nodes(nodes, LAMBDA c : c.type = NoName)}
        \cup {Error("unknown_component", n) : n \in Nodes(nodes, LAMBDA c : checked(c) /\ ~Defines(catalog, c.type))}
        \cup {Error("missing_required_prop", n) :
                 n \in Nodes(nodes, LAMBDA c : known(c) /\ Lacks(catalog.components[c.type], c.props))}
        \cup {Error("type_mismatch", n) :
                 n \in Nodes(nodes, LAMBDA c : known(c) /\ Mistyped(catalog.components[c.type], c.props))}

\* A property's value sits at depth 1 of its component.
DepthErrors(nodes) ==
    {Error("max_depth_exceeded", n) : n \in Nodes(nodes, LAMBDA c : 1 + c.depth > MaxDepth \/ c.calls > MaxCallDepth)}

----------------------------------------------------------------------------
(* The graph of references: edges from a node to the first one of the id.   *)

\* Raw JSON has a component only where id and type are both there.
IsComponent(raw, c) == ~raw \/ (c.id # NoName /\ c.type # NoName)
Refers(catalog, raw, c) == IF IsComponent(raw, c) THEN References(catalog, c) ELSE <<>>
Resolves(nodes, ref) == ref.to \in Named(nodes)
Adjacency(catalog, raw, nodes) ==
    [n \in DOMAIN nodes |->
        [k \in DOMAIN SelectSeq(Refers(catalog, raw, nodes[n]), LAMBDA ref : Resolves(nodes, ref)) |->
            LET ref == SelectSeq(Refers(catalog, raw, nodes[n]), LAMBDA r : Resolves(nodes, r))[k]
            IN  [target |-> FirstOf(nodes, ref.to), at |-> ref.at, each |-> ref.each]]]
DanglingErrors(catalog, raw, nodes) ==
    {Error("unresolved_child", n) :
        n \in Nodes(nodes, LAMBDA c : \E ref \in Range(Refers(catalog, raw, c)) : ~Resolves(nodes, ref))}

(* Depth-first search, iterative as in the code.  A search `d` keeps the     *)
(* colours, the stack of nodes with the edges already taken, and its errors. *)
Finished(d) == [d EXCEPT !.colour[Last(d.stack).node] = "black", !.stack = Front(d.stack)]
Advanced(d) == [d EXCEPT !.stack[Len(d.stack)].taken = @ + 1]
Entered(d, target) ==
    [d EXCEPT !.colour[target] = "gray", !.stack = Append(@, [node |-> target, taken |-> 0])]
Condemned(d, target) ==
    [d EXCEPT !.colour[target] = "black", !.tooDeep = TRUE,
              !.errors = @ \cup IF d.tooDeep THEN {} ELSE {Error("max_depth_exceeded", Last(d.stack).node)}]
CycleTo(d, target) == {d.stack[k].node : k \in {j \in DOMAIN d.stack : \E i \in 1..j : d.stack[i].node = target}}
Closed(d, from, target) ==
    [d EXCEPT !.cycles = @ \cup {CycleTo(d, target)},
              !.errors = @ \cup IF CycleTo(d, target) \in d.cycles THEN {} ELSE {Error("child_cycle", from)}]

\* One edge to `target`, already advanced past.
Follow(d, target) ==
    CASE d.colour[target] = "white" /\ Len(d.stack) > MaxDepth -> Condemned(d, target)
      [] d.colour[target] = "white" /\ Len(d.stack) <= MaxDepth -> Entered(d, target)
      [] d.colour[target] = "gray" -> Closed(d, Last(d.stack).node, target)
      [] OTHER -> d
TakeEdge(d, edges) ==
    IF Last(d.stack).taken = Len(edges) THEN Finished(d)
    ELSE Follow(Advanced(d), edges[Last(d.stack).taken + 1].target)
Turn(d, adjacency) == IF d.stack = <<>> THEN d ELSE TakeEdge(d, adjacency[Last(d.stack).node])

\* Every turn takes an edge or finishes a node, so this many are enough.
Turns(adjacency) == FoldLeft(LAMBDA sum, edges : sum + Len(edges) + 1, 0, adjacency)
SearchFrom(d, start, adjacency) ==
    IF d.colour[start] # "white" THEN d
    ELSE FoldLeft(LAMBDA s, turn : Turn(s, adjacency), Entered(d, start), [turn \in 1..Turns(adjacency) |-> turn])
Search(adjacency) ==
    FoldLeft(LAMBDA d, start : SearchFrom(d, start, adjacency),
             [colour |-> [n \in DOMAIN adjacency |-> "white"], stack |-> <<>>, cycles |-> {},
              tooDeep |-> FALSE, errors |-> {}],
             [n \in DOMAIN adjacency |-> n])
CycleErrors(adjacency) == Search(adjacency).errors

Targets(adjacency, seen) == {adjacency[n][k].target : <<n, k>> \in
                                UNION {{<<n, k>> : k \in DOMAIN adjacency[n]} : n \in seen}}
Reached(adjacency, start) ==
    FoldLeft(LAMBDA seen, round : seen \cup Targets(adjacency, seen), start, adjacency)
Unreachable(nodes, adjacency) ==
    IF Root \notin Named(nodes) THEN {}
    ELSE {n \in DOMAIN nodes : nodes[n].id # NoName} \ Reached(adjacency, {FirstOf(nodes, Root)})

----------------------------------------------------------------------------
(* Bindings.  A component is visited in every scope it can be drawn in: that  *)
(* of its parent, or one for each item of a template, and once with none.    *)

Malformed == <<"~">>
BindingsOf(raw, c) ==
    IF ~IsComponent(raw, c) THEN {}
    ELSE {[ref |-> ref, collection |-> FALSE] : ref \in c.reads}
         \cup {[ref |-> child.each, collection |-> TRUE] : child \in {r \in Range(c.children) : IsTemplate(r)}}
SyntaxErrors(raw, nodes) ==
    {Error("unresolved_binding", n) :
        n \in Nodes(nodes, LAMBDA c : \E b \in BindingsOf(raw, c) : b.ref.path = Malformed)}

\* The scope a reference is read in: the model's root, or the visit's own.
ResolverOf(model, scope, ref) == IF ref.absolute THEN IF model = Removal THEN NoScope ELSE <<>> ELSE scope
Resolved(model, scope, ref) == Lookup(model, Scoped(scope, ref))
BadValue(options, model, scope, b) ==
    LET path == Scoped(scope, b.ref)
        found == Lookup(model, path)
    IN  \/ Misindexed(model, path)
        \/ b.collection /\ found \notin {"array", Undefined}
        \/ options.requireValues /\ found = Undefined
BadBinding(options, model, visit, b) ==
    IF ~b.ref.absolute /\ ~visit.templated THEN TRUE
    ELSE /\ ResolverOf(model, visit.scope, b.ref) # NoScope
         /\ BadValue(options, model, ResolverOf(model, visit.scope, b.ref), b)

Visit(n, scope, templated) == [node |-> n, scope |-> scope, templated |-> templated]
ItemScopes(model, scope, ref) ==
    IF ResolverOf(model, scope, ref) = NoScope THEN {}
    ELSE Items(model, Scoped(ResolverOf(model, scope, ref), ref))
Along(model, visit, edge) ==
    IF edge.each = None THEN {Visit(edge.target, visit.scope, visit.templated)}
    ELSE {Visit(edge.target, item, TRUE) : item \in ItemScopes(model, visit.scope, edge.each)}
         \cup {Visit(edge.target, NoScope, TRUE)}
Drawn(model, adjacency, visits) ==
    UNION {UNION {Along(model, v, edge) : edge \in Range(adjacency[v.node])} : v \in visits}
FirstVisits(nodes, model, adjacency) ==
    {Visit(n, IF model = Removal THEN NoScope ELSE <<>>, FALSE) :
        n \in {k \in DOMAIN nodes : nodes[k].id = Root \/ k \notin Targets(adjacency, DOMAIN nodes)}}

\* Without a cycle no way down is longer than the list of nodes.
Visits(nodes, model, adjacency) ==
    FoldLeft(LAMBDA seen, round : seen \cup Drawn(model, adjacency, seen),
             FirstVisits(nodes, model, adjacency), nodes)
BindingErrors(options, raw, nodes, model, adjacency) ==
    {Error("unresolved_binding", v.node) :
        v \in {u \in Visits(nodes, model, adjacency) :
                 \E b \in BindingsOf(raw, nodes[u.node]) :
                     b.ref.path # Malformed /\ BadBinding(options, model, u, b)}}

----------------------------------------------------------------------------
(* Validator::run, and the entry points that come down to it.               *)

GraphErrors(options, raw, nodes, model, adjacency, cycles) ==
    cycles \cup SyntaxErrors(raw, nodes)
    \cup IF options.checkBindings /\ "child_cycle" \notin CodesOf(cycles)
         THEN BindingErrors(options, raw, nodes, model, adjacency) ELSE {}
RootErrors(options, nodes) ==
    IF options.requireRoot /\ Root \notin Named(nodes) THEN {Error("no_root", 0)} ELSE {}
Connected(options, raw, nodes, model, adjacency) ==
    GraphErrors(options, raw, nodes, model, adjacency, CycleErrors(adjacency))
Run(catalog, options, raw, nodes, model) ==
    IF nodes = <<>> THEN {Error("empty_components", 0)}
    ELSE IdentityErrors(nodes) \cup TypeErrors(catalog, nodes) \cup DepthErrors(nodes)
         \cup RootErrors(options, nodes)
         \cup (IF options.allowDangling THEN {} ELSE DanglingErrors(catalog, raw, nodes))
         \cup Connected(options, raw, nodes, model, Adjacency(catalog, raw, nodes))

ValidateModel(catalog, options, components, model) == Run(catalog, options, FALSE, components, model)
ValidateJson(catalog, options, components) == Run(catalog, options, TRUE, components, Removal)

SurfaceErrors(catalog, options, store) ==
    UNION {ValidateModel(catalog, options, store[s].components, store[s].model) : s \in LiveIn(store)}

----------------------------------------------------------------------------
(* Messages: the envelope, the depth of the values they carry, then a replay. *)

EnvelopeErrors(message, n) ==
    (IF message.version = None THEN {Error("missing_field", n)}
     ELSE IF message.version \notin Versions THEN {Error("invalid_value", n)} ELSE {})
    \cup (IF message.payloads # 1 THEN {Error("invalid_value", n)} ELSE {})
    \cup (IF message.payloads = 0 \/ message.lacks THEN {Error("missing_field", n)} ELSE {})
    \cup (IF message.mistyped THEN {Error("type_mismatch", n)} ELSE {})
\* The message sits at depth 1, its payload at 2, the value of an update at 3.
ValueDepth(operation) ==
    IF operation.op = "updateDataModel" /\ operation.value # Removal THEN 3 + Height(operation.value) ELSE 3
MessageErrors(message, n) ==
    EnvelopeErrors(message, n)
    \cup IF ValueDepth(message.operation) > MaxDepth THEN {Error("max_depth_exceeded", n)} ELSE {}

Piecemeal(options) == [options EXCEPT !.requireRoot = FALSE, !.allowDangling = TRUE, !.checkBindings = FALSE]
RawErrors(catalog, options, operation) ==
    IF operation.op = "updateComponents"
    THEN ValidateJson(catalog, Piecemeal(options), operation.components) ELSE {}
Refusal(result, n) == IF result.ok THEN {} ELSE {Error("invalid_value", n)}
Replayed(catalog, options, messages) ==
    FoldLeft(LAMBDA r, n :
                 LET result == ApplyOperation(r.store, messages[n].operation)
                 IN  [store |-> result.store,
                      errors |-> r.errors \cup RawErrors(catalog, options, messages[n].operation)
                                          \cup Refusal(result, n)],
             [store |-> EmptyStore, errors |-> {}], [n \in DOMAIN messages |-> n])
Concluded(catalog, options, replay) == replay.errors \cup SurfaceErrors(catalog, options, replay.store)
ValidateMessages(catalog, options, messages) ==
    LET early == UNION {MessageErrors(messages[n], n) : n \in DOMAIN messages}
    IN  IF early # {} THEN early ELSE Concluded(catalog, options, Replayed(catalog, options, messages))

\* Fault: each update is judged by itself, not on the surface it changes.
ValidateUpdatesAlone(catalog, options, prior, operations) ==
    LET result == Replay(prior, operations)
    IN  [ok |-> result.ok /\ UNION {RawErrors(catalog, options, operations[n]) : n \in DOMAIN operations} = {},
         store |-> result.store]
\* Updates to surfaces already shown: all of them are judged afterwards.
ValidateUpdates(catalog, options, prior, operations) ==
    LET result == Replay(prior, operations)
    IN  [ok |-> result.ok /\ SurfaceErrors(catalog, options, result.store) = {}, store |-> result.store]

----------------------------------------------------------------------------
(* The catalog's own constraints on who stands under whom (composition), and *)
(* what the schema-checking validator asks of a surface (schema_validation).  *)

TypeOfId(components, id) == components[FirstOf(components, id)].type
Allows(types, type) == types = None \/ type \in types
MayHold(catalog, parent, child) ==
    /\ Allows(catalog.components[parent].allowedChildren, child)
    /\ Defines(catalog, child) => Allows(catalog.components[child].allowedParents, parent)
RootMayStand(catalog, components) ==
    \A n \in DOMAIN components :
        components[n].id = Root /\ Defines(catalog, components[n].type) =>
            Allows(catalog.components[components[n].type].allowedParents, "Surface")
Composes(catalog, components) ==
    /\ RootMayStand(catalog, components)
    /\ \A n \in DOMAIN components : \A ref \in Range(References(catalog, components[n])) :
           ref.to \in Ids(components) => MayHold(catalog, components[n].type, TypeOfId(components, ref.to))

\* The compiled JSON schema: well-formed messages, components of known types
\* with the properties the catalog asks for.
SchemaAccepts(catalog, message) ==
    /\ Decodes(message)
    /\ message.operation.op = "updateComponents" =>
           /\ message.operation.components # <<>>
           /\ \A n \in DOMAIN message.operation.components :
                  LET c == message.operation.components[n]
                      definition == catalog.components[c.type]
                  IN  /\ c.id # NoName /\ Defines(catalog, c.type)
                      /\ ~Lacks(definition, c.props) /\ ~Mistyped(definition, c.props)
SchemaAcceptsSurface(catalog, s, surface) ==
    /\ SchemaAccepts(catalog, Wire(UpdateComponents(s, surface.components)))
    /\ ValidateModel(catalog, FullSurface, surface.components, surface.model) = {}
    /\ Composes(catalog, surface.components)
=============================================================================
