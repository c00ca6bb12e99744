----------------------------- MODULE DataModel -----------------------------
(***************************************************************************)
(* The local A2UI data model (crates/ag-ui-a2ui/src/model.rs) and the       *)
(* bindings that read it (binding.rs).                                      *)
(*                                                                         *)
(* A model is a tree, written as a function from the paths of its nodes to  *)
(* what stands there: an object, an array, null, an undefined slot, or a    *)
(* scalar.  A path is a sequence of tokens; JSON Pointer text, with its      *)
(* escapes, is left out.                                                    *)
(***************************************************************************)
EXTENDS Naturals, Sequences, SequencesExt, FiniteSets, FiniteSetsExt, Functions

CONSTANTS
    Keys,               \* tokens that are not array indices
    Scalars,            \* booleans, numbers, strings
    ArrayGrowthLimit    \* DEFAULT_ARRAY_GROWTH_LIMIT

Indices == <<"0", "1", "2">>    \* the canonical array indices, in order
Tokens == Keys \cup Range(Indices)
IsNumeric(token) == token \in Range(Indices)
IndexOf(token) == CHOOSE k \in DOMAIN Indices : Indices[k] = token

ASSUME DataModelAssumption ==
    /\ Keys \cap Range(Indices) = {}
    /\ ArrayGrowthLimit \in Nat

Undefined == "undefined"
Null == "null"
Kinds == {"object", "array", Null, Undefined} \cup Scalars

Leaf(kind) == (<<>> :> kind)
NoModel == Leaf("object")                       \* DataModel::default
Removal == <<>>                                 \* DataModelUpdate::Remove: no tree

Below(tree, path) == {p \in DOMAIN tree : IsPrefix(path, p)}
Children(tree, path) == {p \in DOMAIN tree : Len(p) = Len(path) + 1 /\ IsPrefix(path, p)}
Height(tree) == Max({Len(p) : p \in DOMAIN tree})

\* The tree with what stands at `path`, and below it, replaced by `sub`.
Put(tree, path, sub) ==
    LET kept == DOMAIN tree \ Below(tree, path)
        grafted == {path \o p : p \in DOMAIN sub}
    IN  [p \in kept \cup grafted |->
            IF p \in kept THEN tree[p] ELSE sub[SubSeq(p, Len(path) + 1, Len(p))]]
Drop(tree, path) == Restrict(tree, DOMAIN tree \ Below(tree, path))

----------------------------------------------------------------------------
(* Applying one update.  A walk `w` goes down the path token by token: the  *)
(* tree so far, the array slots it may still add, and whether it failed.    *)

Container(token) == IF IsNumeric(token) THEN "array" ELSE "object"
Opened(tree, path, kind) == IF tree[path] \in {Undefined, Null} THEN [tree EXCEPT ![path] = kind] ELSE tree

\* The slots an array is extended by for an index beyond its end.
Slots(tree, path, token) ==
    {path \o <<Indices[k]>> : k \in (Cardinality(Children(tree, path)) + 1)..IndexOf(token)}
WithUndefined(tree, paths) == [p \in DOMAIN tree \cup paths |-> IF p \in DOMAIN tree THEN tree[p] ELSE Undefined]

StepInto(w, path, token) ==
    CASE w.tree[path] = "object" ->
           [w EXCEPT !.tree = WithUndefined(w.tree, {path \o <<token>>})]
      [] w.tree[path] = "array" /\ IsNumeric(token)
         /\ Cardinality(Slots(w.tree, path, token)) <= w.slots ->
           [w EXCEPT !.tree = WithUndefined(w.tree, Slots(w.tree, path, token)),
                     !.slots = w.slots - Cardinality(Slots(w.tree, path, token))]
      [] OTHER -> [w EXCEPT !.failed = TRUE]

Walked(tree, path, limit) ==
    FoldLeft(LAMBDA w, n :
                 IF w.failed THEN w
                 ELSE StepInto([w EXCEPT !.tree = Opened(w.tree, SubSeq(path, 1, n - 1), Container(path[n]))],
                               SubSeq(path, 1, n - 1), path[n]),
             [tree |-> IF path = <<>> THEN tree ELSE Opened(tree, <<>>, "object"),
              slots |-> limit, failed |-> FALSE],
             [n \in DOMAIN path |-> n])

\* A field of an object is removed, a slot of an array stays, undefined.
IsField(tree, path) == path # <<>> /\ tree[Front(path)] = "object"
Written(tree, path, value) ==
    CASE value # Removal -> Put(tree, path, value)
      [] value = Removal /\ IsField(tree, path) -> Drop(tree, path)
      [] OTHER -> Put(tree, path, Leaf(Undefined))

\* An update that fails leaves the model as it was.
Update(tree, path, value) ==
    LET w == Walked(tree, path, ArrayGrowthLimit)
    IN  IF w.failed THEN [ok |-> FALSE, tree |-> tree]
        ELSE [ok |-> TRUE, tree |-> Written(w.tree, path, value)]

\* DataModel::lookup: missing and undefined are both Undefined; a token that is
\* no index fails where it meets an array.
Misindexed(tree, path) ==
    \E n \in DOMAIN path : /\ SubSeq(path, 1, n - 1) \in DOMAIN tree
                           /\ tree[SubSeq(path, 1, n - 1)] = "array"
                           /\ ~IsNumeric(path[n])
Lookup(tree, path) == IF path \in DOMAIN tree THEN tree[path] ELSE Undefined
IsExact(tree) == Undefined \notin Range(tree)   \* to_json succeeds

----------------------------------------------------------------------------
(* Bindings: a path is absolute or relative to the item of the template the *)
(* component stands in.                                                     *)

Absolute(path) == [absolute |-> TRUE, path |-> path]
Relative(path) == [absolute |-> FALSE, path |-> path]

\* A scope is the path of its item, or NoScope where there is no model or the
\* collection has no items.
NoScope == <<"no scope">>
Scoped(scope, ref) == IF ref.absolute THEN ref.path ELSE scope \o ref.path
Items(tree, path) ==
    IF Lookup(tree, path) # "array" THEN {}
    ELSE {p \in Children(tree, path) : tree[p] # Undefined}
=============================================================================
