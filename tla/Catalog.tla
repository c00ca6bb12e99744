------------------------------ MODULE Catalog ------------------------------
(***************************************************************************)
(* Component catalogs (crates/ag-ui-a2ui/src/catalog.rs): which types a      *)
(* surface may use, the properties each takes, which of those hold component *)
(* ids, and the type of each, read loosely from a JSON Schema document.      *)
(*                                                                         *)
(* Of a property's value only its kind of JSON is kept, of an object which of *)
(* the keys it has that matter here, of a `$ref` the name it ends in.        *)
(* Descriptions, enums and prompts are left out.                            *)
(***************************************************************************)
EXTENDS Surfaces

----------------------------------------------------------------------------
(* Values and the types a property may be pinned to (PropType).              *)

\* 2, 2.0 and 2.5; {"path"}, {"call"}, {"functionCall"}, {"componentId", "path"}.
Numbers == {"integer", "whole", "fraction"}
Objects == {"object", "binding", "call", "functionCall", "template"}
Values == {"null", "boolean", "string", "array"} \cup Numbers \cup Objects

Summary ==
    [unconstrained |-> Values, string |-> {"string"}, number |-> Numbers, integer |-> Numbers \ {"fraction"},
     boolean |-> {"boolean"}, object |-> Objects, array |-> {"array"}]
Accepts(type, value) == value \in Summary[type]
\* The renderer computes it, so its JSON says nothing of its type.
ResolvesAtRenderTime(value) == value \in {"binding", "call", "functionCall"}

----------------------------------------------------------------------------
(* Property schemas.  `type` is the set of the types named: {} where none is. *)

Schema ==
    [ref |-> None, type |-> {}, allOf |-> <<>>, oneOf |-> <<>>, anyOf |-> <<>>, items |-> None,
     properties |-> <<>>, required |-> {}, allowedParents |-> None, allowedChildren |-> None]
Ref(name) == [Schema EXCEPT !.ref = name]
Typed(types) == [Schema EXCEPT !.type = types]

Link(kind) == [kind |-> kind, keys |-> {}]
NoLink == Link("value")
IsStructural(kind) == kind # NoLink
RefKind(ref) ==
    CASE ref = "ComponentId" -> Link("ref")
      [] ref = "ChildList" -> Link("list")
      [] OTHER -> NoLink

RECURSIVE PropKind(_)
LinksAmong(schemas) == {n \in DOMAIN schemas : IsStructural(PropKind(schemas[n]))}
\* An array of ids is a list; one of objects has the keys that hold ids.
ItemsKind(items) ==
    LET keys == LinksAmong(items.properties)
    IN  CASE IsStructural(RefKind(items.ref)) -> Link("list")
          [] ~IsStructural(RefKind(items.ref)) /\ keys # {} -> [kind |-> "objects", keys |-> keys]
          [] OTHER -> NoLink
PropKind(schema) ==
    LET members == schema.allOf \o schema.oneOf \o schema.anyOf
        links == LinksAmong(members)
    IN  CASE IsStructural(RefKind(schema.ref)) -> RefKind(schema.ref)
          [] ~IsStructural(RefKind(schema.ref)) /\ links # {} -> PropKind(members[Min(links)])
          [] OTHER -> IF schema.type = {"array"} /\ schema.items # None THEN ItemsKind(schema.items) ELSE NoLink

TypeNamed(name) == IF name \in DOMAIN Summary THEN name ELSE "unconstrained"
RefType(ref) ==
    CASE ref \in {"ComponentId", "DynamicString"} -> "string"
      [] ref = "DynamicNumber" -> "number"
      [] ref = "DynamicBoolean" -> "boolean"
      [] ref = "DynamicStringList" -> "array"
      [] ref \in {"Action", "DataBinding", "AccessibilityAttributes"} -> "object"
      [] OTHER -> "unconstrained"

RECURSIVE PropType(_)
TypesOf(members) == [n \in DOMAIN members |-> PropType(members[n])]
\* Every member of an `allOf` holds, so one that states a type states it.
Stated(types) ==
    IF Range(types) \subseteq {"unconstrained"} THEN "unconstrained"
    ELSE types[Min({n \in DOMAIN types : types[n] # "unconstrained"})]
\* Fault: the first alternative that states a type pins it.
AgreedOnFirst(types) == Stated(types)
\* Alternatives pin a type only where all of them agree.
Agreed(types) == IF Cardinality(Range(types)) = 1 THEN types[1] ELSE "unconstrained"
PropType(schema) ==
    IF schema.ref # None THEN RefType(schema.ref)
    ELSE IF Cardinality(schema.type) = 1 THEN TypeNamed(CHOOSE name \in schema.type : TRUE)
    ELSE Stated(<<Stated(TypesOf(schema.allOf)), Agreed(TypesOf(schema.oneOf)), Agreed(TypesOf(schema.anyOf))>>)

----------------------------------------------------------------------------
(* Component types.                                                         *)

Prop(kind, type) == [kind |-> kind, type |-> type]
Definition(props, required) ==
    [props |-> props, required |-> required, allowedParents |-> None, allowedChildren |-> None]

\* An `allOf` chain in the order it is walked; a property named again is replaced.
RECURSIVE Walk(_)
Walk(schema) == <<schema>> \o FlattenSeq([n \in DOMAIN schema.allOf |-> Walk(schema.allOf[n])])
Own == {"component", "id"}
LastDescribing(parts, name) == parts[Max({n \in DOMAIN parts : name \in DOMAIN parts[n].properties})].properties[name]
Described(parts) == UNION {DOMAIN part.properties : part \in Range(parts)} \ Own
Required(parts) == UNION {part.required : part \in Range(parts)} \ Own
FirstStated(lists) == IF Range(lists) \subseteq {None} THEN None ELSE SelectSeq(lists, LAMBDA list : list # None)[1]
\* What is required and nowhere described is kept, for it can still be missing.
PropOf(parts, name) ==
    IF name \notin Described(parts) THEN Prop(NoLink, "unconstrained")
    ELSE Prop(PropKind(LastDescribing(parts, name)), PropType(LastDescribing(parts, name)))
DefinitionFrom(parts) ==
    [props |-> [name \in Described(parts) \cup Required(parts) |-> PropOf(parts, name)],
     required |-> Required(parts),
     allowedParents |-> FirstStated([n \in DOMAIN parts |-> parts[n].allowedParents]),
     allowedChildren |-> FirstStated([n \in DOMAIN parts |-> parts[n].allowedChildren])]

Lacks(definition, props) == definition.required \ DOMAIN props # {}
Mistyped(definition, props) ==
    \E name \in DOMAIN definition.props \cap DOMAIN props :
        /\ ~ResolvesAtRenderTime(props[name])
        /\ ~Accepts(definition.props[name].type, props[name])

\* The references a component of this type makes: what stands where its
\* definition has a link, in the shape of one.
Follows(definition, ref) ==
    /\ ref.at \in DOMAIN definition.props
    /\ IsStructural(definition.props[ref.at].kind)
    /\ definition.props[ref.at].kind = Link("ref") => ~IsTemplate(ref)

----------------------------------------------------------------------------
(* Catalogs: from a document, whose functions are a map or a list of names,  *)
(* and the one built in.                                                     *)

Loaded(components, functions) == [components |-> components, functions |-> functions]
Loadable(document) == document.id # None /\ (document.inline => IsInjective(document.functions))
FromSchema(document) ==
    IF Loadable(document)
    THEN Loaded([type \in DOMAIN document.components |-> DefinitionFrom(Walk(document.components[type]))],
                Range(document.functions))
    ELSE None
Empty == Loaded(<<>>, {})
Defines(catalog, type) == type \in DOMAIN catalog.components
References(catalog, c) ==
    IF Defines(catalog, c.type)
    THEN SelectSeq(c.children, LAMBDA ref : Follows(catalog.components[c.type], ref)) ELSE <<>>

Free == Prop(NoLink, "unconstrained")
Str == Prop(NoLink, "string")
Bool == Prop(NoLink, "boolean")
Num == Prop(NoLink, "number")
Obj == Prop(NoLink, "object")
Arr == Prop(NoLink, "array")
One == Prop(Link("ref"), "string")
Many == Prop(Link("list"), "unconstrained")
Tabbed == Prop([kind |-> "objects", keys |-> {"child"}], "array")

Display ==
    [Text |-> Definition([text |-> Str, variant |-> Str], {"text"}),
     Image |-> Definition([url |-> Str, description |-> Str, fit |-> Str, variant |-> Str], {"url"}),
     Icon |-> Definition([name |-> Free], {"name"}),
     Video |-> Definition([url |-> Str], {"url"}),
     AudioPlayer |-> Definition([url |-> Str, description |-> Str], {"url"})]
Stacked == Definition([children |-> Many, justify |-> Str, align |-> Str], {"children"})
Layout ==
    [Row |-> Stacked, Column |-> Stacked,
     List |-> Definition([children |-> Many, direction |-> Str, align |-> Str], {"children"}),
     Card |-> Definition([child |-> One], {"child"}),
     Tabs |-> Definition([tabs |-> Tabbed], {"tabs"}),
     Divider |-> Definition([axis |-> Str], {}),
     Modal |-> Definition([trigger |-> One, content |-> One], {"trigger", "content"})]
Input ==
    [Button |-> Definition([child |-> One, action |-> Obj, variant |-> Str, checks |-> Free], {"child", "action"}),
     CheckBox |-> Definition([label |-> Str, value |-> Bool, checks |-> Free], {"label", "value"}),
     TextField |->
        Definition([label |-> Str, value |-> Str, variant |-> Str, validationRegexp |-> Str, checks |-> Free], {"label"}),
     DateTimeInput |->
        Definition([value |-> Str, label |-> Str, enableDate |-> Bool, enableTime |-> Bool,
                    min |-> Str, max |-> Str, checks |-> Free], {"value"}),
     ChoicePicker |->
        Definition([options |-> Arr, value |-> Arr, label |-> Str, variant |-> Str, displayStyle |-> Str,
                    filterable |-> Bool, checks |-> Free], {"options", "value"}),
     Slider |-> Definition([value |-> Num, max |-> Num, min |-> Num, label |-> Str, checks |-> Free], {"value", "max"})]
BasicFunctions ==
    {"required", "regex", "length", "numeric", "email", "formatString", "formatNumber", "formatCurrency",
     "formatDate", "pluralize", "openUrl", "and", "or", "not"}
Basic == Loaded(Display @@ Layout @@ Input, BasicFunctions)

----------------------------------------------------------------------------
(* What a schema means, by JSON Schema and the published common types.       *)

Dynamic(literals) == literals \cup {"binding", "call"}
Meant ==
    [ComponentId |-> {"string"}, ChildList |-> {"array", "template"}, DataBinding |-> {"binding"},
     DynamicString |-> Dynamic({"string"}), DynamicNumber |-> Dynamic(Numbers),
     DynamicBoolean |-> Dynamic({"boolean"}), DynamicStringList |-> Dynamic({"array"}),
     DynamicValue |-> Dynamic({"string", "boolean", "array"} \cup Numbers),
     Action |-> {"object", "functionCall"}, AccessibilityAttributes |-> Objects]
MeantByName(name) == IF name = "null" THEN {"null"} ELSE Summary[name]
RECURSIVE Admits(_, _)
Admitting(members, value) == {n \in DOMAIN members : Admits(members[n], value)}
Admits(schema, value) ==
    /\ schema.ref \in DOMAIN Meant => value \in Meant[schema.ref]
    /\ schema.type # {} => \E name \in schema.type : value \in MeantByName(name)
    /\ Admitting(schema.allOf, value) = DOMAIN schema.allOf
    /\ schema.oneOf # <<>> => Cardinality(Admitting(schema.oneOf, value)) = 1
    /\ schema.anyOf # <<>> => Admitting(schema.anyOf, value) # {}
SchemaHolds(schema, props) ==
    \A part \in Range(Walk(schema)) :
        /\ part.required \ Own \subseteq DOMAIN props
        /\ \A name \in DOMAIN part.properties \cap DOMAIN props : Admits(part.properties[name], props[name])

\* A component its schema admits has nothing missing and nothing mistyped for the
\* catalog that was read from the schema: reading a document loosely never turns
\* into a false failure (catalog.rs:27-31).
NoFalseFailure(schema, props) ==
    SchemaHolds(schema, props) => LET definition == DefinitionFrom(Walk(schema))
                               IN  ~Lacks(definition, props) /\ ~Mistyped(definition, props)
=============================================================================
