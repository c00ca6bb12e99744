----------------------------- MODULE Enforcement -----------------------------
(***************************************************************************)
(* Schema enforcement at the boundary (crates/ag-ui/src/protocol.rs): a      *)
(* document is cut down to what the vendored schema knows before it is       *)
(* decoded.  Unknown additions go, malformed known values are errors, and a  *)
(* value that is unknown where it is required takes its container with it.   *)
(***************************************************************************)
EXTENDS Integers, FiniteSets, SequencesExt

CONSTANTS
    Unset,          \* no such keyword
    Definitions,    \* the schema: its definitions by name
    Order,          \* the property names, in the order an object map has them
    Pointers        \* the texts that are JSON Pointers

----------------------------------------------------------------------------
(* Documents, by the one field that says what they are.                      *)

Text(t) == [text |-> t]
Integer(n) == [integer |-> n]
Whole(n) == [whole |-> n]           \* an integer written as 1.0
Array(s) == [items |-> s]
Object(m) == [members |-> m]
Null == [null |-> TRUE]

Is(kind, value) == kind \in DOMAIN value

\* type_matches.
TypeMatches(value, type) ==
    CASE type = "object" -> Is("members", value) [] type = "array" -> Is("items", value)
      [] type = "string" -> Is("text", value) [] type = "integer" -> Is("integer", value) \/ Is("whole", value)

(* Shapes: the schema keywords that are enforced.                            *)
Anything == [ref |-> Unset, oneOf |-> <<>>, type |-> Unset, notNull |-> FALSE, most |-> Unset, pattern |-> FALSE, enum |-> {},
        const |-> Unset, items |-> Unset, minItems |-> 0, properties |-> <<>>, required |-> {}, allOf |-> <<>>, closed |-> FALSE]
Ref(name) == [Anything EXCEPT !.ref = name]

Resolved(shape) == IF shape.ref = Unset THEN shape ELSE Definitions[shape.ref]

\* known_properties and required_fields: of what a shape is composed of as well.
RECURSIVE Known(_)
Known(shape) ==
    FoldLeft(LAMBDA known, part : Known(Resolved(part)) @@ known, shape.properties, shape.allOf)
RECURSIVE Required(_)
Required(shape) == shape.required \cup UNION {Required(Resolved(part)) : part \in Range(shape.allOf)}

----------------------------------------------------------------------------
(* normalize.                                                               *)

Kept(value) == [verdict |-> "kept", value |-> value]
Dropped == [verdict |-> "dropped", value |-> Null]
Bad == [verdict |-> "bad", value |-> Null]

Constant(shape, name) == IF name \in DOMAIN shape.properties THEN shape.properties[name].const ELSE Unset

\* selected_branch: by a constant it carries, else by its type if that decides.
Named(value, shape) ==
    /\ Is("members", value)
    /\ \E name \in DOMAIN value.members : Constant(shape, name) = value.members[name]
ByName(value, branches) == SelectSeq(branches, LAMBDA branch : Named(value, Resolved(branch)))
ByType(value, branches) ==
    SelectSeq(branches, LAMBDA branch : Resolved(branch).type # Unset /\ TypeMatches(value, Resolved(branch).type))
Selected(value, branches) ==
    IF ByName(value, branches) # <<>> THEN Head(ByName(value, branches))
    ELSE IF Len(ByType(value, branches)) = 1 THEN Head(ByType(value, branches)) ELSE Unset
\* Fault: messages and patch operations are not looked at.
UnknownMemberByType(value, branches) ==
    /\ Is("members", value) /\ "type" \in DOMAIN value.members
    /\ \A branch \in Range(branches) : Constant(Resolved(branch), "type") # Unset
UnknownMember(value, branches) ==
    /\ Is("members", value)
    /\ \E name \in {"type", "role", "op"} \cap DOMAIN value.members :
           Is("text", value.members[name]) /\ \A branch \in Range(branches) : Constant(Resolved(branch), name) # Unset

\* What is an error in the value itself, and how an integer is written.
Misfit(value, shape) ==
    \/ shape.type # Unset /\ ~TypeMatches(value, shape.type)
    \/ shape.notNull /\ value = Null
    \/ shape.most # Unset /\ \E kind \in DOMAIN value : kind \in {"integer", "whole"} /\ value[kind] > shape.most
    \/ shape.pattern /\ Is("text", value) /\ value.text \notin Pointers
Canonical(value, shape) == IF shape.type = "integer" /\ Is("whole", value) THEN Integer(value.whole) ELSE value

RECURSIVE Normalize(_, _)
Elements(items, shape) ==
    LET enforced == [n \in DOMAIN items |-> Normalize(items[n], shape.items)]
        kept == SelectSeq(enforced, LAMBDA r : r.verdict = "kept")
    IN  IF (\E n \in DOMAIN items : enforced[n].verdict = "bad") \/ Len(kept) < shape.minItems THEN Bad
        ELSE Kept(Array([n \in DOMAIN kept |-> kept[n].value]))
\* One property of an object: an unknown value takes the object along if it is required.
Property(members, name, shape, required) ==
    IF name \notin DOMAIN members THEN IF required THEN Bad ELSE Kept(members)
    ELSE LET enforced == Normalize(members[name], shape)
         IN  CASE enforced.verdict = "kept" -> Kept([members EXCEPT ![name] = enforced.value])
               [] enforced.verdict = "dropped" /\ ~required -> Kept([other \in DOMAIN members \ {name} |-> members[other]])
               [] OTHER -> enforced
\* Fault: what the schema does not know stays.
CutOpen(members, known, closed) == members
Cut(members, known, closed) == IF closed THEN [name \in DOMAIN members \cap known |-> members[name]] ELSE members
RECURSIVE Enforcing(_, _, _, _, _)
Enforcing(members, names, known, required, closed) ==
    IF names = <<>> THEN Kept(Object(Cut(members, DOMAIN known, closed)))
    ELSE LET enforced == Property(members, Head(names), known[Head(names)], Head(names) \in required)
         IN  IF enforced.verdict = "kept" THEN Enforcing(enforced.value, Tail(names), known, required, closed) ELSE enforced
Members(members, shape) ==
    LET known == Known(shape)
        inOrder == SelectSeq(Order, LAMBDA name : name \in DOMAIN known)
    IN  Enforcing(members, inOrder, known, Required(shape), shape.closed)
Normalize(value, shape) ==
    IF shape.ref # Unset THEN
        LET enforced == Normalize(value, Resolved(shape))
        IN  IF enforced.verdict = "kept" THEN Normalize(enforced.value, [shape EXCEPT !.ref = Unset]) ELSE enforced
    ELSE IF shape.oneOf # <<>> THEN
        IF Selected(value, shape.oneOf) # Unset THEN Normalize(value, Selected(value, shape.oneOf))
        ELSE IF UnknownMember(value, shape.oneOf) THEN Dropped ELSE Bad
    ELSE IF Misfit(value, shape) THEN Bad
    ELSE IF shape.enum # {} /\ value \notin shape.enum THEN Dropped
    ELSE IF shape.const # Unset /\ value # shape.const THEN Bad
    ELSE IF Is("items", value) /\ shape.items # Unset THEN Elements(value.items, shape)
    ELSE IF Is("members", value) THEN Members(value.members, shape)
    ELSE Kept(Canonical(value, shape))

\* event.
Enforced(value) ==
    IF Is("members", value) /\ "type" \in DOMAIN value.members /\ Is("text", value.members["type"])
    THEN Normalize(value, Ref("Event")) ELSE Bad

----------------------------------------------------------------------------
(* The reference: what it is for a document to be valid, which says nothing   *)
(* of how unions are told apart, of order, or of what happens otherwise.      *)
RECURSIVE Fits(_, _)
FitsMembers(members, shape) ==
    /\ \A part \in Range(shape.allOf) : Fits(Object(members), part)
    /\ shape.required \subseteq DOMAIN members
    /\ \A name \in DOMAIN members \cap DOMAIN shape.properties : Fits(members[name], shape.properties[name])
    /\ shape.closed => DOMAIN members \subseteq DOMAIN Known(shape)
Fits(value, shape) ==
    /\ shape.ref # Unset => Fits(value, Resolved(shape))
    /\ shape.oneOf # <<>> =>
           Cardinality({n \in DOMAIN shape.oneOf : Fits(value, shape.oneOf[n])}) = 1
    /\ ~Misfit(value, shape)
    /\ shape.enum # {} => value \in shape.enum
    /\ shape.const # Unset => value = shape.const
    /\ Is("items", value) /\ shape.items # Unset =>
           Len(value.items) >= shape.minItems /\ \A n \in DOMAIN value.items : Fits(value.items[n], shape.items)
    /\ Is("members", value) => FitsMembers(value.members, shape)
=============================================================================
