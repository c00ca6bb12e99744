--------------------------- MODULE MCStreamParser ---------------------------
(***************************************************************************)
(* Responses of up to five messages for one or two surfaces, with their      *)
(* fields in either order, cut anywhere; a catalog that has the stand-in     *)
(* type of placeholders and one that has not.                                *)
(***************************************************************************)
EXTENDS StreamParser

Rowless == [Basic EXCEPT !.components = Restrict(@, {"Text", "Card", "List"})]
MCCatalogOf == ("basic" :> Basic) @@ ("rowless" :> Rowless)

Text(id) == With(Component(id, "Text"), [text |-> "string"])
Said(id) == Reading(Text(id), {Absolute(<<"a">>)})
Box(id, child) == WithChildren(Component(id, "Card"), <<Child("child", child)>>)
Refer(at_, ids) == [n \in DOMAIN ids |-> Child(at_, ids[n])]
Row(id, ids) == WithChildren(Component(id, "Row"), Refer("children", ids))
Repeat(id, child) == WithChildren(Component(id, "List"), <<Template("children", child, Absolute(<<"a">>))>>)

InOrder(message, values) == Sent(message, {"version", "fields"}, values)
Plain(operation) == InOrder(Wire(operation), <<>>)
Backwards(operation) == Sent(Wire(operation), {}, <<>>)
New(s) == Plain(CreateSurface(s, "basic", None))
Draw(s, components) == Plain(UpdateComponents(s, components))
Object(keys) == Leaf("object") @@ [p \in {<<k>> : k \in keys} |-> "x"]
Load(s, path, value, values) == InOrder(Wire(UpdateDataModel(s, path, value)), values)
Grown(s) == Load(s, <<"a">>, Object({"a", "b"}), <<Leaf("object"), Object({"a"}), Object({"a", "b"})>>)
Emptied(s) == Load(s, <<"a">>, Removal, <<>>)
Gone(s) == Plain(DeleteSurface(s))

TopDown(s) == <<New(s), Draw(s, <<Row("root", <<"a", "b">>), Text("a"), Box("b", "c"), Text("c")>>)>>
BottomUp(s) == <<New(s), Draw(s, <<Text("c"), Box("b", "c"), Text("a"), Row("root", <<"a", "b">>)>>)>>

Whole ==
    {TopDown("s"), BottomUp("s"),
     <<New("s"), Draw("s", <<Box("root", "b")>>), Draw("s", <<Box("b", "c"), Text("c")>>)>>,
     <<New("s"), Backwards(UpdateComponents("s", <<Box("root", "c"), Text("c")>>)), Grown("s")>>,
     <<New("s"), Draw("s", <<Repeat("root", "c"), Text("c")>>),
       Sent(Wire(UpdateDataModel("s", <<"a">>, <<>> :> "array")), {"version"}, <<<<>> :> "array">>)>>,
     \* what was drawn is drawn anew, hung elsewhere, or a name of a placeholder
     <<New("s"), Draw("s", <<Box("root", "c"), Text("c")>>), Draw("s", <<Said("c")>>)>>,
     <<New("s"), Draw("s", <<Row("root", <<"a", "b">>), Text("a"), Text("b")>>),
       Draw("s", <<Row("root", <<"b">>)>>), Draw("s", <<Said("a")>>), Draw("s", <<Row("root", <<"a">>)>>)>>,
     <<New("s"), Draw("s", <<Row("root", <<"loading_c", "c">>), Text("loading_c"), Text("c")>>)>>,
     <<New("s"), Draw("s", <<Row("root", <<"c", "root_children">>), Text("root_children"), Text("c")>>)>>,
     \* a surface deleted and made anew, with its components the other way round
     <<New("s"), Draw("s", <<Box("root", "b"), Box("b", "c"), Text("c")>>), Gone("s"),
       New("s"), Draw("s", <<Box("root", "c"), Box("c", "b"), Text("b")>>)>>,
     <<New("s"), Grown("s"), Emptied("s"), Grown("s"), Grown("s"), Draw("s", <<Text("root")>>)>>,
     <<New("s"), Draw("s", <<Text("root")>>), Gone("s")>>,
     \* two surfaces at a time
     <<New("s"), New("s-2"), Draw("s", <<Box("root", "c")>>), Draw("s-2", <<Text("root")>>), Draw("s", <<Text("c")>>)>>}

\* Responses the validator refuses.
Refused ==
    {<<New("s"), Draw("s", <<Box("root", "root")>>)>>,
     <<New("s"), Draw("s", <<Box("root", "b"), Box("b", "root")>>)>>,
     <<New("s"), Draw("s", <<Box("root", "c")>>)>>,
     <<New("s"), Draw("s", <<Component("root", "Chart")>>)>>,
     <<New("s"), Draw("s", <<Box("root", "c"), With(Text("c"), [text |-> "fraction"])>>)>>,
     <<New("s"), New("s"), Draw("s-2", <<Text("root")>>)>>,
     <<Draw("s", <<Text("root")>>), New("s"), Gone("s-2")>>,
     <<InOrder([Wire(DeleteSurface("s")) EXCEPT !.version = None], <<>>)>>}

\* The second batch turns two components about: half of it closes a loop.
Turned == <<New("s"), Draw("s", <<Box("root", "a"), Box("a", "b"), Text("b")>>),
            Draw("s", <<Box("root", "b"), Box("b", "a"), Text("a")>>)>>

MCResponses == Whole \cup Refused

\* Property schemas two combinators deep, and components of one or two parts that
\* describe the property `p`, or only require it.
Names3 == {"ComponentId", "ChildList", "DynamicNumber", "DynamicStringList", "Action", "Elsewhere"}
Simple == {Ref(name) : name \in Names3}
          \cup {Typed(types) : types \in {{}, {"string"}, {"number"}, {"integer"}, {"boolean"}, {"string", "null"}}}
Few == {Ref("DynamicNumber"), Ref("Action"), Typed({"integer"}), Typed({"array"}), Typed({"null"})}
Combined(members) ==
    {[Schema EXCEPT !.allOf = members], [Schema EXCEPT !.oneOf = members], [Schema EXCEPT !.anyOf = members]}
Pairs(first, second) == UNION {Combined(<<a, b>>) : a \in first, b \in second}
PropSchemas == Simple \cup Pairs(Simple, Simple) \cup Pairs(Few, Pairs(Few, Few)) \cup Pairs(Pairs(Few, Few), Few)
Requiring(properties, required) == [Schema EXCEPT !.properties = properties, !.required = required]
ComponentSchemas ==
    {Requiring([p |-> schema], {"p", "id"}) : schema \in PropSchemas}
    \cup {[Requiring([id |-> Ref("ComponentId")], {"p"}) EXCEPT
             !.allOf = <<Requiring([p |-> a], {"id"}), Requiring([p |-> b], {"q"})>>] : a \in Simple, b \in Simple}
Properties == {<<>>} \cup {[p |-> value] : value \in Values} \cup {[p |-> value, q |-> "null"] : value \in Values}

\* What the schema admits, the catalog read from it has nothing against, in all of
\* these (evaluated in the initial states of one response, for it is the same in all).
ReadsLoosely ==
    at = 0 /\ response = TopDown("s") /\ catalog = "basic" =>
        \A schema \in ComponentSchemas, props \in Properties : NoFalseFailure(schema, props)

----------------------------------------------------------------------------
(* Registries of two documents and an alias; bundles of two components, two   *)
(* messages and three common types, with every way in which they may refer to *)
(* one another.  As in the official documents, a union is one of references     *)
(* and a shared type is named by its file.                                  *)
Contracts == INSTANCE Contract

Named2 == {Contracts!Document(id, content, strict) : id \in {"p", "q", None}, content \in {1, 2}, strict \in BOOLEAN}
Registries ==
    {Contracts!Insert(Contracts!Insert(<<>>, "p", first), name, second) :
        first \in Named2, second \in Named2, name \in {"p", "mine"}}
Aliases == {"p", "q", "alias", "mine"}
Renderers == {Contracts!Capabilities(ids, <<>>) : ids \in {<<"q", "p">>, <<"alias", "q">>, <<"p">>}}

Common2 == {"A", "B", "C"}
AtMostOne(names) == {{}} \cup {{name} : name \in names}
Local(names) == {Contracts!Here(name) : name \in names}
Shared(names) == {Contracts!Reference("common", name, FALSE) : name \in names}
Graphs == {[name \in Common2 |-> Local(graph[name])] : graph \in [Common2 -> AtMostOne(Common2)]}
Messages2 == Contracts!Envelope({Contracts!Branch("M"), Contracts!Branch("N")}, <<>>,
                 [M |-> Local({"X"}), N |-> Local({"X", "Y"}), X |-> {}, Y |-> Shared({"C"})])
Flat == Contracts!Envelope(None, [M |-> Shared({"A"}), N |-> Shared({"C"})], <<>>)
Cataloged(p, q) ==
    Contracts!CatalogDocument([P |-> Shared(p), Q |-> Shared(q)],
        IF p = q THEN None ELSE {Contracts!Branch("P"), Contracts!Branch("Q")},
        Shared(IF p = {} THEN {"C"} ELSE {}))
Bundles ==
    {Contracts!Bundle(s2c, graph, Cataloged(p, q)) :
        s2c \in {Messages2, Flat}, graph \in Graphs, p \in SUBSET {"A", "B"}, q \in AtMostOne({"A", "B"})}
Allowed == {<<{}, {}>>, <<{"P"}, {}>>, <<{"Q"}, {"M"}>>, <<{}, {"N"}>>, <<{}, {"X"}>>}

\* What both sides agree on, and what is left of its schemas, is what they meant:
\* an alias is a name and no more, relaxing changes strictness and no more, the
\* unions offer what is defined, and a shared type survives exactly as long as
\* something still points at it (evaluated once, like ReadsLoosely).
AgreesOnContracts ==
    at = 0 /\ response = TopDown("s") /\ catalog = "basic" =>
        /\ \A entries \in Registries, renderer \in Renderers :
               /\ Contracts!RelaxedAlike(entries, renderer)
               /\ \A alias \in Aliases, existing \in Aliases : Contracts!AliasIsAName(entries, alias, existing, renderer)
        /\ \A bundle \in Bundles, allowed \in Allowed :
               /\ Contracts!SharedSurvive(bundle, allowed[1], allowed[2])
               /\ Contracts!OffersWhatItDefines(bundle, allowed[1], allowed[2])

MCTurned == {Turned}
=============================================================================
