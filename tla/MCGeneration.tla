---------------------------- MODULE MCGeneration ----------------------------
(***************************************************************************)
(* Generation on two surface ids, two attempts and histories of two or three *)
(* entries: batches that are right alone and wrong together (a cycle that    *)
(* only the merged surface closes), slips one reader repairs and another     *)
(* refuses, and a catalog with a container and a leaf.                       *)
(***************************************************************************)
EXTENDS Generation

MCNames == <<"s", "s-2">>
\* A document whose types are put together from shared parts, and one with none.
Part(properties, required) == [Schema EXCEPT !.properties = properties, !.required = required]
Weighed == Part([weight |-> Typed({"number"})], {})
Common == [Part([id |-> Ref("ComponentId")], {"id"}) EXCEPT !.allOf = <<Weighed>>]
Whole(parts) == [Schema EXCEPT !.allOf = <<Common>> \o parts]
TextSchema ==
    [Whole(<<Part([component |-> Typed({"string"}), text |-> Ref("DynamicString")], {"component", "text"})>>)
        EXCEPT !.allowedParents = {"Box"}]
BoxSchema ==
    Whole(<<Part([child |-> [Schema EXCEPT !.oneOf = <<Ref("ComponentId")>>], children |-> Ref("ChildList"),
                  rows |-> Typed({"integer"})], {"component"})>>)
MCDocument == [id |-> "basic", components |-> [Text |-> TextSchema, Box |-> BoxSchema], inline |-> FALSE, functions |-> <<>>]
MCCatalogOf == ("basic" :> FromSchema(MCDocument)) @@ ("other" :> Empty)

Text(id) == With(Component(id, "Text"), [text |-> "string"])
Box(id, child) == WithChildren(Component(id, "Box"), <<Child("child", child)>>)
ListOf(id, child, ref) == WithChildren(Component(id, "Box"), <<Template("children", child, ref)>>)
Narrow(id, child) == With(Box(id, child), [rows |-> "fraction"])
New(s) == Wire(CreateSurface(s, "basic", None))
Draw(s, components) == Wire(UpdateComponents(s, components))
Items2(s) ==
    Wire(UpdateDataModel(s, <<"a">>, (<<>> :> "array" @@ <<"0">> :> "object" @@ <<"0", "b">> :> "x")))

Fresh(s) == <<New(s), Draw(s, <<Box("root", "c"), Text("c")>>)>>
Lone(s) == <<New(s), Draw(s, <<Text("root")>>)>>
Templated(s) ==
    <<New(s), Draw(s, <<ListOf("root", "c", Absolute(<<"a">>)), Reading(Text("c"), {Relative(<<"b">>)})>>), Items2(s)>>
Relabelled(s) == <<Draw(s, <<Reading(Text("c"), {Absolute(<<"a">>)})>>)>>
Looping(s) == <<Draw(s, <<Box("c", "root")>>)>>
Untemplated(s) == <<Draw(s, <<Box("root", "c")>>)>>
Dangling(s) == <<New(s), Draw(s, <<Box("root", "c")>>)>>
Rebuilt(s) == <<Wire(DeleteSurface(s))>> \o Fresh(s)
Removed(s) == <<Wire(DeleteSurface(s))>>
\* One property has the wrong type, another is missing.
Slack(s) == <<New(s), Draw(s, <<Narrow("root", "c"), Component("c", "Text")>>)>>
Unversioned(s) == <<[New(s) EXCEPT !.version = None]>>

Good(messages) == InBlocks(<<Block(messages)>>)
Slipped(messages, slip) == InBlocks(<<[Block(messages) EXCEPT !.slip = slip]>>)
Loose(messages) == InBlocks(<<[Block(messages) EXCEPT !.tag = "attributes"]>>)

MCResponses ==
    {Good(Fresh("s")), Good(Lone("s")), Good(Templated("s")), Good(Relabelled("s")), Good(Looping("s")),
     Good(Untemplated("s")), Good(Dangling("s")), Good(Rebuilt("s")), Good(Removed("s")),
     Good(Unversioned("s")), Good(Slack("s")),
     Good(Fresh("s-2")), Good(Looping("s-2")), Good(Relabelled("s") \o Fresh("s-2")),
     InBlocks(<<>>), Bare(Fresh("s")), Bare(Relabelled("s")),
     Slipped(Fresh("s"), "commas"), Slipped(Fresh("s"), "broken"), Loose(Fresh("s")),
     InBlocks(<<Block(Fresh("s")), [Block(Relabelled("s")) EXCEPT !.closed = FALSE]>>),
     InBlocks(<<Block(Fresh("s")), Block(Relabelled("s"))>>)}

\* Templates render as they were written, and cut ones are refused (evaluated in the
\* initial states, for it is the same in all).
T == INSTANCE MCBinding
TemplatesRender == history = <<>> /\ turn = Idle => T!Rendering /\ T!Cutting
=============================================================================
