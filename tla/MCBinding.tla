----------------------------- MODULE MCBinding ------------------------------
(***************************************************************************)
(* Templates for Binding: strings of one of the characters an expression is  *)
(* cut at, or of a quote beside one, in every place one can stand, and the   *)
(* same nested up to the limit and beyond, in the root and in an item.       *)
(***************************************************************************)
EXTENDS Sequences, SequencesExt, TLC

B == INSTANCE Binding WITH
         Catalog <- {"upper"}, MaxNesting <- 2, MaxValueDepth <- 3, MaxInteger <- 2

Specials == {"w", " ", "'", "\"", "{", "}", "(", ")", ",", ":"}
Texts == {<<>>} \cup {<<c>> : c \in Specials}
             \cup {<<q, c>> : q \in B!Quotes, c \in Specials} \cup {<<c, q>> : q \in B!Quotes, c \in Specials}
Few == {<<"}", "'">>, <<"\"", ",">>, <<":", ")">>, <<"'", "{">>}

Document ==
    (<<>> :> B!Plain("object", <<"json">>)) @@ (<<"/", "user">> :> B!String(<<"Ada", "}">>))
        @@ (<<"/", "items", "/", "1", "/", "name">> :> B!Boolean("true"))
        @@ (<<"/", "items", "/", "1", "/", "count">> :> B!Integer(2))
Scopes == {B!RootScope(Document), B!Item(B!RootScope(Document), <<"/", "items">>, 1)}

Atoms(texts) ==
    {B!Path(path) : path \in {<<"/">>, <<"/", "user">>, <<"name">>, <<"count">>}}
        \cup {B!Constant(B!Integer(n), <<ToString(n)>>) : n \in {-2, 1}}
        \cup {B!Constant(B!String(<<>>), <<"null">>), B!Constant(B!Boolean("true"), <<"true">>),
              B!Constant(B!Plain("fraction", <<"0.5">>), <<"0.5">>)}
        \cup {B!Quoted(text) : text \in texts}

\* A string cannot hold a backslash before a quote: a template in one has no escapes.
Escapes(text) == \E n \in 1..(Len(text) - 1) : text[n] = "\\" /\ text[n + 1] \in B!Quotes
Over(es) ==
    {B!Nested(e) : e \in es}
        \cup {B!Call(name, <<"value">> :> e) : name \in {"upper", "lower"}, e \in es}
        \cup {B!Call("@index", <<"offset">> :> e) : e \in es}
        \cup {B!Template(<<B!Word("}"), B!Dollar, e>>) : e \in {f \in es : ~Escapes(B!Written(f))}}
Pairs(es) == {B!Call("upper", (<<"value">> :> e) @@ (<<"other">> :> f)) : e \in es, f \in es}

Single == Atoms(Texts) \cup Over(Atoms(Texts))
Telling == {B!Path(<<"count">>), B!Path(<<"/", "user">>)} \cup {B!Quoted(text) : text \in Few}
Deep == Over(Over(Telling)) \cup Over(Over(Over({B!Path(<<"count">>)}))) \cup Pairs(Telling)

Rendering ==
    \A e \in Single \cup Deep, scope \in Scopes :
        B!RendersAsWritten(scope, <<B!Word("'"), e, B!Word("}"), B!Word("{")>>)
Cutting == \A e \in Atoms(Texts) \cup Over(Telling) \cup Pairs(Telling), scope \in Scopes : B!CutIsRefused(scope, e)
=============================================================================
