------------------------------ MODULE Binding ------------------------------
(***************************************************************************)
(* What a property of an A2UI component comes to where it is rendered       *)
(* (crates/ag-ui-a2ui/src/binding.rs): dynamic values, the scopes of        *)
(* template items, and the templates of formatString with the expressions   *)
(* in them.                                                                 *)
(*                                                                         *)
(* A text is a sequence of characters, a word counting as one.  A document   *)
(* is a function from the pointers that lead somewhere to the values there. *)
(***************************************************************************)
EXTENDS Integers, Sequences, SequencesExt, FiniteSetsExt, TLC

CONSTANTS
    Catalog,        \* the names a FunctionResolver evaluates
    MaxNesting,     \* eval_expression's MAX_DEPTH
    MaxValueDepth,  \* MAX_VALUE_DEPTH
    MaxInteger      \* of an i64

I64 == (-MaxInteger)..MaxInteger
Numerals == {ToString(n) : n \in I64}
Fractions == {"0.5"}

Failed == [kind |-> "error"]
Plain(kind, text) == [kind |-> kind, text |-> text]
String(text) == Plain("string", text)
Integer(n) == [kind |-> "integer", text |-> <<ToString(n)>>, n |-> n]
Null == Plain("null", <<>>)
Boolean(word) == Plain("boolean", <<word>>)

\* stringify: what a value reads as is its text.
TextOf(value) == value.text

-----------------------------------------------------------------------------
(* Scope *)

Scope(data, base, index) == [data |-> data, base |-> base, index |-> index]
NoIndex == -1
RootScope(data) == Scope(data, <<>>, NoIndex)

ScopedPointer(scope, path) ==
    IF path \in {<<>>, <<"/">>} THEN <<>>
    ELSE IF Head(path) = "/" THEN path
    ELSE scope.base \o <<"/">> \o path

Item(scope, path, n) ==
    Scope(scope.data, ScopedPointer(scope, path) \o <<"/", ToString(n)>>, n)

\* What is not there reads as null.
Resolve(scope, path) ==
    LET pointer == ScopedPointer(scope, path)
    IN  IF pointer \in DOMAIN scope.data THEN scope.data[pointer] ELSE Null

-----------------------------------------------------------------------------
(* Reading the text of an expression. *)

Quotes == {"'", "\""}
Outside == ""

Trim(text) ==
    LET solid == {n \in DOMAIN text : text[n] # " "}
    IN  IF solid = {} THEN <<>> ELSE SubSeq(text, Min(solid), Max(solid))

\* What one character does to a scan that skips quoted strings; `escapes`: it knows of \.
Scan(m, ch, opens, closes, escapes) ==
    IF m.quote # Outside
    THEN [m EXCEPT !.quote = IF ch = m.quote /\ ~m.escaped THEN Outside ELSE @,
                   !.escaped = escapes /\ ~m.escaped /\ ch = "\\"]
    ELSE [m EXCEPT !.quote = IF ch \in Quotes THEN ch ELSE Outside,
                   !.depth = IF ch \in opens THEN @ + 1
                             ELSE IF ch \in closes /\ @ > 0 THEN @ - 1 ELSE @]

\* Where `ch` stands outside quotes and brackets.
Separators(text, ch, opens, closes, escapes) ==
    LET before[n \in 1..Len(text)] ==
            IF n = 1 THEN [depth |-> 0, quote |-> Outside, escaped |-> FALSE]
            ELSE Scan(before[n - 1], text[n - 1], opens, closes, escapes)
    IN  {n \in DOMAIN text : text[n] = ch /\ before[n].depth = 0 /\ before[n].quote = Outside}

Opening == {"(", "{", "["}
Closing == {")", "}", "]"}

\* Fault: a } in a string closes the body too.
EndsInStrings(text) == {n \in DOMAIN text : text[n] = "}"}
\* take_expression: where the } is that closes a body, or nowhere.
Ends(text) == Separators(text, "}", {"{"}, {"}"}, TRUE)

\* split_arguments, split_top_level_colon.
Cuts(text) == SetToSortSeq(Separators(text, ",", Opening, Closing, TRUE), <)
Pieces(text) ==
    LET cuts == <<0>> \o Cuts(text) \o <<Len(text) + 1>>
    IN  SelectSeq([n \in 1..(Len(cuts) - 1) |-> Trim(SubSeq(text, cuts[n] + 1, cuts[n + 1] - 1))],
                  LAMBDA piece : piece # <<>>)
Colons(piece) == Separators(piece, ":", Opening, Closing, FALSE)
NameOf(piece) == Trim(SubSeq(piece, 1, Min(Colons(piece)) - 1))
ValueOf(piece) == Trim(SubSeq(piece, Min(Colons(piece)) + 1, Len(piece)))

\* A backslash before a quote is dropped.
Unescaped(text) ==
    LET escapes == {n \in 1..(Len(text) - 1) : text[n] = "\\" /\ text[n + 1] \in Quotes}
    IN  [n \in 1..(Len(text) - Cardinality(escapes)) |->
            text[CHOOSE k \in DOMAIN text \ escapes : Cardinality((1..k) \ escapes) = n]]

\* parse_literal
IsQuoted(text) == Len(text) >= 2 /\ text[1] \in Quotes /\ text[Len(text)] = text[1]
Constants == {"true", "false", "null"} \cup Numerals \cup Fractions
IsLiteral(text) == IsQuoted(text) \/ (Len(text) = 1 /\ text[1] \in Constants)
Literal(text) ==
    IF IsQuoted(text) THEN String(Unescaped(SubSeq(text, 2, Len(text) - 1)))
    ELSE CASE text[1] = "null" -> String(<<>>)
           [] text[1] \in {"true", "false"} -> Boolean(text[1])
           [] text[1] \in Fractions -> Plain("fraction", text)
           [] OTHER -> Integer(CHOOSE n \in I64 : ToString(n) = text[1])

-----------------------------------------------------------------------------
(* Functions, expressions, templates and dynamic values. *)

Argument(args, key) == IF <<key>> \in DOMAIN args THEN args[<<key>>] ELSE Null

\* FunctionResolver::call: a word for the function, and what it is called on.
Called(name, args) == String(<<name>> \o TextOf(Argument(args, "value")))

\* eval_index
EvalIndex(scope, args) ==
    LET offset == Argument(args, "offset")
        by == IF offset.kind = "integer" THEN offset.n ELSE 0
    IN  IF \/ scope.index = NoIndex
           \/ offset.kind \notin {"null", "integer"}
           \/ scope.index + by \notin I64
        THEN Failed
        ELSE Integer(scope.index + by)

After(text, n) == SubSeq(text, n + 1, Len(text))
Prepended(text, rest) == IF rest = Failed THEN Failed ELSE String(text \o TextOf(rest))

RECURSIVE Eval(_, _, _), Format(_, _)

CallFunction(scope, name, args) ==
    CASE name = <<"formatString">> -> Format(scope, TextOf(Argument(args, "value")))
      [] name = <<"@index">> -> EvalIndex(scope, args)
      [] Len(name) = 1 /\ name[1] \in Catalog -> Called(name[1], args)
      [] OTHER -> Failed

\* name(key: value, ...): the last of two arguments of one name counts.
EvalCall(scope, text, open, depth) ==
    LET pieces == Pieces(SubSeq(text, open + 1, Len(text) - 1))
        named == [n \in DOMAIN pieces |-> NameOf(pieces[n])]
        values == [n \in DOMAIN pieces |-> Eval(scope, ValueOf(pieces[n]), depth + 1)]
    IN  IF \E n \in DOMAIN pieces : Colons(pieces[n]) = {} THEN Failed
        ELSE IF Failed \in Range(values) THEN Failed
        ELSE CallFunction(scope, Trim(SubSeq(text, 1, open - 1)),
                 [key \in Range(named) |-> values[Max({n \in DOMAIN named : named[n] = key})]])

\* A body in braces of its own, and nothing after it.
EvalNested(scope, text, depth) ==
    LET ends == Ends(text)
    IN  IF ends = {} \/ Min(ends) # Len(text) THEN Failed
        ELSE Eval(scope, SubSeq(text, 1, Len(text) - 1), depth + 1)

\* eval_expression
Eval(scope, expression, depth) ==
    LET text == Trim(expression)
        parens == {n \in DOMAIN text : text[n] = "("}
    IN  IF depth > MaxNesting THEN Failed
        ELSE IF text = <<>> THEN String(<<>>)
        ELSE IF IsPrefix(<<"$", "{">>, text) THEN EvalNested(scope, After(text, 2), depth)
        ELSE IF IsLiteral(text) THEN Literal(text)
        ELSE IF parens = {} THEN Resolve(scope, text)
        ELSE IF text[Len(text)] = ")" THEN EvalCall(scope, text, Min(parens), depth)
        ELSE Failed

\* format_string_with, from its first character on.
Interpolated(scope, text) ==
    LET ends == Ends(text)
        value == Eval(scope, SubSeq(text, 1, Min(ends) - 1), 0)
    IN  IF ends = {} \/ value = Failed THEN Failed
        ELSE Prepended(TextOf(value), Format(scope, After(text, Min(ends))))

Format(scope, text) ==
    IF text = <<>> THEN String(<<>>)
    ELSE IF IsPrefix(<<"\\", "$", "{">>, text) THEN Prepended(<<"$", "{">>, Format(scope, After(text, 3)))
    ELSE IF IsPrefix(<<"$", "{">>, text) THEN Interpolated(scope, After(text, 2))
    ELSE Prepended(<<Head(text)>>, Format(scope, Tail(text)))

\* resolve_dynamic_at: a binding, a call, or an object or array of more.
RECURSIVE Resolved(_, _, _)
Resolved(scope, value, depth) ==
    LET inner == IF value.shape \in {"call", "fields"}
                 THEN [key \in DOMAIN value.fields |-> Resolved(scope, value.fields[key], depth + 1)]
                 ELSE <<>>
    IN  IF depth > MaxValueDepth \/ Failed \in Range(inner) THEN Failed
        ELSE CASE value.shape = "path" -> Resolve(scope, value.path)
               [] value.shape = "call" -> CallFunction(scope, value.name, inner)
               [] value.shape = "fields" -> [kind |-> "object", fields |-> inner]
               [] OTHER -> value.literal

-----------------------------------------------------------------------------
(* What is written, and what it means.                                      *)

RECURSIVE Written(_), Text(_), Meaning(_, _, _), Rendered(_, _)

Path(path) == [op |-> "path", path |-> path]
Constant(value, text) == [op |-> "constant", value |-> value, text |-> text]
Quoted(text) == [op |-> "quoted", text |-> text]
Nested(e) == [op |-> "nested", of |-> e]
Call(name, args) == [op |-> "call", name |-> name, args |-> args]
\* A template, by its parts: expressions, words, and an escaped ${.
Template(parts) == [op |-> "template", parts |-> parts]
Word(word) == [op |-> "word", word |-> word]
Dollar == [op |-> "dollar"]

\* In quotes the text does not hold, or with those it holds escaped.
InQuotes(text) ==
    LET quote == IF "'" \in Range(text) /\ "\"" \notin Range(text) THEN "\"" ELSE "'"
    IN  <<quote>> \o FlattenSeq([n \in DOMAIN text |->
            IF text[n] = quote THEN <<"\\", quote>> ELSE <<text[n]>>]) \o <<quote>>

WrittenCall(e) ==
    LET keys == SetToSeq(DOMAIN e.args)
        each == [n \in DOMAIN keys |->
                    (IF n = 1 THEN <<>> ELSE <<",", " ">>) \o keys[n] \o <<":", " ">> \o Written(e.args[keys[n]])]
    IN  <<e.name, "(">> \o FlattenSeq(each) \o <<")">>

Written(e) ==
    CASE e.op = "path" -> e.path
      [] e.op = "constant" -> e.text
      [] e.op = "quoted" -> InQuotes(e.text)
      [] e.op = "nested" -> <<"$", "{">> \o Written(e.of) \o <<"}">>
      [] e.op = "call" -> WrittenCall(e)
      [] e.op = "template" -> <<"formatString", "(", "value", ":">> \o InQuotes(Text(e.parts)) \o <<")">>

Text(parts) ==
    FlattenSeq([n \in DOMAIN parts |->
        CASE parts[n].op = "word" -> <<parts[n].word>>
          [] parts[n].op = "dollar" -> <<"\\", "$", "{">>
          [] OTHER -> Written(Nested(parts[n]))])

\* No deeper than the limit; a template inside counts anew.
Meaning(scope, e, depth) ==
    LET args == [key \in DOMAIN e.args |-> Meaning(scope, e.args[key], depth + 1)]
    IN  IF depth > MaxNesting \/ (e.op = "template" /\ depth = MaxNesting) THEN Failed
        ELSE CASE e.op = "path" -> Resolve(scope, e.path)
               [] e.op = "constant" -> e.value
               [] e.op = "quoted" -> String(e.text)
               [] e.op = "nested" -> Meaning(scope, e.of, depth + 1)
               [] e.op = "call" -> IF Failed \in Range(args) THEN Failed
                                   ELSE CallFunction(scope, <<e.name>>, args)
               [] e.op = "template" -> Rendered(scope, e.parts)

Rendered(scope, parts) ==
    LET each == [n \in DOMAIN parts |->
            CASE parts[n].op = "word" -> String(<<parts[n].word>>)
              [] parts[n].op = "dollar" -> String(<<"$", "{">>)
              [] OTHER -> Meaning(scope, parts[n], 0)]
    IN  IF Failed \in Range(each) THEN Failed
        ELSE String(FlattenSeq([n \in DOMAIN parts |-> TextOf(each[n])]))

\* A template renders as the parts it is written from, whatever quotes, brackets and
\* separators its strings hold, also as the argument of a dynamic value.
RendersAsWritten(scope, parts) ==
    LET call == [shape |-> "call", name |-> <<"formatString">>,
                 fields |-> (<<"value">> :> [shape |-> "literal", literal |-> String(Text(parts))])]
    IN  /\ Format(scope, Text(parts)) = Rendered(scope, parts)
        /\ Resolved(scope, call, 0) = Rendered(scope, parts)

\* Cut anywhere inside an expression, it is refused.
CutIsRefused(scope, e) ==
    LET text == Written(Nested(e))
    IN  \A n \in 2..(Len(text) - 1) : Format(scope, SubSeq(text, 1, n)) = Failed
=============================================================================
