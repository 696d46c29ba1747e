-------------------------- MODULE MCTranslationUnit --------------------------
(* Inputs for the parser, small enough to try all of them.                 *)
EXTENDS TranslationUnit, Programs

MCIdentifiers == {"x", "a", "b", "f", "T", "E"}
MCConstants == [t \in {"1", "2", "3"} |->
                  <<"int", CASE t = "1" -> 1 [] t = "2" -> 2 [] t = "3" -> 3, IntWidth, FALSE>>]
MCOperands == ("x" :> <<"id", "x">>) @@ ("1" :> MCConstants["1"])
MCTypeNames == (<<"T">> :> IntType) @@ (<<"T", "*">> :> <<"pointer", IntType>>)

Typedefs == << Symbol("T", "ordinary", "typedef", IntType, 0) >>

Case(kind, entry, toks, symbols, meant) ==
  [kind |-> kind, entry |-> entry, toks |-> toks, symbols |-> symbols,
   meant |-> meant, fail |-> NoFault]

(* Expressions: every sequence of up to four pieces.                       *)
Pieces == { <<"x">>, <<"-", "x">>, <<"*", "1">>, <<"<", "x">>, <<"?", "x", ":">>,
            <<"=", "x">>, <<",">>, <<"(">>, <<")">>, <<"(", "T", ")">>, <<"(", "T", "*", ")">>,
            <<"[", "x", "]">>, <<"++">>, <<"sizeof">> }

ExpressionInputs ==
  {Case("expression", "expression", FlattenSeq(p), Typedefs, Null)
     : p \in UNION {[1 .. n -> Pieces] : n \in 1 .. 4}}

(* Declarators of up to four derivation steps.                             *)
Lists == { <<>>, << <<"name", "a">>, <<"pointer", <<"name", "">>>> >>,
           << <<"array", <<"name", "b">>, 2>>,
              <<"function", <<"group", <<"pointer", <<"name", "x">>>>>>, << <<"name", "">> >>>> >> }

Declared(d) == <<"none", NameOf(d), Reads(d, IntType), Null>>

Concrete == DeclaratorsOf(4, <<"name", "f">>, Lists)
Abstract == DeclaratorsOf(4, <<"name", "">>, Lists)

DeclaratorInputs ==
  UNION {
    {Case("declarator", "unit", <<"int">> \o Written(d) \o <<",", "*", "x", ";">>, <<>>,
          << <<"declaration", <<Declared(d), <<"none", "x", <<"pointer", IntType>>, Null>> >>>> >>)
       : d \in Concrete},
    {Case("declarator", "unit", <<"int">> \o Written(d) \o <<"{", "}">>, <<>>,
          << <<"function", "none", "f", Reads(d, IntType), OwnParameters(d)[1],
               <<"compound", <<>>>>>> >>)
       : d \in {e \in Concrete : Reads(e, IntType)[1] = "function"}},
    {Case("declarator", "type name", <<"int">> \o Written(d), <<>>, <<Reads(d, IntType)>>)
       : d \in Abstract}}

(* Programs of up to three items.                                          *)
Plain == {<<"multiply">>, <<"shadow">>, <<"subtract">>, <<"size">>, <<"object">>,
          <<"typedef">>, <<"enum">>}
Ambiguous == {<<"multiply">>, <<"shadow">>, <<"subtract">>, <<"size">>}
Bodies == {<<"size">>, <<"return">>, <<"block", << <<"object">>, <<"multiply">> >>>>,
           <<"block", << <<"typedef">>, <<"multiply">> >>>>}

Compounds ==
  UNION {{<<"block", <<i, j>>>> : i \in Plain, j \in Ambiguous},
         {<<"for", i, b>> : i \in Plain \ {<<"size">>}, b \in Bodies},
         {<<kind, b>> : kind \in {"label", "if", "while", "do"}, b \in Bodies},
         {<<"ifelse", b, <<"goto">>>> : b \in Bodies},
         {<<"switch", b, <<"continue">>>> : b \in Bodies},
         {<<"if", <<"ifelse", b, <<"size">>>>>> : b \in Bodies},
         {<<"ifelse", <<"ifelse", <<"size">>, b>>, <<"size">>>> : b \in Bodies},
         {<<"label", <<"for", <<"object">>, <<"if", b>>>>>> : b \in Bodies}}

Bodied == {<<i, j, k>> : i \in Plain, j \in UNION {Plain, Compounds},
                         k \in {<<"multiply">>, <<"subtract">>}}

(* The programs with one prelude and one kind of parameters.               *)
ProgramsWith(p, k) ==
  {Case("program", "unit", FileTokens(p, k, items, TRUE), <<>>, FileUnits(p, k, items, TRUE))
     : items \in Bodied}

StatementInputs ==
  {Case("program", "statement", Spelled(b), Typedefs, <<Stands(b, <<"typedef">>).tree>>)
     : b \in Compounds}

DeclarationInputs ==
  {Case("program", "declaration", Spelled(b), Typedefs,
        << <<"decls", Stands(b, <<"typedef">>).tree[2]>> >>)
     : b \in {<<"multiply">>, <<"shadow">>, <<"object">>}}

ProgramInputs ==
  FlattenSeq([p \in DOMAIN Preludes |->
                [k \in DOMAIN ParameterKinds |->
                   ProgramsWith(Preludes[p], ParameterKinds[k])]])
    \o <<StatementInputs, DeclarationInputs>>

(* Files whose parse lacks memory at any one request, or lacks a token.    *)
Files ==
  { <<"enum", "E", "{", "T", ",", "a", "=", "2", "}", ";", "int", "f", "(", "int", "a", ",",
      "int", "b", ")", "{", "int", "x", "=", "T", ",", "E", ";", "{", "T", "*", "a", ";",
      "}", "return", "a", ";", "}">>,
    <<"int", "(", "*", "f", "(", "int", "a", ")", ")", "(", "int", "b", ")", "{", "for", "(",
      "int", "x", ";", ";", ")", "if", "(", "a", ")", "x", "(", "a", ",", "b", ")", ";",
      "else", "{", "enum", "{", "E", "}", ";", "}", "}">>,
    <<"_Static_assert", "(", "1", ",", "s", ")", ";", "int", "a", "[", "2", "]", ",", "*", "b",
      "=", "(", "int", "*", ")", "a", ";", "struct", "x", "f", "(", ")", ";">> }

Requests == 60

FaultInputs ==
  UNION {
    {[Case("fault", "unit", file, <<>>, Null) EXCEPT !.fail = n]
       : file \in Files, n \in 1 .. Requests},
    UNION {{Case("damaged", "unit", RemoveAt(file, n), <<>>, Null) : n \in DOMAIN file}
             : file \in Files},
    {[Case("damaged", "unit", SubSeq(file, 1, n), <<>>, Null) EXCEPT !.fail = m]
       : file \in Files, n \in {4, 12, 20, 28}, m \in {1, 5, 11, 13}}}

AllInputs == <<ExpressionInputs, DeclaratorInputs, FaultInputs>> \o ProgramInputs

Faults == <<FaultInputs>>

(* An enumeration inside the length of an array.                           *)
Speculations == <<
  {Case("damaged", "unit",
        <<"int", "a", "[", "sizeof", "(", "enum", "{", "E", "}", ")", "]", ";">>, <<>>, Null)} >>
=============================================================================
