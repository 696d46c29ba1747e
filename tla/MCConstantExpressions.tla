------------------------ MODULE MCConstantExpressions ------------------------
(***************************************************************************)
(* Bounded instance of ConstantExpressions: the operands are the boundary  *)
(* values of every type, the expressions every operator over them and      *)
(* those combinations in which the type of one operation meets another.    *)
(***************************************************************************)
EXTENDS ConstantExpressions, FiniteSets

Ints ==
  UNION {{<<"int", v, IntWidth, FALSE>> : v \in {0, 1, 7}},
         {<<"int", v, IntWidth, TRUE>> : v \in {1, 15}},
         {<<"int", v, LongWidth, FALSE>> : v \in {5, 127}},
         {<<"int", v, LongWidth, TRUE>> : v \in {0, 255}}}

Others == {<<"char16", 7>>, <<"char32", 15>>, <<"id", "x">>,
           <<"comma", <<"id", "x">>, <<"id", "x">>>>}

ArrayOf(k, len, complete) == <<"array", <<k>>, len, complete>>

Sizes == UNION {{<<"sizeof", t>>, <<"alignof", t>>} :
                  t \in {<<"void">>, <<"ldouble">>, ArrayOf("int", 3, TRUE),
                         ArrayOf("int", 128, TRUE), ArrayOf("long", 0, FALSE)}}

Minus(e) == <<"unary", "-", e>>
Lowest == {<<"binary", "-", Minus(<<"int", 7, IntWidth, FALSE>>),
                            <<"int", 1, IntWidth, FALSE>>>>,
           <<"binary", "-", Minus(<<"int", 127, LongWidth, FALSE>>),
                            <<"int", 1, IntWidth, FALSE>>>>}

Operands == UNION {Ints, Others, {Minus(e) : e \in Ints}, Lowest}

UnaryOps  == {"+", "-", "~", "!", "++"}
BinaryOps == {"+", "-", "*", "/", "%", "<<", ">>", "<", ">", "<=", ">=", "==",
              "!=", "&", "|", "^", "&&", "||"}
CastTypes == {<<k>> : k \in {"bool", "char", "uchar", "ushort", "int", "uint",
                             "long", "ulong", "enum", "double"}}

UnaryOf(S)             == {<<"unary", op, e>> : op \in UnaryOps, e \in S}
BinaryOf(Ops, S, T)    == {<<"binary", op, a, b>> : op \in Ops, a \in S, b \in T}
CastOf(S)              == {<<"cast", t, e>> : t \in CastTypes, e \in S}
ConditionalOf(C, S, T) == {<<"conditional", c, a, b>> : c \in C, a \in S, b \in T}

Deciding == {<<"int", 0, IntWidth, FALSE>>, <<"int", 1, LongWidth, FALSE>>,
             <<"id", "x">>}
Few == {Minus(<<"int", 1, IntWidth, FALSE>>), <<"int", 15, IntWidth, TRUE>>,
        <<"int", 5, LongWidth, FALSE>>, <<"char16", 7>>}

MCExpressions ==
  UNION {Operands, Sizes, UnaryOf(Operands), CastOf(Operands),
         BinaryOf(BinaryOps, Operands, Operands),
         BinaryOf({"+", "/", ">>", "<"}, CastOf(Few), Few),
         ConditionalOf(Deciding, Operands, Few),
         BinaryOf({"+", "<", "&&"}, ConditionalOf(Deciding, Few, Few), Few)}
==============================================================================
