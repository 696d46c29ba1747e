---------------------- MODULE MCControllingExpressions ----------------------
(***************************************************************************)
(* A bounded instance of ControllingExpressions.  The lines are all short  *)
(* sequences of the tokens on which the parser decides, and longer ones    *)
(* that combine two operators, conditionals and dead operands with the     *)
(* boundary values of a word.                                              *)
(***************************************************************************)
EXTENDS MCConstantExpressions, ControllingExpressions, TLC

Number(base, digits, suffix) == [base |-> base, digits |-> digits, suffix |-> suffix]

MCNumbers ==
     "0" :> Number(8, <<>>, <<>>) @@ "1" :> Number(10, <<1>>, <<>>)
  @@ "7" :> Number(10, <<7>>, <<>>) @@ "127" :> Number(10, <<1, 2, 7>>, <<>>)
  @@ "128" :> Number(10, <<1, 2, 8>>, <<>>) @@ "255" :> Number(10, <<2, 5, 5>>, <<>>)
  @@ "256" :> Number(10, <<2, 5, 6>>, <<>>) @@ "1u" :> Number(10, <<1>>, <<"u">>)
  @@ "0x7f" :> Number(16, <<7, 15>>, <<>>) @@ "0xff" :> Number(16, <<15, 15>>, <<"l", "l">>)
  @@ "0x" :> Number(16, <<>>, <<>>) @@ "0xul" :> Number(16, <<>>, <<"u", "l">>)
  @@ "017" :> Number(8, <<1, 7>>, <<"l", "u">>) @@ "08" :> Number(8, <<8>>, <<>>)
  @@ "1uu" :> Number(10, <<1>>, <<"u", "u">>) @@ "1lll" :> Number(10, <<1>>, <<"l", "l", "l">>)
  @@ "97" :> Number(10, <<9, 7>>, <<>>) @@ "10" :> Number(10, <<1, 0>>, <<>>)
  @@ "92" :> Number(10, <<9, 2>>, <<>>) @@ "39" :> Number(10, <<3, 9>>, <<>>)
  @@ "1.5" :> Number(10, <<1>>, <<".", "5">>) @@ "1e1" :> Number(10, <<1>>, <<"e", "1">>)

MCCharacters ==
     "'a'" :> <<"a">> @@ "''" :> <<>> @@ "'\\n'" :> <<"\\", "n">> @@ "'\\0'" :> <<"\\", "0">>
  @@ "'\\\\'" :> <<"\\", "\\">> @@ "'\\''" :> <<"\\", "'">> @@ "'\\1'" :> <<"\\", "1">>
  @@ "'\\177'" :> <<"\\", "1", "7", "7">> @@ "'\\x'" :> <<"\\", "x">>
  @@ "'\\x7f'" :> <<"\\", "x", "7", "f">> @@ "'\\x07'" :> <<"\\", "x", "0", "7">>

MCCode == "a" :> 97 @@ "f" :> 102 @@ "n" :> 110 @@ "x" :> 120 @@ "0" :> 48 @@ "1" :> 49
       @@ "7" :> 55 @@ "\\" :> 92 @@ "'" :> 39

MCIdentifiers == {"defined", "M", "E", "x"}
MCMacros == "M" :> <<"1", "+", "x">> @@ "E" :> <<>>

-----------------------------------------------------------------------------
Short(T, n) == UNION {[1 .. k -> T] : k \in 0 .. n}

Phrases == {<<"1">>, <<"0">>, <<"1u">>, <<"127">>, <<"-", "1">>,
            <<"(", "-", "127", "-", "1", ")">>}

Join(S, ops, T) == {s \o <<op>> \o t : s \in S, op \in ops, t \in T}

Singles == {<<t>> : t \in DOMAIN MCNumbers \cup DOMAIN MCCharacters \cup MCIdentifiers}

OneOperator  == Join(Join(Phrases, BinaryOps, Phrases), {"==", "<"}, Phrases)
TwoOperators == Join(Join({<<"7">>}, BinaryOps, {<<"1">>, <<"0">>}), BinaryOps, {<<"7">>, <<"0">>})
Arms == {<<"1">>, <<"1u">>, <<"-", "1">>, <<"1", "/", "0">>}
Conditional ==
  {<<"(">> \o c \o <<"?">> \o a \o <<":">> \o b \o <<")", "<", "0">> :
     c \in {<<"0">>, <<"1">>, <<"1", "/", "0">>}, a \in Arms, b \in Arms}
Nested == {c \o <<"?">> \o a \o <<":">> \o d \o <<"?">> \o b \o <<":">> \o a :
             c \in {<<"0">>, <<"1">>}, d \in {<<"0">>, <<"1">>}, a \in Arms, b \in Arms}
Dead == Join(Join({<<"0">>, <<"1">>}, {"&&", "||"}, {<<"1", "/", "0">>, <<"1", "<<", "127">>}),
             {"&&", "||", "?"}, {<<"0">>, <<"1">>, <<"1", ":", "0", "%", "0">>})

MCLines ==
  UNION {Short({"1", "0", "(", ")", "-", "/", "<", "&&", "?", ":"}, 4),
         Short({"defined", "M", "E", "x", "(", ")", "!"}, 4),
         Singles, Join(Singles, {"=="}, Singles), OneOperator, TwoOperators,
         Conditional, Nested, Dead}
=============================================================================
