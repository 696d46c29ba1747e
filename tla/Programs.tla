------------------------------ MODULE Programs ------------------------------
(***************************************************************************)
(* Declarators and programs as they are meant, with the tokens they are    *)
(* written in and the trees they stand for: the references for the parser  *)
(* of declarators and of statements.                                       *)
(***************************************************************************)
EXTENDS ConstEval, SequencesExt

None == <<>>

(* The sequences, with a token before each but the first.                  *)
Separated(seqs, token) ==
  FlattenSeq([i \in DOMAIN seqs |-> IF i = 1 THEN seqs[i] ELSE <<token>> \o seqs[i]])

-----------------------------------------------------------------------------
(* A declarator is read from its name outwards (6.7.6):                    *)
(*   <<"name", n>>           the name, or "" in an abstract declarator     *)
(*   <<"pointer", d>>        * d                                           *)
(*   <<"array", d, n>>       d [ n ], and 0 for no length                  *)
(*   <<"function", d, ps>>   d ( ps ), a sequence of parameters, each an   *)
(*                           int declared by a declarator                  *)
(*   <<"group", d>>          ( d )                                         *)

IntType == <<"int">>
Lengths == <<"1", "2", "3">>

RECURSIVE Written(_), Reads(_, _), NameOf(_)

(* A pointer needs parentheses to the left of a suffix.                    *)
Before(d) == IF d[1] = "pointer" THEN <<"(">> \o Written(d) \o <<")">> ELSE Written(d)

ParameterTokens(ps) ==
  Separated([i \in DOMAIN ps |-> <<"int">> \o Written(ps[i])], ",")

Written(d) ==
  CASE d[1] = "name"     -> IF d[2] = "" THEN <<>> ELSE <<d[2]>>
    [] d[1] = "pointer"  -> <<"*">> \o Written(d[2])
    [] d[1] = "array"    -> Before(d[2]) \o <<"[">>
                              \o (IF d[3] = 0 THEN <<>> ELSE <<Lengths[d[3]]>>) \o <<"]">>
    [] d[1] = "function" -> Before(d[2]) \o <<"(">> \o ParameterTokens(d[3]) \o <<")">>
    [] d[1] = "group"    -> <<"(">> \o Written(d[2]) \o <<")">>

Adjusted(type) ==
  CASE type[1] = "array"    -> <<"pointer", type[2]>>
    [] type[1] = "function" -> <<"pointer", type>>
    [] OTHER -> type

ParameterTypes(ps) == [i \in DOMAIN ps |-> Adjusted(Reads(ps[i], IntType))]

(* The type of the name, where the type to the left is t: what is farther  *)
(* from the name is nearer to t.                                           *)
Reads(d, t) ==
  CASE d[1] = "name"     -> t
    [] d[1] = "pointer"  -> Reads(d[2], <<"pointer", t>>)
    [] d[1] = "array"    -> Reads(d[2], <<"array", t, d[3], d[3] # 0>>)
    [] d[1] = "function" -> Reads(d[2], <<"function", t, ParameterTypes(d[3]), FALSE>>)
    [] d[1] = "group"    -> Reads(d[2], t)

NameOf(d) == IF d[1] = "name" THEN d[2] ELSE NameOf(d[2])

(* The parameter list next to the name, with the names.                    *)
RECURSIVE OwnParameters(_)
OwnParameters(d) ==
  LET inner == OwnParameters(d[2])
      own == [i \in DOMAIN d[3] |-> <<Adjusted(Reads(d[3][i], IntType)), NameOf(d[3][i])>>]
  IN  CASE d[1] = "name"     -> None
        [] d[1] = "function" -> IF inner = None THEN <<own>> ELSE inner
        [] OTHER -> inner

(* Which declarators there are, d derivation steps from a leaf.  Functions *)
(* and arrays directly behind a parameter list (a function returning a     *)
(* function or an array) are left out, and parentheses around nothing.     *)
RECURSIVE DeclaratorsOf(_, _, _)
DeclaratorsOf(steps, leaf, lists) ==
  LET D == DeclaratorsOf(steps - 1, leaf, lists)
      suffixable == {d \in D : d[1] # "function"}
  IN  IF steps = 0 THEN {leaf}
      ELSE UNION {D,
                  {<<"pointer", d>> : d \in D},
                  {<<"array", d, n>> : d \in suffixable, n \in {0, 2}},
                  {<<"function", d, ps>> : d \in suffixable, ps \in lists},
                  {<<"group", d>> : d \in {e \in D : Written(e) # <<>>}}}

-----------------------------------------------------------------------------
(* Programs about one name T, which may be a typedef (of int), an object,  *)
(* an enumerator (of value 0) or a label.  An environment is a sequence of *)
(* what T is in each open scope, the innermost last, "" where the scope    *)
(* says nothing.                                                           *)

Means(env) ==
  LET said == SelectSeq(env, LAMBDA what : what # "")
  IN  IF said = <<>> THEN "" ELSE Last(said)

Bind(env, what) == [env EXCEPT ![Len(env)] = what]
Open(env)  == Append(env, "")
Close(env) == Front(env)

NameT(env) == IF Means(env) = "enum" THEN <<"int", 0, IntWidth, FALSE>> ELSE <<"id", "T">>
A == <<"id", "a">>

Declares(storage, name, type) == <<"decl", << <<storage, name, type, None>> >> >>

(* The tokens of a statement or a declaration.                             *)
RECURSIVE Spelled(_)
SpelledAll(items) == FlattenSeq([i \in DOMAIN items |-> Spelled(items[i])])
Spelled(item) ==
  CASE item[1] = "multiply" -> <<"T", "*", "a", ";">>
    [] item[1] = "shadow"   -> <<"T", "*", "T", ";">>
    [] item[1] = "subtract" -> <<"(", "T", ")", "-", "a", ";">>
    [] item[1] = "size"     -> <<"sizeof", "(", "T", ")", ";">>
    [] item[1] = "object"   -> <<"int", "T", ";">>
    [] item[1] = "typedef"  -> <<"typedef", "int", "T", ";">>
    [] item[1] = "enum"     -> <<"enum", "{", "T", "}", ";">>
    [] item[1] = "block"    -> <<"{">> \o SpelledAll(item[2]) \o <<"}">>
    [] item[1] = "for"      -> <<"for", "(">> \o Spelled(item[2]) \o <<";", ")">>
                                 \o Spelled(item[3])
    [] item[1] = "label"    -> <<"T", ":">> \o Spelled(item[2])
    [] item[1] = "if"       -> <<"if", "(", "a", ")">> \o Spelled(item[2])
    [] item[1] = "ifelse"   -> <<"if", "(", "a", ")">> \o Spelled(item[2]) \o <<"else">>
                                 \o Spelled(item[3])
    [] item[1] = "while"    -> <<"while", "(", "a", ")">> \o Spelled(item[2])
    [] item[1] = "do"       -> <<"do">> \o Spelled(item[2]) \o <<"while", "(", "a", ")", ";">>
    [] item[1] = "switch"   -> <<"switch", "(", "a", ")", "{", "case", "1", ":">>
                                 \o Spelled(item[2]) \o <<"break", ";", "default", ":">>
                                 \o Spelled(item[3]) \o <<"}">>
    [] item[1] = "return"   -> <<"return", "(", "T", ")", "-", "a", ";">>
    [] item[1] = "goto"     -> <<"goto", "T", ";">>
    [] item[1] = "continue" -> <<"continue", ";">>

(* What an item stands for in an environment: its tree, the environment    *)
(* after it, and whether it is right.                                      *)
Result(tree, env) == [tree |-> tree, env |-> env, right |-> TRUE]

RECURSIVE Stands(_, _)

StandAll(items, env) ==
  FoldLeft(LAMBDA r, item :
             LET s == Stands(item, r.env)
             IN  [tree |-> Append(r.tree, s.tree), env |-> s.env, right |-> r.right /\ s.right],
           Result(<<>>, env), items)

Stands(item, env) ==
  LET isType == Means(env) = "typedef"
      difference == IF isType THEN <<"cast", IntType, <<"unary", "-", A>>>>
                    ELSE <<"binary", "-", NameT(env), A>>
      (* a statement that holds others, and leaves the environment alone *)
      Holding(bodies, Tree(_)) ==
        LET inner == [i \in DOMAIN bodies |-> Stands(bodies[i], env)]
        IN  [tree |-> Tree([i \in DOMAIN inner |-> inner[i].tree]), env |-> env,
             right |-> \A i \in DOMAIN inner : inner[i].right]
  IN  CASE item[1] = "multiply" ->
             Result(IF isType THEN Declares("none", "a", <<"pointer", IntType>>)
                    ELSE <<"expr", <<"binary", "*", NameT(env), A>>>>, env)
        [] item[1] = "shadow" ->
             IF isType THEN Result(Declares("none", "T", <<"pointer", IntType>>),
                                   Bind(env, "object"))
             ELSE Result(<<"expr", <<"binary", "*", NameT(env), NameT(env)>>>>, env)
        [] item[1] = "subtract" -> Result(<<"expr", difference>>, env)
        [] item[1] = "size" ->
             Result(<<"expr", IF isType THEN <<"sizeof", IntType>>
                              ELSE <<"sizeof_expr", NameT(env)>>>>, env)
        [] item[1] = "object"  -> Result(Declares("none", "T", IntType), Bind(env, "object"))
        [] item[1] = "typedef" -> Result(Declares("typedef", "T", IntType), Bind(env, "typedef"))
        [] item[1] = "enum" ->
             [tree |-> <<"decl", <<>>>>, env |-> Bind(env, "enum"), right |-> Last(env) = ""]
        [] item[1] = "block" ->
             LET b == StandAll(item[2], Open(env))
             IN  [tree |-> <<"compound", b.tree>>, env |-> env, right |-> b.right]
        [] item[1] = "for" ->
             LET b == StandAll(<<item[2], item[3]>>, Open(env))
             IN  [tree |-> <<"for", b.tree[1], None, None, b.tree[2]>>, env |-> env,
                  right |-> b.right]
        [] item[1] = "label"  -> Holding(<<item[2]>>, LAMBDA t : <<"label", "T", t[1]>>)
        [] item[1] = "if"     -> Holding(<<item[2]>>, LAMBDA t : <<"if", A, t[1], None>>)
        [] item[1] = "ifelse" ->
             Holding(<<item[2], item[3]>>, LAMBDA t : <<"if", A, t[1], t[2]>>)
        [] item[1] = "while"  -> Holding(<<item[2]>>, LAMBDA t : <<"while", A, t[1]>>)
        [] item[1] = "do"     -> Holding(<<item[2]>>, LAMBDA t : <<"do", t[1], A>>)
        [] item[1] = "switch" ->
             Holding(<<item[2], item[3]>>, LAMBDA t :
               <<"switch", A, <<"compound", << <<"case", <<"int", 1, IntWidth, FALSE>>, t[1]>>,
                                               <<"break">>, <<"default", t[2]>> >>>>>>)
        [] item[1] = "return"   -> Result(<<"return", difference>>, env)
        [] item[1] = "goto"     -> Result(<<"goto", "T">>, env)
        [] item[1] = "continue" -> Result(<<"continue">>, env)

-----------------------------------------------------------------------------
(* A file: what T is before a function, the function with its parameters   *)
(* and its body, and a declaration that needs T to be a typedef.           *)

Preludes == <<"", "typedef", "enum">>
ParameterKinds == <<"none", "named T", "of type T">>

Prefix(p) == IF p = "" THEN <<>> ELSE Spelled(<<p>>)

ParametersOf(k) ==
  CASE k = "none"      -> <<>>
    [] k = "named T"   -> << <<IntType, "T">> >>
    [] k = "of type T" -> << <<IntType, "">> >>

FileTokens(p, k, items, more) ==
  Prefix(p) \o <<"int", "f", "(">>
    \o (CASE k = "none" -> <<>> [] k = "named T" -> <<"int", "T">> [] k = "of type T" -> <<"T">>)
    \o <<")", "{">> \o SpelledAll(items) \o <<"}">>
    \o (IF more THEN <<"T", "*", "b", ";">> ELSE <<>>)

FileUnits(p, k, items, more) ==
  LET body == StandAll(items, <<p, IF k = "named T" THEN "object" ELSE "">>)
      params == ParametersOf(k)
      type == <<"function", IntType, [i \in DOMAIN params |-> params[i][1]], FALSE>>
      prefix == CASE p = "" -> <<>>
                  [] p = "typedef" -> << <<"declaration", << <<"typedef", "T", IntType, None>> >> >> >>
                  [] p = "enum" -> << <<"declaration", <<>>>> >>
      function == <<"function", "none", "f", type, params, <<"compound", body.tree>>>>
      last == <<"declaration", << <<"none", "b", <<"pointer", IntType>>, None>> >> >>
  IN  IF ~body.right \/ (k = "of type T" /\ p # "typedef") \/ (more /\ p # "typedef")
      THEN None
      ELSE Append(prefix, function) \o (IF more THEN <<last>> ELSE <<>>)
=============================================================================
