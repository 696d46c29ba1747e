------------------------------- MODULE Parser -------------------------------
(***************************************************************************)
(* Expressions, type names and declarators of the parser                   *)
(* (parser/parser.c), by recursive descent as in the code: an operator for *)
(* each of its functions, from the state of the parser to the state in     *)
(* which the function leaves it.                                           *)
(*                                                                         *)
(* The state s of the parser has its cursor s.pos in the tokens s.toks,    *)
(* s.had_error, s.oom and the flags of the struct; s.scopes is the symbol  *)
(* table as Symtab.tla has it, a list of symbols for every open scope, the *)
(* newest symbol first.  s.v is what the last function returned: a syntax  *)
(* tree, a type, or Null, on a syntax error or a lack of memory.           *)
(* Every request for memory is counted in s.asked, and request number      *)
(* s.fail, if there is one, is refused.  s.status is for Statements.tla.  *)
(*                                                                         *)
(* Tokens are strings: identifiers, constants, keywords and punctuators.   *)
(* Trees and types are tuples as in ConstEval.tla, whose evaluator the     *)
(* parser calls.  Not modelled: qualifiers and function specifiers are     *)
(* consumed and forgotten, and so are the places of tokens; the parser has *)
(* a table of types and of symbols (the expression-only use is without).   *)
(***************************************************************************)
EXTENDS ConstEval, FiniteSets, SequencesExt

CONSTANTS
  Identifiers,       \* the tokens that are identifiers
  Constants,         \* the leaf of each constant token, a function
  Strings,           \* the tokens that are string literals
  InitialScopes      \* SYMTAB_INITIAL_SCOPES (8 in the code)

EOF  == "EOF"
Null == <<>>
Done == <<"done">>   \* success of a function without a result

NoFault == 0         \* s.fail where no request is refused

Parser0(toks, fail, scopes) ==
  [toks |-> toks, pos |-> 1, had_error |-> FALSE, oom |-> FALSE,
   scopes |-> scopes, scope_cap |-> InitialScopes, basics |-> {},
   in_param_list |-> FALSE, capture_params |-> FALSE, cap_params |-> <<>>,
   asked |-> 0, fail |-> fail, v |-> Done, status |-> "ok"]

-----------------------------------------------------------------------------
(* The cursor                                                              *)

Peek(s)  == s.toks[s.pos]
At(s, t) == Peek(s) = t
AtEnd(s) == At(s, EOF)
NextIn(s, S) == s.pos < Len(s.toks) /\ s.toks[s.pos + 1] \in S

Advance(s) == IF AtEnd(s) THEN s ELSE [s EXCEPT !.pos = @ + 1]

Returns(s, v) == [s EXCEPT !.v = v]

(* What follows if the last function did not return NULL.                  *)
OnSuccess(s, Continue(_)) == IF s.v = Null THEN s ELSE Continue(s)

-----------------------------------------------------------------------------
(* Memory and errors                                                       *)

Request(s) ==
  LET n == s.asked + 1
  IN  [s EXCEPT !.asked = n, !.v = IF n = s.fail THEN Null ELSE @]

(* fail_oom, where the last function returned NULL.                        *)
NoteOom(s) == IF s.v = Null THEN [s EXCEPT !.oom = TRUE] ELSE s

(* A node of a tree, or a type.                                            *)
Node(s, tree) == NoteOom(Request(Returns(s, tree)))

(* An array of n elements grows for one more when it is full.              *)
IsFull(n, first) == n = 0 \/ \E k \in 0 .. n : n = first * 2 ^ k
Room(s, n, first) == IF IsFull(n, first) THEN Request(s) ELSE s

(* parse_error: the diagnostic needs memory, too.                          *)
Error(s) ==
  LET d == Request(Returns(s, Done))
  IN  [d EXCEPT !.had_error = TRUE, !.oom = @ \/ d.v = Null, !.v = s.v]

Fail(s) == Returns(Error(s), Null)

Expect(s, t) == IF At(s, t) THEN Advance(s) ELSE Fail(s)

RECURSIVE SkipPast(_, _)
SkipPast(s, t) ==
  IF AtEnd(s) THEN s ELSE IF At(s, t) THEN Advance(s) ELSE SkipPast(Advance(s), t)

-----------------------------------------------------------------------------
(* The symbol table                                                        *)

Symbol(name, ns, kind, type, value) ==
  [name |-> name, ns |-> ns, kind |-> kind, type |-> type, value |-> value]

Unbound == Symbol("", "ordinary", "none", Null, 0)

FirstIn(list, name, ns) ==
  LET k == SelectInSeq(list, LAMBDA x : x.name = name /\ x.ns = ns)
  IN  IF k = 0 THEN Unbound ELSE list[k]

LookupCurrentScope(s, name, ns) == FirstIn(Last(s.scopes), name, ns)
Lookup(s, name, ns) == FirstIn(FlattenSeq(Reverse(s.scopes)), name, ns)

(* Faulty: a typedef is seen through a name that hides it.                 *)
IsTypedefSomewhere(s, name) ==
  \E list \in Range(s.scopes) : FirstIn(list, name, "ordinary").kind = "typedef"

IsTypedefName(s, name) == Lookup(s, name, "ordinary").kind = "typedef"

Insert(s, symbol) ==
  OnSuccess(Request(Returns(s, Done)), LAMBDA r :
    [r EXCEPT !.scopes[Len(r.scopes)] = <<symbol>> \o @])

PushScope(s) ==
  LET full == Len(s.scopes) = s.scope_cap
      r == IF full THEN Request(Returns(s, Done)) ELSE Returns(s, Done)
  IN  OnSuccess(r, LAMBDA q :
        [q EXCEPT !.scopes = Append(@, <<>>),
                  !.scope_cap = IF full THEN 2 * @ ELSE @])

(* The file scope is never closed.                                         *)
PopScope(s) ==
  IF Len(s.scopes) <= 1 THEN s ELSE [s EXCEPT !.scopes = Front(@)]

-----------------------------------------------------------------------------
(* Tokens that begin something                                             *)

StorageKeywords    == {"typedef", "extern", "static", "auto", "register",
                       "_Thread_local"}
Qualifiers         == {"const", "volatile", "restrict", "_Atomic"}
FunctionSpecifiers == {"inline", "_Noreturn"}
ArithmeticKeywords == {"void", "_Bool", "char", "short", "int", "long", "float",
                       "double", "signed", "unsigned"}
Unsupported        == {"_Complex", "_Imaginary"}

SpecifierKeywords ==
  UNION {StorageKeywords, Qualifiers, FunctionSpecifiers, ArithmeticKeywords,
         Unsupported, {"struct", "union", "enum"}}

BeginsType(s, t) ==
  t \in SpecifierKeywords \/ (t \in Identifiers /\ IsTypedefName(s, t))

(* lparen_starts_type                                                      *)
OpensType(s) ==
  At(s, "(") /\ s.pos < Len(s.toks) /\ BeginsType(s, s.toks[s.pos + 1])

AtDeclaration(s) == BeginsType(s, Peek(s)) \/ At(s, "_Static_assert")

UnaryOperators == {"&", "*", "+", "-", "~", "!"}
AssignmentOperators == {"=", "*=", "/=", "%=", "+=", "-=", "<<=", ">>=", "&=",
                        "^=", "|="}

Precedences == << {"||"}, {"&&"}, {"|"}, {"^"}, {"&"}, {"==", "!="},
                  {"<", ">", "<=", ">="}, {"<<", ">>"}, {"+", "-"},
                  {"*", "/", "%"} >>

(* binop_prec: 0 of a token that is no binary operator.                    *)
Precedence(t) == SelectInSeq(Precedences, LAMBDA level : t \in level)

-----------------------------------------------------------------------------
(* Expressions                                                             *)

(* The functions that reach themselves; Parse, at the end of this module,  *)
(* holds what each of them does.                                           *)
RECURSIVE Parse(_, _)

ParseExpression(s)  == Parse(s, <<"expression">>)
ParseAssignment(s)  == Parse(s, <<"assignment">>)
ParseConditional(s) == Parse(s, <<"conditional">>)
ParseBinary(s, min) == Parse(s, <<"binary", min>>)
ParseCast(s)        == Parse(s, <<"cast">>)
ParseUnary(s)       == Parse(s, <<"unary">>)
ParseTypeName(s)    == Parse(s, <<"type name">>)
ParseSpecifiers(s, ds) == Parse(s, <<"specifiers", ds>>)
ParseDeclarator(s, type, abstract) == Parse(s, <<"declarator", type, abstract>>)
ParseTypeSuffix(s, type) == Parse(s, <<"suffix", type>>)

RECURSIVE PostfixTail(_), BinaryTail(_, _), CommaTail(_), Arguments(_, _)

ParsePrimary(s) ==
  LET t == Peek(s)
  IN  CASE t \in Identifiers ->
             LET symbol == Lookup(s, t, "ordinary")
             IN  Node(Advance(s),
                      IF symbol.kind = "enum_const"
                      THEN <<"int", symbol.value, IntWidth, FALSE>> ELSE <<"id", t>>)
        [] t \in DOMAIN Constants -> Node(Advance(s), Constants[t])
        [] t \in Strings -> Node(Advance(s), <<"string", t>>)
        [] t = "(" -> OnSuccess(ParseExpression(Advance(s)), LAMBDA e : Expect(e, ")"))
        [] OTHER -> Fail(s)

Arguments(s, args) ==
  OnSuccess(ParseAssignment(s), LAMBDA a :
    OnSuccess(NoteOom(Room(a, Len(args), 4)), LAMBDA r :
      IF At(r, ",") THEN Arguments(Advance(r), Append(args, a.v))
      ELSE Returns(r, <<"args", Append(args, a.v)>>)))

ParseCall(s, callee) ==
  OnSuccess(IF At(s, ")") THEN Returns(s, <<"args", <<>>>>) ELSE Arguments(s, <<>>),
    LAMBDA a : OnSuccess(Expect(a, ")"), LAMBDA r :
      Node(r, <<"call", callee, a.v[2]>>)))

(* The loop of parse_postfix; NULL from a suffix counts as out of memory,  *)
(* from parse_call too.                                                    *)
PostfixTail(s) ==
  LET e == s.v
      t == Peek(s)
      n == Advance(s)
      Again(r) == IF r.v = Null THEN NoteOom(r) ELSE PostfixTail(r)
  IN  CASE t = "[" ->
             OnSuccess(ParseExpression(n), LAMBDA i :
               OnSuccess(Expect(i, "]"), LAMBDA r :
                 Again(Node(r, <<"index", e, i.v>>))))
        [] t = "(" -> Again(ParseCall(n, e))
        [] t \in {".", "->"} ->
             IF Peek(n) \in Identifiers
             THEN Again(Node(Advance(n), <<"member", t, e, Peek(n)>>))
             ELSE Fail(n)
        [] t \in {"++", "--"} -> Again(Node(n, <<"postfix", t, e>>))
        [] OTHER -> s

ParsePostfix(s) == OnSuccess(ParsePrimary(s), PostfixTail)

(* A type name and its ')'.                                                *)
TypeOperand(s) == OnSuccess(ParseTypeName(s), LAMBDA t : Expect(t, ")"))

UnaryExpression(s) ==
  LET t == Peek(s)
      n == Advance(s)
      Prefix(operand) == OnSuccess(operand, LAMBDA r : Node(r, <<"unary", t, r.v>>))
  IN  CASE t \in {"++", "--"} -> Prefix(ParseUnary(n))
        [] t \in UnaryOperators -> Prefix(ParseCast(n))
        [] t = "sizeof" /\ OpensType(n) ->
             OnSuccess(TypeOperand(Advance(n)), LAMBDA r : Node(r, <<"sizeof", r.v>>))
        [] t = "sizeof" /\ ~OpensType(n) ->
             OnSuccess(ParseUnary(n), LAMBDA r : Node(r, <<"sizeof_expr", r.v>>))
        [] t = "_Alignof" ->
             OnSuccess(Expect(n, "("), LAMBDA p :
               OnSuccess(TypeOperand(p), LAMBDA r : Node(r, <<"alignof", r.v>>)))
        [] OTHER -> ParsePostfix(s)

CastExpression(s) ==
  IF OpensType(s)
  THEN OnSuccess(TypeOperand(Advance(s)), LAMBDA t :
         IF At(t, "{") THEN Fail(t)
         ELSE OnSuccess(ParseCast(t), LAMBDA r : Node(r, <<"cast", t.v, r.v>>)))
  ELSE ParseUnary(s)

(* Faulty: the right operand may hold operators of the same precedence.    *)
BinaryTailRight(s, min) ==
  LET op == Peek(s)
      prec == Precedence(op)
  IN  IF prec = 0 \/ prec < min THEN s
      ELSE OnSuccess(ParseBinary(Advance(s), prec), LAMBDA r :
             OnSuccess(Node(r, <<"binary", op, s.v, r.v>>), LAMBDA q : BinaryTail(q, min)))

(* Precedence climbing: fold in the operators that bind at least as        *)
(* tightly as min.                                                         *)
BinaryTail(s, min) ==
  LET op == Peek(s)
      prec == Precedence(op)
  IN  IF prec = 0 \/ prec < min THEN s
      ELSE OnSuccess(ParseBinary(Advance(s), prec + 1), LAMBDA r :
             OnSuccess(Node(r, <<"binary", op, s.v, r.v>>), LAMBDA q : BinaryTail(q, min)))

BinaryExpression(s, min) == OnSuccess(ParseCast(s), LAMBDA l : BinaryTail(l, min))

ConditionalExpression(s) ==
  OnSuccess(ParseBinary(s, 1), LAMBDA c :
    IF ~At(c, "?") THEN c
    ELSE OnSuccess(ParseExpression(Advance(c)), LAMBDA a :
           OnSuccess(Expect(a, ":"), LAMBDA n :
             OnSuccess(ParseConditional(n), LAMBDA b :
               Node(b, <<"conditional", c.v, a.v, b.v>>)))))

AssignmentExpression(s) ==
  OnSuccess(ParseConditional(s), LAMBDA l :
    IF Peek(l) \notin AssignmentOperators THEN l
    ELSE OnSuccess(ParseAssignment(Advance(l)), LAMBDA r :
           Node(r, <<"assign", Peek(l), l.v, r.v>>)))

CommaTail(s) ==
  IF ~At(s, ",") THEN s
  ELSE OnSuccess(ParseAssignment(Advance(s)), LAMBDA r :
         OnSuccess(Node(r, <<"comma", s.v, r.v>>), CommaTail))

CommaExpression(s) == OnSuccess(ParseAssignment(s), CommaTail)

-----------------------------------------------------------------------------
(* Declaration specifiers                                                  *)

Specifiers == [storage |-> "none", keywords |-> <<>>, named |-> Null]

Basic(s, kind) ==
  IF kind \in s.basics THEN Returns(s, <<kind>>)
  ELSE OnSuccess(Node(s, <<kind>>), LAMBDA r : [r EXCEPT !.basics = @ \cup {kind}])

(* base_from_counts: the type that a multiset of keywords denotes.         *)
KindOf(keywords) ==
  LET Has(k) == Contains(keywords, k)
      Sign(plain, unsigned) == IF Has("unsigned") THEN unsigned ELSE plain
  IN  CASE Has("void") -> "void"
        [] Has("_Bool") /\ ~Has("void") -> "bool"
        [] OTHER ->
      CASE Has("double") -> IF Has("long") THEN "ldouble" ELSE "double"
        [] Has("float") /\ ~Has("double") -> "float"
        [] OTHER ->
      CASE Has("char") -> IF Has("signed") THEN "schar" ELSE Sign("char", "uchar")
        [] Has("short") /\ ~Has("char") -> Sign("short", "ushort")
        [] OTHER -> IF Has("long") THEN Sign("long", "ulong")
                    ELSE Sign("int", "uint")

InvalidCombination(keywords) ==
  LET Count(k) == Cardinality({i \in DOMAIN keywords : keywords[i] = k})
  IN  \/ Count("signed") > 0 /\ Count("unsigned") > 0
      \/ Count("long") > 2
      \/ \E k \in {"int", "char", "short"} : Count(k) > 1

(* ds_base_type                                                            *)
BaseType(s, ds) ==
  IF ds.named # Null THEN Returns(s, ds.named)
  ELSE IF ds.keywords = <<>> THEN Basic(Error(s), "int")
  ELSE Basic(IF InvalidCombination(ds.keywords) THEN Error(s) ELSE s,
             KindOf(ds.keywords))

(* An identifier that may follow struct, union or enum.                    *)
TagAt(s)   == IF Peek(s) \in Identifiers THEN Peek(s) ELSE ""
PastTag(s) == IF Peek(s) \in Identifiers THEN Advance(s) ELSE s

RECURSIVE SkipBraces(_, _)
SkipBraces(s, depth) ==
  IF AtEnd(s) THEN s
  ELSE IF At(s, "}") /\ depth = 1 THEN Advance(s)
  ELSE SkipBraces(Advance(s), CASE At(s, "{") -> depth + 1
                                [] At(s, "}") -> depth - 1
                                [] OTHER -> depth)

ParseStructUnion(s, kind) ==
  LET t == PastTag(s)
  IN  Node(IF At(t, "{") THEN SkipBraces(Error(t), 0) ELSE t, <<kind, TagAt(s)>>)

FitsInt(v) == v \in - 2 ^ (IntWidth - 1) .. 2 ^ (IntWidth - 1) - 1

IsEnumTag(symbol) == symbol.type # Null /\ symbol.type[1] = "enum"

(* A parameter list registers nothing.                                     *)
RegisterEnumerator(s, name, value) ==
  LET again == LookupCurrentScope(s, name, "ordinary") # Unbound
  IN  IF s.in_param_list THEN s
      ELSE NoteOom(Insert(IF again THEN Error(s) ELSE s,
                          Symbol(name, "ordinary", "enum_const", <<"int">>, value)))

CloseEnumerators(s) ==
  IF At(s, "}") THEN Advance(s) ELSE SkipPast(Error(s), "}")

Evaluated(s, r, next) ==
  IF r.st = "ok" THEN Returns(s, <<"value", Signed(r.bits)>>)
  ELSE Returns(Error(s), <<"value", next>>)

(* The value of an enumerator, given or one more than the last; Null if    *)
(* the expression is broken.                                               *)
EnumeratorValue(s, next) ==
  IF ~At(s, "=") THEN Returns(s, <<"value", next>>)
  ELSE OnSuccess(ParseConditional(Advance(s)), LAMBDA e : Evaluated(e, EvalConstInt(e.v), next))

RECURSIVE Enumerators(_, _)

(* The enumerator is registered, and the list goes on or ends.             *)
Enumerate(s, name) ==
  LET value   == s.v[2]
      Rest(r) == IF ~At(r, ",") THEN CloseEnumerators(r)
                 ELSE IF At(Advance(r), "}") THEN Advance(Advance(r))
                 ELSE Enumerators(Advance(r), value + 1)
  IN  IF s.v = Null
      THEN Returns(IF s.oom THEN CloseEnumerators(s) ELSE SkipPast(s, "}"), Done)
      ELSE OnSuccess(RegisterEnumerator(IF FitsInt(value) THEN s ELSE Error(s), name, value),
                     Rest)

Enumerators(s, next) ==
  IF Peek(s) \in Identifiers
  THEN Enumerate(EnumeratorValue(Advance(s), next), Peek(s))
  ELSE SkipPast(Error(s), "}")

NullIfOom(s) == IF s.oom THEN Returns(s, Null) ELSE s

(* The body of an enum, past its '{'.                                      *)
EnumBody(s) == IF At(s, "}") THEN Advance(Error(s)) ELSE NullIfOom(Enumerators(s, 0))

EnumDefinition(s, tag) ==
  LET prev  == LookupCurrentScope(s, tag, "tag")
      again == tag # "" /\ ~s.in_param_list /\ IsEnumTag(prev) /\ prev.type[3]
      DefineTag(t) ==
        IF tag = "" \/ t.in_param_list THEN t
        ELSE OnSuccess(NoteOom(Insert(t, Symbol(tag, "tag", "tag", t.v, 0))), LAMBDA i :
               Returns(i, t.v))
  IN  OnSuccess(Basic(IF again THEN Error(s) ELSE s, "int"), LAMBDA b :
        OnSuccess(EnumBody(b), LAMBDA e :
          OnSuccess(Node(e, <<"enum", tag, TRUE>>), DefineTag)))

ParseEnum(s) ==
  LET tag  == TagAt(s)
      t    == PastTag(s)
      prev == Lookup(s, tag, "tag")
  IN  CASE At(t, "{") -> EnumDefinition(Advance(t), tag)
        [] ~At(t, "{") /\ tag # "" /\ IsEnumTag(prev) -> Returns(t, prev.type)
        [] OTHER -> Node(t, <<"enum", tag, FALSE>>)

(* _Thread_local goes with another storage class.                          *)
StorageClash(ds, t) ==
  ds.storage \notin {"none", "_Thread_local", t} /\ t # "_Thread_local"

WithStorage(ds, t) ==
  IF t = "_Thread_local" /\ ds.storage # "none" THEN ds
  ELSE [ds EXCEPT !.storage = t]

(* A typedef name is a specifier as long as there is no other for the type.*)
NamesType(s, ds) ==
  /\ Peek(s) \in Identifiers /\ IsTypedefName(s, Peek(s))
  /\ ds.named = Null /\ ds.keywords = <<>>

SpecifierList(s, ds) ==
  LET t == Peek(s)
      n == Advance(s)
      Tagged(r) == IF r.v = Null THEN Returns(r, <<"specifiers", ds>>)
                   ELSE ParseSpecifiers(r, [ds EXCEPT !.named = r.v])
  IN  CASE t \in StorageKeywords ->
             ParseSpecifiers(IF StorageClash(ds, t) THEN Advance(Error(s)) ELSE n,
                             WithStorage(ds, t))
        [] t \in Qualifiers \cup FunctionSpecifiers -> ParseSpecifiers(n, ds)
        [] t \in ArithmeticKeywords ->
             ParseSpecifiers(n, [ds EXCEPT !.keywords = Append(@, t)])
        [] t \in Unsupported -> ParseSpecifiers(Advance(Error(s)), ds)
        [] t = "enum" -> Tagged(ParseEnum(n))
        [] t \in {"struct", "union"} -> Tagged(ParseStructUnion(n, t))
        [] NamesType(s, ds) ->
             ParseSpecifiers(n, [ds EXCEPT !.named = Lookup(s, t, "ordinary").type])
        [] OTHER -> Returns(s, <<"specifiers", ds>>)

-----------------------------------------------------------------------------
(* Declarators.  A declarator is parsed against the type that stands to    *)
(* its left, and the result is the type of its name, and the name; a       *)
(* missing name is "".                                                     *)

RECURSIVE Parameters(_, _), SkipQualifiers(_)

SkipQualifiers(s) ==
  IF Peek(s) \in Qualifiers THEN SkipQualifiers(Advance(s)) ELSE s

(* A parameter of array or function type becomes a pointer.                *)
AdjustParam(d) ==
  LET type == d.v[1]
      PointerTo(t) == OnSuccess(Node(d, <<"pointer", t>>), LAMBDA p :
                        Returns(p, <<p.v, d.v[2]>>))
  IN  CASE type[1] = "array" -> PointerTo(type[2])
        [] type[1] = "function" -> PointerTo(type)
        [] OTHER -> d

Parameter(s) ==
  LET specified == ParseSpecifiers([s EXCEPT !.in_param_list = TRUE], Specifiers)
  IN  OnSuccess(NullIfOom([specified EXCEPT !.in_param_list = s.in_param_list]), LAMBDA r :
        OnSuccess(BaseType(r, r.v[2]), LAMBDA b :
          OnSuccess(ParseDeclarator(b, b.v, TRUE), AdjustParam)))

Parameters(s, list) ==
  LET Grown(r) == NoteOom(Room(r, Len(list), 4))
      More(r, longer) == IF At(r, ",") THEN Parameters(Advance(r), longer)
                          ELSE Returns(r, <<"parameters", longer, FALSE>>)
  IN  IF At(s, "...") THEN Returns(Advance(s), <<"parameters", list, TRUE>>)
      ELSE OnSuccess(Parameter(s), LAMBDA d :
             OnSuccess(Grown(d), LAMBDA g :
               OnSuccess(IF g.capture_params THEN Grown(g) ELSE g, LAMBDA r :
                 More(r, Append(list, d.v)))))

(* The function type, and its parameters for the body that may follow.     *)
CloseParameters(s, ret, list, variadic) ==
  LET types == [i \in DOMAIN list |-> list[i][1]]
      Capture(f) ==
        LET r == NoteOom(Request([f EXCEPT !.cap_params = <<>>]))
        IN  IF ~f.capture_params THEN f
            ELSE IF list = <<>> THEN [f EXCEPT !.cap_params = <<>>]
            ELSE OnSuccess(r, LAMBDA q : [q EXCEPT !.cap_params = list])
  IN  OnSuccess(Node(s, <<"function", ret, types, variadic>>), Capture)

(* parse_func_params, past the '('.                                        *)
FuncParams(s, ret) ==
  CASE At(s, ")") -> CloseParameters(Advance(s), ret, <<>>, FALSE)
    [] At(s, "void") /\ NextIn(s, {")"}) ->
         CloseParameters(Advance(Advance(s)), ret, <<>>, FALSE)
    [] OTHER ->
         OnSuccess(Parameters(s, <<>>), LAMBDA p :
           OnSuccess(Expect(p, ")"), LAMBDA r :
             CloseParameters(r, ret, p.v[2], p.v[3])))

KnownLength(r) == IF r.st = "ok" THEN <<r.bits, TRUE>> ELSE <<0, FALSE>>

(* The length of an array, if there is a constant one.                     *)
ArrayBound(s) ==
  IF At(s, "]") THEN Returns(s, <<0, FALSE>>)
  ELSE OnSuccess(ParseAssignment(s), LAMBDA e : Returns(e, KnownLength(EvalConstInt(e.v))))

(* The leftmost suffix binds outermost.                                    *)
TypeSuffix(s, type) ==
  CASE At(s, "(") -> FuncParams(Advance(s), type)
    [] At(s, "[") ->
         OnSuccess(ArrayBound(Advance(s)), LAMBDA b :
           OnSuccess(Expect(b, "]"), LAMBDA r :
             OnSuccess(ParseTypeSuffix(r, type), LAMBDA inner :
               Node(inner, <<"array", inner.v, b.v[1], b.v[2]>>))))
    [] OTHER -> Returns(s, type)

Suffixed(s, type, name) ==
  OnSuccess(ParseTypeSuffix(s, type), LAMBDA r : Returns(r, <<r.v, name>>))

(* Does the parenthesis group a declarator, or open a parameter list?      *)
Groups(s, abstract) ==
  At(s, "(") /\ (abstract => NextIn(s, {"*", "(", "["}))

(* Faulty: the suffixes are applied to what the parentheses made of the    *)
(* type, in one pass.                                                      *)
NestedOnce(s, type, abstract) ==
  OnSuccess(ParseDeclarator(Advance(s), type, abstract), LAMBDA d :
    OnSuccess(Expect(d, ")"), LAMBDA r : Suffixed(r, d.v[1], d.v[2])))

(* Two passes: skip the inner declarator, take the suffixes that follow    *)
(* the parentheses, and parse the inner declarator against their type.     *)
Nested(s, type, abstract) ==
  LET inside == Advance(s)
  IN  OnSuccess(ParseDeclarator(inside, type, abstract), LAMBDA skipped :
        OnSuccess(Expect(skipped, ")"), LAMBDA r :
          OnSuccess(ParseTypeSuffix(r, type), LAMBDA end :
            OnSuccess(ParseDeclarator([end EXCEPT !.pos = inside.pos], end.v, abstract),
                      LAMBDA d : [d EXCEPT !.pos = end.pos]))))

DirectDeclarator(s, type, abstract) ==
  CASE Groups(s, abstract) -> Nested(s, type, abstract)
    [] ~Groups(s, abstract) /\ Peek(s) \in Identifiers ->
         Suffixed(Advance(s), type, Peek(s))
    [] ~Groups(s, abstract) /\ Peek(s) \notin Identifiers ->
         IF abstract THEN Suffixed(s, type, "") ELSE Fail(s)

Declarator(s, type, abstract) ==
  IF At(s, "*")
  THEN OnSuccess(Node(SkipQualifiers(Advance(s)), <<"pointer", type>>), LAMBDA p :
         ParseDeclarator(p, p.v, abstract))
  ELSE DirectDeclarator(s, type, abstract)

(* A type name declares no name.                                           *)
NamedType(s) ==
  OnSuccess(NullIfOom(ParseSpecifiers(s, Specifiers)), LAMBDA r :
    OnSuccess(BaseType(r, r.v[2]), LAMBDA b :
      OnSuccess(ParseDeclarator(b, b.v, TRUE), LAMBDA d :
        Returns(IF d.v[2] # "" THEN Error(d) ELSE d, d.v[1]))))

Parse(s, f) ==
  CASE f[1] = "expression"  -> CommaExpression(s)
    [] f[1] = "assignment"  -> AssignmentExpression(s)
    [] f[1] = "conditional" -> ConditionalExpression(s)
    [] f[1] = "binary"      -> BinaryExpression(s, f[2])
    [] f[1] = "cast"        -> CastExpression(s)
    [] f[1] = "unary"       -> UnaryExpression(s)
    [] f[1] = "type name"   -> NamedType(s)
    [] f[1] = "specifiers"  -> SpecifierList(s, f[2])
    [] f[1] = "declarator"  -> Declarator(s, f[2], f[3])
    [] f[1] = "suffix"      -> TypeSuffix(s, f[2])
=============================================================================
