----------------------------- MODULE Statements -----------------------------
(***************************************************************************)
(* Declarations, statements and external definitions of the parser         *)
(* (parser/parser.c), over the declarators and expressions of Parser.tla.  *)
(*                                                                         *)
(* The functions that return a status leave it in s.status ("ok", "parse"  *)
(* or "oom"); where it is not "ok" they return Null.  A statement is a     *)
(* tuple that begins with its kind, and a part that is absent is Null.     *)
(***************************************************************************)
EXTENDS Parser

(* The calls from one function to another that may come back to it, and to *)
(* those of Parser.tla; Call, at the end of this module, holds what each   *)
(* of them does.                                                           *)
RECURSIVE Call(_, _)

ParseStatement(s)           == Call(s, <<"statement">>)
ParseDeclaration(s)         == Call(s, <<"declaration">>)
ParseExternalDeclaration(s) == Call(s, <<"external">>)
FullExpression(s)           == Call(s, <<"expression">>)
ConstantExpression(s)       == Call(s, <<"conditional">>)
InitialValue(s)             == Call(s, <<"assignment">>)
AllSpecifiers(s)            == Call(s, <<"specifiers", Specifiers>>)
FullDeclarator(s, base)     == Call(s, <<"declarator", base, FALSE>>)

OrStatus(s, st) == IF s.v = Null THEN [s EXCEPT !.status = st] ELSE s

(* p->oom ? QCC_ERR_OUT_OF_MEMORY : QCC_ERR_PARSE                          *)
OrVerdict(s) == OrStatus(s, IF s.oom THEN "oom" ELSE "parse")

(* Success, unless a syntax error was diagnosed on the way.                *)
Accept(s, v) ==
  [s EXCEPT !.status = IF s.had_error THEN "parse" ELSE "ok",
            !.v = IF s.had_error THEN Null ELSE v]

-----------------------------------------------------------------------------
(* Declarations                                                            *)

(* A failing assertion is diagnosed as a syntax error is.                  *)
Asserted(s, c) ==
  IF c.st # "ok" \/ c.bits = 0 THEN OrStatus(Fail(s), "parse")
  ELSE Accept(s, <<"decls", <<>>>>)

ParseStaticAssert(s) ==
  OnSuccess(OrStatus(Expect(Advance(s), "("), "parse"), LAMBDA p :
    OnSuccess(OrVerdict(ConstantExpression(p)), LAMBDA c :
      OnSuccess(OrStatus(Expect(c, ","), "parse"), LAMBDA m :
        OnSuccess(OrStatus(IF Peek(m) \in Strings THEN Advance(m) ELSE Fail(m), "parse"),
          LAMBDA q :
            OnSuccess(OrStatus(Expect(q, ")"), "parse"), LAMBDA r :
              OnSuccess(OrStatus(Expect(r, ";"), "parse"), LAMBDA e :
                Asserted(e, EvalConstInt(c.v))))))))

(* The specifiers of a declaration and the type they denote.               *)
SpecifiersAndBase(s) ==
  OnSuccess(OrVerdict(NullIfOom(AllSpecifiers(s))), LAMBDA r :
    OnSuccess(OrVerdict(BaseType(r, r.v[2])), LAMBDA b :
      Returns(b, <<"base", r.v[2], b.v>>)))

Initializer(s) ==
  IF ~At(s, "=") THEN Returns(s, <<"init", Null>>)
  ELSE OnSuccess(InitialValue(Advance(s)), LAMBDA e : Returns(e, <<"init", e.v>>))

KindOfSymbol(ds, type) ==
  CASE ds.storage = "typedef" -> "typedef"
    [] ds.storage # "typedef" /\ type[1] = "function" -> "function"
    [] OTHER -> "object"

(* The names of a declaration, each registered after its initializer.  A   *)
(* symbol or an entry of the list that finds no memory ends the            *)
(* declaration with a status, and leaves p->oom as it is.                  *)
RECURSIVE Declarators(_, _, _, _)
Declarators(s, ds, base, list) ==
  LET Declare(i, d) ==
        OrStatus(Insert(i, Symbol(d.v[2], "ordinary", KindOfSymbol(ds, d.v[1]), d.v[1], 0)),
                 "oom")
      Rest(r, longer) ==
        IF At(r, ",") THEN Declarators(Advance(r), ds, base, longer)
        ELSE OnSuccess(OrStatus(Expect(r, ";"), "parse"), LAMBDA e :
               Accept(e, <<"decls", longer>>))
  IN  OnSuccess(OrVerdict(FullDeclarator(s, base)), LAMBDA d :
        OnSuccess(OrVerdict(Initializer(d)), LAMBDA i :
          OnSuccess(Declare(i, d), LAMBDA r :
            OnSuccess(OrStatus(Room(r, Len(list), 8), "oom"), LAMBDA q :
              Rest(q, Append(list, <<ds.storage, d.v[2], d.v[1], i.v[2]>>))))))

InitDeclarators(s, ds, base) ==
  IF At(s, ";") THEN Accept(Advance(s), <<"decls", <<>>>>)
  ELSE Declarators(s, ds, base, <<>>)

DeclarationOrAssertion(s) ==
  IF At(s, "_Static_assert") THEN ParseStaticAssert(s)
  ELSE OnSuccess(SpecifiersAndBase(s), LAMBDA b : InitDeclarators(b, b.v[2], b.v[3]))

-----------------------------------------------------------------------------
(* Statements                                                              *)

RECURSIVE BlockItems(_, _)

(* A label may even be spelled as a typedef name.                          *)
AtLabel(s) == Peek(s) \in Identifiers /\ NextIn(s, {":"})

(* The status of the declaration is dropped.                               *)
ParseDeclStatement(s) ==
  OnSuccess(ParseDeclaration(s), LAMBDA d : Node(d, <<"decl", d.v[2]>>))

ExpressionStatement(s) ==
  IF At(s, ";") THEN Node(Advance(s), <<"expr", Null>>)
  ELSE OnSuccess(FullExpression(s), LAMBDA e :
         OnSuccess(Expect(e, ";"), LAMBDA r : Node(r, <<"expr", r.v>>)))

BlockItems(s, items) ==
  LET item == IF ~AtLabel(s) /\ AtDeclaration(s) THEN ParseDeclStatement(s)
              ELSE ParseStatement(s)
  IN  IF At(s, "}") \/ AtEnd(s)
      THEN OnSuccess(Expect(s, "}"), LAMBDA r : Node(r, <<"compound", items>>))
      ELSE OnSuccess(item, LAMBDA i :
             OnSuccess(NoteOom(Room(i, Len(items), 8)), LAMBDA r :
               BlockItems(r, Append(items, i.v))))

(* parse_block_items, at the '{'.                                          *)
Block(s) == BlockItems(Advance(s), <<>>)

(* Faulty: a block that does not parse leaves its scope open.              *)
CompoundLeaky(s) ==
  OnSuccess(NoteOom(PushScope(s)), LAMBDA p : OnSuccess(Block(p), PopScope))

CompoundStatement(s) ==
  OnSuccess(NoteOom(PushScope(s)), LAMBDA p : PopScope(Block(p)))

(* '(' expression ')'                                                      *)
Controlling(s) ==
  OnSuccess(Expect(s, "("), LAMBDA p :
    OnSuccess(FullExpression(p), LAMBDA e : Expect(e, ")")))

(* An else belongs to the nearest if.                                      *)
IfStatement(s) ==
  OnSuccess(Controlling(Advance(s)), LAMBDA c :
    OnSuccess(ParseStatement(c), LAMBDA t :
      IF ~At(t, "else") THEN Node(t, <<"if", c.v, t.v, Null>>)
      ELSE OnSuccess(ParseStatement(Advance(t)), LAMBDA e :
             Node(e, <<"if", c.v, t.v, e.v>>))))

(* switch and while                                                        *)
ControlledStatement(s, kind) ==
  OnSuccess(Controlling(Advance(s)), LAMBDA c :
    OnSuccess(ParseStatement(c), LAMBDA b : Node(b, <<kind, c.v, b.v>>)))

DoStatement(s) ==
  OnSuccess(ParseStatement(Advance(s)), LAMBDA b :
    OnSuccess(Expect(b, "while"), LAMBDA w :
      OnSuccess(Controlling(w), LAMBDA c :
        OnSuccess(Expect(c, ";"), LAMBDA r : Node(r, <<"do", b.v, c.v>>)))))

(* The first clause of a for with its ';': a declaration, an expression or *)
(* nothing.                                                                *)
ForInit(s) ==
  CASE At(s, ";") -> Returns(Advance(s), <<"clause", Null>>)
    [] AtDeclaration(s) ->
         OnSuccess(ParseDeclStatement(s), LAMBDA d : Returns(d, <<"clause", d.v>>))
    [] OTHER -> OnSuccess(ExpressionStatement(s), LAMBDA e : Returns(e, <<"clause", e.v>>))

(* Another clause, up to the token that ends it.                           *)
ForClause(s, end) ==
  IF At(s, end) THEN Returns(Advance(s), <<"clause", Null>>)
  ELSE OnSuccess(FullExpression(s), LAMBDA e :
         OnSuccess(Expect(e, end), LAMBDA r : Returns(r, <<"clause", r.v>>)))

ForInner(s) ==
  OnSuccess(Expect(s, "("), LAMBDA p :
    OnSuccess(ForInit(p), LAMBDA i :
      OnSuccess(ForClause(i, ";"), LAMBDA c :
        OnSuccess(ForClause(c, ")"), LAMBDA n :
          OnSuccess(ParseStatement(n), LAMBDA b :
            Node(b, <<"for", i.v[2], c.v[2], n.v[2], b.v>>))))))

(* A declaration in the first clause is scoped to the loop.                *)
ForStatement(s) ==
  OnSuccess(NoteOom(PushScope(Advance(s))), LAMBDA p : PopScope(ForInner(p)))

GotoStatement(s) ==
  LET id == Peek(s)
  IN  IF id \notin Identifiers THEN Fail(s)
      ELSE OnSuccess(Expect(Advance(s), ";"), LAMBDA r : Node(r, <<"goto", id>>))

(* break and continue                                                      *)
JumpStatement(s, kind) == OnSuccess(Expect(Advance(s), ";"), LAMBDA r : Node(r, <<kind>>))

ReturnStatement(s) ==
  OnSuccess(ForClause(Advance(s), ";"), LAMBDA r : Node(r, <<"return", r.v[2]>>))

LabelStatement(s) ==
  OnSuccess(ParseStatement(Advance(Advance(s))), LAMBDA b :
    Node(b, <<"label", Peek(s), b.v>>))

CaseStatement(s) ==
  OnSuccess(ConstantExpression(Advance(s)), LAMBDA c :
    OnSuccess(Expect(c, ":"), LAMBDA r :
      OnSuccess(ParseStatement(r), LAMBDA b : Node(b, <<"case", c.v, b.v>>))))

DefaultStatement(s) ==
  OnSuccess(Expect(Advance(s), ":"), LAMBDA r :
    OnSuccess(ParseStatement(r), LAMBDA b : Node(b, <<"default", b.v>>)))

StatementOfKind(s) ==
  LET t == Peek(s)
  IN  CASE t = "{" -> CompoundStatement(s)
        [] t = "if" -> IfStatement(s)
        [] t \in {"switch", "while"} -> ControlledStatement(s, t)
        [] t = "do" -> DoStatement(s)
        [] t = "for" -> ForStatement(s)
        [] t = "goto" -> GotoStatement(Advance(s))
        [] t \in {"break", "continue"} -> JumpStatement(s, t)
        [] t = "return" -> ReturnStatement(s)
        [] t = "case" -> CaseStatement(s)
        [] t = "default" -> DefaultStatement(s)
        [] AtLabel(s) -> LabelStatement(s)
        [] OTHER -> ExpressionStatement(s)

-----------------------------------------------------------------------------
(* External definitions                                                    *)

(* decls_into_extern                                                       *)
IntoExtern(s) ==
  OnSuccess(s, LAMBDA d :
    IF d.v[2] = <<>> THEN Returns(d, <<"declaration", <<>>>>)
    ELSE OrVerdict(Node(d, <<"declaration", d.v[2]>>)))

(* Faulty: a parameter that finds no memory is not noticed.                *)
BindParametersSilently(s, params) ==
  FoldLeft(LAMBDA r, param :
             IF param[2] = "" THEN r
             ELSE Returns(Insert(r, Symbol(param[2], "ordinary", "object", param[1], 0)), r.v),
           s, params)

(* An unnamed parameter binds nothing.                                     *)
BindParameters(s, params) ==
  FoldLeft(LAMBDA r, param :
             IF r.v = Null \/ param[2] = "" THEN r
             ELSE Insert(r, Symbol(param[2], "ordinary", "object", param[1], 0)),
           s, params)

(* The name is visible in its own body, and the parameters share the scope *)
(* of the outermost block.                                                 *)
FunctionDefinition(s, ds) ==
  LET type   == s.v[1]
      name   == s.v[2]
      params == s.cap_params
      Body(p) ==
        LET bound == BindParameters(p, params)
        IN  IF bound.v = Null THEN OrStatus(PopScope(bound), "oom")
            ELSE OnSuccess(OrVerdict(PopScope(Block(bound))), LAMBDA b :
                   Accept(b, <<"function", ds.storage, name, type, params, b.v>>))
  IN  OnSuccess(OrStatus(Insert(s, Symbol(name, "ordinary", "function", type, 0)), "oom"),
        LAMBDA i : OnSuccess(OrStatus(PushScope(i), "oom"), Body))

(* The first declarator is parsed once to see whether a body follows; if   *)
(* none does, the declarators are parsed again from where they began.      *)
ExternalDefinition(s) ==
  LET Speculate(b) ==
        LET d == FullDeclarator([b EXCEPT !.capture_params = TRUE, !.cap_params = <<>>],
                                b.v[3])
        IN  OrVerdict([d EXCEPT !.capture_params = FALSE])
      Decide(b, f) ==
        IF f.v[1][1] = "function" /\ At(f, "{") THEN FunctionDefinition(f, b.v[2])
        ELSE IntoExtern(InitDeclarators([f EXCEPT !.pos = b.pos], b.v[2], b.v[3]))
  IN  IF At(s, "_Static_assert") THEN IntoExtern(ParseDeclaration(s))
      ELSE OnSuccess(SpecifiersAndBase(s), LAMBDA b :
             IF At(b, ";") THEN IntoExtern(InitDeclarators(b, b.v[2], b.v[3]))
             ELSE OnSuccess(Speculate(b), LAMBDA f : Decide(b, f)))

Call(s, f) ==
  CASE f[1] = "statement"   -> StatementOfKind(s)
    [] f[1] = "declaration" -> DeclarationOrAssertion(s)
    [] f[1] = "external"    -> ExternalDefinition(s)
    [] OTHER -> Parse(s, f)
=============================================================================
