--------------------------- MODULE TranslationUnit ---------------------------
(***************************************************************************)
(* The public functions of the parser (parser/parser.h) and the loop of    *)
(* app/main.c over them: a function is called again and again on one       *)
(* parser until the tokens end or a call fails.                            *)
(*                                                                         *)
(* An input is a record of the function to call (entry), the tokens, the   *)
(* symbols at file scope when the parser is made, the request for memory   *)
(* that is refused (NoFault if none is), what kind of input it is, and the *)
(* trees that the calls should return for it (Null if some call should     *)
(* fail).                                                                  *)
(***************************************************************************)
EXTENDS Statements

CONSTANTS
  Inputs,      \* the families of inputs, a sequence of sets
  Operands,    \* the trees of the tokens that are operands of expressions
  TypeNames    \* the types of the sequences of tokens that are type names

VARIABLES
  input,
  parser,    \* the parser between two calls
  status,    \* what the last call returned
  units      \* the trees returned so far

vars == <<input, parser, status, units>>

Init ==
  /\ \E family \in DOMAIN Inputs : input \in Inputs[family]
  /\ parser = Parser0(Append(input.toks, EOF), input.fail, <<input.symbols>>)
  /\ status = "ok"
  /\ units = <<>>

Calls(entry) == input.entry = entry /\ status = "ok" /\ ~AtEnd(parser)

Return(r) ==
  /\ parser' = [r EXCEPT !.v = Done, !.status = "ok"]
  /\ status' = r.status
  /\ units' = IF r.status = "ok" THEN Append(units, r.v) ELSE units
  /\ UNCHANGED input

(* What qcc_parse_expression and qcc_parse_statement return.               *)
Summary(r) ==
  [r EXCEPT !.status = CASE r.oom -> "oom"
                         [] ~r.oom /\ (r.v = Null \/ r.had_error) -> "parse"
                         [] OTHER -> "ok"]

(* What qcc_parse_type_name returns.                                       *)
TypeNameSummary(r) ==
  IF r.v = Null THEN OrVerdict(r)
  ELSE [r EXCEPT !.status = IF r.had_error THEN "parse" ELSE "ok"]

Expression  == Calls("expression")  /\ Return(Summary(ParseExpression(parser)))
Statement   == Calls("statement")   /\ Return(Summary(ParseStatement(parser)))
TypeName    == Calls("type name")   /\ Return(TypeNameSummary(ParseTypeName(parser)))
Declaration == Calls("declaration") /\ Return(ParseDeclaration(parser))

(* One turn of the loop in parse_and_dump_ast.                             *)
ExternalDeclaration == Calls("unit") /\ Return(ParseExternalDeclaration(parser))

Next == Expression \/ Statement \/ TypeName \/ Declaration \/ ExternalDeclaration

Spec == Init /\ [][Next]_vars

-----------------------------------------------------------------------------
Over == status # "ok" \/ AtEnd(parser)

Grammar == INSTANCE ExpressionGrammar WITH Leaves <- Operands

(* The parser lets a typedef name be an operand, too.                      *)
Loose == INSTANCE ExpressionGrammar WITH
  Leaves <- [t \in UNION {DOMAIN Operands, {w[1] : w \in DOMAIN TypeNames}} |->
               IF t \in DOMAIN Operands THEN Operands[t] ELSE <<"id", t>>]

(* The precedence climbing and the look-ahead for casts and sizeof         *)
(* (parse_expression and below) give every expression the one tree that    *)
(* C's grammar derives for it, and no tree to a string that is none,       *)
(* unless a typedef name is one of its operands.                           *)
ExpressionsConform ==
  (Over /\ input.kind = "expression") =>
    LET trees == Grammar!Expressions(input.toks)
    IN  IF trees # {} THEN status = "ok" /\ trees = {units[1]} /\ Len(units) = 1
        ELSE status = "ok" /\ Len(units) = 1 => units[1] \in Loose!Expressions(input.toks)

(* The calls on an input whose meaning is known return its trees, and one  *)
(* of them fails where there is none.                                      *)
AsMeant == IF input.meant = Null THEN status # "ok" ELSE status = "ok" /\ units = input.meant

(* The two-pass parse of nested declarators (parse_direct_declarator),     *)
(* under the speculation of qcc_parse_external_declaration, gives every    *)
(* name the type that its declarator reads inside out, and gives a         *)
(* function definition the names and types of its own parameters, not of   *)
(* a parameter list elsewhere in the declarator.                           *)
DeclaratorsConform == (Over /\ input.kind = "declarator") => AsMeant

(* Wherever one name is a typedef, an object, an enumerator and a label in *)
(* turn, in scopes that open and close (parse_block_items, at_label,       *)
(* lparen_starts_type), every statement is read by the declaration in      *)
(* force where it stands, and every else goes with its own if.             *)
ProgramsConform == (Over /\ input.kind = "program") => AsMeant

(* However a call ends, every scope it opened is closed, and the flags     *)
(* that guide the parse of declarators are down.                           *)
ScopesBalanced ==
  Len(parser.scopes) = 1 /\ ~parser.in_param_list /\ ~parser.capture_params

(* No call in which a request for memory was refused reports success.      *)
RefusalsReported ==
  (parser.fail \in 1 .. parser.asked) => status # "ok"

(* A syntax error is reported before a call returns QCC_ERR_PARSE.         *)
ParseErrorsDiagnosed == status = "parse" => parser.had_error

(* No name is registered more often than it is written, however often its  *)
(* declarator is parsed.                                                   *)
RegistersOnce ==
  LET Names(symbols) == [i \in DOMAIN symbols |-> symbols[i].name]
      Times(name, names) == Cardinality({i \in DOMAIN names : names[i] = name})
      registered == Names(parser.scopes[1])
  IN  \A name \in Range(registered) :
        Times(name, registered) <= Times(name, Names(input.symbols) \o input.toks)
=============================================================================
