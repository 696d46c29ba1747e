------------------------------ MODULE Expansion ------------------------------
(***************************************************************************)
(* Phase 4 of the translation: the driver loop of pp/pp.c over the input   *)
(* stack of pp/internal/stream.c, with the macro expansion of              *)
(* pp/internal/expand.c, its operators # and ## (pp/internal/glue.c), the  *)
(* hide sets of pp/internal/hideset.c and the directives #define, #undef,  *)
(* #include, #line and #pragma of pp/internal/directive.c.                 *)
(*                                                                         *)
(* qcc_pp_run, and expand_token_list for a macro argument or a computed    *)
(* #include, are each an activation with a stream of its own: acts[1] is   *)
(* the driver, the last one is running.  An action takes one token from    *)
(* the stream, or substitutes one token of a replacement list.             *)
(*                                                                         *)
(* A token is its spelling, whether white space comes before it, whether   *)
(* it begins a line, its presumed line and its hide set.  A string made by *)
(* # is spelled "string" and holds the tokens it quotes; how their         *)
(* characters are escaped is the subject of Rendering.  Left out: the      *)
(* presumed file, and the conditional directives, the subject of           *)
(* Conditionals.                                                           *)
(***************************************************************************)
EXTENDS Naturals, Integers, Sequences, FiniteSets, TLC

CONSTANTS
  Names,             \* the identifiers that may be macros or parameters
  HeaderNames,       \* spellings that read as a header name
  Headers,           \* the files that exist: a function on header names
  Programs,          \* [macros, file]: definitions in force, and a source
  Pastes,            \* what two spellings read as, when that is one token
  Numbers,           \* the digit sequences, and what they stand for
  LineMax,           \* QCC_LINE_MAX (2147483647 in the code)
  IncludeCap         \* QCC_INCL_MAX_DEPTH (200 in the code)

Strings == STRING

(* What may be defined, when tokens are drawn from a set.                  *)
Definable(tokens) ==
  [kind : {"none", "object", "function", "line"}, params : Seq(Names),
   variadic : BOOLEAN, body : Seq(tokens)]

(* A token of a replacement list that was given to the run.                *)
GivenTokens ==
  [sym : Strings, text : {<<>>}, space : BOOLEAN, bol : BOOLEAN, line : Nat,
   hs : {{}}]

ASSUME ExpansionAssumption ==
  /\ IncludeCap \in Nat \ {0}
  /\ LineMax \in Nat
  /\ IsFiniteSet(Names) /\ Names \subseteq Strings
  /\ Names \cap {"(", ")", ",", "#", "##", "...", " ", "nl", "eof", "string",
                 "file", "argument"} = {}
  /\ DOMAIN Headers \subseteq HeaderNames
  /\ Headers \in [DOMAIN Headers -> Seq(Strings)]
  /\ Numbers \in [DOMAIN Numbers -> Nat] /\ Names \cap DOMAIN Numbers = {}
  /\ Pastes \in [DOMAIN Pastes -> Strings]
  /\ \A p \in DOMAIN Pastes : "string" \notin {p[1], p[2], Pastes[p]}
  /\ Programs \subseteq
       [macros : [Names -> Definable(GivenTokens)], file : Seq(Strings)]

VARIABLES
  program,           \* what the run was given; it never changes
  macros,            \* pp->macros
  acts,              \* the activations, the driver first
  status             \* qcc_status of the run, "running" until it returns

vars == <<program, macros, acts, status>>

NoMacro ==
  [kind |-> "none", params |-> <<>>, variadic |-> FALSE, body |-> <<>>]

Eof == [sym |-> "eof", text |-> <<>>, space |-> FALSE, bol |-> TRUE,
        line |-> 0, hs |-> {}]

LineEnd(t) == t.sym \in {"nl", "eof"}

(* The n-th of a set of positions, and the elements of s at all of them.   *)
Nth(P, n)  == CHOOSE p \in P : Cardinality({q \in P : q <= p}) = n
Keep(s, P) == [n \in 1 .. Cardinality(P) |-> s[Nth(P, n)]]

(* The lexer's tokens of a file: the last line is always ended.  " " in a  *)
(* source is white space.                                                  *)
FileTokens(syms) ==
  LET lines  == IF syms = <<>> \/ syms[Len(syms)] = "nl" THEN syms
                ELSE Append(syms, "nl")
      Before(i) == {j \in 1 .. i - 1 : lines[j] = "nl"}
      First(i)  == \A j \in 1 .. i - 1 :
                     lines[j] # " " => \E k \in Before(i) : j <= k
      Lexed(i) == [sym |-> lines[i], text |-> <<>>, bol |-> First(i),
                   space |-> i > 1 /\ lines[i - 1] = " ",
                   line |-> Cardinality(Before(i)) + 1, hs |-> {}]
  IN  Keep([i \in DOMAIN lines |-> Lexed(i)],
           {i \in DOMAIN lines : lines[i] # " "})

FileFrame(syms) == [of |-> "file", toks |-> FileTokens(syms), delta |-> 0]

NoCall == [name |-> Eof, args |-> <<>>, cur |-> <<>>, depth |-> 0, gap |-> FALSE,
           rparen |-> Eof, next |-> 1, os |-> <<>>, def |-> NoMacro]

(* An activation just begun: a stream, no pushback, nothing read.          *)
Activation(frames) ==
  [frames |-> frames, pending |-> <<>>, out |-> <<>>, phase |-> "scan",
   call |-> NoCall]

Self   == acts[Len(acts)]
Driver == Len(acts) = 1
Become(a) == acts' = [acts EXCEPT ![Len(acts)] = a]

-----------------------------------------------------------------------------
(* The stream.  Frames that are exhausted are popped by the next read.     *)

Live(a) == {k \in DOMAIN a.frames : a.frames[k].toks # <<>>}

Source(a) ==
  IF Live(a) = {} THEN 0 ELSE CHOOSE k \in Live(a) : \A j \in Live(a) : j <= k

(* What the next read returns, and whether it comes from an expansion.  A  *)
(* token of a file is given the line that #line presumes.                  *)
Token(a) ==
  IF a.pending # <<>> THEN a.pending[1].tok
  ELSE IF Live(a) = {} THEN Eof
  ELSE LET f == a.frames[Source(a)]
       IN  [f.toks[1] EXCEPT !.line = @ + f.delta]

FromExpansion(a) ==
  IF a.pending # <<>> THEN a.pending[1].fe
  ELSE Live(a) # {} /\ a.frames[Source(a)].of # "file"

(* The activation after the read.                                          *)
Advance(a) ==
  IF a.pending # <<>> THEN [a EXCEPT !.pending = <<>>]
  ELSE [a EXCEPT !.frames =
          [k \in 1 .. Source(a) |->
             IF k = Source(a)
             THEN [a.frames[k] EXCEPT !.toks = Tail(@)] ELSE a.frames[k]]]

(* The activation after the token was read and pushed back.                *)
Unget(a) ==
  [Advance(a) EXCEPT
     !.pending = <<[tok |-> Token(a), fe |-> FromExpansion(a)]>>]

PushTokens(a, of, toks) ==
  IF toks = <<>> THEN a
  ELSE [a EXCEPT !.frames = Append(@, [of |-> of, toks |-> toks, delta |-> 0])]

Files(a)      == {k \in DOMAIN a.frames : a.frames[k].of = "file"}
LexerDepth(a) == Cardinality(Files(a))
TopFile(a)    == CHOOSE k \in Files(a) : \A j \in Files(a) : j <= k

-----------------------------------------------------------------------------
(* Replacement lists.                                                      *)

Expandable(t) ==
  t.sym \in Names /\ macros[t.sym].kind # "none" /\ t.sym \notin t.hs

Macro(a) == macros[a.call.name.sym]

(* A replacement as it is pushed for rescanning: hs joins every hide set,  *)
(* and the first token stands on its line as the macro's name did.         *)
Materialized(toks, name, hs) ==
  [i \in DOMAIN toks |->
     [toks[i] EXCEPT !.space = IF i = 1 THEN name.space ELSE @,
                     !.bol   = i = 1 /\ name.bol,
                     !.hs    = @ \cup hs]]

(* Faulty: what hid the name is forgotten.                                 *)
HidesNameOnly(name) == {name.sym}

ObjectHideSet(name) == name.hs \cup {name.sym}

(* Faulty: the hide set of the closing parenthesis is not consulted.       *)
NameHidesAll(name, rparen) == name.hs \cup {name.sym}

CallHideSet(name, rparen) == (name.hs \cap rparen.hs) \cup {name.sym}

(* The parameter a token of the replacement list names, if it does;        *)
(* __VA_ARGS__ of a variadic macro comes after the named ones.             *)
ParamIndex(m, t) ==
  {p \in DOMAIN m.params : m.params[p] = t.sym}
    \cup (IF m.variadic /\ t.sym = "__VA_ARGS__" THEN {Len(m.params) + 1} ELSE {})

(* The count check of expand_function: no parameter takes one empty        *)
(* argument.                                                               *)
CountOk(m, args) ==
  IF m.params = <<>> /\ ~m.variadic THEN args = << <<>> >>
  ELSE Len(args) = Len(m.params)

Placemarker == [Eof EXCEPT !.sym = "placemarker"]

(* A token made by # or ##: it is read as of the anchor's line, and        *)
(* nothing is hidden from it.                                              *)
Synthesized(sym, text, anchor) ==
  [sym |-> sym, text |-> text, space |-> FALSE, bol |-> FALSE,
   line |-> anchor.line, hs |-> {}]

(* qcc_pp_stringize: the argument as it was written.                       *)
Stringized(toks, anchor) ==
  Synthesized("string",
    [i \in DOMAIN toks |-> [sym |-> toks[i].sym, text |-> toks[i].text,
                            space |-> i > 1 /\ toks[i].space]],
    anchor)

(* qcc_pp_paste: what is not one token is left as it was.                  *)
Pasted(left, right, anchor) ==
  IF <<left.sym, right.sym>> \in DOMAIN Pastes
  THEN Synthesized(Pastes[<<left.sym, right.sym>>], <<>>, anchor)
  ELSE left

Operand(toks) == IF toks = <<>> THEN <<Placemarker>> ELSE toks

(* glue_rhs: rhs is joined to the last token of os.                        *)
Glued(os, rhs, anchor) ==
  IF os = <<>> THEN Operand(rhs)
  ELSE IF rhs = <<>> THEN os
  ELSE LET left == os[Len(os)]
       IN  SubSeq(os, 1, Len(os) - 1)
             \o << IF left = Placemarker THEN rhs[1]
                   ELSE Pasted(left, rhs[1], anchor) >>
             \o Tail(rhs)

Emit(a, t) == [a EXCEPT !.out = Append(@, t), !.phase = "scan",
                        !.call = NoCall]

Goto(a, phase) == [a EXCEPT !.phase = phase]

-----------------------------------------------------------------------------
Init ==
  /\ program \in Programs
  /\ macros = program.macros
  /\ acts = << Activation(<<FileFrame(program.file)>>) >>
  /\ status = "running"

At(phase) == status = "running" /\ Self.phase = phase

-----------------------------------------------------------------------------
(* The loop of qcc_pp_run, and of expand_token_list.                       *)

(* Faulty: a directive is looked for in whatever is scanned.               *)
DirectiveAnywhere(a) ==
  /\ Token(a).bol
  /\ Token(a).sym = "#"

Directive(a) ==
  /\ Driver
  /\ ~FromExpansion(a)
  /\ Token(a).bol
  /\ Token(a).sym = "#"

Finish ==
  /\ At("scan")
  /\ Driver
  /\ Token(Self) = Eof
  /\ Become([Advance(Self) EXCEPT !.out = Append(@, Eof)])
  /\ status' = "ok"
  /\ UNCHANGED <<program, macros>>

StartDirective ==
  /\ At("scan")
  /\ Directive(Self)
  /\ Become(Goto(Advance(Self), "directive"))
  /\ UNCHANGED <<program, macros, status>>

DropNewline ==
  /\ At("scan")
  /\ Driver
  /\ Token(Self).sym = "nl"
  /\ Become(Advance(Self))
  /\ UNCHANGED <<program, macros, status>>

Ordinary(a) ==
  /\ ~Directive(a)
  /\ Token(a).sym # "eof"
  /\ Driver => Token(a).sym # "nl"

EmitToken ==
  /\ At("scan")
  /\ Ordinary(Self)
  /\ ~Expandable(Token(Self))
  /\ Become(Emit(Advance(Self), Token(Self)))
  /\ UNCHANGED <<program, macros, status>>

ExpandObject ==
  /\ At("scan")
  /\ Expandable(Token(Self))
  /\ LET t == Token(Self)
         m == macros[t.sym]
     IN  /\ m.kind = "object"
         /\ Become(PushTokens(Advance(Self), t.sym,
                     Materialized(m.body, t, ObjectHideSet(t))))
  /\ UNCHANGED <<program, macros, status>>

(* The spelling of a line number.                                          *)
Numeral(n) == ToString(n)

(* expand_builtin: __LINE__ is the presumed line of its use.  It does not  *)
(* begin a line, whatever the name did.                                    *)
ExpandLine ==
  /\ At("scan")
  /\ Expandable(Token(Self))
  /\ macros[Token(Self).sym].kind = "line"
  /\ LET t == Token(Self)
     IN  Become(PushTokens(Advance(Self), t.sym,
           << [t EXCEPT !.sym = Numeral(t.line), !.bol = FALSE,
                        !.hs = ObjectHideSet(t)] >>))
  /\ UNCHANGED <<program, macros, status>>

StartCall ==
  /\ At("scan")
  /\ Expandable(Token(Self))
  /\ macros[Token(Self).sym].kind = "function"
  /\ Become([Goto(Advance(Self), "lookahead") EXCEPT
               !.call.name = Token(Self)])
  /\ UNCHANGED <<program, macros, status>>

-----------------------------------------------------------------------------
(* expand_function: is the name called?                                    *)

SkipNewline ==
  /\ At("lookahead")
  /\ Token(Self).sym = "nl"
  /\ Become(Advance(Self))
  /\ UNCHANGED <<program, macros, status>>

OpenParen ==
  /\ At("lookahead")
  /\ Token(Self).sym = "("
  /\ Become(Goto(Advance(Self), "collect"))
  /\ UNCHANGED <<program, macros, status>>

(* The name stands for itself; the token after it is read again.           *)
NotCalled ==
  /\ At("lookahead")
  /\ Token(Self).sym \notin {"nl", "("}
  /\ Become(Emit(Unget(Self), Self.call.name))
  /\ UNCHANGED <<program, macros, status>>

-----------------------------------------------------------------------------
(* collect_args.                                                           *)

CollectNewline ==
  /\ At("collect")
  /\ Token(Self).sym = "nl"
  /\ Become([Advance(Self) EXCEPT !.call.gap = TRUE])
  /\ UNCHANGED <<program, macros, status>>

(* Faulty: the end of input is taken for one more separator.               *)
EofIgnored ==
  /\ At("collect")
  /\ Token(Self).sym = "eof"
  /\ Become(Advance(Self))
  /\ UNCHANGED <<program, macros, status>>

(* The arguments read so far are lost; the end of input is read again.     *)
Unterminated ==
  /\ At("collect")
  /\ Token(Self).sym = "eof"
  /\ Become(Emit(Unget(Self), Self.call.name))
  /\ UNCHANGED <<program, macros, status>>

(* Past the named parameters, commas belong to __VA_ARGS__.                *)
CollectingVa(a) ==
  Macro(a).variadic /\ Len(a.call.args) = Len(Macro(a).params)

Comma ==
  /\ At("collect")
  /\ Self.call.depth = 0
  /\ ~CollectingVa(Self)
  /\ Token(Self).sym = ","
  /\ Become([Advance(Self) EXCEPT !.call.args = Append(@, Self.call.cur),
                                  !.call.cur = <<>>, !.call.gap = FALSE])
  /\ UNCHANGED <<program, macros, status>>

Closes(a) == a.call.depth = 0 /\ Token(a).sym = ")"

(* The named arguments, and all of them.                                   *)
NamedArguments(a) ==
  IF CollectingVa(a) THEN a.call.args ELSE Append(a.call.args, a.call.cur)

Arguments(a) ==
  IF ~Macro(a).variadic THEN NamedArguments(a)
  ELSE Append(NamedArguments(a), IF CollectingVa(a) THEN a.call.cur ELSE <<>>)

CloseParen ==
  /\ At("collect")
  /\ Closes(Self)
  /\ CountOk(Macro(Self), NamedArguments(Self))
  /\ Become([Goto(Advance(Self), "substitute") EXCEPT
               !.call.args = Arguments(Self), !.call.rparen = Token(Self)])
  /\ UNCHANGED <<program, macros, status>>

WrongCount ==
  /\ At("collect")
  /\ Closes(Self)
  /\ ~CountOk(Macro(Self), NamedArguments(Self))
  /\ Become(Emit(Advance(Self), Self.call.name))
  /\ UNCHANGED <<program, macros, status>>

CollectToken ==
  /\ At("collect")
  /\ Token(Self).sym \notin {"nl", "eof"}
  /\ Self.call.depth = 0 =>
       /\ Token(Self).sym # ")"
       /\ Token(Self).sym = "," => CollectingVa(Self)
  /\ Become([Advance(Self) EXCEPT
               !.call.cur = Append(@, [Token(Self) EXCEPT
                                         !.space = @ \/ Self.call.gap]),
               !.call.gap = FALSE,
               !.call.depth = CASE Token(Self).sym = "(" -> @ + 1
                                [] Token(Self).sym = ")" -> @ - 1
                                [] OTHER -> @])
  /\ UNCHANGED <<program, macros, status>>

-----------------------------------------------------------------------------
(* substitute.  An element of the replacement list is tested for # before  *)
(* a parameter, then for ##, then for a parameter before ##.               *)

Body(a)      == Macro(a).body
Replacing(a) == a.call.next \in DOMAIN Body(a)
Element(a)   == Body(a)[a.call.next]
Followed(a)  == a.call.next + 1 \in DOMAIN Body(a)
Following(a) == Body(a)[a.call.next + 1]
Params(a, t) == ParamIndex(Macro(a), t)

Stringizes(a)  ==
  Element(a).sym = "#" /\ Followed(a) /\ Params(a, Following(a)) # {}
Pasting(a)     == Element(a).sym = "##" /\ Followed(a)
BeforePaste(a) == Followed(a) /\ Following(a).sym = "##"

Substituted(a, os, n) == [a EXCEPT !.call.os = os, !.call.next = @ + n]

Stringize ==
  /\ At("substitute")
  /\ Replacing(Self)
  /\ Stringizes(Self)
  /\ \E p \in Params(Self, Following(Self)) :
       Become(Substituted(Self,
         Append(Self.call.os, Stringized(Self.call.args[p], Self.call.name)), 2))
  /\ UNCHANGED <<program, macros, status>>

Paste ==
  /\ At("substitute")
  /\ Replacing(Self)
  /\ Pasting(Self)
  /\ LET ps  == Params(Self, Following(Self))
         rhs == IF ps = {} THEN <<Following(Self)>>
                ELSE Self.call.args[CHOOSE p \in ps : TRUE]
     IN  Become(Substituted(Self, Glued(Self.call.os, rhs, Element(Self)), 2))
  /\ UNCHANGED <<program, macros, status>>

LeftOperand ==
  /\ At("substitute")
  /\ Replacing(Self)
  /\ BeforePaste(Self)
  /\ \E p \in Params(Self, Element(Self)) :
       Become(Substituted(Self, Self.call.os \o Operand(Self.call.args[p]), 1))
  /\ UNCHANGED <<program, macros, status>>

CopyElement ==
  /\ At("substitute")
  /\ Replacing(Self)
  /\ ~Stringizes(Self)
  /\ ~Pasting(Self)
  /\ Params(Self, Element(Self)) = {}
  /\ Become(Substituted(Self, Append(Self.call.os, Element(Self)), 1))
  /\ UNCHANGED <<program, macros, status>>

(* A parameter: its argument is expanded by an activation of its own.      *)
ExpandArgument ==
  /\ At("substitute")
  /\ Replacing(Self)
  /\ ~BeforePaste(Self)
  /\ \E p \in Params(Self, Element(Self)) :
       acts' = Append(acts,
                 PushTokens(Activation(<<>>), "argument", Self.call.args[p]))
  /\ UNCHANGED <<program, macros, status>>

EndArgument ==
  /\ At("scan")
  /\ ~Driver
  /\ Token(Self) = Eof
  /\ LET caller   == acts[Len(acts) - 1]
         expanded == [i \in DOMAIN Self.out |->
                        [Self.out[i] EXCEPT
                           !.space = IF i = 1 THEN Element(caller).space ELSE @]]
     IN  /\ caller.phase = "substitute"
         /\ acts' = [SubSeq(acts, 1, Len(acts) - 1) EXCEPT
                       ![Len(acts) - 1] =
                         Substituted(caller, caller.call.os \o expanded, 1)]
  /\ UNCHANGED <<program, macros, status>>

PushReplacement ==
  /\ At("substitute")
  /\ ~Replacing(Self)
  /\ LET c    == Self.call
         toks == Keep(c.os, {i \in DOMAIN c.os : c.os[i] # Placemarker})
     IN  Become([PushTokens(Goto(Self, "scan"), c.name.sym,
                   Materialized(toks, c.name, CallHideSet(c.name, c.rparen)))
                 EXCEPT !.call = NoCall])
  /\ UNCHANGED <<program, macros, status>>

-----------------------------------------------------------------------------
(* qcc_pp_directive and the handlers.                                      *)

HandlerOf(t) ==
  CASE LineEnd(t)                               -> "scan"
    [] t.sym \in {"define", "undef", "include"} -> t.sym
    [] t.sym = "line"                           -> "rest"
    [] OTHER                                    -> "skip"

(* The name of a #line is kept with its physical line.                     *)
DirectiveName ==
  /\ At("directive")
  /\ LET t == Token(Self)
         a == Goto(Advance(Self), HandlerOf(t))
     IN  Become(IF t.sym = "line"
                THEN [a EXCEPT !.call.name =
                        [t EXCEPT !.line = @ - Self.frames[Source(Self)].delta]]
                ELSE a)
  /\ UNCHANGED <<program, macros, status>>

EndOrSkip(a) ==
  IF LineEnd(Token(a)) THEN [Goto(Advance(a), "scan") EXCEPT !.call = NoCall]
  ELSE [Goto(Advance(a), "skip") EXCEPT !.call = NoCall]

SkipToLineEnd ==
  /\ At("skip")
  /\ Become(EndOrSkip(Self))
  /\ UNCHANGED <<program, macros, status>>

Undef ==
  /\ At("undef")
  /\ Become(EndOrSkip(Self))
  /\ macros' = [n \in DOMAIN macros |->
                  IF n = Token(Self).sym THEN NoMacro ELSE macros[n]]
  /\ UNCHANGED <<program, status>>

-----------------------------------------------------------------------------
(* do_define.  What follows the name decides the form of the macro.        *)

DefineWithoutName ==
  /\ At("define")
  /\ Token(Self).sym \notin Names
  /\ Become(EndOrSkip(Self))
  /\ UNCHANGED <<program, macros, status>>

DefineName ==
  /\ At("define")
  /\ Token(Self).sym \in Names
  /\ Become([Goto(Advance(Self), "form") EXCEPT !.call.name = Token(Self),
                                                !.call.def.kind = "object"])
  /\ UNCHANGED <<program, macros, status>>

DefineFunction ==
  /\ At("form")
  /\ Token(Self).sym = "("
  /\ ~Token(Self).space
  /\ Become([Goto(Advance(Self), "parameters") EXCEPT
               !.call.def.kind = "function"])
  /\ UNCHANGED <<program, macros, status>>

DefineObject ==
  /\ At("form")
  /\ Token(Self).sym = "(" => Token(Self).space
  /\ Become(Goto(Self, "replacement"))
  /\ UNCHANGED <<program, macros, status>>

(* parse_params, where a parameter may come.  `)` may only come first.     *)
Parameter ==
  /\ status = "running"
  /\ Self.phase \in {"parameters", "parameter"}
  /\ LET t == Token(Self)
         a == Advance(Self)
     IN  Become(
           IF t.sym = ")" /\ Self.phase = "parameters" THEN Goto(a, "replacement")
           ELSE IF t.sym = "..."
           THEN [Goto(a, "ellipsis") EXCEPT !.call.def.variadic = TRUE]
           ELSE IF /\ t.sym \in Names \ {"__VA_ARGS__"}
                   /\ ParamIndex(Self.call.def, t) = {}
           THEN [Goto(a, "comma") EXCEPT !.call.def.params = Append(@, t.sym)]
           ELSE Goto(a, "skip"))
  /\ UNCHANGED <<program, macros, status>>

(* parse_params, after a parameter or the ellipsis.  A line that ends here *)
(* has been read, and the next one is skipped.                             *)
AfterParameter ==
  /\ status = "running"
  /\ Self.phase \in {"comma", "ellipsis"}
  /\ Become(Goto(Advance(Self),
        CASE Token(Self).sym = ")" -> "replacement"
          [] Token(Self).sym = "," /\ Self.phase = "comma" -> "parameter"
          [] OTHER -> "skip"))
  /\ UNCHANGED <<program, macros, status>>

CollectReplacement ==
  /\ At("replacement")
  /\ ~LineEnd(Token(Self))
  /\ Become([Advance(Self) EXCEPT !.call.def.body =
        Append(@, [Token(Self) EXCEPT !.space = @ /\ Self.call.def.body # <<>>])])
  /\ UNCHANGED <<program, macros, status>>

(* The definition takes the place of any the name has.                     *)
Define ==
  /\ At("replacement")
  /\ LineEnd(Token(Self))
  /\ macros' = [macros EXCEPT ![Self.call.name.sym] = Self.call.def]
  /\ Become([Goto(Advance(Self), "scan") EXCEPT !.call = NoCall])
  /\ UNCHANGED <<program, status>>

-----------------------------------------------------------------------------
(* do_include.                                                             *)

(* The file is opened unless it does not exist or would nest too deeply.   *)
Opened(a, h) ==
  IF LexerDepth(a) >= IncludeCap \/ h \notin DOMAIN Headers
  THEN Goto(a, "scan")
  ELSE [Goto(a, "scan") EXCEPT !.frames = Append(@, FileFrame(Headers[h]))]

IncludeWithoutName ==
  /\ At("include")
  /\ LineEnd(Token(Self))
  /\ Become(Goto(Advance(Self), "scan"))
  /\ UNCHANGED <<program, macros, status>>

HeaderName ==
  /\ At("include")
  /\ Token(Self).sym \in HeaderNames
  /\ Become([Goto(Advance(Self), "open") EXCEPT !.call.name = Token(Self)])
  /\ UNCHANGED <<program, macros, status>>

(* expect_line_end, then the file is pushed.                               *)
OpenHeader ==
  /\ At("open")
  /\ Become(IF LineEnd(Token(Self))
            THEN [Opened(Advance(Self), Self.call.name.sym) EXCEPT
                    !.call = NoCall]
            ELSE Advance(Self))
  /\ UNCHANGED <<program, macros, status>>

(* A computed include: the rest of the line is collected, then expanded.   *)
ComputedInclude ==
  /\ At("include")
  /\ Token(Self).sym \notin HeaderNames
  /\ ~LineEnd(Token(Self))
  /\ Become([Goto(Advance(Self), "rest") EXCEPT !.call.cur = <<Token(Self)>>])
  /\ UNCHANGED <<program, macros, status>>

CollectLine ==
  /\ At("rest")
  /\ LET t == Token(Self)
         a == Advance(Self)
     IN  IF LineEnd(t)
         THEN acts' = Append([acts EXCEPT ![Len(acts)] = Goto(a, "computed")],
                        PushTokens(Activation(<<>>), "argument", a.call.cur))
         ELSE Become([a EXCEPT !.call.cur = Append(@, t)])
  /\ UNCHANGED <<program, macros, status>>

(* reconstruct_header: the expanded line must be one header name.          *)
Computed(a, line) ==
  IF Len(line) = 1 /\ line[1].sym \in HeaderNames THEN Opened(a, line[1].sym)
  ELSE Goto(a, "scan")

-----------------------------------------------------------------------------
(* do_line.                                                                *)

(* The number of an expanded #line, put into range; 0 when it has none, or *)
(* is followed by what is no file name.                                    *)
LineNumber(line) ==
  IF \/ line = <<>>
     \/ line[1].sym \notin DOMAIN Numbers
     \/ Len(line) > 1 /\ line[2].sym # "string"
  THEN 0
  ELSE LET n == Numbers[line[1].sym]
       IN  IF n = 0 THEN 1 ELSE IF n > LineMax THEN LineMax ELSE n

(* What to add to the lines of a file for the next one to be the n-th.     *)
Delta(n, name) == n - (name.line + 1)

Renumbered(a, n) ==
  IF n = 0 THEN Goto(a, "scan")
  ELSE [Goto(a, "scan") EXCEPT
          !.frames[TopFile(a)].delta = Delta(n, a.call.name)]

(* The end of the line that #include or #line had expanded.                *)
EndComputed ==
  /\ At("scan")
  /\ ~Driver
  /\ Token(Self) = Eof
  /\ LET caller == acts[Len(acts) - 1]
         after  == IF caller.call.name.sym = "line"
                   THEN Renumbered(caller, LineNumber(Self.out))
                   ELSE Computed(caller, Self.out)
     IN  /\ caller.phase = "computed"
         /\ acts' = [SubSeq(acts, 1, Len(acts) - 1) EXCEPT
                       ![Len(acts) - 1] = [after EXCEPT !.call = NoCall]]
  /\ UNCHANGED <<program, macros, status>>

-----------------------------------------------------------------------------
(* Any of the allocations fails: the streams are disposed of and the       *)
(* output so far is what the caller has.                                   *)
OutOfMemory ==
  /\ status = "running"
  /\ status' = "oom"
  /\ acts' = << [Activation(<<>>) EXCEPT !.out = acts[1].out] >>
  /\ UNCHANGED <<program, macros>>

Step ==
  \/ Finish \/ StartDirective \/ DropNewline \/ EmitToken \/ ExpandObject
  \/ ExpandLine \/ StartCall \/ SkipNewline \/ OpenParen \/ NotCalled
  \/ CollectNewline \/ Unterminated \/ Comma \/ CloseParen \/ WrongCount
  \/ CollectToken \/ Stringize \/ Paste \/ LeftOperand \/ CopyElement
  \/ ExpandArgument \/ EndArgument \/ PushReplacement
  \/ DirectiveName \/ SkipToLineEnd \/ Undef
  \/ DefineWithoutName \/ DefineName \/ DefineFunction \/ DefineObject
  \/ Parameter \/ AfterParameter \/ CollectReplacement \/ Define
  \/ IncludeWithoutName \/ HeaderName \/ OpenHeader \/ ComputedInclude
  \/ CollectLine \/ EndComputed

Next == Step \/ OutOfMemory

Spec == Init /\ [][Next]_vars

(* The loops are sequential code: a step that can be taken is taken.       *)
FairSpec == Spec /\ WF_vars(Step)

-----------------------------------------------------------------------------
Replaces(a, f) == a.frames[f].of \in Names

(* In every stream, a token of the replacement of m, and any token above   *)
(* it on the input stack, hides m: a macro is never expanded inside its    *)
(* own replacement, however the invocation was spread over the frames      *)
(* (C11 6.10.3.4, expand.c:251 and 591).  So the replacements on one stack *)
(* are of different macros and files lie below them: the stack is never    *)
(* deeper than the includes and the macros together.                       *)
HidesBelow(a, t, f) == \A g \in 1 .. f : Replaces(a, g) => a.frames[g].of \in t.hs

NestedHidden ==
  \A k \in DOMAIN acts :
    LET a == acts[k]
    IN  /\ \A f, g \in DOMAIN a.frames :
             f < g /\ Replaces(a, f) =>
               Replaces(a, g) /\ a.frames[f].of # a.frames[g].of
        /\ \A f \in DOMAIN a.frames : \A i \in DOMAIN a.frames[f].toks :
             HidesBelow(a, a.frames[f].toks[i], f)

(* While a call is looked for, its arguments are collected and expanded    *)
(* and its replacement is substituted, no definition changes.  expand.c    *)
(* takes the macro of a call before its arguments are read and holds it by *)
(* address down a recursion that reads files to their ends and looks other *)
(* names up (expand.c:296, 328 and 645): a directive in between would mix  *)
(* two definitions.  Directives run between the calls of the driver only.  *)
DefinitionsHeld ==
  [][macros' # macros =>
       \A k \in DOMAIN acts :
         acts[k].phase \notin {"lookahead", "collect", "substitute"}]_vars

(* The run over every source comes to its end: no macro expands for ever,  *)
(* no line or argument list is read past the end of input.                 *)
RunEnds == <>(status # "running")
==============================================================================
