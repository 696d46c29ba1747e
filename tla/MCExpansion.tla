----------------------------- MODULE MCExpansion -----------------------------
(***************************************************************************)
(* Bounded instances of Expansion.  The definitions are those on which     *)
(* hide sets, lookahead, nested activations and the order of # and ##      *)
(* differ from simpler schemes; the sources are every sequence of tokens   *)
(* up to a length, in a frame that makes them matter.                      *)
(***************************************************************************)
EXTENDS Rescanning

Replacement(syms) ==
  LET toks == FileTokens(syms)
  IN  [i \in 1 .. Len(toks) - 1 |-> [toks[i] EXCEPT !.bol = FALSE, !.line = 0]]

Object(body) ==
  [kind |-> "object", params |-> <<>>, variadic |-> FALSE, body |-> Replacement(body)]
Function(params, body) ==
  [kind |-> "function", params |-> params, variadic |-> FALSE, body |-> Replacement(body)]
Variadic(params, body) == [Function(params, body) EXCEPT !.variadic = TRUE]

Sources(alphabet, n) == UNION {[1 .. k -> alphabet] : k \in 0 .. n}

Words(n) ==
  LET words[k \in 1 .. n] ==
        IF k = 1 THEN {"f", "g"}
        ELSE words[k - 1] \cup {w \o l : w \in words[k - 1], l \in {"f", "g"}}
  IN  words[n]

MCNames == {"f", "g", "fg", "x", "y", "__LINE__"}
MCHeaderNames == {"<h>", "<none>"}
MCHeaders     == [h \in {"<h>"} |-> <<"g", "nl", "#", "include", "<h>", "nl",
                                      "__LINE__">>]
MCNumbers     == [n \in {"0", "1", "2", "3", "4", "5", "50"} |->
                    CASE n = "0" -> 0 [] n = "1" -> 1 [] n = "2" -> 2
                      [] n = "3" -> 3 [] n = "4" -> 4 [] n = "5" -> 5
                      [] OTHER -> 50]

(* The spellings of the instances that make one token together.            *)
MCPastes ==
  LET pairs == (Words(3) \X Words(3)) \cup {<<"#", "#">>}
  IN  [p \in pairs |-> p[1] \o p[2]]

Defs(f, g) ==
  [n \in MCNames |->
     CASE n = "f" -> f
       [] n = "g" -> g
       [] n = "fg" -> Object(<<"g", "(", "f", ")">>)
       [] n = "__LINE__" -> [NoMacro EXCEPT !.kind = "line"]
       [] OTHER -> NoMacro]

(* Calls, nested calls and names that reach their own replacement, through *)
(* themselves and through each other.                                      *)
Recursive ==
  { Defs(Function(<<"x">>, <<"x", "g">>), Object(<<"f">>)),
    Defs(Function(<<"x">>, <<"f", "(", "x", ")", "g">>), Object(<<"g", "f">>)),
    Defs(Function(<<"x", "y">>, <<"y", "x", "x">>), Object(<<"f", "(", "g">>)),
    Defs(Function(<<>>, <<"g", "(", ")", "f">>), Function(<<>>, <<"f">>)) }

Calls ==
  {[macros |-> m, file |-> s] :
     m \in Recursive,
     s \in Sources({"f", "g", "(", ")", ",", "nl"}, 4)
            \cup {<<n, "(">> \o p : n \in {"f", "g"},
                                   p \in Sources({"f", "g", "(", ")", ","}, 4)}}

(* Directives, true ones and `#` tokens that only look like one.           *)
Lines ==
  {[macros |-> Defs(Function(<<"x">>, <<"x">>), Object(<<"#">>)), file |-> s] :
     s \in Sources({"f", "g", "(", "#", "undef", "nl"}, 4)}

Includes ==
  {[macros |-> Defs(Object(<<"<h>">>), Function(<<"x">>, <<"x">>)),
    file |-> <<"#", "include">> \o s] :
     s \in Sources({"f", "<h>", "<none>", "nl", "(", ")"}, 4)}

(* # and ## beside parameters and each other, with arguments that are      *)
(* empty, hold commas, white space or calls, or are joined to a macro.     *)
Operators ==
  { Defs(Function(<<"x">>, <<"#", "x", " ", "x", "##", "f">>),
         Variadic(<<>>, <<"f", "##", "__VA_ARGS__", "#", "__VA_ARGS__">>)),
    Defs(Function(<<"x", "y">>, <<"x", "##", "y", "##", "x", " ", "y">>),
         Variadic(<<"x">>, <<"x", "##", "#", "__VA_ARGS__", "x">>)),
    Defs(Variadic(<<"x">>, <<"g", "(", "x", "##", "__VA_ARGS__", ")">>),
         Function(<<"x">>, <<"#", "##", "#", " ", "#", "x", "##", "x", "##">>)),
    Defs(Function(<<"x">>, <<"x", "##", "g", " ", "g", "##", "x">>),
         Function(<<"x">>, <<"##", "x", "##", "##", "x", " ", "x">>)) }

Operations ==
  {[macros |-> m, file |-> <<n, "(">> \o s \o <<")">>] :
     m \in Operators, n \in {"f", "g"},
     s \in Sources({"f", "g", ",", " "}, 4)
            \cup Sources({"f", "(", ")", ",", "nl"}, 3)}

(* Definitions, well formed or not, and a call of what they define.        *)
Definitions ==
  {[macros |-> Defs(NoMacro, Object(<<"g">>)),
    file |-> <<"#", "define", "f">> \o s \o
             <<"nl", "f", "(", "g", ",", "f", ")", "f", "nl", "x">>] :
     s \in {<<"(">> \o p \o <<"f", "x">> :
              p \in Sources({"x", "y", ",", ")", "..."}, 4)}
            \cup Sources({"f", "x", ")", " "}, 3)
            \cup {<<" ">> \o p : p \in Sources({"f", "x", "(", ")"}, 2)}}

(* Numbered lines, in a file and in what it includes.                      *)
Numberings ==
  {[macros |-> Defs(Object(<<"#", "line">>), Function(<<"x">>, <<"#", "x">>)),
    file |-> s \o <<"nl", "__LINE__", "nl", "#", "include", "<h>", "nl",
                    "g", "(", "nl", "__LINE__", "__LINE__", ")">>] :
     s \in {<<"__LINE__", "nl", "#", "line">> \o p :
              p \in Sources({"0", "5", "50", "g", "(", ")", "__LINE__"}, 3)}}

Longer ==
  {[macros |-> m, file |-> s] :
     m \in Recursive,
     s \in { <<"g", "(", "f", ")", "(", "g", ")">>,
             <<"f", "(", "f", "(", "f", ")", ",", "g", ")">>,
             <<"f", "(", "nl", "#", "undef", "f", "nl", ")", "f", "(", "g", ")">>,
             <<"f", "nl", "#", "undef", "f", "nl", "(", "g", ")">>,
             <<"#", "define", "(", "f", "nl", "#", "define", "nl", "f", "g">> }}

MCPrograms == Calls \cup Lines \cup Includes \cup Operations \cup Definitions
                \cup Numberings \cup Longer
==============================================================================
