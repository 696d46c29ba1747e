----------------------------- MODULE Rescanning -----------------------------
(***************************************************************************)
(* What macro replacement produces, said once more without a machine: the  *)
(* algorithm the hide sets come from (C11 6.10.3, after Prosser) on one    *)
(* flat list of tokens.  There are no frames, no pushback and no           *)
(* activations: a replacement is written in front of what is left of the   *)
(* input, the parentheses of a call are found by counting, and a header is *)
(* written in place of its #include.  A token carries the nesting depth    *)
(* of the file it was read from, 0 when it was not read from a file.       *)
(***************************************************************************)
EXTENDS Expansion, SequencesExt

Flat(toks, depth) == [i \in DOMAIN toks |-> toks[i] @@ [depth |-> depth]]

(* The first place from `from` on that holds one of syms, or past the end. *)
FirstOf(toks, from, syms) ==
  LET places == {i \in from .. Len(toks) : toks[i].sym \in syms}
  IN  IF places = {} THEN Len(toks) + 1
      ELSE CHOOSE i \in places : \A j \in places : i <= j

FirstNot(toks, from, syms) ==
  LET places == {i \in from .. Len(toks) : toks[i].sym \notin syms}
  IN  IF places = {} THEN Len(toks) + 1
      ELSE CHOOSE i \in places : \A j \in places : i <= j

From(toks, i) == SubSeq(toks, i, Len(toks))

Nesting(toks, i, j) ==
  Cardinality({k \in i .. j : toks[k].sym = "("})
    - Cardinality({k \in i .. j : toks[k].sym = ")"})

(* The parenthesis that closes the one at `open`, or past the end.         *)
Closing(toks, open) ==
  LET places == {j \in open .. Len(toks) : Nesting(toks, open, j) = 0}
  IN  IF places = {} THEN Len(toks) + 1
      ELSE CHOOSE i \in places : \A j \in places : i <= j

(* The arguments between the parentheses at open and close.  What comes    *)
(* after as many of them as a variadic macro has parameters is one more.   *)
ArgumentsOf(toks, open, close, m) ==
  LET commas == SetToSortSeq({k \in open + 1 .. close - 1 :
                   toks[k].sym = "," /\ Nesting(toks, open, k) = 1}, <)
      few    == m.variadic /\ Len(commas) > Len(m.params)
      cuts   == <<open>>
                  \o (IF few THEN SubSeq(commas, 1, Len(m.params)) ELSE commas)
                  \o <<close>>
      Kept(p) == SelectSeq([k \in 1 .. cuts[p + 1] - 1 |-> k],
                   LAMBDA k : k > cuts[p] /\ toks[k].sym # "nl")
      Spaced(k) == [toks[k] EXCEPT !.space = @ \/ toks[k - 1].sym = "nl"]
      Piece(p)  == [n \in DOMAIN Kept(p) |-> Spaced(Kept(p)[n])]
  IN  [p \in 1 .. Len(cuts) - 1 |-> Piece(p)]

WellCalled(m, pieces) ==
  CASE m.variadic     -> Len(pieces) >= Len(m.params)
    [] m.params = <<>> -> pieces = << <<>> >>
    [] OTHER          -> Len(pieces) = Len(m.params)

(* A replacement in the place of `name`.                                   *)
Written(toks, name, hs) ==
  [i \in DOMAIN toks |->
     [toks[i] EXCEPT !.bol = i = 1 /\ name.bol, !.hs = @ \cup hs, !.depth = 0,
                     !.space = IF i = 1 THEN name.space ELSE @]]

IsOpen(t, defs) ==
  t.sym \in Names /\ defs[t.sym].kind # "none" /\ t.sym \notin t.hs

Made(sym, text, line) ==
  [sym |-> sym, text |-> text, space |-> FALSE, bol |-> FALSE, line |-> line,
   hs |-> {}, depth |-> 0]

Nothing == Made("nothing", <<>>, 0)

Quoted(toks, line) ==
  Made("string", [i \in DOMAIN toks |->
                    [sym |-> toks[i].sym, text |-> toks[i].text,
                     space |-> toks[i].space /\ i # 1]], line)

(* Two lists with the last token of one and the first of the other joined. *)
Joined(left, right, line) ==
  IF left = <<>> THEN right
  ELSE LET l == Last(left)
           r == right[1]
           one == IF r = Nothing THEN l
                  ELSE IF l = Nothing THEN r
                  ELSE IF <<l.sym, r.sym>> \in DOMAIN Pastes
                  THEN Made(Pastes[<<l.sym, r.sym>>], <<>>, line)
                  ELSE l
       IN  Front(left) \o <<one>> \o Tail(right)

(* The places of the ## that join: not at the end, not joined themselves.  *)
Joins(body) ==
  LET joins[i \in 0 .. Len(body)] ==
        i > 0 /\ body[i].sym = "##" /\ i < Len(body) /\ ~joins[i - 1]
  IN  {i \in DOMAIN body : joins[i]}

(* Rescan gives the output for the tokens of a unit, where lines and       *)
(* directives count, or of an argument, where they do not.                 *)
RECURSIVE Rescan(_, _, _)
RECURSIVE Replaced(_, _, _, _)

(* The replacement list of m with the arguments put in the place of the    *)
(* parameters: quoted after #, as written beside ##, else fully expanded.  *)
Replaced(m, pieces, name, defs) ==
  LET body == m.body
      Of(t) == {p \in DOMAIN m.params : m.params[p] = t.sym}
                 \cup {p \in {Len(m.params) + 1} : m.variadic /\ t.sym = "__VA_ARGS__"}
      Arg(t) == LET p == CHOOSE p \in Of(t) : TRUE
                IN  IF p \in DOMAIN pieces THEN pieces[p] ELSE <<>>
      joins  == Joins(body)
      quotes == {i \in DOMAIN body :
                   /\ body[i].sym = "#"
                   /\ i - 1 \notin joins
                   /\ i + 1 \in DOMAIN body
                   /\ Of(body[i + 1]) # {}}
      Beside(i) == i - 1 \in joins \/ (i < Len(body) /\ body[i + 1].sym = "##")
      Expanded(i) ==
        LET e == Rescan(Arg(body[i]), defs, FALSE)
        IN  [k \in DOMAIN e |->
               [e[k] EXCEPT !.space = IF k = 1 THEN body[i].space ELSE @]]
      Value(i) ==
        CASE i - 1 \in quotes    -> << Quoted(Arg(body[i]), name.line) >>
          [] Of(body[i]) = {}    -> << body[i] @@ [depth |-> 0] >>
          [] Beside(i)           -> IF Arg(body[i]) = <<>> THEN <<Nothing>>
                                    ELSE Arg(body[i])
          [] OTHER               -> Expanded(i)
      Add(done, i) ==
        IF i \in joins \cup quotes THEN done
        ELSE IF i - 1 \in joins THEN Joined(done, Value(i), body[i - 1].line)
        ELSE done \o Value(i)
  IN  SelectSeq(FoldLeft(Add, <<>>, [i \in DOMAIN body |-> i]),
                LAMBDA t : t # Nothing)

(* What a directive line, `#` first, leaves to be read in its place.       *)
HeaderOf(line, defs) ==
  LET named == Rescan(SubSeq(line, 3, Len(line)), defs, FALSE)
  IN  IF Len(line) < 3 THEN {}
      ELSE IF line[3].sym \in HeaderNames THEN {line[3].sym}
      ELSE IF Len(named) = 1 THEN {named[1].sym} \cap HeaderNames
      ELSE {}

Included(line, defs) ==
  IF Len(line) >= 2 /\ line[2].sym = "include" /\ line[1].depth < IncludeCap
  THEN LET found == HeaderOf(line, defs) \cap DOMAIN Headers
       IN  IF found = {} THEN <<>>
           ELSE Flat(FileTokens(Headers[CHOOSE h \in found : TRUE]),
                     line[1].depth + 1)
  ELSE <<>>

(* What a #define line defines, the name apart, if it is well formed: what *)
(* is between the parentheses is read by its places, odd ones and even.    *)
Definition(line) ==
  LET close == FirstOf(line, 4, {")"})
      list  == SubSeq(line, 5, close - 1)
      Form(params, variadic, from) ==
        [kind |-> IF from = 4 THEN "object" ELSE "function",
         params |-> params, variadic |-> variadic,
         body |-> [i \in 1 .. Len(line) - from + 1 |->
                     LET t == line[from + i - 1]
                     IN  [sym |-> t.sym, text |-> t.text, bol |-> t.bol,
                          line |-> t.line, hs |-> t.hs,
                          space |-> t.space /\ i # 1]]]
      dots  == list # <<>> /\ Last(list).sym = "..."
      names == IF dots THEN Front(list) ELSE list
      odd   == {i \in DOMAIN names : i % 2 = 1}
      shaped == /\ close <= Len(line)
                /\ list # <<>> => Len(list) % 2 = 1
                /\ \A i \in DOMAIN names \ odd : names[i].sym = ","
                /\ \A i \in odd : names[i].sym \in Names \ {"__VA_ARGS__"}
                /\ \A i, j \in odd : names[i].sym = names[j].sym => i = j
  IN  IF Len(line) < 4 \/ line[4].sym # "(" \/ line[4].space
      THEN {Form(<<>>, FALSE, 4)}
      ELSE IF shaped
      THEN {Form([k \in 1 .. Cardinality(odd) |-> names[2 * k - 1].sym],
                 dots, close + 1)}
      ELSE {}

DefinitionsAfter(line, defs) ==
  IF Len(line) < 3 \/ line[3].sym \notin Names THEN defs
  ELSE IF line[2].sym = "undef" THEN [defs EXCEPT ![line[3].sym] = NoMacro]
  ELSE IF line[2].sym = "define" /\ Definition(line) # {}
  THEN [defs EXCEPT ![line[3].sym] = CHOOSE m \in Definition(line) : TRUE]
  ELSE defs

(* The lines that follow a #line are numbered from its number on.          *)
Numbered(rest, line, defs) ==
  LET operands == Rescan(SubSeq(line, 3, Len(line)), defs, FALSE)
      valid    == /\ Len(line) >= 2 /\ line[2].sym = "line"
                  /\ operands # <<>>
                  /\ operands[1].sym \in DOMAIN Numbers
                  /\ Len(operands) >= 2 => operands[2].sym = "string"
      n        == Numbers[operands[1].sym]
      first    == IF n > LineMax THEN LineMax ELSE IF n = 0 THEN 1 ELSE n
  IN  IF valid
      THEN [i \in DOMAIN rest |->
              IF rest[i].depth = line[1].depth
              THEN [rest[i] EXCEPT !.line = @ - (line[1].line + 1) + first]
              ELSE rest[i]]
      ELSE rest

Rescan(toks, defs, unit) ==
  IF toks = <<>> THEN <<>>
  ELSE
  LET t     == toks[1]
      rest  == Tail(toks)
      m     == defs[t.sym]
      start == FirstNot(toks, 2, {"nl"})
      close == Closing(toks, start)
      args  == ArgumentsOf(toks, start, close, m)
      nl    == FirstOf(toks, 1, {"nl"})
      line  == SubSeq(toks, 1, nl - 1)
  IN
  IF unit /\ t.sym = "#" /\ t.bol /\ t.depth > 0
  THEN Rescan(Included(line, defs) \o Numbered(From(toks, nl + 1), line, defs),
              DefinitionsAfter(line, defs), unit)
  ELSE IF unit /\ t.sym = "nl" THEN Rescan(rest, defs, unit)
  ELSE IF ~IsOpen(t, defs) THEN <<t>> \o Rescan(rest, defs, unit)
  ELSE IF m.kind = "object"
  THEN Rescan(Written(Flat(m.body, 0), t, t.hs \cup {t.sym}) \o rest, defs, unit)
  ELSE IF m.kind = "line"
  THEN << [t EXCEPT !.sym = Numeral(t.line), !.bol = FALSE] >>
         \o Rescan(rest, defs, unit)
  ELSE IF start > Len(toks) \/ toks[start].sym # "("
  THEN <<t>> \o Rescan(From(toks, start), defs, unit)
  ELSE IF close > Len(toks) THEN <<t>>
  ELSE IF ~WellCalled(m, args)
  THEN <<t>> \o Rescan(From(toks, close + 1), defs, unit)
  ELSE Rescan(Written(Replaced(m, args, t, defs), t,
                      (t.hs \cap toks[close].hs) \cup {t.sym})
                \o From(toks, close + 1), defs, unit)

Reference(p) == Rescan(Flat(FileTokens(p.file), 1), p.macros, TRUE)

Plain(toks) ==
  [i \in DOMAIN toks |-> [sym |-> toks[i].sym, text |-> toks[i].text,
                          space |-> toks[i].space, bol |-> toks[i].bol,
                          line |-> toks[i].line]]

(* A run that comes to its end has produced what the algorithm on the flat *)
(* list produces; one that is cut short by a lack of memory, a beginning   *)
(* of it (pp.c:186-242).                                                   *)
MatchesReference ==
  status # "running" =>
    LET output    == Plain(acts[1].out)
        reference == Append(Plain(Reference(program)), Plain(<<Eof>>)[1])
    IN  IF status = "ok" THEN output = reference
        ELSE IsPrefix(output, reference)
=============================================================================
