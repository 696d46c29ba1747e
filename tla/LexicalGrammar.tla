--------------------------- MODULE LexicalGrammar ---------------------------
(***************************************************************************)
(* What the lexer should produce, by the standard's own order of things:   *)
(* the splices are deleted from the whole text first, and then the longest *)
(* token of the lexical grammar (C11 6.4) is cut off its front, again and  *)
(* again.  The grammar is a set of predicates on spans of the logical      *)
(* text, with no scanner and no lookahead.                                 *)
(***************************************************************************)
EXTENDS Lexer, FiniteSetsExt

(* Phase 2: the offsets that remain when every backslash before a line end *)
(* is deleted with that line end.                                          *)
Spliced(src) ==
  UNION {p .. p + SpliceAt(src, p) - 1 : p \in 0 .. Len(src) - 1}

Logical(src) ==
  LET kept == SelectSeq([i \in DOMAIN src |-> i - 1], LAMBDA p : p \notin Spliced(src))
  IN  [i \in DOMAIN kept |-> [c |-> src[kept[i] + 1], at |-> kept[i]]]

(* The characters i to j of a logical text, as one word.                   *)
RECURSIVE Word(_, _, _)
Word(L, i, j) == IF i > j THEN "" ELSE L[i].c \o Word(L, i + 1, j)

-----------------------------------------------------------------------------
(* 6.4.3, 6.4.2 and 6.4.8: is the span i .. j of L of that syntactic form? *)
IsUcn(L, i, j) ==
  /\ j \in {i + 5, i + 9}
  /\ Word(L, i, i + 1) = (IF j = i + 5 THEN "\\u" ELSE "\\U")
  /\ \A k \in i + 2 .. j : L[k].c \in HexDigit

(* The spans that end in a universal character name have it here.          *)
BeforeUcn(L, i, j) == {k \in {j - 6, j - 10} : k >= i - 1 /\ IsUcn(L, k + 1, j)}

RECURSIVE IsIdentifier(_, _, _)
IsIdentifier(L, i, j) ==
  \/ j = i /\ L[i].c \in Nondigit
  \/ j > i /\ L[j].c \in WordChar /\ IsIdentifier(L, i, j - 1)
  \/ \E k \in BeforeUcn(L, i, j) : k = i - 1 \/ IsIdentifier(L, i, k)

RECURSIVE IsNumber(_, _, _)
IsNumber(L, i, j) ==
  \/ j = i /\ L[i].c \in Digit
  \/ j = i + 1 /\ L[i].c = "." /\ L[j].c \in Digit
  \/ j > i /\ L[j].c \in WordChar \cup {"."} /\ IsNumber(L, i, j - 1)
  \/ /\ j > i + 1 /\ L[j].c \in {"+", "-"} /\ L[j - 1].c \in {"e", "E", "p", "P"}
     /\ IsNumber(L, i, j - 2)
  \/ \E k \in BeforeUcn(L, i, j) : k >= i /\ IsNumber(L, i, k)

(* 6.4.6, with the digraphs.                                               *)
Punctuators ==
  {"[", "]", "(", ")", "{", "}", ".", "->", "++", "--", "&", "*", "+", "-",
   "~", "!", "/", "%", "<<", ">>", "<", ">", "<=", ">=", "==", "!=", "^", "|",
   "&&", "||", "?", ":", ";", "...", "=", "*=", "/=", "%=", "+=", "-=", "<<=",
   ">>=", "&=", "^=", "|=", ",", "#", "##", "<:", ":>", "<%", "%>", "%:",
   "%:%:"}

Spelled(w) ==
  CASE w = "<:" -> "["  [] w = ":>" -> "]"  [] w = "<%" -> "{"
    [] w = "%>" -> "}"  [] w = "%:" -> "#"  [] w = "%:%:" -> "##"
    [] OTHER -> w

(* 6.4.4.4 and 6.4.5: a prefix, and the quote it belongs to.               *)
Openings == {"'", "L'", "u'", "U'", "\"", "L\"", "u\"", "U\"", "u8\""}

Opens(L, i, q) == q \in i .. i + 2 /\ q <= Len(L) /\ Word(L, i, q) \in Openings

(* The backslashes right before k, back to and without q: an odd number of *)
(* them escapes the character at k.                                        *)
Escaped(L, q, k) ==
  Max({n \in 0 .. k - q - 1 : \A b \in k - n .. k - 1 : L[b].c = "\\"}) % 2 = 1

LineEndFrom(L, i) ==
  Min({k \in i .. Len(L) : L[k].c = "\n"} \cup {Len(L) + 1})

Quotes(L, q) ==
  {k \in q + 1 .. LineEndFrom(L, q) - 1 : L[k].c = L[q].c /\ ~Escaped(L, q, k)}

LiteralEnd(L, q) == Min(Quotes(L, q) \cup {LineEndFrom(L, q) - 1})

(* 6.4.7.                                                                  *)
HeaderEnd(L, i) ==
  LET close == IF L[i].c = "<" THEN ">" ELSE "\""
  IN  Min({k \in i + 1 .. Len(L) : L[k].c = close} \cup {LineEndFrom(L, i) - 1})

-----------------------------------------------------------------------------
(* The tokens that could start at i: the end of each, and what it is.      *)
Candidate(kind, punct, end) == [kind |-> kind, punct |-> punct, end |-> end]

Candidates(L, i, header_mode) ==
  IF header_mode /\ L[i].c \in {"<", "\""}
  THEN {Candidate("header", "", HeaderEnd(L, i))}
  ELSE UNION
    { {Candidate("other", "", i)},
      {Candidate("punct", Spelled(Word(L, i, j)), j) :
         j \in {j \in i .. Min({Len(L), i + 3}) : Word(L, i, j) \in Punctuators}},
      {Candidate("identifier", "", j) : j \in {j \in i .. Len(L) : IsIdentifier(L, i, j)}},
      {Candidate("number", "", j) : j \in {j \in i .. Len(L) : IsNumber(L, i, j)}},
      {Candidate(IF L[q].c = "'" THEN "char" ELSE "string", "", LiteralEnd(L, q)) :
         q \in {q \in i .. i + 2 : Opens(L, i, q)}} }

(* The longest; "other" only when nothing else is possible.                *)
Longest(S) ==
  CHOOSE t \in S : \A u \in S :
    t.end > u.end \/ (t.end = u.end /\ (t.kind # "other" \/ u = t))

(* A comment is one space; one that is not terminated reaches to the end.  *)
CommentStops(L, i) ==
  IF Word(L, i, i + 1) = "//" THEN {LineEndFrom(L, i)}
  ELSE {k + 2 : k \in {k \in i + 2 .. Len(L) - 1 : Word(L, k, k + 1) = "*/"}}

CommentStop(L, i) == Min(CommentStops(L, i) \cup {Len(L) + 1})

StartsComment(L, i) == i < Len(L) /\ Word(L, i, i + 1) \in {"//", "/*"}

(* A token of the result: its kind, its punctuator, its span in L, white   *)
(* space before it, and whether it is the first of its line.               *)
Piece(kind, punct, first, last, space, bol) ==
  [kind |-> kind, punct |-> punct, first |-> first, last |-> last,
   space |-> space, bol |-> bol]

IsInclude(L, done) ==
  LET n == Len(done)
  IN  n >= 2 /\ done[n - 1].punct = "#" /\ done[n - 1].bol
        /\ Word(L, done[n].first, done[n].last) = "include"

(* The pieces of L from i on, and the comments left open among them.       *)
Cutting(pieces, open) == [pieces |-> pieces, open |-> open]

RECURSIVE Cut(_, _, _, _)
Cut(L, i, space, so) ==
  LET done == so.pieces
      bol  == done = <<>> \/ done[Len(done)].kind = "newline"
      best == Longest(Candidates(L, i, IsInclude(L, done)))
      With(kind, punct, last) ==
        Cutting(Append(done, Piece(kind, punct, i, last, space, bol)), so.open)
  IN  IF i > Len(L)
      THEN IF bol THEN With("eof", "", i - 1)
           ELSE Cutting(With("newline", "", i - 1).pieces
                          \o <<Piece("eof", "", i, i - 1, FALSE, TRUE)>>, so.open)
      ELSE IF L[i].c = "\n" THEN Cut(L, i + 1, FALSE, With("newline", "", i))
      ELSE IF L[i].c \in Space THEN Cut(L, i + 1, TRUE, so)
      ELSE IF StartsComment(L, i)
      THEN Cut(L, CommentStop(L, i), TRUE,
               Cutting(done, so.open \cup {x \in {i} : CommentStops(L, i) = {}}))
      ELSE Cut(L, best.end + 1, FALSE, With(best.kind, best.punct, best.end))

Expected(src) == Cut(Logical(src), 1, FALSE, Cutting(<<>>, {}))

(* The physical line of an offset, by counting.                            *)
LineNumber(src, offset) ==
  1 + Cardinality({p \in 1 .. offset : src[p] = "\n"})

-----------------------------------------------------------------------------
(* A line end that a backslash precedes in the logical text.  The scanner  *)
(* of literals takes it for the second character of an escape sequence and *)
(* goes on into the next line, where its comment (scan.c:197-199) says     *)
(* that such a backslash "never reaches here": it does, when the splice    *)
(* between the two has been deleted.                                       *)
BackslashBeforeNewline(L) ==
  \E i \in 1 .. Len(L) - 1 : L[i].c = "\\" /\ L[i + 1].c = "\n"

(* The characters of L inside the physical span of a token.                *)
Covered(L, t) == {i \in DOMAIN L : t.offset <= L[i].at /\ L[i].at < t.end}

SameToken(L, t, e) ==
  /\ t.kind = e.kind /\ t.punct = e.punct
  /\ t.space = e.space /\ t.at_line_start = e.bol
  /\ Covered(L, t) = e.first .. e.last
  /\ t.line = LineNumber(text, t.offset)

TokensMatch(L, pieces) ==
  ~BackslashBeforeNewline(L) =>
    /\ Len(tokens) = Len(pieces)
    /\ \A i \in DOMAIN tokens : SameToken(L, tokens[i], pieces[i])

(* The stream is the one the standard describes: reading through splices,  *)
(* finding comments and choosing a scanner by the first character come to  *)
(* the same tokens as deleting the splices first and cutting the longest   *)
(* token each time; with the white space, line starts and lines of the     *)
(* text (lexer.c:75-209, scan.c, punct.c).                                 *)
Tokenizes == Finished => TokensMatch(Logical(text), Expected(text).pieces)

-----------------------------------------------------------------------------
(* What the text gives cause to report, and where.                         *)
QuoteIn(L, e) ==
  Min({i \in e.first .. e.last : L[i].c \in {"'", "\""}})

LeftOpen(L, e) ==
  CASE e.kind \in {"char", "string"} ->
         {q \in {QuoteIn(L, e)} : e.last \notin Quotes(L, q)}
    [] e.kind = "header" ->
         {f \in {e.first} : e.first = e.last
                            \/ L[e.last].c # (IF L[f].c = "<" THEN ">" ELSE "\"")}
    [] OTHER -> {}

IsTrigraph(L, i) ==
  i + 2 <= Len(L) /\ Word(L, i, i + 1) = "??"
    /\ L[i + 2].c \in {"=", "(", "/", ")", "'", "<", "!", ">", "-"}

Trigraphs(L, e) ==
  CASE e.kind \in {"char", "string"} ->
         LET q == QuoteIn(L, e)
         IN  {i \in q + 1 .. e.last : IsTrigraph(L, i) /\ ~Escaped(L, q, i)}
    [] e.kind = "punct" -> {i \in {e.first} : IsTrigraph(L, i)}
    [] OTHER -> {}

Causes(L, cutting) ==
  LET At0(what, places) == {Problem(what, L[i].at) : i \in places}
      pieces == cutting.pieces
  IN  UNION {At0("comment", cutting.open),
             At0("stray", {pieces[k].first : k \in
                             {k \in DOMAIN pieces : pieces[k].kind = "other"
                                /\ L[pieces[k].first].c = "\\"}}),
             At0("unterminated", UNION {LeftOpen(L, pieces[k]) : k \in DOMAIN pieces}),
             At0("trigraph", UNION {Trigraphs(L, pieces[k]) : k \in DOMAIN pieces})}

ReportsMatch(L, causes) ==
  ~BackslashBeforeNewline(L) =>
    /\ Len(problems) = Cardinality(causes)
    /\ {problems[i] : i \in DOMAIN problems} = causes

(* Every comment, literal and header name left open, every stray backslash *)
(* and every trigraph outside comments is reported once, where it begins,  *)
(* however many calls ran into it and however far past the end of the text *)
(* the caller reads on (scan.c:19-36, 200-225, lexer.c:148-165).           *)
ReportsEach ==
  EndsSoFar # {} => ReportsMatch(Logical(text), Causes(Logical(text), Expected(text)))
=============================================================================
