------------------------------ MODULE Scanners ------------------------------
(***************************************************************************)
(* The scanners of phase 3 (lexer/internal/scan.c and punct.c).  Each is   *)
(* given the offset a preprocessing token starts at and answers with a     *)
(* verdict: its kind, its punctuator, one past its last byte, and the      *)
(* problems to report.  They read through At and change nothing.           *)
(***************************************************************************)
EXTENDS Cursor

Verdict(kind, punct, end, problems) ==
  [kind |-> kind, punct |-> punct, end |-> end, problems |-> problems]

Problem(what, offset) == [what |-> what, offset |-> offset]

(* A trigraph is left alone, with a warning (ADR-0013).                    *)
TrigraphAt(text, x) ==
  IF /\ x.c = "?" /\ After(text, x).c = "?"
     /\ After(text, After(text, x)).c \in Characters("=(/)'<!>-")
  THEN <<Problem("trigraph", x.at)>> ELSE <<>>

HexEnd(text, x, count) ==
  IF \A n \in 0 .. count - 1 : Nth(text, x, n).c \in HexDigit
  THEN {Nth(text, x, count)} ELSE {}

(* What follows the universal character name that x, the character after   *)
(* a backslash, continues; none if it is none.                             *)
AfterUcn(text, x) ==
  IF x.c \in {"u", "U"}
  THEN HexEnd(text, After(text, x), IF x.c = "u" THEN 4 ELSE 8) ELSE {}

The(S) == CHOOSE e \in S : TRUE

-----------------------------------------------------------------------------
(* Character constants and string literals: an escape is a backslash and   *)
(* whatever logical character follows.                                     *)
Body(end, closed, problems) ==
  [end |-> end, closed |-> closed, problems |-> problems]

LiteralTurn(text, quote) ==
  [p \in Nat |-> LET x == At(text, p)
                 IN  CASE x.c \in {End, "\n", quote} -> p
                       [] x.c = "\\" -> After(text, x).next
                       [] OTHER -> x.next]

TrigraphsAt(text) == [p \in Nat |-> TrigraphAt(text, At(text, p))]

LiteralTo(last, quote, problems) ==
  IF last.c = quote THEN Body(last.next, TRUE, problems)
  ELSE Body(last.at, FALSE, problems)

LiteralBody(text, x, quote) ==
  LiteralTo(At(text, LoopEnd(LiteralTurn(text, quote), x.from)), quote,
            LoopFound(LiteralTurn(text, quote), TrigraphsAt(text), x.from))

Unterminated(body, offset) ==
  body.problems \o (IF body.closed THEN <<>>
                    ELSE <<Problem("unterminated", offset)>>)

LiteralOf(body, start, quote) ==
  Verdict(IF quote = "'" THEN "char" ELSE "string", "", body.end,
          Unterminated(body, start))

ScanLiteral(text, start, quote) ==
  LiteralOf(LiteralBody(text, At(text, start + 1), quote), start, quote)

(* Nothing is escaped in a header name.                                    *)
HeaderOf(body, start) == Verdict("header", "", body.end, Unterminated(body, start))

ScanHeaderName(text, start, open) ==
  LET close == IF open = "<" THEN ">" ELSE "\""
      last  == SkipTo(text, At(text, start + 1), {close, "\n"})
  IN  HeaderOf(LiteralTo(last, close, <<>>), start)

-----------------------------------------------------------------------------
(* What follows the universal character name at the backslash x, if it is  *)
(* one.                                                                    *)
PastUcn(text, x) == IF x.c = "\\" THEN AfterUcn(text, After(text, x)) ELSE {}

(* A turn goes to what follows the next element of a word, if there is one. *)
WordTurn(text, Following(_, _)) ==
  [p \in Nat |-> LET next == Following(text, At(text, p))
                 IN  IF next = {} THEN p ELSE The(next).from]

(* What an identifier leaves to be read.                                   *)
InIdentifier(text, x) == IF x.c \in WordChar THEN {After(text, x)} ELSE PastUcn(text, x)

IdentifierEnd(text, x) == At(text, LoopEnd(WordTurn(text, InIdentifier), x.from))

EncodingPrefix(spelling, quote) ==
  \/ spelling \in {<<"L">>, <<"u">>, <<"U">>}
  \/ spelling = <<"u", "8">> /\ quote = "\""

(* An identifier, a literal it is the prefix of, or a stray backslash.     *)
IdentifierTo(text, first, rest) ==
  IF rest.from = first.at
  THEN Verdict("other", "", first.next, <<Problem("stray", first.at)>>)
  ELSE IF rest.c \in {"'", "\""} /\ EncodingPrefix(Spelling(text, first.at, rest.from), rest.c)
  THEN ScanLiteral(text, rest.at, rest.c)
  ELSE Verdict("identifier", "", rest.from, <<>>)

ScanIdentifier(text, first) ==
  IdentifierTo(text, first, IdentifierEnd(text, At(text, first.at)))

(* A sign continues a number directly after an exponent letter only.       *)
AfterSign(text, x) == IF x.c \in {"+", "-"} THEN After(text, x) ELSE x

InNumber(text, x) ==
  CASE x.c \in {"e", "E", "p", "P"} -> {AfterSign(text, After(text, x))}
    [] x.c \in (WordChar \ {"e", "E", "p", "P"}) \cup {"."} -> {After(text, x)}
    [] OTHER -> PastUcn(text, x)

NumberEnd(text, x) == At(text, LoopEnd(WordTurn(text, InNumber), x.from))

ScanNumber(text, first) ==
  Verdict("number", "", NumberEnd(text, After(text, first)).from, <<>>)

-----------------------------------------------------------------------------
(* What may follow the first character of a punctuator, in the order the   *)
(* switch of punct.c tries it, and the token the whole stands for.         *)
Longer(c) ==
  CASE c = "." -> << <<"...", ".", ".">> >>
    [] c = "-" -> << <<"->", ">">>, <<"--", "-">>, <<"-=", "=">> >>
    [] c = "+" -> << <<"++", "+">>, <<"+=", "=">> >>
    [] c = "&" -> << <<"&&", "&">>, <<"&=", "=">> >>
    [] c = "|" -> << <<"||", "|">>, <<"|=", "=">> >>
    [] c = "<" -> << <<"<<=", "<", "=">>, <<"<<", "<">>, <<"<=", "=">>,
                     <<"[", ":">>, <<"{", "%">> >>
    [] c = ">" -> << <<">>=", ">", "=">>, <<">>", ">">>, <<">=", "=">> >>
    [] c = "%" -> << <<"%=", "=">>, <<"}", ">">>, <<"##", ":", "%", ":">>, <<"#", ":">> >>
    [] c = ":" -> << <<"]", ">">> >>
    [] c = "#" -> << <<"##", "#">> >>
    [] c \in {"!", "*", "/", "=", "^"} -> << <<c \o "=", "=">> >>
    [] OTHER -> <<>>

PunctStart == Characters("[](){};,~.-+&|!*/=^<>%:?#")

(* Whether the alternative is spelled out after first.                     *)
Ahead(text, first, alternative) ==
  \A n \in 1 .. Len(alternative) - 1 : Nth(text, first, n).c = alternative[n + 1]

PunctTo(text, first, alternative) ==
  Verdict("punct", alternative[1], Nth(text, first, Len(alternative) - 1).next, <<>>)

(* The first alternative that is spelled out after first.                  *)
PunctFrom(text, first, alternatives) ==
  LET ahead == {i \in DOMAIN alternatives : Ahead(text, first, alternatives[i])}
  IN  IF ahead = {}
      THEN Verdict("punct", first.c, first.next, TrigraphAt(text, first))
      ELSE PunctTo(text, first,
                   alternatives[CHOOSE i \in ahead : \A j \in ahead : i <= j])

ScanPunct(text, first) ==
  IF first.c \in PunctStart THEN PunctFrom(text, first, Longer(first.c))
  ELSE Verdict("other", "", first.next, <<>>)
=============================================================================
