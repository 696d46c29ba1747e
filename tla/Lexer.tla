------------------------------- MODULE Lexer -------------------------------
(***************************************************************************)
(* The lexer (lexer/lexer.c): translation phases 1 to 3 of one source.     *)
(* Its caller is the token stream of the preprocessor, which asks for one  *)
(* token at a time, with the header-name mode switched on for the one      *)
(* after "# include" (stream.c:321-344), and stops at the end of the       *)
(* input; the header (lexer.h:62) lets any other caller go on.             *)
(***************************************************************************)
EXTENDS FiniteSets, Scanners

CONSTANT OverReads      \* calls made after the first end-of-input token

VARIABLES
  text,          \* lexer->source
  lexer,         \* pos, at_line_start, eof_newline_done
  tokens,        \* what the calls have returned
  problems       \* what the sink holds

lexVars == <<text, lexer, tokens, problems>>

LexInit(source) ==
  /\ text = source
  /\ lexer = [pos |-> 0, at_line_start |-> TRUE, eof_newline_done |-> FALSE]
  /\ tokens = <<>>
  /\ problems = <<>>

-----------------------------------------------------------------------------
(* White space and comments: the character the next token starts with, and *)
(* what was passed on the way to it.                                       *)
Blank(x, space, reported) == [x |-> x, space |-> space, reported |-> reported]

CommentRests(src, star) ==
  star.c = End \/ (star.c = "*" /\ After(src, star).c = "/")

CommentTo(src, last) ==
  IF last.c = End THEN Body(last.at, FALSE, <<>>)
  ELSE Body(After(src, last).next, TRUE, <<>>)

(* Faulty: a star that is not followed by a slash takes the next character *)
(* with it, so two stars and a slash do not end a comment.                 *)
CommentEndGreedy(src, star) ==
  CommentTo(src, At(src, LoopEnd(
    [p \in Nat |-> LET x == At(src, p)
                   IN  IF CommentRests(src, x) THEN p
                       ELSE SkipTo(src, After(src, After(src, x)), {"*"}).from],
    star.from)))

(* From a star, or the end of the text, to the next.                       *)
CommentTurn(src) ==
  [p \in Nat |-> LET x == At(src, p)
                 IN  IF CommentRests(src, x) THEN p
                     ELSE SkipTo(src, After(src, x), {"*"}).from]

CommentEnd(src, star) == CommentTo(src, At(src, LoopEnd(CommentTurn(src), star.from)))

(* The comment whose second character is y.                                *)
SkipComment(src, y) ==
  IF y.c = "/" THEN Body(SkipTo(src, After(src, y), {"\n"}).at, TRUE, <<>>)
  ELSE CommentEnd(src, SkipTo(src, After(src, y), {"*"}))

OpensComment(src, x) == x.c = "/" /\ After(src, x).c \in {"/", "*"}

(* A turn passes on one character of white space, or one comment.          *)
BlankTurn(src) ==
  [p \in Nat |-> LET x == At(src, p)
                 IN  IF x.c \in Space THEN x.next
                     ELSE IF OpensComment(src, x) THEN SkipComment(src, After(src, x)).end
                     ELSE p]

BlankReports(src) ==
  [p \in Nat |-> LET x == At(src, p)
                 IN  IF OpensComment(src, x) /\ ~SkipComment(src, After(src, x)).closed
                     THEN <<Problem("comment", x.at)>> ELSE <<>>]

SkipBlank(src, pos) ==
  LET last == LoopEnd(BlankTurn(src), pos)
  IN  Blank(At(src, last), last # pos, LoopFound(BlankTurn(src), BlankReports(src), pos))

(* Which scanner the first character of a token calls for.                 *)
Scan(src, x, header_mode) ==
  IF header_mode /\ x.c \in {"<", "\""} THEN ScanHeaderName(src, x.at, x.c)
  ELSE IF x.c \in Nondigit \cup {"\\"} THEN ScanIdentifier(src, x)
  ELSE IF x.c \in Digit \/ (x.c = "." /\ After(src, x).c \in Digit) THEN ScanNumber(src, x)
  ELSE IF x.c \in {"'", "\""} THEN ScanLiteral(src, x.at, x.c)
  ELSE ScanPunct(src, x)

(* Faulty: whether the newline was supplied is not remembered.             *)
EndOfInputForgetful(src, lx) ==
  Verdict(IF lx.at_line_start THEN "eof" ELSE "newline", "", Len(src), <<>>)

(* The end of input: a newline the last line lacks is supplied once.       *)
EndOfInput(src, lx) ==
  Verdict(IF lx.at_line_start \/ lx.eof_newline_done THEN "eof" ELSE "newline",
          "", Len(src), <<>>)

NextVerdict(src, lx, x, header_mode) ==
  CASE x.c = End -> EndOfInput(src, lx)
    [] x.c = "\n" -> Verdict("newline", "", x.next, <<>>)
    [] OTHER -> Scan(src, x, header_mode)

(* make_token: the only place where a token takes effect.                  *)
MakeToken(start, space, verdict) ==
  /\ tokens' = Append(tokens,
       [kind |-> verdict.kind, punct |-> verdict.punct, offset |-> start,
        end |-> verdict.end, line |-> Location(text, start).line,
        space |-> space, at_line_start |-> lexer.at_line_start])
  /\ lexer' = [pos |-> verdict.end,
               at_line_start |-> verdict.kind = "newline",
               eof_newline_done |->
                 \/ lexer.eof_newline_done
                 \/ verdict.kind = "newline" /\ start = verdict.end]

LexToken(blank, verdict) ==
  /\ MakeToken(blank.x.at, blank.space, verdict)
  /\ problems' = problems \o blank.reported \o verdict.problems
  /\ UNCHANGED text

(* One call of qcc_lexer_next.                                             *)
NextFrom(blank, header_mode) ==
  LexToken(blank, NextVerdict(text, lexer, blank.x, header_mode))

NextToken(header_mode) ==
  NextFrom(SkipBlank(text, lexer.pos), header_mode)

-----------------------------------------------------------------------------
(* The calls.                                                              *)
EndsSoFar == {i \in DOMAIN tokens : tokens[i].kind = "eof"}

(* The tokens up to the first end of input.                                *)
Stream ==
  IF EndsSoFar = {} THEN tokens
  ELSE SubSeq(tokens, 1, CHOOSE i \in EndsSoFar : \A j \in EndsSoFar : i <= j)

Finished == EndsSoFar # {} /\ Len(tokens) = Len(Stream)

Include == <<"i", "n", "c", "l", "u", "d", "e">>

AfterInclude ==
  LET n == Len(tokens)
  IN  /\ n >= 2
      /\ tokens[n - 1].punct = "#" /\ tokens[n - 1].at_line_start
      /\ Spelling(text, tokens[n].offset, tokens[n].end) = Include

(* Whether an over-reading caller goes on.                                 *)
OverReading == Len(tokens) - Len(Stream) < OverReads

ReadToken == NextToken(EndsSoFar = {} /\ AfterInclude)

-----------------------------------------------------------------------------
(* A last line without a newline gets one, and only one, in all the calls  *)
(* that are ever made (lexer.c:92-107).                                    *)
NewlineOnce ==
  Cardinality({i \in DOMAIN tokens :
                 tokens[i].kind = "newline" /\ tokens[i].offset = tokens[i].end}) <= 1
=============================================================================
