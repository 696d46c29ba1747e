----------------------------- MODULE Rendering -----------------------------
(***************************************************************************)
(* Preprocessing tokens written as text: the rendering of a token list     *)
(* (pp/render.c) and the texts that # and ## make (pp/internal/glue.c).    *)
(* Each is a function of the tokens; what it must guarantee is that the    *)
(* text, read again, is what it was made from, and the reader is the       *)
(* grammar of LexicalGrammar.                                              *)
(*                                                                         *)
(* The tokens come from the lexer, with the mode "printer".  Those that    *)
(* macro replacement puts side by side have no white space between them,   *)
(* whatever they had in their texts: Shown(FALSE) are the tokens without.  *)
(***************************************************************************)
EXTENDS Driver, LexicalGrammar

ShownAs(t, spaced) ==
  [kind |-> t.kind, punct |-> t.punct, word |-> Spelling(text, t.offset, t.end),
   space |-> t.space /\ spaced, bol |-> t.at_line_start]

Shown(spaced) ==
  LET kept == SelectSeq(Stream, LAMBDA t : t.kind \notin {"newline", "eof"})
  IN  [i \in DOMAIN kept |-> ShownAs(kept[i], spaced)]

FirstOf(t) == t.word[1]
LastOf(t)  == t.word[Len(t.word)]

-----------------------------------------------------------------------------
(* render.c *)

(* Faulty: a literal may follow a word, which becomes its prefix.          *)
NeedsSpaceButForPrefixes(prev, cur) ==
  \/ LastOf(prev) \in WordChar /\ FirstOf(cur) \in WordChar
  \/ prev.kind = "punct" /\ cur.kind = "punct"
  \/ prev.kind = "number" /\ FirstOf(cur) \in {".", "+", "-"}
  \/ LastOf(prev) = "." /\ cur.kind = "number"

NeedsSpace(prev, cur) ==
  \/ LastOf(prev) \in WordChar
     /\ (FirstOf(cur) \in WordChar \/ cur.kind \in {"string", "char"})
  \/ prev.kind = "punct" /\ cur.kind = "punct"
  \/ prev.kind = "number" /\ FirstOf(cur) \in {".", "+", "-"}
  \/ LastOf(prev) = "." /\ cur.kind = "number"

Separator(prev, cur) ==
  IF cur.bol THEN <<"\n">>
  ELSE IF cur.space \/ NeedsSpace(prev, cur) THEN <<" ">> ELSE <<>>

Rendered(shown) ==
  IF shown = <<>> THEN <<>>
  ELSE Seqs!FlattenSeq([i \in DOMAIN shown |->
         (IF i = 1 THEN <<>> ELSE Separator(shown[i - 1], shown[i])) \o shown[i].word])
       \o <<"\n">>

-----------------------------------------------------------------------------
(* glue.c: the text of #, for the tokens of an argument.                   *)

(* Faulty: a backslash in a literal is not escaped.                        *)
QuotedCharacterOnly(t, c) ==
  IF t.kind \in {"string", "char"} /\ c = "\"" THEN <<"\\", c>> ELSE <<c>>

QuotedCharacter(t, c) ==
  IF t.kind \in {"string", "char"} /\ c \in {"\"", "\\"} THEN <<"\\", c>> ELSE <<c>>

Quoted(t) == Seqs!FlattenSeq([k \in DOMAIN t.word |-> QuotedCharacter(t, t.word[k])])

Stringized(shown) ==
  <<"\"">>
  \o Seqs!FlattenSeq([i \in DOMAIN shown |->
       (IF i # 1 /\ shown[i].space THEN <<" ">> ELSE <<>>) \o Quoted(shown[i])])
  \o <<"\"">>

(* The token ## makes of two, by lexing their spellings as one source.  If *)
(* the first token reaches to the end, only the end can follow it.         *)
Fresh == [pos |-> 0, at_line_start |-> TRUE, eof_newline_done |-> FALSE]

FirstToken(src, blank) ==
  [offset |-> blank.x.at, verdict |-> NextVerdict(src, Fresh, blank.x, FALSE)]

(* Faulty: the first token need not be all of the text.                    *)
SingleIfAny(src, first) == first.verdict.kind \notin {"eof", "newline"}

Single(src, first) ==
  /\ first.verdict.kind \notin {"eof", "newline"}
  /\ first.offset = 0 /\ first.verdict.end = Len(src)

PastedFrom(left, src, first) ==
  IF Single(src, first)
  THEN [ok |-> TRUE, kind |-> first.verdict.kind, punct |-> first.verdict.punct,
        word |-> Spelling(src, 0, first.verdict.end)]
  ELSE [ok |-> FALSE, kind |-> left.kind, punct |-> left.punct, word |-> left.word]

PasteOf(left, src) ==
  PastedFrom(left, src, FirstToken(src, SkipBlank(src, 0)))

-----------------------------------------------------------------------------
(* What the rendering overlooks.  A number that ends in a dot or a sign    *)
(* goes on with a word, and a word or a number with a universal character  *)
(* name; a lone backslash makes such a name of what follows it; and a      *)
(* backslash before a line end deletes the line end.                       *)
Overlooked(prev, cur) ==
  \/ /\ prev.kind = "number" /\ LastOf(prev) \in {".", "+", "-"}
     /\ FirstOf(cur) \in WordChar \cup {"\\"}
  \/ prev.kind \in {"identifier", "number"} /\ FirstOf(cur) = "\\"
  \/ LastOf(prev) = "\\"

Careless(shown) ==
  \/ \E i \in 1 .. Len(shown) - 1 :
       /\ Overlooked(shown[i], shown[i + 1])
       /\ ~shown[i + 1].space
  \/ shown # <<>> /\ LastOf(shown[Len(shown)]) = "\\"

PieceWord(L, e) == [i \in 1 .. e.last - e.first + 1 |-> L[e.first + i - 1].c]

SameAgain(L, pieces, shown) ==
  /\ Len(pieces) = Len(shown)
  /\ \A i \in DOMAIN shown :
       /\ pieces[i].kind = shown[i].kind /\ pieces[i].punct = shown[i].punct
       /\ PieceWord(L, pieces[i]) = shown[i].word
       /\ pieces[i].bol = shown[i].bol
       /\ shown[i].space /\ i > 1 /\ ~shown[i].bol => pieces[i].space

Solid(cutting) ==
  SelectSeq(cutting.pieces, LAMBDA e : e.kind \notin {"newline", "eof"})

ReadsAs(src, shown) == SameAgain(Logical(src), Solid(Expected(src)), shown)

(* The rendered text re-lexes to the same token sequence, on the same      *)
(* lines, also when no white space is left between the tokens: wherever    *)
(* two neighbours would be read as one, or otherwise than they are, a      *)
(* space keeps them apart (render.c:1-9, 72-103).  Overlooked names the    *)
(* pairs for which this is not so.                                         *)
RendersBack ==
  driver.mode = "printer" /\ Finished =>
    \A spaced \in BOOLEAN :
      ~Careless(Shown(spaced)) => ReadsAs(Rendered(Shown(spaced)), Shown(spaced))

-----------------------------------------------------------------------------
(* The characters that a string literal's body stands for, in which only   *)
(* quotes and backslashes were escaped.                                    *)
RECURSIVE Unquoted(_)
Unquoted(body) ==
  IF body = <<>> THEN <<>>
  ELSE IF body[1] = "\\" THEN <<body[2]>> \o Unquoted(SubSeq(body, 3, Len(body)))
  ELSE <<body[1]>> \o Unquoted(Tail(body))

Inside(src) == SubSeq(src, 2, Len(src) - 1)

(* The spellings, with the white space between them, each as one space.    *)
Said(shown) ==
  Seqs!FlattenSeq([i \in DOMAIN shown |->
    (IF i > 1 /\ shown[i].space THEN <<" ">> ELSE <<>>) \o shown[i].word])

IsOneToken(src, pieces) ==
  Len(pieces) = 1 /\ pieces[1].first = 1 /\ pieces[1].last = Len(src)

IsClosedString(L, src, pieces) ==
  IsOneToken(src, pieces) /\ pieces[1].kind = "string" /\ LeftOpen(L, pieces[1]) = {}

(* A token with a backslash that is not part of a closed literal: a stray  *)
(* one, a universal character name or an unterminated literal.             *)
Bare(t) ==
  /\ \E i \in DOMAIN t.word : t.word[i] = "\\"
  /\ t.kind \in {"char", "string"} => LastOf(t) \notin {"'", "\""}

StringizesBack(src, shown) ==
  /\ IsClosedString(Logical(src), src, Solid(Expected(src)))
  /\ Unquoted(Inside(src)) = Said(shown)

PastesBack(src, pieces, paste) ==
  /\ paste.ok = IsOneToken(src, pieces)
  /\ paste.ok =>
       paste.word = src /\ paste.kind = pieces[1].kind /\ paste.punct = pieces[1].punct

(* What # makes of an argument is one closed string literal, and what it   *)
(* stands for is the argument's own text; ## makes a token of two exactly  *)
(* when their spellings together are one token of the grammar, and makes   *)
(* that token (glue.c:98-147, 149-239; expand.c:486-546 relies on both).   *)
GluesBack ==
  driver.mode = "printer" /\ Finished =>
    /\ \A spaced \in BOOLEAN :
         (\A i \in DOMAIN Shown(spaced) : ~Bare(Shown(spaced)[i])) =>
           StringizesBack(Stringized(Shown(spaced)), Shown(spaced))
    /\ \A i \in 1 .. Len(Shown(TRUE)) - 1 :
         LET src == Shown(TRUE)[i].word \o Shown(TRUE)[i + 1].word
         IN  PastesBack(src, Solid(Expected(src)), PasteOf(Shown(TRUE)[i], src))
=============================================================================
