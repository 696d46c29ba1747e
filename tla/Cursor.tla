------------------------------- MODULE Cursor -------------------------------
(***************************************************************************)
(* A source text and the only two ways the front end reads it: by physical *)
(* line (source/source.c) and by logical character, with the line splices  *)
(* of phase 2 skipped on the fly (lexer/internal/cursor.c).  A text is a   *)
(* sequence of one-character strings; offsets count from 0, as in the code.*)
(***************************************************************************)
EXTENDS Naturals, Sequences

Characters(s) == {SubSeq(s, i, i) : i \in 1 .. Len(s)}

End == ""              \* the sentinel read at offset size and beyond
Nul == "nul"           \* a NUL byte inside the text

Space    == {" ", "\t", "\f", "\r"}
Digit    == Characters("0123456789")
HexDigit == Digit \cup Characters("abcdefABCDEF")
Nondigit == Characters("abcdefghijklmnopqrstuvwxyzABCDEFGHIJKLMNOPQRSTUVWXYZ_")
WordChar == Digit \cup Nondigit

Byte(text, pos) == IF pos < Len(text) THEN text[pos + 1] ELSE End

(* Loops.  The body of a loop is a function that gives, for the place, an  *)
(* offset mostly, at the start of a turn, that at its end; a loop has      *)
(* ended at a place its body leaves alone.                                 *)

(* Where the loop that starts at p ends.                                   *)
LoopEnd(step, p) ==
  LET from[q \in DOMAIN step] == IF step[q] = q THEN q ELSE from[step[q]] IN from[p]

(* What it collects on the way, when a turn from q collects found[q].      *)
LoopFound(step, found, p) ==
  LET from[q \in DOMAIN step] ==
        IF step[q] = q THEN <<>> ELSE found[q] \o from[step[q]]
  IN  from[p]

(* Where it is after n turns.                                              *)
LoopAfter(step, p, n) ==
  LET after[k \in 0 .. n] == IF k = 0 THEN p ELSE step[after[k - 1]] IN after[n]

-----------------------------------------------------------------------------
(* The length of the splice at pos, 0 when there is none.                  *)
SpliceAt(text, pos) ==
  IF Byte(text, pos) # "\\" THEN 0
  ELSE IF Byte(text, pos + 1) = "\n" THEN 2
  ELSE IF Byte(text, pos + 1) = "\r" /\ Byte(text, pos + 2) = "\n" THEN 3
  ELSE 0

(* Faulty: of several splices in a row only the first is skipped.          *)
SkipOneSplice(text, pos) == pos + SpliceAt(text, pos)

SkipSplices(text, pos) == LoopEnd([p \in Nat |-> p + SpliceAt(text, p)], pos)

(* The logical character read from pos: where it stands, once splices are  *)
(* skipped, and what follows it.                                           *)
CharacterAt(text, from, p) ==
  [c |-> Byte(text, p), from |-> from, at |-> p,
   next |-> IF p < Len(text) THEN p + 1 ELSE p]

At(text, pos) == CharacterAt(text, pos, SkipSplices(text, pos))

After(text, x) == At(text, x.next)

(* The n-th logical character after x.                                     *)
Nth(text, x, n) == At(text, LoopAfter([p \in Nat |-> At(text, p).next], x.from, n))

(* The first logical character from x on that is in S.                     *)
SkipTo(text, x, S) ==
  At(text, LoopEnd([p \in Nat |-> IF At(text, p).c \in S \cup {End} THEN p
                               ELSE At(text, p).next], x.from))

(* The span [offset, end) without its splices.                             *)
Spelling(text, offset, end) ==
  LoopFound([p \in Nat |-> IF SkipSplices(text, p) >= end THEN p ELSE At(text, p).next],
      [p \in Nat |-> <<At(text, p).c>>], offset)

-----------------------------------------------------------------------------
(* The line index: the offsets at which the physical lines begin.          *)
NextByte(text) == [p \in Nat |-> IF p < Len(text) THEN p + 1 ELSE p]

LineAfter(text) == [p \in Nat |-> IF Byte(text, p) = "\n" THEN <<p + 1>> ELSE <<>>]

LineStarts(text) == <<0>> \o LoopFound(NextByte(text), LineAfter(text), 0)

(* The upper bound of offset in starts, by halving the range <<lo, hi>>.   *)
Halve(starts, offset, lo, hi) ==
  LET mid == lo + (hi - lo) \div 2
  IN  IF lo >= hi THEN <<lo, hi>>
      ELSE IF starts[mid + 1] <= offset THEN <<mid + 1, hi>> ELSE <<lo, mid>>

UpperBound(starts, offset) ==
  LoopEnd([r \in (0 .. Len(starts)) \X (0 .. Len(starts)) |->
             Halve(starts, offset, r[1], r[2])], <<0, Len(starts)>>)[1]

Located(starts, line, offset) ==
  [line |-> line, column |-> offset - starts[line] + 1]

LocationIn(starts, offset) == Located(starts, UpperBound(starts, offset), offset)

(* Line and column of an offset, which is clamped to the end of the text.  *)
Location(text, offset) ==
  LocationIn(LineStarts(text), IF offset > Len(text) THEN Len(text) ELSE offset)
=============================================================================
