------------------------------ MODULE Literals ------------------------------
(***************************************************************************)
(* The values of constants and string literals (convert/internal): what    *)
(* each evaluator makes of the characters of a token, and what it reports. *)
(* Positions in a spelling count from 1 here.  The widths of the target    *)
(* are parameters, so that their boundaries can be met with short          *)
(* constants.                                                              *)
(***************************************************************************)
EXTENDS Integers, Scanners

CONSTANTS
  IntWidth,      \* bits of int (32)
  LongWidth,     \* bits of long, long long and uint64_t (64)
  IntBytes,      \* bytes a plain character constant keeps (4)
  WordWidth      \* bits of uint32_t, wchar_t and char32_t (32)

ASSUME LiteralsAssumption ==
  /\ IntWidth \in Nat \ {0} /\ LongWidth \in Nat /\ IntWidth < LongWidth
  /\ 2 ^ LongWidth \in Nat \ {0}      \* what powers are is not known to the provers
  /\ IntBytes \in Nat \ {0} /\ WordWidth \in Nat /\ WordWidth > 20

(* Bytes beyond ASCII are known by the name of their value.                *)
HighBytes == [x80 |-> 128, xbf |-> 191, xc1 |-> 193, xc3 |-> 195, xe2 |-> 226,
              xed |-> 237, xf0 |-> 240, xf5 |-> 245, x9f |-> 159, xa0 |-> 160]

Printable ==
  " !\"#$%&'()*+,-./0123456789:;<=>?@ABCDEFGHIJKLMNOPQRSTUVWXYZ[\\]^_"
Lowercase == "abcdefghijklmnopqrstuvwxyz{|}~"

(* The function from the letters of a word to the values at their places.  *)
Table(letters, values) ==
  [c \in Characters(letters) |->
     values[CHOOSE i \in 1 .. Len(letters) : SubSeq(letters, i, i) = c]]

Code ==
  LET printable == Table(Printable, [i \in 1 .. Len(Printable) |-> 31 + i])
      lowercase == Table(Lowercase, [i \in 1 .. Len(Lowercase) |-> 96 + i])
      control   == Table("\t\n\f\r", <<9, 10, 12, 13>>)
  IN  [c \in UNION {DOMAIN printable, DOMAIN lowercase, DOMAIN control,
                DOMAIN HighBytes, {Nul}} |->
         CASE c = Nul -> 0
           [] c \in DOMAIN HighBytes -> HighBytes[c]
           [] c \in DOMAIN control -> control[c]
           [] c \in DOMAIN printable -> printable[c]
           [] c \in DOMAIN lowercase -> lowercase[c]]

(* No two characters have one byte.                                        *)
ASSUME CodeAssumption ==
  /\ \A c \in DOMAIN Code : Code[c] \in 0 .. 255
  /\ \A c, d \in DOMAIN Code : Code[c] = Code[d] => c = d

CharAt(w, i) == IF i \in DOMAIN w THEN w[i] ELSE End

Evaluated(value, type, reported) ==
  [value |-> value, type |-> type, reported |-> reported]

Report(condition, what) == IF condition THEN <<what>> ELSE <<>>

-----------------------------------------------------------------------------
(* Integer constants (intconst.c).                                         *)
(* The digits, by their values.                                            *)
DigitNames ==
  <<{"0"}, {"1"}, {"2"}, {"3"}, {"4"}, {"5"}, {"6"}, {"7"}, {"8"}, {"9"},
    {"a", "A"}, {"b", "B"}, {"c", "C"}, {"d", "D"}, {"e", "E"}, {"f", "F"}>>

ValuesOf(c) == {v \in 0 .. 15 : c \in DigitNames[v + 1]}

DigitValue(c) == IF ValuesOf(c) = {} THEN 99 ELSE The(ValuesOf(c))

(* The largest values of the types, by their place in the rank order.      *)
IntTypes == <<"int", "uint", "long", "ulong", "llong", "ullong">>

Largest(type) ==
  CASE type = "int" -> 2 ^ (IntWidth - 1) - 1
    [] type = "uint" -> 2 ^ IntWidth - 1
    [] type \in {"long", "llong"} -> 2 ^ (LongWidth - 1) - 1
    [] OTHER -> 2 ^ LongWidth - 1

Digits(at, value, overflow) == [at |-> at, value |-> value, overflow |-> overflow]

Digits0 == [at : Nat, value : Nat, overflow : BOOLEAN]

(* Faulty: only a sum that comes out smaller is taken for an overflow.     *)
AccumulateWrapped(w, base, first) ==
  LoopEnd([so \in Digits0 |->
             LET d    == DigitValue(CharAt(w, so.at))
                 next == (so.value * base + d) % 2 ^ LongWidth
             IN  IF d >= base THEN so
                 ELSE Digits(so.at + 1, next, so.overflow \/ next < so.value)], first)

(* The digits of the base, accumulated in one word.                        *)
WithDigit(so, base, d) ==
  Digits(so.at + 1, (so.value * base + d) % 2 ^ LongWidth,
         so.overflow \/ so.value > (2 ^ LongWidth - 1 - d) \div base)

DigitTurn(w, base) ==
  [so \in Digits0 |-> LET d == DigitValue(CharAt(w, so.at))
                      IN  IF d >= base THEN so ELSE WithDigit(so, base, d)]

Accumulate(w, base, first) == LoopEnd(DigitTurn(w, base), first)

(* u once, and one of l and ll, in either order; where that stops.         *)
Suffix(at, unsigned, longs) == [at |-> at, unsigned |-> unsigned, longs |-> longs]

SuffixFrom(w, first) ==
  LET from[so \in [at : Nat, unsigned : BOOLEAN, longs : 0 .. 2]] ==
        LET c == CharAt(w, so.at)
            n == IF CharAt(w, so.at + 1) = c THEN 2 ELSE 1
        IN  IF c \in {"u", "U"} /\ ~so.unsigned
            THEN from[Suffix(so.at + 1, TRUE, so.longs)]
            ELSE IF c \in {"l", "L"} /\ so.longs = 0
            THEN from[Suffix(so.at + n, so.unsigned, n)]
            ELSE so
  IN  from[first]

(* The types a constant may have, narrowest first.                         *)
CandidateTypes(decimal, suffix) ==
  SelectSeq(SubSeq(IntTypes, 2 * suffix.longs + 1, 6), LAMBDA t :
    LET unsigned == t \in {"uint", "ulong", "ullong"}
    IN  IF suffix.unsigned THEN unsigned ELSE ~(decimal /\ unsigned))

Chosen(value, candidates) ==
  LET fitting == SelectSeq(candidates, LAMBDA t : value <= Largest(t))
  IN  IF fitting = <<>> THEN "none" ELSE fitting[1]

IntegerOf(w, base, digits, suffix) ==
  LET chosen == Chosen(digits.value, CandidateTypes(base = 10, suffix))
      bad    == suffix.at <= Len(w)
      octal  == base = 8 /\ CharAt(w, suffix.at) \in {"8", "9"}
  IN  Evaluated(digits.value, IF chosen = "none" THEN "ullong" ELSE chosen,
                Report(bad, IF octal THEN "octal digit" ELSE "suffix")
                  \o Report(digits.overflow, "too large")
                  \o Report(chosen = "none", "so large it is unsigned"))

EvalInteger(w) ==
  LET base  == IF w[1] # "0" THEN 10
               ELSE IF CharAt(w, 2) \in {"x", "X"} THEN 16 ELSE 8
      first == CASE base = 10 -> 1 [] base = 8 -> 2 [] base = 16 -> 3
      digits == Accumulate(w, base, Digits(first, 0, FALSE))
  IN  IF base = 16 /\ digits.at = first
      THEN Evaluated(0, "int", <<"no hexadecimal digits">>)
      ELSE IntegerOf(w, base, digits, SuffixFrom(w, Suffix(digits.at, FALSE, 0)))

-----------------------------------------------------------------------------
(* Floating constants (floatconst.c).  The value is left to the library:   *)
(* what counts is how much of the spelling strtod takes, which is external.*)
RunOf(w, i, S) == LoopEnd([p \in Nat |-> IF CharAt(w, p) \in S THEN p + 1 ELSE p], i)

(* Past an exponent at i that has digits, or i.                            *)
ExponentEnd(w, i, letters) ==
  LET sign == IF CharAt(w, i + 1) \in {"+", "-"} THEN i + 2 ELSE i + 1
  IN  IF CharAt(w, i) \in letters /\ CharAt(w, sign) \in Digit
      THEN RunOf(w, sign, Digit) ELSE i

IsHex(w) == CharAt(w, 1) = "0" /\ CharAt(w, 2) \in {"x", "X"}

MantissaEnd(w, i, S) ==
  LET whole == RunOf(w, i, S)
  IN  IF CharAt(w, whole) = "." THEN RunOf(w, whole + 1, S) ELSE whole

NumberPart(w, first, mantissa, letters) ==
  IF \A i \in first .. mantissa - 1 : w[i] = "."
  THEN IF first = 3 THEN 2 ELSE 1
  ELSE ExponentEnd(w, mantissa, letters)

StrtodEnd(w) ==
  IF IsHex(w) THEN NumberPart(w, 3, MantissaEnd(w, 3, HexDigit), {"p", "P"})
  ELSE NumberPart(w, 1, MantissaEnd(w, 1, Digit), {"e", "E"})

FloatingOf(w, type, core, taken) ==
  Evaluated(IF taken = core THEN SubSeq(w, 1, core) ELSE <<>>, type,
            Report(taken # core, "not a floating constant"))

EvalFloating(w) ==
  LET last == w[Len(w)]
      type == CASE last \in {"f", "F"} -> "float"
                [] last \in {"l", "L"} -> "ldouble"
                [] OTHER -> "double"
      core == IF last \in {"f", "F", "l", "L"} THEN Len(w) - 1 ELSE Len(w)
  IN  FloatingOf(w, type, core, StrtodEnd(w) - 1)

-----------------------------------------------------------------------------
(* Escape sequences (escape.c): the value in one word, whether it names a  *)
(* character, the position after it, and what is reported.  An escape      *)
(* begins at i and the body ends before stop.                              *)
Escape(value, ucn, next, reported) ==
  [value |-> value, ucn |-> ucn, next |-> next, reported |-> reported]

Simple == Table("'\"?\\abfnrtv", <<39, 34, 63, 92, 7, 8, 12, 10, 13, 9, 11>>)

Octal == Characters("01234567")

(* At most `most' digits of S from i on.                                   *)
DigitsEnd(w, i, stop, S, most) ==
  LoopEnd([p \in Nat |-> IF p < i + most /\ p < stop /\ w[p] \in S THEN p + 1 ELSE p], i)

WordValue(w, i, end, base) ==
  LET to[k \in Nat] == IF k = i THEN 0
                       ELSE (to[k - 1] * base + DigitValue(w[k - 1])) % 2 ^ WordWidth
  IN  to[end]

IsSurrogate(v) == v \in 55296 .. 57343

UcnTo(end, value, complete) ==
  Escape(value, TRUE, end,
         IF ~complete THEN <<"incomplete ucn">>
         ELSE Report(IsSurrogate(value) \/ value > 1114111, "no code point"))

UcnEscape(w, i, end, length) ==
  UcnTo(end, WordValue(w, i, end, 16), end - i = length)

HexEscape(w, i, end) ==
  IF end = i THEN Escape(Code["x"], FALSE, end, <<"no hex digits">>)
  ELSE Escape(WordValue(w, i, end, 16), FALSE, end, <<>>)

OctalEscape(w, i, end) == Escape(WordValue(w, i, end, 8), FALSE, end, <<>>)

EscapeOf(w, i, stop, c) ==
  CASE c = End -> Escape(92, FALSE, i, <<"incomplete escape">>)
    [] c \in DOMAIN Simple -> Escape(Simple[c], FALSE, i + 1, <<>>)
    [] c \in Octal -> OctalEscape(w, i, DigitsEnd(w, i, stop, Octal, 3))
    [] c = "x" -> HexEscape(w, i + 1, DigitsEnd(w, i + 1, stop, HexDigit, Len(w)))
    [] c \in {"u", "U"} ->
         LET length == IF c = "u" THEN 4 ELSE 8
         IN  UcnEscape(w, i + 1, DigitsEnd(w, i + 1, stop, HexDigit, length), length)
    [] OTHER -> Escape(Code[c], FALSE, i + 1, <<"unknown escape">>)

DecodeEscape(w, i, stop) ==
  EscapeOf(w, i + 1, stop, IF i + 1 < stop THEN w[i + 1] ELSE End)

-----------------------------------------------------------------------------
(* The codecs (encoding.c).                                                *)
UnitMax(enc) == CASE enc \in {"plain", "utf8"} -> 255
                  [] enc = "char16" -> 65535
                  [] enc \in {"wide", "char32"} -> 2 ^ WordWidth - 1

Utf8Encode(cp) ==
  LET Rest(v) == 128 + (v % 64)
  IN  IF cp < 128 THEN <<cp>>
      ELSE IF cp < 2048 THEN <<192 + (cp \div 64), Rest(cp)>>
      ELSE IF cp < 65536 THEN <<224 + (cp \div 4096), Rest(cp \div 64), Rest(cp)>>
      ELSE <<240 + ((cp \div 262144) % 16), Rest(cp \div 4096), Rest(cp \div 64),
             Rest(cp)>>

Utf16Encode(cp) ==
  IF cp < 65536 THEN <<cp>>
  ELSE <<(55296 + (cp - 65536) \div 1024) % 65536, 56320 + ((cp - 65536) % 1024)>>

LeadLength(b) ==
  CASE b < 128 -> 1 [] b \in 194 .. 223 -> 2 [] b \in 224 .. 239 -> 3
    [] b \in 240 .. 244 -> 4 [] OTHER -> 0

(* The code point that n bytes spell, and the least that n bytes may spell.*)
Spelled8(bytes, n) ==
  LET of[k \in 1 .. n] == IF k = 1 THEN bytes[1] % <<64, 32, 16, 8>>[n]
                          ELSE of[k - 1] * 64 + (bytes[k] % 64)
  IN  of[n]

LeastOf(n) == <<0, 128, 2048, 65536>>[n]

(* One code point of n bytes from i on; a byte that begins none is taken   *)
(* as it is.                                                               *)
DecodeFrom(bytes, i, n) ==
  LET cp == Spelled8(bytes, n)
  IN  IF \/ \E k \in 2 .. n : bytes[k] \notin 128 .. 191
         \/ n > 1 /\ (cp < LeastOf(n) \/ IsSurrogate(cp) \/ cp > 1114111)
      THEN [cp |-> bytes[1], next |-> i + 1]
      ELSE [cp |-> IF n = 1 THEN bytes[1] ELSE cp, next |-> i + n]

Utf8Decode(w, i, stop) ==
  LET claimed == LeadLength(Code[w[i]])
      n       == IF claimed = 0 \/ i + claimed > stop THEN 1 ELSE claimed
  IN  DecodeFrom([k \in 1 .. n |-> Code[w[i + k - 1]]], i, n)

-----------------------------------------------------------------------------
(* The body of a literal between its quotes, as far as it goes.            *)
Prefixed(w, quote) ==
  LET Enc(n) == CASE n = 1 /\ w[1] = "L" -> "wide"
                  [] n = 1 /\ w[1] = "u" -> "char16"
                  [] n = 1 /\ w[1] = "U" -> "char32"
                  [] n = 2 /\ quote = "\"" /\ w[1] = "u" /\ w[2] = "8" -> "utf8"
                  [] OTHER -> "plain"
      at == IF CharAt(w, 2) = quote /\ Enc(1) # "plain" THEN 1
            ELSE IF CharAt(w, 3) = quote /\ Enc(2) # "plain" THEN 2 ELSE 0
  IN  [enc |-> IF at = 0 THEN "plain" ELSE Enc(at), from |-> at + 2]

BodyStop(w, quote, from) ==
  IF Len(w) >= from /\ w[Len(w)] = quote THEN Len(w)
  ELSE IF Len(w) + 1 < from THEN from ELSE Len(w) + 1

(* What one step through a body yields: its units and the next position.   *)
Units(seq, next, reported) == [seq |-> seq, next |-> next, reported |-> reported]

RawUnit(e, enc) ==
  Units(<<e.value % (UnitMax(enc) + 1)>>, e.next,
        e.reported \o Report(e.value > UnitMax(enc), "out of range"))

Encoded(cp, enc) ==
  CASE enc \in {"plain", "utf8"} -> Utf8Encode(cp)
    [] enc = "char16" -> Utf16Encode(cp)
    [] enc \in {"wide", "char32"} -> <<cp>>

(* Of a string (strlit.c, decode_piece).                                   *)
StringEscape(e, enc) ==
  IF e.ucn THEN Units(Encoded(e.value, enc), e.next, e.reported) ELSE RawUnit(e, enc)

StringCharacter(d, enc) == Units(Encoded(d.cp, enc), d.next, <<>>)

StringUnits(w, i, stop, enc) ==
  CASE w[i] = "\\" -> StringEscape(DecodeEscape(w, i, stop), enc)
    [] w[i] # "\\" /\ enc \in {"plain", "utf8"} -> Units(<<Code[w[i]]>>, i + 1, <<>>)
    [] OTHER -> StringCharacter(Utf8Decode(w, i, stop), enc)

(* Of a character constant (charconst.c): the bytes of a plain one, one    *)
(* unit for every character of another.                                    *)
CharEscape(e, enc) ==
  IF enc = "plain" /\ e.ucn THEN Units(Utf8Encode(e.value), e.next, e.reported)
  ELSE RawUnit(e, enc)

WideCharacter(d, enc) ==
  Units(<<d.cp % (UnitMax(enc) + 1)>>, d.next, Report(d.cp > UnitMax(enc), "does not fit"))

CharUnits(w, i, stop, enc) ==
  CASE w[i] = "\\" -> CharEscape(DecodeEscape(w, i, stop), enc)
    [] w[i] # "\\" /\ enc = "plain" -> Units(<<Code[w[i]]>>, i + 1, <<>>)
    [] OTHER -> WideCharacter(Utf8Decode(w, i, stop), enc)

Joining(so, u) == Units(so.seq \o u.seq, u.next, so.reported \o u.reported)

Units0 == [seq : Seq(Nat), next : Nat, reported : Seq(STRING)]

StringBody(w, stop, enc, first) ==
  LET from[so \in Units0] ==
        IF so.next >= stop THEN so ELSE from[Joining(so, StringUnits(w, so.next, stop, enc))]
  IN  from[first]

CharBody(w, stop, enc, first) ==
  LET from[so \in Units0] ==
        IF so.next >= stop THEN so ELSE from[Joining(so, CharUnits(w, so.next, stop, enc))]
  IN  from[first]

SignedAs(v, width) == IF v >= 2 ^ (width - 1) THEN v - 2 ^ width ELSE v

(* Big-endian, the last IntBytes bytes of them.                            *)
Packed(bytes) ==
  LET of[k \in 0 .. Len(bytes)] ==
        IF k = 0 THEN 0 ELSE (of[k - 1] * 256 + bytes[k]) % 256 ^ IntBytes
  IN  of[Len(bytes)]

CharOf(enc, body) ==
  LET n     == Len(body.seq)
      last  == body.seq[n]
      plain == enc = "plain"
      value == CASE n = 0 -> 0
                 [] plain /\ n = 1 -> SignedAs(last, 8)
                 [] plain /\ n > 1 -> SignedAs(Packed(body.seq), 8 * IntBytes)
                 [] ~plain /\ n > 0 -> IF enc = "wide" THEN SignedAs(last, WordWidth)
                                       ELSE last
  IN  Evaluated(value, enc,
                body.reported \o Report(n = 0, "empty") \o Report(n > 1, "multi-character")
                  \o Report(plain /\ n > IntBytes, "too long"))

CharFrom(w, p) ==
  CharOf(p.enc, CharBody(w, BodyStop(w, "'", p.from), p.enc, Units(<<>>, p.from, <<>>)))

EvalChar(w) == CharFrom(w, Prefixed(w, "'"))

(* The encoding of a run of pieces: the first prefix there is.             *)
Prefixes(pieces) ==
  SelectSeq([i \in DOMAIN pieces |-> Prefixed(pieces[i], "\"").enc],
            LAMBDA enc : enc # "plain")

RunEncoding(pieces) ==
  LET all == Prefixes(pieces) IN IF all = <<>> THEN "plain" ELSE all[1]

Clashes(pieces) ==
  [i \in DOMAIN SelectSeq(Prefixes(pieces), LAMBDA enc : enc # RunEncoding(pieces)) |->
     "mixed prefixes"]

Piece1(w, from, enc, so) ==
  StringBody(w, BodyStop(w, "\"", from), enc, [so EXCEPT !.next = from])

Pieces(pieces, enc, so) ==
  LET of[k \in 0 .. Len(pieces)] ==
        IF k = 0 THEN so
        ELSE Piece1(pieces[k], Prefixed(pieces[k], "\"").from, enc, of[k - 1])
  IN  of[Len(pieces)]

StringOf(enc, body) == Evaluated(body.seq, enc, body.reported)

EvalAs(pieces, enc, clashes) == StringOf(enc, Pieces(pieces, enc, Units(<<>>, 0, clashes)))

EvalString(pieces) == EvalAs(pieces, RunEncoding(pieces), Clashes(pieces))
=============================================================================
