--------------------------- MODULE LiteralValues ----------------------------
(***************************************************************************)
(* What constants and string literals mean (C11 6.4.4, 6.4.5 and, for the  *)
(* choices it leaves open, docs/adr/0018): grammars as predicates on whole *)
(* spellings, tables of types, and values without a width.  The converter  *)
(* is compared with it token by token.                                     *)
(***************************************************************************)
EXTENDS Conversion, FiniteSetsExt

Chars(s) == [i \in 1 .. Len(s) |-> SubSeq(s, i, i)]

Mid(w, i, j) == SubSeq(w, i, j)

AllIn(w, S) == \A i \in DOMAIN w : w[i] \in S

-----------------------------------------------------------------------------
(* 6.4.4.1: the suffixes and the type lists of paragraph 5.                *)
U  == {"u", "U"}
L1 == {"l", "L"}
L2 == {"ll", "LL"}

SuffixClass(s) ==
  CASE s = "" -> "none" [] s \in U -> "u" [] s \in L1 -> "l" [] s \in L2 -> "ll"
    [] s \in {a \o b : a \in U, b \in L1} \cup {b \o a : a \in U, b \in L1} -> "ul"
    [] s \in {a \o b : a \in U, b \in L2} \cup {b \o a : a \in U, b \in L2} -> "ull"
    [] OTHER -> "bad"

TypeList(class, decimal) ==
  CASE class = "none" /\ decimal -> <<"int", "long", "llong">>
    [] class = "none" /\ ~decimal ->
         <<"int", "uint", "long", "ulong", "llong", "ullong">>
    [] class = "u" -> <<"uint", "ulong", "ullong">>
    [] class = "l" /\ decimal -> <<"long", "llong">>
    [] class = "l" /\ ~decimal -> <<"long", "ulong", "llong", "ullong">>
    [] class = "ul" -> <<"ulong", "ullong">>
    [] class = "ll" /\ decimal -> <<"llong">>
    [] class = "ll" /\ ~decimal -> <<"llong", "ullong">>
    [] class = "ull" -> <<"ullong">>

RECURSIVE Joined(_)
Joined(w) == IF w = <<>> THEN "" ELSE w[1] \o Joined(Tail(w))

(* The value of digits in a base, as a mathematical integer.               *)
RECURSIVE Value(_, _)
Value(digits, base) ==
  IF digits = <<>> THEN 0
  ELSE Value(Mid(digits, 1, Len(digits) - 1), base) * base
         + DigitValue(digits[Len(digits)])

(* The ways to read w as an integer constant: one or none.                 *)
Integers0(w) ==
  {r \in {[base |-> base, digits |-> Mid(w, IF base = 16 THEN 3 ELSE 1, k),
           class |-> SuffixClass(Joined(Mid(w, k + 1, Len(w))))] :
             base \in {8, 10, 16}, k \in 1 .. Len(w)} :
     /\ r.class # "bad" /\ r.digits # <<>>
     /\ CASE r.base = 10 -> AllIn(r.digits, Digit) /\ w[1] # "0"
          [] r.base = 8 -> AllIn(r.digits, Octal) /\ w[1] = "0"
          [] r.base = 16 -> AllIn(r.digits, HexDigit) /\ IsHex(w)}

Representing(value, types) ==
  {i \in DOMAIN types : value <= Largest(types[i])}

IntegerMeant(w, token, reported) ==
  IF Integers0(w) = {} THEN reported # {}
  ELSE LET r     == The(Integers0(w))
           value == Value(r.digits, r.base)
           types == TypeList(r.class, r.base = 10)
           fit   == Representing(value, types)
       IN  IF value >= 2 ^ LongWidth THEN "too large" \in reported
           ELSE /\ token.value = value
                /\ IF fit = {}
                   THEN token.type = "ullong" /\ reported = {"so large it is unsigned"}
                   ELSE token.type = types[Min(fit)] /\ reported = {}

-----------------------------------------------------------------------------
(* 6.4.4.2.                                                                *)
IsMantissa(w, S) ==
  \/ w # <<>> /\ AllIn(w, S)
  \/ Len(w) > 1 /\ \E d \in DOMAIN w :
       w[d] = "." /\ \A i \in DOMAIN w \ {d} : w[i] \in S

IsExponent(w, letters) ==
  /\ Len(w) > 1 /\ w[1] \in letters
  /\ LET digits == Mid(w, IF w[2] \in {"+", "-"} THEN 3 ELSE 2, Len(w))
     IN  digits # <<>> /\ AllIn(digits, Digit)

HasPoint(w) == \E i \in DOMAIN w : w[i] = "."

IsFloating(w) ==
  \E k \in 1 .. Len(w), n \in {0, 1} :
    LET first    == IF IsHex(w) THEN 3 ELSE 1
        mantissa == Mid(w, first, k)
        exponent == Mid(w, k + 1, Len(w) - n)
    IN  /\ n = 1 => w[Len(w)] \in {"f", "F", "l", "L"}
        /\ k <= Len(w) - n
        /\ IsMantissa(mantissa, IF IsHex(w) THEN HexDigit ELSE Digit)
        /\ IF exponent = <<>> THEN ~IsHex(w) /\ HasPoint(mantissa)
           ELSE IsExponent(exponent, IF IsHex(w) THEN {"p", "P"} ELSE {"e", "E"})

(* A hexadecimal floating constant needs its exponent; strtod, and so the  *)
(* converter, does without.                                                *)
ExponentMissing(w) ==
  \E n \in {0, 1} :
    /\ IsHex(w)
    /\ n = 1 => w[Len(w)] \in {"l", "L"}
    /\ IsMantissa(Mid(w, 3, Len(w) - n), HexDigit)

FloatingType(c) ==
  CASE c \in {"f", "F"} -> "float" [] c \in {"l", "L"} -> "ldouble" [] OTHER -> "double"

FloatingMeant(w, token, reported) ==
  IF IsFloating(w) THEN token.type = FloatingType(w[Len(w)]) /\ reported = {}
  ELSE reported # {} \/ ExponentMissing(w)

-----------------------------------------------------------------------------
(* 6.4.4.4: the elements of a body, each of them a span i .. j of w.       *)
IsEscape(w, i, j) ==
  /\ w[i] = "\\" /\ j > i
  /\ \/ j = i + 1 /\ w[j] \in DOMAIN Simple
     \/ j <= i + 3 /\ AllIn(Mid(w, i + 1, j), Octal)
     \/ j > i + 1 /\ w[i + 1] = "x" /\ AllIn(Mid(w, i + 2, j), HexDigit)
     \/ j = i + 5 /\ w[i + 1] = "u" /\ AllIn(Mid(w, i + 2, j), HexDigit)
     \/ j = i + 9 /\ w[i + 1] = "U" /\ AllIn(Mid(w, i + 2, j), HexDigit)

(* RFC 3629: the well-formed sequences of more than one byte.              *)
IsUtf8(w, i, j) ==
  LET b(k) == Code[w[i + k]]
      Tail80(from) == \A k \in from .. j - i : b(k) \in 128 .. 191
  IN  CASE j = i + 1 -> b(0) \in 194 .. 223 /\ Tail80(1)
        [] j = i + 2 ->
             /\ b(0) \in 224 .. 239 /\ Tail80(2)
             /\ b(1) \in CASE b(0) = 224 -> 160 .. 191
                           [] b(0) = 237 -> 128 .. 159
                           [] OTHER -> 128 .. 191
        [] j = i + 3 ->
             /\ b(0) \in 240 .. 244 /\ Tail80(2)
             /\ b(1) \in CASE b(0) = 240 -> 144 .. 191
                           [] b(0) = 244 -> 128 .. 143
                           [] OTHER -> 128 .. 191
        [] OTHER -> FALSE

(* What starts at i: the end of the longest escape or character; none if a *)
(* backslash begins no escape.                                             *)
ElementEnds(w, i, stop) ==
  {j \in i .. Min({stop, i + 9}) :
     IF w[i] = "\\" THEN IsEscape(w, i, j) ELSE j = i \/ IsUtf8(w, i, j)}

Element(w, i, j) == [from |-> i, to |-> j]

RECURSIVE Elements(_, _, _)
Elements(w, i, stop) ==
  LET ends == ElementEnds(w, i, stop)
      j    == IF ends = {} THEN i ELSE Max(ends)
  IN  IF i > stop THEN <<>> ELSE <<Element(w, i, j)>> \o Elements(w, j + 1, stop)

(* The number an element names, and whether it names a character or a unit.*)
Utf8Value(w, i, j) ==
  LET n == j - i
      lead == Code[w[i]] % 2 ^ (6 - n)
      RECURSIVE From(_)
      From(k) == IF k = 0 THEN lead ELSE From(k - 1) * 64 + (Code[w[i + k]] % 64)
  IN  From(n)

Named(w, e) ==
  LET c == w[e.from + 1]
  IN  CASE w[e.from] # "\\" /\ e.from = e.to -> Code[w[e.from]]
        [] w[e.from] # "\\" /\ e.from < e.to -> Utf8Value(w, e.from, e.to)
        [] w[e.from] = "\\" /\ c \in DOMAIN Simple /\ e.to = e.from + 1 -> Simple[c]
        [] w[e.from] = "\\" /\ c \in Octal -> Value(Mid(w, e.from + 1, e.to), 8)
        [] w[e.from] = "\\" /\ c \in {"x", "u", "U"} ->
             Value(Mid(w, e.from + 2, e.to), 16)

IsUcnElement(w, e) == w[e.from] = "\\" /\ w[e.from + 1] \in {"u", "U"}

IsUnit(w, e) == w[e.from] = "\\" /\ ~IsUcnElement(w, e)

NoCodePoint(v) == v > 1114111 \/ (v >= 55296 /\ v < 57344)

(* The units of a code point: base 64 digits under a lead, or a pair that  *)
(* stands for what exceeds 16 bits.                                        *)
Utf8Units(cp) ==
  LET n == Min({k \in 1 .. 4 : cp < 2 ^ <<7, 11, 16, 21>>[k]})
  IN  IF n = 1 THEN <<cp>>
      ELSE [k \in 1 .. n |-> IF k = 1 THEN 256 - 2 ^ (8 - n) + (cp \div 64 ^ (n - 1))
                             ELSE 128 + ((cp \div 64 ^ (n - k)) % 64)]

Utf16Units(cp) ==
  LET high == CHOOSE h \in 0 .. 1023 : cp - 65536 - h * 1024 \in 0 .. 1023
  IN  IF cp < 65536 THEN <<cp>>
      ELSE <<55296 + high, 56320 + cp - 65536 - high * 1024>>

Fits(v, enc) ==
  CASE enc \in {"plain", "utf8"} -> v < 256
    [] enc = "char16" -> v < 65536
    [] OTHER -> v < 2 ^ WordWidth

UnitsMeant(w, e, enc) ==
  LET v == Named(w, e)
  IN  CASE IsUnit(w, e) -> <<v>>
        [] ~IsUnit(w, e) /\ enc \in {"plain", "utf8"} /\ ~IsUcnElement(w, e) ->
             [k \in 1 .. e.to - e.from + 1 |-> Code[w[e.from + k - 1]]]
        [] enc \in {"plain", "utf8"} /\ IsUcnElement(w, e) -> Utf8Units(v)
        [] ~IsUnit(w, e) /\ enc = "char16" -> Utf16Units(v)
        [] OTHER -> <<v>>

(* A backslash that begins no escape sequence, a universal character name  *)
(* of no character, a unit that is too large.                              *)
IllFormed(w, e, enc) ==
  \/ w[e.from] = "\\" /\ e.from = e.to
  \/ /\ e.from < e.to
     /\ \/ IsUcnElement(w, e) /\ NoCodePoint(Named(w, e))
        \/ IsUnit(w, e) /\ ~Fits(Named(w, e), enc)

(* A hexadecimal escape of more digits than a word holds wraps in          *)
(* escape.c:71-79 before its range is looked at: it may go unreported.     *)
Wraps(w, e) ==
  e.from < e.to /\ IsUnit(w, e) /\ w[e.from + 1] = "x" /\ Named(w, e) >= 2 ^ WordWidth

-----------------------------------------------------------------------------
(* A literal: its encoding, and the elements between its quotes.           *)
QuoteAt(w, quote) == Min({i \in DOMAIN w : w[i] = quote})

EncodingOf(w, quote) ==
  LET prefix == Joined(Mid(w, 1, QuoteAt(w, quote) - 1))
  IN  CASE prefix = "L" -> "wide" [] prefix = "u" -> "char16" [] prefix = "U" -> "char32"
        [] prefix = "u8" -> "utf8" [] OTHER -> "plain"

Closed(w, quote) == Len(w) > QuoteAt(w, quote) /\ w[Len(w)] = quote

BodyElements(w, quote) == Elements(w, QuoteAt(w, quote) + 1, Len(w) - 1)

RECURSIVE Flat(_)
Flat(s) == IF s = <<>> THEN <<>> ELSE s[1] \o Flat(Tail(s))

UnitsOf(w, es, enc) == Flat([i \in DOMAIN es |-> UnitsMeant(w, es[i], enc)])

Any(w, es, Bad(_, _)) == \E i \in DOMAIN es : Bad(w, es[i])

StringMeant(pieces, token, reported) ==
  LET encs == {EncodingOf(pieces[i], "\"") : i \in DOMAIN pieces} \ {"plain"}
      enc  == IF encs = {} THEN "plain" ELSE The(encs)
      es   == [i \in DOMAIN pieces |-> BodyElements(pieces[i], "\"")]
      Bad(w, e) == IllFormed(w, e, enc)
  IN  IF \E i \in DOMAIN pieces : ~Closed(pieces[i], "\"") \/ Any(pieces[i], es[i], Wraps)
      THEN TRUE
      ELSE IF Cardinality(encs) > 1 \/ \E i \in DOMAIN pieces : Any(pieces[i], es[i], Bad)
      THEN reported # {}
      ELSE /\ reported = {}
           /\ token.type = enc
           /\ token.value = Flat([i \in DOMAIN pieces |-> UnitsOf(pieces[i], es[i], enc)])

(* char and wchar_t are signed; what several characters in one constant    *)
(* are worth is docs/adr/0018's: an int of bytes, or the last unit.        *)
CharValue(units, enc) ==
  LET n     == Len(units)
      kept  == Mid(units, IF n > IntBytes THEN n - IntBytes + 1 ELSE 1, n)
      As(v, width) == IF v < 2 ^ (width - 1) THEN v ELSE v - 2 ^ width
      RECURSIVE Big(_)
      Big(k) == IF k = 0 THEN 0 ELSE Big(k - 1) * 256 + kept[k]
  IN  CASE enc = "plain" /\ n = 1 -> As(units[1], 8)
        [] enc = "plain" /\ n > 1 -> As(Big(Len(kept)), 8 * IntBytes)
        [] enc = "wide" -> As(units[n], WordWidth)
        [] OTHER -> units[n]

CharMeant(w, token, reported) ==
  LET enc   == EncodingOf(w, "'")
      es    == BodyElements(w, "'")
      single == enc # "plain"
      units == IF single THEN [i \in DOMAIN es |-> Named(w, es[i])]
               ELSE UnitsOf(w, es, enc)
      Bad(v, e) == IllFormed(v, e, enc) \/ (single /\ ~Fits(Named(v, e), enc))
  IN  IF ~Closed(w, "'") \/ Any(w, es, Wraps) THEN TRUE
      ELSE IF es = <<>> \/ Any(w, es, Bad) THEN reported # {}
      ELSE /\ token.type = enc /\ token.value = CharValue(units, enc)
           /\ reported = {x \in {"multi-character"} : Len(units) > 1}
                \cup {x \in {"too long"} : ~single /\ Len(units) > IntBytes}

-----------------------------------------------------------------------------
(* The tokens that the input stands for, by the index each begins at.      *)
Begins ==
  {i \in DOMAIN input :
     /\ ~Stray(input[i])
     /\ ~(i > 1 /\ input[i].kind = "string" /\ input[i - 1].kind = "string")}

RunAt(i) ==
  LET last == Max({j \in i .. Len(input) : \A k \in i .. j : input[k].kind = "string"})
  IN  [k \in 1 .. last - i + 1 |-> input[i + k - 1].word]

ReportedAt(i) ==
  {conversion.reported[k].what : k \in {k \in DOMAIN conversion.reported :
                                          conversion.reported[k].at = i}}

Meant(token, t, reported) ==
  CASE t.kind = "string" -> token.kind = "string" /\ StringMeant(RunAt(token.at), token, reported)
    [] t.kind = "char" -> token.kind = "char" /\ CharMeant(t.word, token, reported)
    [] t.kind = "number" ->
         IF token.kind = "floating"
         THEN Integers0(t.word) = {} /\ FloatingMeant(t.word, token, reported)
         ELSE /\ token.kind = "integer" /\ ~IsFloating(t.word)
              /\ IntegerMeant(t.word, token, reported)
    [] t.kind = "identifier" ->
         /\ token.value = t.word
         /\ token.kind = IF t.word \in {KeywordTable[i] : i \in DOMAIN KeywordTable}
                         THEN "keyword" ELSE "identifier"
    [] t.kind = "punct" -> token.kind = "punct" /\ token.value = t.punct
    [] t.kind = "eof" -> token.kind = "eof"

(* Wherever the conversion stands or ends, what it has put out are the     *)
(* first tokens that the input stands for, string runs joined, each with   *)
(* the value and the type of C11 6.4.4 and 6.4.5 and without a report, or  *)
(* with one if its spelling is none of the grammar's; a number that is an  *)
(* integer and a floating constant by neither grammar is reported; every   *)
(* stray token passed was reported, or its report refused; and only the    *)
(* whole input is a success (convert.c, intconst.c, floatconst.c, escape.c,*)
(* encoding.c, charconst.c, strlit.c).                                     *)
Converts ==
  LET out == conversion.out
  IN  /\ {out[k].at : k \in DOMAIN out} =
            {i \in Begins : i < conversion.at \/ conversion.status = "ok"}
      /\ \A k \in DOMAIN out :
           /\ k > 1 => out[k - 1].at < out[k].at
           /\ Meant(out[k], input[out[k].at], ReportedAt(out[k].at))
      /\ \A i \in DOMAIN input : Stray(input[i]) /\ i < conversion.at =>
           ("stray" \in ReportedAt(i)) = (i \notin conversion.unreported)
=============================================================================
