------------------------------ MODULE MCTokens ------------------------------
(***************************************************************************)
(* Small instances for Tokens.cfg: families of texts put together from the *)
(* pieces that one part of the lexer or of the converter tells apart.      *)
(***************************************************************************)
EXTENDS Rendering, LiteralValues

(* The texts opening \o pieces \o closing, for every number of pieces from *)
(* least to most.                                                          *)
Family(mode, openings, closings, pieces, least, most) ==
  [k \in 1 .. most - least + 1 |->
     [opening : openings, pieces : [1 .. least + k - 1 -> pieces], closing : closings,
      mode : {mode}, to_file : {FALSE}]]

Words(S) == {Chars(s) : s \in S}
Letters(s) == {<<c>> : c \in Characters(s)}

Lexed(pieces, most)     == Family("lexer", {<<>>}, {<<>>}, pieces, 0, most)
Converted(openings, pieces, most) ==
  Family("converter", openings, {<<>>}, pieces, 0, most)

(* Comments, splices and literals; line ends; punctuators; numbers.        *)
Comments ==
  Lexed(Letters("/*\\\n\"a"), 4)
    \o Family("lexer", Words({"/*", "//"}), Words({"", "a"}), Letters("/*\\\n\"a"), 2, 4)
LineEnds    == Lexed(Letters("\r\n\\ a") \cup {<<Nul>>}, 4)
Punctuated  == Lexed(Letters("%:.<>#-=&|+1"), 3) \o Family("lexer", {<<>>}, {<<>>}, Letters("%:.<"), 4, 5)
Numbered    == Lexed(Letters("1.e+px_"), 4)

(* Identifiers with universal character names, and prefixes of literals.   *)
Named0 ==
  Lexed(Words({"a", "1", ".", "\\u00E9", "\\u00", "\\U0001F600", "\\", "u", "8", "L",
               "'", "\""}), 3)

(* Header names, and where they are not recognised.                        *)
Headers ==
  Family("lexer", Words({"#include", "#include ", "a\n# include", "#include a", "a #include"}),
         {<<>>}, Words({" ", "<", ">", "\"", "a", "\n", "//", "\\"}), 0, 3)

(* Trigraphs in and outside literals.                                      *)
Trigraphed ==
  Family("lexer", Words({"??", "\"", "'\\", "/*"}), {<<>>},
         Words({"??", "=", "'", "\"", "?", "\\", "a", "\n"}), 1, 3)

-----------------------------------------------------------------------------
(* Integer constants around the boundaries of 5 and 8 bits, and their      *)
(* suffixes.                                                               *)
Integers1 ==
  Converted(Words({"0", "1", "3", "6", "9"}), Letters("012589xfulL"), 3)
    \o Family("converter", Words({"1", "077", "0x1f", "127", "0x7F", "255", "256", "0400"}),
              {<<>>}, Words({"u", "U", "l", "L", "ll", "LL", "8"}), 0, 3)

Floatings ==
  Converted(Words({"0x", "1", "."}), Words({"1", "0x", ".", "e", "p", "+", "f", "L"}), 4)

(* Elements of character constants and string literals.                    *)
Plain == Words({"a", "\\n", "\\0", "\\377", "\\400", "\\x", "\\xf", "\\x100", "\\x10000",
                "\\x1000041", "\\u00e9", "\\u0", "\\ud800", "\\u20AC", "\\U0001F600",
                "\\U00110000", "\\q", "\\'", "\\\"", "\\"})

Bytes == {<<b>> : b \in DOMAIN HighBytes}

Multibyte ==
  {<<"xc3", "xa0">>, <<"xe2", "x80", "xbf">>, <<"xed", "x9f", "xbf">>, <<"xed", "xa0", "x80">>,
   <<"xf0", "x9f", "x80", "x80">>, <<"xf0", "x80", "x80", "x80">>, <<"xc1", "xbf">>,
   <<"xe2", "x80">>, <<"xf5">>}

CharConstants ==
  Family("converter", Words({"'", "L'", "u'", "U'"}), Words({"'", ""}),
         Plain \cup Multibyte, 0, 2)

StringLiterals ==
  Family("converter", Words({"\"", "L\"", "u\"", "U\"", "u8\""}), Words({"\"", ""}),
         Plain \cup Multibyte, 0, 2)

Encodings ==
  Family("converter", {<<"u", "\"">>, <<"\"">>}, {<<"\"">>}, Bytes, 3, 3)

Runs ==
  Family("converter", {<<>>}, {<<>>},
         Words({"\"a\" ", "L\"\\xff\" ", "u\"\\u20ac\"\n", "u8\"\" ", "+", "@ "}), 1, 4)

(* Every keyword, and its neighbours in the order of the table.            *)
Keywords ==
  Family("converter", {<<>>}, {<<>>},
         {KeywordTable[i] : i \in DOMAIN KeywordTable}
           \cup {Append(KeywordTable[i], "a") : i \in DOMAIN KeywordTable}
           \cup {SubSeq(KeywordTable[i], 1, Len(KeywordTable[i]) - 1) : i \in DOMAIN KeywordTable},
         1, 1)

Mixed ==
  Family("converter", {<<>>}, {<<>>},
         Words({"\"a\"", "1", "+", "@", "\\", " x", "'a'", "\n", " do ", "\"", "#"}), 1, 3)

MCKeywordTable ==
  [i \in 1 .. 44 |-> Chars(
    <<"_Alignas", "_Alignof", "_Atomic", "_Bool", "_Complex", "_Generic", "_Imaginary",
      "_Noreturn", "_Static_assert", "_Thread_local", "auto", "break", "case", "char",
      "const", "continue", "default", "do", "double", "else", "enum", "extern", "float",
      "for", "goto", "if", "inline", "int", "long", "register", "restrict", "return",
      "short", "signed", "sizeof", "static", "struct", "switch", "typedef", "union",
      "unsigned", "void", "volatile", "while">>[i])]

(* Tokens to be printed, next to each other and on lines of their own:     *)
(* every pair, and triples of those that may join.                         *)
Meeting == Words({"a", "u8", "1", "1.", "1e", ".", "+", "#", "%:", "/", "\"u\"", "'\\''",
                  "\\u00e9", "\n"})

Printed ==
  LET After0(S) == {w \o <<" ">> : w \in S}
  IN  Family("printer", {<<>>}, {<<>>},
             After0(Meeting \cup Words({"e", "L", "1e+", "0x1p-", ".5", "..", "-", ">", "<", "=",
                                       "%", ":", "*", "&", "##", "...", "->", "\"\\\"\"",
                                       "L'a'", "'\"'", "@", "\\", "'", "\"a\\\\", "u00e9"})),
             2, 2)
        \o Family("printer", {<<>>}, {<<>>}, After0(Meeting), 3, 3)

(* The program, in all its modes.                                          *)
Compiled ==
  << [opening : Words({"", "a", "@ a", "'a\n", "\"a\" \"b\"", "0x"}), pieces : {<<>>},
      closing : {<<>>}, mode : Modes, to_file : BOOLEAN] >>

MCScenarios ==
  Comments \o LineEnds \o Punctuated \o Numbered \o Named0 \o Headers \o Trigraphed
    \o Integers1 \o Floatings \o CharConstants \o StringLiterals \o Encodings \o Runs
    \o Keywords \o Mixed \o Printed \o Compiled
=============================================================================
