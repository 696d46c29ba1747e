---------------------------- MODULE ConditionEval ----------------------------
(***************************************************************************)
(* The evaluator of the controlling expressions of #if and #elif           *)
(* (pp/internal/ceval.c): defined is replaced, macros are expanded, the    *)
(* identifiers that are left become 0, and a parser by precedence climbing *)
(* computes the value as it goes, in one word with a flag for its sign.    *)
(*                                                                         *)
(* A token is a name: of a number, of a character constant, of an          *)
(* identifier, or any other, a punctuator.  The parts of a number and the  *)
(* characters of a constant are given; the expansion of macros is the      *)
(* subject of Expansion, and macros are objects without nesting here.      *)
(***************************************************************************)
EXTENDS Integers, Sequences, FiniteSets, Bitwise
LOCAL INSTANCE SequencesExt
LOCAL INSTANCE FiniteSetsExt
LOCAL INSTANCE TLC

CONSTANTS
  MaxWidth,       \* bits of a uintmax_t
  Numbers,        \* of each pp-number: [base, digits, suffix]
  Characters,     \* of each character constant: what is between the quotes
  Code,           \* of each character
  Identifiers,    \* "defined" among them
  Macros          \* of each macro: its replacement list

ASSUME ConditionAssumption ==
  /\ \E k \in 0 .. MaxWidth : MaxWidth = 2 ^ k
  /\ {"0", "1"} \subseteq DOMAIN Numbers
  /\ DOMAIN Macros \subseteq Identifiers \ {"defined"}
  /\ \A n \in DOMAIN Numbers : Numbers[n].base \in {8, 10, 16}

Limit == 2 ^ MaxWidth
Modulo(x) == x % Limit

(* (intmax_t)u                                                             *)
AsSigned(u) == IF u >= Limit \div 2 THEN u - Limit ELSE u

(* A value, the place where parsing goes on, and whether there was an      *)
(* error on the way (cx->error).                                           *)
Parsed(u, is_unsigned, pos, error) ==
  [u |-> u, is_unsigned |-> is_unsigned, pos |-> pos, error |-> error]

Wrong(pos) == Parsed(0, FALSE, pos, TRUE)

(* peek                                                                    *)
Peek(toks, pos) == IF pos <= Len(toks) THEN toks[pos] ELSE "end"

-----------------------------------------------------------------------------
(* Constants                                                               *)

(* The digits of a number, one by one: the value wraps, and a value that   *)
(* falls shows it.                                                         *)
Accumulate(digits, base) ==
  FoldLeft(LAMBDA a, d :
             LET next == Modulo(a.value * base + d)
             IN  [value |-> next, overflow |-> a.overflow \/ next < a.value],
           [value |-> 0, overflow |-> FALSE], digits)

Count(seq, x) == Cardinality({i \in DOMAIN seq : seq[i] = x})

(* parse_int_literal, and the test of parse_primary for the parts of a     *)
(* floating constant, which would be no suffix either.                     *)
ParseNumber(n) ==
  LET a == Accumulate(n.digits, n.base)
      u == Count(n.suffix, "u")
      malformed ==
        \/ n.base # 8 /\ n.digits = <<>>
        \/ n.base = 8 /\ \E i \in DOMAIN n.digits : n.digits[i] >= 8
        \/ \E i \in DOMAIN n.suffix : n.suffix[i] \notin {"u", "l"}
        \/ u > 1 \/ Count(n.suffix, "l") > 2
  IN  IF malformed \/ a.overflow THEN Wrong(0)
      ELSE Parsed(a.value, u = 1 \/ a.value > (Limit \div 2) - 1, 0, FALSE)

(* The escapes of one character each; parse_char_literal has \0 among them. *)
NamedEscapes == "n" :> 10 @@ "t" :> 9 @@ "r" :> 13 @@ "0" :> 0 @@ "a" :> 7
             @@ "b" :> 8 @@ "f" :> 12 @@ "v" :> 11

Digits == "0" :> 0 @@ "1" :> 1 @@ "7" :> 7 @@ "8" :> 8 @@ "a" :> 10 @@ "f" :> 15

(* How many characters of s from i on are digits of the base.              *)
Run(s, i, base) ==
  Max({n \in 0 .. Len(s) - i + 1 :
         \A k \in i .. i + n - 1 : s[k] \in DOMAIN Digits /\ Digits[s[k]] < base})

DigitsValue(s, i, n, base) ==
  FoldLeft(LAMBDA v, c : v * base + Digits[c], 0, SubSeq(s, i, i + n - 1))

(* What the escape with the letter s[i] gives, and where it ends.          *)
Escape(s, i) ==
  LET Is(code, n, error) == [code |-> code, next |-> i + n, error |-> error]
      hex   == Run(s, i + 1, 16)
      octal == Min({3, Run(s, i, 8)})
  IN  CASE s[i] \in DOMAIN NamedEscapes -> Is(NamedEscapes[s[i]], 1, FALSE)
        [] s[i] = "x" -> Is(DigitsValue(s, i + 1, hex, 16) % 256, 1 + hex, hex = 0)
        [] s[i] \notin DOMAIN NamedEscapes /\ octal > 0 ->
             Is(DigitsValue(s, i, octal, 8) % 256, octal, FALSE)
        [] OTHER -> Is(Code[s[i]], 1, FALSE)

(* The loop of parse_char_literal: what is between the quotes is packed    *)
(* into one word, the last character lowest.                               *)
RECURSIVE Pack(_, _, _)
Pack(s, i, v) ==
  IF i > Len(s) THEN v
  ELSE LET e == IF s[i] = "\\" /\ i < Len(s) THEN Escape(s, i + 1)
                ELSE [code |-> Code[s[i]], next |-> i + 1, error |-> FALSE]
       IN  Pack(s, e.next, [v EXCEPT !.u = Modulo(@ * 256 + e.code),
                                     !.error = @ \/ e.error])

ParseCharacter(s) == Pack(s, 1, Parsed(0, FALSE, 0, s = <<>>))

(* What every constant gives, wherever it stands.                          *)
NumberValues    == [t \in DOMAIN Numbers |-> ParseNumber(Numbers[t])]
CharacterValues == [t \in DOMAIN Characters |-> ParseCharacter(Characters[t])]

-----------------------------------------------------------------------------
(* Operators                                                               *)

(* binop_prec                                                              *)
Precedence(op) ==
  CASE op \in {"*", "/", "%"} -> 10
    [] op \in {"+", "-"} -> 9
    [] op \in {"<<", ">>"} -> 8
    [] op \in {"<", ">", "<=", ">="} -> 7
    [] op \in {"==", "!="} -> 6
    [] op = "&" -> 5
    [] op = "^" -> 4
    [] op = "|" -> 3
    [] OTHER -> -1

Abs(x) == IF x < 0 THEN - x ELSE x

(* ia / ib and ia % ib                                                     *)
Truncated(op, x, y) ==
  LET q == IF (x < 0) = (y < 0) THEN Abs(x) \div Abs(y) ELSE - (Abs(x) \div Abs(y))
  IN  IF op = "/" THEN q ELSE x - y * q

ApplyDivision(op, a, b, unsigned, eval) ==
  IF ~eval THEN Parsed(0, unsigned, b.pos, FALSE)
  ELSE IF b.u = 0 THEN Parsed(0, unsigned, b.pos, TRUE)
  ELSE IF unsigned
       THEN Parsed(IF op = "/" THEN a.u \div b.u ELSE a.u % b.u, TRUE, b.pos, FALSE)
  ELSE IF AsSigned(b.u) = -1
       THEN Parsed(IF op = "/" THEN Modulo(- a.u) ELSE 0, FALSE, b.pos, FALSE)
  ELSE Parsed(Modulo(Truncated(op, AsSigned(a.u), AsSigned(b.u))), FALSE, b.pos, FALSE)

(* A shift has the type of its left operand; a count that is negative or   *)
(* too large is an error where it is evaluated, and masked elsewhere.      *)
ApplyShift(op, a, b, eval) ==
  LET sh == b.u % MaxWidth
  IN  IF eval /\ AsSigned(b.u) \notin 0 .. MaxWidth - 1
      THEN Parsed(0, a.is_unsigned, b.pos, TRUE)
      ELSE Parsed(CASE op = "<<" -> Modulo(a.u * 2 ^ sh)
                    [] op = ">>" /\ a.is_unsigned -> a.u \div 2 ^ sh
                    [] op = ">>" /\ ~a.is_unsigned ->
                         Modulo(AsSigned(a.u) \div 2 ^ sh),
                  a.is_unsigned, b.pos, FALSE)

Ordered(op, x, y) ==
  CASE op = "<" -> x < y [] op = ">" -> x > y [] op = "<=" -> x <= y [] op = ">=" -> x >= y

Flagged(holds, pos) == Parsed(IF holds THEN 1 ELSE 0, FALSE, pos, FALSE)

(* apply_binop, but for the errors of its operands.                        *)
Applied(op, a, b, eval) ==
  LET unsigned == a.is_unsigned \/ b.is_unsigned
      Word(u) == Parsed(u, unsigned, b.pos, FALSE)
  IN  CASE op = "*" -> Word(Modulo(a.u * b.u))
        [] op = "+" -> Word(Modulo(a.u + b.u))
        [] op = "-" -> Word(Modulo(a.u - b.u))
        [] op \in {"/", "%"} -> ApplyDivision(op, a, b, unsigned, eval)
        [] op \in {"<<", ">>"} -> ApplyShift(op, a, b, eval)
        [] op \in {"<", ">", "<=", ">="} ->
             IF unsigned THEN Flagged(Ordered(op, a.u, b.u), b.pos)
             ELSE Flagged(Ordered(op, AsSigned(a.u), AsSigned(b.u)), b.pos)
        [] op = "==" -> Flagged(a.u = b.u, b.pos)
        [] op = "!=" -> Flagged(a.u # b.u, b.pos)
        [] op = "&" -> Word(a.u & b.u)
        [] op = "^" -> Word(a.u ^^ b.u)
        [] op = "|" -> Word(a.u | b.u)

(* What v gives, with the error, if any, of what was parsed before it.     *)
After(earlier, v) == [v EXCEPT !.error = @ \/ earlier]

ApplyBinop(op, a, b, eval) == After(a.error \/ b.error, Applied(op, a, b, eval))

IsTrue(v) == v.u # 0

-----------------------------------------------------------------------------
(* The parser.  eval is FALSE in what is parsed and not evaluated.         *)

RECURSIVE ParseConditional(_, _, _), ParseUnary(_, _, _), ParseBinary(_, _, _, _),
          Climb(_, _, _, _), AndChain(_, _, _), OrChain(_, _, _)

Closed(toks, v) ==
  IF Peek(toks, v.pos) = ")" THEN [v EXCEPT !.pos = @ + 1] ELSE After(TRUE, v)

ParsePrimary(toks, pos, eval) ==
  LET t == Peek(toks, pos) IN
  CASE t = "end" -> Wrong(pos)
    [] t = "(" -> Closed(toks, ParseConditional(toks, pos + 1, eval))
    [] t \in DOMAIN Numbers -> [NumberValues[t] EXCEPT !.pos = pos + 1]
    [] t \in DOMAIN Characters -> [CharacterValues[t] EXCEPT !.pos = pos + 1]
    [] OTHER -> Wrong(pos + 1)

ApplyUnary(op, v) ==
  CASE op = "+" -> v
    [] op = "-" -> [v EXCEPT !.u = Modulo(- @)]
    [] op = "~" -> [v EXCEPT !.u = Limit - 1 - @]
    [] op = "!" -> [v EXCEPT !.u = IF @ # 0 THEN 0 ELSE 1, !.is_unsigned = FALSE]

ParseUnary(toks, pos, eval) ==
  LET op == Peek(toks, pos)
  IN  IF op \in {"+", "-", "~", "!"} THEN ApplyUnary(op, ParseUnary(toks, pos + 1, eval))
      ELSE ParsePrimary(toks, pos, eval)

(* Faulty: an operator of the same level is taken into the right operand.  *)
ClimbRight(toks, left, min, eval) ==
  LET op == Peek(toks, left.pos)
      prec == Precedence(op)
  IN  IF prec < 0 \/ prec < min THEN left
      ELSE Climb(toks,
                 ApplyBinop(op, left, ParseBinary(toks, left.pos + 1, prec, eval), eval),
                 min, eval)

(* The loop of parse_binary.                                               *)
Climb(toks, left, min, eval) ==
  LET op == Peek(toks, left.pos)
      prec == Precedence(op)
  IN  IF prec < 0 \/ prec < min THEN left
      ELSE Climb(toks,
                 ApplyBinop(op, left, ParseBinary(toks, left.pos + 1, prec + 1, eval), eval),
                 min, eval)

ParseBinary(toks, pos, min, eval) == Climb(toks, ParseUnary(toks, pos, eval), min, eval)

Joined(holds, left, right) == After(left.error \/ right.error, Flagged(holds, right.pos))
BothTrue(left, right)   == Joined(IsTrue(left) /\ IsTrue(right), left, right)
EitherTrue(left, right) == Joined(IsTrue(left) \/ IsTrue(right), left, right)

(* The loop of parse_logical_and: what follows a 0 is not evaluated.       *)
AndChain(toks, left, eval) ==
  IF Peek(toks, left.pos) # "&&" THEN left
  ELSE AndChain(toks,
                BothTrue(left, ParseBinary(toks, left.pos + 1, 3, eval /\ IsTrue(left))),
                eval)

ParseLogicalAnd(toks, pos, eval) == AndChain(toks, ParseBinary(toks, pos, 3, eval), eval)

(* The loop of parse_logical_or.                                           *)
OrChain(toks, left, eval) ==
  IF Peek(toks, left.pos) # "||" THEN left
  ELSE OrChain(toks,
               EitherTrue(left, ParseLogicalAnd(toks, left.pos + 1, eval /\ ~IsTrue(left))),
               eval)

ParseLogicalOr(toks, pos, eval) == OrChain(toks, ParseLogicalAnd(toks, pos, eval), eval)

(* Both arms are parsed, one is evaluated, and both give it its sign.      *)
Chosen(cond, a, b) ==
  Parsed((IF IsTrue(cond) THEN a ELSE b).u, a.is_unsigned \/ b.is_unsigned,
         b.pos, cond.error \/ a.error \/ b.error)

LastArm(toks, cond, a, eval) ==
  IF Peek(toks, a.pos) # ":" THEN Wrong(a.pos)
  ELSE Chosen(cond, a, ParseConditional(toks, a.pos + 1, eval /\ ~IsTrue(cond)))

FirstArm(toks, cond, eval) ==
  IF Peek(toks, cond.pos) # "?" THEN cond
  ELSE LastArm(toks, cond, ParseConditional(toks, cond.pos + 1, eval /\ IsTrue(cond)), eval)

ParseConditional(toks, pos, eval) == FirstArm(toks, ParseLogicalOr(toks, pos, eval), eval)

-----------------------------------------------------------------------------
(* The pipeline                                                            *)

(* substitute_defined: defined X and defined ( X ) become 1 or 0.  A       *)
(* malformed one is diagnosed and becomes a number all the same.           *)
RECURSIVE SubstituteDefined(_)
SubstituteDefined(toks) ==
  IF toks = <<>> THEN [toks |-> <<>>, malformed |-> FALSE]
  ELSE IF toks[1] # "defined"
  THEN LET rest == SubstituteDefined(Tail(toks))
       IN  [rest EXCEPT !.toks = <<toks[1]>> \o @]
  ELSE LET has_paren == Peek(toks, 2) = "("
           i == IF has_paren THEN 3 ELSE 2
           named == Peek(toks, i) \in Identifiers
           closed == has_paren /\ Peek(toks, i + 1) = ")"
           end == IF ~named THEN i - 1 ELSE IF closed THEN i + 1 ELSE i
           rest == SubstituteDefined(SubSeq(toks, end + 1, Len(toks)))
       IN  [toks |-> <<IF named /\ toks[i] \in DOMAIN Macros THEN "1" ELSE "0">> \o rest.toks,
            malformed |-> rest.malformed \/ ~named \/ (has_paren /\ ~closed)]

(* qcc_pp_expand_all on object-like macros without nesting.                *)
ExpandAll(toks) ==
  FlattenSeq([i \in DOMAIN toks |->
                IF toks[i] \in DOMAIN Macros THEN Macros[toks[i]] ELSE <<toks[i]>>])

IdentifiersToZero(toks) ==
  [i \in DOMAIN toks |-> IF toks[i] \in Identifiers THEN "0" ELSE toks[i]]

(* *out_true, and whether there was a diagnostic.                          *)
Verdict(holds, diagnosed) == [holds |-> holds, diagnosed |-> diagnosed]

(* The whole of what was expanded must be one expression.                  *)
Judged(toks, v, malformed) ==
  LET error == toks = <<>> \/ v.error \/ v.pos # Len(toks) + 1
  IN  Verdict(~error /\ IsTrue(v), error \/ malformed)

Computed(toks, malformed) == Judged(toks, ParseConditional(toks, 1, TRUE), malformed)

(* qcc_pp_eval_condition                                                   *)
EvalCondition(toks) ==
  LET d == SubstituteDefined(toks)
  IN  Computed(IdentifiersToZero(ExpandAll(d.toks)), d.malformed)
=============================================================================
