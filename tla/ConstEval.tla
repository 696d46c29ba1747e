------------------------------ MODULE ConstEval ------------------------------
(***************************************************************************)
(* The evaluator of integer constant expressions (consteval/consteval.c):  *)
(* a value is kept in one long word, reduced to the width and signedness   *)
(* of its type.  The widths are parameters; the code has 8, 16, 32 and 64. *)
(*                                                                         *)
(* An expression is a tuple that begins with the kind of its node:         *)
(*   <<"int", v, width, uns>>   <<"char16", v>>   <<"char32", v>>          *)
(*   <<"unary", op, e>>         <<"binary", op, e, e>>                     *)
(*   <<"conditional", c, e, e>> <<"cast", type, e>>                        *)
(*   <<"sizeof", type>>         <<"alignof", type>>                        *)
(* and any other kind is not an integer constant expression.  A type is a  *)
(* tuple, too: <<kind>>, <<"pointer", type>>, <<"array", type, len,        *)
(* complete>>, <<"function", type, params>>.                               *)
(***************************************************************************)
EXTENDS Integers, Sequences, Bitwise

CONSTANTS CharWidth, ShortWidth, IntWidth, LongWidth

ASSUME WidthAssumption ==
  /\ CharWidth \in Nat \ {0}
  /\ ShortWidth \in Nat /\ CharWidth <= ShortWidth
  /\ IntWidth \in Nat /\ ShortWidth < IntWidth
  /\ LongWidth \in Nat /\ IntWidth < LongWidth
  /\ \E k \in 0 .. LongWidth : LongWidth = 2 ^ k

Word == 0 .. 2 ^ LongWidth - 1

Outcome(st, bits, width, uns) ==
  [st |-> st, bits |-> bits, width |-> width, uns |-> uns]

NotConstant == Outcome("type", 0, IntWidth, FALSE)

(* INT64_MIN / -1: undefined in C, and a trap on the machine.              *)
Trap == Outcome("trap", 0, IntWidth, FALSE)

(* Keep the low bits and extend the sign.                                  *)
Reduce(raw, width, uns) ==
  LET low == raw % 2 ^ width
  IN  IF ~uns /\ low >= 2 ^ (width - 1)
      THEN low + 2 ^ LongWidth - 2 ^ width
      ELSE low

Make(raw, width, uns) == Outcome("ok", Reduce(raw, width, uns), width, uns)

Flag(b) == Make(IF b THEN 1 ELSE 0, IntWidth, FALSE)

(* Integer promotion.                                                      *)
Promote(v) == IF v.width < IntWidth THEN Make(v.bits, IntWidth, FALSE) ELSE v

(* (int64_t)bits                                                           *)
Signed(bits) == IF bits >= 2 ^ (LongWidth - 1) THEN bits - 2 ^ LongWidth ELSE bits

(* A negative number as a word.                                            *)
AsWord(x) == x % 2 ^ LongWidth

(* Faulty: the greater width wins and takes its signedness with it, so a   *)
(* signed and an unsigned operand of one width stay signed.                *)
UsualArithSigned(a, b) ==
  IF a.width > b.width THEN [width |-> a.width, uns |-> a.uns]
  ELSE IF b.width > a.width THEN [width |-> b.width, uns |-> b.uns]
  ELSE [width |-> a.width, uns |-> a.uns /\ b.uns]

UsualArith(a, b) ==
  LET u == IF a.uns THEN a ELSE b
      s == IF a.uns THEN b ELSE a
  IN  IF a.uns = b.uns
      THEN [width |-> IF a.width > b.width THEN a.width ELSE b.width, uns |-> a.uns]
      ELSE IF u.width >= s.width THEN [width |-> u.width, uns |-> TRUE]
      ELSE [width |-> s.width, uns |-> FALSE]

-----------------------------------------------------------------------------
Magnitude(x) == IF x < 0 THEN - x ELSE x

(* Division of C: towards zero, the remainder with the sign of x.          *)
Quotient(x, y) ==
  LET q == Magnitude(x) \div Magnitude(y)
  IN  IF (x < 0) = (y < 0) THEN q ELSE - q

Remainder(x, y) == x - y * Quotient(x, y)

Divide(op, x, y) == IF op = "/" THEN Quotient(x, y) ELSE Remainder(x, y)

Compare(op, x, y) ==
  CASE op = "<"  -> x < y
    [] op = ">"  -> x > y
    [] op = "<=" -> x <= y
    [] op = ">=" -> x >= y
    [] op = "==" -> x = y
    [] op = "!=" -> x # y

(* The operators that compute in the common type t of their operands.      *)
ArithIn(t, op, a, b) ==
  LET Operand(v) == IF t.uns THEN v.bits % 2 ^ t.width ELSE Signed(v.bits)
      x == Operand(a)
      y == Operand(b)
      Result(raw) == Make(AsWord(raw), t.width, t.uns)
  IN  CASE op = "+" -> Result(a.bits + b.bits)
        [] op = "-" -> Result(a.bits - b.bits)
        [] op = "*" -> Result(a.bits * b.bits)
        [] op = "&" -> Result(a.bits & b.bits)
        [] op = "|" -> Result(a.bits | b.bits)
        [] op = "^" -> Result(a.bits ^^ b.bits)
        [] op \in {"/", "%"} ->
             IF b.bits = 0 THEN NotConstant
             ELSE IF ~t.uns /\ x = - 2 ^ (LongWidth - 1) /\ y = -1 THEN Trap
             ELSE Result(Divide(op, x, y))
        [] op \in {"<", ">", "<=", ">=", "==", "!="} -> Flag(Compare(op, x, y))
        [] OTHER -> NotConstant

ArithBinary(op, a, b) == ArithIn(UsualArith(a, b), op, a, b)

(* A shift has the type of its promoted left operand.                      *)
Shift(op, a, b) ==
  LET sh == b.bits % LongWidth
  IN  Make(CASE op = "<<" -> AsWord(a.bits * 2 ^ sh)
             [] op = ">>" /\ a.uns -> a.bits \div 2 ^ sh
             [] op = ">>" /\ ~a.uns -> AsWord(Signed(a.bits) \div 2 ^ sh),
           a.width, a.uns)

Unary(op, a) ==
  CASE op = "+" -> a
    [] op = "-" -> Make(AsWord(- a.bits), a.width, a.uns)
    [] op = "~" -> Make(AsWord(- a.bits - 1), a.width, a.uns)
    [] op = "!" -> Flag(a.bits = 0)
    [] OTHER -> NotConstant

-----------------------------------------------------------------------------
(* qcc_type_size and qcc_type_align, in characters; long stands   *)
(* for long long, too.                                                     *)

WidthOf(type) ==
  CASE type[1] \in {"bool", "char", "schar", "uchar"} -> CharWidth
    [] type[1] \in {"short", "ushort"} -> ShortWidth
    [] type[1] \in {"int", "uint", "enum", "float"} -> IntWidth
    [] type[1] \in {"long", "ulong", "double", "pointer"} -> LongWidth
    [] type[1] = "ldouble" -> 2 * LongWidth
    [] OTHER -> 0

IsInteger(type) ==
  type[1] \in {"bool", "char", "schar", "uchar", "short", "ushort", "int", "uint",
               "long", "ulong", "enum"}

IsUnsigned(type) == type[1] \in {"bool", "uchar", "ushort", "uint", "ulong"}

RECURSIVE SizeOf(_)
SizeOf(type) ==
  IF type[1] = "array"
  THEN IF type[4] THEN AsWord(type[3] * SizeOf(type[2])) ELSE 0
  ELSE WidthOf(type) \div CharWidth

RECURSIVE AlignOf(_)
AlignOf(type) == IF type[1] = "array" THEN AlignOf(type[2]) ELSE SizeOf(type)

Cast(type, a) ==
  IF type[1] = "bool"
  THEN Make(IF a.bits # 0 THEN 1 ELSE 0, CharWidth, TRUE)
  ELSE Make(a.bits, WidthOf(type), IsUnsigned(type))

SizeConstant(n) == IF n = 0 THEN NotConstant ELSE Make(n, LongWidth, TRUE)

-----------------------------------------------------------------------------
(* What follows a successful evaluation; a failure is passed on.           *)
Then(v, Continue(_)) == IF v.st = "ok" THEN Continue(v) ELSE v

(* Is the result of && or || decided by its left operand?                  *)
Decides(op, a) == (op = "&&" /\ a.bits = 0) \/ (op = "||" /\ a.bits # 0)

RECURSIVE Eval(_)

(* Faulty: both operands are evaluated before either is looked at.         *)
EvalLogicalEager(op, left, right) ==
  Then(Eval(left), LAMBDA a : Then(Eval(right), LAMBDA b :
    Flag(IF Decides(op, a) THEN a.bits # 0 ELSE b.bits # 0)))

EvalLogical(op, left, right) ==
  Then(Eval(left), LAMBDA a :
    IF Decides(op, a) THEN Flag(a.bits # 0)
    ELSE Then(Eval(right), LAMBDA b : Flag(b.bits # 0)))

EvalBinary(op, left, right) ==
  Then(Eval(left), LAMBDA a : Then(Eval(right), LAMBDA b :
    IF op \in {"<<", ">>"}
    THEN Shift(op, Promote(a), Promote(b))
    ELSE ArithBinary(op, Promote(a), Promote(b))))

Eval(e) ==
  CASE e[1] = "int" -> Make(AsWord(e[2]), e[3], e[4])
    [] e[1] = "char16" -> Make(e[2], ShortWidth, TRUE)
    [] e[1] = "char32" -> Make(e[2], IntWidth, TRUE)
    [] e[1] = "unary" -> Then(Eval(e[3]), LAMBDA a : Unary(e[2], Promote(a)))
    [] e[1] = "binary" ->
         IF e[2] \in {"&&", "||"} THEN EvalLogical(e[2], e[3], e[4])
         ELSE EvalBinary(e[2], e[3], e[4])
    [] e[1] = "conditional" ->
         Then(Eval(e[2]), LAMBDA c : Eval(IF c.bits # 0 THEN e[3] ELSE e[4]))
    [] e[1] = "cast" ->
         IF ~IsInteger(e[2]) THEN NotConstant
         ELSE Then(Eval(e[3]), LAMBDA a : Cast(e[2], a))
    [] e[1] = "sizeof" -> SizeConstant(SizeOf(e[2]))
    [] e[1] = "alignof" -> SizeConstant(AlignOf(e[2]))
    [] OTHER -> NotConstant

(* Faulty: a result narrower than int is reported in its own type.         *)
EvalConstIntNarrow(e) == Eval(e)

(* qcc_eval_const_int: a result narrower than int is reported as an int.   *)
EvalConstInt(e) == Then(Eval(e), Promote)
=============================================================================
