------------------------- MODULE ConstantExpressions -------------------------
(***************************************************************************)
(* What the evaluator of ConstEval should answer: the value C11 gives an   *)
(* integer constant expression (6.6), with numbers as integers and types   *)
(* computed from the expression alone, not from the values met on the way. *)
(* One step evaluates one of the given expressions.                        *)
(***************************************************************************)
EXTENDS ConstEval

CONSTANT Trees    \* the expressions to evaluate

VARIABLES expr, outcome

vars == <<expr, outcome>>

NotEvaluated == Outcome("none", 0, IntWidth, FALSE)

Init == expr \in Trees /\ outcome = NotEvaluated

Evaluate ==
  /\ outcome = NotEvaluated
  /\ outcome' = EvalConstInt(expr)
  /\ UNCHANGED expr

Next == Evaluate

Spec == Init /\ [][Next]_vars

-----------------------------------------------------------------------------
(* The reference                                                           *)

Type(width, uns) == [width |-> width, uns |-> uns]
PlainInt == Type(IntWidth, FALSE)
SizeT   == Type(LongWidth, TRUE)
Unknown == Type(0, FALSE)

Promoted(t) == IF t.width < IntWidth /\ t # Unknown THEN PlainInt ELSE t

(* 6.3.1.8 for types of two ranks: the wider, unsigned if either operand   *)
(* of that width is.                                                       *)
Common(s, t) ==
  IF Unknown \in {s, t} THEN Unknown
  ELSE LET w == IF s.width > t.width THEN s.width ELSE t.width
       IN  Type(w, \E x \in {s, t} : x.width = w /\ x.uns)

Relational == {"<", ">", "<=", ">=", "==", "!=", "&&", "||"}

RECURSIVE TypeOf(_)
TypeOf(e) ==
  CASE e[1] = "int" -> Type(e[3], e[4])
    [] e[1] = "char16" -> Type(ShortWidth, TRUE)
    [] e[1] = "char32" -> Type(IntWidth, TRUE)
    [] e[1] = "unary" -> IF e[2] = "!" THEN PlainInt ELSE Promoted(TypeOf(e[3]))
    [] e[1] = "binary" ->
         IF e[2] \in Relational THEN PlainInt
         ELSE IF e[2] \in {"<<", ">>"} THEN Promoted(TypeOf(e[3]))
         ELSE Common(Promoted(TypeOf(e[3])), Promoted(TypeOf(e[4])))
    [] e[1] = "conditional" ->
         Common(Promoted(TypeOf(e[3])), Promoted(TypeOf(e[4])))
    [] e[1] = "cast" -> IF IsInteger(e[2])
                        THEN Type(WidthOf(e[2]), IsUnsigned(e[2])) ELSE Unknown
    [] e[1] \in {"sizeof", "alignof"} -> SizeT
    [] OTHER -> Unknown

Least(t) == IF t.uns THEN 0 ELSE - 2 ^ (t.width - 1)

(* The value of type t that is congruent to v.                             *)
Converted(v, t) == ((v - Least(t)) % 2 ^ t.width) + Least(t)

Value(v)   == [kind |-> "value", v |-> v]
None       == [kind |-> "none", v |-> 0]         \* not a constant expression
Undefined  == [kind |-> "undefined", v |-> 0]    \* C gives it no value

On(r, Continue(_)) == IF r.kind = "value" THEN Continue(r.v) ELSE r

Truth(b) == Value(IF b THEN 1 ELSE 0)

(* Bit k of the two's complement form of v.                                *)
Bit(v, k) == (v \div 2 ^ k) % 2

RECURSIVE BitwiseValue(_, _, _, _)
BitwiseValue(op, x, y, k) ==
  IF k < 0 THEN 0
  ELSE LET s == Bit(x, k) + Bit(y, k)
           b == CASE op = "&" -> s \div 2
                  [] op = "|" -> (s + 1) \div 2
                  [] op = "^" -> s % 2
       IN  b * 2 ^ k + BitwiseValue(op, x, y, k - 1)

(* x op y for values of the common type t.                                 *)
Operation(op, x, y, t) ==
  CASE op = "+" -> Value(Converted(x + y, t))
    [] op = "-" -> Value(Converted(x - y, t))
    [] op = "*" -> Value(Converted(x * y, t))
    [] op \in {"&", "|", "^"} ->
         Value(Converted(BitwiseValue(op, x, y, t.width - 1), t))
    [] op \in {"/", "%"} ->
         IF y = 0 THEN None
         ELSE IF y = -1 /\ x = Least(t) /\ ~t.uns THEN Undefined
         ELSE LET q == CHOOSE q \in - Magnitude(x) .. Magnitude(x) :
                         LET r == x - q * y IN
                           /\ Magnitude(r) < Magnitude(y)
                           /\ r # 0 => (r < 0) = (x < 0)
              IN  Value(IF op = "/" THEN q ELSE x - q * y)
    [] op \in Relational -> Truth(Compare(op, x, y))

ShiftValue(op, x, n, t) ==
  IF n \notin 0 .. t.width - 1 THEN Undefined
  ELSE IF op = "<<" THEN Value(Converted(x * 2 ^ n, t))
  ELSE Value(x \div 2 ^ n)

RECURSIVE ValueOf(_)
ValueOf(e) ==
  CASE e[1] \in {"int", "char16", "char32"} -> Value(e[2])
    [] e[1] = "unary" ->
         LET t == TypeOf(e)
         IN  On(ValueOf(e[3]), LAMBDA x :
               CASE e[2] = "+" -> Value(x)
                 [] e[2] = "-" -> Value(Converted(- x, t))
                 [] e[2] = "~" -> Value(Converted(- x - 1, t))
                 [] e[2] = "!" -> Truth(x = 0)
                 [] OTHER -> None)
    [] e[1] = "binary" /\ e[2] = "&&" ->
         On(ValueOf(e[3]), LAMBDA x :
           IF x = 0 THEN Truth(FALSE)
           ELSE On(ValueOf(e[4]), LAMBDA y : Truth(y # 0)))
    [] e[1] = "binary" /\ e[2] = "||" ->
         On(ValueOf(e[3]), LAMBDA x :
           IF x # 0 THEN Truth(TRUE)
           ELSE On(ValueOf(e[4]), LAMBDA y : Truth(y # 0)))
    [] e[1] = "binary" /\ e[2] \notin {"&&", "||"} ->
         On(ValueOf(e[3]), LAMBDA x : On(ValueOf(e[4]), LAMBDA y :
           IF e[2] \in {"<<", ">>"} THEN ShiftValue(e[2], x, y, TypeOf(e))
           ELSE LET t == Common(Promoted(TypeOf(e[3])), Promoted(TypeOf(e[4])))
                IN  Operation(e[2], Converted(x, t), Converted(y, t), t)))
    [] e[1] = "conditional" ->
         On(ValueOf(e[2]), LAMBDA c :
           On(ValueOf(IF c # 0 THEN e[3] ELSE e[4]), LAMBDA x :
             IF TypeOf(e) = Unknown THEN Value(x) ELSE Value(Converted(x, TypeOf(e)))))
    [] e[1] = "cast" ->
         IF TypeOf(e) = Unknown THEN None
         ELSE On(ValueOf(e[3]), LAMBDA x :
                IF e[2] = <<"bool">> THEN Truth(x # 0)
                ELSE Value(Converted(x, TypeOf(e))))
    [] e[1] \in {"sizeof", "alignof"} ->
         LET n == IF e[1] = "sizeof" THEN SizeOf(e[2]) ELSE AlignOf(e[2])
         IN  IF n = 0 THEN None ELSE Value(n)
    [] OTHER -> None

-----------------------------------------------------------------------------
(* Properties                                                              *)

(* The bits of the result as a value of its type.                          *)
Meaning(o) == IF o.uns THEN o.bits ELSE Signed(o.bits)

(* The evaluator agrees with C on this expression: the value, the type it  *)
(* is reported in, and whether there is a value at all.                    *)
Agrees ==
  LET r == ValueOf(expr)
  IN  /\ r.kind = "value" =>
           /\ outcome.st = "ok"
           /\ Meaning(outcome) = r.v
           /\ TypeOf(expr) # Unknown =>
                Type(outcome.width, outcome.uns) = Promoted(TypeOf(expr))
      /\ r.kind = "none" => outcome.st = "type"

(* Do the arms of every conditional have one type, after promotion?        *)
RECURSIVE ArmsAgree(_)
ArmsAgree(e) ==
  CASE e[1] = "unary" -> ArmsAgree(e[3])
    [] e[1] = "cast" -> ArmsAgree(e[3])
    [] e[1] = "binary" -> ArmsAgree(e[3]) /\ ArmsAgree(e[4])
    [] e[1] = "conditional" ->
         /\ ArmsAgree(e[2]) /\ ArmsAgree(e[3]) /\ ArmsAgree(e[4])
         /\ \/ Promoted(TypeOf(e[3])) = Promoted(TypeOf(e[4]))
            \/ Unknown \in {TypeOf(e[3]), TypeOf(e[4])}
    [] OTHER -> TRUE

(* For every expression whose conditionals need no conversion of the arms, *)
(* promotions, common types, wrap-around at the result's width, truncating *)
(* division and short circuits come out as in C, although every operator   *)
(* computes in one 64-bit word (consteval.c:6-13).                         *)
Conforms == outcome # NotEvaluated /\ ArmsAgree(expr) => Agrees

(* The same of every expression.  The code evaluates the selected arm of a *)
(* conditional and never asks for the type of the other (6.5.15).          *)
ConformsAlways == outcome # NotEvaluated => Agrees
==============================================================================
