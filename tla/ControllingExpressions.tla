----------------------- MODULE ControllingExpressions -----------------------
(***************************************************************************)
(* The two evaluators of integer constant expressions, that of the         *)
(* declarations (ConstEval) and that of #if and #elif (ConditionEval),     *)
(* each on inputs of its own, against one reference.  C has one language   *)
(* of constant expressions for both; in a controlling expression int and   *)
(* long are as wide as intmax_t (6.10.1).  The trees of a line are those   *)
(* of ExpressionGrammar, their values those of ConstantExpressions.        *)
(***************************************************************************)
EXTENDS ConstantExpressions, ConditionEval
LOCAL INSTANCE FiniteSetsExt
LOCAL INSTANCE TLC

CONSTANT Lines         \* what follows #if or #elif

VARIABLES
  line,
  verdict              \* of the line, once there is one

allVars == <<vars, line, verdict>>

NoExpression == <<"none">>
NoLine       == <<"none">>

(* A run evaluates one expression or one line.                             *)
GivenExpression == Init /\ line = NoLine /\ verdict = {}

GivenLine ==
  /\ expr = NoExpression
  /\ outcome = NotEvaluated
  /\ line \in Lines
  /\ verdict = {}

EvaluateExpression ==
  /\ expr # NoExpression
  /\ Evaluate
  /\ UNCHANGED <<line, verdict>>

EvaluateLine ==
  /\ line # NoLine
  /\ verdict = {}
  /\ verdict' = {EvalCondition(line)}
  /\ UNCHANGED <<vars, line>>

EitherNext == EvaluateExpression \/ EvaluateLine

EitherSpec == (GivenExpression \/ GivenLine) /\ [][EitherNext]_allVars

-----------------------------------------------------------------------------
(* The reference                                                           *)

Intmax == INSTANCE ConstantExpressions WITH IntWidth <- MaxWidth, LongWidth <- MaxWidth

(* 6.4.4.1, one length of long standing for both.                          *)
Suffixes == {<<>>, <<"u">>, <<"l">>, <<"l", "l">>, <<"u", "l">>, <<"l", "u">>,
             <<"u", "l", "l">>, <<"l", "l", "u">>}

Sum(n) ==
  MapThenSumSet(LAMBDA i : n.digits[i] * n.base ^ (Len(n.digits) - i), DOMAIN n.digits)

WellFormed(n) ==
  /\ n.suffix \in Suffixes
  /\ \A i \in DOMAIN n.digits : n.digits[i] < n.base
  /\ n.base # 8 => n.digits # <<>>
  /\ Sum(n) < Limit

NumberLeaf(n) ==
  <<"int", Sum(n), MaxWidth, "u" \in {n.suffix[i] : i \in DOMAIN n.suffix}
                             \/ Sum(n) >= Limit \div 2>>

WellFormedNumbers == {t \in DOMAIN Numbers : WellFormed(Numbers[t])}

(* 6.4.4.4, the codes that a character constant of one character may have. *)
Simple == "n" :> 10 @@ "t" :> 9 @@ "r" :> 13 @@ "a" :> 7 @@ "b" :> 8 @@ "f" :> 12
       @@ "v" :> 11 @@ "\\" :> 92 @@ "'" :> 39

NumericCode(s, base) == Sum([base |-> base, digits |-> [i \in DOMAIN s |-> Digits[s[i]]]])

Codes(s) ==
  LET Spells(from, base, least, most) ==
        /\ Len(s) - from + 1 \in least .. most
        /\ \A i \in from .. Len(s) : s[i] \in DOMAIN Digits /\ Digits[s[i]] < base
      Numeric(from, base) == {NumericCode(SubSeq(s, from, Len(s)), base)}
  IN  CASE Len(s) = 1 -> {Code[s[1]]}
        [] Len(s) = 2 /\ s[1] = "\\" /\ s[2] \in DOMAIN Simple -> {Simple[s[2]]}
        [] Len(s) > 1 /\ s[1] = "\\" /\ Spells(2, 8, 1, 3) -> Numeric(2, 8)
        [] Len(s) > 1 /\ s[1] = "\\" /\ s[2] = "x" /\ Spells(3, 16, 1, Len(s)) -> Numeric(3, 16)
        [] OTHER -> {}

Leaves ==
  [t \in WellFormedNumbers \cup {c \in DOMAIN Characters : Codes(Characters[c]) # {}} |->
     IF t \in DOMAIN Numbers THEN NumberLeaf(Numbers[t])
     ELSE <<"int", CHOOSE c \in Codes(Characters[t]) : TRUE, MaxWidth, FALSE>>]

Grammar == INSTANCE ExpressionGrammar WITH Leaves <- Leaves, TypeNames <- <<>>

Given(holds) == IF holds THEN "1" ELSE "0"

(* 6.10.1: what is left of a line before its tokens are converted, or      *)
(* nothing if defined is not used as it must be.                           *)
RECURSIVE Readings(_)
Readings(w) ==
  LET Then1(toks, n) == {toks \o r : r \in Readings(SubSeq(w, n + 1, Len(w)))} IN
  CASE w = <<>> -> {<<>>}
    [] w # <<>> /\ w[1] = "defined" ->
         UNION {
           IF Len(w) >= 2 /\ w[2] \in Identifiers
           THEN Then1(<<Given(w[2] \in DOMAIN Macros)>>, 2) ELSE {},
           IF Len(w) >= 4 /\ w[2] = "(" /\ w[3] \in Identifiers /\ w[4] = ")"
           THEN Then1(<<Given(w[3] \in DOMAIN Macros)>>, 4) ELSE {}}
    [] w # <<>> /\ w[1] # "defined" ->
         Then1(IdentifiersToZero(IF w[1] \in DOMAIN Macros THEN Macros[w[1]]
                                 ELSE <<w[1]>>), 1)

Meanings == {Intmax!ValueOf(t) : t \in UNION {Grammar!Conditionals(w) : w \in Readings(line)}}

-----------------------------------------------------------------------------
(* Properties                                                              *)

(* A #if or #elif is taken exactly when C says so: the verdict is that of  *)
(* the tree the grammar gives the line, with signs, wrap-around and        *)
(* divisions by zero as in C, and nothing diagnosed in what is not         *)
(* evaluated (ceval.c:12-14).  A line without a tree, or with a constant   *)
(* that is malformed, is diagnosed.                                        *)
PpConforms ==
  \A v \in verdict :
    /\ Meanings = {} => v.diagnosed
    /\ \A r \in Meanings :
         /\ r.kind = "value" => v = Verdict(r.v # 0, FALSE)
         /\ r.kind = "none" => v = Verdict(FALSE, TRUE)
=============================================================================
