-------------------------- MODULE ExpressionGrammar --------------------------
(***************************************************************************)
(* The grammar of expressions in C (6.5), as the set of trees that its     *)
(* productions give a sequence of tokens: the reference for the expression *)
(* parser.  A sequence that is no expression has no tree, and the grammar  *)
(* is unambiguous if none has two.  Every operator is the left side of     *)
(* some productions, and a union over its alternatives.                    *)
(*                                                                         *)
(* As in the parser, the left side of an assignment is a conditional       *)
(* expression (that it is an lvalue is for a later phase), and there are   *)
(* no compound literals and no generic selections.                         *)
(***************************************************************************)
EXTENDS Integers, Sequences

CONSTANTS
  Leaves,        \* the tree of every token that is an operand
  TypeNames      \* the type of every sequence of tokens that is a type name

(* 6.5.5 to 6.5.14, the loosest first.                                     *)
BinaryLevels == << {"||"}, {"&&"}, {"|"}, {"^"}, {"&"}, {"==", "!="},
                   {"<", ">", "<=", ">="}, {"<<", ">>"}, {"+", "-"}, {"*", "/", "%"} >>

From(w, k)  == SubSeq(w, k, Len(w))
Upto(w, k)  == SubSeq(w, 1, k)
Inner(w, k) == SubSeq(w, k, Len(w) - 1)
Starts(w, t) == Len(w) > 1 /\ w[1] = t
Ends(w, t)   == Len(w) > 1 /\ w[Len(w)] = t

RECURSIVE Expressions(_), Assignments(_), Conditionals(_), Binaries(_, _),
          Casts(_), Unaries(_), Postfixes(_), ArgumentLists(_)

(* The trees of  A op B  over the operators in ops.                        *)
Around(w, ops, A(_), B(_), Tree(_, _, _)) ==
  UNION {{Tree(w[k], a, b) : a \in A(Upto(w, k - 1)), b \in B(From(w, k + 1))}
           : k \in {i \in DOMAIN w : w[i] \in ops /\ i \in 2 .. Len(w) - 1}}

(* ( type-name ) at the front: the lengths of the type names.              *)
TypeInParentheses(w) ==
  {n \in 1 .. Len(w) - 2 : w[1] = "(" /\ w[n + 2] = ")"
                           /\ SubSeq(w, 2, n + 1) \in DOMAIN TypeNames}

TypeIn(w, n) == TypeNames[SubSeq(w, 2, n + 1)]

Primaries(w) ==
  UNION {{Leaves[t] : t \in {u \in DOMAIN Leaves : w = <<u>>}},
         IF Starts(w, "(") /\ Ends(w, ")") THEN Expressions(Inner(w, 2)) ELSE {}}

ArgumentLists(w) ==
  UNION {{<<a>> : a \in Assignments(w)},
         Around(w, {","}, ArgumentLists, Assignments, LAMBDA op, l, a : Append(l, a))}

(* The places where a suffix of w that begins with t may start.            *)
SuffixAt(w, t) == {k \in 2 .. Len(w) - 1 : w[k] = t}

Postfixes(w) ==
  UNION {Primaries(w),
    IF ~Ends(w, "]") THEN {}
    ELSE UNION {{<<"index", a, i>> : a \in Postfixes(Upto(w, k - 1)),
                                     i \in Expressions(Inner(w, k + 1))}
                  : k \in SuffixAt(w, "[")},
    IF ~Ends(w, ")") THEN {}
    ELSE UNION {{<<"call", f, l>> : f \in Postfixes(Upto(w, k - 1)),
                                    l \in IF k + 1 = Len(w) THEN {<<>>}
                                          ELSE ArgumentLists(Inner(w, k + 1))}
                  : k \in SuffixAt(w, "(")},
    IF ~Ends(w, "++") THEN {} ELSE {<<"postfix", "++", e>> : e \in Postfixes(Inner(w, 1))}}

Unaries(w) ==
  UNION {Postfixes(w),
    IF ~Starts(w, "++") THEN {} ELSE {<<"unary", "++", e>> : e \in Unaries(From(w, 2))},
    UNION {IF ~Starts(w, op) THEN {} ELSE {<<"unary", op, e>> : e \in Casts(From(w, 2))}
             : op \in {"&", "*", "+", "-", "~", "!"}},
    IF ~Starts(w, "sizeof") THEN {}
    ELSE UNION {{<<"sizeof_expr", e>> : e \in Unaries(From(w, 2))},
                {<<"sizeof", TypeIn(From(w, 2), n)>>
                   : n \in {m \in TypeInParentheses(From(w, 2)) : Len(w) = m + 3}}}}

Casts(w) ==
  UNION {Unaries(w),
         UNION {{<<"cast", TypeIn(w, n), e>> : e \in Casts(From(w, n + 3))}
                  : n \in TypeInParentheses(w)}}

Binaries(level, w) ==
  IF level > Len(BinaryLevels) THEN Casts(w)
  ELSE UNION {Binaries(level + 1, w),
              Around(w, BinaryLevels[level], LAMBDA u : Binaries(level, u),
                     LAMBDA u : Binaries(level + 1, u),
                     LAMBDA op, a, b : <<"binary", op, a, b>>)}

Conditionals(w) ==
  UNION {Binaries(1, w),
         Around(w, {":"},
                LAMBDA u : Around(u, {"?"}, LAMBDA v : Binaries(1, v), Expressions,
                                  LAMBDA op, c, a : <<c, a>>),
                Conditionals, LAMBDA op, ca, b : <<"conditional", ca[1], ca[2], b>>)}

Assignments(w) ==
  UNION {Conditionals(w),
         Around(w, {"="}, Conditionals, Assignments, LAMBDA op, l, r : <<"assign", op, l, r>>)}

Expressions(w) ==
  UNION {Assignments(w),
         Around(w, {","}, Expressions, Assignments, LAMBDA op, l, r : <<"comma", l, r>>)}
=============================================================================
