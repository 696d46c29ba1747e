---------------------------- MODULE LexerProofs ----------------------------
(***************************************************************************)
(* Proofs about the lexer, for every text: every loop ends, inside the     *)
(* text; every call goes forward; what the calls return are spans of the   *)
(* text, in order; and the missing newline is supplied once.  Loops come   *)
(* first, then reading, the scanners, white space, and the calls.          *)
(***************************************************************************)
EXTENDS Lexer, WellFoundedInduction, FiniteSetTheorems, TLAPS

-----------------------------------------------------------------------------
(* Induction                                                               *)

LessThan == {mn \in Nat \X Nat : mn[1] < mn[2]}

LEMMA LessThanWellFounded == IsWellFoundedOn(LessThan, Nat)
  BY NatLessThanWellFounded DEF OpToRel, LessThan

(* A set that holds 0 and, with a number, the next, holds all.             *)
LEMMA Induction ==
  ASSUME NEW S, 0 \in S, \A k \in Nat : k \in S => k + 1 \in S
  PROVE  \A k \in Nat : k \in S
<1> DEFINE T == {k \in Nat : k \notin S}
<1> SUFFICES ASSUME T # {} PROVE FALSE
  OBVIOUS
<1>1. PICK k \in T : \A j \in T : <<j, k>> \notin LessThan
  BY LessThanWellFounded, WFMin
<1>2. k \in Nat /\ k \notin S /\ k # 0
  OBVIOUS
<1>3. k - 1 \in Nat /\ <<k - 1, k>> \in LessThan
  BY <1>2 DEF LessThan
<1>4. k - 1 \in S
  BY <1>1, <1>3
<1>5. k - 1 + 1 \in S
  BY <1>3, <1>4
<1> QED
  BY <1>2, <1>5

-----------------------------------------------------------------------------
(* Recursion: f has the value base at a fixed point of step, and elsewhere *)
(* what next makes of its value at step.                                   *)
Recursion(D, step, base, next, f) ==
  f = [q \in D |-> IF step[q] = q THEN base[q] ELSE next[q][f[step[q]]]]

(* Every turn lowers a measure that is at most n.                          *)
Descends(D, step, m, n) ==
  /\ n \in Nat /\ step \in [D -> D] /\ m \in [D -> 0 .. n]
  /\ \A q \in D : step[q] # q => m[step[q]] < m[q]

LEMMA RecursionIs ==
  ASSUME NEW D, NEW step, NEW base, NEW next, NEW f,
         Recursion(D, step, base, next, f), NEW q \in D
  PROVE  f[q] = IF step[q] = q THEN base[q] ELSE next[q][f[step[q]]]
<1> DEFINE g == [p \in D |-> IF step[p] = p THEN base[p] ELSE next[p][f[step[p]]]]
<1>1. f = g
  BY DEF Recursion
<1>2. g[q] = IF step[q] = q THEN base[q] ELSE next[q][f[step[q]]]
  OBVIOUS
<1> HIDE DEF g
<1> QED
  BY <1>1, <1>2

(* Such a function has its values where base and next have theirs.         *)
LEMMA RecursionType ==
  ASSUME NEW D, NEW step, NEW base, NEW next, NEW f, NEW m, NEW n, NEW V,
         Descends(D, step, m, n), base \in [D -> V], next \in [D -> [V -> V]],
         Recursion(D, step, base, next, f)
  PROVE  f \in [D -> V]
<1> DEFINE S == {k \in Nat : \A q \in D : m[q] <= k => f[q] \in V}
<1>0. /\ n \in Nat /\ \A q \in D : step[q] \in D /\ m[q] \in 0 .. n
      /\ \A q \in D : step[q] # q => m[step[q]] < m[q]
  BY DEF Descends
<1>a. \A q \in D : base[q] \in V /\ \A v \in V : next[q][v] \in V
  OBVIOUS
<1>1. 0 \in S
  <2> SUFFICES ASSUME NEW q \in D, m[q] <= 0 PROVE f[q] \in V
    OBVIOUS
  <2>1. step[q] = q
    BY <1>0
  <2>2. f[q] = base[q]
    BY <2>1, RecursionIs
  <2> QED
    BY <1>a, <2>2
<1>2. ASSUME NEW k \in Nat, k \in S PROVE k + 1 \in S
  <2> SUFFICES ASSUME NEW q \in D, m[q] <= k + 1 PROVE f[q] \in V
    OBVIOUS
  <2>1. CASE step[q] = q
    BY <1>a, <2>1, RecursionIs
  <2>2. CASE step[q] # q
    <3>1. step[q] \in D /\ m[step[q]] <= k
      BY <1>0, <2>2
    <3>2. f[step[q]] \in V
      BY <1>2, <3>1
    <3> QED
      BY <1>a, <2>2, <3>2, RecursionIs
  <2> QED
    BY <2>1, <2>2
<1>3. n \in S
  <2> HIDE DEF S
  <2> QED
    BY <1>0, <1>1, <1>2, Induction
<1>4. \A q \in D : f[q] \in V
  BY <1>0, <1>3
<1>5. f = [q \in D |-> f[q]]
  <2> DEFINE g == [q \in D |-> IF step[q] = q THEN base[q] ELSE next[q][f[step[q]]]]
  <2>1. f = g
    BY DEF Recursion
  <2>2. g = [q \in D |-> g[q]]
    OBVIOUS
  <2> HIDE DEF g
  <2> QED
    BY <2>1, <2>2
<1> QED
  BY <1>4, <1>5

Below(D, m, k) == {q \in D : m[q] <= k}

Approximation(D, step, base, next, m, k, g) ==
  \A q \in Below(D, m, k) :
    g[q] = IF step[q] = q THEN base[q] ELSE next[q][g[step[q]]]

LEMMA RecursionExists ==
  ASSUME NEW D, NEW step, NEW base, NEW next, NEW m, NEW n,
         Descends(D, step, m, n)
  PROVE  \E f : Recursion(D, step, base, next, f)
<1> DEFINE S == {k \in Nat : \E g : Approximation(D, step, base, next, m, k, g)}
<1>0. /\ n \in Nat /\ \A q \in D : step[q] \in D /\ m[q] \in 0 .. n
      /\ \A q \in D : step[q] # q => m[step[q]] < m[q]
  BY DEF Descends
<1>1. 0 \in S
  <2> DEFINE g == [q \in D |-> base[q]]
  <2>1. ASSUME NEW q \in Below(D, m, 0) PROVE step[q] = q /\ q \in D
    BY <1>0 DEF Below
  <2>2. Approximation(D, step, base, next, m, 0, g)
    BY <2>1 DEF Approximation
  <2> HIDE DEF g
  <2> QED
    BY <2>2
<1>2. ASSUME NEW k \in Nat, k \in S PROVE k + 1 \in S
  <2>1. PICK g : Approximation(D, step, base, next, m, k, g)
    BY <1>2
  <2> DEFINE h == [q \in D |-> IF m[q] <= k THEN g[q]
                               ELSE IF step[q] = q THEN base[q] ELSE next[q][g[step[q]]]]
  <2>2. ASSUME NEW q \in Below(D, m, k) PROVE h[q] = g[q]
    BY DEF Below
  <2>3. ASSUME NEW q \in D
        PROVE  h[q] = IF m[q] <= k THEN g[q]
                      ELSE IF step[q] = q THEN base[q] ELSE next[q][g[step[q]]]
    OBVIOUS
  <2> HIDE DEF h
  <2>4. ASSUME NEW q \in Below(D, m, k + 1)
        PROVE  h[q] = IF step[q] = q THEN base[q] ELSE next[q][h[step[q]]]
    <3>1. q \in D /\ m[q] <= k + 1
      BY DEF Below
    <3>2. step[q] # q => step[q] \in Below(D, m, k)
      BY <1>0, <3>1 DEF Below
    <3>3. step[q] # q => h[step[q]] = g[step[q]]
      BY <2>2, <3>2
    <3>4. CASE m[q] <= k
      <4>1. q \in Below(D, m, k)
        BY <3>1, <3>4 DEF Below
      <4>2. g[q] = IF step[q] = q THEN base[q] ELSE next[q][g[step[q]]]
        BY <2>1, <4>1 DEF Approximation
      <4> QED
        BY <2>2, <3>3, <4>1, <4>2
    <3>5. CASE ~(m[q] <= k)
      BY <2>3, <3>1, <3>3, <3>5
    <3> QED
      BY <3>4, <3>5
  <2> QED
    BY <2>4 DEF Approximation
<1>3. n \in S
  <2> HIDE DEF S
  <2> QED
    BY <1>0, <1>1, <1>2, Induction
<1>4. PICK g : Approximation(D, step, base, next, m, n, g)
  BY <1>3
<1> DEFINE f == [q \in D |-> g[q]]
<1>5. f = [q \in D |-> IF step[q] = q THEN base[q] ELSE next[q][f[step[q]]]]
  <2>1. ASSUME NEW q \in D
        PROVE  g[q] = IF step[q] = q THEN base[q] ELSE next[q][f[step[q]]]
    <3>1. q \in Below(D, m, n) /\ step[q] \in D
      BY <1>0 DEF Below
    <3>2. f[step[q]] = g[step[q]]
      BY <3>1
    <3> HIDE DEF f
    <3> QED
      BY <1>4, <3>1, <3>2 DEF Approximation
  <2> QED
    BY <2>1
<1> HIDE DEF f
<1> QED
  BY <1>5 DEF Recursion

-----------------------------------------------------------------------------
(* Loops over the offsets of a text of n characters                        *)

Advances(step, n) ==
  /\ n \in Nat /\ step \in [Nat -> Nat]
  /\ \A q \in Nat : q <= step[q] /\ (q <= n => step[q] <= n) /\ (q >= n => step[q] = q)

Left(n) == [q \in Nat |-> IF q <= n THEN n - q ELSE 0]

LEMMA AdvancesDescends ==
  ASSUME NEW step, NEW n, Advances(step, n)
  PROVE  Descends(Nat, step, Left(n), n)
<1>1. /\ n \in Nat /\ step \in [Nat -> Nat]
      /\ \A q \in Nat : /\ q <= step[q] /\ (q <= n => step[q] <= n)
                        /\ (q >= n => step[q] = q) /\ step[q] \in Nat
  BY DEF Advances
<1>2. Left(n) \in [Nat -> 0 .. n]
  BY <1>1 DEF Left
<1>3. ASSUME NEW q \in Nat, step[q] # q PROVE Left(n)[step[q]] < Left(n)[q]
  <2>1. step[q] \in Nat /\ q < n /\ q < step[q] /\ step[q] <= n
    BY <1>1, <1>3
  <2>2. Left(n)[step[q]] = n - step[q] /\ Left(n)[q] = n - q
    BY <1>1, <2>1 DEF Left
  <2> QED
    BY <1>1, <2>1, <2>2
<1> QED
  BY <1>1, <1>2, <1>3 DEF Descends

(* What holds of an offset when it holds of the next, and where a loop     *)
(* ends, holds of all.                                                     *)
LEMMA LoopInduction ==
  ASSUME NEW step, NEW n, Advances(step, n), NEW P,
         \A q \in Nat : step[q] = q => q \in P,
         \A q \in Nat : step[q] # q /\ step[q] \in P => q \in P
  PROVE  \A q \in Nat : q \in P
<1> DEFINE m == Left(n)
           S == {k \in Nat : \A q \in Nat : m[q] <= k => q \in P}
<1>1. /\ n \in Nat /\ \A q \in Nat : step[q] \in Nat /\ m[q] \in 0 .. n
      /\ \A q \in Nat : step[q] # q => m[step[q]] < m[q]
  BY AdvancesDescends DEF Descends
<1> HIDE DEF m
<1>2. 0 \in S
  <2> SUFFICES ASSUME NEW q \in Nat, m[q] <= 0 PROVE q \in P
    OBVIOUS
  <2>1. step[q] = q
    BY <1>1
  <2> QED
    BY <2>1
<1>3. ASSUME NEW k \in Nat, k \in S PROVE k + 1 \in S
  <2> SUFFICES ASSUME NEW q \in Nat, m[q] <= k + 1 PROVE q \in P
    OBVIOUS
  <2>1. CASE step[q] = q
    BY <2>1
  <2>2. CASE step[q] # q
    <3>1. step[q] \in Nat /\ m[step[q]] <= k
      BY <1>1, <2>2
    <3>2. step[q] \in P
      BY <1>3, <3>1
    <3> QED
      BY <2>2, <3>2
  <2> QED
    BY <2>1, <2>2
<1>4. n \in S
  <2> HIDE DEF S
  <2> QED
    BY <1>1, <1>2, <1>3, Induction
<1> QED
  BY <1>1, <1>4

(* A loop that ends, over places of any kind.                              *)
LEMMA LoopIs ==
  ASSUME NEW D, NEW step, NEW m, NEW n, Descends(D, step, m, n), NEW p \in D
  PROVE  /\ LoopEnd(step, p) \in D
         /\ LoopEnd(step, p) = IF step[p] = p THEN p ELSE LoopEnd(step, step[p])
<1> DEFINE Ends(f) == f = [q \in DOMAIN step |-> IF step[q] = q THEN q ELSE f[step[q]]]
           from == CHOOSE f : Ends(f)
           base == [q \in D |-> q]
           next == [q \in D |-> [v \in D |-> v]]
<1>0. DOMAIN step = D /\ \A q \in D : step[q] \in D
  BY DEF Descends
<1>1. base \in [D -> D] /\ next \in [D -> [D -> D]]
      /\ \A q \in D : base[q] = q /\ \A v \in D : next[q][v] = v
  OBVIOUS
<1> HIDE DEF base, next
<1>2. PICK f : Recursion(D, step, base, next, f)
  BY RecursionExists
<1>3. f \in [D -> D]
  BY <1>1, <1>2, RecursionType
<1>4. ASSUME NEW q \in D PROVE f[q] = IF step[q] = q THEN q ELSE f[step[q]]
  <2>1. f[q] = IF step[q] = q THEN base[q] ELSE next[q][f[step[q]]]
    BY <1>2, RecursionIs
  <2>2. f[step[q]] \in D
    BY <1>0, <1>3
  <2> QED
    BY <1>1, <2>1, <2>2
<1>5. Ends(f)
  BY <1>0, <1>3, <1>4
<1>6. Ends(from)
  BY <1>5
<1>7. \A q \in D : LoopEnd(step, q) = from[q]
  BY DEF LoopEnd
<1> HIDE DEF from
<1>8. ASSUME NEW q \in D PROVE from[q] = IF step[q] = q THEN q ELSE from[step[q]]
  <2> DEFINE g == [r \in DOMAIN step |-> IF step[r] = r THEN r ELSE from[step[r]]]
  <2>1. from = g
    BY <1>6
  <2>2. g[q] = IF step[q] = q THEN q ELSE from[step[q]]
    BY <1>0
  <2> HIDE DEF g
  <2> QED
    BY <2>1, <2>2
<1>9. \A q \in D : from[q] \in D
  <2> DEFINE S == {k \in Nat : \A q \in D : m[q] <= k => from[q] \in D}
  <2>1. /\ n \in Nat /\ \A q \in D : m[q] \in 0 .. n
        /\ \A q \in D : step[q] # q => m[step[q]] < m[q]
    BY DEF Descends
  <2>2. 0 \in S
    <3> SUFFICES ASSUME NEW q \in D, m[q] <= 0 PROVE from[q] \in D
      OBVIOUS
    <3>1. step[q] = q
      BY <1>0, <2>1
    <3> QED
      BY <1>8, <3>1
  <2>3. ASSUME NEW k \in Nat, k \in S PROVE k + 1 \in S
    <3> SUFFICES ASSUME NEW q \in D, m[q] <= k + 1 PROVE from[q] \in D
      OBVIOUS
    <3>1. CASE step[q] = q
      BY <1>8, <3>1
    <3>2. CASE step[q] # q
      <4>1. step[q] \in D /\ m[step[q]] <= k
        BY <1>0, <2>1, <3>2
      <4>2. from[step[q]] \in D
        BY <2>3, <4>1
      <4> QED
        BY <1>8, <3>2, <4>2
    <3> QED
      BY <3>1, <3>2
  <2>4. n \in S
    <3> HIDE DEF S
    <3> QED
      BY <2>1, <2>2, <2>3, Induction
  <2> QED
    BY <2>1, <2>4
<1> QED
  BY <1>0, <1>7, <1>8, <1>9

(* What every turn keeps holds at the end.                                 *)
LEMMA LoopKeeps ==
  ASSUME NEW D, NEW step, NEW m, NEW n, Descends(D, step, m, n),
         NEW P, P \subseteq D, \A q \in P : step[q] \in P, NEW p \in P
  PROVE  LET e == LoopEnd(step, p) IN e \in P /\ step[e] = e
<1> DEFINE S == {k \in Nat : \A q \in P : m[q] <= k =>
                   LoopEnd(step, q) \in P /\ step[LoopEnd(step, q)] = LoopEnd(step, q)}
<1>1. /\ n \in Nat /\ \A q \in P : m[q] \in 0 .. n
      /\ \A q \in P : step[q] # q => m[step[q]] < m[q]
  BY DEF Descends
<1>2. \A q \in P : LoopEnd(step, q) = IF step[q] = q THEN q ELSE LoopEnd(step, step[q])
  BY LoopIs
<1>3. 0 \in S
  <2> SUFFICES ASSUME NEW q \in P, m[q] <= 0
               PROVE  /\ LoopEnd(step, q) \in P
                      /\ step[LoopEnd(step, q)] = LoopEnd(step, q)
    OBVIOUS
  <2>1. step[q] = q
    BY <1>1
  <2> QED
    BY <1>2, <2>1
<1>4. ASSUME NEW k \in Nat, k \in S PROVE k + 1 \in S
  <2> SUFFICES ASSUME NEW q \in P, m[q] <= k + 1
               PROVE  /\ LoopEnd(step, q) \in P
                      /\ step[LoopEnd(step, q)] = LoopEnd(step, q)
    OBVIOUS
  <2>1. CASE step[q] = q
    BY <1>2, <2>1
  <2>2. CASE step[q] # q
    <3>1. step[q] \in P /\ m[step[q]] <= k
      BY <1>1, <2>2
    <3>2. LoopEnd(step, q) = LoopEnd(step, step[q])
      BY <1>2, <2>2
    <3> QED
      BY <1>4, <3>1, <3>2
  <2> QED
    BY <2>1, <2>2
<1>5. n \in S
  <2> HIDE DEF S
  <2> QED
    BY <1>1, <1>3, <1>4, Induction
<1> QED
  BY <1>1, <1>5

LEMMA LoopEndIs ==
  ASSUME NEW step, NEW n, Advances(step, n), NEW p \in Nat
  PROVE  /\ LoopEnd(step, p) \in Nat
         /\ LoopEnd(step, p) = IF step[p] = p THEN p ELSE LoopEnd(step, step[p])
  BY AdvancesDescends, LoopIs

(* A loop ends inside the text, not before it began nor before the end of  *)
(* its first turn, and where its body has nothing more to do.              *)
LEMMA LoopEnds ==
  ASSUME NEW step, NEW n, Advances(step, n), NEW p \in Nat
  PROVE  LET e == LoopEnd(step, p)
         IN  /\ e \in Nat /\ step[e] = e
             /\ p <= e /\ step[p] <= e /\ (p <= n => e <= n)
<1>1. \A q \in Nat : /\ LoopEnd(step, q) \in Nat
                     /\ LoopEnd(step, q) = IF step[q] = q THEN q
                                           ELSE LoopEnd(step, step[q])
  BY LoopEndIs
<1>2. \A q \in Nat : step[q] \in Nat /\ q <= step[q] /\ (q <= n => step[q] <= n)
  BY DEF Advances
<1> DEFINE P == {q \in Nat : LET e == LoopEnd(step, q)
                             IN  /\ step[e] = e
                                 /\ step[q] <= e /\ (q <= n => e <= n)}
<1>3. ASSUME NEW q \in Nat, step[q] = q PROVE q \in P
  BY <1>1, <1>2, <1>3
<1>4. ASSUME NEW q \in Nat, step[q] # q, step[q] \in P PROVE q \in P
  <2>1. LoopEnd(step, q) = LoopEnd(step, step[q]) /\ step[q] \in Nat
    BY <1>1, <1>2, <1>4
  <2>2. PICK e \in Nat : e = LoopEnd(step, q)
    BY <1>1
  <2>3. step[e] = e /\ step[step[q]] <= e /\ (step[q] <= n => e <= n)
    BY <1>4, <2>1, <2>2
  <2>4. step[q] <= step[step[q]] /\ step[step[q]] \in Nat /\ (q <= n => step[q] <= n)
    BY <1>2, <2>1
  <2>5. step[q] <= e
    BY <2>1, <2>2, <2>3, <2>4
  <2> QED
    BY <2>2, <2>3, <2>4, <2>5
<1>5. p \in P
  <2> HIDE DEF P
  <2> QED
    BY <1>3, <1>4, LoopInduction
<1>6. p <= step[p] /\ step[p] \in Nat
  BY <1>2
<1>7. PICK e \in Nat : e = LoopEnd(step, p)
  BY <1>1
<1>8. step[e] = e /\ step[p] <= e /\ (p <= n => e <= n)
  BY <1>5, <1>7
<1>9. p <= e
  BY <1>6, <1>7, <1>8
<1> QED
  BY <1>7, <1>8, <1>9

(* What a loop collects, if every turn collects a sequence.                *)
LEMMA LoopFoundIs ==
  ASSUME NEW step, NEW n, Advances(step, n), NEW p \in Nat,
         NEW S, NEW found \in [Nat -> Seq(S)]
  PROVE  /\ LoopFound(step, found, p) \in Seq(S)
         /\ LoopFound(step, found, p)
              = IF step[p] = p THEN <<>> ELSE found[p] \o LoopFound(step, found, step[p])
<1> DEFINE Finds(f) ==
             f = [q \in DOMAIN step |->
                    IF step[q] = q THEN <<>> ELSE found[q] \o f[step[q]]]
           from == CHOOSE f : Finds(f)
           base == [q \in Nat |-> <<>>]
           next == [q \in Nat |-> [v \in Seq(S) |-> found[q] \o v]]
<1>0. DOMAIN step = Nat /\ step[p] \in Nat
  BY DEF Advances
<1>1. /\ base \in [Nat -> Seq(S)]
      /\ \A q \in Nat : base[q] = <<>>
  OBVIOUS
<1>2. /\ next \in [Nat -> [Seq(S) -> Seq(S)]]
      /\ \A q \in Nat : \A v \in Seq(S) : next[q][v] = found[q] \o v
  OBVIOUS
<1> HIDE DEF base, next
<1>3. Descends(Nat, step, Left(n), n)
  BY AdvancesDescends
<1>4. PICK f : Recursion(Nat, step, base, next, f)
  BY <1>3, RecursionExists
<1>5. f \in [Nat -> Seq(S)]
  <2>1. base \in [Nat -> Seq(S)] /\ next \in [Nat -> [Seq(S) -> Seq(S)]]
    BY <1>1, <1>2
  <2> QED
    BY ONLY <1>3, <1>4, <2>1, RecursionType
<1>6. ASSUME NEW q \in Nat
      PROVE  f[q] = IF step[q] = q THEN <<>> ELSE found[q] \o f[step[q]]
  <2>1. f[q] = IF step[q] = q THEN base[q] ELSE next[q][f[step[q]]]
    BY <1>4, RecursionIs
  <2>2. step[q] \in Nat
    BY DEF Advances
  <2>3. f[step[q]] \in Seq(S)
    BY <1>5, <2>2
  <2>4. base[q] = <<>> /\ next[q][f[step[q]]] = found[q] \o f[step[q]]
    BY <1>1, <1>2, <2>3
  <2> QED
    BY <2>1, <2>4
<1>7. Finds(f)
  BY <1>0, <1>5, <1>6
<1>8. Finds(from)
  BY <1>7
<1>9. \A q \in Nat : LoopFound(step, found, q) = from[q]
  BY DEF LoopFound
<1> HIDE DEF from
<1>10. ASSUME NEW q \in Nat
       PROVE  from[q] = IF step[q] = q THEN <<>> ELSE found[q] \o from[step[q]]
  <2> DEFINE g == [r \in DOMAIN step |->
                 IF step[r] = r THEN <<>> ELSE found[r] \o from[step[r]]]
  <2>1. from = g
    BY <1>8
  <2>2. g[q] = IF step[q] = q THEN <<>> ELSE found[q] \o from[step[q]]
    BY <1>0
  <2> HIDE DEF g
  <2> QED
    BY <2>1, <2>2
<1> DEFINE P == {q \in Nat : from[q] \in Seq(S)}
<1>11. ASSUME NEW q \in Nat, step[q] = q PROVE q \in P
  <2>1. from[q] = <<>>
    BY <1>10, <1>11
  <2>2. <<>> \in Seq(S)
    OBVIOUS
  <2>3. from[q] \in Seq(S)
    BY <2>1, <2>2
  <2> QED
    BY <2>3
<1>12. ASSUME NEW q \in Nat, step[q] # q, step[q] \in P PROVE q \in P
  <2>1. from[step[q]] \in Seq(S) /\ found[q] \in Seq(S)
    BY <1>12
  <2>2. found[q] \o from[step[q]] \in Seq(S)
    BY <2>1
  <2> QED
    BY <1>10, <1>12, <2>2
<1>13. p \in P
  <2> HIDE DEF P
  <2> QED
    BY <1>11, <1>12, LoopInduction
<1> QED
  BY <1>0, <1>9, <1>10, <1>13

LEMMA LoopFoundType ==
  ASSUME NEW step, NEW n, Advances(step, n), NEW p \in Nat,
         NEW S, NEW found \in [Nat -> Seq(S)]
  PROVE  LoopFound(step, found, p) \in Seq(S)
  BY LoopFoundIs

(* Where a loop is after k of its n turns.                                 *)
CountsFrom(f, step, p, n) ==
  /\ LoopAfter(step, p, n) = f[n]
  /\ \A k \in 0 .. n : f[k] = IF k = 0 THEN p ELSE step[f[k - 1]]

LEMMA LoopAfterIs ==
  ASSUME NEW step \in [Nat -> Nat], NEW p \in Nat, NEW n \in Nat
  PROVE  \E f : CountsFrom(f, step, p, n)
<1> DEFINE Counts(f) == f = [k \in 0 .. n |-> IF k = 0 THEN p ELSE step[f[k - 1]]]
           after == CHOOSE f : Counts(f)
           down  == [k \in 0 .. n |-> IF k = 0 THEN 0 ELSE k - 1]
           m     == [k \in 0 .. n |-> k]
           base  == [k \in 0 .. n |-> p]
           next  == [k \in 0 .. n |-> step]
<1>1. Descends(0 .. n, down, m, n)
  <2>1. down \in [0 .. n -> 0 .. n] /\ m \in [0 .. n -> 0 .. n]
    OBVIOUS
  <2>2. \A k \in 0 .. n : down[k] # k => m[down[k]] < m[k]
    OBVIOUS
  <2> HIDE DEF down, m
  <2> QED
    BY <2>1, <2>2 DEF Descends
<1>2. \A k \in 0 .. n : /\ base[k] = p /\ next[k] = step
                        /\ down[k] = IF k = 0 THEN 0 ELSE k - 1
  OBVIOUS
<1> HIDE DEF down, m, base, next
<1>3. PICK f : Recursion(0 .. n, down, base, next, f)
  BY <1>1, RecursionExists
<1>4. ASSUME NEW k \in 0 .. n PROVE f[k] = IF k = 0 THEN p ELSE step[f[k - 1]]
  <2>1. f[k] = IF down[k] = k THEN base[k] ELSE next[k][f[down[k]]]
    BY <1>3, RecursionIs
  <2> QED
    BY <1>2, <2>1
<1> DEFINE g == [k \in 0 .. n |-> f[k]]
<1>5. ASSUME NEW k \in 0 .. n PROVE g[k] = IF k = 0 THEN p ELSE step[g[k - 1]]
  <2>1. g[k] = f[k] /\ (k # 0 => g[k - 1] = f[k - 1])
    OBVIOUS
  <2> HIDE DEF g
  <2> QED
    BY <1>4, <2>1
<1>6. Counts(g)
  <2>1. g = [k \in 0 .. n |-> g[k]]
    OBVIOUS
  <2> HIDE DEF g
  <2> QED
    BY <1>5, <2>1
<1> HIDE DEF g
<1>7. Counts(after)
  BY <1>6
<1>8. LoopAfter(step, p, n) = after[n]
  BY DEF LoopAfter
<1> HIDE DEF after
<1>9. ASSUME NEW k \in 0 .. n PROVE after[k] = IF k = 0 THEN p ELSE step[after[k - 1]]
  <2> DEFINE h == [j \in 0 .. n |-> IF j = 0 THEN p ELSE step[after[j - 1]]]
  <2>1. after = h
    BY <1>7
  <2>2. h[k] = IF k = 0 THEN p ELSE step[after[k - 1]]
    OBVIOUS
  <2> HIDE DEF h
  <2> QED
    BY <2>1, <2>2
<1>10. CountsFrom(after, step, p, n)
  BY <1>8, <1>9 DEF CountsFrom
<1> QED
  BY <1>10

LEMMA LoopAfterBounds ==
  ASSUME NEW step, NEW size, Advances(step, size), NEW p \in Nat, NEW n \in Nat
  PROVE  LET e == LoopAfter(step, p, n)
         IN  /\ e \in Nat /\ p <= e /\ (p <= size => e <= size)
             /\ n > 0 => step[p] <= e
<1>1. /\ size \in Nat /\ step \in [Nat -> Nat]
      /\ \A q \in Nat : step[q] \in Nat /\ q <= step[q] /\ (q <= size => step[q] <= size)
  BY DEF Advances
<1>2. PICK f : /\ LoopAfter(step, p, n) = f[n]
               /\ \A k \in 0 .. n : f[k] = IF k = 0 THEN p ELSE step[f[k - 1]]
  <2>1. step \in [Nat -> Nat]
    BY <1>1
  <2>2. \E f : CountsFrom(f, step, p, n)
    BY <2>1, LoopAfterIs
  <2> QED
    BY <2>2 DEF CountsFrom
<1> DEFINE S == {k \in Nat : k <= n => /\ f[k] \in Nat /\ p <= f[k]
                                      /\ (p <= size => f[k] <= size)
                                      /\ (k > 0 => step[p] <= f[k])}
<1>3. 0 \in S
  BY <1>2
<1>4. ASSUME NEW k \in Nat, k \in S PROVE k + 1 \in S
  <2> SUFFICES ASSUME k + 1 <= n
               PROVE  /\ f[k + 1] \in Nat /\ p <= f[k + 1]
                      /\ (p <= size => f[k + 1] <= size)
                      /\ step[p] <= f[k + 1]
    OBVIOUS
  <2>1. /\ f[k] \in Nat /\ p <= f[k] /\ (p <= size => f[k] <= size)
        /\ (k > 0 => step[p] <= f[k])
    BY <1>4
  <2>2. k + 1 \in 0 .. n /\ k + 1 # 0 /\ k + 1 - 1 = k
    OBVIOUS
  <2>3. f[k + 1] = step[f[k]]
    BY <1>2, <2>2
  <2>4. k = 0 => f[k] = p
    BY <1>2
  <2>5. PICK v \in Nat : v = f[k]
    BY <2>1
  <2>6. step[v] \in Nat /\ v <= step[v] /\ (v <= size => step[v] <= size) /\ step[p] \in Nat
    BY <1>1
  <2> QED
    BY <1>1, <2>1, <2>3, <2>4, <2>5, <2>6
<1>5. n \in S
  <2> HIDE DEF S
  <2> QED
    BY <1>3, <1>4, Induction
<1> QED
  BY <1>2, <1>5

-----------------------------------------------------------------------------
(* Reading                                                                 *)

Texts == Seq(STRING \ {End})

LEMMA ByteIs ==
  ASSUME NEW src \in Texts, NEW p \in Nat
  PROVE  Byte(src, p) = End <=> p >= Len(src)
<1>1. CASE p < Len(src)
  <2>1. p + 1 \in 1 .. Len(src)
    BY <1>1 DEF Texts
  <2>2. src[p + 1] \in STRING \ {End}
    BY <2>1 DEF Texts
  <2> QED
    BY <1>1, <2>2 DEF Byte, Texts
<1>2. CASE p >= Len(src)
  BY <1>2 DEF Byte, Texts
<1> QED
  BY <1>1, <1>2 DEF Texts

LEMMA SpliceIs ==
  ASSUME NEW src \in Texts, NEW p \in Nat
  PROVE  /\ SpliceAt(src, p) \in Nat
         /\ p <= Len(src) => p + SpliceAt(src, p) <= Len(src)
         /\ p >= Len(src) => SpliceAt(src, p) = 0
<1>0. Len(src) \in Nat
  BY DEF Texts
<1>a. End # "\\" /\ End # "\n" /\ End # "\r"
  BY DEF End
<1>1. /\ Byte(src, p) # End => p < Len(src)
      /\ Byte(src, p + 1) # End => p + 1 < Len(src)
      /\ Byte(src, p + 2) # End => p + 2 < Len(src)
  BY <1>0, ByteIs, p + 1 \in Nat, p + 2 \in Nat
<1> QED
  BY <1>0, <1>a, <1>1 DEF SpliceAt

LEMMA SplicesAdvance ==
  ASSUME NEW src \in Texts
  PROVE  Advances([p \in Nat |-> p + SpliceAt(src, p)], Len(src))
<1>1. Len(src) \in Nat
  BY DEF Texts
<1>2. \A p \in Nat : /\ SpliceAt(src, p) \in Nat
                     /\ p <= Len(src) => p + SpliceAt(src, p) <= Len(src)
                     /\ p >= Len(src) => SpliceAt(src, p) = 0
  BY SpliceIs
<1> QED
  BY <1>1, <1>2 DEF Advances

(* x is the logical character read from x.from.                            *)
Reading(src, x) == x.from \in Nat /\ x = At(src, x.from)

(* Splices that are skipped end before the character, and the character at *)
(* End, and only there, is no character.                                   *)
LEMMA AtIs ==
  ASSUME NEW src \in Texts, NEW p \in Nat
  PROVE  LET x == At(src, p)
         IN  /\ Reading(src, x) /\ x.from = p
             /\ x.at \in Nat /\ x.next \in Nat
             /\ p <= x.at /\ x.at <= x.next
             /\ p <= Len(src) => x.next <= Len(src)
             /\ p >= Len(src) => x.at = p
             /\ x.c = End <=> x.at >= Len(src)
             /\ x.next = IF x.c = End THEN x.at ELSE x.at + 1
             /\ x.c = Byte(src, x.at)
<1> DEFINE step == [q \in Nat |-> q + SpliceAt(src, q)]
<1>0. Len(src) \in Nat
  BY DEF Texts
<1>1. Advances(step, Len(src))
  BY SplicesAdvance
<1> HIDE DEF step
<1>2. PICK e \in Nat : e = LoopEnd(step, p)
  BY <1>1, LoopEnds
<1>3. p <= e /\ (p <= Len(src) => e <= Len(src)) /\ step[e] = e
  BY <1>1, <1>2, LoopEnds
<1>4. p >= Len(src) => e = p
  <2>1. p >= Len(src) => step[p] = p
    BY <1>1 DEF Advances
  <2> QED
    BY <1>1, <1>2, <2>1, LoopEndIs
<1>5. SkipSplices(src, p) = e
  BY <1>2 DEF SkipSplices, step
<1>6. At(src, p) = [c |-> Byte(src, e), from |-> p, at |-> e,
                    next |-> IF e < Len(src) THEN e + 1 ELSE e]
  BY <1>5 DEF At, CharacterAt
<1>7. Byte(src, e) = End <=> e >= Len(src)
  BY ByteIs
<1> QED
  BY <1>0, <1>3, <1>4, <1>6, <1>7 DEF Reading

LEMMA ReadingIs ==
  ASSUME NEW src \in Texts, NEW x, Reading(src, x)
  PROVE  /\ x.from \in Nat /\ x.at \in Nat /\ x.next \in Nat
         /\ x.from <= x.at /\ x.at <= x.next
         /\ x.from <= Len(src) => x.next <= Len(src)
         /\ x.from >= Len(src) => x.at = x.from
         /\ x.c = End <=> x.at >= Len(src)
         /\ x.next = IF x.c = End THEN x.at ELSE x.at + 1
<1>1. PICK p \in Nat : p = x.from /\ x = At(src, p)
  BY DEF Reading
<1> QED
  BY <1>1, AtIs

LEMMA AfterIs ==
  ASSUME NEW src \in Texts, NEW x, Reading(src, x)
  PROVE  Reading(src, After(src, x)) /\ After(src, x).from = x.next
  BY ReadingIs, AtIs DEF After

(* A loop that goes forward from character to character, inside the text.  *)
LEMMA ReadingAdvances ==
  ASSUME NEW src \in Texts, NEW step \in [Nat -> Nat],
         \A q \in Nat : \/ step[q] = q
                        \/ /\ q < step[q] /\ q < Len(src) /\ step[q] <= Len(src)
  PROVE  Advances(step, Len(src))
<1>1. Len(src) \in Nat
  BY DEF Texts
<1>2. ASSUME NEW q \in Nat
      PROVE  q <= step[q] /\ (q <= Len(src) => step[q] <= Len(src))
             /\ (q >= Len(src) => step[q] = q)
  BY <1>1
<1> QED
  BY <1>1, <1>2 DEF Advances

LEMMA NthIs ==
  ASSUME NEW src \in Texts, NEW x, Reading(src, x), NEW n \in Nat
  PROVE  LET y == Nth(src, x, n)
         IN  /\ Reading(src, y) /\ x.from <= y.from
             /\ x.from <= Len(src) => y.from <= Len(src)
             /\ n > 0 => x.next <= y.from
<1> DEFINE step == [q \in Nat |-> At(src, q).next]
<1>0. Len(src) \in Nat
  BY DEF Texts
<1>1. \A q \in Nat : /\ At(src, q).next \in Nat
                     /\ step[q] = At(src, q).next
  BY AtIs
<1>2. step \in [Nat -> Nat]
  BY <1>1
<1>3. ASSUME NEW q \in Nat
      PROVE  step[q] = q \/ (q < step[q] /\ q < Len(src) /\ step[q] <= Len(src))
  <2> HIDE DEF step
  <2> QED
    BY <1>0, <1>1, AtIs
<1>4. x.from \in Nat /\ step[x.from] = x.next
  BY <1>1 DEF Reading
<1>5. Nth(src, x, n) = At(src, LoopAfter(step, x.from, n))
  BY DEF Nth
<1> HIDE DEF step
<1>6. Advances(step, Len(src))
  BY <1>2, <1>3, ReadingAdvances
<1>7. PICK e \in Nat : e = LoopAfter(step, x.from, n)
  BY <1>4, <1>6, LoopAfterBounds
<1>8. x.from <= e /\ (x.from <= Len(src) => e <= Len(src)) /\ (n > 0 => x.next <= e)
  BY <1>4, <1>6, <1>7, LoopAfterBounds
<1>9. Reading(src, At(src, e)) /\ At(src, e).from = e
  BY AtIs
<1> QED
  BY <1>5, <1>7, <1>8, <1>9

LEMMA SkipToIs ==
  ASSUME NEW src \in Texts, NEW x, Reading(src, x), NEW S
  PROVE  LET y == SkipTo(src, x, S)
         IN  /\ Reading(src, y) /\ x.from <= y.from
             /\ x.from <= Len(src) => y.from <= Len(src)
             /\ y.c \in S \cup {End}
<1> DEFINE step == [p \in Nat |-> IF At(src, p).c \in S \cup {End} THEN p
                                 ELSE At(src, p).next]
<1>0. Len(src) \in Nat
  BY DEF Texts
<1>1. \A q \in Nat : /\ At(src, q).next \in Nat
                     /\ step[q] = IF At(src, q).c \in S \cup {End} THEN q
                                  ELSE At(src, q).next
  BY AtIs
<1>2. step \in [Nat -> Nat]
  BY <1>1
<1>3. x.from \in Nat
  BY DEF Reading
<1>4. SkipTo(src, x, S) = At(src, LoopEnd(step, x.from))
  BY DEF SkipTo
<1> HIDE DEF step
<1>5. ASSUME NEW q \in Nat
      PROVE  /\ step[q] = q => At(src, q).c \in S \cup {End}
             /\ step[q] = q \/ (q < step[q] /\ q < Len(src) /\ step[q] <= Len(src))
  <2>1. LET y == At(src, q)
        IN  /\ y.at \in Nat /\ y.next \in Nat /\ q <= y.at
            /\ q <= Len(src) => y.next <= Len(src)
            /\ y.c = End <=> y.at >= Len(src)
            /\ y.next = IF y.c = End THEN y.at ELSE y.at + 1
    BY AtIs
  <2> QED
    BY <1>0, <1>1, <2>1
<1>6. Advances(step, Len(src))
  BY <1>2, <1>5, ReadingAdvances
<1>7. PICK e \in Nat : e = LoopEnd(step, x.from)
  BY <1>3, <1>6, LoopEnds
<1>8. x.from <= e /\ (x.from <= Len(src) => e <= Len(src)) /\ step[e] = e
  BY <1>3, <1>6, <1>7, LoopEnds
<1>9. Reading(src, At(src, e)) /\ At(src, e).from = e
  BY AtIs
<1> QED
  BY <1>4, <1>5, <1>7, <1>8, <1>9

-----------------------------------------------------------------------------
(* Lines                                                                   *)

LEMMA HalvesIs ==
  ASSUME NEW lo \in Nat, NEW hi \in Nat, lo < hi
  PROVE  LET mid == lo + (hi - lo) \div 2
         IN  mid \in Nat /\ lo <= mid /\ mid < hi
<1>1. PICK d \in Nat : d = hi - lo /\ d > 0
  OBVIOUS
<1>2. d \div 2 \in Nat /\ d \div 2 < d
  BY <1>1
<1> QED
  BY <1>1, <1>2

Rising(starts, n) ==
  /\ n \in Nat /\ n = Len(starts) /\ starts \in [1 .. n -> Nat]
  /\ \A i, j \in 1 .. n : i < j => starts[i] < starts[j]

(* The halves still to be searched: what is below them is not above offset,*)
(* and what is above them is.                                              *)
Searched(starts, n, offset, lo, hi) ==
  /\ lo \in 0 .. n /\ hi \in 0 .. n /\ lo <= hi
  /\ \A i \in 1 .. n : i <= lo => starts[i] <= offset
  /\ \A i \in 1 .. n : hi < i => offset < starts[i]

Halved(starts, n, offset, lo, hi, lo2, hi2) ==
  /\ Halve(starts, offset, lo, hi) = <<lo2, hi2>>
  /\ lo >= hi => lo2 = lo /\ hi2 = hi
  /\ lo < hi => hi2 - lo2 < hi - lo /\ lo2 <= hi2
  /\ Searched(starts, n, offset, lo, hi) => Searched(starts, n, offset, lo2, hi2)

LEMMA HalveSearches ==
  ASSUME NEW starts, NEW n, Rising(starts, n), NEW offset \in Nat,
         NEW lo \in 0 .. n, NEW hi \in 0 .. n
  PROVE  \E lo2, hi2 \in 0 .. n : Halved(starts, n, offset, lo, hi, lo2, hi2)
<1>1. /\ n \in Nat /\ \A i \in 1 .. n : starts[i] \in Nat
      /\ \A i, j \in 1 .. n : i < j => starts[i] < starts[j]
  BY DEF Rising
<1>2. CASE lo >= hi
  <2>1. Halve(starts, offset, lo, hi) = <<lo, hi>>
    BY <1>2 DEF Halve
  <2> QED
    BY <1>1, <1>2, <2>1 DEF Halved
<1>3. CASE lo < hi
  <2>1. PICK mid : mid = lo + (hi - lo) \div 2
    OBVIOUS
  <2>2. mid \in Nat /\ lo <= mid /\ mid < hi
    BY <1>1, <1>3, <2>1, HalvesIs
  <2>3. mid + 1 \in 1 .. n /\ mid \in 0 .. n /\ mid + 1 \in 0 .. n
    BY <1>1, <2>2
  <2>4. CASE starts[mid + 1] <= offset
    <3>1. Halve(starts, offset, lo, hi) = <<mid + 1, hi>>
      BY <1>3, <2>1, <2>4 DEF Halve
    <3>2. ASSUME Searched(starts, n, offset, lo, hi), NEW i \in 1 .. n, i <= mid + 1
          PROVE  starts[i] <= offset
      <4>1. i = mid + 1 \/ starts[i] < starts[mid + 1]
        BY <1>1, <2>2, <2>3, <3>2
      <4> QED
        BY <1>1, <2>3, <2>4, <4>1
    <3>3. Searched(starts, n, offset, lo, hi) => Searched(starts, n, offset, mid + 1, hi)
      BY <1>1, <2>2, <2>3, <3>2 DEF Searched
    <3>4. hi - (mid + 1) < hi - lo /\ hi >= mid + 1
      BY <1>1, <2>2
    <3> QED
      BY <1>1, <1>3, <2>3, <3>1, <3>3, <3>4 DEF Halved
  <2>5. CASE offset < starts[mid + 1]
    <3>1. Halve(starts, offset, lo, hi) = <<lo, mid>>
      BY <1>1, <1>3, <2>1, <2>3, <2>5 DEF Halve
    <3>2. ASSUME Searched(starts, n, offset, lo, hi), NEW i \in 1 .. n, mid < i
          PROVE  offset < starts[i]
      <4>1. i = mid + 1 \/ starts[mid + 1] < starts[i]
        BY <1>1, <2>2, <2>3, <3>2
      <4> QED
        BY <1>1, <2>3, <2>5, <4>1
    <3>3. Searched(starts, n, offset, lo, hi) => Searched(starts, n, offset, lo, mid)
      BY <1>1, <2>2, <2>3, <3>2 DEF Searched
    <3>4. mid - lo < hi - lo /\ mid >= lo
      BY <1>1, <2>2
    <3> QED
      BY <1>1, <1>3, <2>3, <3>1, <3>3, <3>4 DEF Halved
  <2> QED
    BY <1>1, <2>3, <2>4, <2>5
<1> QED
  BY <1>1, <1>2, <1>3

(* The search finds how many of the starts are not above offset.           *)
LEMMA UpperBoundIs ==
  ASSUME NEW starts, NEW n, Rising(starts, n), NEW offset \in Nat
  PROVE  LET r == UpperBound(starts, offset)
         IN  r \in 0 .. n /\ \A i \in 1 .. n : i <= r <=> starts[i] <= offset
<1> DEFINE D == (0 .. n) \X (0 .. n)
           step == [r \in D |-> Halve(starts, offset, r[1], r[2])]
           m == [r \in D |-> IF r[1] >= r[2] THEN 0 ELSE r[2] - r[1]]
           P == {r \in D : Searched(starts, n, offset, r[1], r[2])}
<1>1. n \in Nat /\ n = Len(starts) /\ \A i \in 1 .. n : starts[i] \in Nat
  BY DEF Rising
<1>2. ASSUME NEW r \in D
      PROVE  /\ step[r] \in D /\ m[r] \in 0 .. n
             /\ step[r] # r => m[step[r]] < m[r]
             /\ step[r] = r => r[1] >= r[2]
             /\ r \in P => step[r] \in P
  <2>1. PICK lo \in 0 .. n, hi \in 0 .. n : r = <<lo, hi>>
    OBVIOUS
  <2>a. PICK lo2 \in 0 .. n, hi2 \in 0 .. n : Halved(starts, n, offset, lo, hi, lo2, hi2)
    BY HalveSearches
  <2>2. /\ Halve(starts, offset, lo, hi) = <<lo2, hi2>>
        /\ lo >= hi => lo2 = lo /\ hi2 = hi
        /\ lo < hi => hi2 - lo2 < hi - lo /\ lo2 <= hi2
        /\ Searched(starts, n, offset, lo, hi) => Searched(starts, n, offset, lo2, hi2)
    BY <2>a DEF Halved
  <2>3. r[1] = lo /\ r[2] = hi
    BY <2>1
  <2>4. step[r] = <<lo2, hi2>>
    BY <2>2, <2>3
  <2>5. <<lo2, hi2>> \in D /\ <<lo2, hi2>>[1] = lo2 /\ <<lo2, hi2>>[2] = hi2
    BY <2>2
  <2>6. /\ m[r] = IF lo >= hi THEN 0 ELSE hi - lo
        /\ m[<<lo2, hi2>>] = IF lo2 >= hi2 THEN 0 ELSE hi2 - lo2
    BY <2>3, <2>5
  <2>7. r \in P => <<lo2, hi2>> \in P
    BY <2>2, <2>3, <2>5
  <2> HIDE DEF D, step, m, P
  <2> QED
    BY <1>1, <2>1, <2>2, <2>3, <2>4, <2>5, <2>6, <2>7
<1>3. step \in [D -> D] /\ m \in [D -> 0 .. n]
  <2>1. step = [r \in D |-> step[r]] /\ m = [r \in D |-> m[r]]
    OBVIOUS
  <2> HIDE DEF D, step, m, P
  <2> QED
    BY <1>2, <2>1
<1>4. P \subseteq D /\ <<0, n>> \in P
  <2>1. Searched(starts, n, offset, 0, n)
    BY <1>1 DEF Searched
  <2> QED
    BY <1>1, <2>1
<1>5. UpperBound(starts, offset) = LoopEnd(step, <<0, n>>)[1]
  BY <1>1 DEF UpperBound
<1>6. ASSUME NEW r \in P PROVE r \in D /\ Searched(starts, n, offset, r[1], r[2])
  OBVIOUS
<1> HIDE DEF D, step, m, P
<1>7. Descends(D, step, m, n)
  BY <1>1, <1>2, <1>3 DEF Descends
<1>8. PICK e : e = LoopEnd(step, <<0, n>>)
  OBVIOUS
<1>9. e \in P /\ step[e] = e
  BY <1>2, <1>4, <1>7, <1>8, LoopKeeps
<1>10. e[1] >= e[2] /\ Searched(starts, n, offset, e[1], e[2])
  BY <1>2, <1>6, <1>9
<1>11. PICK r : r = e[1]
  OBVIOUS
<1>12. /\ r \in 0 .. n
       /\ \A i \in 1 .. n : i <= r => starts[i] <= offset
       /\ \A i \in 1 .. n : r < i => offset < starts[i]
  <2>1. e[1] \in 0 .. n /\ e[2] \in 0 .. n /\ e[1] <= e[2] /\ e[1] >= e[2]
    BY <1>10 DEF Searched
  <2>2. e[2] = r
    BY <1>11, <2>1
  <2> QED
    BY <1>10, <1>11, <2>1, <2>2 DEF Searched
<1>13. \A i \in 1 .. n : i <= r <=> starts[i] <= offset
  BY <1>1, <1>12
<1> QED
  BY <1>5, <1>8, <1>11, <1>12, <1>13

LEMMA JoinIs ==
  ASSUME NEW w \in Seq(Nat), NEW s \in Seq(Nat)
  PROVE  /\ w \o s \in Seq(Nat) /\ Len(w \o s) = Len(w) + Len(s)
         /\ \A i \in 1 .. Len(w) + Len(s) :
              (w \o s)[i] = IF i <= Len(w) THEN w[i] ELSE s[i - Len(w)]
<1>1. w \o s \in Seq(Nat)
  OBVIOUS
<1>2. Len(w \o s) = Len(w) + Len(s)
  OBVIOUS
<1>3. ASSUME NEW i \in 1 .. Len(w) + Len(s)
      PROVE  (w \o s)[i] = IF i <= Len(w) THEN w[i] ELSE s[i - Len(w)]
  OBVIOUS
<1> QED
  BY <1>1, <1>2, <1>3

LEMMA ConsIs ==
  ASSUME NEW a \in Nat, NEW s \in Seq(Nat)
  PROVE  LET u == <<a>> \o s
         IN  /\ u \in Seq(Nat) /\ Len(u) = Len(s) + 1 /\ u[1] = a
             /\ \A i \in 1 .. Len(s) : u[i + 1] = s[i]
             /\ \A i \in 2 .. Len(s) + 1 : u[i] = s[i - 1]
<1>1. PICK w : w = <<a>>
  OBVIOUS
<1>2. w \in Seq(Nat) /\ Len(w) = 1 /\ w[1] = a
  BY <1>1
<1>3. PICK u : u = w \o s
  OBVIOUS
<1>4. /\ u \in Seq(Nat) /\ Len(u) = Len(w) + Len(s)
      /\ \A i \in 1 .. Len(w) + Len(s) :
           u[i] = IF i <= Len(w) THEN w[i] ELSE s[i - Len(w)]
  BY <1>2, <1>3, JoinIs
<1>5. Len(s) \in Nat /\ u \in Seq(Nat) /\ Len(u) = Len(s) + 1 /\ u[1] = a
  BY <1>2, <1>4
<1>6. ASSUME NEW i \in 2 .. Len(s) + 1
      PROVE  u[i] = s[i - 1]
  BY <1>2, <1>4, <1>5
<1>7. ASSUME NEW i \in 1 .. Len(s)
      PROVE  u[i + 1] = s[i]
  <2>1. i + 1 \in 2 .. Len(s) + 1 /\ (i + 1) - 1 = i
    BY <1>5
  <2> QED
    BY <1>6, <2>1
<1> QED
  BY <1>1, <1>3, <1>5, <1>6, <1>7

(* The starts in s are those of the lines after q.                         *)
LinesAfter(src, q, s) ==
  /\ s \in Seq(Nat)
  /\ \A i, j \in 1 .. Len(s) : i < j => s[i] < s[j]
  /\ \A i \in 1 .. Len(s) : q < s[i] /\ s[i] <= Len(src) /\ src[s[i]] = "\n"
  /\ \A v \in Nat : q < v /\ v <= Len(src) /\ src[v] = "\n" =>
       \E i \in 1 .. Len(s) : s[i] = v

LEMMA LinesTurn ==
  ASSUME NEW src \in Texts, NEW q \in Nat, q < Len(src),
         NEW s, LinesAfter(src, q + 1, s)
  PROVE  LinesAfter(src, q, IF src[q + 1] = "\n" THEN <<q + 1>> \o s ELSE s)
<1>0. Len(src) \in Nat
  BY DEF Texts
<1>1. PICK n \in Nat : n = Len(s)
  BY DEF LinesAfter
<1>2. /\ s \in Seq(Nat)
      /\ \A i \in 1 .. n : s[i] \in Nat
      /\ \A i, j \in 1 .. n : i < j => s[i] < s[j]
      /\ \A i \in 1 .. n : q + 1 < s[i] /\ s[i] <= Len(src) /\ src[s[i]] = "\n"
      /\ \A v \in Nat : q + 1 < v /\ v <= Len(src) /\ src[v] = "\n" =>
           \E i \in 1 .. n : s[i] = v
  BY <1>1 DEF LinesAfter
<1>3. CASE src[q + 1] # "\n"
  <2>1. ASSUME NEW v \in Nat, q < v, v <= Len(src), src[v] = "\n"
        PROVE  \E i \in 1 .. n : s[i] = v
    <3>1. v # q + 1
      BY <1>3, <2>1
    <3> QED
      BY <1>2, <2>1, <3>1
  <2>2. \A i \in 1 .. n : q < s[i]
    BY <1>2
  <2> QED
    BY <1>1, <1>2, <1>3, <2>1, <2>2 DEF LinesAfter
<1>4. CASE src[q + 1] = "\n"
  <2>1. PICK u : u = <<q + 1>> \o s
    OBVIOUS
  <2>2. /\ u \in Seq(Nat) /\ Len(u) = n + 1 /\ u[1] = q + 1
        /\ \A i \in 1 .. n : u[i + 1] = s[i]
        /\ \A i \in 2 .. n + 1 : u[i] = s[i - 1]
    <3>1. q + 1 \in Nat
      OBVIOUS
    <3> QED
      BY <1>1, <1>2, <2>1, <3>1, ConsIs
  <2>3. ASSUME NEW i \in 1 .. n + 1, NEW j \in 1 .. n + 1, i < j
        PROVE  u[i] < u[j]
    <3>1. j \in 2 .. n + 1 /\ j - 1 \in 1 .. n /\ u[j] = s[j - 1]
      BY <2>2, <2>3
    <3>2. CASE i = 1
      BY <1>2, <2>2, <3>1, <3>2
    <3>3. CASE i # 1
      <4>0. i \in 2 .. n + 1
        BY <2>3, <3>3
      <4>1. i - 1 \in 1 .. n /\ u[i] = s[i - 1] /\ i - 1 < j - 1
        BY <2>2, <2>3, <4>0
      <4> QED
        BY <1>2, <3>1, <4>1
    <3> QED
      BY <3>2, <3>3
  <2>4. ASSUME NEW i \in 1 .. n + 1
        PROVE  q < u[i] /\ u[i] <= Len(src) /\ src[u[i]] = "\n"
    <3>1. CASE i = 1
      BY <1>0, <1>4, <2>2, <3>1
    <3>2. CASE i # 1
      <4>1. i - 1 \in 1 .. n /\ u[i] = s[i - 1]
        BY <2>2, <3>2
      <4>2. s[i - 1] \in Nat /\ q + 1 < s[i - 1] /\ s[i - 1] <= Len(src)
            /\ src[s[i - 1]] = "\n"
        BY <1>2, <4>1
      <4> QED
        BY <4>1, <4>2
    <3> QED
      BY <3>1, <3>2
  <2>5. ASSUME NEW v \in Nat, q < v, v <= Len(src), src[v] = "\n"
        PROVE  \E i \in 1 .. n + 1 : u[i] = v
    <3>1. CASE v = q + 1
      BY <2>2, <3>1
    <3>2. CASE v # q + 1
      <4>1. PICK i \in 1 .. n : s[i] = v
        BY <1>2, <2>5, <3>2
      <4>2. i + 1 \in 1 .. n + 1
        OBVIOUS
      <4> QED
        BY <2>2, <4>1, <4>2
    <3> QED
      BY <3>1, <3>2
  <2>6. LinesAfter(src, q, u)
    BY <2>2, <2>3, <2>4, <2>5 DEF LinesAfter
  <2> QED
    BY <1>4, <2>1, <2>6
<1> QED
  BY <1>3, <1>4

LEMMA LinesFound ==
  ASSUME NEW src \in Texts
  PROVE  LinesAfter(src, 0, LoopFound(NextByte(src), LineAfter(src), 0))
<1> DEFINE step == NextByte(src)
           found == LineAfter(src)
           P == {q \in Nat : LinesAfter(src, q, LoopFound(step, found, q))}
<1>0. Len(src) \in Nat
  BY DEF Texts
<1>1. \A q \in Nat : step[q] = IF q < Len(src) THEN q + 1 ELSE q
  BY DEF NextByte
<1>2. \A q \in Nat : found[q] = IF Byte(src, q) = "\n" THEN <<q + 1>> ELSE <<>>
  BY DEF LineAfter
<1>3. step \in [Nat -> Nat]
  BY DEF NextByte
<1>4. found \in [Nat -> Seq(Nat)]
  <2>1. \A q \in Nat : <<q + 1>> \in Seq(Nat)
    OBVIOUS
  <2>2. <<>> \in Seq(Nat)
    OBVIOUS
  <2>3. \A q \in Nat : found[q] \in Seq(Nat)
    BY <1>2, <2>1, <2>2
  <2>4. found = [q \in Nat |-> found[q]]
    BY DEF LineAfter
  <2> HIDE DEF found
  <2> QED
    BY <2>3, <2>4
<1> HIDE DEF step, found
<1>5. Advances(step, Len(src))
  <2>1. ASSUME NEW q \in Nat
        PROVE  /\ q <= step[q] /\ (q <= Len(src) => step[q] <= Len(src))
               /\ (q >= Len(src) => step[q] = q)
    <3>1. step[q] = IF q < Len(src) THEN q + 1 ELSE q
      BY <1>1
    <3> QED
      BY ONLY q \in Nat, <1>0, <3>1
  <2> QED
    BY <1>0, <1>3, <2>1 DEF Advances
<1>6. \A q \in Nat : LoopFound(step, found, q)
                       = IF step[q] = q THEN <<>> ELSE found[q] \o LoopFound(step, found, step[q])
  <2> TAKE q \in Nat
  <2> QED
    BY ONLY <1>0, <1>4, <1>5, LoopFoundIs
<1>7. ASSUME NEW q \in Nat, step[q] = q PROVE q \in P
  <2>1. LoopFound(step, found, q) = <<>> /\ q >= Len(src)
    <3>1. LoopFound(step, found, q) = <<>>
      BY <1>6, <1>7
    <3>2. ~(q < Len(src))
      BY <1>0, <1>1, <1>7
    <3> QED
      BY <1>0, <3>1, <3>2
  <2>2. <<>> \in Seq(Nat)
    OBVIOUS
  <2>3. LinesAfter(src, q, <<>>)
    BY <1>0, <2>1, <2>2 DEF LinesAfter
  <2> QED
    BY <2>1, <2>3
<1>8. ASSUME NEW q \in Nat, step[q] # q, step[q] \in P PROVE q \in P
  <2>1. q < Len(src) /\ step[q] = q + 1
    BY <1>1, <1>8
  <2>2. PICK s : s = LoopFound(step, found, q + 1)
    OBVIOUS
  <2>3. LinesAfter(src, q + 1, s)
    BY <1>8, <2>1, <2>2
  <2>4. Byte(src, q) = src[q + 1]
    BY <2>1 DEF Byte
  <2>5. LoopFound(step, found, q) = IF src[q + 1] = "\n" THEN <<q + 1>> \o s ELSE s
    <3>1. LoopFound(step, found, q) = found[q] \o s
      BY <1>6, <1>8, <2>1, <2>2
    <3>2. s \in Seq(Nat)
      BY <2>3 DEF LinesAfter
    <3>3. <<>> \o s = s
      BY <3>2
    <3> QED
      BY <1>2, <2>4, <3>1, <3>3
  <2>6. LinesAfter(src, q, LoopFound(step, found, q))
    BY <2>1, <2>3, <2>5, LinesTurn
  <2> QED
    BY <2>6
<1>9. 0 \in P
  <2> HIDE DEF P
  <2> QED
    BY <1>5, <1>7, <1>8, LoopInduction
<1> QED
  BY <1>9 DEF step, found

(* The index: the first line begins at 0, the others after the newlines.   *)
LEMMA LineStartsIs ==
  ASSUME NEW src \in Texts
  PROVE  LET starts == LineStarts(src)
         IN  \E n \in Nat \ {0} :
               /\ Rising(starts, n) /\ starts[1] = 0
               /\ \A i \in 2 .. n : starts[i] > 0 /\ starts[i] <= Len(src)
                                    /\ src[starts[i]] = "\n"
               /\ \A v \in Nat : 0 < v /\ v <= Len(src) /\ src[v] = "\n" =>
                    \E i \in 2 .. n : starts[i] = v
<1>1. PICK s : s = LoopFound(NextByte(src), LineAfter(src), 0)
  OBVIOUS
<1>2. LinesAfter(src, 0, s)
  BY <1>1, LinesFound
<1>3. PICK k \in Nat : k = Len(s)
  BY <1>2 DEF LinesAfter
<1>4. /\ s \in Seq(Nat)
      /\ \A i \in 1 .. k : s[i] \in Nat
      /\ \A i, j \in 1 .. k : i < j => s[i] < s[j]
      /\ \A i \in 1 .. k : 0 < s[i] /\ s[i] <= Len(src) /\ src[s[i]] = "\n"
      /\ \A v \in Nat : 0 < v /\ v <= Len(src) /\ src[v] = "\n" =>
           \E i \in 1 .. k : s[i] = v
  BY <1>2, <1>3 DEF LinesAfter
<1>5. PICK u : u = LineStarts(src)
  OBVIOUS
<1>6. /\ u \in Seq(Nat) /\ Len(u) = k + 1 /\ u[1] = 0
      /\ \A i \in 1 .. k : u[i + 1] = s[i]
      /\ \A i \in 2 .. k + 1 : u[i] = s[i - 1]
  <2>1. u = <<0>> \o s
    BY <1>1, <1>5 DEF LineStarts
  <2> QED
    BY <1>3, <1>4, <2>1, ConsIs
<1>7. ASSUME NEW i \in 1 .. k + 1, NEW j \in 1 .. k + 1, i < j
      PROVE  u[i] < u[j]
  <2>1. j \in 2 .. k + 1 /\ j - 1 \in 1 .. k /\ u[j] = s[j - 1]
    BY <1>6, <1>7
  <2>2. CASE i = 1
    BY <1>4, <1>6, <2>1, <2>2
  <2>3. CASE i # 1
    <3>0. i \in 2 .. k + 1
      BY <1>7, <2>3
    <3>1. i - 1 \in 1 .. k /\ i - 1 < j - 1
      BY <1>7, <2>1, <3>0
    <3>2. u[i] = s[i - 1]
      BY <1>6, <3>0
    <3> QED
      BY <1>4, <2>1, <3>1, <3>2
  <2> QED
    BY <2>2, <2>3
<1>8. Rising(u, k + 1)
  BY <1>6, <1>7 DEF Rising
<1>9. \A i \in 2 .. k + 1 : u[i] > 0 /\ u[i] <= Len(src) /\ src[u[i]] = "\n"
  <2> TAKE i \in 2 .. k + 1
  <2>1. i - 1 \in 1 .. k /\ u[i] = s[i - 1]
    BY <1>6
  <2> QED
    BY <1>4, <2>1
<1>10. ASSUME NEW v \in Nat, 0 < v, v <= Len(src), src[v] = "\n"
       PROVE  \E i \in 2 .. k + 1 : u[i] = v
  <2>1. PICK i \in 1 .. k : s[i] = v
    BY <1>4, <1>10
  <2>2. i + 1 \in 2 .. k + 1
    OBVIOUS
  <2> QED
    BY <1>6, <2>1, <2>2
<1>11. k + 1 \in Nat \ {0}
  OBVIOUS
<1> QED
  BY <1>5, <1>6, <1>8, <1>9, <1>10, <1>11

Newlines(src, offset) == {v \in 1 .. offset : src[v] = "\n"}

(* The line of an offset is one more than the newlines before it, and its  *)
(* column counts from the last of them.                                    *)
LEMMA LocationIs ==
  ASSUME NEW src \in Texts, NEW offset \in Nat, offset <= Len(src)
  PROVE  LET place == Location(src, offset)
         IN  /\ place.line = 1 + Cardinality(Newlines(src, offset))
             /\ place.column \in Nat \ {0}
             /\ LET start == offset + 1 - place.column
                IN  /\ start \in Nat /\ (start = 0 \/ src[start] = "\n")
                    /\ \A v \in start + 1 .. offset : src[v] # "\n"
<1>0. Len(src) \in Nat
  BY DEF Texts
<1>1. PICK u : u = LineStarts(src)
  OBVIOUS
<1>2. PICK n \in Nat \ {0} :
        /\ Rising(u, n) /\ u[1] = 0
        /\ \A i \in 2 .. n : u[i] > 0 /\ u[i] <= Len(src) /\ src[u[i]] = "\n"
        /\ \A v \in Nat : 0 < v /\ v <= Len(src) /\ src[v] = "\n" =>
             \E i \in 2 .. n : u[i] = v
  BY <1>1, LineStartsIs
<1>3. /\ \A i \in 1 .. n : u[i] \in Nat
      /\ \A i, j \in 1 .. n : i < j => u[i] < u[j]
  BY <1>2 DEF Rising
<1>4. PICK r : r = UpperBound(u, offset)
  OBVIOUS
<1>5. r \in 0 .. n /\ \A i \in 1 .. n : i <= r <=> u[i] <= offset
  BY <1>2, <1>4, UpperBoundIs
<1>6. r >= 1 /\ r \in 1 .. n
  <2>1. 1 \in 1 .. n /\ u[1] <= offset
    BY <1>2
  <2> QED
    BY <1>5, <2>1
<1>7. PICK place : place = Location(src, offset)
  OBVIOUS
<1>8. place.line = r /\ place.column = offset - u[r] + 1
  BY <1>0, <1>1, <1>4, <1>7 DEF Location, LocationIn, Located
<1>9. u[r] \in Nat /\ u[r] <= offset
  BY <1>3, <1>5, <1>6
<1>10. Cardinality(Newlines(src, offset)) = r - 1
  <2> DEFINE f == [i \in 1 .. r - 1 |-> u[i + 1]]
  <2>1. PICK N : N = Newlines(src, offset)
    OBVIOUS
  <2>2. ASSUME NEW i \in 1 .. r - 1
        PROVE  i + 1 \in 2 .. n /\ i + 1 \in 1 .. n /\ u[i + 1] \in N /\ f[i] = u[i + 1]
    <3>1. i + 1 \in 2 .. n /\ i + 1 \in 1 .. n /\ i + 1 <= r
      BY <1>6
    <3>2. u[i + 1] \in Nat /\ u[i + 1] > 0 /\ u[i + 1] <= offset /\ src[u[i + 1]] = "\n"
      BY <1>2, <1>3, <1>5, <3>1
    <3> QED
      BY <2>1, <3>1, <3>2 DEF Newlines
  <2>3. ASSUME NEW i \in 1 .. r - 1, NEW j \in 1 .. r - 1, f[i] = f[j]
        PROVE  i = j
    <3>1. i + 1 \in 1 .. n /\ j + 1 \in 1 .. n /\ u[i + 1] = u[j + 1]
      BY <2>2, <2>3
    <3>2. ~(i + 1 < j + 1) /\ ~(j + 1 < i + 1)
      BY <1>3, <3>1
    <3> QED
      BY <1>6, <3>2
  <2>4. ASSUME NEW v \in N PROVE \E i \in 1 .. r - 1 : f[i] = v
    <3>1. v \in Nat /\ 0 < v /\ v <= offset /\ src[v] = "\n"
      BY <2>1 DEF Newlines
    <3>2. PICK k \in 2 .. n : u[k] = v
      BY <1>0, <1>2, <3>1
    <3>3. k <= r
      BY <1>5, <3>1, <3>2
    <3>4. k - 1 \in 1 .. r - 1 /\ k - 1 + 1 = k
      BY <1>6, <3>3
    <3> QED
      BY <2>2, <3>2, <3>4
  <2>5. f \in [1 .. r - 1 -> N]
    BY <2>2
  <2> HIDE DEF f
  <2>6. f \in Bijection(1 .. r - 1, N)
    <3>1. f \in Injection(1 .. r - 1, N)
      BY <2>3, <2>5 DEF Injection, IsInjective
    <3>2. f \in Surjection(1 .. r - 1, N)
      BY <2>4, <2>5 DEF Surjection
    <3> QED
      BY <3>1, <3>2 DEF Bijection
  <2>7. ExistsBijection(1 .. r - 1, N) /\ r - 1 \in Nat
    BY <1>6, <2>6 DEF ExistsBijection
  <2> QED
    BY <2>1, <2>7, FS_CountingElements
<1>11. offset + 1 - place.column = u[r]
  BY <1>8, <1>9
<1>12. u[r] = 0 \/ src[u[r]] = "\n"
  <2>1. r = 1 \/ r \in 2 .. n
    BY <1>6
  <2> QED
    BY <1>2, <2>1
<1>13. ASSUME NEW v \in u[r] + 1 .. offset PROVE src[v] # "\n"
  <2> SUFFICES ASSUME src[v] = "\n" PROVE FALSE
    OBVIOUS
  <2>1. v \in Nat /\ 0 < v /\ u[r] < v /\ v <= offset
    BY <1>9
  <2>2. PICK k \in 2 .. n : u[k] = v
    BY <1>0, <1>2, <2>1
  <2>3. k \in 1 .. n /\ k <= r
    BY <1>5, <2>1, <2>2
  <2>4. k # r => u[k] < u[r]
    BY <1>3, <1>6, <2>3
  <2> QED
    BY <1>3, <1>6, <2>1, <2>2, <2>3, <2>4
<1>14. place.column \in Nat \ {0} /\ place.line = 1 + (r - 1)
  BY <1>6, <1>8, <1>9
<1> QED
  BY <1>7, <1>9, <1>10, <1>11, <1>12, <1>13, <1>14

-----------------------------------------------------------------------------
(* The scanners                                                            *)

(* The readings in Y follow the character x.                               *)
Follow(src, x, Y) ==
  \A y \in Y : /\ Reading(src, y) /\ x.next <= y.from
               /\ x.from <= Len(src) => y.from <= Len(src)
               /\ x.c = End => y.from = x.next

LEMMA AfterFollows ==
  ASSUME NEW src \in Texts, NEW x, Reading(src, x)
  PROVE  Follow(src, x, {After(src, x)})
<1>1. PICK y : y = After(src, x)
  OBVIOUS
<1>2. Reading(src, y) /\ y.from = x.next
  BY <1>1, AfterIs
<1>3. x.next \in Nat /\ (x.from <= Len(src) => x.next <= Len(src))
  BY ReadingIs
<1> QED
  BY <1>1, <1>2, <1>3 DEF Follow

LEMMA PastUcnFollows ==
  ASSUME NEW src \in Texts, NEW x, Reading(src, x)
  PROVE  Follow(src, x, PastUcn(src, x))
<1> SUFFICES ASSUME NEW y \in PastUcn(src, x)
             PROVE  /\ Reading(src, y) /\ x.next <= y.from
                    /\ x.from <= Len(src) => y.from <= Len(src)
                    /\ x.c = End => y.from = x.next
  BY DEF Follow
<1>0. Len(src) \in Nat
  BY DEF Texts
<1>1. PICK u : u = After(src, x)
  OBVIOUS
<1>2. PICK v : v = After(src, u)
  OBVIOUS
<1>3. Reading(src, u) /\ u.from = x.next
  BY <1>1, AfterIs
<1>4. Reading(src, v) /\ v.from = u.next
  BY <1>2, <1>3, AfterIs
<1>5. x.c # End /\ \E count \in {4, 8} : y = Nth(src, v, count)
  BY <1>1, <1>2 DEF PastUcn, AfterUcn, HexEnd, End
<1>6. Reading(src, y) /\ v.from <= y.from /\ (v.from <= Len(src) => y.from <= Len(src))
  <2>1. PICK count \in {4, 8} : y = Nth(src, v, count)
    BY <1>5
  <2>2. count \in Nat
    BY <2>1
  <2> QED
    BY <1>4, <2>1, <2>2, NthIs
<1>7. /\ x.next \in Nat /\ (x.from <= Len(src) => x.next <= Len(src))
      /\ u.from \in Nat /\ u.next \in Nat /\ u.from <= u.next
      /\ (u.from <= Len(src) => u.next <= Len(src))
  <2>1. x.next \in Nat /\ (x.from <= Len(src) => x.next <= Len(src))
    BY ReadingIs
  <2>2. /\ u.from \in Nat /\ u.next \in Nat /\ u.at \in Nat
        /\ u.from <= u.at /\ u.at <= u.next
        /\ (u.from <= Len(src) => u.next <= Len(src))
    BY <1>3, ReadingIs
  <2> QED
    BY <2>1, <2>2
<1>8. y.from \in Nat /\ x.from \in Nat
  BY <1>6 DEF Reading
<1> QED
  BY <1>0, <1>3, <1>4, <1>5, <1>6, <1>7, <1>8

LEMMA InIdentifierFollows ==
  ASSUME NEW src \in Texts, NEW x, Reading(src, x)
  PROVE  Follow(src, x, InIdentifier(src, x))
  BY AfterFollows, PastUcnFollows DEF InIdentifier

LEMMA InNumberFollows ==
  ASSUME NEW src \in Texts, NEW x, Reading(src, x)
  PROVE  Follow(src, x, InNumber(src, x))
<1>0. Len(src) \in Nat
  BY DEF Texts
<1>1. CASE x.c \in {"e", "E", "p", "P"}
  <2>1. InNumber(src, x) = {AfterSign(src, After(src, x))}
    BY <1>1 DEF InNumber
  <2>2. PICK u : u = After(src, x)
    OBVIOUS
  <2>3. Reading(src, u) /\ u.from = x.next
    BY <2>2, AfterIs
  <2>4. PICK y : y = AfterSign(src, u)
    OBVIOUS
  <2>5. y = u \/ y = After(src, u)
    BY <2>4 DEF AfterSign
  <2>6. Reading(src, y) /\ (y.from = u.from \/ y.from = u.next)
    BY <2>3, <2>5, AfterIs
  <2>7. /\ x.next \in Nat /\ (x.from <= Len(src) => x.next <= Len(src))
        /\ u.next \in Nat /\ u.from <= u.at /\ u.at <= u.next /\ u.at \in Nat
        /\ (u.from <= Len(src) => u.next <= Len(src))
    BY <2>3, ReadingIs
  <2>8. x.c # End
    BY <1>1 DEF End
  <2> QED
    BY <1>0, <2>1, <2>2, <2>3, <2>4, <2>6, <2>7, <2>8 DEF Follow
<1>2. CASE x.c \notin {"e", "E", "p", "P"}
  <2>1. InNumber(src, x) \in {{After(src, x)}, PastUcn(src, x)}
    BY <1>2 DEF InNumber
  <2> QED
    BY <2>1, AfterFollows, PastUcnFollows
<1> QED
  BY <1>1, <1>2

(* The end of a word, whatever it is made of.                              *)
LEMMA WordEnds ==
  ASSUME NEW src \in Texts, NEW x, Reading(src, x), NEW Y, NEW step,
         \A p \in Nat : Follow(src, At(src, p), Y[p]),
         step = [p \in Nat |-> IF Y[p] = {} THEN p ELSE The(Y[p]).from]
  PROVE  LET y == At(src, LoopEnd(step, x.from))
         IN  /\ Reading(src, y) /\ x.from <= y.from
             /\ x.from <= Len(src) => y.from <= Len(src)
<1>0. Len(src) \in Nat
  BY DEF Texts
<1>1. ASSUME NEW q \in Nat
      PROVE  /\ step[q] = IF Y[q] = {} THEN q ELSE The(Y[q]).from
             /\ step[q] \in Nat
             /\ step[q] = q \/ (q < step[q] /\ q < Len(src) /\ step[q] <= Len(src))
  <2>1. step[q] = IF Y[q] = {} THEN q ELSE The(Y[q]).from
    OBVIOUS
  <2>2. CASE Y[q] = {}
    BY <2>1, <2>2
  <2>3. CASE Y[q] # {}
    <3>1. PICK y \in Y[q] : y = The(Y[q])
      BY <2>3 DEF The
    <3>2. PICK u : u = At(src, q)
      OBVIOUS
    <3>3. /\ Reading(src, y) /\ u.next <= y.from
          /\ u.from <= Len(src) => y.from <= Len(src)
          /\ u.c = End => y.from = u.next
      BY <3>2 DEF Follow
    <3>4. /\ u.from = q /\ u.at \in Nat /\ u.next \in Nat /\ q <= u.at
          /\ (q <= Len(src) => u.next <= Len(src))
          /\ (q >= Len(src) => u.at = q)
          /\ (u.c = End <=> u.at >= Len(src))
          /\ u.next = IF u.c = End THEN u.at ELSE u.at + 1
      BY <3>2, AtIs
    <3>5. y.from \in Nat
      BY <3>3 DEF Reading
    <3>6. step[q] = y.from
      BY <2>1, <2>3, <3>1
    <3> QED
      BY <1>0, <3>3, <3>4, <3>5, <3>6
  <2> QED
    BY <2>1, <2>2, <2>3
<1>2. step \in [Nat -> Nat]
  <2>1. step = [q \in Nat |-> step[q]]
    OBVIOUS
  <2> QED
    BY <1>1, <2>1
<1>3. x.from \in Nat
  BY DEF Reading
<1>4. Advances(step, Len(src))
  BY ONLY <1>1, <1>2, src \in Texts, ReadingAdvances
<1>5. PICK e \in Nat : e = LoopEnd(step, x.from)
  BY <1>3, <1>4, LoopEnds
<1>6. x.from <= e /\ (x.from <= Len(src) => e <= Len(src))
  BY <1>3, <1>4, <1>5, LoopEnds
<1>7. Reading(src, At(src, e)) /\ At(src, e).from = e
  BY AtIs
<1> QED
  BY <1>5, <1>6, <1>7

LEMMA IdentifierEndIs ==
  ASSUME NEW src \in Texts, NEW x, Reading(src, x)
  PROVE  LET y == IdentifierEnd(src, x)
         IN  /\ Reading(src, y) /\ x.from <= y.from
             /\ x.from <= Len(src) => y.from <= Len(src)
<1> DEFINE Y == [p \in Nat |-> InIdentifier(src, At(src, p))]
           step == [p \in Nat |-> IF Y[p] = {} THEN p ELSE The(Y[p]).from]
<1>1. \A p \in Nat : Follow(src, At(src, p), Y[p])
  BY AtIs, InIdentifierFollows
<1>2. step = WordTurn(src, InIdentifier)
  BY DEF WordTurn
<1>3. IdentifierEnd(src, x) = At(src, LoopEnd(step, x.from))
  BY <1>2 DEF IdentifierEnd
<1> HIDE DEF Y
<1> QED
  BY <1>1, <1>3, WordEnds

LEMMA NumberEndIs ==
  ASSUME NEW src \in Texts, NEW x, Reading(src, x)
  PROVE  LET y == NumberEnd(src, x)
         IN  /\ Reading(src, y) /\ x.from <= y.from
             /\ x.from <= Len(src) => y.from <= Len(src)
<1> DEFINE Y == [p \in Nat |-> InNumber(src, At(src, p))]
           step == [p \in Nat |-> IF Y[p] = {} THEN p ELSE The(Y[p]).from]
<1>1. \A p \in Nat : Follow(src, At(src, p), Y[p])
  BY AtIs, InNumberFollows
<1>2. step = WordTurn(src, InNumber)
  BY DEF WordTurn
<1>3. NumberEnd(src, x) = At(src, LoopEnd(step, x.from))
  BY <1>2 DEF NumberEnd
<1> HIDE DEF Y
<1> QED
  BY <1>1, <1>3, WordEnds

Complaints0 == {"trigraph", "unterminated", "stray", "comment"}

(* What is reported is at a character of the text.                         *)
Reports0(src) == [what : Complaints0, offset : {p \in Nat : p < Len(src)}]

(* A token that begins at start has at least one byte, ends in the text,   *)
(* and is neither a newline nor the end of the text.                       *)
Cuts(src, start, v) ==
  /\ v.end \in Nat /\ start < v.end /\ v.end <= Len(src)
  /\ v.kind \notin {"newline", "eof"}
  /\ v.problems \in Seq(Reports0(src))

LEMMA VerdictCuts ==
  ASSUME NEW src \in Texts, NEW start \in Nat, NEW end \in Nat,
         start < end, end <= Len(src), NEW problems0 \in Seq(Reports0(src)),
         NEW kind, kind \notin {"newline", "eof"}, NEW punct
  PROVE  Cuts(src, start, Verdict(kind, punct, end, problems0))
  BY DEF Cuts, Verdict

LEMMA ProblemIs ==
  ASSUME NEW src, NEW what \in Complaints0, NEW offset \in Nat, offset < Len(src)
  PROVE  Problem(what, offset) \in Reports0(src)
  BY DEF Problem, Reports0

LEMMA TrigraphIs ==
  ASSUME NEW src \in Texts, NEW x, Reading(src, x)
  PROVE  TrigraphAt(src, x) \in Seq(Reports0(src))
<1>0. Len(src) \in Nat
  BY DEF Texts
<1>1. <<>> \in Seq(Reports0(src))
  OBVIOUS
<1>2. CASE x.c # "?"
  BY <1>1, <1>2 DEF TrigraphAt
<1>3. CASE x.c = "?"
  <2>1. x.at \in Nat /\ (x.c = End <=> x.at >= Len(src))
    BY ReadingIs
  <2>2. x.c # End
    BY <1>3 DEF End
  <2>3. x.at < Len(src)
    BY <1>0, <2>1, <2>2
  <2>4. PICK what \in Complaints0 : what = "trigraph"
    BY DEF Complaints0
  <2>5. PICK r \in Reports0(src) : r = Problem(what, x.at)
    BY <2>1, <2>3, ProblemIs
  <2>6. TrigraphAt(src, x) = <<r>> \/ TrigraphAt(src, x) = <<>>
    BY <2>4, <2>5 DEF TrigraphAt
  <2>7. <<r>> \in Seq(Reports0(src))
    OBVIOUS
  <2> QED
    BY <1>1, <2>6, <2>7
<1> QED
  BY <1>2, <1>3

LEMMA UnterminatedIs ==
  ASSUME NEW src, NEW body, body.problems \in Seq(Reports0(src)),
         NEW start \in Nat, start < Len(src)
  PROVE  Unterminated(body, start) \in Seq(Reports0(src))
<1>1. PICK what \in Complaints0 : what = "unterminated"
  BY DEF Complaints0
<1>2. PICK r \in Reports0(src) : r = Problem(what, start)
  BY ProblemIs
<1>3. PICK tail : tail = IF body.closed THEN <<>> ELSE <<r>>
  OBVIOUS
<1>4. <<r>> \in Seq(Reports0(src))
  OBVIOUS
<1>5. <<>> \in Seq(Reports0(src))
  OBVIOUS
<1>6. tail \in Seq(Reports0(src))
  BY <1>3, <1>4, <1>5
<1>7. Unterminated(body, start) = body.problems \o tail
  BY <1>1, <1>2, <1>3 DEF Unterminated
<1> QED
  BY <1>6, <1>7

Quotes0 == {"'", "\""}

LEMMA LiteralTurnAdvances ==
  ASSUME NEW src \in Texts, NEW quote \in Quotes0
  PROVE  Advances(LiteralTurn(src, quote), Len(src))
<1> DEFINE step == LiteralTurn(src, quote)
<1>0. Len(src) \in Nat
  BY DEF Texts
<1>1. ASSUME NEW q \in Nat
      PROVE  /\ step[q] \in Nat
             /\ step[q] = q \/ (q < step[q] /\ q < Len(src) /\ step[q] <= Len(src))
  <2>1. PICK x : x = At(src, q)
    OBVIOUS
  <2>2. PICK y : y = After(src, x)
    OBVIOUS
  <2>3. step[q] = CASE x.c \in {End, "\n", quote} -> q
                    [] x.c = "\\" -> y.next
                    [] OTHER -> x.next
    BY <2>1, <2>2 DEF LiteralTurn
  <2>4. /\ x.from = q /\ x.at \in Nat /\ x.next \in Nat /\ q <= x.at
        /\ (q <= Len(src) => x.next <= Len(src))
        /\ (q >= Len(src) => x.at = q)
        /\ (x.c = End <=> x.at >= Len(src))
        /\ x.next = IF x.c = End THEN x.at ELSE x.at + 1
    BY <2>1, AtIs
  <2>5. /\ y.from = x.next /\ y.next \in Nat /\ y.from <= y.next
        /\ (y.from <= Len(src) => y.next <= Len(src))
    <3>1. Reading(src, x)
      BY <2>1, AtIs
    <3>2. Reading(src, y) /\ y.from = x.next
      BY <2>2, <3>1, AfterIs
    <3> QED
      BY <3>2, ReadingIs
  <2>6. CASE x.c \in {End, "\n", quote}
    <3>1. x.c # "\\"
      BY <2>6 DEF End, Quotes0
    <3> QED
      BY <2>3, <2>6, <3>1
  <2>7. CASE x.c = "\\"
    <3>1. x.c \notin {End, "\n", quote}
      BY <2>7 DEF End, Quotes0
    <3>2. step[q] = y.next
      BY <2>3, <2>7, <3>1
    <3> HIDE DEF step
    <3> QED
      BY <1>0, <2>4, <2>5, <3>1, <3>2
  <2>8. CASE x.c \notin {End, "\n", quote} /\ x.c # "\\"
    <3>1. step[q] = x.next
      BY <2>3, <2>8
    <3> HIDE DEF step
    <3> QED
      BY <1>0, <2>4, <2>8, <3>1
  <2> QED
    BY <2>6, <2>7, <2>8
<1>2. step \in [Nat -> Nat]
  <2>1. step = [q \in Nat |-> step[q]]
    BY DEF LiteralTurn
  <2> HIDE DEF step
  <2> QED
    BY <1>1, <2>1
<1> HIDE DEF step
<1>3. Advances(step, Len(src))
  BY <1>1, <1>2, ReadingAdvances
<1> QED
  BY <1>3 DEF step

LEMMA LiteralToIs ==
  ASSUME NEW src \in Texts, NEW x, Reading(src, x), x.from <= Len(src),
         NEW quote, NEW problems0 \in Seq(Reports0(src))
  PROVE  LET body == LiteralTo(x, quote, problems0)
         IN  /\ body.end \in Nat /\ x.from <= body.end /\ body.end <= Len(src)
             /\ body.problems \in Seq(Reports0(src))
<1>0. Len(src) \in Nat
  BY DEF Texts
<1>1. /\ x.from \in Nat /\ x.at \in Nat /\ x.next \in Nat
      /\ x.from <= x.at /\ x.at <= x.next /\ x.next <= Len(src)
  BY ReadingIs
<1>2. \E closed \in BOOLEAN, e \in {x.at, x.next} :
        LiteralTo(x, quote, problems0) = Body(e, closed, problems0)
  BY DEF LiteralTo
<1> QED
  BY <1>0, <1>1, <1>2 DEF Body

LEMMA ScanLiteralCuts ==
  ASSUME NEW src \in Texts, NEW start \in Nat, start < Len(src), NEW quote \in Quotes0
  PROVE  Cuts(src, start, ScanLiteral(src, start, quote))
<1>0. Len(src) \in Nat
  BY DEF Texts
<1>1. PICK x : x = At(src, start + 1)
  OBVIOUS
<1>2. Reading(src, x) /\ x.from = start + 1
  BY <1>1, AtIs
<1>3. Advances(LiteralTurn(src, quote), Len(src))
  BY LiteralTurnAdvances
<1>4. PICK e \in Nat : e = LoopEnd(LiteralTurn(src, quote), start + 1)
  BY <1>3, LoopEnds
<1>5. start + 1 <= e /\ e <= Len(src)
  BY <1>0, <1>3, <1>4, LoopEnds
<1>6. PICK last : last = At(src, e)
  OBVIOUS
<1>7. Reading(src, last) /\ last.from = e
  BY <1>6, AtIs
<1>8. TrigraphsAt(src) \in [Nat -> Seq(Reports0(src))]
  <2>1. \A p \in Nat : TrigraphAt(src, At(src, p)) \in Seq(Reports0(src))
    BY AtIs, TrigraphIs
  <2> QED
    BY <2>1 DEF TrigraphsAt
<1>9. PICK problems0 \in Seq(Reports0(src)) :
        problems0 = LoopFound(LiteralTurn(src, quote), TrigraphsAt(src), start + 1)
  BY <1>3, <1>8, LoopFoundType
<1>10. PICK body : body = LiteralTo(last, quote, problems0)
  OBVIOUS
<1>11. LiteralBody(src, x, quote) = body
  BY <1>2, <1>4, <1>6, <1>9, <1>10 DEF LiteralBody
<1>12. /\ body.end \in Nat /\ e <= body.end /\ body.end <= Len(src)
       /\ body.problems \in Seq(Reports0(src))
  BY <1>5, <1>7, <1>10, LiteralToIs
<1>13. Unterminated(body, start) \in Seq(Reports0(src))
  BY <1>12, UnterminatedIs
<1>14. ScanLiteral(src, start, quote) = LiteralOf(body, start, quote)
  BY <1>1, <1>11 DEF ScanLiteral
<1>15. PICK kind : kind = IF quote = "'" THEN "char" ELSE "string"
  OBVIOUS
<1>16. kind \notin {"newline", "eof"}
  BY <1>15
<1>17. ScanLiteral(src, start, quote)
         = Verdict(kind, "", body.end, Unterminated(body, start))
  BY <1>14, <1>15 DEF LiteralOf
<1>18. start < body.end
  BY <1>5, <1>12
<1> QED
  BY <1>12, <1>13, <1>16, <1>17, <1>18, VerdictCuts

LEMMA ScanHeaderNameCuts ==
  ASSUME NEW src \in Texts, NEW start \in Nat, start < Len(src), NEW open
  PROVE  Cuts(src, start, ScanHeaderName(src, start, open))
<1>0. Len(src) \in Nat
  BY DEF Texts
<1>1. PICK close : close = IF open = "<" THEN ">" ELSE "\""
  OBVIOUS
<1>2. PICK x : x = At(src, start + 1)
  OBVIOUS
<1>3. Reading(src, x) /\ x.from = start + 1
  BY <1>2, AtIs
<1>4. PICK last : last = SkipTo(src, x, {close, "\n"})
  OBVIOUS
<1>5. x.from <= Len(src)
  BY <1>0, <1>3
<1>6. Reading(src, last) /\ start + 1 <= last.from /\ last.from <= Len(src)
  BY <1>3, <1>4, <1>5, SkipToIs
<1>7. <<>> \in Seq(Reports0(src))
  OBVIOUS
<1>8. PICK body : body = LiteralTo(last, close, <<>>)
  OBVIOUS
<1>9. /\ body.end \in Nat /\ last.from <= body.end /\ body.end <= Len(src)
      /\ body.problems \in Seq(Reports0(src))
  BY <1>6, <1>7, <1>8, LiteralToIs
<1>10. Unterminated(body, start) \in Seq(Reports0(src))
  BY <1>9, UnterminatedIs
<1>11. ScanHeaderName(src, start, open)
         = Verdict("header", "", body.end, Unterminated(body, start))
  BY <1>1, <1>2, <1>4, <1>8 DEF ScanHeaderName, HeaderOf
<1>12. last.from \in Nat
  BY <1>6 DEF Reading
<1>13. start < body.end
  BY <1>6, <1>9, <1>12
<1> QED
  BY <1>9, <1>10, <1>11, <1>13, VerdictCuts

LEMMA ScanIdentifierCuts ==
  ASSUME NEW src \in Texts, NEW first, Reading(src, first), first.at < Len(src)
  PROVE  Cuts(src, first.at, ScanIdentifier(src, first))
<1>0. Len(src) \in Nat
  BY DEF Texts
<1>1. /\ first.at \in Nat /\ first.next \in Nat /\ first.c # End
      /\ first.next = first.at + 1
  BY <1>0, ReadingIs
<1>2. PICK x : x = At(src, first.at)
  OBVIOUS
<1>3. Reading(src, x) /\ x.from = first.at
  BY <1>1, <1>2, AtIs
<1>4. PICK rest : rest = IdentifierEnd(src, x)
  OBVIOUS
<1>5. Reading(src, rest) /\ first.at <= rest.from /\ rest.from <= Len(src)
  BY <1>0, <1>1, <1>3, <1>4, IdentifierEndIs
<1>6. /\ rest.from \in Nat /\ rest.at \in Nat /\ rest.from <= rest.at
      /\ (rest.c = End <=> rest.at >= Len(src))
  BY <1>5, ReadingIs
<1>7. ScanIdentifier(src, first) = IdentifierTo(src, first, rest)
  BY <1>2, <1>4 DEF ScanIdentifier
<1>8. CASE rest.from = first.at
  <2>1. PICK what \in Complaints0 : what = "stray"
    BY DEF Complaints0
  <2>2. PICK r \in Reports0(src) : r = Problem(what, first.at)
    BY <1>1, ProblemIs
  <2>3. <<r>> \in Seq(Reports0(src))
    OBVIOUS
  <2>4. ScanIdentifier(src, first) = Verdict("other", "", first.next, <<r>>)
    BY <1>7, <1>8, <2>1, <2>2 DEF IdentifierTo
  <2>5. PICK kind : kind = "other"
    OBVIOUS
  <2>6. kind \notin {"newline", "eof"} /\ first.at < first.next /\ first.next <= Len(src)
    BY <1>0, <1>1, <2>5
  <2> QED
    BY <1>1, <2>3, <2>4, <2>5, <2>6, VerdictCuts
<1>9. CASE rest.from # first.at /\ rest.c \in Quotes0
           /\ EncodingPrefix(Spelling(src, first.at, rest.from), rest.c)
  <2>1. ScanIdentifier(src, first) = ScanLiteral(src, rest.at, rest.c)
    BY <1>7, <1>9 DEF IdentifierTo, Quotes0
  <2>2. rest.c # End
    BY <1>9 DEF Quotes0, End
  <2>3. rest.at < Len(src)
    BY <1>0, <1>6, <2>2
  <2>4. PICK v : v = ScanLiteral(src, rest.at, rest.c)
    OBVIOUS
  <2>5. Cuts(src, rest.at, v)
    BY <1>6, <1>9, <2>3, <2>4, ScanLiteralCuts
  <2> QED
    BY <1>0, <1>1, <1>5, <1>6, <2>1, <2>4, <2>5 DEF Cuts
<1>10. CASE rest.from # first.at
            /\ ~(rest.c \in Quotes0
                 /\ EncodingPrefix(Spelling(src, first.at, rest.from), rest.c))
  <2>1. ScanIdentifier(src, first) = Verdict("identifier", "", rest.from, <<>>)
    BY <1>7, <1>10 DEF IdentifierTo, Quotes0
  <2>2. <<>> \in Seq(Reports0(src))
    OBVIOUS
  <2>3. first.at < rest.from
    BY <1>1, <1>5, <1>6, <1>10
  <2> QED
    BY <1>1, <1>5, <1>6, <2>1, <2>2, <2>3, VerdictCuts
<1> QED
  BY <1>8, <1>9, <1>10

LEMMA ScanNumberCuts ==
  ASSUME NEW src \in Texts, NEW first, Reading(src, first), first.at < Len(src)
  PROVE  Cuts(src, first.at, ScanNumber(src, first))
<1>0. Len(src) \in Nat
  BY DEF Texts
<1>1. /\ first.at \in Nat /\ first.next \in Nat /\ first.next = first.at + 1
  BY <1>0, ReadingIs
<1>2. PICK x : x = After(src, first)
  OBVIOUS
<1>3. Reading(src, x) /\ x.from = first.next
  BY <1>2, AfterIs
<1>4. PICK last : last = NumberEnd(src, x)
  OBVIOUS
<1>5. Reading(src, last) /\ first.next <= last.from /\ last.from <= Len(src)
  BY <1>0, <1>1, <1>3, <1>4, NumberEndIs
<1>6. last.from \in Nat
  BY <1>5 DEF Reading
<1>7. ScanNumber(src, first) = Verdict("number", "", last.from, <<>>)
  BY <1>2, <1>4 DEF ScanNumber
<1>8. <<>> \in Seq(Reports0(src))
  OBVIOUS
<1>9. first.at < last.from
  BY <1>1, <1>5, <1>6
<1> QED
  BY <1>1, <1>5, <1>6, <1>7, <1>8, <1>9, VerdictCuts

(* An alternative adds a character at least.                               *)
Adds(t) == Len(t) - 1 \in Nat \ {0}

Alternatives(A) == DOMAIN A \subseteq Nat /\ \A i \in DOMAIN A : Adds(A[i])

LEMMA TuplesAdd ==
  /\ \A a, b : Adds(<<a, b>>)
  /\ \A a, b, c : Adds(<<a, b, c>>)
  /\ \A a, b, c, d : Adds(<<a, b, c, d>>)
  BY DEF Adds

LEMMA TuplesAreAlternatives ==
  /\ Alternatives(<<>>)
  /\ \A s : Adds(s) => Alternatives(<<s>>)
  /\ \A s, t : Adds(s) /\ Adds(t) => Alternatives(<<s, t>>)
  /\ \A s, t, u : Adds(s) /\ Adds(t) /\ Adds(u) => Alternatives(<<s, t, u>>)
  /\ \A s, t, u, v :
       Adds(s) /\ Adds(t) /\ Adds(u) /\ Adds(v) => Alternatives(<<s, t, u, v>>)
  /\ \A s, t, u, v, w :
       Adds(s) /\ Adds(t) /\ Adds(u) /\ Adds(v) /\ Adds(w)
         => Alternatives(<<s, t, u, v, w>>)
<1>1. Alternatives(<<>>)
  BY DEF Alternatives
<1>2. ASSUME NEW s, Adds(s) PROVE Alternatives(<<s>>)
  BY <1>2 DEF Alternatives
<1>3. ASSUME NEW s, NEW t, Adds(s), Adds(t) PROVE Alternatives(<<s, t>>)
  BY <1>3 DEF Alternatives
<1>4. ASSUME NEW s, NEW t, NEW u, Adds(s), Adds(t), Adds(u)
      PROVE  Alternatives(<<s, t, u>>)
  <2>1. PICK A : A = <<s, t, u>>
    OBVIOUS
  <2>2. DOMAIN A = 1 .. 3
    BY <2>1
  <2>3. A[1] = s /\ A[2] = t /\ A[3] = u
    BY <2>1
  <2>4. ASSUME NEW i \in 1 .. 3 PROVE Adds(A[i])
    <3>1. i = 1 \/ i = 2 \/ i = 3
      OBVIOUS
    <3> QED
      BY <1>4, <2>3, <3>1
  <2> QED
    BY <2>1, <2>2, <2>4 DEF Alternatives
<1>5. ASSUME NEW s, NEW t, NEW u, NEW v, Adds(s), Adds(t), Adds(u), Adds(v)
      PROVE  Alternatives(<<s, t, u, v>>)
  <2>1. PICK A : A = <<s, t, u, v>>
    OBVIOUS
  <2>2. DOMAIN A = 1 .. 4
    BY <2>1
  <2>3. A[1] = s /\ A[2] = t /\ A[3] = u /\ A[4] = v
    BY <2>1
  <2>4. ASSUME NEW i \in 1 .. 4 PROVE Adds(A[i])
    <3>1. i = 1 \/ i = 2 \/ i = 3 \/ i = 4
      OBVIOUS
    <3> QED
      BY <1>5, <2>3, <3>1
  <2> QED
    BY <2>1, <2>2, <2>4 DEF Alternatives
<1>6. ASSUME NEW s, NEW t, NEW u, NEW v, NEW w, Adds(s), Adds(t), Adds(u), Adds(v), Adds(w)
      PROVE  Alternatives(<<s, t, u, v, w>>)
  <2>1. PICK A : A = <<s, t, u, v, w>>
    OBVIOUS
  <2>2. DOMAIN A = 1 .. 5
    BY <2>1
  <2>3. A[1] = s /\ A[2] = t /\ A[3] = u /\ A[4] = v /\ A[5] = w
    BY <2>1
  <2>4. ASSUME NEW i \in 1 .. 5 PROVE Adds(A[i])
    <3>1. i = 1 \/ i = 2 \/ i = 3 \/ i = 4 \/ i = 5
      OBVIOUS
    <3> QED
      BY <1>6, <2>3, <3>1
  <2> QED
    BY <2>1, <2>2, <2>4 DEF Alternatives
<1> QED
  BY <1>1, <1>2, <1>3, <1>4, <1>5, <1>6

LEMMA LongerIs ==
  ASSUME NEW c
  PROVE  Alternatives(Longer(c))
<1>1. CASE c = "."
  <2>1. Longer(c) = << <<"...", ".", ".">> >>
    BY <1>1 DEF Longer
  <2> QED
    BY <2>1, TuplesAdd, TuplesAreAlternatives, Zenon
<1>2. CASE c = "-"
  <2>1. Longer(c) = << <<"->", ">">>, <<"--", "-">>, <<"-=", "=">> >>
    BY <1>2 DEF Longer
  <2> QED
    BY <2>1, TuplesAdd, TuplesAreAlternatives, Zenon
<1>3. CASE c = "+"
  <2>1. Longer(c) = << <<"++", "+">>, <<"+=", "=">> >>
    BY <1>3 DEF Longer
  <2> QED
    BY <2>1, TuplesAdd, TuplesAreAlternatives, Zenon
<1>4. CASE c = "&"
  <2>1. Longer(c) = << <<"&&", "&">>, <<"&=", "=">> >>
    BY <1>4 DEF Longer
  <2> QED
    BY <2>1, TuplesAdd, TuplesAreAlternatives, Zenon
<1>5. CASE c = "|"
  <2>1. Longer(c) = << <<"||", "|">>, <<"|=", "=">> >>
    BY <1>5 DEF Longer
  <2> QED
    BY <2>1, TuplesAdd, TuplesAreAlternatives, Zenon
<1>6. CASE c = "<"
  <2>1. Longer(c) = << <<"<<=", "<", "=">>, <<"<<", "<">>, <<"<=", "=">>,
                         <<"[", ":">>, <<"{", "%">> >>
    BY <1>6 DEF Longer
  <2> QED
    BY <2>1, TuplesAdd, TuplesAreAlternatives, Zenon
<1>7. CASE c = ">"
  <2>1. Longer(c) = << <<">>=", ">", "=">>, <<">>", ">">>, <<">=", "=">> >>
    BY <1>7 DEF Longer
  <2> QED
    BY <2>1, TuplesAdd, TuplesAreAlternatives, Zenon
<1>8. CASE c = "%"
  <2>1. Longer(c) = << <<"%=", "=">>, <<"}", ">">>, <<"##", ":", "%", ":">>,
                         <<"#", ":">> >>
    BY <1>8 DEF Longer
  <2> QED
    BY <2>1, TuplesAdd, TuplesAreAlternatives, Zenon
<1>9. CASE c = ":"
  <2>1. Longer(c) = << <<"]", ">">> >>
    BY <1>9 DEF Longer
  <2> QED
    BY <2>1, TuplesAdd, TuplesAreAlternatives, Zenon
<1>10. CASE c = "#"
  <2>1. Longer(c) = << <<"##", "#">> >>
    BY <1>10 DEF Longer
  <2> QED
    BY <2>1, TuplesAdd, TuplesAreAlternatives, Zenon
<1>11. CASE c \in {"!", "*", "/", "=", "^"}
  <2>1. Longer(c) = << <<c \o "=", "=">> >>
    BY <1>11 DEF Longer
  <2> QED
    BY <2>1, TuplesAdd, TuplesAreAlternatives, Zenon
<1>12. CASE c \notin {".", "-", "+", "&", "|", "<", ">", "%", ":", "#", "!", "*", "/", "=", "^"}
  <2>1. Longer(c) = <<>>
    BY <1>12 DEF Longer
  <2> QED
    BY <2>1, TuplesAreAlternatives, Zenon
<1> QED
  BY <1>1, <1>2, <1>3, <1>4, <1>5, <1>6, <1>7, <1>8, <1>9,
     <1>10, <1>11, <1>12

LEMMA ScanPunctCuts ==
  ASSUME NEW src \in Texts, NEW first, Reading(src, first), first.at < Len(src)
  PROVE  Cuts(src, first.at, ScanPunct(src, first))
<1>0. Len(src) \in Nat
  BY DEF Texts
<1>1. /\ first.at \in Nat /\ first.next \in Nat /\ first.from \in Nat
      /\ first.from <= first.at /\ first.next = first.at + 1
  BY <1>0, ReadingIs
<1>2. <<>> \in Seq(Reports0(src)) /\ TrigraphAt(src, first) \in Seq(Reports0(src))
  <2>1. <<>> \in Seq(Reports0(src))
    OBVIOUS
  <2> QED
    BY <2>1, TrigraphIs
<1>3. PICK other : other = "other"
  OBVIOUS
<1>4. PICK punct : punct = "punct"
  OBVIOUS
<1>5. /\ other \notin {"newline", "eof"} /\ punct \notin {"newline", "eof"}
      /\ first.at < first.next /\ first.next <= Len(src)
  BY <1>0, <1>1, <1>3, <1>4
<1>6. PICK longer : longer = Longer(first.c)
  OBVIOUS
<1>7. /\ DOMAIN longer \subseteq Nat
      /\ \A i \in DOMAIN longer : Len(longer[i]) - 1 \in Nat \ {0}
  BY <1>6, LongerIs DEF Alternatives, Adds
<1>8. PICK ahead : ahead = {i \in DOMAIN longer : Ahead(src, first, longer[i])}
  OBVIOUS
<1>9. CASE first.c \notin PunctStart
  <2>1. ScanPunct(src, first) = Verdict(other, "", first.next, <<>>)
    BY <1>3, <1>9 DEF ScanPunct
  <2> QED
    BY <1>1, <1>2, <1>5, <2>1, VerdictCuts
<1>10. CASE first.c \in PunctStart /\ ahead = {}
  <2>1. ScanPunct(src, first)
          = Verdict(punct, first.c, first.next, TrigraphAt(src, first))
    BY <1>4, <1>6, <1>8, <1>10 DEF ScanPunct, PunctFrom
  <2> QED
    BY <1>1, <1>2, <1>5, <2>1, VerdictCuts
<1>11. CASE first.c \in PunctStart /\ ahead # {}
  <2>1. ahead \subseteq Nat
    BY <1>7, <1>8
  <2>2. \E i \in ahead : \A j \in ahead : i <= j
    <3>1. PICK i \in ahead : \A j \in ahead : <<j, i>> \notin LessThan
      BY <1>11, <2>1, LessThanWellFounded, WFMin
    <3>2. ASSUME NEW j \in ahead PROVE i <= j
      <4>1. i \in Nat /\ j \in Nat
        BY <2>1
      <4>2. <<j, i>> \notin LessThan
        BY <3>1
      <4>3. ~(j < i)
        BY <4>1, <4>2 DEF LessThan
      <4> QED
        BY <4>1, <4>3
    <3> QED
      BY <3>2
  <2>3. PICK i : i = CHOOSE k \in ahead : \A j \in ahead : k <= j
    OBVIOUS
  <2>4. i \in DOMAIN longer
    BY <1>8, <2>2, <2>3
  <2>5. ScanPunct(src, first) = PunctTo(src, first, longer[i])
    BY <1>6, <1>8, <1>11, <2>3 DEF ScanPunct, PunctFrom
  <2>6. PICK n : n = Len(longer[i]) - 1
    OBVIOUS
  <2>7. n \in Nat /\ n > 0
    <3>1. n \in Nat \ {0}
      BY <1>7, <2>4, <2>6, Zenon
    <3> QED
      BY <3>1
  <2>8. PICK y : y = Nth(src, first, n)
    OBVIOUS
  <2>9. first.from <= Len(src)
    BY <1>0, <1>1
  <2>10. Reading(src, y) /\ first.next <= y.from /\ y.from <= Len(src)
    BY <2>7, <2>8, <2>9, NthIs
  <2>11. /\ y.from \in Nat /\ y.at \in Nat /\ y.next \in Nat
         /\ y.from <= y.at /\ y.at <= y.next /\ y.next <= Len(src)
    BY <2>10, ReadingIs
  <2>12. ScanPunct(src, first) = Verdict(punct, longer[i][1], y.next, <<>>)
    BY <1>4, <2>5, <2>6, <2>8 DEF PunctTo
  <2>13. first.at < y.next
    BY <1>1, <2>10, <2>11
  <2> QED
    BY <1>1, <1>2, <1>5, <2>11, <2>12, <2>13, VerdictCuts
<1> QED
  BY <1>9, <1>10, <1>11

(* Whatever the token is, it is a span of the text.                        *)
LEMMA ScanCuts ==
  ASSUME NEW src \in Texts, NEW x, Reading(src, x), x.c # End,
         NEW header_mode \in BOOLEAN
  PROVE  Cuts(src, x.at, Scan(src, x, header_mode))
<1>0. Len(src) \in Nat
  BY DEF Texts
<1>1. x.at \in Nat /\ x.at < Len(src)
  BY <1>0, ReadingIs
<1>2. \/ Scan(src, x, header_mode) = ScanHeaderName(src, x.at, x.c)
      \/ Scan(src, x, header_mode) = ScanIdentifier(src, x)
      \/ Scan(src, x, header_mode) = ScanNumber(src, x)
      \/ x.c \in Quotes0 /\ Scan(src, x, header_mode) = ScanLiteral(src, x.at, x.c)
      \/ Scan(src, x, header_mode) = ScanPunct(src, x)
  BY DEF Scan, Quotes0
<1> QED
  BY <1>1, <1>2, ScanHeaderNameCuts, ScanIdentifierCuts, ScanNumberCuts,
     ScanLiteralCuts, ScanPunctCuts

-----------------------------------------------------------------------------
(* White space and comments                                                *)

LEMMA CommentTurnAdvances ==
  ASSUME NEW src \in Texts
  PROVE  Advances(CommentTurn(src), Len(src))
<1> DEFINE step == CommentTurn(src)
<1>0. Len(src) \in Nat
  BY DEF Texts
<1>1. ASSUME NEW q \in Nat
      PROVE  /\ step[q] \in Nat
             /\ step[q] = q \/ (q < step[q] /\ q < Len(src) /\ step[q] <= Len(src))
  <2>1. PICK x : x = At(src, q)
    OBVIOUS
  <2>2. PICK z : z = SkipTo(src, After(src, x), {"*"})
    OBVIOUS
  <2>3. step[q] = IF CommentRests(src, x) THEN q ELSE z.from
    BY <2>1, <2>2 DEF CommentTurn
  <2>4. CASE CommentRests(src, x)
    BY <2>3, <2>4
  <2>5. CASE ~CommentRests(src, x)
    <3>1. step[q] = z.from
      BY <2>3, <2>5
    <3> HIDE DEF step
    <3>2. x.c # End
      BY <2>5 DEF CommentRests
    <3>3. Reading(src, x) /\ x.from = q
      BY <2>1, AtIs
    <3>4. Reading(src, After(src, x)) /\ After(src, x).from = x.next
      BY <3>3, AfterIs
    <3>5. /\ x.at \in Nat /\ x.next = x.at + 1 /\ q <= x.at
          /\ x.at < Len(src) /\ x.next <= Len(src)
      BY <1>0, <3>2, <3>3, ReadingIs
    <3>6. Reading(src, z) /\ x.next <= z.from /\ z.from <= Len(src)
      BY <2>2, <3>4, <3>5, SkipToIs
    <3>7. z.from \in Nat
      BY <3>6 DEF Reading
    <3> QED
      BY <1>0, <3>1, <3>5, <3>6, <3>7
  <2> QED
    BY <2>4, <2>5
<1>2. step \in [Nat -> Nat]
  <2>1. step = [q \in Nat |-> step[q]]
    BY DEF CommentTurn
  <2> HIDE DEF step
  <2> QED
    BY <1>1, <2>1
<1> HIDE DEF step
<1>3. Advances(step, Len(src))
  BY <1>1, <1>2, ReadingAdvances
<1> QED
  BY <1>3 DEF step

LEMMA SkipCommentIs ==
  ASSUME NEW src \in Texts, NEW y, Reading(src, y), y.from <= Len(src)
  PROVE  LET body == SkipComment(src, y)
         IN  body.end \in Nat /\ y.from <= body.end /\ body.end <= Len(src)
<1>0. Len(src) \in Nat
  BY DEF Texts
<1>1. PICK x : x = After(src, y)
  OBVIOUS
<1>2. Reading(src, x) /\ x.from = y.next
  BY <1>1, AfterIs
<1>3. y.from \in Nat /\ y.next \in Nat /\ y.from <= y.next /\ y.next <= Len(src)
  <2>1. /\ y.from \in Nat /\ y.next \in Nat /\ y.at \in Nat
        /\ y.from <= y.at /\ y.at <= y.next /\ y.next <= Len(src)
    BY ReadingIs
  <2> QED
    BY <2>1
<1>4. CASE y.c = "/"
  <2>1. PICK z : z = SkipTo(src, x, {"\n"})
    OBVIOUS
  <2>2. Reading(src, z) /\ y.next <= z.from /\ z.from <= Len(src)
    BY <1>2, <1>3, <2>1, SkipToIs
  <2>3. /\ z.from \in Nat /\ z.at \in Nat /\ z.next \in Nat
        /\ z.from <= z.at /\ z.at <= z.next /\ z.next <= Len(src)
    BY <2>2, ReadingIs
  <2>4. SkipComment(src, y).end = z.at
    BY <1>1, <1>4, <2>1 DEF SkipComment, Body
  <2> QED
    BY <1>0, <1>3, <2>2, <2>3, <2>4
<1>5. CASE y.c # "/"
  <2>1. PICK star : star = SkipTo(src, x, {"*"})
    OBVIOUS
  <2>2. Reading(src, star) /\ y.next <= star.from /\ star.from <= Len(src)
    BY <1>2, <1>3, <2>1, SkipToIs
  <2>3. star.from \in Nat
    BY <2>2 DEF Reading
  <2>4. Advances(CommentTurn(src), Len(src))
    BY CommentTurnAdvances
  <2>5. PICK e \in Nat : e = LoopEnd(CommentTurn(src), star.from)
    BY <2>3, <2>4, LoopEnds
  <2>6. star.from <= e /\ e <= Len(src)
    BY <2>2, <2>3, <2>4, <2>5, LoopEnds
  <2>7. PICK last : last = At(src, e)
    OBVIOUS
  <2>8. Reading(src, last) /\ last.from = e
    BY <2>7, AtIs
  <2>9. PICK z : z = After(src, last)
    OBVIOUS
  <2>10. Reading(src, z) /\ z.from = last.next
    BY <2>8, <2>9, AfterIs
  <2>11. /\ last.at \in Nat /\ last.next \in Nat
         /\ e <= last.at /\ last.at <= last.next /\ last.next <= Len(src)
    BY <2>6, <2>8, ReadingIs
  <2>12. /\ z.at \in Nat /\ z.next \in Nat
         /\ last.next <= z.at /\ z.at <= z.next /\ z.next <= Len(src)
    BY <2>10, <2>11, ReadingIs
  <2>13. SkipComment(src, y) = CommentTo(src, last)
    BY <1>1, <1>5, <2>1, <2>5, <2>7 DEF SkipComment, CommentEnd
  <2>14. SkipComment(src, y).end \in {last.at, z.next}
    BY <2>9, <2>13 DEF CommentTo, Body
  <2> QED
    BY <1>0, <1>3, <2>2, <2>3, <2>6, <2>11, <2>12, <2>14
<1> QED
  BY <1>4, <1>5

LEMMA BlankTurnAdvances ==
  ASSUME NEW src \in Texts
  PROVE  Advances(BlankTurn(src), Len(src))
<1> DEFINE step == BlankTurn(src)
<1>0. Len(src) \in Nat
  BY DEF Texts
<1>1. ASSUME NEW q \in Nat
      PROVE  /\ step[q] \in Nat
             /\ step[q] = q \/ (q < step[q] /\ q < Len(src) /\ step[q] <= Len(src))
  <2>1. PICK x : x = At(src, q)
    OBVIOUS
  <2>2. PICK body : body = SkipComment(src, After(src, x))
    OBVIOUS
  <2>3. step[q] = IF x.c \in Space THEN x.next
                  ELSE IF OpensComment(src, x) THEN body.end ELSE q
    BY <2>1, <2>2 DEF BlankTurn
  <2>4. Reading(src, x) /\ x.from = q
    BY <2>1, AtIs
  <2>5. CASE x.c \in Space \/ OpensComment(src, x)
    <3>1. x.c # End
      BY <2>5 DEF Space, OpensComment, End
    <3>2. /\ x.at \in Nat /\ x.next = x.at + 1 /\ q <= x.at
          /\ x.at < Len(src) /\ x.next <= Len(src)
      BY <1>0, <2>4, <3>1, ReadingIs
    <3>3. Reading(src, After(src, x)) /\ After(src, x).from = x.next
      BY <2>4, AfterIs
    <3>4. body.end \in Nat /\ x.next <= body.end /\ body.end <= Len(src)
      BY <2>2, <3>2, <3>3, SkipCommentIs
    <3>5. step[q] = x.next \/ step[q] = body.end
      BY <2>3, <2>5
    <3> HIDE DEF step
    <3> QED
      BY <1>0, <3>2, <3>4, <3>5
  <2>6. CASE ~(x.c \in Space \/ OpensComment(src, x))
    BY <2>3, <2>6
  <2> QED
    BY <2>5, <2>6
<1>2. step \in [Nat -> Nat]
  <2>1. step = [q \in Nat |-> step[q]]
    BY DEF BlankTurn
  <2> HIDE DEF step
  <2> QED
    BY <1>1, <2>1
<1> HIDE DEF step
<1>3. Advances(step, Len(src))
  BY <1>1, <1>2, ReadingAdvances
<1> QED
  BY <1>3 DEF step

LEMMA BlankReportsIs ==
  ASSUME NEW src \in Texts
  PROVE  BlankReports(src) \in [Nat -> Seq(Reports0(src))]
<1>0. Len(src) \in Nat
  BY DEF Texts
<1>1. ASSUME NEW p \in Nat PROVE BlankReports(src)[p] \in Seq(Reports0(src))
  <2>1. PICK x : x = At(src, p)
    OBVIOUS
  <2>2. x.at \in Nat /\ (x.c = End <=> x.at >= Len(src))
    BY <2>1, AtIs
  <2>3. <<>> \in Seq(Reports0(src))
    OBVIOUS
  <2>4. CASE ~OpensComment(src, x)
    <3>1. BlankReports(src)[p] = <<>>
      BY <2>1, <2>4 DEF BlankReports
    <3> QED
      BY <2>3, <3>1
  <2>5. CASE OpensComment(src, x)
    <3>1. x.c # End
      BY <2>5 DEF OpensComment, End
    <3>2. x.at < Len(src)
      BY <1>0, <2>2, <3>1
    <3>3. PICK what \in Complaints0 : what = "comment"
      BY DEF Complaints0
    <3>4. PICK r \in Reports0(src) : r = Problem(what, x.at)
      BY <2>2, <3>2, <3>3, ProblemIs
    <3>5. BlankReports(src)[p] = <<r>> \/ BlankReports(src)[p] = <<>>
      BY <2>1, <3>3, <3>4 DEF BlankReports
    <3>6. <<r>> \in Seq(Reports0(src))
      OBVIOUS
    <3> QED
      BY <2>3, <3>5, <3>6
  <2> QED
    BY <2>4, <2>5
<1>2. BlankReports(src) = [p \in Nat |-> BlankReports(src)[p]]
  BY DEF BlankReports
<1> QED
  BY <1>1, <1>2

LEMMA SkipBlankIs ==
  ASSUME NEW src \in Texts, NEW pos \in Nat, pos <= Len(src)
  PROVE  LET blank == SkipBlank(src, pos)
         IN  /\ Reading(src, blank.x) /\ pos <= blank.x.at /\ blank.x.at <= Len(src)
             /\ blank.space \in BOOLEAN
             /\ blank.reported \in Seq(Reports0(src))
<1>0. Len(src) \in Nat
  BY DEF Texts
<1>1. Advances(BlankTurn(src), Len(src))
  BY BlankTurnAdvances
<1>2. PICK e \in Nat : e = LoopEnd(BlankTurn(src), pos)
  BY <1>1, LoopEnds
<1>3. pos <= e /\ e <= Len(src)
  BY <1>1, <1>2, LoopEnds
<1>4. PICK found \in Seq(Reports0(src)) :
        found = LoopFound(BlankTurn(src), BlankReports(src), pos)
  BY <1>1, BlankReportsIs, LoopFoundType
<1>5. PICK x : x = At(src, e)
  OBVIOUS
<1>6. Reading(src, x) /\ x.from = e
  BY <1>5, AtIs
<1>7. x.at \in Nat /\ x.next \in Nat /\ e <= x.at /\ x.at <= x.next /\ x.next <= Len(src)
  BY <1>3, <1>6, ReadingIs
<1>8. SkipBlank(src, pos) = Blank(x, e # pos, found)
  BY <1>2, <1>4, <1>5 DEF SkipBlank
<1>9. pos <= x.at /\ x.at <= Len(src)
  BY <1>0, <1>3, <1>7
<1> QED
  BY <1>6, <1>8, <1>9 DEF Blank

(* A call's token begins at x and ends in the text; it is of no length     *)
(* only at the end of the text, and then it is the end of input, or the    *)
(* newline that is missing there.                                          *)
Fits(src, lx, start, v) ==
  /\ v.end \in Nat /\ start <= v.end /\ v.end <= Len(src)
  /\ v.end = start => /\ start = Len(src)
                      /\ v.kind = IF lx.at_line_start \/ lx.eof_newline_done
                                  THEN "eof" ELSE "newline"
  /\ v.kind = "eof" => v.end = start
  /\ v.problems \in Seq(Reports0(src))

LEMMA NextVerdictFits ==
  ASSUME NEW src \in Texts, NEW x, Reading(src, x), x.at <= Len(src),
         NEW lx, NEW header_mode \in BOOLEAN
  PROVE  Fits(src, lx, x.at, NextVerdict(src, lx, x, header_mode))
<1>0. Len(src) \in Nat
  BY DEF Texts
<1>1. /\ x.at \in Nat /\ x.next \in Nat
      /\ (x.c = End <=> x.at >= Len(src))
      /\ x.next = IF x.c = End THEN x.at ELSE x.at + 1
  BY ReadingIs
<1>2. End # "\n"
  BY DEF End
<1>3. PICK v : v = NextVerdict(src, lx, x, header_mode)
  OBVIOUS
<1>4. <<>> \in Seq(Reports0(src))
  OBVIOUS
<1>5. CASE x.c = End
  <2>1. PICK kind : kind = IF lx.at_line_start \/ lx.eof_newline_done
                           THEN "eof" ELSE "newline"
    OBVIOUS
  <2>2. v = Verdict(kind, "", Len(src), <<>>)
    BY <1>2, <1>3, <1>5, <2>1 DEF NextVerdict, EndOfInput
  <2>3. v.end = Len(src) /\ v.kind = kind /\ v.problems = <<>>
    BY <2>2 DEF Verdict
  <2>4. x.at = Len(src)
    BY <1>0, <1>1, <1>5
  <2> QED
    BY <1>0, <1>3, <1>4, <2>1, <2>3, <2>4 DEF Fits
<1>6. CASE x.c = "\n"
  <2>1. PICK kind : kind = "newline"
    OBVIOUS
  <2>2. v = Verdict(kind, "", x.next, <<>>)
    BY <1>2, <1>3, <1>6, <2>1 DEF NextVerdict
  <2>3. v.end = x.next /\ v.kind = kind /\ v.problems = <<>>
    BY <2>2 DEF Verdict
  <2>4. x.at < x.next /\ x.next <= Len(src)
    BY <1>0, <1>1, <1>2, <1>6
  <2>5. kind # "eof"
    BY <2>1
  <2> QED
    BY <1>1, <1>3, <1>4, <2>3, <2>4, <2>5 DEF Fits
<1>7. CASE x.c # End /\ x.c # "\n"
  <2>1. v = Scan(src, x, header_mode)
    BY <1>3, <1>7 DEF NextVerdict
  <2>2. Cuts(src, x.at, v)
    BY <1>7, <2>1, ScanCuts
  <2> QED
    BY <1>1, <1>3, <2>2 DEF Fits, Cuts
<1> QED
  BY <1>5, <1>6, <1>7

-----------------------------------------------------------------------------
(* The calls, by any caller, in header-name mode or not, for any text      *)

Caller == \E header_mode \in BOOLEAN : NextToken(header_mode)

LexSpec == (\E source \in Texts : LexInit(source)) /\ [][Caller]_lexVars

IsSequence(s) == Len(s) \in Nat /\ s \in Seq({s[i] : i \in DOMAIN s})

LEMMA AppendIs ==
  ASSUME NEW s, IsSequence(s), NEW t
  PROVE  LET u == Append(s, t)
         IN  /\ IsSequence(u) /\ Len(u) = Len(s) + 1 /\ u[Len(s) + 1] = t
             /\ DOMAIN s = 1 .. Len(s) /\ DOMAIN u = 1 .. Len(s) + 1
             /\ \A i \in DOMAIN s : u[i] = s[i]
<1>1. PICK S : S = {s[i] : i \in DOMAIN s} \cup {t}
  OBVIOUS
<1>2. PICK n \in Nat : n = Len(s)
  BY DEF IsSequence
<1>3. s \in Seq(S) /\ t \in S
  <2>1. \A i \in DOMAIN s : s[i] \in S
    BY <1>1
  <2>2. s \in [1 .. n -> {s[i] : i \in DOMAIN s}]
    BY <1>2 DEF IsSequence
  <2>3. s \in [1 .. n -> S]
    BY <2>1, <2>2
  <2> QED
    BY <1>1, <2>3
<1>4. PICK u : u = Append(s, t)
  OBVIOUS
<1>5. /\ u \in Seq(S) /\ Len(u) = n + 1 /\ DOMAIN u = 1 .. n + 1 /\ DOMAIN s = 1 .. n
      /\ u[n + 1] = t /\ \A i \in 1 .. n : u[i] = s[i]
  BY <1>2, <1>3, <1>4
<1>6. u \in Seq({u[i] : i \in DOMAIN u})
  <2>1. u \in [1 .. n + 1 -> {u[i] : i \in DOMAIN u}]
    BY <1>5
  <2> QED
    BY <2>1
<1>7. IsSequence(u)
  BY <1>5, <1>6 DEF IsSequence
<1> QED
  BY <1>2, <1>4, <1>5, <1>7

LEMMA ConcatIs ==
  ASSUME NEW S, NEW s \in Seq(S), NEW t \in Seq(S), NEW u \in Seq(S)
  PROVE  t \o u \in Seq(S) /\ s \o t \o u = s \o (t \o u)
<1>1. t \o u \in Seq(S) /\ s \o t \in Seq(S)
  OBVIOUS
<1>2. (s \o t) \o u \in Seq(S) /\ s \o (t \o u) \in Seq(S)
  BY <1>1
<1>3. Len((s \o t) \o u) = Len(s \o (t \o u))
  BY <1>1
<1>4. ASSUME NEW i \in 1 .. Len((s \o t) \o u)
      PROVE  ((s \o t) \o u)[i] = (s \o (t \o u))[i]
  BY <1>1
<1> QED
  BY <1>1, <1>2, <1>3, <1>4

(* The i-th token is the newline that is missing at the end of the text.   *)
Supplied(i) == tokens[i].kind = "newline" /\ tokens[i].offset = tokens[i].end

LexTyped ==
  /\ text \in Texts
  /\ lexer.pos \in Nat /\ lexer.pos <= Len(text)
  /\ IsSequence(tokens)
  /\ problems \in Seq(Reports0(text))

(* The tokens are spans of the text behind the position, none empty but at *)
(* the end of the text.                                                    *)
Span(t) ==
  /\ t.offset \in Nat /\ t.end \in Nat /\ t.offset <= t.end
  /\ t.offset = t.end => t.end = Len(text) /\ t.kind \in {"newline", "eof"}
  /\ t.kind = "eof" => t.offset = t.end

Spans == \A i \in DOMAIN tokens : Span(tokens[i]) /\ tokens[i].end <= lexer.pos

Ordered ==
  \A i, j \in DOMAIN tokens : i < j => tokens[i].end <= tokens[j].offset

(* That the missing newline was supplied is remembered.                    *)
Remembered ==
  /\ \A i \in DOMAIN tokens : Supplied(i) => lexer.eof_newline_done
  /\ \A i, j \in DOMAIN tokens : Supplied(i) /\ Supplied(j) => i = j

(* Until the end of input, a token has cost a character or the memory of   *)
(* the missing newline.                                                    *)
Paid ==
  EndsSoFar = {} => Len(tokens) <= lexer.pos + (IF lexer.eof_newline_done THEN 1 ELSE 0)

(* A token is the first of its line if a newline, or nothing, is before it.*)
FirstOfLine ==
  /\ lexer.at_line_start
       <=> Len(tokens) = 0 \/ tokens[Len(tokens)].kind = "newline"
  /\ \A i \in DOMAIN tokens :
       tokens[i].at_line_start <=> i = 1 \/ tokens[i - 1].kind = "newline"

(* A token's line is one more than the newlines before it.                 *)
Numbered ==
  \A i \in DOMAIN tokens :
    tokens[i].line = 1 + Cardinality(Newlines(text, tokens[i].offset))

LexInv ==
  LexTyped /\ Spans /\ Ordered /\ Remembered /\ Paid /\ FirstOfLine /\ Numbered

LEMMA LexInitHolds == (\E source \in Texts : LexInit(source)) => LexInv
<1> SUFFICES ASSUME NEW source \in Texts, LexInit(source) PROVE LexInv
  OBVIOUS
<1>1. /\ text \in Texts /\ lexer.pos = 0 /\ lexer.at_line_start = TRUE
      /\ lexer.eof_newline_done = FALSE /\ tokens = <<>> /\ problems = <<>>
  BY DEF LexInit
<1>2. Len(text) \in Nat
  BY <1>1 DEF Texts
<1>3. Len(tokens) = 0 /\ DOMAIN tokens = {} /\ tokens \in Seq({tokens[i] : i \in DOMAIN tokens})
  BY <1>1
<1>4. problems \in Seq(Reports0(text))
  BY <1>1
<1>5. LexTyped
  BY <1>1, <1>2, <1>3, <1>4 DEF LexTyped, IsSequence
<1> QED
  BY <1>1, <1>3, <1>5
     DEF LexInv, Spans, Ordered, Remembered, Paid, FirstOfLine, EndsSoFar, Numbered

(* What a call does: it returns the token t and goes on to where it ends.  *)
Returns(t) ==
  /\ text' = text /\ tokens' = Append(tokens, t)
  /\ Span(t) /\ lexer.pos <= t.offset /\ t.end <= Len(text)
  /\ lexer'.pos = t.end
  /\ lexer'.at_line_start <=> t.kind = "newline"
  /\ lexer'.eof_newline_done
       <=> lexer.eof_newline_done \/ (t.kind = "newline" /\ t.offset = t.end)
  /\ t.kind = "newline" /\ t.offset = t.end => ~lexer.eof_newline_done
  /\ t.at_line_start = lexer.at_line_start
  /\ t.line = 1 + Cardinality(Newlines(text, t.offset))
  /\ \E more \in Seq(Reports0(text)) : problems' = problems \o more

LEMMA CallReturns ==
  ASSUME LexTyped, Caller
  PROVE  \E t : Returns(t)
<1>1. PICK header_mode \in BOOLEAN : NextToken(header_mode)
  BY DEF Caller
<1>2. PICK blank : blank = SkipBlank(text, lexer.pos)
  OBVIOUS
<1>3. PICK x : x = blank.x
  OBVIOUS
<1>4. PICK v : v = NextVerdict(text, lexer, x, header_mode)
  OBVIOUS
<1>5. LexToken(blank, v)
  BY <1>1, <1>2, <1>3, <1>4 DEF NextToken, NextFrom
<1>6. text \in Texts /\ lexer.pos \in Nat /\ lexer.pos <= Len(text) /\ Len(text) \in Nat
  BY DEF LexTyped, Texts
<1>7. /\ Reading(text, x) /\ lexer.pos <= x.at /\ x.at <= Len(text)
      /\ blank.reported \in Seq(Reports0(text))
  BY <1>2, <1>3, <1>6, SkipBlankIs
<1>8. Fits(text, lexer, x.at, v)
  BY <1>4, <1>6, <1>7, NextVerdictFits
<1>9. x.at \in Nat
  BY <1>6, <1>7, ReadingIs
<1>10. PICK t : t = [kind |-> v.kind, punct |-> v.punct, offset |-> x.at,
                     end |-> v.end, line |-> Location(text, x.at).line,
                     space |-> blank.space, at_line_start |-> lexer.at_line_start]
  OBVIOUS
<1>11. /\ tokens' = Append(tokens, t) /\ text' = text
       /\ lexer' = [pos |-> v.end, at_line_start |-> v.kind = "newline",
                    eof_newline_done |->
                      \/ lexer.eof_newline_done
                      \/ v.kind = "newline" /\ x.at = v.end]
       /\ problems' = problems \o blank.reported \o v.problems
  BY <1>3, <1>5, <1>10 DEF LexToken, MakeToken
<1>12. /\ t.kind = v.kind /\ t.offset = x.at /\ t.end = v.end
       /\ t.at_line_start = lexer.at_line_start
  BY <1>10
<1>13. /\ v.end \in Nat /\ x.at <= v.end /\ v.end <= Len(text)
       /\ v.end = x.at => /\ x.at = Len(text)
                          /\ v.kind = IF lexer.at_line_start \/ lexer.eof_newline_done
                                      THEN "eof" ELSE "newline"
       /\ v.kind = "eof" => v.end = x.at
       /\ v.problems \in Seq(Reports0(text))
  BY <1>8 DEF Fits
<1>14. v.end = x.at => v.kind = "eof" \/ (v.kind = "newline" /\ ~lexer.eof_newline_done)
  BY <1>13
<1>15. Span(t)
  BY <1>9, <1>12, <1>13, <1>14 DEF Span
<1>16. problems \in Seq(Reports0(text))
  BY DEF LexTyped
<1>17. \E more \in Seq(Reports0(text)) : problems' = problems \o more
  <2>1. PICK a : a = blank.reported
    OBVIOUS
  <2>2. PICK b : b = v.problems
    OBVIOUS
  <2>3. PICK S : S = Reports0(text)
    OBVIOUS
  <2>4. PICK p : p = problems
    OBVIOUS
  <2>5. p \in Seq(S) /\ a \in Seq(S) /\ b \in Seq(S)
    BY <1>7, <1>13, <1>16, <2>1, <2>2, <2>3, <2>4
  <2>6. a \o b \in Seq(S) /\ p \o a \o b = p \o (a \o b)
    BY <2>5, ConcatIs
  <2> QED
    BY <1>11, <2>1, <2>2, <2>3, <2>4, <2>6
<1>18. t.kind = "newline" /\ t.offset = t.end => ~lexer.eof_newline_done
  BY <1>12, <1>14
<1>19. /\ lexer'.pos = t.end
       /\ lexer'.at_line_start <=> t.kind = "newline"
       /\ lexer'.eof_newline_done
            <=> lexer.eof_newline_done \/ (t.kind = "newline" /\ t.offset = t.end)
  BY <1>11, <1>12
<1>20. lexer.pos <= t.offset /\ t.end <= Len(text)
  BY <1>7, <1>12, <1>13
<1>21. t.line = 1 + Cardinality(Newlines(text, t.offset))
  <2>1. t.line = Location(text, x.at).line /\ t.offset = x.at
    BY <1>10
  <2> QED
    BY <1>6, <1>7, <1>9, <2>1, LocationIs
<1> QED
  BY <1>11, <1>12, <1>15, <1>17, <1>18, <1>19, <1>20, <1>21 DEF Returns

LEMMA ReturnsKeeps ==
  ASSUME LexInv, NEW t, Returns(t)
  PROVE  LexInv'
<1>0. /\ text \in Texts /\ Len(text) \in Nat /\ text' = text
      /\ lexer.pos \in Nat /\ lexer.pos <= Len(text)
  BY DEF LexInv, LexTyped, Texts, Returns
<1>1. /\ Span(t) /\ lexer.pos <= t.offset /\ t.end <= Len(text) /\ lexer'.pos = t.end
      /\ t.offset \in Nat /\ t.end \in Nat /\ t.offset <= t.end
      /\ t.offset = t.end => t.end = Len(text) /\ t.kind \in {"newline", "eof"}
      /\ t.kind = "eof" => t.offset = t.end
  BY DEF Returns, Span
<1>2. PICK n \in Nat : n = Len(tokens)
  BY DEF LexInv, LexTyped, IsSequence
<1>3. /\ IsSequence(tokens)' /\ Len(tokens') = n + 1 /\ tokens'[n + 1] = t
      /\ DOMAIN tokens = 1 .. n /\ DOMAIN tokens' = 1 .. n + 1
      /\ \A i \in 1 .. n : tokens'[i] = tokens[i]
  <2>1. IsSequence(tokens) /\ tokens' = Append(tokens, t)
    BY DEF LexInv, LexTyped, Returns
  <2>2. PICK u : u = Append(tokens, t)
    OBVIOUS
  <2>3. /\ IsSequence(u) /\ Len(u) = n + 1 /\ u[n + 1] = t
        /\ DOMAIN tokens = 1 .. n /\ DOMAIN u = 1 .. n + 1
        /\ \A i \in 1 .. n : u[i] = tokens[i]
    BY <1>2, <2>1, <2>2, AppendIs
  <2>4. IsSequence(tokens)'
    BY <2>1, <2>2, <2>3 DEF IsSequence
  <2> QED
    BY <2>1, <2>2, <2>3, <2>4
<1>4. LexTyped'
  <2>1. problems' \in Seq(Reports0(text))
    <3>1. PICK more \in Seq(Reports0(text)) : problems' = problems \o more
      BY DEF Returns
    <3>2. problems \in Seq(Reports0(text))
      BY DEF LexInv, LexTyped
    <3> QED
      BY <3>1, <3>2
  <2> QED
    BY <1>0, <1>1, <1>3, <2>1 DEF LexTyped
<1>5. \A i \in 1 .. n : Span(tokens[i]) /\ tokens[i].end <= lexer.pos
  BY <1>3 DEF LexInv, Spans
<1>6. Spans'
  <2>1. ASSUME NEW i \in 1 .. n + 1
        PROVE  /\ tokens'[i].offset \in Nat /\ tokens'[i].end \in Nat
               /\ tokens'[i].offset <= tokens'[i].end
               /\ (tokens'[i].offset = tokens'[i].end =>
                     tokens'[i].end = Len(text) /\ tokens'[i].kind \in {"newline", "eof"})
               /\ (tokens'[i].kind = "eof" => tokens'[i].offset = tokens'[i].end)
               /\ tokens'[i].end <= lexer'.pos
    <3>1. CASE i = n + 1
      BY <1>1, <1>3, <3>1
    <3>2. CASE i \in 1 .. n
      <4>1. tokens'[i] = tokens[i]
        BY <1>3, <3>2
      <4>2. Span(tokens[i]) /\ tokens[i].end <= lexer.pos
        BY <1>5, <3>2
      <4> QED
        BY <1>0, <1>1, <4>1, <4>2 DEF Span
    <3> QED
      BY <3>1, <3>2
  <2> QED
    BY <1>0, <1>3, <2>1 DEF Spans, Span
<1>7. Ordered'
  <2>1. ASSUME NEW i \in 1 .. n + 1, NEW j \in 1 .. n + 1, i < j
        PROVE  tokens'[i].end <= tokens'[j].offset
    <3>1. i \in 1 .. n /\ tokens'[i] = tokens[i]
      BY <1>3, <2>1
    <3>2. CASE j = n + 1
      <4>1. tokens[i].end \in Nat /\ tokens[i].end <= lexer.pos
        BY <1>5, <3>1 DEF Span
      <4> QED
        BY <1>0, <1>1, <1>3, <3>1, <3>2, <4>1
    <3>3. CASE j \in 1 .. n
      <4>1. tokens'[j] = tokens[j] /\ i \in DOMAIN tokens /\ j \in DOMAIN tokens
        BY <1>3, <3>1, <3>3
      <4> QED
        BY <2>1, <3>1, <4>1 DEF LexInv, Ordered
    <3> QED
      BY <3>2, <3>3
  <2> QED
    BY <1>3, <2>1 DEF Ordered
<1>8. /\ lexer'.eof_newline_done
           <=> lexer.eof_newline_done \/ (t.kind = "newline" /\ t.offset = t.end)
      /\ t.kind = "newline" /\ t.offset = t.end => ~lexer.eof_newline_done
  BY DEF Returns
<1>9. /\ \A i \in 1 .. n : Supplied(i)' <=> Supplied(i)
      /\ Supplied(n + 1)' <=> t.kind = "newline" /\ t.offset = t.end
  BY <1>3 DEF Supplied
<1>10. /\ \A i \in 1 .. n : Supplied(i) => lexer.eof_newline_done
       /\ \A i, j \in 1 .. n : Supplied(i) /\ Supplied(j) => i = j
  BY <1>3 DEF LexInv, Remembered
<1>11. Remembered'
  <2>1. \A i \in 1 .. n + 1 : i = n + 1 \/ i \in 1 .. n
    OBVIOUS
  <2>2. ASSUME NEW i \in 1 .. n + 1, Supplied(i)' PROVE lexer'.eof_newline_done
    BY <1>8, <1>9, <1>10, <2>1, <2>2
  <2>3. ASSUME NEW i \in 1 .. n + 1, NEW j \in 1 .. n + 1, Supplied(i)', Supplied(j)'
        PROVE  i = j
    BY <1>8, <1>9, <1>10, <2>1, <2>3
  <2> QED
    BY <1>3, <2>2, <2>3 DEF Remembered
<1>12. Paid'
  <2> SUFFICES ASSUME EndsSoFar' = {}
               PROVE  n + 1 <= lexer'.pos + (IF lexer'.eof_newline_done THEN 1 ELSE 0)
    BY <1>3 DEF Paid
  <2>1. ASSUME NEW i \in 1 .. n + 1 PROVE tokens'[i].kind # "eof"
    BY <1>3 DEF EndsSoFar
  <2>2. EndsSoFar = {} /\ t.kind # "eof"
    <3>1. t.kind # "eof"
      BY <1>3, <2>1
    <3>2. ASSUME NEW i \in 1 .. n PROVE tokens[i].kind # "eof"
      BY <1>3, <2>1, i \in 1 .. n + 1
    <3> QED
      BY <1>3, <3>1, <3>2 DEF EndsSoFar
  <2>3. n <= lexer.pos + (IF lexer.eof_newline_done THEN 1 ELSE 0)
    BY <1>2, <2>2 DEF LexInv, Paid
  <2>4. CASE t.offset = t.end
    <3>1. t.kind = "newline"
      BY <1>1, <2>2, <2>4
    <3>2. ~lexer.eof_newline_done /\ lexer'.eof_newline_done
      BY <1>8, <2>4, <3>1
    <3> QED
      BY <1>0, <1>1, <2>3, <2>4, <3>2
  <2>5. CASE t.offset # t.end
    <3>1. lexer'.eof_newline_done <=> lexer.eof_newline_done
      BY <1>8, <2>5
    <3> QED
      BY <1>0, <1>1, <2>3, <2>5, <3>1
  <2> QED
    BY <2>4, <2>5
<1>13. FirstOfLine'
  <2>1. /\ lexer.at_line_start <=> n = 0 \/ tokens[n].kind = "newline"
        /\ \A i \in 1 .. n :
             tokens[i].at_line_start <=> i = 1 \/ tokens[i - 1].kind = "newline"
    BY <1>2, <1>3 DEF LexInv, FirstOfLine
  <2>2. /\ lexer'.at_line_start <=> t.kind = "newline"
        /\ t.at_line_start = lexer.at_line_start
    BY DEF Returns
  <2>3. ASSUME NEW i \in 1 .. n + 1
        PROVE  tokens'[i].at_line_start <=> i = 1 \/ tokens'[i - 1].kind = "newline"
    <3>1. i # 1 => tokens'[i - 1] = tokens[i - 1]
      BY <1>3
    <3>2. CASE i = n + 1
      <4>1. i - 1 = n /\ (i = 1 <=> n = 0)
        BY <3>2
      <4> QED
        BY <1>3, <2>1, <2>2, <3>1, <3>2, <4>1
    <3>3. CASE i \in 1 .. n
      BY <1>3, <2>1, <3>1, <3>3
    <3> QED
      BY <3>2, <3>3
  <2> QED
    BY <1>3, <2>2, <2>3 DEF FirstOfLine
<1>14. Numbered'
  <2>1. t.line = 1 + Cardinality(Newlines(text, t.offset))
    BY DEF Returns
  <2>2. ASSUME NEW i \in 1 .. n + 1
        PROVE  tokens'[i].line = 1 + Cardinality(Newlines(text, tokens'[i].offset))
    <3>1. CASE i = n + 1
      BY <1>3, <2>1, <3>1
    <3>2. CASE i \in 1 .. n
      BY <1>3, <3>2 DEF LexInv, Numbered
    <3> QED
      BY <3>1, <3>2
  <2> QED
    BY <1>0, <1>3, <2>2 DEF Numbered
<1> QED
  BY <1>4, <1>6, <1>7, <1>11, <1>12, <1>13, <1>14 DEF LexInv

LEMMA CallKeeps == LexInv /\ [Caller]_lexVars => LexInv'
<1>1. ASSUME LexInv, Caller PROVE LexInv'
  BY <1>1, CallReturns, ReturnsKeeps DEF LexInv
<1>2. ASSUME LexInv, UNCHANGED lexVars PROVE LexInv'
  BY <1>2 DEF lexVars, LexInv, LexTyped, IsSequence, Spans, Span, Ordered,
              Remembered, Supplied, Paid, EndsSoFar, FirstOfLine, Numbered
<1> QED
  BY <1>1, <1>2

(* Whoever calls the lexer, on whatever text, the invariant holds.         *)
THEOREM LexInvariance == LexSpec => []LexInv
BY LexInitHolds, CallKeeps, PTL DEF LexSpec

(* The tokens are spans of the text, in order and apart, and none is empty *)
(* but the end of input and the newline that is missing before it.         *)
TokensApart ==
  /\ \A i \in DOMAIN tokens :
       /\ tokens[i].offset <= tokens[i].end /\ tokens[i].end <= Len(text)
       /\ tokens[i].offset = tokens[i].end =>
            tokens[i].end = Len(text) /\ tokens[i].kind \in {"newline", "eof"}
       /\ tokens[i].kind = "eof" => tokens[i].offset = Len(text)
  /\ \A i, j \in DOMAIN tokens : i < j => tokens[i].end <= tokens[j].offset

LEMMA InvApart == LexInv => TokensApart
<1> SUFFICES ASSUME LexInv PROVE TokensApart
  OBVIOUS
<1>1. lexer.pos \in Nat /\ lexer.pos <= Len(text) /\ Len(text) \in Nat
  BY DEF LexInv, LexTyped, Texts
<1>2. ASSUME NEW i \in DOMAIN tokens
      PROVE  /\ tokens[i].offset <= tokens[i].end /\ tokens[i].end <= Len(text)
             /\ tokens[i].offset = tokens[i].end =>
                  tokens[i].end = Len(text) /\ tokens[i].kind \in {"newline", "eof"}
             /\ tokens[i].kind = "eof" => tokens[i].offset = Len(text)
  <2>1. Span(tokens[i]) /\ tokens[i].end <= lexer.pos
    BY DEF LexInv, Spans
  <2> QED
    BY <1>1, <2>1 DEF Span
<1> QED
  BY <1>2 DEF LexInv, Ordered, TokensApart

(* A last line without a newline gets one, and only one.                   *)
LEMMA InvNewlineOnce == LexInv => NewlineOnce
<1> SUFFICES ASSUME LexInv PROVE NewlineOnce
  OBVIOUS
<1>1. PICK S : S = {i \in DOMAIN tokens :
                      tokens[i].kind = "newline" /\ tokens[i].offset = tokens[i].end}
  OBVIOUS
<1>2. \A i, j \in S : i = j
  BY <1>1 DEF LexInv, Remembered, Supplied
<1>3. CASE S = {}
  BY <1>1, <1>3, FS_EmptySet DEF NewlineOnce
<1>4. CASE S # {}
  <2>1. PICK i : i \in S
    BY <1>4
  <2>2. S = {i}
    BY <1>2, <2>1
  <2>3. Cardinality(S) = 1
    BY <2>2, FS_Singleton
  <2> QED
    BY <1>1, <2>3 DEF NewlineOnce
<1> QED
  BY <1>3, <1>4

(* The end of input comes within as many calls as the text has characters, *)
(* and two.                                                                *)
EndComes == Len(tokens) > Len(text) + 1 => EndsSoFar # {}

LEMMA InvEndComes == LexInv => EndComes
<1> SUFFICES ASSUME LexInv, EndsSoFar = {} PROVE ~(Len(tokens) > Len(text) + 1)
  BY DEF EndComes
<1>1. /\ lexer.pos \in Nat /\ lexer.pos <= Len(text) /\ Len(text) \in Nat
      /\ Len(tokens) \in Nat
  BY DEF LexInv, LexTyped, Texts, IsSequence
<1>2. Len(tokens) <= lexer.pos + (IF lexer.eof_newline_done THEN 1 ELSE 0)
  BY DEF LexInv, Paid
<1> QED
  BY <1>1, <1>2

(* Reports are of places of the text, and none is taken back.              *)
ReportsInside == \A i \in DOMAIN problems : problems[i].offset < Len(text)

LEMMA InvReportsInside == LexInv => ReportsInside
<1> SUFFICES ASSUME LexInv, NEW i \in DOMAIN problems
             PROVE  problems[i].offset < Len(text)
  BY DEF ReportsInside
<1>1. problems \in Seq(Reports0(text))
  BY DEF LexInv, LexTyped
<1>2. problems[i] \in Reports0(text)
  BY <1>1
<1> QED
  BY <1>2 DEF Reports0

(* Whoever calls the lexer, on whatever text, gets tokens that are spans   *)
(* of it, in order and apart, none empty but at the end (lexer.c:92-136).  *)
THEOREM LexedApart == LexSpec => []TokensApart
BY LexInvariance, InvApart, PTL

(* However often it is called, the lexer supplies one newline at most that *)
(* is not in the text (lexer.c:92-107).                                    *)
THEOREM LexedNewlineOnce == LexSpec => []NewlineOnce
BY LexInvariance, InvNewlineOnce, PTL

(* The lexer advances at every call, so that after as many calls as the    *)
(* text has characters, and two, its end has been returned.                *)
THEOREM LexedToTheEnd == LexSpec => []EndComes
BY LexInvariance, InvEndComes, PTL

(* The line of a token, found by binary search in the index of the source, *)
(* is one more than the newlines before it (source.c:41-67, 197-220), and  *)
(* the first token of a line is marked, whatever was passed on the way.    *)
THEOREM LexedLines == LexSpec => [](Numbered /\ FirstOfLine)
<1>1. LexInv => Numbered /\ FirstOfLine
  BY DEF LexInv
<1> QED
  BY <1>1, LexInvariance, PTL

(* Every report points into the text, at a character that is there.        *)
THEOREM LexedReports == LexSpec => []ReportsInside
BY LexInvariance, InvReportsInside, PTL

(* A call goes on from where the last one ended: it appends one token and  *)
(* leaves those before it, and the reports before it, as they were.        *)
OneMore(s, u) == Len(u) = Len(s) + 1 /\ \A i \in DOMAIN s : u[i] = s[i]

Extends(s, u) == Len(s) <= Len(u) /\ \A i \in DOMAIN s : u[i] = s[i]

Forward ==
  /\ text' = text /\ lexer.pos <= lexer'.pos
  /\ OneMore(tokens, tokens') /\ Extends(problems, problems')

LEMMA CallOnward == LexInv /\ [Caller]_lexVars => [Forward]_lexVars
<1> SUFFICES ASSUME LexInv, Caller PROVE Forward
  OBVIOUS
<1>0. LexTyped
  BY DEF LexInv
<1>1. PICK t : Returns(t)
  BY <1>0, CallReturns
<1>2. text' = text /\ lexer.pos <= lexer'.pos
  <2>1. /\ lexer.pos \in Nat /\ t.offset \in Nat /\ t.end \in Nat
        /\ lexer.pos <= t.offset /\ t.offset <= t.end /\ lexer'.pos = t.end
    BY <1>0, <1>1 DEF LexTyped, Returns, Span
  <2> QED
    BY <1>1, <2>1 DEF Returns
<1>3. OneMore(tokens, tokens')
  <2>1. IsSequence(tokens) /\ tokens' = Append(tokens, t)
    BY <1>0, <1>1 DEF LexTyped, Returns
  <2> QED
    BY <2>1, AppendIs DEF OneMore
<1>4. Extends(problems, problems')
  <2>1. PICK S : S = Reports0(text)
    OBVIOUS
  <2>2. PICK more \in Seq(S) : problems' = problems \o more
    BY <1>1, <2>1 DEF Returns
  <2>3. problems \in Seq(S)
    BY <1>0, <2>1 DEF LexTyped
  <2>4. /\ Len(problems \o more) = Len(problems) + Len(more)
        /\ \A i \in 1 .. Len(problems) : (problems \o more)[i] = problems[i]
        /\ DOMAIN problems = 1 .. Len(problems)
        /\ Len(problems) \in Nat /\ Len(more) \in Nat
    BY <2>2, <2>3
  <2> QED
    BY <2>2, <2>4 DEF Extends
<1> QED
  BY <1>2, <1>3, <1>4 DEF Forward

(* A call never goes back, and never changes what earlier calls returned   *)
(* or reported.                                                            *)
THEOREM LexedOnward == LexSpec => [][Forward]_lexVars
BY LexInvariance, CallOnward, PTL DEF LexSpec
=============================================================================
