---------------------------- MODULE SymtabProofs ----------------------------
(***************************************************************************)
(* Proofs that the chains of the symbol table never disagree with its      *)
(* scopes, and that it answers as a stack of scopes does, for any names,   *)
(* any hashes, any number of buckets and any bounds.  The module goes from *)
(* lists of symbols, newest first, to what each call preserves, and from   *)
(* there to what a lookup finds.                                           *)
(***************************************************************************)
EXTENDS Symtab, SequenceTheorems, FiniteSetTheorems,
        WellFoundedInduction, TLAPS

-----------------------------------------------------------------------------
(* Lists of numbers.                                                       *)

LEMMA MembersAre ==
  ASSUME NEW l \in Seq(Nat)
  PROVE  /\ Members(l) = {l[i] : i \in 1 .. Len(l)}
         /\ Members(l) \subseteq Nat
         /\ \A s : s \in Members(l) <=> \E i \in 1 .. Len(l) : l[i] = s
<1>1. DOMAIN l = 1 .. Len(l) /\ \A i \in 1 .. Len(l) : l[i] \in Nat
  BY LenProperties
<1> QED
  BY <1>1 DEF Members

LEMMA EmptyList ==
  /\ <<>> \in Seq(Nat) /\ Len(<<>>) = 0
  /\ Members(<<>>) = {} /\ NewestFirst(<<>>)
<1>1. <<>> \in Seq(Nat) /\ Len(<<>>) = 0
  BY EmptySeq
<1>2. 1 .. 0 = {}
  OBVIOUS
<1>3. DOMAIN <<>> = {}
  BY <1>1, <1>2, LenProperties
<1> QED
  BY <1>1, <1>3 DEF Members, NewestFirst

LEMMA Ordered ==
  ASSUME NEW l \in Seq(Nat)
  PROVE  NewestFirst(l) <=> \A i, j \in 1 .. Len(l) : i < j => l[i] > l[j]
BY LenProperties DEF NewestFirst

(* A new head.                                                             *)
LEMMA Pushed ==
  ASSUME NEW l \in Seq(Nat), NEW x \in Nat
  PROVE  /\ <<x>> \o l \in Seq(Nat)
         /\ Members(<<x>> \o l) = {x} \cup Members(l)
         /\ NewestFirst(l) /\ (\A s \in Members(l) : s < x)
              => NewestFirst(<<x>> \o l)
<1> DEFINE m == <<x>> \o l
<1>1. <<x>> \in Seq(Nat) /\ Len(<<x>>) = 1 /\ <<x>>[1] = x
  OBVIOUS
<1>2. Len(l) \in Nat /\ \A i \in 1 .. Len(l) : l[i] \in Nat
  BY LenProperties
<1>3. /\ m \in Seq(Nat) /\ Len(m) = Len(l) + 1
      /\ m[1] = x
      /\ \A i \in 1 .. Len(l) : m[i + 1] = l[i]
  <2>1. /\ m \in Seq(Nat) /\ Len(m) = 1 + Len(l)
        /\ \A i \in 1 .. 1 + Len(l) : m[i] = IF i <= 1 THEN <<x>>[i] ELSE l[i - 1]
    BY <1>1, ConcatProperties
  <2> HIDE DEF m
  <2> QED
    BY <1>1, <1>2, <2>1
<1> HIDE DEF m
<1>4. \A i \in 2 .. Len(m) : i - 1 \in 1 .. Len(l) /\ m[i] = l[i - 1]
  BY <1>2, <1>3
<1>5. Members(m) = {x} \cup Members(l)
  <2>1. ASSUME NEW s \in Members(m) PROVE s \in {x} \cup Members(l)
    <3>1. PICK i \in 1 .. Len(m) : m[i] = s
      BY <1>3, MembersAre
    <3>2. CASE i = 1
      BY <1>3, <3>1, <3>2
    <3>3. CASE i # 1
      <4>1. i \in 2 .. Len(m)
        BY <1>2, <1>3, <3>1, <3>3
      <4> QED
        BY <1>4, <3>1, <4>1, MembersAre
    <3> QED
      BY <3>2, <3>3
  <2>2. x \in Members(m)
    <3>1. 1 \in 1 .. Len(m)
      BY <1>2, <1>3
    <3> QED
      BY <1>3, <3>1, MembersAre
  <2>3. ASSUME NEW s \in Members(l) PROVE s \in Members(m)
    <3>1. PICK i \in 1 .. Len(l) : l[i] = s
      BY MembersAre
    <3>2. i + 1 \in 1 .. Len(m) /\ m[i + 1] = s
      BY <1>2, <1>3, <3>1
    <3> QED
      BY <1>3, <3>2, MembersAre
  <2> QED
    BY <2>1, <2>2, <2>3
<1>6. ASSUME NewestFirst(l), \A s \in Members(l) : s < x PROVE NewestFirst(m)
  <2>1. SUFFICES ASSUME NEW i \in 1 .. Len(m), NEW j \in 1 .. Len(m), i < j
                 PROVE  m[i] > m[j]
    BY <1>3, Ordered
  <2>2. j \in 2 .. Len(m) /\ j - 1 \in 1 .. Len(l) /\ m[j] = l[j - 1]
    <3>1. j \in 2 .. Len(m)
      BY <1>2, <1>3, <2>1
    <3> QED
      BY <1>4, <3>1
  <2>3. l[j - 1] \in Members(l) /\ l[j - 1] \in Nat
    BY <1>2, <2>2, MembersAre
  <2>4. CASE i = 1
    BY <1>3, <1>6, <2>2, <2>3, <2>4
  <2>5. CASE i # 1
    <3>1. i \in 2 .. Len(m) /\ i - 1 < j - 1
      BY <1>2, <1>3, <2>1, <2>5
    <3>2. i - 1 \in 1 .. Len(l) /\ m[i] = l[i - 1]
      BY <1>4, <3>1
    <3> QED
      BY <1>6, <2>2, <3>1, <3>2, Ordered
  <2> QED
    BY <2>4, <2>5
<1> QED
  BY <1>3, <1>5, <1>6 DEF m

(* A head taken off.                                                       *)
LEMMA Popped ==
  ASSUME NEW l \in Seq(Nat), l # <<>>, NewestFirst(l)
  PROVE  /\ Head(l) \in Members(l) /\ Head(l) \in Nat
         /\ \A s \in Members(l) : s <= Head(l)
         /\ Tail(l) \in Seq(Nat) /\ NewestFirst(Tail(l))
         /\ Members(Tail(l)) = Members(l) \ {Head(l)}
<1> DEFINE h == Head(l)
           t == Tail(l)
<1>1. /\ Len(l) \in Nat \ {0} /\ h = l[1]
      /\ \A i \in 1 .. Len(l) : l[i] \in Nat
      /\ \A i, j \in 1 .. Len(l) : i < j => l[i] > l[j]
  BY EmptySeq, LenProperties, Ordered
<1>2. t \in Seq(Nat) /\ Len(t) = Len(l) - 1 /\ \A i \in 1 .. Len(t) : t[i] = l[i + 1]
  BY HeadTailProperties
<1> HIDE DEF h, t
<1>3. 1 \in 1 .. Len(l)
  BY <1>1
<1>4. h \in Members(l) /\ h \in Nat
  BY <1>1, <1>3, MembersAre
<1>5. ASSUME NEW s \in Members(l) PROVE s <= h
  <2>1. PICK i \in 1 .. Len(l) : l[i] = s
    BY MembersAre
  <2> QED
    BY <1>1, <1>3, <2>1
<1>6. NewestFirst(t)
  <2>1. SUFFICES ASSUME NEW i \in 1 .. Len(t), NEW j \in 1 .. Len(t), i < j
                 PROVE  t[i] > t[j]
    BY <1>2, Ordered
  <2>2. i + 1 \in 1 .. Len(l) /\ j + 1 \in 1 .. Len(l) /\ i + 1 < j + 1
    BY <1>1, <1>2, <2>1
  <2> QED
    BY <1>1, <1>2, <2>2
<1>7. ASSUME NEW s \in Members(t) PROVE s \in Members(l) \ {h}
  <2>1. PICK i \in 1 .. Len(t) : t[i] = s
    BY <1>2, MembersAre
  <2>2. i + 1 \in 1 .. Len(l) /\ l[i + 1] = s /\ 1 < i + 1
    BY <1>1, <1>2, <2>1
  <2>3. h > s
    BY <1>1, <1>3, <2>2
  <2> QED
    BY <1>1, <1>3, <2>2, <2>3, MembersAre
<1>8. ASSUME NEW s \in Members(l), s # h PROVE s \in Members(t)
  <2>1. PICK i \in 1 .. Len(l) : l[i] = s
    BY MembersAre
  <2>2. i # 1
    BY <1>1, <1>8, <2>1
  <2>3. i - 1 \in 1 .. Len(t) /\ t[i - 1] = s
    BY <1>1, <1>2, <2>1, <2>2
  <2> QED
    BY <1>2, <2>3, MembersAre
<1> QED
  BY <1>2, <1>4, <1>5, <1>6, <1>7, <1>8 DEF h, t

(* The greatest member is the head, and unlinking it takes the tail.       *)
LEMMA GreatestIsHead ==
  ASSUME NEW l \in Seq(Nat), NewestFirst(l), NEW x \in Members(l),
         \A s \in Members(l) : s <= x
  PROVE  l # <<>> /\ Head(l) = x
<1>1. l # <<>>
  BY EmptyList
<1>2. Head(l) \in Members(l) /\ Head(l) \in Nat /\ x <= Head(l) /\ x \in Nat
  BY <1>1, Popped, MembersAre
<1> QED
  BY <1>1, <1>2

LEMMA HeadUnlinked ==
  ASSUME NEW l \in Seq(Nat), l # <<>>
  PROVE  Unlinked(l, Head(l)) = Tail(l)
<1>1. Len(l) \in Nat \ {0} /\ Head(l) = l[1] /\ DOMAIN l = 1 .. Len(l) /\ 1 \in 1 .. Len(l)
  BY EmptySeq, LenProperties
<1>2. Head(l) \in Members(l)
  BY <1>1 DEF Members
<1> DEFINE First(k) == l[k] = Head(l) /\ \A j \in 1 .. k - 1 : l[j] # Head(l)
           i == CHOOSE k \in DOMAIN l : First(k)
<1>3. First(1)
  BY <1>1
<1>4. \A k \in DOMAIN l : First(k) => k = 1
  <2> SUFFICES ASSUME NEW k \in 1 .. Len(l), First(k), k # 1 PROVE FALSE
    BY <1>1
  <2>1. 1 \in 1 .. k - 1
    BY <1>1
  <2> QED
    BY <1>1, <2>1
<1>5. i = 1
  BY <1>1, <1>3, <1>4
<1> HIDE DEF i
<1>6. SubSeq(l, 1, i - 1) = <<>>
  <2>1. i - 1 = 0
    BY <1>5
  <2> QED
    BY <2>1, SubSeqEmpty
<1>7. SubSeq(l, i + 1, Len(l)) = Tail(l)
  <2>1. i + 1 = 2
    BY <1>5
  <2> QED
    BY <2>1, TailIsSubSeq
<1>8. Tail(l) \in Seq(Nat)
  BY HeadTailProperties
<1>9. SubSeq(l, 1, i - 1) \o SubSeq(l, i + 1, Len(l)) = Tail(l)
  BY <1>6, <1>7, <1>8, ConcatEmptySeq
<1> QED
  BY <1>2, <1>9 DEF Unlinked, i, First

-----------------------------------------------------------------------------
(* The first match of a list is its greatest one.                          *)
Before == {ss \in Nat \X Nat : ss[1] < ss[2]}

LEMMA LeastPlace ==
  ASSUME NEW T \in SUBSET Nat, T # {}
  PROVE  \E x \in T : \A y \in T : x <= y
<1>1. IsWellFoundedOn(Before, Nat)
  BY NatLessThanWellFounded DEF OpToRel, Before
<1>2. PICK x \in T : \A y \in T : ~(<<y, x>> \in Before)
  BY <1>1, WFMin
<1>3. ASSUME NEW y \in T PROVE x <= y
  <2>1. x \in Nat /\ y \in Nat
    OBVIOUS
  <2>2. y < x => <<y, x>> \in Before
    BY <2>1 DEF Before
  <2> QED
    BY <1>2, <2>1, <2>2
<1> QED
  BY <1>3

Binds(sym, S, n, ns) == {s \in S : sym[s].name = n /\ sym[s].ns = ns}

FirstOf(sym, l, n, ns) ==
  LET M == {i \in DOMAIN l : sym[l[i]].name = n /\ sym[l[i]].ns = ns}
  IN  IF M = {} THEN Unbound ELSE l[CHOOSE i \in M : \A j \in M : i <= j]

LEMMA FirstMatchIs ==
  ASSUME NEW l, NEW n, NEW ns
  PROVE  FirstMatch(l, n, ns) = FirstOf(symbols, l, n, ns)
BY DEF FirstMatch, Matches, FirstOf

IsGreatest(r, S) ==
  \/ S = {} /\ r = Unbound
  \/ r \in S /\ \A s \in S : s <= r

LEMMA OneGreatest ==
  ASSUME NEW S \in SUBSET Nat, NEW r, NEW q, IsGreatest(r, S), IsGreatest(q, S)
  PROVE  r = q
<1>1. CASE S = {}
  BY <1>1 DEF IsGreatest
<1>2. CASE S # {}
  <2>1. r \in S /\ q \in S /\ r <= q /\ q <= r
    BY <1>2 DEF IsGreatest
  <2> QED
    BY <2>1
<1> QED
  BY <1>1, <1>2

LEMMA FirstIsGreatest ==
  ASSUME NEW sym, NEW l \in Seq(Nat), NewestFirst(l), NEW n, NEW ns
  PROVE  IsGreatest(FirstOf(sym, l, n, ns), Binds(sym, Members(l), n, ns))
<1> DEFINE M == {i \in DOMAIN l : sym[l[i]].name = n /\ sym[l[i]].ns = ns}
           B == Binds(sym, Members(l), n, ns)
           least == CHOOSE i \in M : \A j \in M : i <= j
<1>1. DOMAIN l = 1 .. Len(l) /\ Len(l) \in Nat /\ \A i \in 1 .. Len(l) : l[i] \in Nat
  BY LenProperties
<1>2. \A s : s \in B <=> \E i \in M : l[i] = s
  <2>1. ASSUME NEW s \in B PROVE \E i \in M : l[i] = s
    <3>1. s \in Members(l) /\ sym[s].name = n /\ sym[s].ns = ns
      BY DEF Binds
    <3>2. PICK i \in 1 .. Len(l) : l[i] = s
      BY <3>1, MembersAre
    <3> QED
      BY <1>1, <3>1, <3>2
  <2>2. ASSUME NEW i \in M PROVE l[i] \in B
    BY <1>1, MembersAre DEF Binds
  <2> QED
    BY <2>1, <2>2
<1>3. FirstOf(sym, l, n, ns) = IF M = {} THEN Unbound ELSE l[least]
  BY DEF FirstOf
<1>4. CASE M = {}
  <2>1. B = {}
    BY <1>2, <1>4
  <2> QED
    BY <1>3, <1>4, <2>1 DEF IsGreatest
<1>5. CASE M # {}
  <2>1. M \in SUBSET Nat
    BY <1>1
  <2>2. \E i \in M : \A j \in M : i <= j
    BY <1>5, <2>1, LeastPlace
  <2>3. least \in M /\ \A j \in M : least <= j
    BY <2>2
  <2>4. l[least] \in B
    BY <1>2, <2>3
  <2>5. ASSUME NEW s \in B PROVE s <= l[least]
    <3>1. PICK j \in M : l[j] = s
      BY <1>2
    <3>2. least \in 1 .. Len(l) /\ j \in 1 .. Len(l) /\ least <= j
      BY <1>1, <2>3
    <3> HIDE DEF least, M
    <3>3. CASE least = j
      BY <1>1, <3>1, <3>2, <3>3
    <3>4. CASE least < j
      BY <1>1, <3>1, <3>2, <3>4, Ordered
    <3> QED
      BY <3>2, <3>3, <3>4
  <2> QED
    BY <1>3, <1>5, <2>4, <2>5 DEF IsGreatest
<1> QED
  BY <1>4, <1>5

(* A list keeps its matches as long as its symbols do.                     *)
LEMMA FirstKept ==
  ASSUME NEW l \in Seq(Nat), NewestFirst(l), NEW sym, NEW sym2,
         \A s \in Members(l) : sym2[s] = sym[s], NEW n, NEW ns
  PROVE  FirstOf(sym2, l, n, ns) = FirstOf(sym, l, n, ns)
<1>1. Binds(sym2, Members(l), n, ns) = Binds(sym, Members(l), n, ns)
  BY DEF Binds
<1>2. Binds(sym, Members(l), n, ns) \in SUBSET Nat
  BY MembersAre DEF Binds
<1> QED
  BY <1>1, <1>2, FirstIsGreatest, OneGreatest

(* A new head is the first match for its own name, and for no other.       *)
LEMMA FirstPushed ==
  ASSUME NEW l \in Seq(Nat), NewestFirst(l), NEW x \in Nat,
         \A s \in Members(l) : s < x,
         NEW sym, NEW sym2, \A s \in Members(l) : sym2[s] = sym[s],
         NEW n, NEW ns
  PROVE  FirstOf(sym2, <<x>> \o l, n, ns) =
           IF sym2[x].name = n /\ sym2[x].ns = ns THEN x ELSE FirstOf(sym, l, n, ns)
<1> DEFINE m == <<x>> \o l
           B == Binds(sym2, Members(m), n, ns)
<1>1. /\ m \in Seq(Nat) /\ NewestFirst(m)
      /\ Members(m) = {x} \cup Members(l)
  BY Pushed
<1> HIDE DEF m
<1>2. IsGreatest(FirstOf(sym2, m, n, ns), B)
  BY <1>1, FirstIsGreatest
<1>5. B \in SUBSET Nat
  BY <1>1, MembersAre DEF Binds
<1>3. CASE sym2[x].name = n /\ sym2[x].ns = ns
  <2>1. x \in B /\ \A s \in B : s <= x
    BY <1>1, <1>3, MembersAre DEF Binds
  <2> QED
    BY <1>2, <1>3, <1>5, <2>1, OneGreatest DEF IsGreatest, m
<1>4. CASE ~(sym2[x].name = n /\ sym2[x].ns = ns)
  <2>1. B = Binds(sym, Members(l), n, ns)
    BY <1>1, <1>4 DEF Binds
  <2>2. IsGreatest(FirstOf(sym, l, n, ns), B)
    BY <2>1, FirstIsGreatest
  <2> QED
    BY <1>2, <1>4, <1>5, <2>2, OneGreatest DEF m
<1> QED
  BY <1>3, <1>4

-----------------------------------------------------------------------------
(* The inductive invariant.                                                *)
Known == 1 .. Len(symbols)

Types ==
  /\ hash \in [Names -> Slots]
  /\ symbols \in Seq(Symbol)
  /\ buckets \in [Slots -> Seq(Nat)]
  /\ scopes \in Seq(Seq(Nat))
  /\ scope_cap \in Nat
  /\ Innermost \in 1 .. scope_cap
  /\ popping \in BOOLEAN
  /\ rest \in Seq(Nat)
  /\ \A k \in 1 .. Innermost : Members(scopes[k]) \subseteq Known

(* Each scope lists its own symbols, and those of an inner scope are newer *)
(* than those of an outer one.                                             *)
Layered(sym, sc) ==
  /\ \A k \in 1 .. Len(sc) :
       /\ NewestFirst(sc[k])
       /\ \A s \in Members(sc[k]) : sym[s].depth = k - 1
  /\ \A k, m \in 1 .. Len(sc) :
       k < m => \A s \in Members(sc[k]), t \in Members(sc[m]) : s < t

(* The scope that is being closed is not the file scope, and what is left  *)
(* of its list is in order.                                                *)
Closing ==
  /\ popping => /\ Innermost > 1
                /\ NewestFirst(rest) /\ Members(rest) \subseteq Members(scopes[Innermost])
  /\ ~popping => rest = <<>>

Chained ==
  \A b \in Slots : /\ NewestFirst(buckets[b])
                   /\ Members(buckets[b]) = {s \in Bound : Bucket(s) = b}

Counted == IsFiniteSet(Bound) /\ symbol_count = Cardinality(Bound)

IInv == Types /\ Layered(symbols, scopes) /\ Closing /\ Chained /\ Counted

-----------------------------------------------------------------------------
(* What follows from the types.                                            *)
LEMMA SymbolIs ==
  /\ \A s \in Symbol : /\ s.name \in Names /\ s.depth \in Nat
                       /\ [ns |-> s.ns, kind |-> s.kind] \in Scopes!Bindings
                       /\ s.ns \in {"ordinary", "tag"}
  /\ \A n \in Names, b \in Scopes!Bindings, d \in Nat :
       [name |-> n, ns |-> b.ns, kind |-> b.kind, depth |-> d] \in Symbol
<1>1. ASSUME NEW s \in Symbol
      PROVE  /\ s.name \in Names /\ s.depth \in Nat
             /\ [ns |-> s.ns, kind |-> s.kind] \in Scopes!Bindings
             /\ s.ns \in {"ordinary", "tag"}
  <2>1. PICK n \in Names, b \in Scopes!Bindings, d \in Nat :
          s = [name |-> n, ns |-> b.ns, kind |-> b.kind, depth |-> d]
    BY DEF Symbol
  <2>2. b = [ns |-> b.ns, kind |-> b.kind] /\ b.ns \in {"ordinary", "tag"}
    BY DEF Scopes!Bindings
  <2> QED
    BY <2>1, <2>2
<1>2. ASSUME NEW n \in Names, NEW b \in Scopes!Bindings, NEW d \in Nat
      PROVE  [name |-> n, ns |-> b.ns, kind |-> b.kind, depth |-> d] \in Symbol
  BY DEF Symbol
<1> QED
  BY <1>1, <1>2

LEMMA TypesGive ==
  ASSUME Types
  PROVE  /\ Innermost \in Nat \ {0} /\ DOMAIN scopes = 1 .. Innermost
         /\ Len(symbols) \in Nat /\ DOMAIN symbols = Known
         /\ \A k \in 1 .. Innermost : scopes[k] \in Seq(Nat)
         /\ \A s \in Known : symbols[s] \in Symbol /\ Bucket(s) \in Slots
         /\ \A b \in Slots : buckets[b] \in Seq(Nat)
<1>1. Innermost \in Nat \ {0} /\ DOMAIN scopes = 1 .. Innermost
      /\ \A k \in 1 .. Innermost : scopes[k] \in Seq(Nat)
  BY LenProperties DEF Types, Innermost
<1>2. Len(symbols) \in Nat /\ DOMAIN symbols = Known
      /\ \A s \in Known : symbols[s] \in Symbol
  BY LenProperties DEF Types, Known
<1>3. \A s \in Known : Bucket(s) \in Slots
  BY <1>2, SymbolIs DEF Bucket, Types
<1> QED
  BY <1>1, <1>2, <1>3 DEF Types

(* The bound symbols, by what they depend on.                              *)
BoundOf(sc, open, r) == (UNION {Members(sc[k]) : k \in 1 .. open}) \cup Members(r)

LEMMA InBound ==
  ASSUME NEW sc, NEW open, NEW r, NEW s
  PROVE  s \in BoundOf(sc, open, r) <=>
           (\E k \in 1 .. open : s \in Members(sc[k])) \/ s \in Members(r)
<1> DEFINE U == UNION {Members(sc[k]) : k \in 1 .. open}
<1>1. s \in U <=> \E k \in 1 .. open : s \in Members(sc[k])
  OBVIOUS
<1>2. BoundOf(sc, open, r) = U \cup Members(r)
  BY DEF BoundOf
<1> HIDE DEF U
<1> QED
  BY <1>1, <1>2

LEMMA BoundIs ==
  /\ popping => Bound = BoundOf(scopes, Innermost - 1, rest)
  /\ ~popping /\ Innermost \in Nat => Bound = BoundOf(scopes, Innermost, rest)
<1>1. popping => Scopes!Flag(popping) = 1
  BY DEF Scopes!Flag
<1>2. ~popping => Scopes!Flag(popping) = 0
  BY DEF Scopes!Flag
<1> QED
  BY <1>1, <1>2 DEF Bound, BoundOf

LEMMA BoundKnown ==
  ASSUME Types, Closing
  PROVE  Bound \subseteq Known
<1>1. Members(rest) \subseteq Known
  <2>1. CASE popping
    BY <2>1, TypesGive DEF Closing, Types
  <2>2. CASE ~popping
    BY <2>2, EmptyList DEF Closing
  <2> QED
    BY <2>1, <2>2
<1>2. Innermost - Scopes!Flag(popping) <= Innermost /\ Innermost - Scopes!Flag(popping) \in Int
  BY TypesGive DEF Scopes!Flag
<1>3. ASSUME NEW k \in 1 .. Innermost - Scopes!Flag(popping)
      PROVE  Members(scopes[k]) \subseteq Known
  <2>1. k \in 1 .. Innermost
    BY <1>2, TypesGive
  <2> QED
    BY <2>1 DEF Types
<1>4. ASSUME NEW s \in Bound PROVE s \in Known
  <2>1. s \in Members(rest)
        \/ \E k \in 1 .. Innermost - Scopes!Flag(popping) : s \in Members(scopes[k])
    BY InBound DEF Bound, BoundOf
  <2> QED
    BY <1>1, <1>3, <2>1
<1> QED
  BY <1>4

-----------------------------------------------------------------------------
(* The file scope.                                                         *)
LEMMA Start == Init => IInv
<1> SUFFICES ASSUME Init PROVE IInv
  OBVIOUS
<1>1. Len(scopes) = 1 /\ scopes[1] = <<>> /\ scopes \in Seq(Seq(Nat))
  BY EmptyList DEF Init
<1>2. Slots # {} /\ 0 \in Slots
  BY SymtabAssumption DEF Slots
<1>3. symbols \in Seq(Symbol)
  BY EmptySeq DEF Init
<1>4. Members(scopes[1]) = {} /\ NewestFirst(scopes[1])
  BY <1>1, EmptyList
<1>5. 1 .. Innermost = {1}
  BY <1>1 DEF Innermost
<1>6. Types
  <2>1. hash \in [Names -> Slots] /\ buckets \in [Slots -> Seq(Nat)] /\ popping \in BOOLEAN
        /\ rest \in Seq(Nat)
    BY EmptyList DEF Init
  <2>2. scope_cap \in Nat /\ Innermost \in 1 .. scope_cap
    BY <1>1, SymtabAssumption DEF Init, Innermost
  <2>3. \A k \in 1 .. Innermost : Members(scopes[k]) \subseteq Known
    BY <1>4, <1>5
  <2> QED
    BY <1>1, <1>3, <2>1, <2>2, <2>3 DEF Types
<1>7. Layered(symbols, scopes)
  BY <1>1, <1>4 DEF Layered
<1>8. Closing
  BY DEF Closing, Init
<1>9. Bound = {}
  BY <1>1, <1>4, <1>5, BoundIs, EmptyList DEF Init, BoundOf, Innermost
<1>10. Chained
  BY <1>9, EmptyList DEF Chained, Init
<1>11. Counted
  BY <1>9, FS_EmptySet DEF Counted, Init
<1> QED
  BY <1>6, <1>7, <1>8, <1>10, <1>11 DEF IInv

-----------------------------------------------------------------------------
(* Steps that change no list.                                              *)
LEMMA ListsKept ==
  ASSUME IInv, UNCHANGED <<hash, symbols, buckets, scopes, scope_cap, symbol_count,
                           popping, rest>>
  PROVE  IInv'
<1>1. Known' = Known /\ Innermost' = Innermost
  BY DEF Known, Innermost
<1>2. Types'
  BY <1>1 DEF IInv, Types, Slots, Symbol, Scopes!Bindings
<1>3. Layered(symbols, scopes)' /\ Closing'
  BY <1>1 DEF IInv, Layered, Closing
<1>4. Bound' = Bound
  BY <1>1 DEF Bound, Scopes!Flag
<1>5. \A s : Bucket(s)' = Bucket(s)
  BY DEF Bucket
<1>6. Chained' /\ Counted'
  BY <1>4, <1>5 DEF IInv, Chained, Counted, Slots
<1> QED
  BY <1>2, <1>3, <1>6 DEF IInv

(* A scope opened.                                                         *)
LEMMA PushKeeps ==
  ASSUME IInv, PushScope
  PROVE  IInv'
<1>1. /\ ~popping /\ ~popping' /\ popping' = popping /\ rest' = rest /\ symbols' = symbols
      /\ hash' = hash /\ buckets' = buckets /\ symbol_count' = symbol_count
  BY DEF PushScope
<1>2. Types /\ Closing /\ Layered(symbols, scopes) /\ Innermost \in Nat \ {0}
  BY TypesGive DEF IInv
<1>3. /\ scopes' \in Seq(Seq(Nat)) /\ Innermost' = Innermost + 1
      /\ \A k \in 1 .. Innermost : scopes'[k] = scopes[k]
      /\ scopes'[Innermost + 1] = <<>>
  BY <1>2, EmptyList, AppendProperties DEF PushScope, Types, Innermost
<1>4. Known' = Known
  BY <1>1 DEF Known
<1>5. Members(scopes'[Innermost + 1]) = {} /\ NewestFirst(scopes'[Innermost + 1])
  BY <1>3, EmptyList
<1>6. \A k \in 1 .. Innermost + 1 : k \in 1 .. Innermost \/ k = Innermost + 1
  BY <1>2
<1>7. Types'
  <2>1. \A k \in 1 .. Innermost' : Members(scopes'[k]) \subseteq Known
    BY <1>2, <1>3, <1>5, <1>6 DEF Types
  <2>2. scope_cap' \in Nat /\ Innermost' \in 1 .. scope_cap'
    BY <1>2, <1>3 DEF PushScope, Types
  <2>3. /\ hash \in [Names -> Slots] /\ symbols \in Seq(Symbol)
        /\ buckets \in [Slots -> Seq(Nat)] /\ rest \in Seq(Nat)
    BY <1>2 DEF Types
  <2>4. /\ hash' \in [Names -> Slots'] /\ symbols' \in Seq(Symbol')
        /\ buckets' \in [Slots' -> Seq(Nat)] /\ rest' \in Seq(Nat)
    BY <1>1, <2>3 DEF Slots, Symbol, Scopes!Bindings
  <2>5. popping' \in BOOLEAN
    BY <1>1, <1>2 DEF Types
  <2>6. \A k \in 1 .. Innermost' : Members(scopes'[k]) \subseteq Known'
    BY <1>4, <2>1
  <2> QED
    BY <1>1, <1>3, <2>2, <2>4, <2>5, <2>6 DEF Types
<1>8. Layered(symbols', scopes')
  <2>1. Len(scopes') = Innermost + 1 /\ Len(scopes) = Innermost
    BY <1>3 DEF Innermost
  <2>2. ASSUME NEW k \in 1 .. Innermost + 1
        PROVE  NewestFirst(scopes'[k]) /\ \A s \in Members(scopes'[k]) : symbols[s].depth = k - 1
    BY <1>2, <1>3, <1>5, <1>6, <2>1 DEF Layered
  <2>3. ASSUME NEW k \in 1 .. Innermost + 1, NEW m \in 1 .. Innermost + 1, k < m
        PROVE  \A s \in Members(scopes'[k]), t \in Members(scopes'[m]) : s < t
    BY <1>2, <1>3, <1>5, <1>6, <2>1, <2>3 DEF Layered
  <2> QED
    BY <1>1, <2>1, <2>2, <2>3 DEF Layered
<1>9. Closing'
  BY <1>1, <1>2 DEF Closing
<1>10. Bound' = Bound
  <2>1. Bound = BoundOf(scopes, Innermost, rest)
    BY <1>1, <1>2, BoundIs
  <2>2. Bound' = BoundOf(scopes', Innermost', rest')
    BY <1>1, <1>2, <1>3 DEF Bound, BoundOf, Scopes!Flag, Innermost
  <2>3. (1 .. Innermost) \subseteq 1 .. Innermost + 1
    BY <1>2
  <2>4. ASSUME NEW s
        PROVE  s \in BoundOf(scopes', Innermost + 1, rest) <=> s \in BoundOf(scopes, Innermost, rest)
    <3>1. (\E k \in 1 .. Innermost + 1 : s \in Members(scopes'[k]))
            <=> \E k \in 1 .. Innermost : s \in Members(scopes[k])
      BY <1>3, <1>5, <1>6, <2>3
    <3> QED
      BY <3>1, InBound
  <2> QED
    BY <1>1, <1>3, <2>1, <2>2, <2>4
<1>11. \A s : Bucket(s)' = Bucket(s)
  BY <1>1 DEF Bucket
<1>12. Chained' /\ Counted'
  BY <1>1, <1>10, <1>11 DEF IInv, Chained, Counted, Slots
<1> QED
  BY <1>7, <1>8, <1>9, <1>12 DEF IInv

(* A scope begins to close: nothing is unbound yet.                        *)
LEMMA PopStartKeeps ==
  ASSUME IInv, PopStart
  PROVE  IInv'
<1>1. /\ ~popping /\ popping' /\ Innermost > 1 /\ rest' = scopes[Innermost] /\ rest = <<>>
      /\ UNCHANGED <<hash, symbols, buckets, scopes, scope_cap, symbol_count>>
  BY DEF PopStart, IInv, Closing
<1>2. Types /\ Closing /\ Layered(symbols, scopes) /\ Innermost \in Nat \ {0}
  BY TypesGive DEF IInv
<1>3. Known' = Known /\ Innermost' = Innermost
  BY <1>1 DEF Known, Innermost
<1>4. scopes[Innermost] \in Seq(Nat) /\ NewestFirst(scopes[Innermost])
  BY <1>2, TypesGive DEF Layered, Innermost
<1>5. popping' \in BOOLEAN
  BY DEF PopStart
<1>6. Types'
  BY <1>1, <1>2, <1>3, <1>4, <1>5 DEF Types, Slots, Symbol, Scopes!Bindings
<1>7. Layered(symbols, scopes)'
  BY <1>1, <1>2 DEF Layered
<1>8. Closing'
  BY <1>1, <1>3, <1>4 DEF Closing
<1>9. Bound' = Bound
  <2>1. Bound = BoundOf(scopes, Innermost, rest) /\ Members(rest) = {}
    BY <1>1, <1>2, BoundIs, EmptyList
  <2>2. Bound' = BoundOf(scopes, Innermost - 1, scopes[Innermost])
    BY <1>1, <1>3 DEF Bound, BoundOf, Scopes!Flag
  <2>3. \A k \in 1 .. Innermost : k \in 1 .. Innermost - 1 \/ k = Innermost
    BY <1>2
  <2>4. (1 .. Innermost - 1) \subseteq 1 .. Innermost /\ Innermost \in 1 .. Innermost
    BY <1>2
  <2>5. ASSUME NEW s
        PROVE  s \in BoundOf(scopes, Innermost - 1, scopes[Innermost])
                 <=> s \in BoundOf(scopes, Innermost, rest)
    <3>1. (\E k \in 1 .. Innermost : s \in Members(scopes[k]))
            <=> \/ \E k \in 1 .. Innermost - 1 : s \in Members(scopes[k])
                \/ s \in Members(scopes[Innermost])
      BY <2>3, <2>4
    <3> QED
      BY <2>1, <3>1, InBound
  <2> QED
    BY <2>1, <2>2, <2>5
<1>10. \A s : Bucket(s)' = Bucket(s)
  BY <1>1 DEF Bucket
<1>11. Chained' /\ Counted'
  BY <1>1, <1>9, <1>10 DEF IInv, Chained, Counted, Slots
<1> QED
  BY <1>6, <1>7, <1>8, <1>11 DEF IInv

(* All of the list is unlinked, and the scope is dropped.                  *)
LEMMA PopFinishKeeps ==
  ASSUME IInv, PopFinish
  PROVE  IInv'
<1>1. /\ popping /\ ~popping' /\ popping' \in BOOLEAN /\ rest = <<>> /\ rest' = rest
      /\ scopes' = SubSeq(scopes, 1, Innermost - 1)
      /\ UNCHANGED <<hash, symbols, buckets, scope_cap, symbol_count>>
  BY DEF PopFinish
<1>2. /\ Types /\ Closing /\ Layered(symbols, scopes) /\ Innermost \in Nat \ {0}
      /\ Innermost > 1
  BY <1>1, TypesGive DEF IInv, Closing
<1>3. /\ scopes' \in Seq(Seq(Nat)) /\ Innermost' = Innermost - 1
      /\ \A k \in 1 .. Innermost - 1 : scopes'[k] = scopes[k]
  <2>1. \A k \in 1 .. Innermost - 1 : scopes[k] \in Seq(Nat)
    BY <1>2, TypesGive
  <2>2. /\ SubSeq(scopes, 1, Innermost - 1) \in Seq(Seq(Nat))
        /\ Len(SubSeq(scopes, 1, Innermost - 1)) = Innermost - 1
        /\ \A k \in 1 .. Innermost - 1 : SubSeq(scopes, 1, Innermost - 1)[k] = scopes[k]
    BY <1>2, <2>1, SubSeqProperties
  <2> QED
    BY <1>1, <2>2 DEF Innermost
<1>4. Known' = Known /\ (1 .. Innermost - 1) \subseteq 1 .. Innermost
  BY <1>1, <1>2 DEF Known
<1>5. Types'
  <2>1. \A k \in 1 .. Innermost' : Members(scopes'[k]) \subseteq Known
    BY <1>2, <1>3, <1>4 DEF Types
  <2>2. scope_cap \in Nat /\ Innermost' \in 1 .. scope_cap
    BY <1>2, <1>3 DEF Types
  <2>3. /\ hash \in [Names -> Slots] /\ symbols \in Seq(Symbol)
        /\ buckets \in [Slots -> Seq(Nat)] /\ rest \in Seq(Nat)
    BY <1>2 DEF Types
  <2>4. /\ hash' \in [Names -> Slots'] /\ symbols' \in Seq(Symbol')
        /\ buckets' \in [Slots' -> Seq(Nat)] /\ rest' \in Seq(Nat)
    BY <1>1, <2>3 DEF Slots, Symbol, Scopes!Bindings
  <2>5. popping' \in BOOLEAN
    BY <1>1, <1>2 DEF Types
  <2>6. \A k \in 1 .. Innermost' : Members(scopes'[k]) \subseteq Known'
    BY <1>4, <2>1
  <2> QED
    BY <1>1, <1>3, <2>2, <2>4, <2>5, <2>6 DEF Types
<1>6. Layered(symbols', scopes')
  <2>1. Len(scopes') = Innermost - 1 /\ Len(scopes) = Innermost
    BY <1>3 DEF Innermost
  <2>2. \A k \in 1 .. Len(scopes') :
          NewestFirst(scopes'[k]) /\ \A s \in Members(scopes'[k]) : symbols[s].depth = k - 1
    BY <1>2, <1>3, <1>4, <2>1 DEF Layered
  <2>3. \A k, m \in 1 .. Len(scopes') :
          k < m => \A s \in Members(scopes'[k]), t \in Members(scopes'[m]) : s < t
    BY <1>2, <1>3, <1>4, <2>1 DEF Layered
  <2> QED
    BY <1>1, <2>1, <2>2, <2>3 DEF Layered
<1>7. Closing'
  BY <1>1 DEF Closing
<1>8. Bound' = Bound
  <2>1. Bound = BoundOf(scopes, Innermost - 1, rest)
    BY <1>1, BoundIs
  <2>2. Bound' = BoundOf(scopes', Innermost', rest')
    BY <1>1, <1>2, <1>3 DEF Bound, BoundOf, Scopes!Flag, Innermost
  <2>3. BoundOf(scopes', Innermost - 1, rest) = BoundOf(scopes, Innermost - 1, rest)
    BY <1>3 DEF BoundOf
  <2> QED
    BY <1>1, <1>3, <2>1, <2>2, <2>3
<1>9. \A s : Bucket(s)' = Bucket(s)
  BY <1>1 DEF Bucket
<1>10. Chained' /\ Counted'
  BY <1>1, <1>8, <1>9 DEF IInv, Chained, Counted, Slots
<1> QED
  BY <1>5, <1>6, <1>7, <1>10 DEF IInv

-----------------------------------------------------------------------------
(* The symbol to unlink is the newest of all, and so heads its chain.      *)
LEMMA NextIsNewest ==
  ASSUME IInv, rest # <<>>
  PROVE  /\ popping /\ Innermost > 1 /\ rest \in Seq(Nat) /\ NewestFirst(rest)
         /\ Head(rest) \in Known /\ Bucket(Head(rest)) \in Slots
         /\ Head(rest) \in Members(rest)
         /\ \A k \in 1 .. Innermost - 1 : \A s \in Members(scopes[k]) : s < Head(rest)
         /\ buckets[Bucket(Head(rest))] # <<>>
         /\ Head(buckets[Bucket(Head(rest))]) = Head(rest)
<1> DEFINE h == Head(rest)
           b == Bucket(h)
<1>1. Types /\ Closing /\ Layered(symbols, scopes) /\ Chained
  BY DEF IInv
<1>2. /\ popping /\ Innermost > 1 /\ rest \in Seq(Nat) /\ NewestFirst(rest)
      /\ Members(rest) \subseteq Members(scopes[Innermost])
  BY <1>1 DEF Closing, Types
<1>3. h \in Members(rest) /\ \A s \in Members(rest) : s <= h
  BY <1>2, Popped
<1> HIDE DEF h
<1>4. /\ Innermost \in Nat \ {0} /\ Innermost \in 1 .. Innermost
      /\ \A k \in 1 .. Innermost - 1 : k \in 1 .. Innermost /\ k < Innermost
  BY <1>1, TypesGive
<1>5. h \in Members(scopes[Innermost]) /\ h \in Known
  BY <1>1, <1>2, <1>3, <1>4 DEF Types
<1>6. b \in Slots /\ buckets[b] \in Seq(Nat)
  BY <1>1, <1>5, TypesGive
<1>7. \A k \in 1 .. Innermost - 1 : \A s \in Members(scopes[k]) : s < h
  BY <1>1, <1>4, <1>5 DEF Layered, Innermost
<1>8. \A s : s \in Bound <=> (\E k \in 1 .. Innermost - 1 : s \in Members(scopes[k]))
                               \/ s \in Members(rest)
  BY <1>2, BoundIs, InBound
<1>9. Bound \subseteq Nat
  BY <1>1, BoundKnown DEF Known
<1>10. h \in Bound /\ \A s \in Bound : s <= h
  <2>1. ASSUME NEW s \in Bound PROVE s <= h
    <3>1. CASE s \in Members(rest)
      BY <1>3, <3>1
    <3>2. CASE s \notin Members(rest)
      <4>1. PICK k \in 1 .. Innermost - 1 : s \in Members(scopes[k])
        BY <1>8, <3>2
      <4>2. s < h /\ s \in Nat /\ h \in Nat
        BY <1>3, <1>7, <1>8, <1>9, <4>1
      <4> QED
        BY <4>2
    <3> QED
      BY <3>1, <3>2
  <2> QED
    BY <1>3, <1>8, <2>1
<1>11. h \in Members(buckets[b]) /\ \A s \in Members(buckets[b]) : s <= h
  BY <1>1, <1>6, <1>10 DEF Chained
<1>12. NewestFirst(buckets[b])
  BY <1>1, <1>6 DEF Chained
<1>13. buckets[b] # <<>> /\ Head(buckets[b]) = h
  BY <1>6, <1>11, <1>12, GreatestIsHead
<1> QED
  BY <1>2, <1>3, <1>5, <1>6, <1>7, <1>13 DEF h

LEMMA PopSymbolKeeps ==
  ASSUME IInv, PopSymbol
  PROVE  IInv'
<1> DEFINE h == Head(rest)
           b == Bucket(h)
<1>1. /\ popping /\ rest # <<>>
      /\ buckets' = [buckets EXCEPT ![b] = Unlinked(@, h)]
      /\ symbol_count' = symbol_count - 1
      /\ rest' = Tail(rest)
      /\ UNCHANGED <<hash, symbols, scopes, scope_cap, popping>>
  BY DEF PopSymbol
<1>2. Types /\ Closing /\ Layered(symbols, scopes) /\ Chained /\ Counted
  BY DEF IInv
<1>3. /\ Innermost > 1 /\ rest \in Seq(Nat) /\ NewestFirst(rest)
      /\ h \in Known /\ b \in Slots /\ h \in Members(rest)
      /\ \A k \in 1 .. Innermost - 1 : \A s \in Members(scopes[k]) : s < h
      /\ buckets[b] # <<>> /\ Head(buckets[b]) = h
  BY <1>1, NextIsNewest
<1>4. /\ h \in Nat /\ Tail(rest) \in Seq(Nat) /\ NewestFirst(Tail(rest))
      /\ Members(Tail(rest)) = Members(rest) \ {h}
  BY <1>1, <1>3, Popped
<1>5. buckets[b] \in Seq(Nat) /\ NewestFirst(buckets[b])
  BY <1>2, <1>3, TypesGive DEF Chained
<1>6. /\ Tail(buckets[b]) \in Seq(Nat) /\ NewestFirst(Tail(buckets[b]))
      /\ Members(Tail(buckets[b])) = Members(buckets[b]) \ {h}
  BY <1>3, <1>5, Popped
<1>7. Unlinked(buckets[b], h) = Tail(buckets[b])
  BY <1>3, <1>5, HeadUnlinked
<1> HIDE DEF h, b
<1>8. /\ buckets' \in [Slots -> Seq(Nat)] /\ buckets'[b] = Tail(buckets[b])
      /\ \A c \in Slots : c # b => buckets'[c] = buckets[c]
  BY <1>1, <1>2, <1>3, <1>6, <1>7 DEF Types
<1>9. Known' = Known /\ Innermost' = Innermost /\ Slots' = Slots
  BY <1>1 DEF Known, Innermost, Slots
<1>10. Types'
  BY <1>1, <1>2, <1>4, <1>8, <1>9 DEF Types, Symbol, Scopes!Bindings
<1>11. Layered(symbols, scopes)'
  BY <1>1, <1>2 DEF Layered
<1>12. Closing'
  BY <1>1, <1>2, <1>3, <1>4, <1>9 DEF Closing
<1>13. Bound' = Bound \ {h} /\ h \in Bound
  <2>1. Bound = BoundOf(scopes, Innermost - 1, rest)
    BY <1>1, BoundIs
  <2>2. Bound' = BoundOf(scopes, Innermost - 1, Tail(rest))
    BY <1>1, <1>9 DEF Bound, BoundOf, Scopes!Flag
  <2>3. ASSUME NEW k \in 1 .. Innermost - 1, h \in Members(scopes[k]) PROVE FALSE
    <3>1. h < h
      BY <1>3, <2>3
    <3> QED
      BY <1>4, <3>1
  <2>4. ASSUME NEW s
        PROVE  s \in BoundOf(scopes, Innermost - 1, Tail(rest))
                 <=> s \in BoundOf(scopes, Innermost - 1, rest) /\ s # h
    BY <1>4, <2>3, InBound
  <2>5. h \in Bound
    BY <1>3, <2>1, InBound
  <2> QED
    BY <2>1, <2>2, <2>4, <2>5
<1>14. \A s : Bucket(s)' = Bucket(s)
  BY <1>1 DEF Bucket
<1>15. Chained'
  <2>1. ASSUME NEW c \in Slots
        PROVE  /\ NewestFirst(buckets'[c])
               /\ Members(buckets'[c]) = {s \in Bound' : Bucket(s) = c}
    <3>1. NewestFirst(buckets[c]) /\ Members(buckets[c]) = {s \in Bound : Bucket(s) = c}
      BY <1>2 DEF Chained
    <3>2. CASE c = b
      BY <1>6, <1>8, <1>13, <3>1, <3>2
    <3>3. CASE c # b
      <4>1. Bucket(h) # c
        BY <3>3 DEF b
      <4> QED
        BY <1>8, <1>13, <3>1, <3>3, <4>1
    <3> QED
      BY <3>2, <3>3
  <2> QED
    BY <1>9, <1>14, <2>1 DEF Chained
<1>16. Counted'
  <2>1. IsFiniteSet(Bound) /\ symbol_count = Cardinality(Bound)
    BY <1>2 DEF Counted
  <2>2. IsFiniteSet(Bound \ {h}) /\ Cardinality(Bound \ {h}) = Cardinality(Bound) - 1
    BY <1>13, <2>1, FS_RemoveElement
  <2> QED
    BY <1>1, <1>13, <2>1, <2>2 DEF Counted
<1> QED
  BY <1>10, <1>11, <1>12, <1>15, <1>16 DEF IInv

-----------------------------------------------------------------------------
(* A declaration: its symbol is newer than any there is.                   *)
LEMMA InsertKeeps ==
  ASSUME IInv, NEW n \in Names, NEW bb \in Scopes!Bindings, Insert(n, bb)
  PROVE  IInv'
<1>0. PICK new \in Nat : new = Len(symbols) + 1
  BY TypesGive DEF IInv
<1> DEFINE r == [name |-> n, ns |-> bb.ns, kind |-> bb.kind, depth |-> Innermost - 1]
           b == hash[n]
<1>1. /\ ~popping
      /\ symbols' = Append(symbols, r)
      /\ buckets' = [buckets EXCEPT ![b] = <<new>> \o @]
      /\ scopes' = [scopes EXCEPT ![Innermost] = <<new>> \o @]
      /\ symbol_count' = symbol_count + 1
      /\ UNCHANGED <<hash, scope_cap, popping, rest>>
  BY <1>0 DEF Insert
<1>2. /\ Types /\ Closing /\ Layered(symbols, scopes) /\ Chained /\ Counted
      /\ rest = <<>>
  BY <1>1 DEF IInv, Closing
<1>3. /\ Innermost \in Nat \ {0} /\ Len(symbols) \in Nat /\ new \in Nat
      /\ \A k \in 1 .. Innermost : scopes[k] \in Seq(Nat) /\ NewestFirst(scopes[k])
      /\ b \in Slots
  BY <1>2, TypesGive DEF Types, Layered, Innermost
<1>4. r \in Symbol
  BY <1>3, SymbolIs
<1>5. r.name = n /\ r.depth = Innermost - 1
  OBVIOUS
<1> HIDE DEF r, b
<1>6. /\ symbols' \in Seq(Symbol) /\ Len(symbols') = new
      /\ \A s \in Known : symbols'[s] = symbols[s]
      /\ symbols'[new] = r
  BY <1>0, <1>1, <1>2, <1>4, AppendProperties DEF Types, Known
<1>7. /\ Known' = Known \cup {new} /\ new \notin Known
      /\ \A s \in Known : s \in Nat /\ s < new
  BY <1>0, <1>3, <1>6 DEF Known
<1>8. /\ \A k \in 1 .. Innermost : Members(scopes[k]) \subseteq Known
      /\ Innermost \in 1 .. Innermost
  BY <1>2, <1>3 DEF Types
<1>9. /\ <<new>> \o scopes[Innermost] \in Seq(Nat)
      /\ Members(<<new>> \o scopes[Innermost]) = {new} \cup Members(scopes[Innermost])
      /\ NewestFirst(<<new>> \o scopes[Innermost])
  BY <1>3, <1>7, <1>8, Pushed
<1>10. /\ scopes' \in Seq(Seq(Nat)) /\ Innermost' = Innermost
       /\ scopes'[Innermost] = <<new>> \o scopes[Innermost]
       /\ \A k \in 1 .. Innermost : k # Innermost => scopes'[k] = scopes[k]
  <2>1. scopes \in Seq(Seq(Nat)) /\ Innermost \in 1 .. Len(scopes) /\ Len(scopes) = Innermost
    BY <1>2, <1>8 DEF Types, Innermost
  <2> DEFINE e == <<new>> \o scopes[Innermost]
             sc == [scopes EXCEPT ![Innermost] = e]
  <2>2. e \in Seq(Nat)
    BY <1>9
  <2>3. scopes' = sc
    BY <1>1
  <2> HIDE DEF e
  <2>4. /\ sc \in Seq(Seq(Nat)) /\ Len(sc) = Len(scopes)
        /\ \A k \in 1 .. Len(scopes) : sc[k] = IF k = Innermost THEN e ELSE scopes[k]
    BY <2>1, <2>2, ExceptSeq
  <2> HIDE DEF sc
  <2>5. Len(scopes') = Innermost' /\ scopes'[Innermost] = e
    BY <2>1, <2>3, <2>4 DEF Innermost
  <2>6. \A k \in 1 .. Innermost : k # Innermost => scopes'[k] = scopes[k]
    BY <2>1, <2>3, <2>4
  <2> QED
    BY <2>1, <2>3, <2>4, <2>5, <2>6 DEF e
<1>11. /\ \A k \in 1 .. Innermost :
            /\ Members(scopes[k]) \subseteq Members(scopes'[k])
            /\ Members(scopes'[k]) \subseteq Members(scopes[k]) \cup {new}
            /\ NewestFirst(scopes'[k])
            /\ new \in Members(scopes'[k]) <=> k = Innermost
  BY <1>3, <1>7, <1>8, <1>9, <1>10
<1>12. Bound = BoundOf(scopes, Innermost, rest) /\ Bound \subseteq Known
  BY <1>1, <1>2, <1>3, BoundIs, BoundKnown
<1>13. Bound' = Bound \cup {new}
  <2>1. Bound' = BoundOf(scopes', Innermost, rest)
    <3>1. Scopes!Flag(popping') = 0 /\ rest' = rest
      BY <1>1 DEF Scopes!Flag
    <3>2. Innermost' - 0 = Innermost
      BY <1>3, <1>10
    <3> QED
      BY <3>1, <3>2 DEF Bound, BoundOf
  <2>2. ASSUME NEW s
        PROVE  s \in BoundOf(scopes', Innermost, rest)
                 <=> s \in BoundOf(scopes, Innermost, rest) \/ s = new
    BY <1>8, <1>11, InBound
  <2> QED
    BY <1>12, <2>1, <2>2
<1>14. /\ buckets[b] \in Seq(Nat) /\ NewestFirst(buckets[b])
       /\ Members(buckets[b]) = {s \in Bound : Bucket(s) = b}
  BY <1>2, <1>3, TypesGive DEF Chained
<1>15. /\ <<new>> \o buckets[b] \in Seq(Nat)
       /\ Members(<<new>> \o buckets[b]) = {new} \cup Members(buckets[b])
       /\ NewestFirst(<<new>> \o buckets[b])
  <2>1. Members(buckets[b]) \subseteq Known
    BY <1>12, <1>14
  <2> QED
    BY <1>3, <1>7, <1>14, <2>1, Pushed
<1>16. /\ buckets' \in [Slots -> Seq(Nat)] /\ buckets'[b] = <<new>> \o buckets[b]
       /\ \A c \in Slots : c # b => buckets'[c] = buckets[c]
  BY <1>1, <1>2, <1>3, <1>15 DEF Types
<1>17. Types'
  <2>1. \A k \in 1 .. Innermost' : Members(scopes'[k]) \subseteq Known'
    BY <1>7, <1>8, <1>10, <1>11
  <2>2. /\ hash' \in [Names -> Slots'] /\ symbols' \in Seq(Symbol')
        /\ buckets' \in [Slots' -> Seq(Nat)] /\ rest' \in Seq(Nat)
        /\ scope_cap' \in Nat /\ popping' \in BOOLEAN
    BY <1>1, <1>2, <1>6, <1>16 DEF Types, Slots, Symbol, Scopes!Bindings
  <2>3. Innermost' \in 1 .. scope_cap'
    BY <1>1, <1>2, <1>10 DEF Types
  <2> QED
    BY <1>10, <2>1, <2>2, <2>3 DEF Types
<1>18. Layered(symbols', scopes')
  <2>1. Len(scopes') = Innermost /\ Len(scopes) = Innermost
    BY <1>10 DEF Innermost
  <2>2. ASSUME NEW k \in 1 .. Innermost, NEW s \in Members(scopes'[k])
        PROVE  symbols'[s].depth = k - 1
    <3>1. CASE s = new
      BY <1>5, <1>6, <1>11, <3>1
    <3>2. CASE s # new
      <4>1. s \in Members(scopes[k]) /\ s \in Known
        BY <1>8, <1>11, <3>2
      <4> QED
        BY <1>2, <1>6, <2>1, <4>1 DEF Layered
    <3> QED
      BY <3>1, <3>2
  <2>3. ASSUME NEW k \in 1 .. Innermost, NEW m \in 1 .. Innermost, k < m,
               NEW s \in Members(scopes'[k]), NEW t \in Members(scopes'[m])
        PROVE  s < t
    <3>1. k # Innermost /\ s \in Members(scopes[k]) /\ s \in Known
      <4>1. k # Innermost
        BY <1>3, <2>3
      <4> QED
        BY <1>8, <1>11, <4>1
    <3>2. CASE t = new
      BY <1>7, <3>1, <3>2
    <3>3. CASE t # new
      <4>1. t \in Members(scopes[m])
        BY <1>11, <3>3
      <4> QED
        BY <1>2, <2>1, <2>3, <3>1, <4>1 DEF Layered
    <3> QED
      BY <3>2, <3>3
  <2> QED
    BY <1>11, <2>1, <2>2, <2>3 DEF Layered
<1>19. Closing'
  BY <1>1, <1>2 DEF Closing
<1>20. /\ \A s \in Known : Bucket(s)' = Bucket(s)
       /\ Bucket(new)' = b
  BY <1>1, <1>5, <1>6 DEF Bucket, b
<1>21. Chained'
  <2>1. ASSUME NEW c \in Slots
        PROVE  /\ NewestFirst(buckets'[c])
               /\ Members(buckets'[c]) = {s \in Bound' : Bucket(s)' = c}
    <3>1. NewestFirst(buckets[c]) /\ Members(buckets[c]) = {s \in Bound : Bucket(s) = c}
      BY <1>2 DEF Chained
    <3>2. {s \in Bound' : Bucket(s)' = c}
            = {s \in Bound : Bucket(s) = c} \cup {s \in {new} : b = c}
      <4>1. ASSUME NEW s
            PROVE  s \in Bound' /\ Bucket(s)' = c
                     <=> (s \in Bound /\ Bucket(s) = c) \/ (s = new /\ b = c)
        <5>1. CASE s = new
          BY <1>7, <1>12, <1>13, <1>20, <5>1
        <5>2. CASE s # new
          BY <1>12, <1>13, <1>20, <5>2
        <5> QED
          BY <5>1, <5>2
      <4> QED
        BY <4>1
    <3>3. CASE c = b
      BY <1>15, <1>16, <3>1, <3>2, <3>3
    <3>4. CASE c # b
      BY <1>16, <3>1, <3>2, <3>4
    <3> QED
      BY <3>3, <3>4
  <2>2. Slots' = Slots
    BY DEF Slots
  <2> QED
    BY <2>1, <2>2 DEF Chained
<1>22. Counted'
  <2>1. IsFiniteSet(Bound) /\ symbol_count = Cardinality(Bound) /\ new \notin Bound
    BY <1>2, <1>7, <1>12 DEF Counted
  <2>2. /\ IsFiniteSet(Bound \cup {new})
        /\ Cardinality(Bound \cup {new}) = Cardinality(Bound) + 1
    BY <2>1, FS_AddElement
  <2> QED
    BY <1>1, <1>13, <2>1, <2>2 DEF Counted
<1> QED
  BY <1>17, <1>18, <1>19, <1>21, <1>22 DEF IInv

-----------------------------------------------------------------------------
LEMMA StepKeeps ==
  ASSUME IInv, [Next]_vars
  PROVE  IInv'
<1>1. CASE UNCHANGED vars
  BY <1>1, ListsKept DEF vars
<1>2. CASE PushFails \/ PopFileScope \/ InsertFails
  BY <1>2, ListsKept DEF PushFails, PopFileScope, InsertFails
<1>3. ASSUME NEW n \in Names, NEW ns \in Scopes!NameSpaces,
             Lookup(n, ns) \/ LookupCurrentScope(n, ns) \/ IsTypedefName(n)
      PROVE  IInv'
  BY <1>3, ListsKept DEF Lookup, LookupCurrentScope, IsTypedefName, Asked
<1>4. ASSUME NEW n \in Names, IsTypedefName(n) PROVE IInv'
  BY <1>4, ListsKept DEF IsTypedefName, Asked
<1> QED
  BY <1>1, <1>2, <1>3, <1>4, PushKeeps, PopStartKeeps, PopSymbolKeeps, PopFinishKeeps,
     InsertKeeps DEF Next

THEOREM Invariance == Spec => []IInv
BY Start, StepKeeps, PTL DEF Spec

(* The chains and the lists hold symbols there are, and nothing else.      *)
LEMMA ListIn ==
  ASSUME NEW D, NEW l \in Seq(Nat), Members(l) \subseteq D
  PROVE  l \in Seq(D)
<1>1. /\ Len(l) \in Nat /\ l \in [1 .. Len(l) -> Nat]
      /\ \A i \in 1 .. Len(l) : l[i] \in D
  BY LenProperties, MembersAre
<1>2. l \in [1 .. Len(l) -> D]
  BY <1>1
<1> QED
  BY <1>1, <1>2, SeqDef

THEOREM TypeCorrect == Spec => []TypeOK
<1>1. ASSUME IInv PROVE TypeOK
  <2>1. Types /\ Closing /\ Chained
    BY <1>1 DEF IInv
  <2>2. DOMAIN symbols = Known /\ \A s \in Known : symbols[s] \in Symbol
    BY <2>1, TypesGive
  <2>3. \A b \in Slots : buckets[b] \in Seq(Known)
    <3>1. ASSUME NEW b \in Slots
          PROVE  buckets[b] \in Seq(Nat) /\ Members(buckets[b]) \subseteq Known
      BY <2>1, BoundKnown, TypesGive DEF Chained
    <3> QED
      BY <3>1, ListIn
  <2>4. scopes \in Seq(Seq(Known))
    <3>1. \A k \in 1 .. Innermost : scopes[k] \in Seq(Known)
      BY <2>1, TypesGive, ListIn DEF Types
    <3>2. Innermost \in Nat /\ scopes \in [1 .. Innermost -> Seq(Nat)]
      BY <2>1, LenProperties DEF Types, Innermost
    <3>3. scopes \in [1 .. Innermost -> Seq(Known)]
      BY <3>1, <3>2
    <3> QED
      BY <3>2, <3>3, SeqDef
  <2>5. rest \in Seq(Known)
    <3>1. CASE popping
      <4>1. Innermost \in 1 .. Innermost
        BY <2>1, TypesGive
      <4>2. rest \in Seq(Nat) /\ Members(rest) \subseteq Known
        BY <2>1, <3>1, <4>1 DEF Closing, Types
      <4> QED
        BY <4>2, ListIn
    <3>2. CASE ~popping
      BY <2>1, <3>2, EmptySeq DEF Closing
    <3> QED
      BY <3>1, <3>2
  <2>6. symbol_count \in Nat
    BY <1>1, FS_CardinalityType DEF IInv, Counted
  <2>7. \A s \in Known : /\ symbols[s].name \in Names
                         /\ [ns |-> symbols[s].ns, kind |-> symbols[s].kind] \in Scopes!Bindings
    BY <2>2, SymbolIs
  <2> QED
    BY <2>1, <2>2, <2>3, <2>4, <2>5, <2>6, <2>7 DEF TypeOK, Types
<1> QED
  BY <1>1, Invariance, PTL

-----------------------------------------------------------------------------
(* What the invariant says of the chains.                                  *)
LEMMA BoundInScope ==
  ASSUME IInv, NEW s \in Bound
  PROVE  \E k \in 1 .. Innermost : s \in Members(scopes[k])
<1>1. Types /\ Closing /\ Innermost \in Nat \ {0} /\ Innermost \in 1 .. Innermost
  BY TypesGive DEF IInv
<1>2. CASE popping
  <2>1. s \in BoundOf(scopes, Innermost - 1, rest)
    BY <1>2, BoundIs
  <2>2. CASE s \in Members(rest)
    BY <1>1, <1>2, <2>2 DEF Closing
  <2>3. CASE s \notin Members(rest)
    <3>1. PICK k \in 1 .. Innermost - 1 : s \in Members(scopes[k])
      BY <2>1, <2>3, InBound
    <3>2. k \in 1 .. Innermost
      BY <1>1
    <3> QED
      BY <3>1, <3>2
  <2> QED
    BY <2>2, <2>3
<1>3. CASE ~popping
  <2>1. s \in BoundOf(scopes, Innermost, rest) /\ Members(rest) = {}
    BY <1>1, <1>3, BoundIs, EmptyList DEF Closing
  <2> QED
    BY <2>1, InBound
<1> QED
  BY <1>2, <1>3

(* On every chain the newest symbol comes first, and with it the innermost *)
(* (symtab.c:104-121, 168-185).                                            *)
THEOREM ChainsOrdered == Spec => []InnermostFirst
<1>1. ASSUME IInv PROVE InnermostFirst
  <2>1. SUFFICES ASSUME NEW b \in Slots
                 PROVE  /\ NewestFirst(buckets[b])
                        /\ \A i, j \in DOMAIN buckets[b] :
                             i < j => symbols[buckets[b][i]].depth >= symbols[buckets[b][j]].depth
    BY DEF InnermostFirst
  <2>2. /\ NewestFirst(buckets[b]) /\ buckets[b] \in Seq(Nat)
        /\ Members(buckets[b]) \subseteq Bound
        /\ Types /\ Closing /\ Layered(symbols, scopes)
    BY <1>1, TypesGive DEF IInv, Chained
  <2>3. ASSUME NEW s \in Bound, NEW t \in Bound, s > t
        PROVE  symbols[s].depth >= symbols[t].depth
    <3>1. PICK k \in 1 .. Innermost : s \in Members(scopes[k])
      BY <1>1, BoundInScope
    <3>2. PICK m \in 1 .. Innermost : t \in Members(scopes[m])
      BY <1>1, BoundInScope
    <3>3. symbols[s].depth = k - 1 /\ symbols[t].depth = m - 1
      BY <2>2, <3>1, <3>2 DEF Layered, Innermost
    <3>4. k < m => s < t
      BY <2>2, <3>1, <3>2 DEF Layered, Innermost
    <3>5. s \in Nat /\ t \in Nat /\ k \in Int /\ m \in Int
      BY <2>2, BoundKnown DEF Known
    <3>6. ~(k < m)
      BY <2>3, <3>4, <3>5
    <3> QED
      BY <3>3, <3>5, <3>6
  <2>4. ASSUME NEW i \in DOMAIN buckets[b], NEW j \in DOMAIN buckets[b], i < j
        PROVE  symbols[buckets[b][i]].depth >= symbols[buckets[b][j]].depth
    <3>1. buckets[b][i] \in Bound /\ buckets[b][j] \in Bound
      BY <2>2, LenProperties, MembersAre
    <3>2. buckets[b][i] > buckets[b][j]
      BY <2>2, <2>4 DEF NewestFirst
    <3> QED
      BY <2>3, <3>1, <3>2
  <2> QED
    BY <2>2, <2>4
<1> QED
  BY <1>1, Invariance, PTL

(* A chain holds exactly the bound symbols of its bucket, and a scope's    *)
(* list exactly its own (symtab.c:85-121).                                 *)
THEOREM ChainsAgreeWithScopes == Spec => []ChainsAgree
<1>1. ASSUME IInv PROVE ChainsAgree
  <2>1. Types /\ DOMAIN scopes = 1 .. Len(scopes)
    BY <1>1, TypesGive DEF IInv, Innermost
  <2> QED
    BY <1>1, <2>1 DEF IInv, ChainsAgree, Layered, Chained, Counted
<1> QED
  BY <1>1, Invariance, PTL

(* The loop that closes a scope finds each of its symbols at the head of   *)
(* its chain (symtab.c:85-101).                                            *)
THEOREM HeadsUnlinked == Spec => []UnlinksHead
<1>1. ASSUME IInv PROVE UnlinksHead
  BY <1>1, NextIsNewest DEF UnlinksHead
<1> QED
  BY <1>1, Invariance, PTL

-----------------------------------------------------------------------------
(* The refinement: the frames, and what is visible in them.                *)
FramesOf(sym, sc) ==
  [k \in 1 .. Len(sc) |->
     [key \in Names \X {"ordinary", "tag"} |-> FirstOf(sym, sc[k], key[1], key[2])]]

LEMMA FramesAre ==
  /\ frames = FramesOf(symbols, scopes)
  /\ frames' = FramesOf(symbols', scopes')
<1>1. frames = FramesOf(symbols, scopes)
  BY FirstMatchIs DEF frames, FramesOf
<1>2. \A l, n, ns : FirstMatch(l, n, ns)' = FirstOf(symbols', l', n', ns')
  BY DEF FirstMatch, Matches, FirstOf
<1>3. frames' = FramesOf(symbols', scopes')
  BY DEF frames, FramesOf, FirstMatch, Matches, FirstOf
<1> QED
  BY <1>1, <1>3

LEMMA FrameIs ==
  ASSUME NEW sym, NEW sc \in Seq(Seq(Nat)), NEW k \in 1 .. Len(sc),
         NEW n \in Names, NEW ns \in {"ordinary", "tag"}
  PROVE  /\ Len(FramesOf(sym, sc)) = Len(sc)
         /\ FramesOf(sym, sc)[k][<<n, ns>>] = FirstOf(sym, sc[k], n, ns)
<1>1. Len(sc) \in Nat
  BY LenProperties
<1>2. <<n, ns>> \in Names \X {"ordinary", "tag"} /\ <<n, ns>>[1] = n /\ <<n, ns>>[2] = ns
  OBVIOUS
<1> QED
  BY <1>1, <1>2 DEF FramesOf

LEMMA GreatestPlace ==
  ASSUME NEW n \in Nat, NEW T \in SUBSET (1 .. n), T # {}
  PROVE  \E x \in T : \A y \in T : y <= x
<1> DEFINE U == {n - x : x \in T}
<1>1. U \in SUBSET Nat /\ U # {}
  <2>1. ASSUME NEW x \in T PROVE n - x \in Nat
    <3>1. x \in 1 .. n
      OBVIOUS
    <3> QED
      BY <3>1
  <2> QED
    BY <2>1
<1>2. PICK u \in U : \A v \in U : u <= v
  <2> HIDE DEF U
  <2> QED
    BY <1>1, LeastPlace
<1>3. PICK x \in T : u = n - x
  BY <1>2
<1>4. ASSUME NEW y \in T PROVE y <= x
  <2>1. n - y \in U
    OBVIOUS
  <2>2. n - x <= n - y
    BY <1>2, <1>3, <2>1
  <2>3. x \in 1 .. n /\ y \in 1 .. n
    OBVIOUS
  <2> QED
    BY <2>2, <2>3
<1> QED
  BY <1>4

(* Of sets that lie one above the other, each with its greatest member or  *)
(* 0, the union's greatest is that of the last set with one.               *)
Last(f, n) == CHOOSE i \in {k \in 1 .. n : f[k] # 0} :
                \A j \in {k \in 1 .. n : f[k] # 0} : j <= i

LEMMA GreatestOfLayers ==
  ASSUME NEW n \in Nat, NEW f, NEW B, NEW S,
         \A k \in 1 .. n : IsGreatest(f[k], B[k]) /\ B[k] \in SUBSET (Nat \ {0}),
         \A k, m \in 1 .. n : k < m => \A s \in B[k], t \in B[m] : s < t,
         \A s : s \in S <=> \E k \in 1 .. n : s \in B[k]
  PROVE  /\ {k \in 1 .. n : f[k] # 0} = {} => IsGreatest(Unbound, S)
         /\ {k \in 1 .. n : f[k] # 0} # {} => IsGreatest(f[Last(f, n)], S)
<1> DEFINE D == {k \in 1 .. n : f[k] # 0}
<1>1. \A k \in 1 .. n : k \in D <=> B[k] # {}
  BY DEF IsGreatest, Unbound
<1>2. CASE D = {}
  <2>1. S = {}
    BY <1>1, <1>2
  <2> QED
    BY <1>2, <2>1 DEF IsGreatest
<1>3. CASE D # {}
  <2>1. D \in SUBSET (1 .. n)
    OBVIOUS
  <2>2. Last(f, n) = CHOOSE i \in D : \A j \in D : j <= i
    BY DEF Last
  <2> HIDE DEF D
  <2>3. PICK k : k = Last(f, n)
    OBVIOUS
  <2>4. k \in D /\ \A j \in D : j <= k
    BY <1>3, <2>1, <2>2, <2>3, GreatestPlace
  <2>5. k \in 1 .. n /\ f[k] \in B[k] /\ \A s \in B[k] : s <= f[k]
    BY <1>1, <2>1, <2>4 DEF IsGreatest
  <2>6. ASSUME NEW s \in S PROVE s <= f[k]
    <3>1. PICK j \in 1 .. n : s \in B[j]
      OBVIOUS
    <3>2. j \in D
      BY <1>1, <3>1
    <3>3. j <= k /\ j \in Int /\ k \in Int
      BY <2>4, <2>5, <3>2
    <3>4. CASE j = k
      BY <2>5, <3>1, <3>4
    <3>5. CASE j < k
      <4>1. s < f[k] /\ s \in Nat /\ f[k] \in Nat
        BY <2>5, <3>1, <3>5
      <4> QED
        BY <4>1
    <3> QED
      BY <3>3, <3>4, <3>5
  <2>7. f[k] \in S
    BY <2>5
  <2>8. IsGreatest(f[k], S)
    BY <2>6, <2>7 DEF IsGreatest
  <2> QED
    BY <1>3, <2>3, <2>8 DEF D
<1> QED
  BY <1>2, <1>3

(* The visible symbol is the newest bound one.                             *)
LEMMA VisibleIsGreatest ==
  ASSUME IInv, ~popping, NEW n \in Names, NEW ns \in {"ordinary", "tag"}
  PROVE  /\ IsGreatest(Scopes!Visible(<<n, ns>>), Binds(symbols, Bound, n, ns))
         /\ Scopes!Depth = Innermost
<1>1. /\ Types /\ Closing /\ Layered(symbols, scopes)
      /\ Innermost \in Nat \ {0} /\ scopes \in Seq(Seq(Nat)) /\ Len(scopes) = Innermost
  BY TypesGive DEF IInv, Types, Innermost
<1>2. frames = FramesOf(symbols, scopes) /\ Scopes!Depth = Innermost
  <2>1. frames = FramesOf(symbols, scopes)
    BY FramesAre
  <2>2. Len(FramesOf(symbols, scopes)) = Innermost
    BY <1>1 DEF FramesOf
  <2> QED
    BY <2>1, <2>2 DEF Scopes!Depth
<1>3. PICK F : F = [k \in 1 .. Innermost |-> frames[k][<<n, ns>>]]
  OBVIOUS
<1>4. PICK B : B = [k \in 1 .. Innermost |-> Binds(symbols, Members(scopes[k]), n, ns)]
  OBVIOUS
<1>5. ASSUME NEW k \in 1 .. Innermost
      PROVE  IsGreatest(F[k], B[k]) /\ B[k] \in SUBSET (Nat \ {0})
  <2>1. scopes[k] \in Seq(Nat) /\ NewestFirst(scopes[k]) /\ Members(scopes[k]) \subseteq Known
    BY <1>1, TypesGive DEF Layered, Types
  <2>2. F[k] = FirstOf(symbols, scopes[k], n, ns)
    <3>1. F[k] = frames[k][<<n, ns>>]
      BY <1>3
    <3> QED
      BY <1>1, <1>2, <3>1, FrameIs
  <2>3. B[k] = Binds(symbols, Members(scopes[k]), n, ns)
    BY <1>4
  <2>4. B[k] \subseteq Known
    BY <2>1, <2>3 DEF Binds
  <2>5. Known \subseteq Nat \ {0}
    BY <1>1, TypesGive DEF Known
  <2>6. IsGreatest(F[k], B[k])
    BY <2>1, <2>2, <2>3, FirstIsGreatest
  <2> QED
    BY <2>4, <2>5, <2>6
<1>6. ASSUME NEW k \in 1 .. Innermost, NEW m \in 1 .. Innermost, k < m
      PROVE  \A s \in B[k], t \in B[m] : s < t
  <2>1. B[k] \subseteq Members(scopes[k]) /\ B[m] \subseteq Members(scopes[m])
    BY <1>4 DEF Binds
  <2>2. \A s \in Members(scopes[k]), t \in Members(scopes[m]) : s < t
    BY <1>1, <1>6 DEF Layered
  <2> QED
    BY <2>1, <2>2
<1>7. \A s : s \in Binds(symbols, Bound, n, ns) <=> \E k \in 1 .. Innermost : s \in B[k]
  <2>1. \A s : s \in Bound <=> \E k \in 1 .. Innermost : s \in Members(scopes[k])
    <3>1. Bound = BoundOf(scopes, Innermost, rest) /\ Members(rest) = {}
      BY <1>1, BoundIs, EmptyList DEF Closing
    <3> QED
      BY <3>1, InBound
  <2>2. \A k \in 1 .. Innermost : B[k] = Binds(symbols, Members(scopes[k]), n, ns)
    BY <1>4
  <2> QED
    BY <2>1, <2>2 DEF Binds
<1>8. PICK D : D = {k \in 1 .. Innermost : F[k] # 0}
  OBVIOUS
<1>9. /\ D = {} => IsGreatest(Unbound, Binds(symbols, Bound, n, ns))
      /\ D # {} => IsGreatest(F[Last(F, Innermost)], Binds(symbols, Bound, n, ns))
  BY <1>1, <1>5, <1>6, <1>7, <1>8, GreatestOfLayers
<1>10. Scopes!Declares(<<n, ns>>) = D
  BY <1>2, <1>3, <1>8 DEF Scopes!Declares, Scopes!Unbound
<1>11. CASE D = {}
  <2>1. Scopes!Visible(<<n, ns>>) = Unbound
    BY <1>10, <1>11 DEF Scopes!Visible, Scopes!Unbound, Unbound
  <2> QED
    BY <1>2, <1>9, <1>11, <2>1
<1>12. CASE D # {}
  <2>1. PICK k : k = CHOOSE i \in D : \A j \in D : j <= i
    OBVIOUS
  <2>2. Scopes!Visible(<<n, ns>>) = frames[k][<<n, ns>>]
    BY <1>10, <1>12, <2>1 DEF Scopes!Visible
  <2>3. k = Last(F, Innermost)
    BY <1>8, <2>1 DEF Last
  <2>4. k \in D
    <3>1. D \in SUBSET (1 .. Innermost) /\ Innermost \in Nat
      BY <1>1, <1>8
    <3>2. \E i \in D : \A j \in D : j <= i
      BY <1>12, <3>1, GreatestPlace
    <3> QED
      BY <2>1, <3>2
  <2>5. F[k] = frames[k][<<n, ns>>]
    BY <1>3, <1>8, <2>4
  <2> QED
    BY <1>2, <1>9, <1>12, <2>2, <2>3, <2>5
<1> QED
  BY <1>11, <1>12

(* So a lookup, which takes the first match of one chain, finds it.        *)
LEMMA FoundIsVisible ==
  ASSUME IInv, ~popping, NEW n \in Names, NEW ns \in {"ordinary", "tag"}
  PROVE  Found(n, ns) = Scopes!Visible(<<n, ns>>)
<1> DEFINE b == hash[n]
<1>1. /\ Types /\ Closing /\ Chained /\ b \in Slots
  BY DEF IInv, Types
<1>2. buckets[b] \in Seq(Nat) /\ NewestFirst(buckets[b])
      /\ Members(buckets[b]) = {s \in Bound : Bucket(s) = b}
  BY <1>1, TypesGive DEF Chained
<1>3. Binds(symbols, Members(buckets[b]), n, ns) = Binds(symbols, Bound, n, ns)
  BY <1>2 DEF Binds, Bucket
<1>4. IsGreatest(Found(n, ns), Binds(symbols, Bound, n, ns))
  BY <1>2, <1>3, FirstMatchIs, FirstIsGreatest DEF Found
<1>5. Binds(symbols, Bound, n, ns) \in SUBSET Nat
  BY <1>1, BoundKnown DEF Binds, Known
<1> QED
  BY <1>4, <1>5, VisibleIsGreatest, OneGreatest

-----------------------------------------------------------------------------
(* A function on 1 .. n is a sequence, and what extends or cuts it is one. *)
LEMMA AppendedIs ==
  ASSUME NEW n \in Nat, NEW f, NEW g, NEW x,
         f = [k \in 1 .. n |-> f[k]],
         g = [k \in 1 .. n + 1 |-> IF k = n + 1 THEN x ELSE f[k]]
  PROVE  g = Append(f, x)
<1>1. PICK S : S = {f[k] : k \in 1 .. n} \cup {x}
  OBVIOUS
<1>2. f \in Seq(S) /\ Len(f) = n
  <2>1. f \in [1 .. n -> S]
    BY <1>1
  <2> QED
    BY <2>1, SeqDef, LenProperties
<1>3. g \in Seq(S) /\ Len(g) = n + 1
  <2>1. \A k \in 1 .. n + 1 : k # n + 1 => k \in 1 .. n
    OBVIOUS
  <2>2. g \in [1 .. n + 1 -> S]
    BY <1>1, <2>1
  <2> QED
    BY <2>2, SeqDef, LenProperties
<1>4. /\ Append(f, x) \in Seq(S) /\ Len(Append(f, x)) = n + 1
      /\ \A k \in 1 .. n : Append(f, x)[k] = f[k]
      /\ Append(f, x)[n + 1] = x
  BY <1>1, <1>2, AppendProperties
<1>5. \A k \in 1 .. n + 1 : g[k] = Append(f, x)[k]
  <2>1. ASSUME NEW k \in 1 .. n + 1 PROVE g[k] = Append(f, x)[k]
    <3>1. CASE k = n + 1
      BY <1>4, <3>1
    <3>2. CASE k # n + 1
      <4>1. k \in 1 .. n
        BY <3>2
      <4>2. g[k] = f[k]
        BY <3>2
      <4> QED
        BY <1>4, <4>1, <4>2
    <3> QED
      BY <3>1, <3>2
  <2> QED
    BY <2>1
<1> QED
  BY <1>3, <1>4, <1>5, SeqEqual

LEMMA CutIs ==
  ASSUME NEW n \in Nat \ {0}, NEW f, NEW g,
         f = [k \in 1 .. n |-> f[k]],
         g = [k \in 1 .. n - 1 |-> f[k]]
  PROVE  g = SubSeq(f, 1, n - 1)
<1>1. PICK S : S = {f[k] : k \in 1 .. n}
  OBVIOUS
<1>2. f \in Seq(S) /\ Len(f) = n
  <2>1. f \in [1 .. n -> S]
    BY <1>1
  <2> QED
    BY <2>1, SeqDef, LenProperties
<1>3. g \in Seq(S) /\ Len(g) = n - 1
  <2>1. \A k \in 1 .. n - 1 : k \in 1 .. n
    OBVIOUS
  <2>2. g \in [1 .. n - 1 -> S] /\ n - 1 \in Nat
    BY <1>1, <2>1
  <2>3. g \in Seq(S)
    <3>1. PICK m \in Nat : m = n - 1
      BY <2>2
    <3>2. g \in [1 .. m -> S]
      BY <2>2, <3>1
    <3> QED
      BY <3>2, SeqDef
  <2>4. DOMAIN g = 1 .. Len(g) /\ DOMAIN g = 1 .. n - 1 /\ Len(g) \in Nat
    BY <2>2, <2>3, LenProperties
  <2> QED
    BY <2>2, <2>3, <2>4
<1>4. /\ SubSeq(f, 1, n - 1) \in Seq(S) /\ Len(SubSeq(f, 1, n - 1)) = n - 1
      /\ \A k \in 1 .. n - 1 : SubSeq(f, 1, n - 1)[k] = f[k]
  BY <1>2, SubSeqProperties
<1> QED
  BY <1>3, <1>4, SeqEqual

LEMMA FramesHave ==
  ASSUME NEW sym, NEW sc
  PROVE  FramesOf(sym, sc) = [k \in 1 .. Len(sc) |-> FramesOf(sym, sc)[k]]
BY DEF FramesOf

(* A scope with no symbols is the empty map.                               *)
LEMMA EmptyFrame ==
  ASSUME NEW sym
  PROVE  [key \in Names \X {"ordinary", "tag"} |-> FirstOf(sym, <<>>, key[1], key[2])]
           = Scopes!NoKeys
<1>1. \A n, ns : FirstOf(sym, <<>>, n, ns) = 0
  BY EmptyList DEF FirstOf, Unbound
<1> QED
  BY <1>1 DEF Scopes!NoKeys, Scopes!Keys, Scopes!NameSpaces, Scopes!Unbound

-----------------------------------------------------------------------------
(* The refinement, action by action.                                       *)
LEMMA StartRefined == Init => Scopes!Init
<1> SUFFICES ASSUME Init PROVE Scopes!Init
  OBVIOUS
<1>1. Len(scopes) = 1 /\ scopes[1] = <<>> /\ 1 .. 1 = {1}
  BY DEF Init
<1>2. frames = [k \in 1 .. 1 |-> Scopes!NoKeys]
  <2>1. \A k \in 1 .. 1 : scopes[k] = <<>>
    BY <1>1
  <2>2. \A k \in 1 .. 1 : [key \in Names \X {"ordinary", "tag"} |->
                             FirstOf(symbols, scopes[k], key[1], key[2])] = Scopes!NoKeys
    BY <2>1, EmptyFrame
  <2>3. frames = FramesOf(symbols, scopes)
    BY FramesAre
  <2> QED
    BY <1>1, <2>2, <2>3 DEF FramesOf
<1>3. frames = <<Scopes!NoKeys>>
  BY <1>2
<1> QED
  BY <1>3 DEF Init, Scopes!Init, Scopes!Answer, Scopes!Unbound, Unbound

LEMMA FramesKept ==
  ASSUME UNCHANGED <<symbols, scopes>>
  PROVE  frames' = frames
BY FramesAre

LEMMA PushRefined ==
  ASSUME IInv, PushScope
  PROVE  Scopes!Open
<1>1. /\ Innermost \in Nat \ {0} /\ scopes \in Seq(Seq(Nat)) /\ Len(scopes) = Innermost
      /\ scopes' = Append(scopes, <<>>) /\ symbols' = symbols
  BY TypesGive DEF IInv, Types, Innermost, PushScope
<1>2. /\ Len(scopes') = Innermost + 1
      /\ \A k \in 1 .. Innermost : scopes'[k] = scopes[k]
      /\ scopes'[Innermost + 1] = <<>>
  BY <1>1, EmptyList, AppendProperties
<1>3. PICK f : f = frames
  OBVIOUS
<1>4. f = FramesOf(symbols, scopes) /\ f = [k \in 1 .. Innermost |-> f[k]]
  BY <1>1, <1>3, FramesAre, FramesHave
<1>5. frames' = FramesOf(symbols, scopes')
  BY <1>1, FramesAre
<1>6. frames' = [k \in 1 .. Innermost + 1 |->
                   IF k = Innermost + 1 THEN Scopes!NoKeys ELSE f[k]]
  <2>1. ASSUME NEW k \in 1 .. Innermost + 1
        PROVE  [key \in Names \X {"ordinary", "tag"} |->
                  FirstOf(symbols, scopes'[k], key[1], key[2])]
                 = IF k = Innermost + 1 THEN Scopes!NoKeys ELSE f[k]
    <3>1. CASE k = Innermost + 1
      BY <1>2, <3>1, EmptyFrame
    <3>2. CASE k # Innermost + 1
      <4>1. k \in 1 .. Innermost /\ scopes'[k] = scopes[k]
        BY <1>1, <1>2, <3>2
      <4> QED
        BY <1>1, <1>4, <3>2, <4>1 DEF FramesOf
    <3> QED
      BY <3>1, <3>2
  <2> QED
    BY <1>2, <1>5, <2>1 DEF FramesOf
<1>7. frames' = Append(f, Scopes!NoKeys)
  <2>1. PICK g : g = frames'
    OBVIOUS
  <2> QED
    BY <1>1, <1>4, <1>6, <2>1, AppendedIs
<1> QED
  BY <1>1, <1>3, <1>7 DEF Scopes!Open, PushScope

LEMMA PopFileRefined ==
  ASSUME PopFileScope, IInv
  PROVE  Scopes!Close
<1>1. UNCHANGED <<symbols, scopes>> /\ Innermost <= 1
  BY DEF PopFileScope
<1>2. frames = FramesOf(symbols, scopes) /\ frames' = frames
  BY <1>1, FramesAre, FramesKept
<1>3. Scopes!Depth = Innermost /\ Innermost \in Nat
  <2>1. Len(scopes) \in Nat /\ Innermost = Len(scopes)
    BY TypesGive DEF IInv, Innermost
  <2>2. Len(FramesOf(symbols, scopes)) = Len(scopes)
    BY <2>1 DEF FramesOf
  <2> QED
    BY <1>2, <2>1, <2>2 DEF Scopes!Depth
<1> QED
  BY <1>1, <1>2, <1>3 DEF Scopes!Close, PopFileScope

LEMMA PopFinishRefined ==
  ASSUME PopFinish, IInv
  PROVE  Scopes!Close
<1>1. /\ Innermost \in Nat \ {0} /\ scopes \in Seq(Seq(Nat)) /\ Len(scopes) = Innermost
      /\ scopes' = SubSeq(scopes, 1, Innermost - 1) /\ symbols' = symbols /\ Innermost > 1
  BY TypesGive DEF IInv, Types, Innermost, PopFinish, Closing
<1>2. /\ Len(scopes') = Innermost - 1
      /\ \A k \in 1 .. Innermost - 1 : scopes'[k] = scopes[k]
  BY <1>1, SubSeqProperties
<1>3. PICK f : f = frames
  OBVIOUS
<1>4. f = FramesOf(symbols, scopes) /\ f = [k \in 1 .. Innermost |-> f[k]]
  BY <1>1, <1>3, FramesAre, FramesHave
<1>5. frames' = FramesOf(symbols, scopes')
  BY <1>1, FramesAre
<1>6. frames' = [k \in 1 .. Innermost - 1 |-> f[k]]
  <2>1. ASSUME NEW k \in 1 .. Innermost - 1
        PROVE  [key \in Names \X {"ordinary", "tag"} |->
                  FirstOf(symbols, scopes'[k], key[1], key[2])] = f[k]
    <3>1. k \in 1 .. Innermost /\ scopes'[k] = scopes[k]
      BY <1>1, <1>2
    <3> QED
      BY <1>1, <1>4, <3>1 DEF FramesOf
  <2> QED
    BY <1>2, <1>5, <2>1 DEF FramesOf
<1>7. frames' = SubSeq(f, 1, Innermost - 1)
  <2>1. PICK g : g = frames'
    OBVIOUS
  <2> QED
    BY <1>1, <1>4, <1>6, <2>1, CutIs
<1>8. Scopes!Depth = Innermost
  <2>1. Len(FramesOf(symbols, scopes)) = Innermost
    BY <1>1 DEF FramesOf
  <2> QED
    BY <1>3, <1>4, <2>1 DEF Scopes!Depth
<1> QED
  BY <1>1, <1>3, <1>7, <1>8 DEF Scopes!Close, PopFinish

LEMMA InsertRefined ==
  ASSUME IInv, NEW n \in Names, NEW b \in Scopes!Bindings, Insert(n, b)
  PROVE  Scopes!Declare(n, b)
<1>1. /\ Types /\ Layered(symbols, scopes)
      /\ Innermost \in Nat \ {0} /\ scopes \in Seq(Seq(Nat)) /\ Len(scopes) = Innermost
      /\ Innermost \in 1 .. Innermost
  BY TypesGive DEF IInv, Types, Innermost
<1>2. PICK new : new = Len(symbols) + 1
  OBVIOUS
<1>3. PICK x : x = [name |-> n, ns |-> b.ns, kind |-> b.kind, depth |-> Innermost - 1]
  OBVIOUS
<1>4. /\ symbols' = Append(symbols, x)
      /\ scopes' = [scopes EXCEPT ![Innermost] = <<new>> \o @]
      /\ answer' = Scopes!Answer("insert", new)
  BY <1>2, <1>3 DEF Insert
<1>5. /\ new \in Nat /\ symbols'[new] = x /\ \A s \in Known : symbols'[s] = symbols[s] /\ s < new
  <2>1. symbols \in Seq(Symbol) /\ x \in Symbol /\ Len(symbols) \in Nat
    <3>1. Innermost - 1 \in Nat
      BY <1>1
    <3> QED
      BY <1>1, <1>3, <3>1, SymbolIs, TypesGive DEF Types
  <2> QED
    BY <1>2, <1>4, <2>1, AppendProperties DEF Known
<1>6. PICK f : f = frames
  OBVIOUS
<1>7. f = FramesOf(symbols, scopes)
  BY <1>6, FramesAre
<1>8. PICK sym : sym = symbols'
  OBVIOUS
<1>9. PICK sc : sc = scopes'
  OBVIOUS
<1>10. frames' = FramesOf(sym, sc) /\ Len(sc) = Innermost
  BY <1>1, <1>4, <1>8, <1>9, FramesAre
<1>11. b.ns \in {"ordinary", "tag"}
  BY DEF Scopes!Bindings
<1>12. ASSUME NEW k \in 1 .. Innermost
       PROVE  /\ scopes[k] \in Seq(Nat) /\ NewestFirst(scopes[k])
              /\ Members(scopes[k]) \subseteq Known
  BY <1>1, TypesGive DEF Layered, Types
<1>13. ASSUME NEW k \in 1 .. Innermost, k # Innermost PROVE FramesOf(sym, sc)[k] = f[k]
  <2>1. sc[k] = scopes[k]
    BY <1>1, <1>4, <1>9, <1>13
  <2>2. \A s \in Members(scopes[k]) : sym[s] = symbols[s]
    BY <1>5, <1>8, <1>12
  <2>3. \A m, ns : FirstOf(sym, scopes[k], m, ns) = FirstOf(symbols, scopes[k], m, ns)
    BY <1>12, <2>2, FirstKept
  <2> QED
    BY <1>1, <1>7, <1>10, <2>1, <2>3 DEF FramesOf
<1>14. FramesOf(sym, sc)[Innermost] = [f[Innermost] EXCEPT ![<<n, b.ns>>] = new]
  <2>1. sc[Innermost] = <<new>> \o scopes[Innermost]
    BY <1>1, <1>4, <1>9
  <2>2. \A s \in Members(scopes[Innermost]) : sym[s] = symbols[s] /\ s < new
    BY <1>1, <1>5, <1>8, <1>12
  <2>3. PICK l : l = scopes[Innermost]
    OBVIOUS
  <2>4. ASSUME NEW m, NEW ns
        PROVE  FirstOf(sym, <<new>> \o l, m, ns) =
                 IF n = m /\ b.ns = ns THEN new ELSE FirstOf(symbols, l, m, ns)
    <3>1. sym[new].name = n /\ sym[new].ns = b.ns
      BY <1>3, <1>5, <1>8
    <3>2. l \in Seq(Nat) /\ NewestFirst(l) /\ new \in Nat
      BY <1>1, <1>5, <1>12, <2>3
    <3>3. PICK old : old = symbols
      OBVIOUS
    <3>4. \A s \in Members(l) : sym[s] = old[s] /\ s < new
      BY <2>2, <2>3, <3>3
    <3>5. FirstOf(sym, <<new>> \o l, m, ns) =
            IF sym[new].name = m /\ sym[new].ns = ns THEN new ELSE FirstOf(old, l, m, ns)
      BY <3>2, <3>4, FirstPushed
    <3> QED
      BY <3>1, <3>3, <3>5
  <2>5. f[Innermost] = [key \in Names \X {"ordinary", "tag"} |->
                          FirstOf(symbols, l, key[1], key[2])]
    BY <1>1, <1>7, <2>3 DEF FramesOf
  <2>6. PICK e : e = [f[Innermost] EXCEPT ![<<n, b.ns>>] = new]
    OBVIOUS
  <2>7. ASSUME NEW key \in Names \X {"ordinary", "tag"}
        PROVE  FirstOf(sym, <<new>> \o l, key[1], key[2]) = e[key]
    <3>1. CASE key = <<n, b.ns>>
      <4>1. n = key[1] /\ b.ns = key[2]
        BY <3>1
      <4>2. e[key] = new
        BY <2>5, <2>6, <3>1
      <4> QED
        BY <2>4, <4>1, <4>2
    <3>2. CASE key # <<n, b.ns>>
      <4>1. ~(n = key[1] /\ b.ns = key[2])
        BY <3>2
      <4>2. e[key] = f[Innermost][key]
        BY <2>5, <2>6, <3>2
      <4>3. f[Innermost][key] = FirstOf(symbols, l, key[1], key[2])
        BY <2>5
      <4> QED
        BY <2>4, <4>1, <4>2, <4>3
    <3> QED
      BY <3>1, <3>2
  <2>8. e = [key \in Names \X {"ordinary", "tag"} |-> e[key]]
    BY <2>5, <2>6
  <2>9. FramesOf(sym, sc)[Innermost] =
          [key \in Names \X {"ordinary", "tag"} |->
             FirstOf(sym, <<new>> \o l, key[1], key[2])]
    BY <1>1, <1>10, <2>1, <2>3 DEF FramesOf
  <2>10. FramesOf(sym, sc)[Innermost] = [key \in Names \X {"ordinary", "tag"} |-> e[key]]
    BY <2>7, <2>9
  <2> QED
    BY <2>6, <2>8, <2>10
<1>15. frames' = [f EXCEPT ![Innermost] = [f[Innermost] EXCEPT ![<<n, b.ns>>] = new]]
  <2>1. PICK e : e = [f[Innermost] EXCEPT ![<<n, b.ns>>] = new]
    OBVIOUS
  <2>2. PICK g : g = FramesOf(sym, sc)
    OBVIOUS
  <2>3. g = [k \in 1 .. Innermost |-> g[k]] /\ f = [k \in 1 .. Innermost |-> f[k]]
    BY <1>1, <1>7, <1>10, <2>2, FramesHave
  <2>4. g[Innermost] = e /\ \A k \in 1 .. Innermost : k # Innermost => g[k] = f[k]
    BY <1>13, <1>14, <2>1, <2>2
  <2>5. g = [f EXCEPT ![Innermost] = e]
    BY <2>3, <2>4
  <2> QED
    BY <1>10, <2>1, <2>2, <2>5
<1>16. Scopes!Depth = Innermost
  <2>1. Len(FramesOf(symbols, scopes)) = Innermost
    BY <1>1 DEF FramesOf
  <2> QED
    BY <1>6, <1>7, <2>1 DEF Scopes!Depth
<1> QED
  BY <1>2, <1>3, <1>4, <1>6, <1>15, <1>16 DEF Scopes!Declare

(* A lookup asks a stack of scopes that has what the chains have.          *)
LEMMA AsksRefined ==
  ASSUME IInv, ~popping, UNCHANGED <<symbols, scopes>>,
         NEW n \in Names, NEW ns \in Scopes!NameSpaces
  PROVE  /\ Lookup(n, ns) => Scopes!Next
         /\ LookupCurrentScope(n, ns) => Scopes!Next
         /\ IsTypedefName(n) => Scopes!Next
<1>1. frames' = frames /\ symbols' = symbols
  BY FramesKept
<1>2. /\ ns \in {"ordinary", "tag"} /\ "ordinary" \in {"ordinary", "tag"}
      /\ <<n, ns>> \in Scopes!Keys
  BY DEF Scopes!NameSpaces, Scopes!Keys
<1>3. ASSUME Lookup(n, ns) PROVE Scopes!Next
  <2>1. Found(n, ns) = Scopes!Visible(<<n, ns>>)
    BY <1>2, FoundIsVisible
  <2>2. Scopes!Asks("lookup", Scopes!Visible(<<n, ns>>))
    BY <1>1, <1>3, <2>1 DEF Lookup, Asked, Scopes!Asks
  <2> QED
    BY <1>2, <2>2 DEF Scopes!Next
<1>4. ASSUME LookupCurrentScope(n, ns) PROVE Scopes!Next
  <2>1. Scopes!Depth = Innermost
    BY <1>2, VisibleIsGreatest
  <2>2. Innermost \in 1 .. Len(scopes) /\ scopes \in Seq(Seq(Nat))
    BY TypesGive DEF IInv, Types, Innermost
  <2>3. FirstMatch(scopes[Innermost], n, ns) = frames[Scopes!Depth][<<n, ns>>]
    BY <1>2, <2>1, <2>2, FramesAre, FrameIs, FirstMatchIs
  <2>4. Scopes!Asks("lookup_current_scope", frames[Scopes!Depth][<<n, ns>>])
    BY <1>1, <1>4, <2>3 DEF LookupCurrentScope, Asked, Scopes!Asks
  <2> QED
    BY <1>2, <2>4 DEF Scopes!Next
<1>5. ASSUME IsTypedefName(n) PROVE Scopes!Next
  <2>1. Found(n, "ordinary") = Scopes!Visible(<<n, "ordinary">>)
    BY <1>2, FoundIsVisible
  <2>2. Scopes!Asks("is_typedef_name",
                    Scopes!Flag(Scopes!IsTypedef(Scopes!Visible(<<n, "ordinary">>))))
    BY <1>1, <1>5, <2>1
       DEF IsTypedefName, Asked, Scopes!Asks, Scopes!IsTypedef, Scopes!Unbound, Unbound
  <2> QED
    BY <2>2 DEF Scopes!Next
<1> QED
  BY <1>3, <1>4, <1>5

LEMMA StepRefined == IInv /\ [Next]_vars => [Scopes!Next]_Scopes!scopeVars
<1> SUFFICES ASSUME IInv, [Next]_vars PROVE [Scopes!Next]_Scopes!scopeVars
  OBVIOUS
<1>1. CASE PushScope
  BY <1>1, PushRefined DEF Scopes!Next
<1>2. CASE PushFails \/ InsertFails
  <2>1. UNCHANGED <<symbols, scopes>> /\ frames' = frames
    BY <1>2, FramesKept DEF PushFails, InsertFails
  <2>2. \E op \in {"push", "insert"} : Scopes!Fails(op)
    BY <1>2, <2>1 DEF PushFails, InsertFails, Scopes!Fails
  <2> QED
    BY <2>2 DEF Scopes!Next
<1>3. CASE PopFileScope
  BY <1>3, PopFileRefined DEF Scopes!Next
<1>4. CASE PopStart \/ PopSymbol \/ UNCHANGED vars
  <2>1. UNCHANGED <<symbols, scopes, answer>> /\ frames' = frames
    BY <1>4, FramesKept DEF PopStart, PopSymbol, vars
  <2> QED
    BY <2>1 DEF Scopes!scopeVars
<1>5. CASE PopFinish
  BY <1>5, PopFinishRefined DEF Scopes!Next
<1>6. CASE \E n \in Names, b \in Scopes!Bindings : Insert(n, b)
  BY <1>6, InsertRefined DEF Scopes!Next
<1>7. CASE \E n \in Names, ns \in Scopes!NameSpaces :
             Lookup(n, ns) \/ LookupCurrentScope(n, ns)
  <2>1. PICK n \in Names, ns \in Scopes!NameSpaces :
          Lookup(n, ns) \/ LookupCurrentScope(n, ns)
    BY <1>7
  <2>2. ~popping /\ UNCHANGED <<symbols, scopes>>
    BY <2>1 DEF Lookup, LookupCurrentScope, Asked
  <2> QED
    BY <2>1, <2>2, AsksRefined
<1>8. CASE \E n \in Names : IsTypedefName(n)
  <2>1. PICK n \in Names : IsTypedefName(n)
    BY <1>8
  <2>2. ~popping /\ UNCHANGED <<symbols, scopes>> /\ "tag" \in Scopes!NameSpaces
    BY <2>1 DEF IsTypedefName, Asked, Scopes!NameSpaces
  <2> QED
    BY <2>1, <2>2, AsksRefined
<1> QED
  BY <1>1, <1>2, <1>3, <1>4, <1>5, <1>6, <1>7, <1>8 DEF Next

(* The one hash table with its chains answers every call as a stack of     *)
(* scopes does, each a map of its own (symtab.c:33-250).                   *)
THEOREM Refinement == Spec => ImplementsScopes
BY StartRefined, StepRefined, Invariance, PTL DEF Spec, ImplementsScopes, Scopes!Spec
=============================================================================
