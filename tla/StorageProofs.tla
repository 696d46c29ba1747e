--------------------------- MODULE StorageProofs ---------------------------
(***************************************************************************)
(* Proofs about the arena and the interner, the parts of storage.  For     *)
(* every size of memory, header, block, request and alignment and every    *)
(* malloc, what the arena hands out stays apart, and a block that was      *)
(* reserved for a request serves it: the arithmetic of addresses comes     *)
(* first, then sums over a sequence, what serving a request and pushing a  *)
(* block preserve, and the calls.  Then the interner over its arena finds  *)
(* what it stored, each copy it points at stays its own, and it gives      *)
(* every spelling one pointer: for any spellings, hashes, lengths and      *)
(* first size, and whatever its arena is asked for in between.  The        *)
(* probes' invariant is taken from ProbingProofs; what the second part     *)
(* adds to the first is the interplay of the two.                          *)
(***************************************************************************)
EXTENDS Interner, WellFoundedInduction, ProbingProofs

-----------------------------------------------------------------------------
(* Arithmetic                                                              *)

LEMMA Divide ==
  ASSUME NEW v \in Nat, NEW a \in Nat \ {0}
  PROVE  /\ v = (v \div a) * a + (v % a)
         /\ v % a \in Nat /\ v % a < a
         /\ v \div a \in Nat
  OBVIOUS

LEMMA MultipleAligned ==
  ASSUME NEW k \in Nat, NEW a \in Nat \ {0}
  PROVE  (k * a) % a = 0
  OBVIOUS

LEMMA NoWrap ==
  ASSUME NEW x \in Nat, x <= SizeMax
  PROVE  Wrap(x) = x
  BY ArenaAssumption DEF Wrap

(* align_up_uintptr: the next multiple, less than an alignment away.       *)
LEMMA AlignUpIs ==
  ASSUME NEW v \in Nat, NEW a \in Nat \ {0}
  PROVE  /\ AlignUp(v, a) \in Nat
         /\ v <= AlignUp(v, a) /\ AlignUp(v, a) < v + a
         /\ AlignUp(v, a) % a = 0
<1>1. v + a - 1 \in Nat
  OBVIOUS
<1>2. /\ AlignUp(v, a) \in Nat
      /\ v <= AlignUp(v, a) /\ AlignUp(v, a) < v + a
  BY <1>1, Divide DEF AlignUp
<1>3. (v + a - 1) \div a \in Nat
  BY <1>1, Divide
<1>4. AlignUp(v, a) % a = 0
  BY <1>3, MultipleAligned DEF AlignUp
<1> QED
  BY <1>2, <1>4

-----------------------------------------------------------------------------
(* Sums                                                                    *)

Smaller == {ss \in Nat \X Nat : ss[1] < ss[2]}

LEMMA SmallerWellFounded == IsWellFoundedOn(Smaller, Nat)
  BY NatLessThanWellFounded DEF OpToRel, Smaller

(* A set of naturals that is not empty has a least element.                *)
LEMMA Least ==
  ASSUME NEW T \in SUBSET Nat, T # {}
  PROVE  \E x \in T : \A y \in T : x <= y
<1>1. PICK x \in T : \A y \in T : <<y, x>> \notin Smaller
  BY SmallerWellFounded, WFMin
<1>2. ASSUME NEW y \in T PROVE x <= y
  <2>1. x \in Nat /\ y \in Nat
    OBVIOUS
  <2>2. y < x => <<y, x>> \in Smaller
    BY <2>1 DEF Smaller
  <2> QED
    BY <1>1, <2>1, <2>2
<1> QED
  BY <1>2

(* f gives the sum of the first n elements of s.                           *)
Sums(s, f) == f = [n \in 0 .. Len(s) |-> IF n = 0 THEN 0 ELSE f[n - 1] + s[n]]

LEMMA SumsIs ==
  ASSUME NEW s \in Seq(Nat), NEW f, Sums(s, f)
  PROVE  /\ f[0] = 0
         /\ \A n \in 1 .. Len(s) : f[n] = f[n - 1] + s[n]
<1> DEFINE g == [n \in 0 .. Len(s) |-> IF n = 0 THEN 0 ELSE f[n - 1] + s[n]]
<1>1. f = g
  BY DEF Sums
<1>2. g[0] = 0 /\ \A n \in 1 .. Len(s) : g[n] = f[n - 1] + s[n]
  OBVIOUS
<1> HIDE DEF g
<1> QED
  BY <1>1, <1>2

(* Where sequences begin alike, so do their sums.                          *)
LEMMA SumsAgree ==
  ASSUME NEW s \in Seq(Nat), NEW t \in Seq(Nat), NEW f, NEW g,
         Sums(s, f), Sums(t, g),
         NEW m \in Nat, m <= Len(s), m <= Len(t),
         \A n \in 1 .. m : s[n] = t[n]
  PROVE  f[m] = g[m]
<1> SUFFICES ASSUME f[m] # g[m] PROVE FALSE
  OBVIOUS
<1> DEFINE T == {n \in 0 .. m : f[n] # g[n]}
<1>1. T \in SUBSET Nat /\ T # {}
  OBVIOUS
<1>2. PICK n \in T : \A k \in T : n <= k
  BY <1>1, Least
<1>3. n \in 0 .. m /\ f[n] # g[n]
  OBVIOUS
<1>4. n # 0
  BY <1>3, SumsIs
<1>5. n \in 1 .. Len(s) /\ n \in 1 .. Len(t) /\ n \in 1 .. m /\ n - 1 \in 0 .. m
  BY <1>3, <1>4
<1>6. f[n - 1] = g[n - 1]
  BY <1>2, <1>5
<1> HIDE DEF T
<1>7. f[n] = f[n - 1] + s[n] /\ g[n] = g[n - 1] + t[n]
  BY <1>5, SumsIs
<1> QED
  BY <1>3, <1>5, <1>6, <1>7

(* Every sequence of naturals has its sums.                                *)
Summed(s) == \E f \in [0 .. Len(s) -> Nat] : Sums(s, f)

LEMMA SumsExtend ==
  ASSUME NEW s \in Seq(Nat), Len(s) # 0,
         NEW t \in Seq(Nat), Len(t) = Len(s) - 1,
         \A n \in 1 .. Len(t) : t[n] = s[n],
         Summed(t)
  PROVE  Summed(s)
<1>1. PICK g \in [0 .. Len(t) -> Nat] : Sums(t, g)
  BY DEF Summed
<1> DEFINE m == Len(s)
           f == [n \in 0 .. m |-> IF n = m THEN g[m - 1] + s[m] ELSE g[n]]
<1>2. /\ m \in Nat \ {0} /\ Len(t) = m - 1 /\ s[m] \in Nat
      /\ g[m - 1] \in Nat
  <2>1. m \in Nat \ {0} /\ Len(t) = m - 1
    OBVIOUS
  <2>2. m \in 1 .. Len(s) /\ m - 1 \in 0 .. Len(t)
    BY <2>1
  <2> HIDE DEF m
  <2> QED
    BY <2>1, <2>2
<1>3. f \in [0 .. m -> Nat]
  BY <1>2
<1>4. g[0] = 0 /\ \A n \in 1 .. m - 1 : g[n] = g[n - 1] + s[n]
  <2>1. g[0] = 0 /\ \A n \in 1 .. Len(t) : g[n] = g[n - 1] + t[n]
    BY <1>1, SumsIs
  <2> QED
    BY <1>2, <2>1
<1>5. f[0] = 0 /\ f[m] = g[m - 1] + s[m]
      /\ \A n \in 0 .. m - 1 : f[n] = g[n]
  BY <1>2, <1>4
<1>6. ASSUME NEW n \in 0 .. m
      PROVE  f[n] = IF n = 0 THEN 0 ELSE f[n - 1] + s[n]
  <2>1. CASE n = 0
    BY <1>5, <2>1
  <2>2. CASE n = m
    <3>1. n - 1 \in 0 .. m - 1 /\ n # 0
      BY <1>2, <2>2
    <3> HIDE DEF f
    <3> QED
      BY <1>5, <2>2, <3>1
  <2>3. CASE n # 0 /\ n # m
    <3>1. n \in 1 .. m - 1 /\ n \in 0 .. m - 1 /\ n - 1 \in 0 .. m - 1
      BY <1>2, <2>3
    <3> HIDE DEF f
    <3> QED
      BY <1>4, <1>5, <2>3, <3>1
  <2> QED
    BY <2>1, <2>2, <2>3
<1> HIDE DEF f
<1>7. f = [n \in 0 .. m |-> IF n = 0 THEN 0 ELSE f[n - 1] + s[n]]
  BY <1>3, <1>6
<1> QED
  BY <1>3, <1>7 DEF Sums, Summed

LEMMA SumsExist ==
  ASSUME NEW s \in Seq(Nat)
  PROVE  Summed(s)
<1> DEFINE T == {n \in Nat : \E t \in Seq(Nat) : Len(t) = n /\ ~ Summed(t)}
<1> SUFFICES ASSUME ~ Summed(s) PROVE FALSE
  OBVIOUS
<1>1. T \in SUBSET Nat /\ T # {}
  OBVIOUS
<1>2. PICK n \in T : \A k \in T : n <= k
  BY <1>1, Least
<1>3. PICK t \in Seq(Nat) : Len(t) = n /\ ~ Summed(t)
  BY <1>2
<1>4. CASE n = 0
  <2> DEFINE f == [k \in 0 .. 0 |-> 0]
  <2>1. f \in [0 .. Len(t) -> Nat]
    BY <1>3, <1>4
  <2>2. f = [k \in 0 .. Len(t) |-> IF k = 0 THEN 0 ELSE f[k - 1] + t[k]]
    BY <1>3, <1>4
  <2> HIDE DEF f
  <2> QED
    BY <1>3, <2>1, <2>2 DEF Sums, Summed
<1>5. CASE n # 0
  <2> DEFINE r == [k \in 1 .. n - 1 |-> t[k]]
  <2>1. n \in Nat \ {0}
    BY <1>3, <1>5
  <2>2. r \in Seq(Nat) /\ Len(r) = n - 1
    BY <1>3, <2>1
  <2>3. \A k \in 1 .. Len(r) : r[k] = t[k]
    BY <2>2
  <2> HIDE DEF r
  <2>4. Summed(r)
    <3>1. n - 1 \notin T
      BY <1>2, <2>1
    <3> QED
      BY <2>1, <2>2, <3>1
  <2> QED
    BY <1>3, <2>1, <2>2, <2>3, <2>4, SumsExtend
<1> QED
  BY <1>4, <1>5

LEMMA SumOfIs ==
  ASSUME NEW s \in Seq(Nat), NEW f, Sums(s, f)
  PROVE  SumOf(s) = f[Len(s)] /\ SumOf(s) \in Nat
<1> DEFINE to == CHOOSE g : Sums(s, g)
<1>1. Sums(s, to)
  OBVIOUS
<1>2. SumOf(s) = to[Len(s)]
  BY DEF SumOf, Sums
<1> HIDE DEF to
<1>3. PICK g \in [0 .. Len(s) -> Nat] : Sums(s, g)
  BY SumsExist DEF Summed
<1>4. to[Len(s)] = f[Len(s)] /\ to[Len(s)] = g[Len(s)]
  BY <1>1, <1>3, SumsAgree
<1> QED
  BY <1>2, <1>3, <1>4

LEMMA SumOfNone == SumOf(<<>>) = 0
<1>1. <<>> \in Seq(Nat)
  OBVIOUS
<1>2. PICK f : Sums(<<>>, f)
  BY <1>1, SumsExist DEF Summed
<1> QED
  BY <1>1, <1>2, SumOfIs, SumsIs

(* The last element counts.                                                *)
LEMMA SumOfLast ==
  ASSUME NEW s \in Seq(Nat), NEW t \in Seq(Nat), Len(s) # 0,
         Len(t) = Len(s) - 1,
         \A n \in 1 .. Len(t) : t[n] = s[n]
  PROVE  SumOf(s) = SumOf(t) + s[Len(s)]
<1>1. PICK f : Sums(s, f)
  BY SumsExist DEF Summed
<1>2. PICK g : Sums(t, g)
  BY SumsExist DEF Summed
<1>3. SumOf(s) = f[Len(s)] /\ SumOf(t) = g[Len(t)]
  BY <1>1, <1>2, SumOfIs
<1>4. Len(s) \in 1 .. Len(s) /\ Len(t) \in Nat /\ Len(t) <= Len(s)
  OBVIOUS
<1>5. f[Len(t)] = g[Len(t)]
  <2>1. PICK m \in Nat : m = Len(t)
    BY <1>4
  <2>2. m <= Len(s) /\ m <= Len(t) /\ \A n \in 1 .. m : s[n] = t[n]
    BY <1>4, <2>1
  <2>3. f[m] = g[m]
    BY ONLY <1>1, <1>2, <2>2, SumsAgree, s \in Seq(Nat), t \in Seq(Nat)
  <2> QED
    BY <2>1, <2>3
<1>6. f[Len(s)] = f[Len(s) - 1] + s[Len(s)]
  BY <1>1, <1>4, SumsIs
<1> QED
  BY <1>3, <1>5, <1>6

(* What the last element gains, the sum does.                              *)
LEMMA SumOfGrown ==
  ASSUME NEW s \in Seq(Nat), NEW t \in Seq(Nat), Len(s) # 0, Len(t) = Len(s),
         NEW x \in Nat,
         \A n \in 1 .. Len(s) : n # Len(s) => t[n] = s[n],
         t[Len(s)] = s[Len(s)] + x
  PROVE  SumOf(t) = SumOf(s) + x
<1> DEFINE r == [n \in 1 .. Len(s) - 1 |-> s[n]]
<1>1. r \in Seq(Nat) /\ Len(r) = Len(s) - 1
      /\ \A n \in 1 .. Len(r) : r[n] = s[n] /\ r[n] = t[n]
  <2>1. Len(s) - 1 \in Nat /\ 1 .. Len(s) - 1 \subseteq 1 .. Len(s)
    OBVIOUS
  <2>2. \A n \in 1 .. Len(s) - 1 : s[n] \in Nat /\ t[n] = s[n]
    BY <2>1
  <2>3. r \in Seq(Nat) /\ Len(r) = Len(s) - 1
    BY <2>1, <2>2
  <2> QED
    BY <2>2, <2>3
<1> HIDE DEF r
<1>2. SumOf(s) = SumOf(r) + s[Len(s)]
  BY <1>1, SumOfLast
<1>3. SumOf(t) = SumOf(r) + t[Len(t)]
  BY <1>1, SumOfLast
<1>4. SumOf(r) \in Nat /\ s[Len(s)] \in Nat
  BY <1>1, SumsExist, SumOfIs DEF Summed
<1> QED
  BY <1>2, <1>3, <1>4

-----------------------------------------------------------------------------
(* Blocks and objects                                                      *)

Block == [at : Nat, capacity : Nat, used : Nat]
Object == [at : Nat, size : Nat \ {0}, align : Nat \ {0}]

(* A block lies in memory behind its header, its cursor within it.         *)
BlockSound(b) ==
  /\ b.used <= b.capacity
  /\ HeaderSize <= b.at /\ b.at + b.capacity <= SizeMax

BlocksApart(b, c) ==
  Apart(b.at - HeaderSize, HeaderSize + b.capacity,
        c.at - HeaderSize, HeaderSize + c.capacity)

(* Object o lies in the used part of block b.                              *)
Within(o, b) == b.at <= o.at /\ o.at + o.size <= b.at + b.used

ChainSound(bs) ==
  /\ bs \in Seq(Block)
  /\ \A k \in 1 .. Len(bs) : BlockSound(bs[k])
  /\ \A k, l \in 1 .. Len(bs) : k # l => BlocksApart(bs[k], bs[l])

ObjectsSound(bs, os) ==
  /\ os \in Seq(Object)
  /\ \A i \in 1 .. Len(os) : os[i].at % os[i].align = 0
  /\ \A i \in 1 .. Len(os) : \E k \in 1 .. Len(bs) : Within(os[i], bs[k])
  /\ \A i, j \in 1 .. Len(os) :
       i # j => Apart(os[i].at, os[i].size, os[j].at, os[j].size)

LEMMA BlockFields ==
  ASSUME NEW b \in Block
  PROVE  b.at \in Nat /\ b.capacity \in Nat /\ b.used \in Nat
  BY DEF Block

LEMMA ObjectFields ==
  ASSUME NEW o \in Object
  PROVE  o.at \in Nat /\ o.size \in Nat \ {0} /\ o.align \in Nat \ {0}
  BY DEF Object

LEMMA WithinGrown ==
  ASSUME NEW o \in Object, NEW b \in Block, NEW c \in Block,
         Within(o, b), c.at = b.at, b.used <= c.used
  PROVE  Within(o, c)
  BY BlockFields, ObjectFields DEF Within

(* An object of block b, and one placed behind the cursor of block c.      *)
LEMMA NewApart ==
  ASSUME NEW p \in Object, NEW b \in Block, NEW o \in Object, NEW c \in Block,
         Within(p, b), BlockSound(b), b = c \/ BlocksApart(b, c),
         c.at + c.used <= o.at, o.at + o.size <= c.at + c.capacity
  PROVE  Apart(p.at, p.size, o.at, o.size)
<1>1. /\ b.at \in Nat /\ b.capacity \in Nat /\ b.used \in Nat
      /\ c.at \in Nat /\ c.capacity \in Nat /\ c.used \in Nat
      /\ p.at \in Nat /\ p.size \in Nat /\ o.at \in Nat /\ o.size \in Nat
      /\ HeaderSize \in Nat
  BY BlockFields, ObjectFields, ArenaAssumption
<1>2. CASE b = c
  BY <1>1, <1>2 DEF Within, Apart
<1>3. CASE BlocksApart(b, c)
  BY <1>1, <1>3 DEF BlocksApart, BlockSound, Within, Apart
<1> QED
  BY <1>2, <1>3

(* What a request takes ends within the block.                             *)
LEMMA EndsWithin ==
  ASSUME NEW at \in Nat, NEW used \in Nat, NEW capacity \in Nat,
         NEW place \in Nat, NEW bump \in Nat, NEW taken \in Nat,
         at + used + taken = place + bump, used + taken <= capacity
  PROVE  place + bump <= at + capacity
  OBVIOUS

(* The cursor of a block moved by taken.                                   *)
LEMMA MovedBlock ==
  ASSUME NEW b \in Block, NEW taken \in Nat,
         NEW b2, b2 = [b EXCEPT !.used = @ + taken]
  PROVE  /\ b2 \in Block /\ b2.at = b.at /\ b2.capacity = b.capacity
         /\ b2.used = b.used + taken
<1>1. b.at \in Nat /\ b.capacity \in Nat /\ b.used \in Nat
  BY BlockFields
<1>2. b2 = [at |-> b.at, capacity |-> b.capacity, used |-> b.used + taken]
  BY DEF Block
<1> QED
  BY <1>1, <1>2 DEF Block

(* Where a request that fits is placed.                                    *)
LEMMA PlaceIs ==
  ASSUME NEW b \in Block, BlockSound(b),
         NEW bump \in Nat \ {0}, NEW align \in Nat \ {0}, Fits(b, bump, align)
  PROVE  /\ Place(b, align) \in Nat
         /\ Place(b, align) % align = 0
         /\ b.at + b.used <= Place(b, align)
         /\ Taken(b, bump, align) \in Nat
         /\ b.at + b.used + Taken(b, bump, align) = Place(b, align) + bump
         /\ b.used + Taken(b, bump, align) <= b.capacity
<1>1. Cursor(b) \in Nat /\ Cursor(b) = b.at + b.used
  BY DEF Block, Cursor
<1>2. /\ Place(b, align) \in Nat /\ Place(b, align) % align = 0
      /\ Cursor(b) <= Place(b, align)
  BY <1>1, AlignUpIs DEF Place
<1>3. Taken(b, bump, align) = Place(b, align) - Cursor(b) + bump
  BY DEF Taken, Pad
<1>4. bump <= b.capacity - b.used - (Place(b, align) - Cursor(b))
  BY DEF Fits, Pad
<1>5. b.capacity \in Nat /\ b.used \in Nat /\ b.at \in Nat
  BY DEF Block
<1>6. Place(b, align) \in Nat /\ Cursor(b) <= Place(b, align)
  BY <1>2
<1>7. Taken(b, bump, align) \in Nat
  BY <1>1, <1>3, <1>6
<1>8. /\ b.at + b.used + Taken(b, bump, align) = Place(b, align) + bump
      /\ b.used + Taken(b, bump, align) <= b.capacity
  BY <1>1, <1>3, <1>4, <1>5, <1>6
<1> QED
  BY <1>1, <1>2, <1>7, <1>8

(* Block n of bs has moved its cursor by taken.                            *)
Advanced(bs, n, taken, bs2) == bs2 = [bs EXCEPT ![n].used = @ + taken]

LEMMA AdvancedIs ==
  ASSUME NEW bs \in Seq(Block), NEW n \in 1 .. Len(bs), NEW taken \in Nat,
         NEW bs2, Advanced(bs, n, taken, bs2)
  PROVE  /\ bs2 \in Seq(Block) /\ Len(bs2) = Len(bs)
         /\ bs2[n].used = bs[n].used + taken
         /\ \A k \in 1 .. Len(bs) :
              /\ bs2[k].at = bs[k].at /\ bs2[k].capacity = bs[k].capacity
              /\ bs2[k] \in Block /\ bs[k] \in Block
              /\ k # n => bs2[k] = bs[k]
<1> DEFINE b2 == [bs[n] EXCEPT !.used = @ + taken]
<1>1. bs[n] \in Block
  OBVIOUS
<1>2. b2 \in Block /\ b2.at = bs[n].at /\ b2.capacity = bs[n].capacity
      /\ b2.used = bs[n].used + taken
  BY <1>1, MovedBlock
<1>3. bs2 = [bs EXCEPT ![n] = b2]
  BY DEF Advanced
<1> HIDE DEF b2
<1>4. bs2 \in Seq(Block) /\ Len(bs2) = Len(bs) /\ bs2[n] = b2
      /\ \A k \in 1 .. Len(bs) : k # n => bs2[k] = bs[k]
  BY <1>2, <1>3
<1>5. \A k \in 1 .. Len(bs) : bs2[k] \in Block /\ bs[k] \in Block
  BY <1>4
<1> QED
  BY <1>2, <1>4, <1>5

LEMMA FiguresType ==
  ASSUME NEW bs \in Seq(Block)
  PROVE  /\ UsedOf(bs) \in Seq(Nat) /\ Len(UsedOf(bs)) = Len(bs)
         /\ CapacitiesOf(bs) \in Seq(Nat) /\ Len(CapacitiesOf(bs)) = Len(bs)
         /\ \A k \in 1 .. Len(bs) : /\ UsedOf(bs)[k] = bs[k].used
                                    /\ CapacitiesOf(bs)[k] = bs[k].capacity
<1>1. /\ DOMAIN bs = 1 .. Len(bs) /\ Len(bs) \in Nat
      /\ \A k \in 1 .. Len(bs) : bs[k].used \in Nat /\ bs[k].capacity \in Nat
  BY BlockFields
<1> QED
  BY <1>1 DEF UsedOf, CapacitiesOf

(* A cursor that moves is accounted for.                                   *)
LEMMA AdvancedSums ==
  ASSUME NEW bs \in Seq(Block), Len(bs) # 0, NEW taken \in Nat,
         NEW bs2, Advanced(bs, Len(bs), taken, bs2)
  PROVE  /\ SumOf(UsedOf(bs2)) = SumOf(UsedOf(bs)) + taken
         /\ SumOf(CapacitiesOf(bs2)) = SumOf(CapacitiesOf(bs))
<1>1. Len(bs) \in 1 .. Len(bs)
  OBVIOUS
<1>2. /\ bs2 \in Seq(Block) /\ Len(bs2) = Len(bs)
      /\ bs2[Len(bs)].used = bs[Len(bs)].used + taken
      /\ \A k \in 1 .. Len(bs) :
           /\ bs2[k].capacity = bs[k].capacity
           /\ k # Len(bs) => bs2[k] = bs[k]
  BY <1>1, AdvancedIs
<1> DEFINE u == UsedOf(bs)
           u2 == UsedOf(bs2)
           c == CapacitiesOf(bs)
           c2 == CapacitiesOf(bs2)
<1>3. /\ u \in Seq(Nat) /\ u2 \in Seq(Nat) /\ c \in Seq(Nat) /\ c2 \in Seq(Nat)
      /\ Len(u) = Len(bs) /\ Len(u2) = Len(bs)
      /\ Len(c) = Len(bs) /\ Len(c2) = Len(bs)
      /\ \A k \in 1 .. Len(bs) :
           /\ u[k] = bs[k].used /\ u2[k] = bs2[k].used
           /\ c[k] = bs[k].capacity /\ c2[k] = bs2[k].capacity
  BY <1>2, FiguresType
<1> HIDE DEF u, u2, c, c2
<1>4. SumOf(u2) = SumOf(u) + taken
  <2>1. /\ \A k \in 1 .. Len(u) : k # Len(u) => u2[k] = u[k]
        /\ u2[Len(u)] = u[Len(u)] + taken
    <3>1. ASSUME NEW k \in 1 .. Len(bs), k # Len(bs) PROVE u2[k] = u[k]
      <4>1. bs2[k] = bs[k]
        BY ONLY <1>2, <3>1, Zenon
      <4>2. u[k] = bs[k].used /\ u2[k] = bs2[k].used
        BY ONLY <1>3, <3>1, Zenon
      <4> QED
        BY ONLY <4>1, <4>2, Zenon
    <3>2. u2[Len(bs)] = u[Len(bs)] + taken
      <4>1. u[Len(bs)] = bs[Len(bs)].used /\ u2[Len(bs)] = bs2[Len(bs)].used
        BY ONLY <1>1, <1>3, Zenon
      <4>2. bs2[Len(bs)].used = bs[Len(bs)].used + taken
        BY ONLY <1>2, Zenon
      <4> QED
        BY ONLY <4>1, <4>2, Zenon
    <3>3. Len(u) = Len(bs)
      BY ONLY <1>3, Zenon
    <3> QED
      BY ONLY <3>1, <3>2, <3>3, Zenon
  <2>2. /\ u \in Seq(Nat) /\ u2 \in Seq(Nat)
        /\ Len(u) # 0 /\ Len(u2) = Len(u)
    BY ONLY <1>3, Len(bs) # 0
  <2> QED
    BY ONLY <2>1, <2>2, taken \in Nat, SumOfGrown, Zenon
<1>5. c2 = c
  <2>1. DOMAIN bs = 1 .. Len(bs) /\ DOMAIN bs2 = 1 .. Len(bs)
    BY <1>2
  <2> QED
    BY <1>2, <2>1 DEF c, c2, CapacitiesOf
<1> QED
  BY <1>4, <1>5 DEF u, u2, c, c2

LEMMA PushSums ==
  ASSUME NEW bs \in Seq(Block), NEW b \in Block
  PROVE  /\ SumOf(UsedOf(Append(bs, b))) = SumOf(UsedOf(bs)) + b.used
         /\ SumOf(CapacitiesOf(Append(bs, b)))
              = SumOf(CapacitiesOf(bs)) + b.capacity
<1> DEFINE bs2 == Append(bs, b)
<1>1. /\ bs2 \in Seq(Block) /\ Len(bs2) = Len(bs) + 1 /\ bs2[Len(bs) + 1] = b
      /\ \A k \in 1 .. Len(bs) : bs2[k] = bs[k]
  OBVIOUS
<1> HIDE DEF bs2
<1>2. b.used \in Nat /\ b.capacity \in Nat /\ Len(bs) \in Nat
  BY BlockFields
<1>3. /\ UsedOf(bs) \in Seq(Nat) /\ CapacitiesOf(bs) \in Seq(Nat)
      /\ Len(UsedOf(bs)) = Len(bs) /\ Len(CapacitiesOf(bs)) = Len(bs)
      /\ UsedOf(bs2) \in Seq(Nat) /\ CapacitiesOf(bs2) \in Seq(Nat)
      /\ Len(UsedOf(bs2)) = Len(bs) + 1 /\ Len(CapacitiesOf(bs2)) = Len(bs) + 1
      /\ UsedOf(bs2)[Len(bs) + 1] = b.used
      /\ CapacitiesOf(bs2)[Len(bs) + 1] = b.capacity
      /\ \A k \in 1 .. Len(bs) : /\ UsedOf(bs)[k] = UsedOf(bs2)[k]
                                 /\ CapacitiesOf(bs)[k] = CapacitiesOf(bs2)[k]
  <2>1. \A k \in 1 .. Len(bs) : k \in 1 .. Len(bs2)
    BY <1>1
  <2>2. Len(bs) + 1 \in 1 .. Len(bs2)
    BY <1>1, <1>2
  <2>3. /\ UsedOf(bs) \in Seq(Nat) /\ Len(UsedOf(bs)) = Len(bs)
        /\ CapacitiesOf(bs) \in Seq(Nat) /\ Len(CapacitiesOf(bs)) = Len(bs)
        /\ \A k \in 1 .. Len(bs) : /\ UsedOf(bs)[k] = bs[k].used
                                   /\ CapacitiesOf(bs)[k] = bs[k].capacity
    BY FiguresType, Zenon
  <2>4. /\ UsedOf(bs2) \in Seq(Nat) /\ Len(UsedOf(bs2)) = Len(bs2)
        /\ CapacitiesOf(bs2) \in Seq(Nat) /\ Len(CapacitiesOf(bs2)) = Len(bs2)
        /\ \A k \in 1 .. Len(bs2) : /\ UsedOf(bs2)[k] = bs2[k].used
                                    /\ CapacitiesOf(bs2)[k] = bs2[k].capacity
    BY <1>1, FiguresType, Zenon
  <2>5. /\ UsedOf(bs2)[Len(bs) + 1] = b.used
        /\ CapacitiesOf(bs2)[Len(bs) + 1] = b.capacity
    BY ONLY <1>1, <2>2, <2>4, Zenon
  <2>6. ASSUME NEW k \in 1 .. Len(bs)
        PROVE  /\ UsedOf(bs)[k] = UsedOf(bs2)[k]
               /\ CapacitiesOf(bs)[k] = CapacitiesOf(bs2)[k]
    <3>1. k \in 1 .. Len(bs2) /\ bs2[k] = bs[k]
      BY ONLY <1>1, <2>1, <2>6, Zenon
    <3> QED
      BY ONLY <2>3, <2>4, <2>6, <3>1, Zenon
  <2> QED
    BY ONLY <1>1, <2>3, <2>4, <2>5, <2>6, Zenon
<1>4. SumOf(UsedOf(bs2)) = SumOf(UsedOf(bs)) + b.used
  <2> DEFINE s == UsedOf(bs2)
             t == UsedOf(bs)
  <2>1. /\ s \in Seq(Nat) /\ t \in Seq(Nat) /\ Len(s) # 0
        /\ Len(t) = Len(s) - 1 /\ s[Len(s)] = b.used
        /\ \A k \in 1 .. Len(t) : t[k] = s[k]
    BY <1>2, <1>3
  <2> HIDE DEF s, t
  <2>2. SumOf(s) = SumOf(t) + s[Len(s)]
    BY <2>1, SumOfLast
  <2> QED
    BY <2>1, <2>2 DEF s, t
<1>5. SumOf(CapacitiesOf(bs2)) = SumOf(CapacitiesOf(bs)) + b.capacity
  <2> DEFINE s == CapacitiesOf(bs2)
             t == CapacitiesOf(bs)
  <2>1. /\ s \in Seq(Nat) /\ t \in Seq(Nat) /\ Len(s) # 0
        /\ Len(t) = Len(s) - 1 /\ s[Len(s)] = b.capacity
        /\ \A k \in 1 .. Len(t) : t[k] = s[k]
    BY <1>2, <1>3
  <2> HIDE DEF s, t
  <2>2. SumOf(s) = SumOf(t) + s[Len(s)]
    BY <2>1, SumOfLast
  <2> QED
    BY <2>1, <2>2 DEF s, t
<1> QED
  BY <1>4, <1>5 DEF bs2

(* Serving a request that fits the newest block.                           *)
LEMMA ServeKeeps ==
  ASSUME NEW bs, NEW os, ChainSound(bs), ObjectsSound(bs, os), bs # <<>>,
         NEW bump \in Nat \ {0}, NEW align \in Nat \ {0},
         Fits(bs[Len(bs)], bump, align),
         NEW bs2,
         Advanced(bs, Len(bs), Taken(bs[Len(bs)], bump, align), bs2),
         NEW o, o = [at |-> Place(bs[Len(bs)], align), size |-> bump,
                     align |-> align]
  PROVE  ChainSound(bs2) /\ ObjectsSound(bs2, Append(os, o))
<1> DEFINE n == Len(bs)
           b == bs[n]
           taken == Taken(b, bump, align)
           os2 == Append(os, o)
<1>1. bs \in Seq(Block) /\ n \in 1 .. Len(bs) /\ b \in Block /\ BlockSound(b)
  BY DEF ChainSound
<1>2. /\ Place(b, align) \in Nat /\ Place(b, align) % align = 0
      /\ b.at + b.used <= Place(b, align)
      /\ taken \in Nat
      /\ b.at + b.used + taken = Place(b, align) + bump
      /\ b.used + taken <= b.capacity
  BY <1>1, PlaceIs
<1>3. /\ o \in Object /\ o.at = Place(b, align) /\ o.size = bump
      /\ o.align = align
  BY <1>2 DEF Object
<1> HIDE DEF b, n, taken
<1>4. Advanced(bs, n, taken, bs2)
  BY DEF n, taken, b
<1>5. /\ bs2 \in Seq(Block) /\ Len(bs2) = Len(bs)
      /\ bs2[n].used = bs[n].used + taken
      /\ \A k \in 1 .. Len(bs) :
           /\ bs2[k].at = bs[k].at /\ bs2[k].capacity = bs[k].capacity
           /\ bs2[k] \in Block /\ bs[k] \in Block
           /\ k # n => bs2[k] = bs[k]
  BY <1>1, <1>2, <1>4, AdvancedIs
<1>6. /\ bs[n] = b
      /\ b.at \in Nat /\ b.used \in Nat /\ b.capacity \in Nat
  BY <1>1 DEF b, Block
<1>7. ChainSound(bs2)
  <2>1. ASSUME NEW k \in 1 .. Len(bs2) PROVE BlockSound(bs2[k])
    <3>1. BlockSound(bs[k]) /\ k \in 1 .. Len(bs)
      BY <1>5 DEF ChainSound
    <3>2. CASE k = n
      BY <1>2, <1>5, <1>6, <3>1, <3>2 DEF BlockSound
    <3> QED
      BY <1>5, <3>1, <3>2
  <2>2. ASSUME NEW k \in 1 .. Len(bs2), NEW l \in 1 .. Len(bs2), k # l
        PROVE  BlocksApart(bs2[k], bs2[l])
    <3>1. BlocksApart(bs[k], bs[l]) /\ k \in 1 .. Len(bs) /\ l \in 1 .. Len(bs)
      BY <1>5, <2>2 DEF ChainSound
    <3> QED
      BY <1>5, <3>1 DEF BlocksApart
  <2> QED
    BY <1>5, <2>1, <2>2 DEF ChainSound
<1>8. /\ os \in Seq(Object) /\ os2 \in Seq(Object)
      /\ Len(os2) = Len(os) + 1 /\ os2[Len(os) + 1] = o
      /\ \A i \in 1 .. Len(os) : os2[i] = os[i] /\ os[i] \in Object
  BY <1>3 DEF ObjectsSound
<1> HIDE DEF os2
<1>9. \A i \in 1 .. Len(os2) : i = Len(os) + 1 \/ i \in 1 .. Len(os)
  BY <1>8
<1>10. ASSUME NEW i \in 1 .. Len(os)
       PROVE  \E k \in 1 .. Len(bs2) : Within(os[i], bs2[k])
  <2>1. PICK k \in 1 .. Len(bs) : Within(os[i], bs[k])
    BY DEF ObjectsSound
  <2>2. bs[k].used <= bs2[k].used /\ bs2[k].at = bs[k].at
    <3>1. CASE k = n
      <4>1. bs2[k].used = b.used + taken /\ bs[k].used = b.used
        BY <1>5, <1>6, <3>1
      <4>2. taken \in Nat
        BY <1>2
      <4> QED
        BY <1>5, <1>6, <4>1, <4>2
    <3>2. CASE k # n
      <4>1. bs2[k] = bs[k] /\ bs[k] \in Block
        BY <1>5, <3>2
      <4>2. bs[k].used \in Nat
        BY <4>1, BlockFields
      <4> QED
        BY <4>1, <4>2
    <3> QED
      BY <3>1, <3>2
  <2>3. /\ bs[k] \in Block /\ bs2[k] \in Block /\ os[i] \in Object
        /\ k \in 1 .. Len(bs2)
    BY <1>5, <1>8
  <2>4. Within(os[i], bs2[k])
    BY <2>1, <2>2, <2>3, WithinGrown
  <2> QED
    BY <2>3, <2>4
<1>11. Within(o, bs2[n]) /\ n \in 1 .. Len(bs2)
  <2>1. n \in 1 .. Len(bs2) /\ n \in 1 .. Len(bs)
    BY <1>1, <1>5
  <2>2. bs2[n].at = b.at /\ bs2[n].used = b.used + taken
    BY <1>5, <1>6, <2>1
  <2>3. /\ b.at <= Place(b, align)
        /\ Place(b, align) + bump <= b.at + (b.used + taken)
    <3>1. /\ Place(b, align) \in Nat /\ taken \in Nat
          /\ b.at + b.used <= Place(b, align)
          /\ b.at + b.used + taken = Place(b, align) + bump
      BY <1>2
    <3> QED
      BY <1>6, <3>1
  <2> QED
    BY <1>3, <2>1, <2>2, <2>3 DEF Within
<1>12. ASSUME NEW i \in 1 .. Len(os)
       PROVE  Apart(os[i].at, os[i].size, o.at, o.size)
  <2>1. PICK k \in 1 .. Len(bs) : Within(os[i], bs[k])
    BY DEF ObjectsSound
  <2>2. os[i] \in Object /\ bs[k] \in Block /\ BlockSound(bs[k])
    BY <1>5, <1>8 DEF ChainSound
  <2>3. bs[k] = b \/ BlocksApart(bs[k], b)
    BY <1>1, <1>6 DEF ChainSound
  <2>4. b.at + b.used <= o.at /\ o.at + o.size <= b.at + b.capacity
    <3>1. /\ Place(b, align) \in Nat /\ taken \in Nat
          /\ b.at + b.used <= Place(b, align)
          /\ b.at + b.used + taken = Place(b, align) + bump
          /\ b.used + taken <= b.capacity
      BY <1>2
    <3>2. Place(b, align) + bump <= b.at + b.capacity
      BY ONLY <1>6, <3>1, EndsWithin, bump \in Nat \ {0}
    <3>3. o.at = Place(b, align) /\ o.size = bump
      BY <1>3
    <3>4. b.at + b.used <= o.at
      BY <3>1, <3>3
    <3>5. o.at + o.size <= b.at + b.capacity
      BY <3>2, <3>3
    <3> QED
      BY <3>4, <3>5
  <2> QED
    BY ONLY <1>1, <1>3, <2>1, <2>2, <2>3, <2>4, NewApart
<1>13. \A i \in 1 .. Len(os2) : os2[i].at % os2[i].align = 0
  BY <1>2, <1>3, <1>8, <1>9 DEF ObjectsSound
<1>14. ASSUME NEW i \in 1 .. Len(os2)
       PROVE  \E k \in 1 .. Len(bs2) : Within(os2[i], bs2[k])
  <2>1. CASE i \in 1 .. Len(os)
    BY <1>8, <1>10, <2>1
  <2>2. CASE i = Len(os) + 1
    BY <1>8, <1>11, <2>2
  <2> QED
    BY <1>9, <2>1, <2>2
<1>15. ASSUME NEW i \in 1 .. Len(os2), NEW j \in 1 .. Len(os2), i # j
       PROVE  Apart(os2[i].at, os2[i].size, os2[j].at, os2[j].size)
  <2>1. CASE i \in 1 .. Len(os) /\ j \in 1 .. Len(os)
    BY <1>8, <1>15, <2>1 DEF ObjectsSound
  <2>2. CASE i = Len(os) + 1 /\ j \in 1 .. Len(os)
    BY <1>8, <1>12, <2>2 DEF Apart
  <2>3. CASE i \in 1 .. Len(os) /\ j = Len(os) + 1
    BY <1>8, <1>12, <2>3
  <2> QED
    BY <1>9, <1>15, <2>1, <2>2, <2>3
<1>16. ObjectsSound(bs2, os2)
  BY <1>8, <1>13, <1>14, <1>15 DEF ObjectsSound
<1> QED
  BY <1>7, <1>16 DEF os2

-----------------------------------------------------------------------------
(* A new block                                                             *)

LEMMA PushKeeps ==
  ASSUME NEW bs, NEW os, ChainSound(bs), ObjectsSound(bs, os),
         NEW b \in Block, BlockSound(b),
         \A k \in 1 .. Len(bs) : BlocksApart(bs[k], b)
  PROVE  /\ ChainSound(Append(bs, b)) /\ ObjectsSound(Append(bs, b), os)
         /\ Append(bs, b) # <<>> /\ Append(bs, b)[Len(Append(bs, b))] = b
         /\ Len(Append(bs, b)) = Len(bs) + 1
<1> DEFINE bs2 == Append(bs, b)
<1>1. /\ bs \in Seq(Block) /\ bs2 \in Seq(Block)
      /\ Len(bs2) = Len(bs) + 1 /\ bs2[Len(bs) + 1] = b
      /\ \A k \in 1 .. Len(bs) : bs2[k] = bs[k] /\ bs[k] \in Block
  BY DEF ChainSound
<1>2. bs2 # <<>> /\ bs2[Len(bs2)] = b
  BY <1>1
<1> HIDE DEF bs2
<1>3. \A k \in 1 .. Len(bs2) : k = Len(bs) + 1 \/ k \in 1 .. Len(bs)
  BY <1>1
<1>4. ASSUME NEW k \in 1 .. Len(bs2) PROVE BlockSound(bs2[k])
  <2>1. CASE k = Len(bs) + 1
    BY <1>1, <2>1
  <2>2. CASE k \in 1 .. Len(bs)
    BY <1>1, <2>2 DEF ChainSound
  <2> QED
    BY <1>3, <2>1, <2>2
<1>5. ASSUME NEW k \in 1 .. Len(bs2), NEW l \in 1 .. Len(bs2), k # l
      PROVE  BlocksApart(bs2[k], bs2[l])
  <2>1. CASE k \in 1 .. Len(bs) /\ l \in 1 .. Len(bs)
    BY <1>1, <1>5, <2>1 DEF ChainSound
  <2>2. CASE k = Len(bs) + 1 /\ l \in 1 .. Len(bs)
    BY <1>1, <2>2 DEF BlocksApart, Apart
  <2>3. CASE k \in 1 .. Len(bs) /\ l = Len(bs) + 1
    BY <1>1, <2>3
  <2> QED
    BY <1>3, <1>5, <2>1, <2>2, <2>3
<1>6. ChainSound(bs2)
  BY <1>1, <1>4, <1>5 DEF ChainSound
<1>7. ASSUME NEW i \in 1 .. Len(os)
      PROVE  \E k \in 1 .. Len(bs2) : Within(os[i], bs2[k])
  <2>1. PICK k \in 1 .. Len(bs) : Within(os[i], bs[k])
    BY DEF ObjectsSound
  <2>2. k \in 1 .. Len(bs2) /\ bs2[k] = bs[k]
    BY <1>1
  <2> QED
    BY <2>1, <2>2
<1>8. ObjectsSound(bs2, os)
  BY <1>7 DEF ObjectsSound
<1> QED
  BY <1>1, <1>2, <1>6, <1>8 DEF bs2

(* grow sizes a block so that the request fits wherever malloc puts it.    *)
LEMMA FreshServes ==
  ASSUME ChainSound(blocks), block_size \in Nat,
         NEW bump \in Nat \ {0}, NEW align \in Nat \ {0},
         ~ TooLarge(bump, align),
         NEW a \in FreeAt(HeaderSize + Capacity(bump, align)),
         NEW b, b = [at |-> a + HeaderSize, capacity |-> Capacity(bump, align),
                     used |-> 0]
  PROVE  /\ b \in Block /\ BlockSound(b)
         /\ b.capacity = Capacity(bump, align) /\ b.used = 0
         /\ Fits(b, bump, align)
         /\ \A k \in 1 .. Len(blocks) : BlocksApart(blocks[k], b)
<1> DEFINE c == Capacity(bump, align)
<1>1. SizeMax \in Nat /\ HeaderSize \in Nat
  BY ArenaAssumption
<1>2. bump + (align - 1) \in Nat /\ bump + (align - 1) <= SizeMax
  BY <1>1 DEF TooLarge
<1>3. Needed(bump, align) = bump + (align - 1)
  BY <1>2, NoWrap DEF Needed
<1>4. c \in Nat /\ bump + (align - 1) <= c
  BY <1>2, <1>3 DEF Capacity, Larger
<1>5. /\ a \in Nat /\ a + (HeaderSize + c) <= SizeMax
      /\ \A k \in DOMAIN blocks :
           \/ a + (HeaderSize + c) <= blocks[k].at - HeaderSize
           \/ blocks[k].at + blocks[k].capacity <= a
  BY DEF FreeAt
<1> HIDE DEF c
<1>6. b = [at |-> a + HeaderSize, capacity |-> c, used |-> 0]
  BY DEF c
<1>7. b.at = a + HeaderSize /\ b.capacity = c /\ b.used = 0
  BY <1>6
<1>8. b \in Block
  BY <1>1, <1>4, <1>5, <1>6 DEF Block
<1>9. BlockSound(b)
  BY <1>1, <1>4, <1>5, <1>7 DEF BlockSound
<1>10. Fits(b, bump, align)
  <2>1. Cursor(b) = a + HeaderSize /\ Cursor(b) \in Nat
    BY <1>1, <1>5, <1>7 DEF Cursor
  <2>2. /\ Place(b, align) \in Nat /\ Cursor(b) <= Place(b, align)
        /\ Place(b, align) < Cursor(b) + align
    BY <2>1, AlignUpIs DEF Place
  <2>3. Pad(b, align) \in Nat /\ Pad(b, align) <= align - 1
    BY <2>1, <2>2 DEF Pad
  <2>4. /\ Cursor(b) <= SizeMax - (align - 1)
        /\ Pad(b, align) <= c - 0 /\ bump <= c - 0 - Pad(b, align)
    BY <1>1, <1>4, <1>5, <2>1, <2>3
  <2> QED
    BY <1>7, <2>4 DEF Fits
<1>11. ASSUME NEW k \in 1 .. Len(blocks) PROVE BlocksApart(blocks[k], b)
  <2>1. blocks[k] \in Block /\ k \in DOMAIN blocks
    BY DEF ChainSound
  <2>2. blocks[k].at \in Nat /\ blocks[k].capacity \in Nat
    BY <2>1, BlockFields
  <2>3. \/ a + (HeaderSize + c) <= blocks[k].at - HeaderSize
        \/ blocks[k].at + blocks[k].capacity <= a
    BY <1>5, <2>1
  <2> QED
    BY <1>1, <1>4, <1>5, <1>7, <2>2, <2>3 DEF BlocksApart, Apart
<1> QED
  BY <1>7, <1>8, <1>9, <1>10, <1>11 DEF c

-----------------------------------------------------------------------------
(* The invariant                                                           *)

(* Padding and requests come out of what was reserved: all but the newest  *)
(* block are accounted for by the difference.                              *)
WithinReserve ==
  /\ block_size \in Nat /\ bytes_used \in Nat /\ bytes_reserved \in Nat
  /\ block_count = Len(blocks)
  /\ bytes_used <= bytes_reserved
  /\ blocks # <<>> =>
       bytes_used + Newest.capacity <= bytes_reserved + Newest.used

(* The figures used and reserved are sums over the blocks bs.              *)
Tallied(bs, used, reserved) ==
  used = SumOf(UsedOf(bs)) /\ reserved = SumOf(CapacitiesOf(bs))

ArenaIInv ==
  /\ ChainSound(blocks) /\ ObjectsSound(blocks, objects) /\ WithinReserve
  /\ Tallied(blocks, bytes_used, bytes_reserved)

LEMMA NoneTallied == Tallied(<<>>, 0, 0)
<1>1. UsedOf(<<>>) = <<>> /\ CapacitiesOf(<<>>) = <<>>
  BY DEF UsedOf, CapacitiesOf
<1> QED
  BY <1>1, SumOfNone DEF Tallied

LEMMA ArenaInitially == ArenaInit => ArenaIInv
<1> SUFFICES ASSUME ArenaInit PROVE ArenaIInv
  OBVIOUS
<1>1. blocks = <<>> /\ objects = <<>>
  BY DEF ArenaInit
<1>2. ChainSound(blocks)
  BY <1>1 DEF ChainSound
<1>3. ObjectsSound(blocks, objects)
  BY <1>1 DEF ObjectsSound
<1>4. WithinReserve
  BY <1>1, ArenaAssumption DEF ArenaInit, WithinReserve
<1>5. Tallied(blocks, bytes_used, bytes_reserved)
  BY <1>1, NoneTallied DEF ArenaInit
<1> QED
  BY <1>2, <1>3, <1>4, <1>5 DEF ArenaIInv

(* The figures after a request was served by the newest of the blocks bs.  *)
LEMMA ServeAccounts ==
  ASSUME NEW bs, ChainSound(bs), bs # <<>>,
         NEW bump \in Nat \ {0}, NEW align \in Nat \ {0},
         Fits(bs[Len(bs)], bump, align), Serve(bs, bump, align),
         bytes_used \in Nat, NEW reserved \in Nat,
         bytes_used + bs[Len(bs)].capacity <= reserved + bs[Len(bs)].used,
         Tallied(bs, bytes_used, reserved)
  PROVE  /\ Tallied(blocks', bytes_used', reserved)
         /\ Len(blocks') = Len(bs) /\ blocks' # <<>>
         /\ bytes_used' \in Nat /\ bytes_used' <= reserved
         /\ bytes_used' + blocks'[Len(blocks')].capacity
              <= reserved + blocks'[Len(blocks')].used
<1> DEFINE n == Len(bs)
           b == bs[n]
           taken == Taken(b, bump, align)
<1>1. bs \in Seq(Block) /\ n \in 1 .. Len(bs) /\ b \in Block /\ BlockSound(b)
  BY DEF ChainSound
<1>2. taken \in Nat /\ b.used + taken <= b.capacity
  BY <1>1, PlaceIs
<1>3. Advanced(bs, n, taken, blocks') /\ bytes_used' = bytes_used + taken
  BY DEF Serve, Advanced
<1>4. b.capacity \in Nat /\ b.used \in Nat
  BY <1>1, BlockFields
<1>5. bytes_used + b.capacity <= reserved + b.used
  OBVIOUS
<1> HIDE DEF n, b, taken
<1>6. /\ blocks' \in Seq(Block) /\ Len(blocks') = Len(bs)
      /\ blocks'[n].used = bs[n].used + taken
      /\ blocks'[n].capacity = bs[n].capacity
  BY <1>1, <1>2, <1>3, AdvancedIs
<1>7. n = Len(blocks') /\ bs[n] = b
  BY <1>6 DEF n, b
<1>8. blocks'[Len(blocks')].used = b.used + taken
      /\ blocks'[Len(blocks')].capacity = b.capacity
  BY <1>6, <1>7
<1>9. blocks' # <<>>
  BY <1>1, <1>6
<1>10. /\ bytes_used \in Nat /\ bytes_used' = bytes_used + taken
       /\ reserved \in Nat
  BY <1>3
<1>11. bytes_used' \in Nat /\ bytes_used' <= reserved
  BY ONLY <1>2, <1>4, <1>5, <1>10
<1>12. bytes_used' + b.capacity <= reserved + (b.used + taken)
  BY ONLY <1>2, <1>4, <1>5, <1>10
<1>13. Tallied(blocks', bytes_used', reserved)
  <2>1. Advanced(bs, Len(bs), taken, blocks') /\ Len(bs) # 0
    BY <1>1, <1>3 DEF n
  <2>2. /\ SumOf(UsedOf(blocks')) = SumOf(UsedOf(bs)) + taken
        /\ SumOf(CapacitiesOf(blocks')) = SumOf(CapacitiesOf(bs))
    BY <1>1, <1>2, <2>1, AdvancedSums
  <2> QED
    BY <1>10, <2>2 DEF Tallied
<1> QED
  BY <1>6, <1>8, <1>9, <1>11, <1>12, <1>13

-----------------------------------------------------------------------------
(* The calls                                                               *)

Served == Len(blocks') > Len(blocks) => Len(objects') = Len(objects) + 1

LEMMA RefuseKeeps ==
  ASSUME ArenaIInv, UNCHANGED arenaVars
  PROVE  ArenaIInv' /\ Served
<1>1. UNCHANGED <<blocks, block_size, bytes_used, bytes_reserved, block_count, objects>>
  BY DEF arenaVars, figures
<1>2. ArenaIInv'
  BY <1>1 DEF ArenaIInv, ChainSound, ObjectsSound, WithinReserve, Newest,
                Tallied
<1>3. Len(blocks) \in Nat
  BY DEF ArenaIInv, ChainSound
<1> QED
  BY <1>1, <1>2, <1>3 DEF Served

LEMMA AllocHereKeeps ==
  ASSUME ArenaIInv, NEW bump \in Nat \ {0}, NEW align \in Nat,
         AllocHere(bump, align)
  PROVE  ArenaIInv' /\ Served
<1>1. /\ ChainSound(blocks) /\ ObjectsSound(blocks, objects) /\ WithinReserve
      /\ Tallied(blocks, bytes_used, bytes_reserved)
      /\ align \in Nat \ {0} /\ blocks # <<>>
      /\ Fits(blocks[Len(blocks)], bump, align)
      /\ Serve(blocks, bump, align)
      /\ UNCHANGED <<block_size, bytes_reserved, block_count>>
  BY DEF ArenaIInv, AllocHere, PowerOfTwo, NewestFits, Newest
<1>2. ChainSound(blocks') /\ ObjectsSound(blocks', objects')
  <2>1. Advanced(blocks, Len(blocks),
                 Taken(blocks[Len(blocks)], bump, align), blocks')
    BY <1>1 DEF Serve, Advanced
  <2>2. objects' = Append(objects, [at |-> Place(blocks[Len(blocks)], align),
                                    size |-> bump, align |-> align])
    BY <1>1 DEF Serve
  <2> QED
    BY ONLY <1>1, <2>1, <2>2, ServeKeeps, bump \in Nat \ {0}
<1>3. /\ Tallied(blocks', bytes_used', bytes_reserved)
      /\ Len(blocks') = Len(blocks) /\ blocks' # <<>>
      /\ bytes_used' \in Nat /\ bytes_used' <= bytes_reserved
      /\ bytes_used' + blocks'[Len(blocks')].capacity
           <= bytes_reserved + blocks'[Len(blocks')].used
  BY <1>1, ServeAccounts DEF WithinReserve, Newest
<1>4. WithinReserve'
  BY <1>1, <1>3 DEF WithinReserve, Newest
<1>5. Served
  <2>1. Len(blocks) \in Nat
    BY <1>1 DEF ChainSound
  <2> QED
    BY <1>3, <2>1 DEF Served
<1> QED
  BY <1>1, <1>2, <1>3, <1>4, <1>5 DEF ArenaIInv

LEMMA AllocGrowsKeeps ==
  ASSUME ArenaIInv, NEW bump \in Nat \ {0}, NEW align \in Nat,
         AllocGrows(bump, align)
  PROVE  ArenaIInv' /\ Served
<1>1. /\ ChainSound(blocks) /\ ObjectsSound(blocks, objects) /\ WithinReserve
      /\ Tallied(blocks, bytes_used, bytes_reserved)
      /\ align \in Nat \ {0} /\ ~ TooLarge(bump, align) /\ block_size \in Nat
      /\ UNCHANGED block_size
  BY DEF ArenaIInv, AllocGrows, PowerOfTwo, WithinReserve
<1>2. PICK a \in FreeAt(HeaderSize + Capacity(bump, align)) :
        LET fresh == [at |-> a + HeaderSize,
                      capacity |-> Capacity(bump, align), used |-> 0] IN
          /\ bytes_reserved' = bytes_reserved + fresh.capacity
          /\ block_count' = block_count + 1
          /\ IF Fits(fresh, bump, align)
             THEN Serve(Append(blocks, fresh), bump, align)
             ELSE /\ blocks' = Append(blocks, fresh)
                  /\ UNCHANGED <<bytes_used, objects>>
  BY DEF AllocGrows
<1> DEFINE b == [at |-> a + HeaderSize, capacity |-> Capacity(bump, align),
                 used |-> 0]
           bs == Append(blocks, b)
<1>3. /\ b \in Block /\ BlockSound(b)
      /\ b.capacity = Capacity(bump, align) /\ b.used = 0
      /\ Fits(b, bump, align)
      /\ \A k \in 1 .. Len(blocks) : BlocksApart(blocks[k], b)
  BY <1>1, FreshServes
<1>4. /\ bytes_reserved' = bytes_reserved + b.capacity
      /\ block_count' = block_count + 1
      /\ Serve(bs, bump, align)
  BY <1>2, <1>3
<1> HIDE DEF b
<1>5. /\ ChainSound(bs) /\ ObjectsSound(bs, objects)
      /\ bs # <<>> /\ bs[Len(bs)] = b /\ Len(bs) = Len(blocks) + 1
  BY <1>1, <1>3, PushKeeps
<1>5a. Tallied(bs, bytes_used, bytes_reserved')
  <2>1. bytes_used \in Nat /\ blocks \in Seq(Block)
    BY <1>1 DEF WithinReserve, ChainSound
  <2>2. /\ SumOf(UsedOf(bs)) = SumOf(UsedOf(blocks)) + b.used
        /\ SumOf(CapacitiesOf(bs)) = SumOf(CapacitiesOf(blocks)) + b.capacity
    BY <1>3, <2>1, PushSums
  <2> HIDE DEF bs
  <2> QED
    BY <1>1, <1>3, <1>4, <2>1, <2>2 DEF Tallied
<1>6. /\ Advanced(bs, Len(bs), Taken(bs[Len(bs)], bump, align), blocks')
      /\ objects' = Append(objects, [at |-> Place(bs[Len(bs)], align),
                                     size |-> bump, align |-> align])
  BY <1>4 DEF Serve, Advanced
<1> HIDE DEF bs
<1>7. Fits(bs[Len(bs)], bump, align)
  BY <1>3, <1>5
<1>8. ChainSound(blocks') /\ ObjectsSound(blocks', objects')
  BY ONLY <1>1, <1>5, <1>6, <1>7, ServeKeeps, bump \in Nat \ {0}
<1>9. /\ bytes_reserved' \in Nat /\ bytes_used \in Nat
      /\ bytes_used + bs[Len(bs)].capacity <= bytes_reserved' + bs[Len(bs)].used
  <2>1. /\ bytes_used \in Nat /\ bytes_reserved \in Nat
        /\ bytes_used <= bytes_reserved /\ b.capacity \in Nat /\ b.used = 0
    BY <1>1, <1>3, BlockFields DEF WithinReserve
  <2> QED
    BY <1>4, <1>5, <2>1
<1>10. /\ Tallied(blocks', bytes_used', bytes_reserved')
       /\ Len(blocks') = Len(bs) /\ blocks' # <<>>
       /\ bytes_used' \in Nat /\ bytes_used' <= bytes_reserved'
       /\ bytes_used' + blocks'[Len(blocks')].capacity
            <= bytes_reserved' + blocks'[Len(blocks')].used
  BY ONLY <1>1, <1>4, <1>5, <1>5a, <1>7, <1>9, ServeAccounts, bump \in Nat \ {0}
<1>11. WithinReserve'
  BY <1>1, <1>4, <1>5, <1>9, <1>10 DEF WithinReserve, Newest
<1>12. Served
  <2>1. objects \in Seq(Object)
    BY <1>1 DEF ObjectsSound
  <2> QED
    BY <1>6, <2>1 DEF Served
<1> QED
  BY <1>8, <1>10, <1>11, <1>12 DEF ArenaIInv

LEMMA AllocKeeps ==
  ASSUME ArenaIInv, NEW size \in Nat, NEW align \in Nat, Alloc(size, align)
  PROVE  ArenaIInv' /\ Served
<1>1. Bump(size) \in Nat \ {0}
  BY DEF Bump
<1>2. Meant(align) \in Nat
  BY ArenaAssumption DEF Meant
<1>3. AllocAt(Bump(size), Meant(align))
  BY DEF Alloc
<1>4. CASE AllocInvalid(Meant(align)) \/ AllocFails(Bump(size), Meant(align))
  BY <1>4, RefuseKeeps DEF AllocInvalid, AllocFails, Refuse
<1>5. CASE AllocHere(Bump(size), Meant(align))
  BY <1>1, <1>2, <1>5, AllocHereKeeps
<1>6. CASE AllocGrows(Bump(size), Meant(align))
  BY <1>1, <1>2, <1>6, AllocGrowsKeeps
<1> QED
  BY <1>3, <1>4, <1>5, <1>6 DEF AllocAt

LEMMA RequestKeeps ==
  ASSUME ArenaIInv, Request
  PROVE  ArenaIInv' /\ Served
<1>1. PICK align \in Alignments, size \in RequestSizes :
        \/ Alloc(size, align)
        \/ \E n \in RequestSizes : Calloc(n, size, align)
        \/ \E source \in {Null, 0} : Memdup(source, size, align)
  BY DEF Request
<1>2. align \in Nat /\ size \in Nat
  BY ArenaAssumption
<1>3. CASE Alloc(size, align)
  BY <1>2, <1>3, AllocKeeps
<1>4. ASSUME NEW n \in RequestSizes, Calloc(n, size, align)
      PROVE  ArenaIInv' /\ Served
  <2>1. n \in Nat
    BY ArenaAssumption
  <2>2. n * size \in Nat
    BY <1>2, <2>1
  <2>3. UNCHANGED arenaVars \/ Alloc(n * size, align)
    BY <1>4 DEF Calloc, Refuse
  <2> QED
    BY <1>2, <2>2, <2>3, RefuseKeeps, AllocKeeps
<1>5. ASSUME NEW source \in {Null, 0}, Memdup(source, size, align)
      PROVE  ArenaIInv' /\ Served
  <2>1. UNCHANGED arenaVars \/ Alloc(size, align)
    BY <1>5 DEF Memdup, Refuse
  <2> QED
    BY <1>2, <2>1, RefuseKeeps, AllocKeeps
<1> QED
  BY <1>1, <1>3, <1>4, <1>5

LEMMA RecycleKeeps ==
  ASSUME ArenaIInv, Recycle
  PROVE  ArenaIInv' /\ Served
<1>1. ASSUME Released, block_size' \in Nat PROVE ArenaIInv' /\ Served
  <2>1. /\ blocks' = <<>> /\ objects' = <<>> /\ bytes_used' = 0
        /\ bytes_reserved' = 0 /\ block_count' = 0
    BY <1>1 DEF Released
  <2>2. ChainSound(blocks')
    BY <2>1 DEF ChainSound
  <2>3. ObjectsSound(blocks', objects')
    BY <2>1 DEF ObjectsSound
  <2>4. WithinReserve'
    BY <1>1, <2>1 DEF WithinReserve
  <2>5. Len(blocks) \in Nat
    BY DEF ArenaIInv, ChainSound
  <2>6. Tallied(blocks', bytes_used', bytes_reserved')
    BY <2>1, NoneTallied
  <2> QED
    BY <2>1, <2>2, <2>3, <2>4, <2>5, <2>6 DEF ArenaIInv, Served
<1>2. block_size \in Nat
  BY DEF ArenaIInv, WithinReserve
<1>3. CASE Reset
  BY <1>1, <1>2, <1>3 DEF Reset
<1>4. CASE DisposeArena
  BY <1>1, <1>4 DEF DisposeArena
<1>5. ASSUME NEW size \in RequestSizes, Configure(size)
      PROVE  ArenaIInv' /\ Served
  <2>1. /\ UNCHANGED <<blocks, bytes_used, bytes_reserved, block_count, objects>>
        /\ block_size' \in Nat
    BY <1>5, ArenaAssumption DEF Configure, Configured, figures
  <2>2. ChainSound(blocks') /\ ObjectsSound(blocks', objects')
    BY <2>1 DEF ArenaIInv
  <2>3. WithinReserve'
    BY <2>1 DEF ArenaIInv, WithinReserve, Newest
  <2>4. Len(blocks) \in Nat
    BY DEF ArenaIInv, ChainSound
  <2>5. Tallied(blocks', bytes_used', bytes_reserved')
    BY <2>1 DEF ArenaIInv, Tallied
  <2> QED
    BY <2>1, <2>2, <2>3, <2>4, <2>5 DEF ArenaIInv, Served
<1> QED
  BY <1>3, <1>4, <1>5 DEF Recycle

LEMMA ArenaStepKeeps ==
  ASSUME ArenaIInv, [ArenaNext]_arenaVars
  PROVE  ArenaIInv' /\ Served
<1>1. CASE Request
  BY <1>1, RequestKeeps
<1>2. CASE Recycle
  BY <1>2, RecycleKeeps
<1>3. CASE UNCHANGED arenaVars
  BY <1>3, RefuseKeeps
<1> QED
  BY <1>1, <1>2, <1>3 DEF ArenaNext

LEMMA ApartHolds == ArenaIInv => ObjectsApart
<1> SUFFICES ASSUME ArenaIInv PROVE ObjectsApart
  OBVIOUS
<1>1. ChainSound(blocks) /\ ObjectsSound(blocks, objects)
  BY DEF ArenaIInv
<1> DOMAIN blocks = 1 .. Len(blocks) /\ DOMAIN objects = 1 .. Len(objects)
  <2>1. blocks \in Seq(Block) /\ objects \in Seq(Object)
    BY <1>1 DEF ChainSound, ObjectsSound
  <2> QED
    BY <2>1
<1>2. \A i, j \in DOMAIN objects :
        i # j => Apart(objects[i].at, objects[i].size,
                       objects[j].at, objects[j].size)
  BY <1>1 DEF ObjectsSound
<1>3. \A i \in DOMAIN objects : objects[i].at % objects[i].align = 0
  BY <1>1 DEF ObjectsSound
<1>4. \A i \in DOMAIN objects : \E k \in DOMAIN blocks :
        Within(objects[i], blocks[k])
  BY <1>1 DEF ObjectsSound
<1>5. \A k, l \in DOMAIN blocks : k # l => BlocksApart(blocks[k], blocks[l])
  BY <1>1 DEF ChainSound
<1> QED
  BY <1>2, <1>3, <1>4, <1>5 DEF ObjectsApart, Within, BlocksApart

(* Whatever is asked of the arena, its objects are aligned, lie in its     *)
(* blocks and share no byte.                                               *)
THEOREM ArenaApart == ArenaSpec => []ObjectsApart
<1>1. ArenaIInv /\ [ArenaNext]_arenaVars => ArenaIInv'
  BY ArenaStepKeeps
<1> QED
  BY ArenaInitially, <1>1, ApartHolds, PTL DEF ArenaSpec

LEMMA AccountedHolds == ArenaIInv => Accounted
<1> SUFFICES ASSUME ArenaIInv PROVE Accounted
  OBVIOUS
<1>1. /\ blocks \in Seq(Block)
      /\ \A k \in 1 .. Len(blocks) : blocks[k].used <= blocks[k].capacity
  BY DEF ArenaIInv, ChainSound, BlockSound
<1>2. DOMAIN blocks = 1 .. Len(blocks)
  BY <1>1
<1> QED
  BY <1>1, <1>2 DEF ArenaIInv, Tallied, WithinReserve, Accounted

(* The figures of the arena are sums over its blocks, whatever is asked    *)
(* of it and wherever malloc puts a block: qcc_arena_alloc and grow count  *)
(* every byte they take, padding included, and no refusal or recycling     *)
(* leaves one counted.                                                     *)
THEOREM ArenaAccounted == ArenaSpec => []Accounted
<1>1. ArenaIInv /\ [ArenaNext]_arenaVars => ArenaIInv'
  BY ArenaStepKeeps
<1> QED
  BY ArenaInitially, <1>1, AccountedHolds, PTL DEF ArenaSpec

(* What is handed out, with its padding, never exceeds what was reserved.  *)
THEOREM ArenaWithinReserve == ArenaSpec => [](bytes_used <= bytes_reserved)
<1>1. ArenaIInv /\ [ArenaNext]_arenaVars => ArenaIInv'
  BY ArenaStepKeeps
<1>2. ArenaIInv => bytes_used <= bytes_reserved
  BY DEF ArenaIInv, WithinReserve
<1> QED
  BY ArenaInitially, <1>1, <1>2, PTL DEF ArenaSpec

(* No block is reserved in vain: the second block_try_alloc of             *)
(* qcc_arena_alloc never fails.                                            *)
THEOREM ArenaGrowsToServe == ArenaSpec => GrowsToServe
<1>1. ArenaIInv /\ [ArenaNext]_arenaVars => ArenaIInv'
  BY ArenaStepKeeps
<1>2. ArenaIInv /\ [ArenaNext]_arenaVars
        => [Len(blocks') > Len(blocks)
              => Len(objects') = Len(objects) + 1]_arenaVars
  BY ArenaStepKeeps DEF Served
<1> QED
  BY ArenaInitially, <1>1, <1>2, PTL DEF ArenaSpec, GrowsToServe

-----------------------------------------------------------------------------
(* What a call adds to the objects of the arena.                           *)

Added(size) == \E o : objects' = Append(objects, o) /\ o.size = size

LEMMA AllocAdds ==
  ASSUME NEW size, NEW align, Alloc(size, align)
  PROVE  UNCHANGED objects \/ Added(Bump(size))
<1>1. AllocAt(Bump(size), Meant(align))
  BY DEF Alloc
<1>2. ASSUME NEW bs, NEW a, Serve(bs, Bump(size), a)
      PROVE  Added(Bump(size))
  <2> DEFINE o == [at |-> Place(bs[Len(bs)], a), size |-> Bump(size), align |-> a]
  <2>1. objects' = Append(objects, o)
    BY <1>2 DEF Serve
  <2>2. o.size = Bump(size)
    OBVIOUS
  <2> HIDE DEF o
  <2> QED
    BY <2>1, <2>2 DEF Added
<1>3. CASE AllocInvalid(Meant(align)) \/ AllocFails(Bump(size), Meant(align))
  BY <1>3 DEF AllocInvalid, AllocFails, Refuse, arenaVars
<1>4. CASE AllocHere(Bump(size), Meant(align))
  BY <1>2, <1>4 DEF AllocHere
<1>5. CASE AllocGrows(Bump(size), Meant(align))
  BY <1>2, <1>5 DEF AllocGrows
<1> QED
  BY <1>1, <1>3, <1>4, <1>5 DEF AllocAt

LEMMA RequestAdds ==
  ASSUME Request
  PROVE  UNCHANGED objects \/ \E size : Added(size)
<1>1. PICK align \in Alignments, size \in RequestSizes :
        \/ Alloc(size, align)
        \/ \E n \in RequestSizes : Calloc(n, size, align)
        \/ \E source \in {Null, 0} : Memdup(source, size, align)
  BY DEF Request
<1>2. CASE Alloc(size, align)
  BY <1>2, AllocAdds
<1>3. ASSUME NEW n \in RequestSizes, Calloc(n, size, align)
      PROVE  UNCHANGED objects \/ \E s : Added(s)
  <2>1. UNCHANGED arenaVars \/ Alloc(n * size, align)
    BY <1>3 DEF Calloc, Refuse
  <2> QED
    BY <2>1, AllocAdds DEF arenaVars
<1>4. ASSUME NEW source \in {Null, 0}, Memdup(source, size, align)
      PROVE  UNCHANGED objects \/ \E s : Added(s)
  <2>1. UNCHANGED arenaVars \/ Alloc(size, align)
    BY <1>4 DEF Memdup, Refuse
  <2> QED
    BY <2>1, AllocAdds DEF arenaVars
<1> QED
  BY <1>1, <1>2, <1>3, <1>4

LEMMA InMemory ==
  ASSUME NEW at \in Nat, NEW size \in Nat \ {0}, NEW from \in Nat,
         NEW used \in Nat, NEW capacity \in Nat, NEW top \in Nat,
         at + size <= from + used, used <= capacity, from + capacity <= top
  PROVE  at \in 0 .. top
  OBVIOUS

(* What was handed out stays, and what is new lies apart, in memory.       *)
LEMMA AddedIs ==
  ASSUME ArenaIInv, ArenaIInv', NEW size, Added(size)
  PROVE  /\ Len(objects') = Len(objects) + 1
         /\ \A i \in 1 .. Len(objects) : objects'[i] = objects[i]
         /\ objects'[Len(objects')].size = size
         /\ objects'[Len(objects')].at \in 0 .. SizeMax
         /\ \A i \in 1 .. Len(objects) :
              objects[i].at # objects'[Len(objects')].at
<1>1. /\ objects \in Seq(Object) /\ objects' \in Seq(Object)
      /\ blocks' \in Seq(Block)
  BY DEF ArenaIInv, ObjectsSound, ChainSound
<1>2. PICK o : objects' = Append(objects, o) /\ o.size = size
  BY DEF Added
<1> DEFINE n == Len(objects')
<1>3. /\ n = Len(objects) + 1 /\ objects'[n] = o
      /\ \A i \in 1 .. Len(objects) : objects'[i] = objects[i]
      /\ Len(objects) \in Nat
  BY <1>1, <1>2
<1>4. n \in 1 .. n /\ objects'[n] \in Object
  BY <1>1, <1>3
<1>5. objects'[n].at \in 0 .. SizeMax
  <2>1. PICK k \in 1 .. Len(blocks') : Within(objects'[n], blocks'[k])
    BY <1>4 DEF ArenaIInv, ObjectsSound
  <2>2. blocks'[k] \in Block /\ BlockSound(blocks'[k])
    BY <1>1 DEF ArenaIInv, ChainSound
  <2>3. /\ objects'[n].at \in Nat /\ objects'[n].size \in Nat \ {0}
        /\ blocks'[k].at \in Nat /\ blocks'[k].used \in Nat
        /\ blocks'[k].capacity \in Nat
    BY ONLY <1>4, <2>2, ObjectFields, BlockFields
  <2>4. /\ objects'[n].at + objects'[n].size <= blocks'[k].at + blocks'[k].used
        /\ blocks'[k].used <= blocks'[k].capacity
        /\ blocks'[k].at + blocks'[k].capacity <= SizeMax
    BY <2>1, <2>2 DEF Within, BlockSound
  <2>5. SizeMax \in Nat
    BY ArenaAssumption
  <2> QED
    BY ONLY <2>3, <2>4, <2>5, InMemory
<1>6. ASSUME NEW i \in 1 .. Len(objects) PROVE objects[i].at # objects'[n].at
  <2>1. /\ i \in 1 .. n /\ i # n /\ objects'[i] = objects[i]
        /\ objects[i] \in Object
    BY <1>1, <1>3
  <2>2. Apart(objects[i].at, objects[i].size, objects'[n].at, objects'[n].size)
    BY <1>4, <2>1 DEF ArenaIInv, ObjectsSound
  <2>3. /\ objects'[n].at \in Nat /\ objects'[n].size \in Nat \ {0}
        /\ objects[i].at \in Nat /\ objects[i].size \in Nat \ {0}
    BY ONLY <1>4, <2>1, ObjectFields
  <2> QED
    BY ONLY <2>2, <2>3 DEF Apart
<1> QED
  BY <1>2, <1>3, <1>5, <1>6

-----------------------------------------------------------------------------
(* The inductive invariant.  To Findable and CopiesHeld it adds the load   *)
(* limit, the call in progress with the cell its probe gave, and what the  *)
(* array that a growth fills holds so far.                                 *)

Entries(array) == {array[c] : c \in Occupied(array)}

(* Each entry of E points at an object of its own that is long enough.     *)
Kept(E, os) ==
  /\ \A e \in E : \E i \in 1 .. Len(os) :
       os[i].at = e.value /\ os[i].size >= LengthOf[e.key] + 1
  /\ \A e, f \in E : e.value = f.value => e = f

Types ==
  /\ pc \in {"closed", "idle", "grow", "copy"}
  /\ bucket_count \in Nat /\ (pc # "closed" => bucket_count >= 2)
  /\ slots \in [Cells(bucket_count) -> Slot]

Counted ==
  /\ count = Cardinality(Occupied(slots))
  /\ pc # "closed" => count * 4 < bucket_count * 3
  /\ pc = "closed" => Occupied(slots) = {}

Sound ==
  /\ Unique(slots)
  /\ Chained(slots, Homes(bucket_count), bucket_count, bucket_count)

Calling ==
  /\ pc \in {"grow", "copy"} => call \in Names /\ ~ Holds(slots, call)
  /\ pc = "copy" =>
       /\ (count + 1) * 4 < bucket_count * 3
       /\ Lands(slots, Homes(bucket_count), bucket_count, call, cell)

Growing ==
  pc = "grow" =>
    /\ pos \in 0 .. bucket_count
    /\ Copied(slots, pos, new_slots, 2 * bucket_count, Homes(2 * bucket_count))

TableIInv ==
  Types /\ Counted /\ Sound /\ Calling /\ Growing

IInv == ArenaIInv /\ TableIInv /\ Kept(Entries(slots), objects)

LEMMA HomesType ==
  ASSUME NEW b \in Nat \ {0}
  PROVE  Homes(b) \in [Names -> Cells(b)]
<1>1. ASSUME NEW n \in Names PROVE HashOf[n] % b \in Cells(b)
  <2>1. HashOf[n] \in Nat
    BY InternerAssumption
  <2> QED
    BY <2>1 DEF Cells
<1> QED
  BY <1>1 DEF Homes, Home

(* A probe of an array that is not full lands where the homes say.         *)
LEMMA ProbeLands ==
  ASSUME NEW b \in Nat \ {0}, NEW a \in [Cells(b) -> Slot], NEW n \in Names,
         Occupied(a) # DOMAIN a
  PROVE  /\ Homes(b) \in [Names -> Cells(b)]
         /\ Lands(a, Homes(b), b, n, Probe(a, b, n))
<1>1. Homes(b) \in [Names -> Cells(b)] /\ Homes(b)[n] = Home(n, b)
  BY HomesType DEF Homes
<1>2. Lands(a, Homes(b), b, n, ProbeFrom(a, b, Homes(b)[n], n))
  BY ONLY <1>1, ProbeFromLands, b \in Nat \ {0}, a \in [Cells(b) -> Slot],
          n \in Names, Occupied(a) # DOMAIN a
<1> QED
  BY <1>1, <1>2 DEF Probe

(* While it is open, the table has room for probes to stop in.             *)
LEMMA TableOpen ==
  ASSUME TableIInv, pc # "closed"
  PROVE  /\ bucket_count \in Nat \ {0} /\ slots \in [Cells(bucket_count) -> Slot]
         /\ Cardinality(Occupied(slots)) \in Nat
         /\ Cardinality(Occupied(slots)) < bucket_count
         /\ Occupied(slots) # DOMAIN slots
<1>1. /\ bucket_count \in Nat \ {0} /\ slots \in [Cells(bucket_count) -> Slot]
      /\ count = Cardinality(Occupied(slots)) /\ count * 4 < bucket_count * 3
  BY DEF TableIInv, Types, Counted
<1>2. Cardinality(Occupied(slots)) \in Nat
  BY <1>1, OccupiedIs
<1>3. Cardinality(Occupied(slots)) < bucket_count
  BY <1>1, <1>2
<1> QED
  BY <1>1, <1>2, <1>3, NotFull

(* Found says whether the spelling is stored.                              *)
LEMMA FoundIs ==
  ASSUME TableIInv, pc # "closed", NEW n \in Names
  PROVE  LET p == Probe(slots, bucket_count, n) IN
         /\ Lands(slots, Homes(bucket_count), bucket_count, n, p)
         /\ Found(n) => p \in Occupied(slots) /\ slots[p].key = n
         /\ ~ Found(n) => ~ Holds(slots, n)
<1> DEFINE p == Probe(slots, bucket_count, n)
           b == bucket_count
           h == Homes(b)
<1>1. /\ b \in Nat \ {0} /\ slots \in [Cells(b) -> Slot]
      /\ Occupied(slots) # DOMAIN slots
  BY TableOpen
<1>2. h \in [Names -> Cells(b)] /\ Lands(slots, h, b, n, p)
  BY <1>1, ProbeLands
<1>3. Unique(slots) /\ Chained(slots, h, b, b) /\ p \in Cells(b)
  BY <1>2 DEF TableIInv, Sound, Lands
<1>4. Found(n) <=> slots[p].key # None
  BY DEF Found
<1> HIDE DEF p, h, b
<1>5. /\ Holds(slots, n) => slots[p].key # None
      /\ slots[p].key # None => slots[p].key = n
  BY ONLY <1>1, <1>2, <1>3, ProbeFinds, n \in Names
<1>6. slots[p].key # None => p \in Occupied(slots)
  BY <1>1, <1>3, OccupiedIs
<1> QED
  BY <1>2, <1>4, <1>5, <1>6 DEF p, h, b

LEMMA Initially == Init => IInv
<1> SUFFICES ASSUME Init PROVE IInv
  OBVIOUS
<1>1. /\ slots = EmptyArray(0) /\ bucket_count = 0 /\ count = 0 /\ pc = "closed"
      /\ ArenaInit
  BY DEF Init, NoTable, Unused
<1>2. slots \in [Cells(bucket_count) -> Slot] /\ Occupied(slots) = {}
  BY <1>1, EmptyIs
<1>3. Types
  BY <1>1, <1>2 DEF Types
<1>4. Counted
  BY <1>1, <1>2, FS_EmptySet DEF Counted
<1>5. Sound
  BY <1>2 DEF Sound, Unique, Chained
<1>6. Calling /\ Growing
  BY <1>1 DEF Calling, Growing
<1>7. Kept(Entries(slots), objects)
  BY <1>2 DEF Kept, Entries
<1>8. ArenaIInv
  BY <1>1, ArenaInitially
<1> QED
  BY <1>3, <1>4, <1>5, <1>6, <1>7, <1>8 DEF IInv, TableIInv

-----------------------------------------------------------------------------
(* The steps that change the table.                                        *)

LEMMA TableStays ==
  ASSUME TableIInv,
         UNCHANGED <<slots, bucket_count, count, pc, call, cell, new_slots, pos>>
  PROVE  TableIInv'
  BY DEF TableIInv, Types, Counted, Sound, Calling, Growing

LEMMA ZeroLoad ==
  ASSUME NEW b \in Nat, b >= 2
  PROVE  0 * 4 < b * 3
  OBVIOUS

(* An array that was just allocated, or none, is sound.                    *)
LEMMA FreshIs ==
  ASSUME slots' = EmptyArray(bucket_count'), bucket_count' \in Nat, count' = 0,
         (pc' = "idle" /\ bucket_count' >= 2) \/ pc' = "closed"
  PROVE  TableIInv' /\ Occupied(slots') = {}
<1>1. slots' \in [Cells(bucket_count') -> Slot] /\ Occupied(slots') = {}
  BY EmptyIs
<1>2. Types'
  BY <1>1 DEF Types
<1>3. Counted'
  <2>1. Cardinality(Occupied(slots')) = 0
    BY <1>1, FS_EmptySet
  <2>2. pc' # "closed" => count' * 4 < bucket_count' * 3
    BY ZeroLoad
  <2> QED
    BY <1>1, <2>1, <2>2 DEF Counted
<1>4. Sound'
  BY <1>1 DEF Sound, Unique, Chained
<1>5. Calling' /\ Growing'
  BY DEF Calling, Growing
<1> QED
  BY <1>1, <1>2, <1>3, <1>4, <1>5 DEF TableIInv

LEMMA OpenKeeps ==
  ASSUME Open \/ Close
  PROVE  TableIInv' /\ Occupied(slots') = {}
<1>1. InitialBuckets \in Nat /\ InitialBuckets >= 2
  BY InternerAssumption
<1> QED
  BY <1>1, FreshIs DEF Open, Close, Unused

LEMMA InternNewKeeps ==
  ASSUME TableIInv, NEW n \in Names, InternNew(n)
  PROVE  TableIInv'
<1>1. /\ pc = "idle" /\ pc' = "copy" /\ ~ Found(n) /\ ~ MustGrow
      /\ call' = n /\ cell' = Probe(slots, bucket_count, n)
      /\ UNCHANGED <<slots, bucket_count, count>>
  BY DEF InternNew, table
<1>2. Types' /\ Counted' /\ Sound'
  BY <1>1 DEF TableIInv, Types, Counted, Sound
<1>3. /\ ~ Holds(slots, n)
      /\ Lands(slots, Homes(bucket_count), bucket_count, n,
               Probe(slots, bucket_count, n))
  BY <1>1, FoundIs
<1>4. (count + 1) * 4 < bucket_count * 3
  <2>1. count \in Nat /\ bucket_count \in Nat
    BY <1>1, TableOpen DEF TableIInv, Counted
  <2> QED
    BY <1>1, <2>1 DEF MustGrow
<1>5. Calling'
  BY <1>1, <1>3, <1>4 DEF Calling
<1>6. Growing'
  BY <1>1 DEF Growing
<1> QED
  BY <1>2, <1>5, <1>6 DEF TableIInv

LEMMA GrowStartKeeps ==
  ASSUME TableIInv, NEW n \in Names, GrowStart(n)
  PROVE  TableIInv'
<1>1. /\ pc = "idle" /\ pc' = "grow" /\ ~ Found(n)
      /\ call' = n /\ pos' = 0 /\ new_slots' = EmptyArray(2 * bucket_count)
      /\ UNCHANGED <<slots, bucket_count, count>>
  BY DEF GrowStart, table
<1>2. Types' /\ Counted' /\ Sound'
  BY <1>1 DEF TableIInv, Types, Counted, Sound
<1>3. ~ Holds(slots, n)
  BY <1>1, FoundIs
<1>4. Calling'
  BY <1>1, <1>3 DEF Calling
<1>5. /\ bucket_count \in Nat /\ 2 * bucket_count \in Nat
      /\ slots \in [Cells(bucket_count) -> Slot]
  BY <1>1, TableOpen
<1>6. Copied(slots, 0, EmptyArray(2 * bucket_count), 2 * bucket_count,
             Homes(2 * bucket_count))
  BY <1>5, CopiedNone
<1>7. Growing'
  BY <1>1, <1>5, <1>6 DEF Growing
<1> QED
  BY <1>2, <1>4, <1>7 DEF TableIInv

(* The array that a growth fills, and where a probe of it lands.           *)
LEMMA NewLands ==
  ASSUME TableIInv, pc = "grow", NEW n \in Names
  PROVE  /\ 2 * bucket_count \in Nat
         /\ Homes(2 * bucket_count) \in [Names -> Cells(2 * bucket_count)]
         /\ Lands(new_slots, Homes(2 * bucket_count), 2 * bucket_count, n,
                  Probe(new_slots, 2 * bucket_count, n))
<1> DEFINE b2 == 2 * bucket_count
<1>1. /\ bucket_count \in Nat \ {0} /\ slots \in [Cells(bucket_count) -> Slot]
      /\ Cardinality(Occupied(slots)) \in Nat
      /\ Cardinality(Occupied(slots)) < bucket_count
  BY TableOpen
<1>2. b2 \in Nat \ {0} /\ Cardinality(Occupied(slots)) < b2
  BY <1>1
<1>3. Copied(slots, pos, new_slots, b2, Homes(b2))
  BY DEF TableIInv, Growing
<1> HIDE DEF b2
<1>4. new_slots \in [Cells(b2) -> Slot]
  BY <1>3 DEF Copied
<1>5. Occupied(new_slots) # DOMAIN new_slots
  BY <1>1, <1>2, <1>3, CopiedRoom
<1>6. Homes(b2) \in [Names -> Cells(b2)]
      /\ Lands(new_slots, Homes(b2), b2, n, Probe(new_slots, b2, n))
  BY <1>2, <1>4, <1>5, ProbeLands
<1> QED
  BY <1>2, <1>6 DEF b2

LEMMA RehashKeeps ==
  ASSUME TableIInv, Rehash
  PROVE  TableIInv'
<1> DEFINE b2 == 2 * bucket_count
           n == slots[pos].key
           q == Probe(new_slots, b2, n)
<1>1. /\ pc = "grow" /\ pos < bucket_count /\ pos' = pos + 1
      /\ UNCHANGED <<slots, bucket_count, count, pc, call, cell>>
  BY DEF Rehash, table
<1>2. /\ bucket_count \in Nat /\ slots \in [Cells(bucket_count) -> Slot]
      /\ pos \in 0 .. bucket_count /\ Unique(slots)
      /\ Copied(slots, pos, new_slots, b2, Homes(b2))
  BY <1>1 DEF TableIInv, Types, Sound, Growing
<1>3. pos \in Cells(bucket_count) /\ pos' \in 0 .. bucket_count
  BY <1>1, <1>2 DEF Cells
<1>4. Copied(slots, pos + 1, new_slots', b2, Homes(b2))
  <2>1. CASE n = None
    <3>1. new_slots' = new_slots
      BY <2>1 DEF Rehash
    <3> QED
      BY <1>2, <1>3, <2>1, <3>1, CopiedSkip
  <2>2. CASE n # None
    <3>1. n \in Names
      BY <1>2, <1>3, <2>2, OccupiedIs
    <3>2. /\ b2 \in Nat /\ Homes(b2) \in [Names -> Cells(b2)]
          /\ Lands(new_slots, Homes(b2), b2, n, q)
      BY <1>1, <3>1, NewLands
    <3>3. Written(new_slots, q, slots[pos], new_slots')
      BY <2>2 DEF Rehash, Written
    <3> HIDE DEF b2, q
    <3> QED
      BY <1>2, <1>3, <2>2, <3>2, <3>3, CopiedTurn
  <2> QED
    BY <2>1, <2>2
<1>5. Types' /\ Counted' /\ Sound' /\ Calling'
  BY <1>1 DEF TableIInv, Types, Counted, Sound, Calling
<1>6. Growing'
  BY <1>1, <1>3, <1>4 DEF Growing
<1> QED
  BY <1>5, <1>6 DEF TableIInv

(* The new array takes over with the same entries.                         *)
LEMMA GrowFinishKeeps ==
  ASSUME TableIInv, GrowFinish
  PROVE  TableIInv' /\ Entries(slots') = Entries(slots)
<1> DEFINE b2 == 2 * bucket_count
           n == call
<1>1. /\ pc = "grow" /\ pos = bucket_count /\ pc' = "copy" /\ slots' = new_slots
      /\ bucket_count' = b2 /\ cell' = Probe(new_slots, b2, n)
      /\ UNCHANGED <<count, call>>
  BY DEF GrowFinish
<1>2. /\ bucket_count \in Nat \ {0} /\ slots \in [Cells(bucket_count) -> Slot]
      /\ bucket_count >= 2 /\ n \in Names /\ ~ Holds(slots, n)
      /\ count = Cardinality(Occupied(slots)) /\ count * 4 < bucket_count * 3
      /\ Cardinality(Occupied(slots)) \in Nat
  BY <1>1, TableOpen DEF TableIInv, Types, Counted, Calling
<1>3. Copied(slots, bucket_count, new_slots, b2, Homes(b2))
  BY <1>1 DEF TableIInv, Growing
<1>4. /\ new_slots \in [Cells(b2) -> Slot] /\ Unique(new_slots)
      /\ Chained(new_slots, Homes(b2), b2, b2)
      /\ Cardinality(Occupied(new_slots)) = Cardinality(Occupied(slots))
      /\ {new_slots[c] : c \in Occupied(new_slots)} =
           {slots[c] : c \in Occupied(slots)}
  <2> HIDE DEF b2
  <2> QED
    BY <1>2, <1>3, CopiedAll
<1>5. ~ Holds(new_slots, n)
  <2> SUFFICES ASSUME NEW c \in Occupied(new_slots), new_slots[c].key = n
               PROVE  FALSE
    BY DEF Holds
  <2>1. PICK d \in Occupied(slots) : new_slots[c] = slots[d]
    BY <1>4
  <2> QED
    BY <1>2, <2>1 DEF Holds
<1>6. Lands(new_slots, Homes(b2), b2, n, Probe(new_slots, b2, n))
  BY <1>1, <1>2, NewLands
<1>7. b2 \in Nat /\ b2 >= 2 /\ count * 4 < b2 * 3 /\ (count + 1) * 4 < b2 * 3
  BY <1>2
<1> HIDE DEF b2, n
<1>8. Types'
  BY <1>1, <1>4, <1>7 DEF Types
<1>9. Counted'
  BY <1>1, <1>2, <1>4, <1>7 DEF Counted
<1>10. Sound'
  BY <1>1, <1>4 DEF Sound
<1>11. Calling'
  <2>1. call' = n
    BY <1>1 DEF n
  <2> QED
    BY <1>1, <1>2, <1>5, <1>6, <1>7, <2>1 DEF Calling
<1>12. Growing'
  BY <1>1 DEF Growing
<1> QED
  BY <1>1, <1>4, <1>8, <1>9, <1>10, <1>11, <1>12 DEF TableIInv, Entries

-----------------------------------------------------------------------------
(* The steps of the arena, alone and with the insertion of a copy.         *)

(* What was handed out stays where it was.                                 *)
LEMMA KeptStays ==
  ASSUME ArenaIInv, ArenaIInv', NEW E, Kept(E, objects),
         UNCHANGED objects \/ \E size : Added(size)
  PROVE  Kept(E, objects')
<1>1. CASE UNCHANGED objects
  BY <1>1
<1>2. CASE \E size : Added(size)
  <2>1. PICK size : Added(size)
    BY <1>2
  <2>2. /\ Len(objects') = Len(objects) + 1
        /\ \A i \in 1 .. Len(objects) : objects'[i] = objects[i]
    BY <2>1, AddedIs
  <2>3. Len(objects) \in Nat
    BY DEF ArenaIInv, ObjectsSound
  <2>4. \A i \in 1 .. Len(objects) : i \in 1 .. Len(objects')
    BY <2>2, <2>3
  <2> QED
    BY <2>2, <2>4 DEF Kept
<1> QED
  BY <1>1, <1>2

(* A new entry points at the object that was added last.                   *)
LEMMA KeptAdds ==
  ASSUME ArenaIInv, ArenaIInv', NEW E, Kept(E, objects),
         NEW n \in Names, Added(LengthOf[n] + 1),
         NEW e, e = [key |-> n, value |-> objects'[Len(objects')].at]
  PROVE  Kept(E \cup {e}, objects')
<1>1. Kept(E, objects')
  BY KeptStays
<1>2. /\ Len(objects') = Len(objects) + 1
      /\ objects'[Len(objects')].size = LengthOf[n] + 1
      /\ \A i \in 1 .. Len(objects) :
           objects[i].at # objects'[Len(objects')].at
  BY AddedIs
<1>3. Len(objects) \in Nat /\ Len(objects') \in 1 .. Len(objects')
  BY <1>2 DEF ArenaIInv, ObjectsSound
<1>4. LengthOf[n] + 1 \in Nat
  BY InternerAssumption
<1>5. e.key = n /\ e.value = objects'[Len(objects')].at
  OBVIOUS
<1>6. \E i \in 1 .. Len(objects') :
        objects'[i].at = e.value /\ objects'[i].size >= LengthOf[e.key] + 1
  BY <1>2, <1>3, <1>4, <1>5
<1>7. ASSUME NEW f \in E PROVE f.value # e.value
  <2>1. PICK i \in 1 .. Len(objects) : objects[i].at = f.value
    BY DEF Kept
  <2> QED
    BY <1>2, <1>5, <2>1
<1> QED
  BY <1>1, <1>6, <1>7 DEF Kept

LEMMA CopyKeeps ==
  ASSUME IInv, Copy
  PROVE  IInv' /\ Served
<1> DEFINE b == bucket_count
           h == Homes(bucket_count)
           n == call
           last == objects'[Len(objects')].at
           s == [key |-> call, value |-> last]
<1>1. /\ ArenaIInv /\ TableIInv /\ Kept(Entries(slots), objects)
      /\ pc = "copy" /\ pc' = "idle" /\ bucket_count' = b
      /\ Alloc(CopySize(n), 1) /\ Null \notin Nat
  BY ArenaAssumption DEF IInv, Copy
<1>2. /\ n \in Names /\ ~ Holds(slots, n) /\ (count + 1) * 4 < b * 3
      /\ Lands(slots, h, b, n, cell)
      /\ b \in Nat \ {0} /\ slots \in [Cells(b) -> Slot]
      /\ Unique(slots) /\ Chained(slots, h, b, b)
      /\ count = Cardinality(Occupied(slots)) /\ count \in Nat
      /\ h \in [Names -> Cells(b)] /\ b >= 2
  BY <1>1, TableOpen, HomesType DEF TableIInv, Types, Counted, Sound, Calling
<1>3. CopySize(n) \in Nat \ {0} /\ CopySize(n) = LengthOf[n] + 1
      /\ Bump(CopySize(n)) = CopySize(n)
  BY <1>2, InternerAssumption DEF CopySize, Bump
<1>4. ArenaIInv' /\ Served
  BY <1>1, <1>3, AllocKeeps
<1>5. Len(objects) \in Nat /\ Len(objects') \in Nat
  BY <1>1, <1>4 DEF ArenaIInv, ObjectsSound
<1>6. CASE UNCHANGED objects
  <2>1. Returned = Null
    BY <1>5, <1>6 DEF Returned
  <2>2. slots' = slots /\ count' = count
    BY <2>1 DEF Copy
  <2>3. Types' /\ Counted' /\ Sound' /\ Calling' /\ Growing'
    BY <1>1, <2>2 DEF TableIInv, Types, Counted, Sound, Calling, Growing
  <2> QED
    BY <1>1, <1>4, <1>6, <2>2, <2>3 DEF IInv, TableIInv
<1>7. CASE Added(CopySize(n))
  <2>1. /\ Len(objects') = Len(objects) + 1 /\ last \in 0 .. SizeMax
    BY <1>1, <1>4, <1>7, AddedIs
  <2>2. Returned = last /\ Returned # Null
    BY <1>1, <1>5, <2>1 DEF Returned
  <2>3. slots' = [slots EXCEPT ![cell] = s] /\ count' = count + 1
    BY <2>2 DEF Copy
  <2>4. s \in Slot /\ s.key = n /\ s.value = last
    BY <1>2, <2>1, InternerAssumption DEF Slot
  <2>5. slots' \in [Cells(b) -> Slot] /\ Written(slots, cell, s, slots')
    BY <1>2, <2>3, <2>4 DEF Written
  <2> HIDE DEF s, h, b, n, last
  <2>6. /\ Occupied(slots') = Occupied(slots) \cup {cell}
        /\ cell \notin Occupied(slots)
        /\ slots'[cell] = s /\ \A c \in Occupied(slots) : slots'[c] = slots[c]
        /\ Unique(slots') /\ Chained(slots', h, b, b)
    BY ONLY <1>2, <2>4, <2>5, FillKeeps
  <2>7. count' = Cardinality(Occupied(slots'))
    <3>1. IsFiniteSet(Occupied(slots))
      BY <1>2, OccupiedIs
    <3>2. Cardinality(Occupied(slots')) = Cardinality(Occupied(slots)) + 1
      BY <2>6, <3>1, FS_AddElement
    <3> QED
      BY <1>2, <2>3, <3>2
  <2>8. count' * 4 < bucket_count' * 3
    BY <1>1, <1>2, <2>3
  <2>9. Types'
    BY <1>1, <1>2, <2>5 DEF Types
  <2>10. Counted'
    BY <1>1, <2>7, <2>8 DEF Counted
  <2>11. Sound'
    BY <1>1, <2>6 DEF Sound, h, b
  <2>12. Calling' /\ Growing'
    BY <1>1 DEF Calling, Growing
  <2>13. Entries(slots') = Entries(slots) \cup {s}
    BY <2>6 DEF Entries
  <2>14. Kept(Entries(slots'), objects')
    <3>1. s = [key |-> n, value |-> objects'[Len(objects')].at]
      BY DEF s, n, last
    <3>2. Added(LengthOf[n] + 1)
      BY <1>3, <1>7
    <3>3. Kept(Entries(slots) \cup {s}, objects')
      BY ONLY <1>1, <1>2, <1>4, <3>1, <3>2, KeptAdds
    <3> QED
      BY <2>13, <3>3
  <2> QED
    BY <1>4, <2>9, <2>10, <2>11, <2>12, <2>14 DEF IInv, TableIInv
<1> QED
  BY <1>1, <1>3, <1>6, <1>7, AllocAdds

LEMMA OthersKeep ==
  ASSUME IInv, OthersRequest
  PROVE  IInv' /\ Served
<1>1. /\ ArenaIInv /\ TableIInv /\ Kept(Entries(slots), objects) /\ Request
      /\ UNCHANGED <<slots, bucket_count, count, pc, call, cell, new_slots, pos>>
  BY DEF IInv, OthersRequest, internVars, table
<1>2. ArenaIInv' /\ Served
  BY <1>1, RequestKeeps
<1>3. Kept(Entries(slots), objects')
  BY <1>1, <1>2, RequestAdds, KeptStays
<1>4. TableIInv'
  BY <1>1, TableStays
<1> QED
  BY <1>1, <1>2, <1>3, <1>4 DEF IInv

(* A closed interner has no copies to lose.                                *)
LEMMA RecycledKeeps ==
  ASSUME IInv, ArenaRecycled
  PROVE  IInv' /\ Served
<1>1. /\ ArenaIInv /\ TableIInv /\ Recycle /\ pc = "closed"
      /\ UNCHANGED <<slots, bucket_count, count, pc, call, cell, new_slots, pos>>
  BY DEF IInv, ArenaRecycled, internVars, table
<1>2. ArenaIInv' /\ Served
  BY <1>1, RecycleKeeps
<1>3. TableIInv'
  BY <1>1, TableStays
<1>4. Entries(slots') = {}
  BY <1>1 DEF TableIInv, Counted, Entries
<1>5. Kept(Entries(slots'), objects')
  BY <1>4 DEF Kept
<1> QED
  BY <1>2, <1>3, <1>5 DEF IInv

LEMMA StepKeeps ==
  ASSUME IInv, [Next]_vars
  PROVE  IInv' /\ Served
<1>1. ASSUME UNCHANGED arenaVars, TableIInv', Entries(slots') = Entries(slots)
      PROVE  IInv' /\ Served
  <2>1. ArenaIInv' /\ Served /\ objects' = objects
    BY <1>1, RefuseKeeps DEF IInv, arenaVars
  <2> QED
    BY <1>1, <2>1 DEF IInv
<1>2. TableIInv
  BY DEF IInv
<1>3. CASE Open \/ Close
  <2>1. TableIInv' /\ Occupied(slots') = {} /\ UNCHANGED arenaVars
    BY <1>3, OpenKeeps DEF Open, Close
  <2>2. Kept(Entries(slots'), objects')
    BY <2>1 DEF Kept, Entries
  <2>3. ArenaIInv' /\ Served
    BY <2>1, RefuseKeeps DEF IInv
  <2> QED
    BY <2>1, <2>2, <2>3 DEF IInv
<1>4. ASSUME NEW n \in Names, InternKnown(n) \/ InternClosed(n) \/ GrowFails(n)
      PROVE  IInv' /\ Served
  <2>1. /\ UNCHANGED arenaVars
        /\ UNCHANGED <<slots, bucket_count, count, pc, call, cell, new_slots, pos>>
    BY <1>4 DEF InternKnown, InternClosed, GrowFails, table
  <2> QED
    BY <1>1, <1>2, <2>1, TableStays
<1>5. ASSUME NEW n \in Names, InternNew(n) PROVE IInv' /\ Served
  <2>1. UNCHANGED <<arenaVars, slots>>
    BY <1>5 DEF InternNew, table
  <2> QED
    BY <1>1, <1>2, <1>5, <2>1, InternNewKeeps
<1>6. ASSUME NEW n \in Names, GrowStart(n) PROVE IInv' /\ Served
  <2>1. UNCHANGED <<arenaVars, slots>>
    BY <1>6 DEF GrowStart, table
  <2> QED
    BY <1>1, <1>2, <1>6, <2>1, GrowStartKeeps
<1>7. CASE Rehash
  <2>1. UNCHANGED <<arenaVars, slots>>
    BY <1>7 DEF Rehash, table
  <2> QED
    BY <1>1, <1>2, <1>7, <2>1, RehashKeeps
<1>8. CASE GrowFinish
  <2>1. UNCHANGED arenaVars
    BY <1>8 DEF GrowFinish
  <2> QED
    BY <1>1, <1>2, <1>8, <2>1, GrowFinishKeeps
<1>9. CASE UNCHANGED vars
  <2>1. /\ UNCHANGED arenaVars
        /\ UNCHANGED <<slots, bucket_count, count, pc, call, cell, new_slots, pos>>
    BY <1>9 DEF vars, internVars, table
  <2> QED
    BY <1>1, <1>2, <2>1, TableStays
<1> QED
  BY <1>3, <1>4, <1>5, <1>6, <1>7, <1>8, <1>9, CopyKeeps, OthersKeep,
     RecycledKeeps DEF Next

LEMMA Invariance == Spec => []IInv
<1>1. IInv /\ [Next]_vars => IInv'
  BY StepKeeps
<1> QED
  BY Initially, <1>1, PTL DEF Spec

-----------------------------------------------------------------------------
(* What the invariant says.                                                *)

(* A stored spelling is where its probe stops, the count is right, and     *)
(* there is always a cell for a probe to stop at.                          *)
THEOREM SpellingsFindable == Spec => []Findable
<1>1. IInv => Findable
  <2> SUFFICES ASSUME IInv, pc \in {"idle", "copy"} PROVE Findable
    BY DEF Findable
  <2>1. Occupied(slots) # DOMAIN slots
    BY TableOpen DEF IInv
  <2> QED
    BY <2>1 DEF IInv, TableIInv, Sound, Counted, Findable
<1> QED
  BY Invariance, <1>1, PTL

(* Every spelling in the table points at an object of its own that the     *)
(* arena still holds, with room for its bytes and a terminator.            *)
THEOREM SpellingsHeld == Spec => []CopiesHeld
<1>1. IInv => CopiesHeld
  <2> SUFFICES ASSUME IInv PROVE CopiesHeld
    OBVIOUS
  <2>1. Kept(Entries(slots), objects) /\ Unique(slots)
    BY DEF IInv, TableIInv, Sound
  <2>2. DOMAIN objects = 1 .. Len(objects)
    BY DEF IInv, ArenaIInv, ObjectsSound
  <2>3. ASSUME NEW c \in Occupied(slots)
        PROVE  \E i \in DOMAIN objects :
                 /\ objects[i].at = slots[c].value
                 /\ objects[i].size >= LengthOf[slots[c].key] + 1
    <3>1. slots[c] \in Entries(slots)
      BY DEF Entries
    <3> QED
      BY <2>1, <2>2, <3>1 DEF Kept
  <2>4. ASSUME NEW c \in Occupied(slots), NEW d \in Occupied(slots),
               slots[c].value = slots[d].value
        PROVE  c = d
    <3>1. slots[c] \in Entries(slots) /\ slots[d] \in Entries(slots)
      BY DEF Entries
    <3>2. slots[c] = slots[d]
      BY <2>1, <2>4, <3>1 DEF Kept
    <3> QED
      BY <2>1, <3>2 DEF Unique
  <2> QED
    BY <2>3, <2>4 DEF CopiesHeld
<1> QED
  BY Invariance, <1>1, PTL

(* The arena keeps its promises to the interner and its other clients:     *)
(* what it hands out lies apart, ...                                       *)
THEOREM SharedArenaApart == Spec => []ObjectsApart
<1>1. IInv => ObjectsApart
  BY ApartHolds DEF IInv
<1> QED
  BY Invariance, <1>1, PTL

(* ... its figures are still sums over its blocks, whichever of the        *)
(* interner's requests were refused ...                                    *)
THEOREM SharedArenaAccounted == Spec => []Accounted
<1>1. IInv => Accounted
  BY AccountedHolds DEF IInv
<1> QED
  BY Invariance, <1>1, PTL

(* ... and it reserves no block in vain.                                   *)
THEOREM SharedArenaGrowsToServe == Spec => GrowsToServe
<1>1. IInv /\ [Next]_vars
        => [Len(blocks') > Len(blocks)
              => Len(objects') = Len(objects) + 1]_arenaVars
  BY StepKeeps DEF Served
<1> QED
  BY Invariance, <1>1, PTL DEF Spec, GrowsToServe

-----------------------------------------------------------------------------
(* The refinement: one pointer for each spelling.                          *)

LEMMA PoolIs == pool = Stored(slots) /\ pool' = Stored(slots')
  BY DEF pool, Stored

(* Equal entries store the same.                                           *)
LEMMA EntriesStore ==
  ASSUME NEW a, NEW a2, Unique(a), Unique(a2), Entries(a2) = Entries(a)
  PROVE  Stored(a2) = Stored(a)
<1>1. \A c \in Occupied(a) : \E d \in Occupied(a2) : a2[d] = a[c]
  BY DEF Entries
<1>2. \A d \in Occupied(a2) : \E c \in Occupied(a) : a[c] = a2[d]
  BY DEF Entries
<1>3. \A n \in Names : Stored(a2)[n] = Stored(a)[n]
  BY <1>1, <1>2, StoredSame
<1> QED
  BY <1>3, StoredEqual

LEMMA NothingStored ==
  ASSUME NEW a, Occupied(a) = {}
  PROVE  Stored(a) = [n \in Names |-> None]
  BY DEF Stored

(* What Found says of the pool.                                            *)
LEMMA FoundPool ==
  ASSUME TableIInv, pc # "closed", NEW n \in Names
  PROVE  /\ Found(n) => /\ pool[n] = slots[Probe(slots, bucket_count, n)].value
                        /\ pool[n] # None
         /\ ~ Found(n) => pool[n] = None
<1> DEFINE p == Probe(slots, bucket_count, n)
<1>1. /\ Unique(slots) /\ bucket_count \in Nat
      /\ slots \in [Cells(bucket_count) -> Slot]
  BY DEF TableIInv, Types, Sound
<1>2. CASE Found(n)
  <2>1. p \in Occupied(slots) /\ slots[p].key = n
    BY <1>2, FoundIs
  <2> HIDE DEF p
  <2>2. pool[n] = slots[p].value
    BY <1>1, <2>1, StoredAt, PoolIs
  <2>3. slots[p] \in Slot /\ slots[p].key # None
    BY <1>1, <2>1, OccupiedIs
  <2>4. slots[p].value \in Values
    BY <2>3, SlotKeys
  <2> QED
    BY <1>2, <2>2, <2>4, ProbingAssumption DEF p
<1>3. CASE ~ Found(n)
  <2>1. ~ Holds(slots, n)
    BY <1>3, FoundIs
  <2> QED
    BY <1>1, <1>3, <2>1, StoredAt, PoolIs
<1> QED
  BY <1>2, <1>3

(* A copy that was made is a new pointer, or memory ran out.               *)
LEMMA CopyAnswers ==
  ASSUME IInv, IInv', Copy
  PROVE  Pool!New(call) \/ Pool!Refused(call)
<1> DEFINE b == bucket_count
           s == [key |-> call, value |-> Returned]
<1>1. /\ pc = "copy" /\ result' = Answer(call, Returned)
      /\ Alloc(CopySize(call), 1) /\ bucket_count' = b
  BY DEF Copy
<1>2. /\ call \in Names /\ ~ Holds(slots, call) /\ Unique(slots)
      /\ slots \in [Cells(b) -> Slot] /\ b \in Nat
      /\ cell \in Cells(b) /\ slots[cell].key \in {None, call}
      /\ Kept(Entries(slots), objects)
  BY <1>1 DEF IInv, TableIInv, Types, Sound, Calling, Lands
<1>3. pool[call] = None
  BY <1>2, StoredAt, PoolIs
<1>4. CASE Returned = Null
  <2>1. slots' = slots
    BY <1>4 DEF Copy
  <2>2. UNCHANGED pool /\ result' = Pool!Answer(call, None)
    BY <1>1, <1>4, <2>1, PoolIs, InternerAssumption DEF Answer, Pool!Answer
  <2> QED
    BY <1>3, <2>2 DEF Pool!Refused
<1>5. CASE Returned # Null
  <2>1. /\ Added(Bump(CopySize(call))) /\ Returned = objects'[Len(objects')].at
    BY <1>1, <1>5, AllocAdds DEF Returned
  <2>2. /\ Returned \in Values
        /\ \A i \in 1 .. Len(objects) : objects[i].at # Returned
    BY <2>1, AddedIs, InternerAssumption DEF IInv
  <2>3. ASSUME NEW m \in Names PROVE pool[m] # Returned
    <3>1. CASE Holds(slots, m)
      <4>1. PICK c \in Occupied(slots) : slots[c].key = m
        BY <3>1 DEF Holds
      <4>2. pool[m] = slots[c].value /\ slots[c] \in Entries(slots)
        BY <1>2, <4>1, StoredAt, PoolIs DEF Entries
      <4>3. PICK i \in 1 .. Len(objects) : objects[i].at = slots[c].value
        BY <1>2, <4>2 DEF Kept
      <4> QED
        BY <2>2, <4>2, <4>3
    <3>2. CASE ~ Holds(slots, m)
      <4>1. pool[m] = None
        BY <1>2, <3>2, StoredAt, PoolIs
      <4> QED
        BY <1>5, <4>1, InternerAssumption
    <3> QED
      BY <3>1, <3>2
  <2>4. s \in Slot /\ s.key = call /\ s.value = Returned
    BY <1>2, <2>2 DEF Slot
  <2>5. Written(slots, cell, s, slots')
    BY <1>5 DEF Copy, Written
  <2>6. Unique(slots') /\ slots' \in [Cells(b) -> Slot]
    BY <1>1 DEF IInv, TableIInv, Types, Sound
  <2> HIDE DEF s, b
  <2>7. Stored(slots') = [Stored(slots) EXCEPT ![call] = s.value]
    BY ONLY <1>2, <2>4, <2>5, <2>6, StoredPut
  <2>8. pool' = [pool EXCEPT ![call] = Returned]
    BY <2>4, <2>7, PoolIs
  <2>9. result' = Pool!Answer(call, Returned) /\ result' = Answer(call, Returned)
    BY <1>1 DEF Answer, Pool!Answer
  <2>10. result'.name = call /\ result'.pointer = Returned
    BY <2>9 DEF Answer
  <2> QED
    BY <1>3, <2>2, <2>3, <2>8, <2>9, <2>10 DEF Pool!New
<1> QED
  BY <1>4, <1>5

(* The interner implements the pool of StringPool: through probing,        *)
(* growth, failures of malloc and the requests of the arena's other        *)
(* clients, each spelling keeps the one pointer it was given.              *)
THEOREM Refinement == Spec => ImplementsPool
<1>1. Init => Pool!Init
  <2> SUFFICES ASSUME Init PROVE Pool!Init
    OBVIOUS
  <2>1. Occupied(slots) = {} /\ result = Answer(None, None)
    BY EmptyIs DEF Init, NoTable, Unused
  <2> QED
    BY <2>1, NothingStored, PoolIs DEF Pool!Init, Answer, Pool!Answer
<1>2. ASSUME IInv, IInv', [Next]_vars PROVE [Pool!Next]_(Pool!poolVars)
  <2>1. TableIInv /\ Unique(slots) /\ Unique(slots')
    BY <1>2 DEF IInv, TableIInv, Sound
  <2>2. ASSUME UNCHANGED <<slots, result>> PROVE UNCHANGED Pool!poolVars
    BY <2>2, PoolIs DEF Pool!poolVars
  <2>3. CASE Open
    <3>1. Occupied(slots) = {} /\ result' = result
      BY <2>1, <2>3 DEF Open, TableIInv, Counted
    <3>2. Occupied(slots') = {}
      BY <2>3, OpenKeeps
    <3>3. pool' = pool
      BY <3>1, <3>2, NothingStored, PoolIs
    <3> QED
      BY <3>1, <3>3 DEF Pool!poolVars
  <2>4. CASE Close
    <3>1. Occupied(slots') = {} /\ result' = result
      BY <2>4, OpenKeeps DEF Close
    <3>2. pool' = [n \in Names |-> None]
      BY <3>1, NothingStored, PoolIs
    <3> QED
      BY <3>1, <3>2 DEF Pool!Next, Pool!Dispose
  <2>5. ASSUME NEW n \in Names, InternKnown(n) PROVE Pool!Known(n)
    <3>1. pc = "idle" /\ Found(n) /\ slots' = slots
      BY <2>5 DEF InternKnown, table
    <3>2. pool[n] = slots[Probe(slots, bucket_count, n)].value /\ pool[n] # None
      BY <2>1, <3>1, FoundPool
    <3> QED
      BY <2>5, <3>1, <3>2, PoolIs
         DEF InternKnown, Pool!Known, Answer, Pool!Answer
  <2>6. ASSUME NEW n \in Names, InternClosed(n) \/ GrowFails(n)
        PROVE  Pool!Refused(n)
    <3>1. slots' = slots /\ result' = Answer(n, None)
      BY <2>6 DEF InternClosed, GrowFails, table
    <3>2. pool[n] = None
      <4>1. CASE InternClosed(n)
        <5>1. Occupied(slots) = {}
          BY <2>1, <4>1 DEF InternClosed, TableIInv, Counted
        <5> QED
          BY <5>1, NothingStored, PoolIs
      <4>2. CASE GrowFails(n)
        BY <2>1, <4>2, FoundPool DEF GrowFails
      <4> QED
        BY <2>6, <4>1, <4>2
    <3> QED
      BY <3>1, <3>2, PoolIs DEF Pool!Refused, Answer, Pool!Answer
  <2>7. ASSUME NEW n \in Names, InternNew(n) \/ GrowStart(n)
        PROVE  UNCHANGED Pool!poolVars
    BY <2>2, <2>7 DEF InternNew, GrowStart, table
  <2>8. CASE Rehash
    BY <2>2, <2>8 DEF Rehash, table
  <2>9. CASE GrowFinish
    <3>1. Entries(slots') = Entries(slots) /\ result' = result
      BY <2>1, <2>9, GrowFinishKeeps DEF GrowFinish
    <3>2. pool' = pool
      BY <2>1, <3>1, EntriesStore, PoolIs
    <3> QED
      BY <3>1, <3>2 DEF Pool!poolVars
  <2>10. CASE Copy
    <3>1. call \in Names
      BY <2>1, <2>10 DEF TableIInv, Calling, Copy
    <3> QED
      BY <1>2, <2>10, <3>1, CopyAnswers DEF Pool!Next
  <2>11. CASE OthersRequest \/ ArenaRecycled
    BY <2>2, <2>11 DEF OthersRequest, ArenaRecycled, internVars, table
  <2>12. CASE UNCHANGED vars
    BY <2>2, <2>12 DEF vars, internVars, table
  <2> QED
    BY <1>2, <2>3, <2>4, <2>5, <2>6, <2>7, <2>8, <2>9, <2>10, <2>11, <2>12
       DEF Next, Pool!Next
<1> QED
  BY <1>1, <1>2, Invariance, PTL DEF Spec, ImplementsPool, Pool!Spec
=============================================================================
