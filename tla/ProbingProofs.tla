--------------------------- MODULE ProbingProofs ---------------------------
(***************************************************************************)
(* What a probe of one array of buckets finds and what filling a bucket    *)
(* preserves, for any keys, any homes and any number of buckets: the facts *)
(* the proofs about the macro table and the string interner share.         *)
(***************************************************************************)
EXTENDS Probing, TLAPS, WellFoundedInduction, FiniteSetTheorems

-----------------------------------------------------------------------------
(* A set of naturals that is not empty has a least element.                *)
LessOnNat == {ss \in Nat \X Nat : ss[1] < ss[2]}

LEMMA LessWellFounded == IsWellFoundedOn(LessOnNat, Nat)
  BY NatLessThanWellFounded DEF OpToRel, LessOnNat

LEMMA LeastNatural ==
  ASSUME NEW T \in SUBSET Nat, T # {}
  PROVE  \E x \in T : \A y \in T : x <= y
<1>1. PICK x \in T : \A y \in T : ~(<<y, x>> \in LessOnNat)
  BY LessWellFounded, WFMin
<1>2. ASSUME NEW y \in T PROVE x <= y
  <2>1. x \in Nat /\ y \in Nat
    OBVIOUS
  <2>2. y < x => <<y, x>> \in LessOnNat
    BY <2>1 DEF LessOnNat
  <2> QED
    BY <1>1, <2>1, <2>2
<1> QED
  BY <1>2

-----------------------------------------------------------------------------
(* Distances on a ring of b cells.                                         *)

LEMMA DistIs ==
  ASSUME NEW b \in Nat, NEW x \in Cells(b), NEW y \in Cells(b)
  PROVE  /\ Dist(x, y, b) = IF x <= y THEN y - x ELSE y + b - x
         /\ Dist(x, y, b) \in Cells(b)
  BY DEF Cells, Dist, Ring

LEMMA DistNat ==
  ASSUME NEW b \in Nat, NEW x \in Cells(b), NEW y \in Cells(b)
  PROVE  Dist(x, y, b) \in Nat
  BY DEF Cells, Dist, Ring

LEMMA DistZero ==
  ASSUME NEW b \in Nat, NEW x \in Cells(b), NEW y \in Cells(b)
  PROVE  Dist(x, y, b) = 0 <=> x = y
  BY DEF Cells, Dist, Ring

LEMMA DistInjective ==
  ASSUME NEW b \in Nat, NEW h \in Cells(b), NEW x \in Cells(b),
         NEW y \in Cells(b), Dist(h, x, b) = Dist(h, y, b)
  PROVE  x = y
  BY DEF Cells, Dist, Ring

(* i lies on the way from h to c.                                          *)
LEMMA DistVia ==
  ASSUME NEW b \in Nat, NEW h \in Cells(b), NEW i \in Cells(b),
         NEW c \in Cells(b), Dist(h, i, b) <= Dist(h, c, b)
  PROVE  Dist(h, c, b) = Dist(h, i, b) + Dist(i, c, b)
  BY DEF Cells, Dist, Ring

LEMMA DistThrough ==
  ASSUME NEW b \in Nat, NEW h \in Cells(b), NEW i \in Cells(b),
         NEW j \in Cells(b), NEW c \in Cells(b),
         Dist(h, i, b) < Dist(h, c, b), Dist(i, j, b) < Dist(i, c, b)
  PROVE  Dist(h, j, b) < Dist(h, c, b)
  BY DEF Cells, Dist, Ring

(* h lies in the interval (i, j].                                          *)
LEMMA DistInside ==
  ASSUME NEW b \in Nat, NEW h \in Cells(b), NEW i \in Cells(b),
         NEW j \in Cells(b),
         Dist(i, h, b) >= 1, Dist(i, h, b) <= Dist(i, j, b)
  PROVE  Dist(h, j, b) < Dist(i, j, b)
  BY DEF Cells, Dist, Ring

LEMMA DistOutside ==
  ASSUME NEW b \in Nat, NEW h \in Cells(b), NEW i \in Cells(b),
         NEW j \in Cells(b), i # j,
         ~ (Dist(i, h, b) >= 1 /\ Dist(i, h, b) <= Dist(i, j, b))
  PROVE  Dist(h, i, b) < Dist(h, j, b)
  BY DEF Cells, Dist, Ring

LEMMA DistNext ==
  ASSUME NEW b \in Nat, NEW i \in Cells(b), NEW p \in Cells(b)
  PROVE  /\ Next1(p, b) \in Cells(b)
         /\ Next1(p, b) # i => Dist(i, Next1(p, b), b) = Dist(i, p, b) + 1
         /\ Next1(p, b) = i => Dist(i, p, b) = b - 1
<1>1. /\ Next1(p, b) \in Cells(b)
      /\ Next1(p, b) = IF p + 1 < b THEN p + 1 ELSE p + 1 - b
  BY DEF Cells, Next1, Ring
<1> QED
  BY <1>1 DEF Cells, Dist, Ring

-----------------------------------------------------------------------------
(* One array of b cells, where h gives the home of each name.              *)

Lands(a, h, b, n, p) ==
  /\ p \in Cells(b) /\ a[p].key \in {None, n}
  /\ \A d \in Cells(b) :
       a[d].key \in {None, n} => Dist(h[n], p, b) <= Dist(h[n], d, b)

(* a2 is a with s in cell p.                                               *)
Written(a, p, s, a2) == a2 = [a EXCEPT ![p] = s]

Holds(a, n) == \E c \in Occupied(a) : a[c].key = n

LEMMA SlotKeys ==
  ASSUME NEW s \in Slot
  PROVE  /\ s.key \in Names \cup {None}
         /\ s.key = None => s = Empty
         /\ s.key # None => s \in [key : Names, value : Values]
  BY ProbingAssumption DEF Slot, Empty

LEMMA OccupiedIs ==
  ASSUME NEW b \in Nat, NEW a \in [Cells(b) -> Slot]
  PROVE  /\ DOMAIN a = Cells(b)
         /\ \A c \in Cells(b) : c \in Occupied(a) <=> a[c].key # None
         /\ Occupied(a) \subseteq Cells(b)
         /\ \A c \in Occupied(a) : a[c].key \in Names
         /\ IsFiniteSet(Cells(b)) /\ Cardinality(Cells(b)) = b
         /\ IsFiniteSet(Occupied(a))
         /\ Cardinality(Occupied(a)) \in Nat
<1>1. /\ DOMAIN a = Cells(b)
      /\ \A c \in Cells(b) : c \in Occupied(a) <=> a[c].key # None
      /\ Occupied(a) \subseteq Cells(b)
  BY DEF Occupied
<1>2. \A c \in Occupied(a) : a[c].key \in Names
  BY <1>1, SlotKeys
<1>3. IsFiniteSet(Cells(b)) /\ Cardinality(Cells(b)) = b
  BY FS_Interval DEF Cells
<1>4. IsFiniteSet(Occupied(a))
  BY <1>1, <1>3, FS_Subset
<1> QED
  BY <1>1, <1>2, <1>3, <1>4, FS_CardinalityType

(* A probe stops, at the first cell from home where it can.                *)
LEMMA ProbeFromLands ==
  ASSUME NEW b \in Nat \ {0}, NEW a \in [Cells(b) -> Slot], NEW n \in Names,
         Occupied(a) # DOMAIN a, NEW h \in [Names -> Cells(b)]
  PROVE  Lands(a, h, b, n, ProbeFrom(a, b, h[n], n))
<1> DEFINE T == {Dist(h[n], c, b) : c \in Stops(a, n)}
<1>1. Stops(a, n) # {} /\ Stops(a, n) \subseteq Cells(b)
  BY DEF Occupied, Stops
<1>2. T # {} /\ T \in SUBSET Nat
  <2>1. ASSUME NEW c \in Stops(a, n) PROVE Dist(h[n], c, b) \in Nat
    BY <1>1, DistNat
  <2> QED
    BY <1>1, <2>1
<1>3. PICK x \in T : \A y \in T : x <= y
  <2> HIDE DEF T
  <2> QED
    BY <1>2, LeastNatural
<1>4. \E c \in Stops(a, n) : \A d \in Stops(a, n) :
        Dist(h[n], c, b) <= Dist(h[n], d, b)
  BY <1>3
<1>5. /\ ProbeFrom(a, b, h[n], n) \in Stops(a, n)
      /\ \A d \in Stops(a, n) :
           Dist(h[n], ProbeFrom(a, b, h[n], n), b) <= Dist(h[n], d, b)
  BY <1>4 DEF ProbeFrom
<1> QED
  BY <1>1, <1>5 DEF Lands, Stops

(* In an array without broken chains a probe finds what is there.          *)
LEMMA ProbeFinds ==
  ASSUME NEW b \in Nat, NEW a \in [Cells(b) -> Slot], NEW n \in Names,
         NEW h \in [Names -> Cells(b)], NEW p \in Cells(b),
         Lands(a, h, b, n, p), Unique(a), Chained(a, h, b, b)
  PROVE  /\ \A c \in Occupied(a) : a[c].key = n => c = p
         /\ Holds(a, n) => a[p].key # None
         /\ a[p].key # None => Holds(a, n)
         /\ a[p].key # None => a[p].key = n
<1>1. ASSUME NEW c \in Occupied(a), a[c].key = n PROVE c = p
  <2>1. c \in Cells(b) /\ p \in Cells(b) /\ b \notin Cells(b) /\ h[n] \in Cells(b)
    BY OccupiedIs DEF Lands, Cells
  <2>2. Dist(h[n], p, b) <= Dist(h[n], c, b)
    BY <1>1, <2>1 DEF Lands
  <2>3. CASE Dist(h[n], p, b) < Dist(h[n], c, b)
    <3>1. a[p].key # None
      BY <1>1, <2>1, <2>3 DEF Chained
    <3>2. p \in Occupied(a) /\ a[p].key = n
      BY <2>1, <3>1, OccupiedIs DEF Lands
    <3> QED
      BY <1>1, <3>2 DEF Unique
  <2>4. CASE Dist(h[n], p, b) = Dist(h[n], c, b)
    BY <2>1, <2>4, DistInjective
  <2>5. Dist(h[n], p, b) \in Nat /\ Dist(h[n], c, b) \in Nat
    BY <2>1, DistNat
  <2> QED
    BY <2>2, <2>3, <2>4, <2>5
<1>2. a[p].key # None => a[p].key = n /\ p \in Occupied(a)
  BY OccupiedIs DEF Lands
<1>3. Holds(a, n) => a[p].key # None
  BY <1>1, OccupiedIs DEF Holds
<1> QED
  BY <1>1, <1>2, <1>3 DEF Holds

(* Filling the cell where the probe of a new name stopped breaks nothing.  *)
LEMMA FillKeeps ==
  ASSUME NEW b \in Nat, NEW a \in [Cells(b) -> Slot], NEW n \in Names,
         NEW h \in [Names -> Cells(b)], NEW p, Lands(a, h, b, n, p),
         Unique(a), Chained(a, h, b, b), ~ Holds(a, n),
         NEW s \in Slot, s.key = n,
         NEW a2 \in [Cells(b) -> Slot], Written(a, p, s, a2)
  PROVE  /\ Occupied(a2) = Occupied(a) \cup {p} /\ p \notin Occupied(a)
         /\ a2[p] = s /\ \A c \in Occupied(a) : a2[c] = a[c]
         /\ Unique(a2)
         /\ Chained(a2, h, b, b)
<1>1. p \in Cells(b) /\ a[p].key = None /\ n # None
  <2>1. p \in Cells(b)
    BY DEF Lands
  <2>2. a[p].key # None => Holds(a, n)
    BY ONLY <2>1, ProbeFinds, b \in Nat, a \in [Cells(b) -> Slot], n \in Names,
            h \in [Names -> Cells(b)], Lands(a, h, b, n, p), Unique(a),
            Chained(a, h, b, b)
  <2> QED
    BY <2>1, <2>2, ProbingAssumption
<1>2. a2 \in [Cells(b) -> Slot]
  OBVIOUS
<1>3. a2[p] = s /\ \A c \in Cells(b) : c # p => a2[c] = a[c]
  BY <1>1 DEF Written
<1>4. Occupied(a2) = Occupied(a) \cup {p} /\ p \notin Occupied(a)
  BY <1>1, <1>2, <1>3 DEF Occupied
<1>5. \A c \in Occupied(a) : a2[c] = a[c] /\ a[c].key # n /\ c \in Cells(b)
  BY <1>3, <1>4, OccupiedIs DEF Holds
<1>6. Unique(a2)
  BY <1>3, <1>4, <1>5 DEF Unique
<1>7. Chained(a2, h, b, b)
  <2> SUFFICES ASSUME NEW c \in Occupied(a2), NEW d \in Cells(b), d # p,
                      Dist(h[a2[c].key], d, b) < Dist(h[a2[c].key], c, b)
               PROVE  a[d].key # None
    BY <1>1, <1>3 DEF Chained
  <2>1. CASE c = p
    <3>1. Dist(h[n], p, b) \in Nat /\ Dist(h[n], d, b) \in Nat
      BY <1>1, DistNat
    <3>2. ~ (Dist(h[n], p, b) <= Dist(h[n], d, b))
      BY <1>3, <2>1, <3>1
    <3> QED
      BY <3>2 DEF Lands
  <2>2. CASE c \in Occupied(a)
    <3>1. d # b
      BY DEF Cells
    <3> QED
      BY <1>5, <2>2, <3>1 DEF Chained
  <2> QED
    BY <1>4, <2>1, <2>2
<1> QED
  BY <1>2, <1>3, <1>4, <1>5, <1>6, <1>7
-----------------------------------------------------------------------------
(* An empty array, and one that is not full.                               *)

LEMMA EmptyIs ==
  ASSUME NEW b \in Nat
  PROVE  /\ EmptyArray(b) \in [Cells(b) -> Slot]
         /\ Occupied(EmptyArray(b)) = {}
  BY DEF EmptyArray, Occupied, Empty, Slot

(* Below the load limit a probe of slots has an empty cell to stop at.     *)
LEMMA NotFull ==
  ASSUME NEW b \in Nat, NEW a \in [Cells(b) -> Slot],
         Cardinality(Occupied(a)) < b
  PROVE  Occupied(a) # DOMAIN a
<1>1. Cardinality(Cells(b)) = b /\ DOMAIN a = Cells(b)
  BY OccupiedIs
<1>2. Cardinality(Occupied(a)) \in Nat
  BY OccupiedIs
<1> QED
  BY <1>1, <1>2
-----------------------------------------------------------------------------
(* Rehashing: x, of b2 cells with the homes h2, holds the entries of the   *)
(* first p cells of a.                                                     *)

Below(a, p) == {c \in Occupied(a) : c < p}

Copied(a, p, x, b2, h2) ==
  /\ x \in [Cells(b2) -> Slot]
  /\ Unique(x)
  /\ Chained(x, h2, b2, b2)
  /\ Cardinality(Occupied(x)) = Cardinality(Below(a, p))
  /\ {x[c] : c \in Occupied(x)} = {a[c] : c \in Below(a, p)}

LEMMA CopiedNone ==
  ASSUME NEW b \in Nat, NEW a \in [Cells(b) -> Slot], NEW b2 \in Nat, NEW h2
  PROVE  Copied(a, 0, EmptyArray(b2), b2, h2)
<1>1. EmptyArray(b2) \in [Cells(b2) -> Slot] /\ Occupied(EmptyArray(b2)) = {}
  BY EmptyIs
<1>2. Below(a, 0) = {}
  BY DEF Below, Occupied, Cells
<1>3. Unique(EmptyArray(b2)) /\ Chained(EmptyArray(b2), h2, b2, b2)
  BY <1>1 DEF Unique, Chained
<1> QED
  BY <1>1, <1>2, <1>3 DEF Copied

LEMMA CopiedSkip ==
  ASSUME NEW b \in Nat, NEW a \in [Cells(b) -> Slot], NEW p \in Cells(b),
         NEW x, NEW b2, NEW h2, Copied(a, p, x, b2, h2), a[p].key = None
  PROVE  Copied(a, p + 1, x, b2, h2)
<1>1. Below(a, p + 1) = Below(a, p)
  BY DEF Below, Occupied, Cells
<1> QED
  BY <1>1 DEF Copied

LEMMA BelowFinite ==
  ASSUME NEW b \in Nat, NEW a \in [Cells(b) -> Slot], NEW p
  PROVE  /\ IsFiniteSet(Below(a, p)) /\ Cardinality(Below(a, p)) \in Nat
         /\ Cardinality(Below(a, p)) <= Cardinality(Occupied(a))
<1>1. IsFiniteSet(Occupied(a))
  BY OccupiedIs
<1>2. Below(a, p) \in SUBSET Occupied(a)
  BY DEF Below
<1> QED
  BY <1>1, <1>2, FS_Subset, FS_CardinalityType

(* While it is filled, the new array has a cell for probes to stop at.     *)
LEMMA CopiedRoom ==
  ASSUME NEW b \in Nat, NEW a \in [Cells(b) -> Slot], NEW p, NEW x,
         NEW b2 \in Nat, NEW h2, Copied(a, p, x, b2, h2),
         Cardinality(Occupied(a)) < b2
  PROVE  Occupied(x) # DOMAIN x
<1>1. /\ Cardinality(Occupied(x)) = Cardinality(Below(a, p))
      /\ x \in [Cells(b2) -> Slot]
  BY DEF Copied
<1>2. /\ Cardinality(Below(a, p)) \in Nat /\ Cardinality(Occupied(a)) \in Nat
      /\ Cardinality(Below(a, p)) <= Cardinality(Occupied(a))
  BY BelowFinite, OccupiedIs
<1>3. Cardinality(Occupied(x)) < b2
  BY <1>1, <1>2
<1> QED
  BY <1>1, <1>3, NotFull

(* One turn of the loop copies the entry at p to where its probe lands.    *)
LEMMA CopiedTurn ==
  ASSUME NEW b \in Nat, NEW a \in [Cells(b) -> Slot], Unique(a),
         NEW p \in Cells(b), a[p].key # None,
         NEW b2 \in Nat, NEW h2 \in [Names -> Cells(b2)], NEW x,
         Copied(a, p, x, b2, h2),
         NEW q, Lands(x, h2, b2, a[p].key, q),
         NEW y, Written(x, q, a[p], y)
  PROVE  Copied(a, p + 1, y, b2, h2)
<1> DEFINE n == a[p].key
<1>1. /\ x \in [Cells(b2) -> Slot] /\ Unique(x) /\ Chained(x, h2, b2, b2)
      /\ Cardinality(Occupied(x)) = Cardinality(Below(a, p))
      /\ {x[c] : c \in Occupied(x)} = {a[c] : c \in Below(a, p)}
  BY DEF Copied
<1>2. p \in Occupied(a) /\ n \in Names /\ a[p] \in Slot
  BY OccupiedIs
<1>3. ~ Holds(x, n)
  <2>1. ASSUME NEW c \in Occupied(x), x[c].key = n PROVE FALSE
    <3>1. PICK c2 \in Below(a, p) : x[c] = a[c2]
      BY <1>1
    <3>2. c2 \in Occupied(a) /\ c2 < p /\ c2 \in Nat /\ p \in Nat
      BY DEF Below, Occupied, Cells
    <3>3. c2 = p
      BY <1>2, <2>1, <3>1, <3>2 DEF Unique
    <3> QED
      BY <3>2, <3>3
  <2> QED
    BY <2>1 DEF Holds
<1>4. y \in [Cells(b2) -> Slot]
  BY <1>1, <1>2 DEF Written
<1>5. /\ Occupied(y) = Occupied(x) \cup {q} /\ q \notin Occupied(x)
      /\ y[q] = a[p] /\ \A c \in Occupied(x) : y[c] = x[c]
      /\ Unique(y) /\ Chained(y, h2, b2, b2)
  <2>1. a[p].key = n /\ Lands(x, h2, b2, n, q)
    OBVIOUS
  <2> HIDE DEF n
  <2> QED
    BY ONLY <1>1, <1>2, <1>3, <1>4, <2>1, FillKeeps, Written(x, q, a[p], y),
            b2 \in Nat, h2 \in [Names -> Cells(b2)]
<1>6. Below(a, p + 1) = Below(a, p) \cup {p} /\ p \notin Below(a, p)
  BY <1>2 DEF Below, Occupied, Cells
<1>7. IsFiniteSet(Below(a, p)) /\ IsFiniteSet(Occupied(x))
  BY <1>1, BelowFinite, OccupiedIs
<1>8. Cardinality(Occupied(y)) = Cardinality(Below(a, p + 1))
  <2>1. Cardinality(Occupied(y)) = Cardinality(Occupied(x)) + 1
    BY <1>5, <1>7, FS_AddElement
  <2>2. Cardinality(Below(a, p + 1)) = Cardinality(Below(a, p)) + 1
    BY <1>6, <1>7, FS_AddElement
  <2> QED
    BY <1>1, <2>1, <2>2
<1>9. {y[c] : c \in Occupied(y)} = {x[c] : c \in Occupied(x)} \cup {a[p]}
  BY <1>5
<1>10. {a[c] : c \in Below(a, p + 1)} = {a[c] : c \in Below(a, p)} \cup {a[p]}
  BY <1>6
<1> QED
  BY <1>1, <1>4, <1>5, <1>8, <1>9, <1>10 DEF Copied

(* At the end of the loop the new array has the entries of the old one.    *)
LEMMA CopiedAll ==
  ASSUME NEW b \in Nat, NEW a \in [Cells(b) -> Slot], NEW x, NEW b2, NEW h2,
         Copied(a, b, x, b2, h2)
  PROVE  /\ x \in [Cells(b2) -> Slot] /\ Unique(x) /\ Chained(x, h2, b2, b2)
         /\ Cardinality(Occupied(x)) = Cardinality(Occupied(a))
         /\ {x[c] : c \in Occupied(x)} = {a[c] : c \in Occupied(a)}
<1>1. Below(a, b) = Occupied(a)
  BY DEF Below, Occupied, Cells
<1> QED
  BY <1>1 DEF Copied
-----------------------------------------------------------------------------
(* What an array stores for each name.                                     *)

LEMMA StoredAt ==
  ASSUME NEW a, Unique(a), NEW n \in Names
  PROVE  /\ \A c \in Occupied(a) : a[c].key = n => Stored(a)[n] = a[c].value
         /\ ~ Holds(a, n) => Stored(a)[n] = None
<1>1. ASSUME NEW c \in Occupied(a), a[c].key = n
      PROVE  Stored(a)[n] = a[c].value
  <2> DEFINE e == CHOOSE x \in Occupied(a) : a[x].key = n
  <2>1. e \in Occupied(a) /\ a[e].key = n
    BY <1>1
  <2>2. e = c
    BY <1>1, <2>1 DEF Unique
  <2> QED
    BY <1>1, <2>2 DEF Stored
<1>2. ~ Holds(a, n) => Stored(a)[n] = None
  BY DEF Holds, Stored
<1> QED
  BY <1>1, <1>2

(* Two arrays whose entries for n agree store the same for n.              *)
LEMMA StoredSame ==
  ASSUME NEW a, NEW a2, Unique(a), Unique(a2), NEW n \in Names,
         \A c \in Occupied(a) : a[c].key = n =>
           \E d \in Occupied(a2) : a2[d] = a[c],
         \A d \in Occupied(a2) : a2[d].key = n =>
           \E c \in Occupied(a) : a[c] = a2[d]
  PROVE  Stored(a2)[n] = Stored(a)[n]
<1>1. CASE Holds(a, n)
  <2>1. PICK c \in Occupied(a) : a[c].key = n
    BY <1>1 DEF Holds
  <2>2. PICK d \in Occupied(a2) : a2[d] = a[c]
    BY <2>1
  <2>3. Stored(a)[n] = a[c].value
    BY <2>1, StoredAt
  <2>4. Stored(a2)[n] = a2[d].value
    BY <2>1, <2>2, StoredAt
  <2> QED
    BY <2>2, <2>3, <2>4
<1>2. CASE ~ Holds(a, n)
  <2>1. ~ Holds(a2, n)
    BY <1>2 DEF Holds
  <2> QED
    BY <1>2, <2>1, StoredAt
<1> QED
  BY <1>1, <1>2

(* A function that differs from another at one point.                      *)
LEMMA OneChanged ==
  ASSUME NEW S, NEW n \in S, NEW v, NEW f, NEW g,
         f = [m \in S |-> f[m]], g = [m \in S |-> g[m]],
         g[n] = v, \A m \in S : m # n => g[m] = f[m]
  PROVE  g = [f EXCEPT ![n] = v]
  OBVIOUS

LEMMA StoredEqual ==
  ASSUME NEW a, NEW a2,
         \A n \in Names : Stored(a2)[n] = Stored(a)[n]
  PROVE  Stored(a2) = Stored(a)
  BY DEF Stored

(* Writing an entry for n where nothing or n was.                          *)
LEMMA StoredPut ==
  ASSUME NEW b \in Nat, NEW a \in [Cells(b) -> Slot], NEW p \in Cells(b),
         NEW s \in Slot, NEW n \in Names, s.key = n, a[p].key \in {None, n},
         NEW a2 \in [Cells(b) -> Slot], Written(a, p, s, a2),
         Unique(a), Unique(a2)
  PROVE  Stored(a2) = [Stored(a) EXCEPT ![n] = s.value]
<1>1. a2[p] = s /\ \A c \in Cells(b) : c # p => a2[c] = a[c]
  BY DEF Written
<1>2. p \in Occupied(a2)
  BY <1>1, OccupiedIs, ProbingAssumption
<1>3. Stored(a2)[n] = s.value
  BY <1>1, <1>2, StoredAt
<1>4. ASSUME NEW m \in Names, m # n PROVE Stored(a2)[m] = Stored(a)[m]
  <2>1. ASSUME NEW c \in Occupied(a), a[c].key = m
        PROVE  \E d \in Occupied(a2) : a2[d] = a[c]
    BY <1>1, <1>4, <2>1, OccupiedIs, ProbingAssumption
  <2>2. ASSUME NEW d \in Occupied(a2), a2[d].key = m
        PROVE  \E c \in Occupied(a) : a[c] = a2[d]
    BY <1>1, <1>4, <2>2, OccupiedIs, ProbingAssumption
  <2> QED
    BY <2>1, <2>2, StoredSame
<1> QED
  <2> DEFINE f == Stored(a)
             g == Stored(a2)
             v == s.value
  <2>1. f = [m \in Names |-> f[m]] /\ g = [m \in Names |-> g[m]]
    BY DEF Stored
  <2>2. g[n] = v /\ \A m \in Names : m # n => g[m] = f[m]
    BY <1>3, <1>4
  <2> HIDE DEF f, g, v
  <2>3. g = [f EXCEPT ![n] = v]
    BY ONLY <2>1, <2>2, n \in Names
  <2> QED
    BY <2>3 DEF f, g, v
=============================================================================
