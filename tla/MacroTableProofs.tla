-------------------------- MODULE MacroTableProofs --------------------------
(***************************************************************************)
(* Proofs that the macro table never loses an entry to a probe, for any    *)
(* number of names, any hashes and any initial size.  The module goes from *)
(* the distances on the ring of cells, to what a probe of one array finds  *)
(* and what filling or emptying one cell preserves, to the steps of the    *)
(* table.                                                                  *)
(***************************************************************************)
EXTENDS MacroTable, ProbingProofs

-----------------------------------------------------------------------------
(* The probes of the macro table start at the home mix gives.              *)
LEMMA ProbeLands ==
  ASSUME NEW b \in Nat \ {0}, NEW a \in [Cells(b) -> Slot], NEW n \in Names,
         mix \in [Names -> Hashes], Occupied(a) # DOMAIN a,
         NEW h \in [Names -> Cells(b)], h[n] = Home(n, b)
  PROVE  Lands(a, h, b, n, Probe(a, b, n))
  BY ProbeFromLands DEF Probe
-----------------------------------------------------------------------------
(* Emptying a cell, and pulling an entry back over it.                     *)

(* The entry at p is taken out: only p can now break a chain.              *)
LEMMA EmptyKeeps ==
  ASSUME NEW b \in Nat, NEW a \in [Cells(b) -> Slot],
         NEW h \in [Names -> Cells(b)], NEW p \in Cells(b), a[p].key # None,
         Unique(a), Chained(a, h, b, b),
         NEW a2 \in [Cells(b) -> Slot], Written(a, p, Empty, a2)
  PROVE  /\ a2[p].key = None
         /\ Occupied(a2) = Occupied(a) \ {p} /\ p \in Occupied(a)
         /\ Unique(a2)
         /\ Chained(a2, h, b, p)
<1>1. Empty \in Slot /\ Empty.key = None
  BY DEF Slot, Empty
<1>2. a2 \in [Cells(b) -> Slot] /\ a2[p] = Empty
  BY <1>1 DEF Written
<1>3. \A c \in Cells(b) : c # p => a2[c] = a[c]
  BY DEF Written
<1>4. Occupied(a2) = Occupied(a) \ {p} /\ p \in Occupied(a)
  BY <1>1, <1>2, <1>3 DEF Occupied
<1>5. Occupied(a) \subseteq Cells(b)
  BY DEF Occupied
<1>6. \A c \in Occupied(a2) : a2[c] = a[c] /\ c \in Occupied(a)
  BY <1>3, <1>4, <1>5
<1>7. Unique(a2)
  BY <1>6 DEF Unique
<1>8. Chained(a2, h, b, p)
  <2> SUFFICES ASSUME NEW c \in Occupied(a2), NEW d \in Cells(b), d # p,
                      Dist(h[a2[c].key], d, b) < Dist(h[a2[c].key], c, b)
               PROVE  a2[d].key # None
    BY DEF Chained
  <2>1. d # b
    BY DEF Cells
  <2> QED
    BY <1>3, <1>6, <2>1 DEF Chained
<1> QED
  BY <1>1, <1>2, <1>4, <1>7, <1>8

(* a2 is a with the entry of cell j in cell i.                             *)
Moved(a, i, j, a2) == a2 = [a EXCEPT ![i] = a[j], ![j] = Empty]

(* The entry at j goes to the hole i that lies between its home and j.     *)
LEMMA MoveKeeps ==
  ASSUME NEW b \in Nat, NEW a \in [Cells(b) -> Slot],
         NEW h \in [Names -> Cells(b)],
         NEW i \in Cells(b), NEW j \in Cells(b), i # j,
         a[i].key = None, a[j].key # None,
         Dist(h[a[j].key], i, b) < Dist(h[a[j].key], j, b),
         Unique(a), Chained(a, h, b, i),
         NEW a2 \in [Cells(b) -> Slot], Moved(a, i, j, a2)
  PROVE  /\ a2[j].key = None
         /\ Occupied(a2) = (Occupied(a) \cup {i}) \ {j}
         /\ i \notin Occupied(a) /\ j \in Occupied(a)
         /\ Unique(a2)
         /\ Chained(a2, h, b, j)
<1>1. Empty \in Slot /\ Empty.key = None
  BY DEF Slot, Empty
<1>2. a2 \in [Cells(b) -> Slot] /\ a2[j] = Empty /\ a2[i] = a[j]
  BY <1>1 DEF Moved
<1>3. \A c \in Cells(b) : c # i /\ c # j => a2[c] = a[c]
  BY DEF Moved
<1>4. /\ Occupied(a2) = (Occupied(a) \cup {i}) \ {j}
      /\ i \notin Occupied(a) /\ j \in Occupied(a)
  BY <1>1, <1>2, <1>3 DEF Occupied
<1>5. Occupied(a) \subseteq Cells(b)
  BY DEF Occupied
<1>6. \A c \in Occupied(a2) : c # i =>
         a2[c] = a[c] /\ c \in Occupied(a) /\ c \in Cells(b) /\ c # j
  BY <1>3, <1>4, <1>5
<1>7. Unique(a2)
  BY <1>2, <1>4, <1>6 DEF Unique
<1>8. Chained(a2, h, b, j)
  <2> SUFFICES ASSUME NEW c \in Occupied(a2), NEW d \in Cells(b), d # j,
                      Dist(h[a2[c].key], d, b) < Dist(h[a2[c].key], c, b)
               PROVE  a2[d].key # None
    BY DEF Chained
  <2>1. CASE d = i
    BY <1>2, <2>1
  <2>2. CASE d # i /\ c # i
    BY <1>3, <1>6, <2>2 DEF Chained
  <2>3. CASE d # i /\ c = i
    <3>1. h[a[j].key] \in Cells(b)
      BY <1>4, SlotKeys
    <3>2. /\ Dist(h[a[j].key], d, b) \in Nat /\ Dist(h[a[j].key], i, b) \in Nat
          /\ Dist(h[a[j].key], j, b) \in Nat
      BY <3>1, DistNat
    <3>3. Dist(h[a[j].key], d, b) < Dist(h[a[j].key], j, b)
      BY <1>2, <2>3, <3>2
    <3> QED
      BY <1>3, <1>4, <2>3, <3>3 DEF Chained
  <2> QED
    BY <2>1, <2>2, <2>3
<1> QED
  BY <1>1, <1>2, <1>4, <1>7, <1>8

(* What the scan from the hole i to p leaves behind: entries whose chains  *)
(* do not go through the hole.                                             *)
Settled(a, h, b, i, p) ==
  \A c \in Cells(b) : Dist(i, c, b) \in 1 .. Dist(i, p, b) =>
    a[c].key # None /\ Dist(h[a[c].key], c, b) < Dist(i, c, b)

(* When the scan from the hole meets an empty cell no chain is broken.     *)
LEMMA SettledUnbroken ==
  ASSUME NEW b \in Nat, NEW a \in [Cells(b) -> Slot],
         NEW h \in [Names -> Cells(b)], NEW i \in Cells(b),
         NEW p \in Cells(b), a[Next1(p, b)].key = None,
         Chained(a, h, b, i), Settled(a, h, b, i, p)
  PROVE  Chained(a, h, b, b)
<1> DEFINE j == Next1(p, b)
<1>1. j \in Cells(b)
  BY DistNext
<1> SUFFICES ASSUME NEW c \in Occupied(a), a[i].key = None,
                    Dist(h[a[c].key], i, b) < Dist(h[a[c].key], c, b)
             PROVE  FALSE
  BY DEF Chained
<1> DEFINE k == h[a[c].key]
<1>2. c \in Cells(b) /\ k \in Cells(b) /\ a[c].key # None
  BY OccupiedIs
<1>3. /\ Dist(k, i, b) \in Nat /\ Dist(k, c, b) \in Nat /\ Dist(i, c, b) \in Nat
      /\ Dist(i, p, b) \in Nat /\ Dist(i, j, b) \in Nat /\ Dist(k, j, b) \in Nat
  BY <1>1, <1>2, DistNat
<1>4. Dist(k, c, b) = Dist(k, i, b) + Dist(i, c, b)
  BY <1>2, <1>3, DistVia
<1>5. Dist(i, c, b) \notin 1 .. Dist(i, p, b)
  BY <1>2, <1>3, <1>4 DEF Settled
<1>6. Dist(i, c, b) # 0
  BY <1>3, <1>4
<1>7. Dist(i, c, b) > Dist(i, p, b)
  BY <1>3, <1>5, <1>6
<1>8. CASE j = i
  <2>1. Dist(i, p, b) = b - 1
    BY <1>8, DistNext
  <2>2. Dist(i, c, b) < b
    BY <1>2 DEF Cells, Dist, Ring
  <2> QED
    BY <1>3, <1>7, <2>1, <2>2
<1>9. CASE j # i
  <2>1. Dist(i, j, b) = Dist(i, p, b) + 1
    BY <1>9, DistNext
  <2>2. Dist(i, j, b) <= Dist(i, c, b)
    BY <1>3, <1>7, <2>1
  <2>3. c # j
    BY <1>2
  <2>4. Dist(i, j, b) # Dist(i, c, b)
    BY <1>1, <1>2, <2>3, DistInjective
  <2>5. Dist(k, j, b) < Dist(k, c, b)
    <3>1. Dist(i, j, b) < Dist(i, c, b)
      BY <1>3, <2>2, <2>4
    <3>2. Dist(k, i, b) < Dist(k, c, b)
      OBVIOUS
    <3> HIDE DEF j, k
    <3> QED
      BY <1>1, <1>2, <3>1, <3>2, DistThrough
  <2> QED
    BY <1>1, <1>9, <2>5 DEF Chained
<1> QED
  BY <1>8, <1>9
-----------------------------------------------------------------------------
(* The inductive invariant.  TypeOK, Findable, ShiftConfined and           *)
(* ProbeStops say nothing of the array a growth fills; Growing adds that   *)
(* it holds what the old array holds below pos, in chains of its own.      *)

Homes(m, b) == [n \in Names |-> m[n] % b]

Gap == IF pc = "shift" THEN hole ELSE bucket_count

Types ==
  /\ mix \in [Names -> Hashes]
  /\ bucket_count \in Nat /\ bucket_count >= InitialBuckets
  /\ slots \in [Cells(bucket_count) -> Slot]
  /\ count \in Nat
  /\ pc \in {"idle", "grow", "shift"}
  /\ call \in Slot

Counted ==
  /\ count = Cardinality(Occupied(slots)) + (IF pc = "shift" THEN 1 ELSE 0)
  /\ count * 4 < bucket_count * 3

Sound ==
  /\ Unique(slots)
  /\ Chained(slots, Homes(mix, bucket_count), bucket_count, Gap)

Shifting ==
  pc = "shift" =>
    /\ pos \in Cells(bucket_count) /\ hole \in Cells(bucket_count)
    /\ slots[hole].key = None
    /\ Settled(slots, Homes(mix, bucket_count), bucket_count, hole, pos)

Growing ==
  pc = "grow" =>
    /\ call.key \in Names /\ ~ Holds(slots, call.key)
    /\ pos \in 0 .. bucket_count
    /\ new_slots \in [Cells(2 * bucket_count) -> Slot]
    /\ Unique(new_slots)
    /\ Chained(new_slots, Homes(mix, 2 * bucket_count), 2 * bucket_count,
               2 * bucket_count)
    /\ Cardinality(Occupied(new_slots)) = Cardinality(Below(slots, pos))
    /\ {new_slots[c] : c \in Occupied(new_slots)} =
         {slots[c] : c \in Below(slots, pos)}

IInv == Types /\ Counted /\ Sound /\ Shifting /\ Growing

LEMMA HomesType ==
  ASSUME NEW b \in Nat \ {0}, NEW m \in [Names -> Hashes]
  PROVE  Homes(m, b) \in [Names -> Cells(b)]
<1>1. ASSUME NEW n \in Names PROVE m[n] % b \in Cells(b)
  <2>1. m[n] \in Nat
    BY TableAssumption, ProbingAssumption
  <2> QED
    BY <2>1 DEF Cells
<1> QED
  BY <1>1 DEF Homes

(* What the invariant says of the cell where a call's probe stops.         *)
LEMMA CellLands ==
  ASSUME Types, Counted, NEW n \in Names
  PROVE  /\ Occupied(slots) # DOMAIN slots
         /\ bucket_count \in Nat \ {0}
         /\ Homes(mix, bucket_count) \in [Names -> Cells(bucket_count)]
         /\ Lands(slots, Homes(mix, bucket_count), bucket_count, n, Cell(n))
         /\ Cell(n) \in Cells(bucket_count)
<1>1. bucket_count \in Nat \ {0}
  BY TableAssumption, ProbingAssumption DEF Types
<1>2. Cardinality(Occupied(slots)) \in Nat
  BY OccupiedIs DEF Types
<1>3. Cardinality(Occupied(slots)) < bucket_count
  BY <1>1, <1>2 DEF Types, Counted
<1>4. Occupied(slots) # DOMAIN slots
  BY <1>1, <1>3, NotFull DEF Types
<1>5. mix \in [Names -> Hashes] /\ slots \in [Cells(bucket_count) -> Slot]
  BY DEF Types
<1>6. Homes(mix, bucket_count) \in [Names -> Cells(bucket_count)]
  BY <1>1, <1>5, HomesType
<1>7. Homes(mix, bucket_count)[n] = Home(n, bucket_count)
  BY DEF Homes, Home
<1>8. Lands(slots, Homes(mix, bucket_count), bucket_count, n, Cell(n))
  BY ONLY <1>1, <1>4, <1>5, <1>6, <1>7, ProbeLands, n \in Names DEF Cell
<1> QED
  BY <1>1, <1>4, <1>6, <1>8 DEF Lands

LEMMA Initially == Init => IInv
<1> SUFFICES ASSUME Init PROVE IInv
  OBVIOUS
<1>1. InitialBuckets \in Nat /\ InitialBuckets >= 2
  BY TableAssumption, ProbingAssumption
<1>2. slots \in [Cells(bucket_count) -> Slot] /\ Occupied(slots) = {}
  BY <1>1, EmptyIs DEF Init
<1>3. Types
  BY <1>1, <1>2 DEF Init, Types, Slot
<1>4. Counted
  BY <1>1, <1>2, FS_EmptySet DEF Init, Counted
<1>5. Sound
  BY <1>2 DEF Sound, Unique, Chained
<1>6. Shifting /\ Growing
  BY DEF Init, Shifting, Growing
<1> QED
  BY <1>3, <1>4, <1>5, <1>6 DEF IInv
-----------------------------------------------------------------------------
(* The steps.                                                              *)

(* A call that only answers.                                               *)
LEMMA AnswerKeeps ==
  ASSUME IInv,
         UNCHANGED <<mix, bucket_count, slots, count, pc, call, new_slots, pos, hole>>
  PROVE  IInv'
  BY DEF IInv, Types, Counted, Sound, Shifting, Growing, Gap

(* Between calls the chains of slots have no gap.                          *)
LEMMA IdleSound ==
  ASSUME IInv, pc # "shift"
  PROVE  /\ Unique(slots)
         /\ Chained(slots, Homes(mix, bucket_count), bucket_count, bucket_count)
         /\ slots \in [Cells(bucket_count) -> Slot]
         /\ count = Cardinality(Occupied(slots))
<1>1. Unique(slots) /\ slots \in [Cells(bucket_count) -> Slot]
  BY DEF IInv, Sound, Types
<1>2. Chained(slots, Homes(mix, bucket_count), bucket_count, bucket_count)
  BY DEF IInv, Sound, Gap
<1>3. count = Cardinality(Occupied(slots)) + 0
  BY DEF IInv, Counted
<1>4. Cardinality(Occupied(slots)) \in Nat
  BY <1>1, OccupiedIs DEF IInv, Types
<1> QED
  BY <1>1, <1>2, <1>3, <1>4

(* Found says whether the name is stored.                                  *)
LEMMA FoundIs ==
  ASSUME IInv, pc # "shift", NEW n \in Names
  PROVE  /\ Found(n) => Holds(slots, n) /\ slots[Cell(n)].key = n
         /\ ~ Found(n) => ~ Holds(slots, n)
         /\ \A c \in Occupied(slots) : slots[c].key = n => c = Cell(n)
<1>1. Types /\ Counted
  BY DEF IInv
<1>2. /\ bucket_count \in Nat /\ Cell(n) \in Cells(bucket_count)
      /\ Homes(mix, bucket_count) \in [Names -> Cells(bucket_count)]
      /\ Lands(slots, Homes(mix, bucket_count), bucket_count, n, Cell(n))
  BY <1>1, CellLands
<1>3. /\ Unique(slots) /\ slots \in [Cells(bucket_count) -> Slot]
      /\ Chained(slots, Homes(mix, bucket_count), bucket_count, bucket_count)
  BY IdleSound
<1>4. /\ \A c \in Occupied(slots) : slots[c].key = n => c = Cell(n)
      /\ Holds(slots, n) => slots[Cell(n)].key # None
      /\ slots[Cell(n)].key # None => Holds(slots, n)
      /\ slots[Cell(n)].key # None => slots[Cell(n)].key = n
  BY ONLY <1>2, <1>3, ProbeFinds, n \in Names
<1> QED
  BY <1>4 DEF Found

LEMMA RedefineKeeps ==
  ASSUME IInv, NEW n \in Names, NEW d \in Values, Redefine(n, d)
  PROVE  IInv'
<1>1. /\ Types /\ Counted /\ Sound /\ pc = "idle"
      /\ slots' = [slots EXCEPT ![Cell(n)].value = d]
      /\ UNCHANGED <<mix, bucket_count, count, pc, call>>
  BY DEF IInv, Redefine
<1>2. slots[Cell(n)].key = n /\ Cell(n) \in Cells(bucket_count)
  BY <1>1, FoundIs, CellLands DEF Redefine
<1>3. bucket_count \in Nat /\ slots \in [Cells(bucket_count) -> Slot]
  BY <1>1 DEF Types
<1>4. slots[Cell(n)] \in [key : Names, value : Values]
  BY <1>2, <1>3, SlotKeys, TableAssumption, ProbingAssumption
<1>5. [slots[Cell(n)] EXCEPT !.value = d] \in Slot
  BY <1>4 DEF Slot
<1>6. slots' \in [Cells(bucket_count) -> Slot]
  BY <1>1, <1>2, <1>3, <1>5
<1>7. \A c \in Cells(bucket_count) : slots'[c].key = slots[c].key
  BY <1>1, <1>2, <1>3, <1>4
<1>8. Occupied(slots') = Occupied(slots) /\ Occupied(slots) \subseteq Cells(bucket_count)
  BY <1>3, <1>6, <1>7 DEF Occupied
<1>9. Types'
  BY <1>1, <1>6 DEF Types
<1>10. Counted'
  BY <1>1, <1>8 DEF Counted
<1>11. Unique(slots')
  BY <1>1, <1>7, <1>8 DEF Sound, Unique
<1>12. Chained(slots', Homes(mix, bucket_count), bucket_count, bucket_count)
  BY <1>1, <1>7, <1>8 DEF Sound, Gap, Chained
<1>13. Sound'
  BY <1>1, <1>11, <1>12 DEF Sound, Gap
<1>14. Shifting' /\ Growing'
  BY <1>1 DEF Shifting, Growing
<1> QED
  BY <1>9, <1>10, <1>13, <1>14 DEF IInv

LEMMA InsertKeeps ==
  ASSUME IInv, NEW n \in Names, NEW d \in Values, Insert(n, d)
  PROVE  IInv'
<1> DEFINE s == [key |-> n, value |-> d]
<1>1. /\ Types /\ Counted /\ pc = "idle" /\ ~ MustGrow
      /\ slots' = [slots EXCEPT ![Cell(n)] = s] /\ count' = count + 1
      /\ UNCHANGED <<mix, bucket_count, pc, call>>
  BY DEF IInv, Insert
<1>2. ~ Holds(slots, n)
  BY <1>1, FoundIs DEF Insert
<1>3. /\ bucket_count \in Nat /\ Cell(n) \in Cells(bucket_count)
      /\ Homes(mix, bucket_count) \in [Names -> Cells(bucket_count)]
      /\ Lands(slots, Homes(mix, bucket_count), bucket_count, n, Cell(n))
  BY <1>1, CellLands
<1>4. /\ Unique(slots) /\ slots \in [Cells(bucket_count) -> Slot]
      /\ Chained(slots, Homes(mix, bucket_count), bucket_count, bucket_count)
      /\ count = Cardinality(Occupied(slots))
  BY <1>1, IdleSound
<1>5. s \in Slot /\ s.key = n
  BY DEF Slot
<1>6. /\ slots' \in [Cells(bucket_count) -> Slot]
      /\ Occupied(slots') = Occupied(slots) \cup {Cell(n)}
      /\ Cell(n) \notin Occupied(slots)
      /\ Unique(slots')
      /\ Chained(slots', Homes(mix, bucket_count), bucket_count, bucket_count)
  <2>2. slots' \in [Cells(bucket_count) -> Slot]
    BY <1>1, <1>4, <1>5
  <2>1. Written(slots, Cell(n), s, slots')
    BY <1>1 DEF Written
  <2> HIDE DEF s
  <2> QED
    BY ONLY <2>1, <2>2, <1>2, <1>3, <1>4, <1>5, FillKeeps, n \in Names
<1>7. IsFiniteSet(Occupied(slots)) /\ Cardinality(Occupied(slots)) \in Nat
  BY <1>3, <1>4, OccupiedIs
<1>8. count' = Cardinality(Occupied(slots'))
  BY <1>1, <1>4, <1>6, <1>7, FS_AddElement
<1>9. Types'
  BY <1>1, <1>6 DEF Types
<1>10. Counted'
  BY <1>1, <1>3, <1>4, <1>7, <1>8 DEF Counted, MustGrow
<1>11. Sound'
  BY <1>1, <1>6 DEF Sound, Gap
<1>12. Shifting' /\ Growing'
  BY <1>1 DEF Shifting, Growing
<1> QED
  BY <1>9, <1>10, <1>11, <1>12 DEF IInv

LEMMA GrowStartKeeps ==
  ASSUME IInv, NEW n \in Names, NEW d \in Values, GrowStart(n, d)
  PROVE  IInv'
<1>1. /\ Types /\ Counted /\ Sound /\ pc = "idle" /\ pc' = "grow"
      /\ call' = [key |-> n, value |-> d] /\ pos' = 0
      /\ new_slots' = EmptyArray(2 * bucket_count)
      /\ UNCHANGED <<mix, bucket_count, slots, count, hole>>
  BY DEF IInv, GrowStart
<1>2. ~ Holds(slots, n)
  BY <1>1, FoundIs DEF GrowStart
<1>3. bucket_count \in Nat /\ slots \in [Cells(bucket_count) -> Slot]
  BY <1>1 DEF Types
<1>4. /\ new_slots' \in [Cells(2 * bucket_count) -> Slot]
      /\ Occupied(new_slots') = {}
  BY <1>1, <1>3, EmptyIs
<1>5. Below(slots, 0) = {}
  BY <1>3 DEF Below, Occupied, Cells
<1>6. Types'
  BY <1>1 DEF Types, Slot
<1>7. Counted' /\ Sound' /\ Shifting'
  BY <1>1 DEF Counted, Sound, Gap, Shifting
<1>8. /\ Unique(new_slots')
      /\ \A h, b : Chained(new_slots', h, b, b)
  BY <1>4 DEF Unique, Chained
<1>9. Growing'
  BY <1>1, <1>2, <1>3, <1>4, <1>5, <1>8 DEF Growing
<1> QED
  BY <1>6, <1>7, <1>9 DEF IInv
(* The array that a growth fills has a cell for every probe to stop at.    *)
LEMMA NewLands ==
  ASSUME IInv, pc = "grow", NEW n \in Names
  PROVE  /\ 2 * bucket_count \in Nat
         /\ Occupied(new_slots) # DOMAIN new_slots
         /\ Homes(mix, 2 * bucket_count) \in [Names -> Cells(2 * bucket_count)]
         /\ Lands(new_slots, Homes(mix, 2 * bucket_count), 2 * bucket_count, n,
                  Probe(new_slots, 2 * bucket_count, n))
         /\ Probe(new_slots, 2 * bucket_count, n) \in Cells(2 * bucket_count)
<1>1. /\ bucket_count \in Nat \ {0} /\ 2 * bucket_count \in Nat \ {0}
      /\ mix \in [Names -> Hashes] /\ slots \in [Cells(bucket_count) -> Slot]
      /\ new_slots \in [Cells(2 * bucket_count) -> Slot]
      /\ Cardinality(Occupied(new_slots)) = Cardinality(Below(slots, pos))
      /\ count * 4 < bucket_count * 3 /\ count = Cardinality(Occupied(slots))
  BY IdleSound, TableAssumption, ProbingAssumption DEF IInv, Types, Growing, Counted
<1>2. IsFiniteSet(Occupied(slots)) /\ Cardinality(Occupied(slots)) \in Nat
  BY <1>1, OccupiedIs
<1>3. Below(slots, pos) \in SUBSET Occupied(slots)
  BY DEF Below
<1>4. /\ Cardinality(Below(slots, pos)) <= Cardinality(Occupied(slots))
      /\ Cardinality(Below(slots, pos)) \in Nat
  BY <1>2, <1>3, FS_Subset, FS_CardinalityType
<1>5. Cardinality(Occupied(new_slots)) < 2 * bucket_count
  BY <1>1, <1>2, <1>4
<1>6. Occupied(new_slots) # DOMAIN new_slots
  BY <1>1, <1>5, NotFull
<1>7. Homes(mix, 2 * bucket_count) \in [Names -> Cells(2 * bucket_count)]
  BY <1>1, HomesType
<1>8. Homes(mix, 2 * bucket_count)[n] = Home(n, 2 * bucket_count)
  BY DEF Homes, Home
<1>9. Lands(new_slots, Homes(mix, 2 * bucket_count), 2 * bucket_count, n,
            Probe(new_slots, 2 * bucket_count, n))
  BY ONLY <1>1, <1>6, <1>7, <1>8, ProbeLands, n \in Names
<1> QED
  BY <1>1, <1>6, <1>7, <1>9 DEF Lands

(* A turn of the rehashing loop that copies the entry at pos.              *)
LEMMA CopyKeeps ==
  ASSUME IInv, pc = "grow", pos < bucket_count, slots[pos].key # None,
         NEW a2, Written(new_slots,
                         Probe(new_slots, 2 * bucket_count, slots[pos].key),
                         slots[pos], a2)
  PROVE  /\ a2 \in [Cells(2 * bucket_count) -> Slot]
         /\ Unique(a2)
         /\ Chained(a2, Homes(mix, 2 * bucket_count), 2 * bucket_count,
                    2 * bucket_count)
         /\ Cardinality(Occupied(a2)) = Cardinality(Below(slots, pos + 1))
         /\ {a2[c] : c \in Occupied(a2)} = {slots[c] : c \in Below(slots, pos + 1)}
<1> DEFINE b == 2 * bucket_count
           h == Homes(mix, b)
           n == slots[pos].key
           p == Probe(new_slots, b, n)
<1>1. /\ bucket_count \in Nat /\ slots \in [Cells(bucket_count) -> Slot]
      /\ new_slots \in [Cells(b) -> Slot] /\ pos \in 0 .. bucket_count
      /\ Unique(slots) /\ Unique(new_slots) /\ Chained(new_slots, h, b, b)
      /\ Cardinality(Occupied(new_slots)) = Cardinality(Below(slots, pos))
      /\ {new_slots[c] : c \in Occupied(new_slots)} =
           {slots[c] : c \in Below(slots, pos)}
  BY DEF IInv, Types, Sound, Growing
<1>2. pos \in Cells(bucket_count) /\ pos \in Occupied(slots)
  BY <1>1 DEF Cells, Occupied
<1>3. n \in Names /\ slots[pos] \in Slot /\ slots[pos].key = n
  BY <1>1, <1>2, SlotKeys
<1>4. /\ b \in Nat /\ h \in [Names -> Cells(b)]
      /\ Lands(new_slots, h, b, n, p) /\ p \in Cells(b)
  BY <1>3, NewLands
<1>5. ~ Holds(new_slots, n)
  <2>1. ASSUME NEW c \in Occupied(new_slots), new_slots[c].key = n PROVE FALSE
    <3>1. PICK c2 \in Below(slots, pos) : new_slots[c] = slots[c2]
      BY <1>1
    <3>2. c2 \in Occupied(slots) /\ c2 < pos /\ c2 \in Nat
      BY <1>1 DEF Below, Occupied, Cells
    <3>3. c2 = pos
      BY <1>1, <1>2, <2>1, <3>1, <3>2 DEF Unique
    <3> QED
      BY <1>1, <3>2, <3>3
  <2> QED
    BY <2>1 DEF Holds
<1>6. a2 \in [Cells(b) -> Slot]
  BY <1>1, <1>3 DEF Written
<1>7. /\ Occupied(a2) = Occupied(new_slots) \cup {p} /\ p \notin Occupied(new_slots)
      /\ a2[p] = slots[pos] /\ \A c \in Occupied(new_slots) : a2[c] = new_slots[c]
      /\ Unique(a2) /\ Chained(a2, h, b, b)
  <2>1. Written(new_slots, p, slots[pos], a2)
    OBVIOUS
  <2> HIDE DEF b, h, n, p
  <2> QED
    BY ONLY <1>1, <1>3, <1>4, <1>5, <1>6, <2>1, FillKeeps
<1>8. Below(slots, pos + 1) = Below(slots, pos) \cup {pos} /\ pos \notin Below(slots, pos)
  BY <1>1, <1>2 DEF Below, Occupied, Cells
<1>9. IsFiniteSet(Below(slots, pos)) /\ IsFiniteSet(Occupied(new_slots))
  <2>1. IsFiniteSet(Occupied(slots)) /\ IsFiniteSet(Occupied(new_slots))
    BY <1>1, <1>4, OccupiedIs
  <2>2. Below(slots, pos) \in SUBSET Occupied(slots)
    BY DEF Below
  <2> QED
    BY <2>1, <2>2, FS_Subset
<1>10. Cardinality(Occupied(a2)) = Cardinality(Below(slots, pos + 1))
  <2>1. Cardinality(Occupied(a2)) = Cardinality(Occupied(new_slots)) + 1
    BY <1>7, <1>9, FS_AddElement
  <2>2. Cardinality(Below(slots, pos + 1)) = Cardinality(Below(slots, pos)) + 1
    BY <1>8, <1>9, FS_AddElement
  <2> QED
    BY <1>1, <2>1, <2>2
<1>11. {a2[c] : c \in Occupied(a2)} =
         {new_slots[c] : c \in Occupied(new_slots)} \cup {slots[pos]}
  BY <1>7
<1>12. {slots[c] : c \in Below(slots, pos + 1)} =
         {slots[c] : c \in Below(slots, pos)} \cup {slots[pos]}
  BY <1>8
<1> QED
  BY <1>1, <1>6, <1>7, <1>10, <1>11, <1>12

LEMMA RehashKeeps ==
  ASSUME IInv, Rehash
  PROVE  IInv'
<1>1. /\ Types /\ Counted /\ Sound /\ pc = "grow" /\ pos < bucket_count
      /\ pos' = pos + 1
      /\ UNCHANGED <<mix, bucket_count, slots, count, pc, call, hole>>
  BY DEF IInv, Rehash
<1>2. /\ call.key \in Names /\ ~ Holds(slots, call.key)
      /\ pos \in 0 .. bucket_count /\ bucket_count \in Nat
      /\ slots \in [Cells(bucket_count) -> Slot]
  BY <1>1 DEF IInv, Growing, Types
<1>3. pos' \in 0 .. bucket_count
  BY <1>1, <1>2
<1>4. /\ new_slots' \in [Cells(2 * bucket_count) -> Slot]
      /\ Unique(new_slots')
      /\ Chained(new_slots', Homes(mix, 2 * bucket_count), 2 * bucket_count,
                 2 * bucket_count)
      /\ Cardinality(Occupied(new_slots')) = Cardinality(Below(slots, pos + 1))
      /\ {new_slots'[c] : c \in Occupied(new_slots')} =
           {slots[c] : c \in Below(slots, pos + 1)}
  <2>1. CASE slots[pos].key # None
    <3>1. Written(new_slots, Probe(new_slots, 2 * bucket_count, slots[pos].key),
                  slots[pos], new_slots')
      BY <2>1 DEF Rehash, Written
    <3> QED
      BY <1>1, <2>1, <3>1, CopyKeeps
  <2>2. CASE slots[pos].key = None
    <3>1. new_slots' = new_slots
      BY <2>2 DEF Rehash
    <3>2. Below(slots, pos + 1) = Below(slots, pos)
      BY <1>2, <2>2 DEF Below, Occupied, Cells
    <3> QED
      BY <1>1, <3>1, <3>2 DEF IInv, Growing
  <2> QED
    BY <2>1, <2>2
<1>5. Types' /\ Counted' /\ Sound' /\ Shifting'
  BY <1>1 DEF Types, Counted, Sound, Gap, Shifting
<1>6. Growing'
  BY <1>1, <1>2, <1>3, <1>4 DEF Growing
<1> QED
  BY <1>5, <1>6 DEF IInv
LEMMA GrowFinishKeeps ==
  ASSUME IInv, GrowFinish
  PROVE  IInv'
<1> DEFINE b == 2 * bucket_count
           h == Homes(mix, b)
           n == call.key
           p == Probe(new_slots, b, n)
<1>1. /\ pc = "grow" /\ pos = bucket_count /\ pc' = "idle" /\ mix' = mix
      /\ bucket_count' = b /\ slots' = [new_slots EXCEPT ![p] = call]
      /\ count' = count + 1 /\ call' = Empty
  BY DEF GrowFinish
<1>2. /\ bucket_count \in Nat /\ bucket_count >= InitialBuckets
      /\ mix \in [Names -> Hashes] /\ call \in Slot /\ n \in Names
      /\ slots \in [Cells(bucket_count) -> Slot]
      /\ new_slots \in [Cells(b) -> Slot]
      /\ Unique(new_slots) /\ Chained(new_slots, h, b, b)
      /\ Cardinality(Occupied(new_slots)) = Cardinality(Below(slots, bucket_count))
      /\ {new_slots[c] : c \in Occupied(new_slots)} =
           {slots[c] : c \in Below(slots, bucket_count)}
      /\ ~ Holds(slots, n)
  BY <1>1 DEF IInv, Types, Growing
<1>3. Below(slots, bucket_count) = Occupied(slots)
  BY <1>2 DEF Below, Occupied, Cells
<1>4. /\ b \in Nat /\ h \in [Names -> Cells(b)]
      /\ Lands(new_slots, h, b, n, p) /\ p \in Cells(b)
  BY <1>1, <1>2, NewLands
<1>5. ~ Holds(new_slots, n)
  BY <1>2, <1>3 DEF Holds
<1>6. slots' \in [Cells(b) -> Slot]
  BY <1>1, <1>2
<1>7. /\ Occupied(slots') = Occupied(new_slots) \cup {p} /\ p \notin Occupied(new_slots)
      /\ Unique(slots') /\ Chained(slots', h, b, b)
  <2>1. Written(new_slots, p, call, slots') /\ call.key = n
    BY <1>1 DEF Written
  <2> HIDE DEF b, h, n, p
  <2> QED
    BY ONLY <1>2, <1>4, <1>5, <1>6, <2>1, FillKeeps
<1>8. IsFiniteSet(Occupied(new_slots)) /\ Cardinality(Occupied(new_slots)) \in Nat
  BY <1>2, <1>4, OccupiedIs
<1>9. Cardinality(Occupied(slots')) = Cardinality(Occupied(new_slots)) + 1
  BY <1>7, <1>8, FS_AddElement
<1>10. count = Cardinality(Occupied(slots)) /\ count * 4 < bucket_count * 3
       /\ count \in Nat
  BY <1>1, IdleSound DEF IInv, Counted, Types
<1>11. count' = Cardinality(Occupied(slots'))
  BY <1>1, <1>2, <1>3, <1>9, <1>10
<1>12. count' \in Nat /\ count' * 4 < b * 3
  <2>1. bucket_count >= 2
    BY <1>2, TableAssumption, ProbingAssumption
  <2> QED
    BY <1>1, <1>2, <1>10, <2>1
<1>13. Types'
  <2>1. bucket_count' \in Nat /\ bucket_count' >= InitialBuckets
    BY <1>1, <1>2, TableAssumption, ProbingAssumption
  <2>2. call' \in Slot
    BY <1>1 DEF Slot
  <2> QED
    BY <1>1, <1>2, <1>6, <1>12, <2>1, <2>2 DEF Types
<1>14. Counted'
  BY <1>1, <1>11, <1>12 DEF Counted
<1>15. Sound'
  BY <1>1, <1>7 DEF Sound, Gap
<1>16. Shifting' /\ Growing'
  BY <1>1 DEF Shifting, Growing
<1> QED
  BY <1>13, <1>14, <1>15, <1>16 DEF IInv

LEMMA RemoveStartKeeps ==
  ASSUME IInv, NEW n \in Names, RemoveStart(n)
  PROVE  IInv'
<1> DEFINE b == bucket_count
           h == Homes(mix, b)
           p == Cell(n)
<1>1. /\ Types /\ Counted /\ pc = "idle" /\ pc' = "shift" /\ Found(n)
      /\ slots' = [slots EXCEPT ![p] = Empty] /\ hole' = p /\ pos' = p
      /\ UNCHANGED <<mix, bucket_count, count, call>>
  BY DEF IInv, RemoveStart
<1>2. slots[p].key = n /\ n # None
  BY <1>1, FoundIs, TableAssumption, ProbingAssumption
<1>3. /\ b \in Nat /\ p \in Cells(b) /\ h \in [Names -> Cells(b)]
  BY <1>1, CellLands
<1>4. /\ Unique(slots) /\ slots \in [Cells(b) -> Slot] /\ Chained(slots, h, b, b)
      /\ count = Cardinality(Occupied(slots))
  BY <1>1, IdleSound
<1>5. slots' \in [Cells(b) -> Slot]
  BY <1>1, <1>4 DEF Slot
<1>6. /\ slots'[p].key = None
      /\ Occupied(slots') = Occupied(slots) \ {p} /\ p \in Occupied(slots)
      /\ Unique(slots') /\ Chained(slots', h, b, p)
  <2>1. Written(slots, p, Empty, slots') /\ slots[p].key # None
    BY <1>1, <1>2 DEF Written
  <2> HIDE DEF b, h, p
  <2> QED
    BY ONLY <1>3, <1>4, <1>5, <2>1, EmptyKeeps
<1>7. IsFiniteSet(Occupied(slots)) /\ Cardinality(Occupied(slots)) \in Nat
  BY <1>3, <1>4, OccupiedIs
<1>8. Cardinality(Occupied(slots')) = Cardinality(Occupied(slots)) - 1
  BY <1>6, <1>7, FS_RemoveElement
<1>9. count' = Cardinality(Occupied(slots')) + 1
  BY <1>1, <1>4, <1>7, <1>8
<1>10. Types'
  BY <1>1, <1>5 DEF Types
<1>11. Counted'
  BY <1>1, <1>9 DEF Counted
<1>12. Sound'
  BY <1>1, <1>6 DEF Sound, Gap
<1>13. Settled(slots', h, b, p, p)
  <2>1. Dist(p, p, b) = 0
    BY <1>3, DistZero
  <2> QED
    BY <2>1 DEF Settled
<1>14. Shifting'
  BY <1>1, <1>3, <1>6, <1>13 DEF Shifting
<1>15. Growing'
  BY <1>1 DEF Growing
<1> QED
  BY <1>10, <1>11, <1>12, <1>14, <1>15 DEF IInv

(* What holds at each turn of the shifting loop.                           *)
LEMMA ShiftState ==
  ASSUME IInv, pc = "shift"
  PROVE  /\ bucket_count \in Nat
         /\ slots \in [Cells(bucket_count) -> Slot]
         /\ Homes(mix, bucket_count) \in [Names -> Cells(bucket_count)]
         /\ pos \in Cells(bucket_count) /\ hole \in Cells(bucket_count)
         /\ Scanned \in Cells(bucket_count)
         /\ slots[hole].key = None
         /\ Unique(slots)
         /\ Chained(slots, Homes(mix, bucket_count), bucket_count, hole)
         /\ Settled(slots, Homes(mix, bucket_count), bucket_count, hole, pos)
<1>1. bucket_count \in Nat \ {0} /\ mix \in [Names -> Hashes]
  BY TableAssumption, ProbingAssumption DEF IInv, Types
<1>2. Homes(mix, bucket_count) \in [Names -> Cells(bucket_count)]
  BY <1>1, HomesType
<1>3. /\ slots \in [Cells(bucket_count) -> Slot] /\ Unique(slots)
      /\ Chained(slots, Homes(mix, bucket_count), bucket_count, hole)
  BY DEF IInv, Types, Sound, Gap
<1>4. /\ pos \in Cells(bucket_count) /\ hole \in Cells(bucket_count)
      /\ slots[hole].key = None
      /\ Settled(slots, Homes(mix, bucket_count), bucket_count, hole, pos)
  BY DEF IInv, Shifting
<1>5. Scanned \in Cells(bucket_count)
  BY <1>1, <1>4, DistNext DEF Scanned
<1> QED
  BY <1>1, <1>2, <1>3, <1>4, <1>5

LEMMA ShiftKeepKeeps ==
  ASSUME IInv, ShiftKeep
  PROVE  IInv'
<1> DEFINE b == bucket_count
           h == Homes(mix, b)
           j == Scanned
<1>1. /\ pc = "shift" /\ slots[j].key # None /\ StaysAt(j) /\ pos' = j
      /\ UNCHANGED <<mix, bucket_count, slots, count, pc, call, hole>>
  BY DEF ShiftKeep
<1>2. /\ b \in Nat /\ slots \in [Cells(b) -> Slot] /\ h \in [Names -> Cells(b)]
      /\ pos \in Cells(b) /\ hole \in Cells(b) /\ j \in Cells(b)
      /\ slots[hole].key = None /\ Settled(slots, h, b, hole, pos)
  BY <1>1, ShiftState
<1>3. slots[j].key \in Names /\ h[slots[j].key] = Home(slots[j].key, b)
  BY <1>1, <1>2, SlotKeys DEF Homes, Home
<1>4. j # hole /\ h[slots[j].key] \in Cells(b)
  BY <1>1, <1>2, <1>3
<1>5. Dist(hole, j, b) = Dist(hole, pos, b) + 1
  BY <1>2, <1>4, DistNext DEF Scanned
<1>6. Dist(h[slots[j].key], j, b) < Dist(hole, j, b)
  <2>1. /\ Dist(hole, h[slots[j].key], b) >= 1
        /\ Dist(hole, h[slots[j].key], b) <= Dist(hole, j, b)
    BY <1>1, <1>3 DEF StaysAt
  <2> HIDE DEF b, h, j
  <2> QED
    BY <1>2, <1>4, <2>1, DistInside
<1>7. Settled(slots, h, b, hole, j)
  <2> SUFFICES ASSUME NEW c \in Cells(b), Dist(hole, c, b) \in 1 .. Dist(hole, j, b)
               PROVE  /\ slots[c].key # None
                      /\ Dist(h[slots[c].key], c, b) < Dist(hole, c, b)
    BY DEF Settled
  <2>1. /\ Dist(hole, c, b) \in Nat /\ Dist(hole, j, b) \in Nat
        /\ Dist(hole, pos, b) \in Nat
    BY <1>2, DistNat
  <2>2. CASE Dist(hole, c, b) = Dist(hole, j, b)
    <3>1. c = j
      BY <1>2, <2>2, DistInjective
    <3> QED
      BY <1>1, <1>6, <3>1
  <2>3. CASE Dist(hole, c, b) # Dist(hole, j, b)
    <3>1. Dist(hole, c, b) \in 1 .. Dist(hole, pos, b)
      BY <1>5, <2>1, <2>3
    <3> QED
      BY <1>2, <3>1 DEF Settled
  <2> QED
    BY <2>2, <2>3
<1>8. Types' /\ Counted' /\ Sound' /\ Growing'
  BY <1>1 DEF IInv, Types, Counted, Sound, Gap, Growing
<1>9. Shifting'
  BY <1>1, <1>2, <1>7 DEF Shifting
<1> QED
  BY <1>8, <1>9 DEF IInv

LEMMA ShiftMoveKeeps ==
  ASSUME IInv, ShiftMove
  PROVE  IInv'
<1> DEFINE b == bucket_count
           h == Homes(mix, b)
           j == Scanned
<1>1. /\ pc = "shift" /\ slots[j].key # None /\ ~ StaysAt(j)
      /\ pos' = j /\ hole' = j
      /\ slots' = [slots EXCEPT ![hole] = slots[j], ![j] = Empty]
      /\ UNCHANGED <<mix, bucket_count, count, pc, call>>
  BY DEF ShiftMove
<1>2. /\ b \in Nat /\ slots \in [Cells(b) -> Slot] /\ h \in [Names -> Cells(b)]
      /\ hole \in Cells(b) /\ j \in Cells(b) /\ slots[hole].key = None
      /\ Unique(slots) /\ Chained(slots, h, b, hole)
  BY <1>1, ShiftState
<1>3. slots[j].key \in Names /\ h[slots[j].key] = Home(slots[j].key, b)
  BY <1>1, <1>2, SlotKeys DEF Homes, Home
<1>4. hole # j /\ h[slots[j].key] \in Cells(b)
  BY <1>1, <1>2, <1>3
<1>5. Dist(h[slots[j].key], hole, b) < Dist(h[slots[j].key], j, b)
  <2>1. ~ (/\ Dist(hole, h[slots[j].key], b) >= 1
           /\ Dist(hole, h[slots[j].key], b) <= Dist(hole, j, b))
    BY <1>1, <1>3 DEF StaysAt
  <2> HIDE DEF b, h, j
  <2> QED
    BY <1>2, <1>4, <2>1, DistOutside
<1>6. slots' \in [Cells(b) -> Slot]
  BY <1>1, <1>2 DEF Slot
<1>7. /\ slots'[j].key = None
      /\ Occupied(slots') = (Occupied(slots) \cup {hole}) \ {j}
      /\ hole \notin Occupied(slots) /\ j \in Occupied(slots)
      /\ Unique(slots') /\ Chained(slots', h, b, j)
  <2>1. Moved(slots, hole, j, slots') /\ slots[j].key # None
    BY <1>1 DEF Moved
  <2> HIDE DEF b, h, j
  <2> QED
    BY ONLY <1>2, <1>4, <1>5, <1>6, <2>1, MoveKeeps
<1>8. Cardinality(Occupied(slots')) = Cardinality(Occupied(slots))
  <2>1. IsFiniteSet(Occupied(slots)) /\ Cardinality(Occupied(slots)) \in Nat
    BY <1>2, OccupiedIs
  <2>2. /\ IsFiniteSet(Occupied(slots) \cup {hole})
        /\ Cardinality(Occupied(slots) \cup {hole}) = Cardinality(Occupied(slots)) + 1
    BY <1>7, <2>1, FS_AddElement
  <2>3. Cardinality(Occupied(slots')) = Cardinality(Occupied(slots) \cup {hole}) - 1
    BY <1>7, <2>2, FS_RemoveElement
  <2> QED
    BY <2>1, <2>2, <2>3
<1>9. Types'
  BY <1>1, <1>6 DEF IInv, Types
<1>10. Counted'
  BY <1>1, <1>8 DEF IInv, Counted
<1>11. Sound'
  BY <1>1, <1>7 DEF Sound, Gap
<1>12. Settled(slots', h, b, j, j)
  <2>1. Dist(j, j, b) = 0
    BY <1>2, DistZero
  <2> QED
    BY <2>1 DEF Settled
<1>13. Shifting'
  BY <1>1, <1>2, <1>7, <1>12 DEF Shifting
<1>14. Growing'
  BY <1>1 DEF Growing
<1> QED
  BY <1>9, <1>10, <1>11, <1>13, <1>14 DEF IInv

LEMMA ShiftDoneKeeps ==
  ASSUME IInv, ShiftDone
  PROVE  IInv'
<1>1. /\ pc = "shift" /\ pc' = "idle" /\ slots[Scanned].key = None
      /\ count' = count - 1
      /\ UNCHANGED <<mix, bucket_count, slots, call>>
  BY DEF ShiftDone
<1>2. /\ bucket_count \in Nat /\ slots \in [Cells(bucket_count) -> Slot]
      /\ Unique(slots)
      /\ Chained(slots, Homes(mix, bucket_count), bucket_count, bucket_count)
  <2>1. slots[Next1(pos, bucket_count)].key = None
    BY <1>1 DEF Scanned
  <2> QED
    BY <1>1, <2>1, ShiftState, SettledUnbroken
<1>3. Cardinality(Occupied(slots)) \in Nat
  BY <1>2, OccupiedIs
<1>4. count = Cardinality(Occupied(slots)) + 1 /\ count * 4 < bucket_count * 3
  BY <1>1 DEF IInv, Counted
<1>5. count' = Cardinality(Occupied(slots)) /\ count' * 4 < bucket_count * 3
      /\ count' \in Nat
  BY <1>1, <1>2, <1>3, <1>4
<1>6. Types'
  BY <1>1, <1>5 DEF IInv, Types
<1>7. Counted'
  BY <1>1, <1>3, <1>5 DEF Counted
<1>8. Sound'
  BY <1>1, <1>2 DEF Sound, Gap
<1>9. Shifting' /\ Growing'
  BY <1>1 DEF Shifting, Growing
<1> QED
  BY <1>6, <1>7, <1>8, <1>9 DEF IInv

LEMMA StepKeeps ==
  ASSUME IInv, [Next]_vars
  PROVE  IInv'
<1>1. ASSUME NEW n \in Names, Lookup(n) \/ GrowFails(n) \/ RemoveAbsent(n)
      PROVE  IInv'
  BY <1>1, AnswerKeeps DEF Lookup, GrowFails, RemoveAbsent
<1>2. ASSUME NEW n \in Names, NEW d \in Values,
             Redefine(n, d) \/ Insert(n, d) \/ GrowStart(n, d)
      PROVE  IInv'
  BY <1>2, RedefineKeeps, InsertKeeps, GrowStartKeeps
<1>3. ASSUME NEW n \in Names, RemoveStart(n)
      PROVE  IInv'
  BY <1>3, RemoveStartKeeps
<1>4. CASE Rehash \/ GrowFinish
  BY <1>4, RehashKeeps, GrowFinishKeeps
<1>5. CASE ShiftKeep \/ ShiftMove \/ ShiftDone
  BY <1>5, ShiftKeepKeeps, ShiftMoveKeeps, ShiftDoneKeeps
<1>6. CASE UNCHANGED vars
  BY <1>6, AnswerKeeps DEF vars
<1> QED
  BY <1>1, <1>2, <1>3, <1>4, <1>5, <1>6 DEF Next

(* The inductive invariant holds of every state the table can reach,       *)
(* between calls and at each turn of the two loops of macro.c.             *)
THEOREM Invariance == Spec => []IInv
<1>1. Init => IInv
  BY Initially
<1>2. IInv /\ [Next]_vars => IInv'
  BY StepKeeps
<1> QED
  BY <1>1, <1>2, PTL DEF Spec

-----------------------------------------------------------------------------
(* What the invariant says in the words of MacroTable.                     *)

LEMMA HomeIs ==
  ASSUME NEW a, NEW b, NEW c \in Occupied(a), a[c].key \in Names
  PROVE  Homes(mix, b)[a[c].key] = Home(a[c].key, b)
  BY DEF Homes, Home

LEMMA ChainedUnbroken ==
  ASSUME NEW b \in Nat, NEW a \in [Cells(b) -> Slot], NEW g,
         Chained(a, Homes(mix, b), b, g)
  PROVE  Unbroken(a, b, g)
<1>1. \A c \in Occupied(a) : Homes(mix, b)[a[c].key] = Home(a[c].key, b)
  BY HomeIs, OccupiedIs
<1>2. DOMAIN a = Cells(b)
  OBVIOUS
<1> QED
  BY <1>1, <1>2 DEF Chained, Unbroken

LEMMA Typed == IInv => TypeOK
<1> SUFFICES ASSUME IInv PROVE TypeOK
  OBVIOUS
<1>1. pc = "grow" => /\ call # Empty
                     /\ new_slots \in [Cells(2 * bucket_count) -> Slot]
                     /\ pos \in 0 .. bucket_count
  BY TableAssumption, ProbingAssumption DEF IInv, Growing, Empty
<1>2. pc = "shift" => pos \in Cells(bucket_count) /\ hole \in Cells(bucket_count)
  BY DEF IInv, Shifting
<1> QED
  BY <1>1, <1>2 DEF IInv, Types, TypeOK

LEMMA FindableHolds == IInv => Findable
<1> SUFFICES ASSUME IInv, pc = "idle"
             PROVE  Unique(slots) /\ Unbroken(slots, bucket_count, bucket_count)
  BY DEF Findable
<1>1. bucket_count \in Nat
  BY DEF IInv, Types
<1> QED
  BY <1>1, IdleSound, ChainedUnbroken

LEMMA ShiftConfinedHolds == IInv => ShiftConfined
<1> SUFFICES ASSUME IInv, pc = "shift" PROVE ShiftConfined
  BY DEF ShiftConfined
<1>1. Unbroken(slots, bucket_count, hole)
  BY ShiftState, ChainedUnbroken
<1>2. ASSUME NEW c \in Cells(bucket_count),
             Dist(hole, c, bucket_count) \in 1 .. Dist(hole, pos, bucket_count)
      PROVE  /\ slots[c].key # None
             /\ Dist(Home(slots[c].key, bucket_count), c, bucket_count)
                  < Dist(hole, c, bucket_count)
  <2>1. /\ slots[c].key # None
        /\ Dist(Homes(mix, bucket_count)[slots[c].key], c, bucket_count)
             < Dist(hole, c, bucket_count)
    BY <1>2, ShiftState DEF Settled
  <2>2. slots[c].key \in Names
    BY <2>1, ShiftState, SlotKeys
  <2> QED
    BY <2>1, <2>2 DEF Homes, Home
<1> QED
  BY <1>1, <1>2, ShiftState DEF ShiftConfined

LEMMA ProbeStopsHolds == IInv => ProbeStops
<1> SUFFICES ASSUME IInv PROVE ProbeStops
  OBVIOUS
<1>1. bucket_count \in Nat \ {0} /\ slots \in [Cells(bucket_count) -> Slot]
  BY TableAssumption, ProbingAssumption DEF IInv, Types
<1>2. Cardinality(Occupied(slots)) \in Nat
  BY <1>1, OccupiedIs
<1>3. Cardinality(Occupied(slots)) < bucket_count
  BY <1>1, <1>2 DEF IInv, Counted
<1>4. Occupied(slots) # DOMAIN slots
  BY <1>1, <1>3, NotFull
<1>5. pc = "grow" => Occupied(new_slots) # DOMAIN new_slots
  BY NewLands DEF IInv, Growing
<1> QED
  BY <1>4, <1>5 DEF IInv, Counted, ProbeStops

(* Every variable of the table keeps its type.                             *)
THEOREM TypeCorrect == Spec => []TypeOK
  BY Invariance, Typed, PTL

(* After any sequence of puts, growths and removals, whatever the hashes,  *)
(* every stored name is reached by its probe: qcc_macro_remove's backward  *)
(* shift needs no tombstones.                                              *)
THEOREM EntriesFindable == Spec => []Findable
  BY Invariance, FindableHolds, PTL

(* While qcc_macro_remove shifts, the one hole is all that can break a     *)
(* chain, and no entry the scan has passed depends on it.                  *)
THEOREM ShiftingConfined == Spec => []ShiftConfined
  BY Invariance, ShiftConfinedHolds, PTL

(* The load limit of macro.c leaves an empty bucket in every array that is *)
(* probed, so that the for (;;) of probe comes to an end.                  *)
THEOREM ProbesStop == Spec => []ProbeStops
  BY Invariance, ProbeStopsHolds, PTL

-----------------------------------------------------------------------------
(* The refinement: dict, the map that is stored, changes as MacroMap says. *)

(* Emptying the cell of n.                                                 *)
LEMMA DictRemove ==
  ASSUME NEW b \in Nat, NEW a \in [Cells(b) -> Slot], NEW p \in Cells(b),
         NEW n \in Names, a[p].key = n,
         NEW a2 \in [Cells(b) -> Slot], Written(a, p, Empty, a2),
         Unique(a), Unique(a2)
  PROVE  Stored(a2) = [Stored(a) EXCEPT ![n] = None]
<1>1. a2[p] = Empty /\ \A c \in Cells(b) : c # p => a2[c] = a[c]
  BY DEF Written
<1>2. ~ Holds(a2, n)
  <2> SUFFICES ASSUME NEW c \in Occupied(a2), a2[c].key = n PROVE FALSE
    BY DEF Holds
  <2>1. c \in Cells(b) /\ c # p
    BY <1>1, OccupiedIs, TableAssumption, ProbingAssumption DEF Empty
  <2>2. c \in Occupied(a) /\ p \in Occupied(a) /\ a[c].key = n
    BY <1>1, <2>1, OccupiedIs, TableAssumption, ProbingAssumption
  <2> QED
    BY <2>1, <2>2 DEF Unique
<1>3. Stored(a2)[n] = None
  BY <1>2, StoredAt
<1>4. ASSUME NEW m \in Names, m # n PROVE Stored(a2)[m] = Stored(a)[m]
  <2>1. ASSUME NEW c \in Occupied(a), a[c].key = m
        PROVE  \E d \in Occupied(a2) : a2[d] = a[c]
    BY <1>1, <1>4, <2>1, OccupiedIs, TableAssumption, ProbingAssumption
  <2>2. ASSUME NEW d \in Occupied(a2), a2[d].key = m
        PROVE  \E c \in Occupied(a) : a[c] = a2[d]
    BY <1>1, <1>4, <2>2, OccupiedIs, TableAssumption, ProbingAssumption DEF Empty
  <2> QED
    BY <2>1, <2>2, StoredSame
<1>5. /\ Stored(a) = [m \in Names |-> Stored(a)[m]]
      /\ Stored(a2) = [m \in Names |-> Stored(a2)[m]]
  BY DEF Stored
<1> QED
  BY <1>3, <1>4, <1>5, OneChanged

(* Moving an entry into an empty cell.                                     *)
LEMMA DictMove ==
  ASSUME NEW b \in Nat, NEW a \in [Cells(b) -> Slot], NEW i \in Cells(b),
         NEW j \in Cells(b), i # j, a[i].key = None,
         NEW a2 \in [Cells(b) -> Slot], Moved(a, i, j, a2),
         Unique(a), Unique(a2)
  PROVE  Stored(a2) = Stored(a)
<1>1. /\ a2[i] = a[j] /\ a2[j] = Empty
      /\ \A c \in Cells(b) : c # i /\ c # j => a2[c] = a[c]
  BY DEF Moved
<1>2. ASSUME NEW c \in Occupied(a) PROVE \E d \in Occupied(a2) : a2[d] = a[c]
  <2>1. CASE c = j
    BY <1>1, <2>1, OccupiedIs
  <2>2. CASE c # j
    BY <1>1, <2>2, OccupiedIs
  <2> QED
    BY <2>1, <2>2
<1>3. ASSUME NEW d \in Occupied(a2) PROVE \E c \in Occupied(a) : a[c] = a2[d]
  <2>1. d # j
    BY <1>1, OccupiedIs DEF Empty
  <2>2. CASE d = i
    BY <1>1, <2>2, OccupiedIs
  <2>3. CASE d # i
    BY <1>1, <2>1, <2>3, OccupiedIs
  <2> QED
    BY <2>2, <2>3
<1>4. \A n \in Names : Stored(a2)[n] = Stored(a)[n]
  BY <1>2, <1>3, StoredSame
<1> QED
  BY <1>4, StoredEqual

LEMMA DictIs == dict = Stored(slots)
  BY DEF dict

(* A found name has a definition, another has none.                        *)
LEMMA DictFound ==
  ASSUME IInv, pc # "shift", NEW n \in Names
  PROVE  /\ slots[Cell(n)].value = dict[n]
         /\ Found(n) <=> dict[n] # None
<1>1. /\ Unique(slots) /\ bucket_count \in Nat
      /\ slots \in [Cells(bucket_count) -> Slot]
  BY IdleSound DEF IInv, Types
<1>2. Cell(n) \in Cells(bucket_count)
  BY CellLands DEF IInv
<1>3. CASE Found(n)
  <2>1. slots[Cell(n)].key = n /\ Cell(n) \in Occupied(slots)
    BY <1>1, <1>2, <1>3, FoundIs, OccupiedIs DEF Found
  <2>2. dict[n] = slots[Cell(n)].value
    BY <1>1, <2>1, StoredAt, DictIs
  <2>3. slots[Cell(n)] \in [key : Names, value : Values]
    BY <1>1, <1>2, <2>1, SlotKeys, TableAssumption, ProbingAssumption
  <2>4. slots[Cell(n)].value \in Values
    BY <2>3
  <2> QED
    BY <1>3, <2>2, <2>4, TableAssumption, ProbingAssumption
<1>4. CASE ~ Found(n)
  <2>1. dict[n] = None
    BY <1>1, <1>4, FoundIs, StoredAt, DictIs
  <2>2. slots[Cell(n)] = Empty
    BY <1>1, <1>2, <1>4, SlotKeys DEF Found
  <2> QED
    BY <1>4, <2>1, <2>2 DEF Empty
<1> QED
  BY <1>3, <1>4

(* The invariant gives the next array its type and unique keys.            *)
LEMMA UniqueAfter ==
  ASSUME IInv'
  PROVE  Unique(slots') /\ slots' \in [Cells(bucket_count') -> Slot]
  BY DEF IInv, Sound, Types

LEMMA PutSteps ==
  ASSUME IInv, IInv', NEW n \in Names, NEW d \in Values,
         Redefine(n, d) \/ Insert(n, d)
  PROVE  Map!Put(n, d)
<1> DEFINE s == [key |-> n, value |-> d]
<1>1. /\ pc = "idle" /\ bucket_count' = bucket_count
      /\ answer' = Answer(n, "put")
  BY DEF Redefine, Insert
<1>2. /\ bucket_count \in Nat /\ slots \in [Cells(bucket_count) -> Slot]
      /\ Unique(slots) /\ Cell(n) \in Cells(bucket_count)
  BY <1>1, IdleSound, CellLands DEF IInv, Types
<1>3. s \in Slot /\ s.key = n /\ s.value = d
  BY DEF Slot
<1>4. slots[Cell(n)].key \in {None, n}
  BY <1>1, FoundIs DEF Found
<1>5. Written(slots, Cell(n), s, slots')
  <2>1. CASE Insert(n, d)
    BY <2>1 DEF Insert, Written
  <2>2. CASE Redefine(n, d)
    <3>1. slots[Cell(n)] \in [key : Names, value : Values] /\ slots[Cell(n)].key = n
      BY <1>1, <1>2, <2>2, FoundIs, SlotKeys, TableAssumption, ProbingAssumption DEF Redefine
    <3>2. [slots[Cell(n)] EXCEPT !.value = d] = s
      BY <3>1
    <3> QED
      BY <2>2, <3>2 DEF Redefine, Written
  <2> QED
    BY <2>1, <2>2
<1>6. Unique(slots') /\ slots' \in [Cells(bucket_count) -> Slot]
  BY <1>1, UniqueAfter
<1>7. Stored(slots') = [Stored(slots) EXCEPT ![n] = d]
  <2> HIDE DEF s
  <2> QED
    BY <1>2, <1>3, <1>4, <1>5, <1>6, StoredPut
<1>8. dict' = Stored(slots') /\ dict = Stored(slots)
  BY DEF dict
<1> QED
  BY <1>1, <1>7, <1>8 DEF Map!Put, Map!Answer, Answer

LEMMA GrowFinishPuts ==
  ASSUME IInv, IInv', GrowFinish
  PROVE  Map!Put(call.key, call.value)
<1> DEFINE b == 2 * bucket_count
           n == call.key
           p == Probe(new_slots, b, n)
<1>1. /\ pc = "grow" /\ pos = bucket_count /\ bucket_count' = b
      /\ slots' = [new_slots EXCEPT ![p] = call]
      /\ answer' = Answer(n, "put")
  BY DEF GrowFinish
<1>2. /\ bucket_count \in Nat /\ call \in Slot /\ n \in Names
      /\ slots \in [Cells(bucket_count) -> Slot]
      /\ new_slots \in [Cells(b) -> Slot] /\ Unique(new_slots) /\ Unique(slots)
      /\ {new_slots[c] : c \in Occupied(new_slots)} =
           {slots[c] : c \in Below(slots, bucket_count)}
  BY <1>1 DEF IInv, Types, Growing, Sound
<1>3. Below(slots, bucket_count) = Occupied(slots)
  BY <1>2 DEF Below, Occupied, Cells
<1>4. b \in Nat /\ p \in Cells(b) /\ new_slots[p].key \in {None, n}
  BY <1>1, <1>2, NewLands DEF Lands
<1>5. Stored(new_slots) = Stored(slots)
  <2>1. \A c \in Occupied(slots) : \E d \in Occupied(new_slots) : new_slots[d] = slots[c]
    BY <1>2, <1>3
  <2>2. \A d \in Occupied(new_slots) : \E c \in Occupied(slots) : slots[c] = new_slots[d]
    BY <1>2, <1>3
  <2>3. \A m \in Names : Stored(new_slots)[m] = Stored(slots)[m]
    BY <1>2, <2>1, <2>2, StoredSame
  <2> QED
    BY <2>3, StoredEqual
<1>6. Unique(slots') /\ slots' \in [Cells(b) -> Slot]
  BY <1>1, UniqueAfter
<1>7. Written(new_slots, p, call, slots')
  BY <1>1 DEF Written
<1>8. Stored(slots') = [Stored(new_slots) EXCEPT ![n] = call.value]
  <2> HIDE DEF b, p
  <2> QED
    BY <1>2, <1>4, <1>6, <1>7, StoredPut
<1>9. dict' = Stored(slots') /\ dict = Stored(slots)
  BY DEF dict
<1> QED
  BY <1>1, <1>5, <1>8, <1>9 DEF Map!Put, Map!Answer, Answer

LEMMA RemoveStartRemoves ==
  ASSUME IInv, IInv', NEW n \in Names, RemoveStart(n)
  PROVE  Map!Remove(n)
<1>1. /\ pc = "idle" /\ bucket_count' = bucket_count /\ Found(n)
      /\ Written(slots, Cell(n), Empty, slots')
      /\ answer' = Answer(n, "removed")
  BY DEF RemoveStart, Written
<1>2. /\ bucket_count \in Nat /\ slots \in [Cells(bucket_count) -> Slot]
      /\ Unique(slots) /\ Cell(n) \in Cells(bucket_count)
      /\ slots[Cell(n)].key = n
  BY <1>1, IdleSound, CellLands, FoundIs DEF IInv, Types
<1>3. Unique(slots') /\ slots' \in [Cells(bucket_count) -> Slot]
  BY <1>1, UniqueAfter
<1>4. Stored(slots') = [Stored(slots) EXCEPT ![n] = None]
  BY <1>1, <1>2, <1>3, DictRemove
<1>5. dict' = Stored(slots') /\ dict = Stored(slots)
  BY DEF dict
<1>6. dict[n] # None
  BY <1>1, DictFound
<1> QED
  BY <1>1, <1>4, <1>5, <1>6 DEF Map!Remove, Map!Answer, Answer

LEMMA LoopsStutter ==
  ASSUME IInv, IInv',
         (\E n \in Names, d \in Values : GrowStart(n, d)) \/ Rehash
           \/ ShiftKeep \/ ShiftMove \/ ShiftDone \/ UNCHANGED vars
  PROVE  UNCHANGED Map!mapVars
<1>1. dict' = Stored(slots') /\ dict = Stored(slots)
  BY DEF dict
<1>2. CASE ShiftMove
  <2>1. /\ pc = "shift" /\ slots[Scanned].key # None
        /\ Moved(slots, hole, Scanned, slots') /\ bucket_count' = bucket_count
        /\ answer' = answer
    BY <1>2 DEF ShiftMove, Moved
  <2>2. /\ bucket_count \in Nat /\ slots \in [Cells(bucket_count) -> Slot]
        /\ hole \in Cells(bucket_count) /\ Scanned \in Cells(bucket_count)
        /\ slots[hole].key = None /\ Unique(slots)
    BY <2>1, ShiftState
  <2>3. Unique(slots') /\ slots' \in [Cells(bucket_count) -> Slot]
    BY <2>1, UniqueAfter
  <2>4. hole # Scanned
    BY <2>1, <2>2
  <2>5. Stored(slots') = Stored(slots)
    BY ONLY <2>1, <2>2, <2>3, <2>4, DictMove
  <2> QED
    BY <1>1, <2>1, <2>5 DEF Map!mapVars
<1>3. CASE ~ ShiftMove
  <2>1. slots' = slots /\ answer' = answer
    BY <1>3 DEF GrowStart, Rehash, ShiftKeep, ShiftDone, vars
  <2> QED
    BY <1>1, <2>1 DEF Map!mapVars
<1> QED
  BY <1>2, <1>3

(* What a call answers without a change.                                   *)
LEMMA AnswerSteps ==
  ASSUME IInv, NEW n \in Names, Lookup(n) \/ GrowFails(n) \/ RemoveAbsent(n)
  PROVE  Map!Lookup(n) \/ Map!PutFails(n) \/ Map!Remove(n)
<1>1. pc = "idle" /\ slots' = slots
  BY DEF Lookup, GrowFails, RemoveAbsent
<1>2. dict' = dict /\ dict \in [Names -> {dict[m] : m \in Names}]
  BY <1>1 DEF dict, Stored
<1>3. CASE Lookup(n)
  BY <1>1, <1>2, <1>3, DictFound DEF Lookup, Map!Lookup, Map!Answer, Answer
<1>4. CASE GrowFails(n)
  BY <1>1, <1>2, <1>4, DictFound DEF GrowFails, Map!PutFails, Map!Answer, Answer
<1>5. CASE RemoveAbsent(n)
  <2>1. dict[n] = None
    BY <1>1, <1>5, DictFound DEF RemoveAbsent
  <2>2. dict' = [dict EXCEPT ![n] = None]
    BY <1>2, <2>1
  <2> QED
    BY <1>5, <2>1, <2>2 DEF RemoveAbsent, Map!Remove, Map!Answer, Answer
<1> QED
  BY <1>3, <1>4, <1>5

(* The table of macro.c implements the map of MacroMap: every call that    *)
(* returns has the effect and the answer of the abstract call, and neither *)
(* rehashing nor shifting can be seen in what is stored.                   *)
THEOREM Refinement == Spec => ImplementsMap
<1>1. Init => Map!Init
  <2> SUFFICES ASSUME Init PROVE Map!Init
    OBVIOUS
  <2>1. Occupied(slots) = {}
    BY TableAssumption, ProbingAssumption, EmptyIs DEF Init
  <2> QED
    BY <2>1 DEF Init, Map!Init, dict, Stored, Map!Answer, Answer
<1>2. ASSUME IInv, IInv', [Next]_vars PROVE [Map!Next]_(Map!mapVars)
  <2>1. ASSUME NEW n \in Names, Lookup(n) \/ GrowFails(n) \/ RemoveAbsent(n)
        PROVE  Map!Next
    BY <1>2, <2>1, AnswerSteps DEF Map!Next
  <2>2. ASSUME NEW n \in Names, NEW d \in Values, Redefine(n, d) \/ Insert(n, d)
        PROVE  Map!Next
    BY <1>2, <2>2, PutSteps DEF Map!Next
  <2>3. ASSUME NEW n \in Names, RemoveStart(n) PROVE Map!Next
    BY <1>2, <2>3, RemoveStartRemoves DEF Map!Next
  <2>4. ASSUME GrowFinish PROVE Map!Next
    <3>1. call.key \in Names /\ call \in Slot
      BY <1>2, <2>4 DEF IInv, Types, Growing, GrowFinish
    <3>2. call.value \in Values
      BY <3>1, SlotKeys, TableAssumption, ProbingAssumption
    <3> QED
      BY <1>2, <2>4, <3>1, <3>2, GrowFinishPuts DEF Map!Next
  <2>5. CASE (\E n \in Names, d \in Values : GrowStart(n, d)) \/ Rehash
               \/ ShiftKeep \/ ShiftMove \/ ShiftDone \/ UNCHANGED vars
    BY <1>2, <2>5, LoopsStutter
  <2> QED
    BY <1>2, <2>1, <2>2, <2>3, <2>4, <2>5 DEF Next
<1> QED
  BY <1>1, <1>2, Invariance, PTL DEF Spec, ImplementsMap, Map!Spec

-----------------------------------------------------------------------------
(* That the two loops end.                                                 *)

(* The empty cells other than the hole: one of them stops the scan.        *)
Open == {e \in Cells(bucket_count) : slots[e].key = None /\ e # hole}

(* The cells from p on to the first of those in E, on a ring of b cells.   *)
Ahead(p, E, b) ==
  {c \in Cells(b) : c # p /\ \A e \in E : Dist(p, c, b) <= Dist(p, e, b)}

Unscanned == Ahead(pos, Open, bucket_count)

(* A turn of a loop brings it nearer its end.                              *)
Descends ==
  /\ Rehash => pos < pos' /\ pos' <= bucket_count /\ bucket_count' = bucket_count
  /\ ShiftKeep \/ ShiftMove =>
       /\ IsFiniteSet(Unscanned)
       /\ Unscanned' \subseteq Unscanned /\ Unscanned' # Unscanned

(* One cell further on the way to a cell in E.                             *)
LEMMA AheadShrinks ==
  ASSUME NEW b \in Nat, NEW p \in Cells(b), NEW E \in SUBSET Cells(b), E # {},
         p \notin E, Next1(p, b) \notin E
  PROVE  /\ Ahead(Next1(p, b), E, b) \subseteq Ahead(p, E, b)
         /\ Ahead(Next1(p, b), E, b) # Ahead(p, E, b)
<1>1. PICK j \in Cells(b) : j = Next1(p, b)
  BY DistNext
<1>2. \A c \in Cells(b) : c # p => Dist(p, c, b) = Dist(j, c, b) + 1
  BY <1>1 DEF Cells, Dist, Ring, Next1
<1>3. Dist(j, p, b) = b - 1 /\ \A e \in E : Dist(j, e, b) < b - 1
  BY <1>1 DEF Cells, Dist, Ring, Next1
<1>4. \A c \in Cells(b) : Dist(j, c, b) \in Nat
  BY <1>1, DistNat
<1>5. ASSUME NEW c \in Ahead(j, E, b) PROVE c \in Ahead(p, E, b)
  <2>1. c \in Cells(b) /\ \A e \in E : Dist(j, c, b) <= Dist(j, e, b)
    BY <1>5 DEF Ahead
  <2>2. c # p
    <3>1. PICK e \in E : TRUE
      OBVIOUS
    <3>2. Dist(j, c, b) <= Dist(j, e, b) /\ Dist(j, e, b) < b - 1
      BY <1>3, <2>1
    <3> QED
      BY <1>3, <1>4, <2>1, <3>2
  <2>3. ASSUME NEW e \in E PROVE Dist(p, c, b) <= Dist(p, e, b)
    <3>1. e \in Cells(b) /\ e # p
      OBVIOUS
    <3>2. /\ Dist(p, c, b) = Dist(j, c, b) + 1
          /\ Dist(p, e, b) = Dist(j, e, b) + 1
          /\ Dist(j, c, b) <= Dist(j, e, b)
          /\ Dist(j, c, b) \in Nat /\ Dist(j, e, b) \in Nat
      BY <1>2, <1>4, <2>1, <2>2, <3>1
    <3> QED
      BY ONLY <3>2
  <2> QED
    BY <2>1, <2>2, <2>3 DEF Ahead
<1>6. j \notin Ahead(j, E, b)
  BY DEF Ahead
<1>7. j \in Ahead(p, E, b)
  <2>1. j # p
    <3>1. PICK e \in E : e \in Cells(b) /\ e # p
      OBVIOUS
    <3> QED
      BY <1>1, <3>1 DEF Cells, Next1, Ring
  <2>2. Dist(p, j, b) = 1
    BY <1>1, <2>1 DEF Cells, Dist, Next1, Ring
  <2>3. ASSUME NEW e \in E PROVE Dist(p, e, b) >= 1
    <3>1. e \in Cells(b) /\ e # p
      OBVIOUS
    <3> QED
      BY <3>1, DistNat, DistZero
  <2> QED
    BY <2>1, <2>2, <2>3 DEF Ahead
<1> QED
  BY <1>1, <1>5, <1>6, <1>7

(* The load limit leaves an empty cell besides the hole.                   *)
LEMMA OpenExists ==
  ASSUME IInv, pc = "shift"
  PROVE  Open # {}
<1> DEFINE b == bucket_count
<1>1. /\ b \in Nat /\ slots \in [Cells(b) -> Slot] /\ hole \in Cells(b)
      /\ slots[hole].key = None
  BY ShiftState
<1>2. /\ count = Cardinality(Occupied(slots)) + 1 /\ count * 4 < b * 3
  BY DEF IInv, Counted
<1>3. /\ IsFiniteSet(Occupied(slots)) /\ Cardinality(Occupied(slots)) \in Nat
      /\ \A c \in Cells(b) : c \in Occupied(slots) <=> slots[c].key # None
      /\ Occupied(slots) \subseteq Cells(b) /\ Cardinality(Cells(b)) = b
  BY <1>1, OccupiedIs
<1>4. /\ hole \notin Occupied(slots)
      /\ Cardinality(Occupied(slots) \cup {hole}) = Cardinality(Occupied(slots)) + 1
  BY <1>1, <1>3, FS_AddElement
<1>5. SUFFICES ASSUME Open = {} PROVE FALSE
  OBVIOUS
<1>6. Cells(b) = Occupied(slots) \cup {hole}
  BY <1>1, <1>3, <1>5 DEF Open
<1>7. b = count
  BY <1>2, <1>3, <1>4, <1>6
<1> QED
  BY <1>1, <1>2, <1>7

LEMMA ShiftDescends ==
  ASSUME IInv, ShiftKeep \/ ShiftMove
  PROVE  /\ IsFiniteSet(Unscanned)
         /\ Unscanned' \subseteq Unscanned /\ Unscanned' # Unscanned
<1> DEFINE b == bucket_count
<1>1. /\ pc = "shift" /\ slots[Scanned].key # None /\ pos' = Scanned
      /\ bucket_count' = bucket_count
  BY DEF ShiftKeep, ShiftMove
<1>2. /\ b \in Nat /\ slots \in [Cells(b) -> Slot] /\ pos \in Cells(b)
      /\ hole \in Cells(b) /\ Scanned \in Cells(b) /\ slots[hole].key = None
      /\ Settled(slots, Homes(mix, b), b, hole, pos)
  BY <1>1, ShiftState
<1>3. Open' = Open
  <2>1. CASE ShiftKeep
    BY <2>1 DEF ShiftKeep, Open
  <2>2. CASE ShiftMove
    <3>1. /\ slots' = [slots EXCEPT ![hole] = slots[Scanned], ![Scanned] = Empty]
          /\ hole' = Scanned
      BY <2>2 DEF ShiftMove
    <3>2. Empty.key = None /\ hole # Scanned
      BY <1>1, <1>2 DEF Empty
    <3>3. \A e \in Cells(b) :
            slots'[e].key = None /\ e # hole' <=> slots[e].key = None /\ e # hole
      BY <1>1, <1>2, <3>1, <3>2
    <3> QED
      BY <1>1, <3>3 DEF Open
  <2> QED
    BY <2>1, <2>2
<1>4. pos \notin Open
  <2>1. CASE pos = hole
    BY <2>1 DEF Open
  <2>2. CASE pos # hole
    <3>1. Dist(hole, pos, b) \in Nat /\ Dist(hole, pos, b) # 0
      BY <1>2, <2>2, DistNat, DistZero
    <3>2. Dist(hole, pos, b) \in 1 .. Dist(hole, pos, b)
      BY <3>1
    <3>3. slots[pos].key # None
      BY <1>2, <3>2 DEF Settled
    <3> QED
      BY <3>3 DEF Open
  <2> QED
    BY <2>1, <2>2
<1>5. Scanned \notin Open /\ Scanned = Next1(pos, b)
  BY <1>1 DEF Open, Scanned
<1>6. Open \in SUBSET Cells(b) /\ Open # {}
  BY <1>1, OpenExists DEF Open
<1>7. IsFiniteSet(Unscanned)
  <2>1. IsFiniteSet(Cells(b)) /\ Unscanned \subseteq Cells(b)
    BY <1>2, OccupiedIs DEF Unscanned, Ahead
  <2> QED
    BY <2>1, FS_Subset
<1>8. Unscanned = Ahead(pos, Open, b) /\ Unscanned' = Ahead(Next1(pos, b), Open, b)
  BY <1>1, <1>3, <1>5 DEF Unscanned
<1> QED
  BY <1>2, <1>4, <1>5, <1>6, <1>7, <1>8, AheadShrinks

(* The loops of macro.c that change the table end (macro.c:64 and 157):    *)
(* rehashing counts up to the size of the old array, and every turn of a   *)
(* removal, whose loop has no bound of its own, strictly shrinks the       *)
(* finite set of cells up to an empty one that the load limit guarantees.  *)
THEOREM LoopsDescend == Spec => [][Descends]_vars
<1>1. ASSUME IInv, [Next]_vars PROVE [Descends]_vars
  <2>1. Rehash => pos < pos' /\ pos' <= bucket_count /\ bucket_count' = bucket_count
    BY <1>1 DEF IInv, Types, Growing, Rehash
  <2>2. ShiftKeep \/ ShiftMove =>
          /\ IsFiniteSet(Unscanned)
          /\ Unscanned' \subseteq Unscanned /\ Unscanned' # Unscanned
    BY <1>1, ShiftDescends
  <2> QED
    BY <2>1, <2>2 DEF Descends
<1> QED
  BY <1>1, Invariance, PTL DEF Spec
=============================================================================
