----------------------------- MODULE MacroTable -----------------------------
(***************************************************************************)
(* The macro table of the preprocessor (pp/internal/macro.c): open         *)
(* addressing with linear probing, doubling at load 3/4, and backward-     *)
(* shift deletion without tombstones.                                      *)
(*                                                                         *)
(* The loops that change the table (rehashing in grow, shifting in         *)
(* qcc_macro_remove) take one action for each turn, so that what must hold *)
(* between turns can be stated; probing is in module Probing.              *)
(***************************************************************************)
EXTENDS Probing

(* Names are interned names, pointers compared by identity; Values are     *)
(* macro records.                                                          *)
CONSTANTS
  InitialBuckets,   \* QCC_MACRO_INITIAL_BUCKETS (64 in the code)
  Hashes            \* values mix_pointer can take

ASSUME TableAssumption ==
  /\ InitialBuckets \in Nat /\ InitialBuckets >= 2
  /\ Hashes \subseteq Nat

VARIABLES
  mix,              \* mix_pointer of each name: where malloc put it decides
  bucket_count,
  slots,            \* the bucket array
  count,
  pc,               \* "idle", "grow" or "shift"
  call,             \* the put or remove under way
  new_slots,        \* grow: the array being filled
  pos,              \* grow: the next old slot; shift: j
  hole,             \* shift: i, the slot that was emptied
  answer            \* what the last completed call returned

vars == <<mix, bucket_count, slots, count, pc, call, new_slots, pos, hole,
          answer>>

Unused == EmptyArray(0)

-----------------------------------------------------------------------------
(* Probing                                                                 *)

Home(n, buckets) == mix[n] % buckets

Probe(array, buckets, n) == ProbeFrom(array, buckets, Home(n, buckets), n)

Cell(n) == Probe(slots, bucket_count, n)
Found(n) == slots[Cell(n)].key # None

Answer(n, r) == [name |-> n, result |-> r]

-----------------------------------------------------------------------------
Init ==
  /\ mix \in [Names -> Hashes]
  /\ bucket_count = InitialBuckets
  /\ slots = EmptyArray(InitialBuckets)
  /\ count = 0
  /\ pc = "idle"
  /\ call = Empty
  /\ new_slots = Unused
  /\ pos = 0
  /\ hole = 0
  /\ answer = Answer(None, "new")

(* qcc_macro_lookup                                                        *)
Lookup(n) ==
  /\ pc = "idle"
  /\ answer' = Answer(n, slots[Cell(n)].value)
  /\ UNCHANGED <<mix, bucket_count, slots, count, pc, call, new_slots, pos, hole>>

(* qcc_macro_put where the name has a slot: the macro there is replaced.   *)
Redefine(n, d) ==
  /\ pc = "idle"
  /\ Found(n)
  /\ slots' = [slots EXCEPT ![Cell(n)].value = d]
  /\ answer' = Answer(n, "put")
  /\ UNCHANGED <<mix, bucket_count, count, pc, call, new_slots, pos, hole>>

(* Faulty: the key about to be added is not counted.                       *)
MustGrowLate == count * 4 >= bucket_count * 3

MustGrow == (count + 1) * 4 >= bucket_count * 3

(* qcc_macro_put of a new name below the load limit.                       *)
Insert(n, d) ==
  /\ pc = "idle"
  /\ ~Found(n)
  /\ ~MustGrow
  /\ slots' = [slots EXCEPT ![Cell(n)] = [key |-> n, value |-> d]]
  /\ count' = count + 1
  /\ answer' = Answer(n, "put")
  /\ UNCHANGED <<mix, bucket_count, pc, call, new_slots, pos, hole>>

(* At the limit grow comes first; without memory nothing has changed yet.  *)
GrowFails(n) ==
  /\ pc = "idle"
  /\ ~Found(n)
  /\ MustGrow
  /\ answer' = Answer(n, "oom")
  /\ UNCHANGED <<mix, bucket_count, slots, count, pc, call, new_slots, pos, hole>>

GrowStart(n, d) ==
  /\ pc = "idle"
  /\ ~Found(n)
  /\ MustGrow
  /\ pc' = "grow"
  /\ call' = [key |-> n, value |-> d]
  /\ new_slots' = EmptyArray(2 * bucket_count)
  /\ pos' = 0
  /\ UNCHANGED <<mix, bucket_count, slots, count, hole, answer>>

(* Faulty: an empty slot is skipped without going on to the next one.      *)
RehashStuck ==
  /\ pc = "grow"
  /\ pos < bucket_count
  /\ slots[pos].key # None
  /\ new_slots' =
       [new_slots EXCEPT
          ![Probe(new_slots, 2 * bucket_count, slots[pos].key)] = slots[pos]]
  /\ pos' = pos + 1
  /\ UNCHANGED <<mix, bucket_count, slots, count, pc, call, hole, answer>>

(* One turn of the rehashing loop.                                         *)
Rehash ==
  /\ pc = "grow"
  /\ pos < bucket_count
  /\ new_slots' =
       IF slots[pos].key # None
       THEN [new_slots EXCEPT
               ![Probe(new_slots, 2 * bucket_count, slots[pos].key)] = slots[pos]]
       ELSE new_slots
  /\ pos' = pos + 1
  /\ UNCHANGED <<mix, bucket_count, slots, count, pc, call, hole, answer>>

(* Faulty: the new array is filled and never installed.                    *)
GrowKeepsArray ==
  /\ pc = "grow"
  /\ pos = bucket_count
  /\ bucket_count' = 2 * bucket_count
  /\ slots' = [slots EXCEPT ![Cell(call.key)] = call]
  /\ count' = count + 1
  /\ answer' = Answer(call.key, "put")
  /\ pc' = "idle"
  /\ call' = Empty
  /\ new_slots' = Unused
  /\ pos' = 0
  /\ UNCHANGED <<mix, hole>>

(* Faulty: the put inserts where its probe of the old array ended.         *)
GrowStale ==
  /\ pc = "grow"
  /\ pos = bucket_count
  /\ bucket_count' = 2 * bucket_count
  /\ slots' = [new_slots EXCEPT ![Cell(call.key)] = call]
  /\ count' = count + 1
  /\ answer' = Answer(call.key, "put")
  /\ pc' = "idle"
  /\ call' = Empty
  /\ new_slots' = Unused
  /\ pos' = 0
  /\ UNCHANGED <<mix, hole>>

(* The new array takes over, and the put probes it again and inserts.      *)
GrowFinish ==
  /\ pc = "grow"
  /\ pos = bucket_count
  /\ bucket_count' = 2 * bucket_count
  /\ slots' = [new_slots EXCEPT
                 ![Probe(new_slots, 2 * bucket_count, call.key)] = call]
  /\ count' = count + 1
  /\ answer' = Answer(call.key, "put")
  /\ pc' = "idle"
  /\ call' = Empty
  /\ new_slots' = Unused
  /\ pos' = 0
  /\ UNCHANGED <<mix, hole>>

(* qcc_macro_remove where there is nothing to remove.                      *)
RemoveAbsent(n) ==
  /\ pc = "idle"
  /\ ~Found(n)
  /\ answer' = Answer(n, "absent")
  /\ UNCHANGED <<mix, bucket_count, slots, count, pc, call, new_slots, pos, hole>>

RemoveStart(n) ==
  /\ pc = "idle"
  /\ Found(n)
  /\ slots' = [slots EXCEPT ![Cell(n)] = Empty]
  /\ hole' = Cell(n)
  /\ pos' = Cell(n)
  /\ answer' = Answer(n, "removed")
  /\ pc' = "shift"
  /\ UNCHANGED <<mix, bucket_count, count, call, new_slots>>

Scanned == Next1(pos, bucket_count)

(* Faulty: the interval includes the hole.                                 *)
StaysAtOrHole(j) ==
  Dist(hole, Home(slots[j].key, bucket_count), bucket_count)
    <= Dist(hole, j, bucket_count)

(* Faulty: the indices are compared as they are, without the wrap.         *)
StaysAtUnwrapped(j) ==
  LET home == Home(slots[j].key, bucket_count) IN hole < home /\ home <= j

(* Is the home of the key in cell j in the interval (hole, j]?             *)
StaysAt(j) ==
  LET home == Home(slots[j].key, bucket_count) IN
    /\ Dist(hole, home, bucket_count) >= 1
    /\ Dist(hole, home, bucket_count) <= Dist(hole, j, bucket_count)

ShiftKeep ==
  /\ pc = "shift"
  /\ slots[Scanned].key # None
  /\ StaysAt(Scanned)
  /\ pos' = Scanned
  /\ UNCHANGED <<mix, bucket_count, slots, count, pc, call, new_slots, hole, answer>>

(* The entry is pulled back into the hole and leaves a hole of its own.    *)
ShiftMove ==
  /\ pc = "shift"
  /\ slots[Scanned].key # None
  /\ ~StaysAt(Scanned)
  /\ slots' = [slots EXCEPT ![hole] = slots[Scanned], ![Scanned] = Empty]
  /\ hole' = Scanned
  /\ pos' = Scanned
  /\ UNCHANGED <<mix, bucket_count, count, pc, call, new_slots, answer>>

ShiftDone ==
  /\ pc = "shift"
  /\ slots[Scanned].key = None
  /\ count' = count - 1
  /\ pc' = "idle"
  /\ pos' = 0
  /\ hole' = 0
  /\ UNCHANGED <<mix, bucket_count, slots, call, new_slots, answer>>

Next ==
  \/ \E n \in Names :
       \/ Lookup(n)
       \/ \E d \in Values : Redefine(n, d) \/ Insert(n, d) \/ GrowStart(n, d)
       \/ GrowFails(n)
       \/ RemoveAbsent(n)
       \/ RemoveStart(n)
  \/ Rehash \/ GrowFinish
  \/ ShiftKeep \/ ShiftMove \/ ShiftDone

Spec == Init /\ [][Next]_vars

(* The two loops run to their end: nothing in them waits.                  *)
Loops == Rehash \/ GrowFinish \/ ShiftKeep \/ ShiftMove \/ ShiftDone
FairSpec == Spec /\ WF_vars(Loops)

-----------------------------------------------------------------------------
(* Properties                                                              *)

TypeOK ==
  /\ mix \in [Names -> Hashes]
  /\ bucket_count \in Nat /\ bucket_count >= InitialBuckets
  /\ slots \in [Cells(bucket_count) -> Slot]
  /\ count \in Nat
  /\ pc \in {"idle", "grow", "shift"}
  /\ call \in Slot
  /\ pc = "grow" => /\ call # Empty
                    /\ new_slots \in [Cells(2 * bucket_count) -> Slot]
                    /\ pos \in 0 .. bucket_count
  /\ pc = "shift" => pos \in Cells(bucket_count) /\ hole \in Cells(bucket_count)

(* No probe of a stored key stops early: every cell between its home and   *)
(* its slot is taken, but for the cell gap.                                *)
Unbroken(array, buckets, gap) ==
  \A c \in Occupied(array) : \A d \in DOMAIN array :
    LET home == Home(array[c].key, buckets) IN
      /\ Dist(home, d, buckets) < Dist(home, c, buckets)
      /\ d # gap
      => array[d].key # None

(* The probe-chain invariant of macro.c: between calls every stored name   *)
(* is findable, after any history of puts, growths and removals.           *)
Findable ==
  pc = "idle" => Unique(slots) /\ Unbroken(slots, bucket_count, bucket_count)

(* While an entry is shifted only the hole breaks chains, and only those   *)
(* of entries that the scan has still to reach.                            *)
ShiftConfined ==
  pc = "shift" =>
    /\ slots[hole].key = None
    /\ Unique(slots)
    /\ Unbroken(slots, bucket_count, hole)
    /\ \A c \in Cells(bucket_count) :
         Dist(hole, c, bucket_count) \in 1 .. Dist(hole, pos, bucket_count) =>
           /\ slots[c].key # None
           /\ LET home == Home(slots[c].key, bucket_count) IN
                Dist(home, c, bucket_count) < Dist(hole, c, bucket_count)

(* The count is the number of keys and stays below the load limit, so that *)
(* every probe, of a stored name or not, meets a cell to stop at; put      *)
(* relies on it after a growth without asking again.                       *)
ProbeStops ==
  /\ count = Cardinality(Occupied(slots)) + (IF pc = "shift" THEN 1 ELSE 0)
  /\ count * 4 < bucket_count * 3
  /\ Occupied(slots) # DOMAIN slots
  /\ pc = "grow" => Occupied(new_slots) # DOMAIN new_slots

(* The definitions that are stored.                                        *)
dict == Stored(slots)

Map == INSTANCE MacroMap WITH Defs <- Values

(* The table is a map: probing, growing and shifting are invisible.        *)
ImplementsMap == Map!Spec

(* A put or a remove that began comes to its end.                          *)
CallsReturn == pc # "idle" ~> pc = "idle"
=============================================================================
