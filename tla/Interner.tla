------------------------------ MODULE Interner ------------------------------
(***************************************************************************)
(* The string interner (intern/intern.c) over the arena it borrows: a hash *)
(* table without removal, whose slots point at copies of the spellings in  *)
(* the arena.  Between two calls of the interner its arena serves other    *)
(* clients; it is given back as a whole only when the interner is closed   *)
(* (intern.h "Ownership"; pp.c disposes of them in that order).            *)
(*                                                                         *)
(* The rehashing loop takes one action for each turn.  A spelling is known *)
(* by its contents: equal hashes, lengths and bytes, in probe, are the     *)
(* same spelling.                                                          *)
(***************************************************************************)
EXTENDS Arena, Probing

CONSTANTS
  HashOf,            \* fnv1a of each spelling
  LengthOf,          \* how many bytes it has
  InitialBuckets     \* QCC_INTERN_INITIAL_BUCKETS (64 in the code)

(* The keys of the table are spellings, its values are pointers.           *)
ASSUME InternerAssumption ==
  /\ Null = None /\ Values = 0 .. SizeMax
  /\ HashOf \in [Names -> Nat]
  /\ LengthOf \in [Names -> Nat]
  /\ InitialBuckets \in Nat /\ InitialBuckets >= 2

VARIABLES
  slots, bucket_count, count,
  pc,               \* "closed", "idle", "grow" or "copy"
  call,             \* the spelling being interned
  cell,             \* qcc_intern_bytes: i
  new_slots,        \* grow: the array being filled
  pos,              \* grow: i
  result            \* the last answer

table == <<slots, bucket_count, count>>
internVars == <<table, pc, call, cell, new_slots, pos, result>>
vars == <<arenaVars, internVars>>

Unused == EmptyArray(0)

Home(n, buckets) == HashOf[n] % buckets

Probe(array, buckets, n) == ProbeFrom(array, buckets, Home(n, buckets), n)

Answer(n, p) == [name |-> n, pointer |-> p]

-----------------------------------------------------------------------------
NoTable ==
  /\ slots = Unused
  /\ bucket_count = 0
  /\ count = 0

Init ==
  /\ ArenaInit
  /\ NoTable
  /\ pc = "closed"
  /\ call = None
  /\ cell = 0
  /\ new_slots = Unused
  /\ pos = 0
  /\ result = Answer(None, None)

(* qcc_intern_init; without memory the interner stays closed.              *)
Open ==
  /\ pc = "closed"
  /\ slots' = EmptyArray(InitialBuckets)
  /\ bucket_count' = InitialBuckets
  /\ count' = 0
  /\ pc' = "idle"
  /\ UNCHANGED <<arenaVars, call, cell, new_slots, pos, result>>

(* qcc_intern_dispose                                                      *)
Close ==
  /\ pc = "idle"
  /\ slots' = Unused
  /\ bucket_count' = 0
  /\ count' = 0
  /\ pc' = "closed"
  /\ UNCHANGED <<arenaVars, call, cell, new_slots, pos, result>>

(* Faulty: the spelling about to be added is not counted.                  *)
MustGrowLate == count * 4 >= bucket_count * 3

MustGrow == (count + 1) * 4 >= bucket_count * 3

(* qcc_intern_bytes                                                        *)
Found(n) == slots[Probe(slots, bucket_count, n)].key # None

InternKnown(n) ==
  /\ pc = "idle"
  /\ Found(n)
  /\ result' = Answer(n, slots[Probe(slots, bucket_count, n)].value)
  /\ UNCHANGED <<arenaVars, table, pc, call, cell, new_slots, pos>>

(* An interner that could not be opened answers nothing.                   *)
InternClosed(n) ==
  /\ pc = "closed"
  /\ result' = Answer(n, None)
  /\ UNCHANGED <<arenaVars, table, pc, call, cell, new_slots, pos>>

InternNew(n) ==
  /\ pc = "idle"
  /\ ~Found(n)
  /\ ~MustGrow
  /\ call' = n
  /\ cell' = Probe(slots, bucket_count, n)
  /\ pc' = "copy"
  /\ UNCHANGED <<arenaVars, table, new_slots, pos, result>>

GrowFails(n) ==
  /\ pc = "idle"
  /\ ~Found(n)
  /\ MustGrow
  /\ result' = Answer(n, None)
  /\ UNCHANGED <<arenaVars, table, pc, call, cell, new_slots, pos>>

GrowStart(n) ==
  /\ pc = "idle"
  /\ ~Found(n)
  /\ MustGrow
  /\ call' = n
  /\ cell' = Probe(slots, bucket_count, n)
  /\ new_slots' = EmptyArray(2 * bucket_count)
  /\ pos' = 0
  /\ pc' = "grow"
  /\ UNCHANGED <<arenaVars, table, result>>

Rehash ==
  /\ pc = "grow"
  /\ pos < bucket_count
  /\ new_slots' =
       IF slots[pos].key # None
       THEN [new_slots EXCEPT
               ![Probe(new_slots, 2 * bucket_count, slots[pos].key)] = slots[pos]]
       ELSE new_slots
  /\ pos' = pos + 1
  /\ UNCHANGED <<arenaVars, table, pc, call, cell, result>>

(* Faulty: the cell found in the old array is kept.                        *)
GrowStale ==
  /\ pc = "grow"
  /\ pos = bucket_count
  /\ slots' = new_slots
  /\ bucket_count' = 2 * bucket_count
  /\ new_slots' = Unused
  /\ pos' = 0
  /\ pc' = "copy"
  /\ UNCHANGED <<arenaVars, count, call, cell, result>>

(* The new array takes over and is probed for the spelling.                *)
GrowFinish ==
  /\ pc = "grow"
  /\ pos = bucket_count
  /\ slots' = new_slots
  /\ bucket_count' = 2 * bucket_count
  /\ cell' = Probe(new_slots, 2 * bucket_count, call)
  /\ new_slots' = Unused
  /\ pos' = 0
  /\ pc' = "copy"
  /\ UNCHANGED <<arenaVars, count, call, result>>

(* Faulty: the copy has no room for its terminator.                        *)
CopySizeBare(n) == LengthOf[n]

CopySize(n) == LengthOf[n] + 1

(* The copy and the insertion; without memory for the copy, a table that   *)
(* has grown stays so.                                                     *)
Copy ==
  /\ pc = "copy"
  /\ Alloc(CopySize(call), 1)
  /\ result' = Answer(call, Returned)
  /\ IF Returned = Null
     THEN UNCHANGED <<slots, count>>
     ELSE /\ slots' = [slots EXCEPT ![cell] = [key |-> call, value |-> Returned]]
          /\ count' = count + 1
  /\ pc' = "idle"
  /\ call' = None
  /\ cell' = 0
  /\ UNCHANGED <<bucket_count, new_slots, pos>>

(* The arena between the calls of the interner.                            *)
OthersRequest == pc \in {"closed", "idle"} /\ Request /\ UNCHANGED internVars

ArenaRecycled == pc = "closed" /\ Recycle /\ UNCHANGED internVars

Next ==
  \/ Open \/ Close
  \/ \E n \in Names :
       \/ InternKnown(n) \/ InternClosed(n) \/ InternNew(n)
       \/ GrowFails(n) \/ GrowStart(n)
  \/ Rehash \/ GrowFinish \/ Copy
  \/ OthersRequest \/ ArenaRecycled

Spec == Init /\ [][Next]_vars

-----------------------------------------------------------------------------
(* Properties                                                              *)

Homes(buckets) == [n \in Names |-> Home(n, buckets)]

(* Between calls every spelling in the table is found by its probe, and    *)
(* the load limit of intern.c leaves every probe a cell to stop at.        *)
Findable ==
  pc \in {"idle", "copy"} =>
    /\ Unique(slots)
    /\ Chained(slots, Homes(bucket_count), bucket_count, bucket_count)
    /\ count = Cardinality(Occupied(slots))
    /\ Occupied(slots) # DOMAIN slots

(* The table and the arena agree: each spelling points at an object of its *)
(* own, long enough for its bytes and a terminator, that the arena has not *)
(* released.                                                               *)
CopiesHeld ==
  \A c \in Occupied(slots) :
    /\ \E i \in DOMAIN objects :
         /\ objects[i].at = slots[c].value
         /\ objects[i].size >= LengthOf[slots[c].key] + 1
    /\ \A d \in Occupied(slots) : slots[c].value = slots[d].value => c = d

(* The pointer of each spelling.                                           *)
pool == Stored(slots)

Pool == INSTANCE StringPool

(* One pointer for each spelling, through growth, failure and whatever     *)
(* else the arena is asked for.                                            *)
ImplementsPool == Pool!Spec
=============================================================================
