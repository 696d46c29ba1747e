------------------------------ MODULE Probing ------------------------------
(***************************************************************************)
(* Open addressing with linear probing, as pp/internal/macro.c and         *)
(* intern/intern.c both do it: an array of buckets, each empty or holding  *)
(* a key and what is stored for it.  Probing only reads and is an          *)
(* operator.  A bucket index is computed with a mask of a power of two; on *)
(* the values that occur this is Ring below, a wrap at the end.            *)
(***************************************************************************)
EXTENDS Naturals, FiniteSets

CONSTANTS
  Names,            \* the keys
  Values,           \* what a slot keeps for its key
  None              \* NULL: no key, no value

ASSUME ProbingAssumption ==
  /\ None \notin Names \cup Values
  /\ IsFiniteSet(Names)

Empty == [key |-> None, value |-> None]
Slot  == [key : Names, value : Values] \cup {Empty}

Cells(buckets) == 0 .. buckets - 1
EmptyArray(buckets) == [c \in Cells(buckets) |-> Empty]

Ring(x, buckets) == IF x < buckets THEN x ELSE x - buckets
Next1(c, buckets) == Ring(c + 1, buckets)

(* Steps forward from cell a to cell b.                                    *)
Dist(a, b, buckets) == Ring(b + buckets - a, buckets)

Occupied(array) == {c \in DOMAIN array : array[c].key # None}

(* probe: the first cell from home on that is empty or holds n.            *)
Stops(array, n) == {c \in DOMAIN array : array[c].key \in {None, n}}

ProbeFrom(array, buckets, home, n) ==
  CHOOSE c \in Stops(array, n) :
    \A d \in Stops(array, n) : Dist(home, c, buckets) <= Dist(home, d, buckets)

(* What is stored for each key, wherever its bucket is.                    *)
Stored(array) ==
  [n \in Names |->
     IF \E c \in Occupied(array) : array[c].key = n
     THEN array[CHOOSE c \in Occupied(array) : array[c].key = n].value
     ELSE None]

-----------------------------------------------------------------------------
(* What an array of buckets must keep                                      *)

(* A key has one slot.                                                     *)
Unique(array) ==
  \A c, d \in Occupied(array) : array[c].key = array[d].key => c = d

(* No probe of a stored key stops early: every cell between its home,      *)
(* which homes gives, and its slot is taken, but for the cell gap.         *)
Chained(array, homes, buckets, gap) ==
  \A c \in Occupied(array) : \A d \in Cells(buckets) :
    Dist(homes[array[c].key], d, buckets) < Dist(homes[array[c].key], c, buckets)
      /\ d # gap
    => array[d].key # None
============================================================================
