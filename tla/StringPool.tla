----------------------------- MODULE StringPool -----------------------------
(***************************************************************************)
(* What the string interner promises (intern/intern.h): every spelling has *)
(* one pointer, no two spellings share one, and a pointer once given stays *)
(* the answer until the interner is disposed of, whatever else its arena   *)
(* is asked for and whichever call ran out of memory in between.  Module   *)
(* Interner is shown to implement it.                                      *)
(***************************************************************************)
CONSTANTS
  Names,       \* spellings
  Values,      \* pointers
  None         \* no pointer

VARIABLES
  pool,        \* the pointer of each spelling, or None
  result       \* the last answer

poolVars == <<pool, result>>

Answer(n, p) == [name |-> n, pointer |-> p]

Init ==
  /\ pool = [n \in Names |-> None]
  /\ result = Answer(None, None)

(* A spelling that has a pointer is never refused.                         *)
Known(n) ==
  /\ result' = Answer(n, pool[n])
  /\ pool[n] # None
  /\ UNCHANGED pool

New(n) ==
  /\ result'.name = n /\ result'.pointer \in Values
  /\ pool[n] = None
  /\ \A m \in Names : pool[m] # result'.pointer
  /\ pool' = [pool EXCEPT ![n] = result'.pointer]
  /\ result' = Answer(n, result'.pointer)

Refused(n) ==
  /\ result' = Answer(n, None)
  /\ pool[n] = None
  /\ UNCHANGED pool

Dispose ==
  /\ pool' = [n \in Names |-> None]
  /\ UNCHANGED result

Next ==
  \/ \E n \in Names : Known(n) \/ New(n) \/ Refused(n)
  \/ Dispose

Spec == Init /\ [][Next]_poolVars
=============================================================================
