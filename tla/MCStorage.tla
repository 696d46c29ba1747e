----------------------------- MODULE MCStorage ------------------------------
(***************************************************************************)
(* A bounded instance of Interner and its arena.  The spellings' homes     *)
(* collide at every size of the table, and one chain wraps past its end.   *)
(* Payloads start at odd multiples of half the strictest alignment, as     *)
(* they do behind a header of three words.                                 *)
(***************************************************************************)
EXTENDS Interner

CONSTANTS
  MaxObjects,        \* objects handed out in one life of the arena
  MaxOthers          \* of those, how many are not interned spellings

MCValues == 0 .. SizeMax
MCHashOf == <<3, 7, 3, 0>>
MCLengthOf == <<1, 1, 2, 0>>

Few == Len(objects) <= MaxObjects /\ Len(objects) - count <= MaxOthers
=============================================================================
