------------------------------ MODULE MacroMap ------------------------------
(***************************************************************************)
(* What the macro table promises (pp/internal/macro.h): a map from names   *)
(* to definitions.  A lookup answers with the definition that was put      *)
(* last, or nothing; putting replaces; removing forgets and tells whether  *)
(* there was anything to forget; a put that runs out of memory changes     *)
(* nothing.  Module MacroTable is shown to implement it.                   *)
(***************************************************************************)
CONSTANTS
  Names,       \* macro names, interned
  Defs,        \* definitions
  None         \* no definition

VARIABLES
  dict,        \* the current definition of each name, or None
  answer       \* what the last completed call returned

mapVars == <<dict, answer>>

Results == {"new", "put", "oom", "removed", "absent"}

(* The answer to a call: the call, its name and what came of it.           *)
Answer(n, r) == [name |-> n, result |-> r]

Init ==
  /\ dict = [n \in Names |-> None]
  /\ answer = Answer(None, "new")

Lookup(n) ==
  /\ answer' = Answer(n, dict[n])
  /\ UNCHANGED dict

Put(n, d) ==
  /\ dict' = [dict EXCEPT ![n] = d]
  /\ answer' = Answer(n, "put")

PutFails(n) ==
  /\ dict[n] = None
  /\ answer' = Answer(n, "oom")
  /\ UNCHANGED dict

Remove(n) ==
  /\ dict' = [dict EXCEPT ![n] = None]
  /\ answer' = Answer(n, IF dict[n] = None THEN "absent" ELSE "removed")

Next ==
  \E n \in Names :
    \/ Lookup(n)
    \/ \E d \in Defs : Put(n, d)
    \/ PutFails(n)
    \/ Remove(n)

Spec == Init /\ [][Next]_mapVars
=============================================================================
