--------------------------- MODULE MCMacroTable ---------------------------
(***************************************************************************)
(* A bounded instance of MacroTable.  The names are interchangeable, so it *)
(* is enough to start from the assignments of hashes to names in ascending *)
(* order: every pattern of collisions is still among them.                 *)
(***************************************************************************)
EXTENDS MacroTable

MCInit == Init /\ \A m, n \in Names : m < n => mix[m] <= mix[n]

MCSpec == MCInit /\ [][Next]_vars /\ WF_vars(Loops)
===========================================================================
