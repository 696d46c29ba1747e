-------------------------- MODULE ConditionalGroups --------------------------
(***************************************************************************)
(* What conditional inclusion promises, read off ISO C11 6.10.1 as the     *)
(* header of src/src/pp/internal/cond.h restates it: a conditional is a    *)
(* list of groups, each with the value of its controlling condition; the   *)
(* group that is processed is the first whose value is true; text and      *)
(* directives count only where every open conditional is in its processed  *)
(* group; a condition nobody needs is not evaluated.                       *)
(*                                                                         *)
(* There are no flags here.  Module Conditionals keeps the four flags of   *)
(* the program's frames and is shown to implement this specification.      *)
(***************************************************************************)
EXTENDS Naturals, Sequences

CONSTANT Names              \* macro names

VARIABLES
  status,                   \* "idle", "running", "ok" or "oom"
  nest,                     \* open conditionals, outermost first
  macros,                   \* names that are defined
  effect,                   \* what the last line came to
  bad                       \* is the last line reported as ill-nested?

absVars == <<status, nest, macros, effect, bad>>

Statuses == {"idle", "running", "ok", "oom"}
Effects  == {"none", "kept", "dropped", "evaluated", "unevaluated",
             "executed", "skipped"}

(* A conditional: how many groups it has so far, those whose condition     *)
(* holds, and whether #else came.                                          *)
Conditional == [groups : Nat, holds : SUBSET Nat, closed : BOOLEAN]

FirstGroup(v) ==
  [groups |-> 1, holds |-> {g \in {1} : v}, closed |-> FALSE]

LaterGroup(c, v, closing) ==
  [groups |-> c.groups + 1,
   holds  |-> c.holds \cup {g \in {c.groups + 1} : v},
   closed |-> c.closed \/ closing]

(* The current group is processed: it is the first whose condition holds.  *)
Selected(c) == c.holds = {c.groups}

(* No group of the conditional has been the processed one yet.             *)
Unselected(c) == c.holds = {}

(* Do all the conditionals up to the k-th process their current group?     *)
Live(k) == \A i \in 1 .. k : Selected(nest[i])

Depth    == Len(nest)
Emits    == Live(Depth)
Opened(v) == Append(nest, FirstGroup(v))
NextGroup(v, closing) == [nest EXCEPT ![Depth] = LaterGroup(@, v, closing)]

Init ==
  /\ status = "idle"
  /\ nest = <<>>
  /\ macros \in SUBSET Names
  /\ effect = "none"
  /\ bad = FALSE

Start ==
  /\ status # "running"
  /\ status' = "running"
  /\ nest' = <<>>
  /\ effect' = "none"
  /\ bad' = FALSE
  /\ UNCHANGED <<macros>>

(* #if: the condition is evaluated exactly when the text around it counts. *)
If(v) ==
  /\ status = "running"
  /\ nest' = Opened(v)
  /\ effect' = IF Emits THEN "evaluated" ELSE "unevaluated"
  /\ bad' = FALSE
  /\ UNCHANGED <<status, macros>>

(* #ifdef and #ifndef ask the macro table; a malformed one is false.       *)
Ifdef(v) ==
  /\ status = "running"
  /\ nest' = Opened(v)
  /\ effect' = "none"
  /\ bad' = FALSE
  /\ UNCHANGED <<status, macros>>

Elif(v) ==
  /\ status = "running"
  /\ Depth > 0
  /\ ~nest[Depth].closed
  /\ nest' = NextGroup(v, FALSE)
  /\ effect' = IF Live(Depth - 1) /\ Unselected(nest[Depth])
               THEN "evaluated" ELSE "unevaluated"
  /\ bad' = FALSE
  /\ UNCHANGED <<status, macros>>

(* A group that must not be there is reported and never processed.         *)
ElifAfterElse ==
  /\ status = "running"
  /\ Depth > 0
  /\ nest[Depth].closed
  /\ nest' = NextGroup(FALSE, FALSE)
  /\ effect' = "unevaluated"
  /\ bad' = TRUE
  /\ UNCHANGED <<status, macros>>

Else ==
  /\ status = "running"
  /\ Depth > 0
  /\ ~nest[Depth].closed
  /\ nest' = NextGroup(TRUE, TRUE)
  /\ effect' = "none"
  /\ bad' = FALSE
  /\ UNCHANGED <<status, macros>>

Endif ==
  /\ status = "running"
  /\ Depth > 0
  /\ nest' = SubSeq(nest, 1, Depth - 1)
  /\ effect' = "none"
  /\ bad' = FALSE
  /\ UNCHANGED <<status, macros>>

(* #elif, #else or #endif with nothing open, or a second #else.            *)
Misplaced ==
  /\ status = "running"
  /\ Depth = 0 \/ nest[Depth].closed
  /\ effect' = "none"
  /\ bad' = TRUE
  /\ UNCHANGED <<status, nest, macros>>

Text ==
  /\ status = "running"
  /\ effect' = IF Emits THEN "kept" ELSE "dropped"
  /\ bad' = FALSE
  /\ UNCHANGED <<status, nest, macros>>

(* Any other directive; only #define and #undef touch the macro names.     *)
Directive ==
  /\ status = "running"
  /\ effect' = IF Emits THEN "executed" ELSE "skipped"
  /\ macros' \in SUBSET Names
  /\ macros' = macros \/ Emits
  /\ bad' = FALSE
  /\ UNCHANGED <<status, nest>>

Finish ==
  /\ status = "running"
  /\ status' = "ok"
  /\ bad' = (Depth > 0)
  /\ effect' = "none"
  /\ UNCHANGED <<nest, macros>>

(* Memory ran out: the run is given up where it stands.                    *)
Fail ==
  /\ status = "running"
  /\ status' = "oom"
  /\ effect' = "none"
  /\ bad' = FALSE
  /\ UNCHANGED <<nest, macros>>

Next ==
  \/ Start
  \/ \E v \in BOOLEAN : If(v) \/ Ifdef(v) \/ Elif(v)
  \/ ElifAfterElse
  \/ Else
  \/ Endif
  \/ Misplaced
  \/ Text
  \/ Directive
  \/ Finish
  \/ Fail

Spec == Init /\ [][Next]_absVars
==============================================================================
