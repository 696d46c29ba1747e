---------------------------- MODULE Conditionals ----------------------------
(***************************************************************************)
(* The conditional-inclusion stack of the preprocessor (pp/internal/cond.c)*)
(* as the directive layer (pp/internal/directive.c) and the driver loop    *)
(* (pp/pp.c) use it.  One action is one logical line of source, or the end *)
(* of a file: what qcc_pp_run does for it, with every call that changes    *)
(* state.  The text of lines is abstracted to what the stack can tell      *)
(* apart: a condition is its value, a macro is its name.                   *)
(*                                                                         *)
(* nest and files[i] are history: they record the source seen so far, and  *)
(* no guard reads them except to bound the instance.                       *)
(***************************************************************************)
EXTENDS Naturals, Sequences

CONSTANTS
  Names,             \* macro names
  InitialCapacity,   \* frames allocated by the first push (8 in the code)
  IncludeCap,        \* QCC_INCL_MAX_DEPTH (200 in the code)
  MaxDepth,          \* bound: open conditionals
  MaxGroups          \* bound: groups of one conditional

ASSUME BoundsAssumption ==
  /\ InitialCapacity \in Nat \ {0}
  /\ IncludeCap \in Nat \ {0}
  /\ MaxDepth \in Nat
  /\ MaxGroups \in Nat

VARIABLES
  status,            \* of qcc_pp_run; "idle" before the first run
  conds,             \* pp->conds->items[0 .. count - 1], outermost first
  capacity,          \* pp->conds->capacity
  macros,            \* names in pp->macros
  files,             \* LEXER inputs of the stream; depth of conds at each push
  report,            \* the conditional error the last line was given
  effect,            \* what the last line came to
  nest               \* history: the conditionals as the source wrote them

vars == <<status, conds, capacity, macros, files, report, effect, nest>>

Abs == INSTANCE ConditionalGroups WITH bad <- report # "none"

ErrorKinds == {"none", "elif without if", "elif after else", "else without if",
               "else after else", "endif without if", "unterminated"}

Frame == [outer_active : BOOLEAN, taken : BOOLEAN, active : BOOLEAN,
          seen_else : BOOLEAN]

Count == Len(conds)
Top   == conds[Count]

(* qcc_cond_emitting                                                       *)
Emitting == Count > 0 => Top.active

Init ==
  /\ status = "idle"
  /\ conds = <<>>
  /\ capacity = 0
  /\ macros \in SUBSET Names
  /\ files = <<>>
  /\ report = "none"
  /\ effect = "none"
  /\ nest = <<>>

(* qcc_pp_run up to its loop: the frames of an earlier run are dropped,    *)
(* the array they lived in is kept, the macros stay.                       *)
StartRun ==
  /\ status # "running"
  /\ status' = "running"
  /\ conds' = <<>>
  /\ files' = <<0>>
  /\ effect' = "none"
  /\ nest' = <<>>
  /\ report' = "none"
  /\ UNCHANGED <<capacity, macros>>

-----------------------------------------------------------------------------
(* Opening a conditional                                                   *)

(* Faulty: the region around the conditional is not asked.                 *)
NewFrameOfCond(outer, cond) ==
  [outer_active |-> cond, active |-> cond, taken |-> cond, seen_else |-> FALSE]

NewFrame(outer, cond) ==
  [outer_active |-> outer, active |-> outer /\ cond,
   taken |-> outer /\ cond, seen_else |-> FALSE]

(* Faulty: only the first allocation makes room.                           *)
GrownOnce == IF capacity = 0 THEN InitialCapacity ELSE capacity

Grown == IF capacity = 0 THEN InitialCapacity ELSE 2 * capacity

(* qcc_cond_push where memory suffices.                                    *)
Push(outer, cond) ==
  /\ Count < MaxDepth
  /\ conds' = Append(conds, NewFrame(outer, cond))
  /\ capacity' = IF Count = capacity THEN Grown ELSE capacity

(* Faulty: the condition is evaluated in a skipped group, too.             *)
DoIfEvaluates(v) ==
  /\ status = "running"
  /\ Push(Emitting, v)
  /\ effect' = "evaluated"
  /\ nest' = Abs!Opened(v)
  /\ report' = "none"
  /\ UNCHANGED <<status, macros, files>>

(* do_if.  A skipped #if is pushed with a false condition, unevaluated.    *)
DoIf(v) ==
  /\ status = "running"
  /\ Push(Emitting, Emitting /\ v)
  /\ effect' = IF Emitting THEN "evaluated" ELSE "unevaluated"
  /\ nest' = Abs!Opened(v)
  /\ report' = "none"
  /\ UNCHANGED <<status, macros, files>>

(* do_ifdef on an identifier, for #ifdef (negate false) and #ifndef.       *)
DoIfdef(m, negate) ==
  /\ status = "running"
  /\ LET cond == (m \in macros) # negate IN
       Push(Emitting, cond) /\ nest' = Abs!Opened(cond)
  /\ effect' = "none"
  /\ report' = "none"
  /\ UNCHANGED <<status, macros, files>>

(* do_ifdef on anything else: the frame is pushed all the same.            *)
DoIfdefMalformed ==
  /\ status = "running"
  /\ Push(Emitting, FALSE) /\ nest' = Abs!Opened(FALSE)
  /\ effect' = "none"
  /\ report' = "none"
  /\ UNCHANGED <<status, macros, files>>

(* Memory for a frame, a macro, a spelling or an input ran out: the loop   *)
(* of qcc_pp_run stops there.  A line that changed a frame before its rest *)
(* could not be read is its own action with this one after it.             *)
OutOfMemory ==
  /\ status = "running"
  /\ status' = "oom"
  /\ effect' = "none"
  /\ report' = "none"
  /\ UNCHANGED <<conds, capacity, macros, files, nest>>

-----------------------------------------------------------------------------
(* Moving to another group, and closing                                    *)

Misplaced(kind) ==
  /\ report' = kind
  /\ effect' = "none"
  /\ UNCHANGED <<status, conds, capacity, macros, files, nest>>

BoundGroups == nest[Len(nest)].groups < MaxGroups

DoElifWithoutIf ==
  /\ status = "running" /\ Count = 0
  /\ Misplaced("elif without if")

DoElifAfterElse ==
  /\ status = "running" /\ Count > 0
  /\ Top.seen_else
  /\ BoundGroups
  /\ conds' = [conds EXCEPT ![Count].active = FALSE]
  /\ report' = "elif after else"
  /\ effect' = "unevaluated"
  /\ nest' = Abs!NextGroup(FALSE, FALSE)
  /\ UNCHANGED <<status, capacity, macros, files>>

(* Faulty: the group is entered and not recorded as taken.                 *)
DoElifNotTaken(v) ==
  /\ status = "running" /\ Count > 0
  /\ ~Top.seen_else
  /\ BoundGroups
  /\ LET eval == Top.outer_active /\ ~Top.taken IN
       /\ conds' = [conds EXCEPT ![Count].active = eval /\ v]
       /\ effect' = IF eval THEN "evaluated" ELSE "unevaluated"
  /\ nest' = Abs!NextGroup(v, FALSE)
  /\ report' = "none"
  /\ UNCHANGED <<status, capacity, macros, files>>

(* do_elif on an open conditional whose groups are still legal.            *)
DoElif(v) ==
  /\ status = "running" /\ Count > 0
  /\ ~Top.seen_else
  /\ BoundGroups
  /\ IF Top.outer_active /\ ~Top.taken
     THEN /\ conds' = [conds EXCEPT ![Count].active = v, ![Count].taken = v]
          /\ effect' = "evaluated"
     ELSE /\ conds' = [conds EXCEPT ![Count].active = FALSE]
          /\ effect' = "unevaluated"
  /\ nest' = Abs!NextGroup(v, FALSE)
  /\ report' = "none"
  /\ UNCHANGED <<status, capacity, macros, files>>

DoElseWithoutIf ==
  /\ status = "running" /\ Count = 0
  /\ Misplaced("else without if")

(* A second #else is reported and the frame is left as it is.              *)
DoElseAfterElse ==
  /\ status = "running" /\ Count > 0
  /\ Top.seen_else
  /\ Misplaced("else after else")

(* Faulty: #else is the group of last resort even after a taken one.       *)
DoElseAgain ==
  /\ status = "running" /\ Count > 0
  /\ ~Top.seen_else
  /\ BoundGroups
  /\ conds' = [conds EXCEPT ![Count].seen_else = TRUE,
                            ![Count].active = Top.outer_active,
                            ![Count].taken = TRUE]
  /\ effect' = "none"
  /\ nest' = Abs!NextGroup(TRUE, TRUE)
  /\ report' = "none"
  /\ UNCHANGED <<status, capacity, macros, files>>

(* do_else.                                                                *)
DoElse ==
  /\ status = "running" /\ Count > 0
  /\ ~Top.seen_else
  /\ BoundGroups
  /\ LET select == Top.outer_active /\ ~Top.taken IN
       conds' = [conds EXCEPT ![Count].seen_else = TRUE,
                              ![Count].active = select,
                              ![Count].taken = @ \/ select]
  /\ effect' = "none"
  /\ nest' = Abs!NextGroup(TRUE, TRUE)
  /\ report' = "none"
  /\ UNCHANGED <<status, capacity, macros, files>>

DoEndif ==
  /\ status = "running" /\ Count > 0
  /\ conds' = SubSeq(conds, 1, Count - 1)
  /\ effect' = "none"
  /\ nest' = SubSeq(nest, 1, Len(nest) - 1)
  /\ report' = "none"
  /\ UNCHANGED <<status, capacity, macros, files>>

DoEndifWithoutIf ==
  /\ status = "running" /\ Count = 0
  /\ Misplaced("endif without if")

-----------------------------------------------------------------------------
(* Text and the other directives                                           *)

(* A token of the translation unit: to the output, or dropped.             *)
TextToken ==
  /\ status = "running"
  /\ effect' = IF Emitting THEN "kept" ELSE "dropped"
  /\ report' = "none"
  /\ UNCHANGED <<status, conds, capacity, macros, files, nest>>

(* qcc_pp_directive on a directive that is not conditional, which is inert *)
(* in a skipped group; defined is the set of macros an executed one leaves.*)
OtherDirective(defined) ==
  /\ status = "running"
  /\ IF Emitting
     THEN macros' = defined /\ effect' = "executed"
     ELSE macros' = macros  /\ effect' = "skipped"
  /\ report' = "none"
  /\ UNCHANGED <<status, conds, capacity, files, nest>>

DoDefine(m) == OtherDirective(macros \cup {m})
DoUndef(m)  == OtherDirective(macros \ {m})
DoInert     == OtherDirective(macros)     \* #error, #pragma, #line, malformed

(* do_include where a file was found; past the cap it is refused (DoInert).*)
DoInclude ==
  /\ status = "running"
  /\ Emitting
  /\ Len(files) < IncludeCap
  /\ files' = Append(files, Count)
  /\ effect' = "executed"
  /\ report' = "none"
  /\ UNCHANGED <<status, conds, capacity, macros, nest>>

(* qcc_pp_stream_next at the end of an included file: its input is popped  *)
(* and the includer goes on; nothing looks at the conditionals.            *)
EndOfInclude ==
  /\ status = "running"
  /\ Len(files) > 1
  /\ files' = SubSeq(files, 1, Len(files) - 1)
  /\ UNCHANGED <<status, conds, capacity, macros, report, effect, nest>>

(* The end of the outermost file.                                          *)
EndOfUnit ==
  /\ status = "running"
  /\ Len(files) = 1
  /\ status' = "ok"
  /\ files' = <<>>
  /\ report' = IF Count # 0 THEN "unterminated" ELSE "none"
  /\ effect' = "none"
  /\ UNCHANGED <<conds, capacity, macros, nest>>

-----------------------------------------------------------------------------
Next ==
  \/ StartRun
  \/ \E v \in BOOLEAN : DoIf(v) \/ DoElif(v)
  \/ \E m \in Names, negate \in BOOLEAN : DoIfdef(m, negate)
  \/ \E m \in Names : DoDefine(m) \/ DoUndef(m)
  \/ DoIfdefMalformed
  \/ DoElifWithoutIf \/ DoElifAfterElse
  \/ DoElseWithoutIf \/ DoElseAfterElse \/ DoElse
  \/ DoEndif \/ DoEndifWithoutIf
  \/ TextToken \/ DoInert
  \/ DoInclude \/ EndOfInclude \/ EndOfUnit
  \/ OutOfMemory

Spec == Init /\ [][Next]_vars

-----------------------------------------------------------------------------
(* Properties                                                              *)

(* Types of the variables, and the array always holds the frames that are  *)
(* counted (cond.c writes items[count] after the check of qcc_cond_push).  *)
TypeOK ==
  /\ status \in Abs!Statuses
  /\ conds \in Seq(Frame)
  /\ capacity \in Nat
  /\ Count <= capacity
  /\ macros \in SUBSET Names
  /\ files \in Seq(Nat)
  /\ report \in ErrorKinds
  /\ effect \in Abs!Effects
  /\ nest \in Seq(Abs!Conditional)

(* A frame's outer_active, stored once by qcc_cond_push, stays equal to    *)
(* the live answer to "is the region around me emitting?": the frame below *)
(* never changes its active flag while another conditional is open on it.  *)
FramesNested ==
  \A i \in 1 .. Count :
    conds[i].outer_active <=> (i = 1 \/ conds[i - 1].active)

(* The three flags of each frame say of the source what 6.10.1 asks: the   *)
(* current group is processed iff it is the first true one and so are all  *)
(* the groups around it; taken iff some group was; seen_else iff #else was.*)
FlagsMatchSource ==
  /\ Len(nest) = Count
  /\ \A i \in 1 .. Count :
       /\ nest[i].holds \subseteq 1 .. nest[i].groups
       /\ conds[i].active <=> \A j \in 1 .. i : Abs!Selected(nest[j])
       /\ conds[i].taken <=> conds[i].outer_active /\ ~Abs!Unselected(nest[i])
       /\ conds[i].seen_else <=> nest[i].closed

(* The inductive invariant behind both and behind the refinement.          *)
IInv == TypeOK /\ FramesNested /\ FlagsMatchSource

(* Inside a skipped group nothing happens however deep the source nests    *)
(* and whatever it writes there: no text is kept, no expression evaluated, *)
(* no directive executed, until the skipping conditional itself moves on.  *)
SkippedIsInert ==
  [][(status = "running" /\ \E i \in 1 .. Count - 1 : ~conds[i].active)
       => /\ macros' = macros
          /\ \/ files' = SubSeq(files, 1, Len(files) - 1)
             \/ /\ files' = files
                /\ effect' \in {"none", "dropped", "unevaluated", "skipped"}]_vars

(* At most one group of a conditional is ever taken: once taken, a frame   *)
(* that leaves its group is never active again before its #endif.          *)
AtMostOneGroup ==
  [][\A i \in 1 .. Count :
       (i <= Len(conds') /\ status' = "running" /\ status = "running"
          /\ conds[i].taken /\ ~conds[i].active) => ~conds'[i].active]_vars

(* The flags implement the promise on groups (module ConditionalGroups).   *)
ImplementsGroups == Abs!Spec

(* pp.c: a conditional left open at end of file is an error.  Taken at its *)
(* word, for each file: an included file that ends inside a conditional it *)
(* opened is reported.                                                     *)
OpenAtEndOfFileIsAnError ==
  [][(status = "running" /\ Len(files) > 0 /\ Len(files') = Len(files) - 1
        /\ Count > files[Len(files)])
       => report' = "unterminated"]_vars
=============================================================================
