------------------------- MODULE ConditionalsProofs -------------------------
(***************************************************************************)
(* Theorems about module Conditionals, for every set of names and every    *)
(* value of the bounds, and the proofs TLAPS checks.                       *)
(*                                                                         *)
(* Three kinds of step change the stack: one opens a conditional, one      *)
(* moves the top frame to another group, one drops the top frame.  Each    *)
(* has a lemma that it keeps the invariant; the actions are instances.     *)
(***************************************************************************)
EXTENDS Conditionals, TLAPS

(* The condition of a first group decides whether it is selected.          *)
LEMMA SelectedFirst ==
  ASSUME NEW v \in BOOLEAN
  PROVE  /\ Abs!Selected(Abs!FirstGroup(v)) <=> v
         /\ Abs!Unselected(Abs!FirstGroup(v)) <=> ~v
         /\ Abs!FirstGroup(v) \in Abs!Conditional
         /\ Abs!FirstGroup(v).holds \subseteq 1 .. Abs!FirstGroup(v).groups
         /\ Abs!FirstGroup(v).closed = FALSE
BY DEF Abs!Selected, Abs!Unselected, Abs!Conditional, Abs!FirstGroup

(* A later group is selected iff its condition holds and none before did.  *)
LEMMA SelectedLater ==
  ASSUME NEW c \in Abs!Conditional, NEW v \in BOOLEAN, NEW e \in BOOLEAN,
         c.holds \subseteq 1 .. c.groups
  PROVE  /\ Abs!Selected(Abs!LaterGroup(c, v, e)) <=> (v /\ Abs!Unselected(c))
         /\ Abs!Unselected(Abs!LaterGroup(c, v, e)) <=>
              (~v /\ Abs!Unselected(c))
         /\ Abs!LaterGroup(c, v, e) \in Abs!Conditional
         /\ Abs!LaterGroup(c, v, e).holds
              \subseteq 1 .. Abs!LaterGroup(c, v, e).groups
         /\ Abs!LaterGroup(c, v, e).closed <=> (c.closed \/ e)
<1> DEFINE d == Abs!LaterGroup(c, v, e)
<1>1. c.groups \in Nat /\ c.holds \subseteq 1 .. c.groups /\ c.closed \in BOOLEAN
  BY DEF Abs!Conditional
<1>2. /\ d.groups = c.groups + 1
      /\ d.holds = c.holds \cup {g \in {c.groups + 1} : v}
      /\ d.closed = (c.closed \/ e)
  BY DEF Abs!LaterGroup
<1>3. d \in Abs!Conditional
  BY <1>1 DEF Abs!Conditional, Abs!LaterGroup
<1>4. Abs!Selected(d) <=> (v /\ Abs!Unselected(c))
  BY <1>1, <1>2 DEF Abs!Selected, Abs!Unselected
<1>5. Abs!Unselected(d) <=> (~v /\ Abs!Unselected(c))
  BY <1>1, <1>2 DEF Abs!Unselected
<1>6. d.holds \subseteq 1 .. d.groups
  BY <1>1, <1>2
<1> QED BY <1>1, <1>2, <1>3, <1>4, <1>5, <1>6

-----------------------------------------------------------------------------
(* What the invariant says of the i-th frame and of its conditional.       *)
FrameOK(i) ==
  /\ conds[i].outer_active <=> (i = 1 \/ conds[i - 1].active)
  /\ nest[i].holds \subseteq 1 .. nest[i].groups
  /\ conds[i].active <=> \A j \in 1 .. i : Abs!Selected(nest[j])
  /\ conds[i].taken <=> conds[i].outer_active /\ ~Abs!Unselected(nest[i])
  /\ conds[i].seen_else <=> nest[i].closed

Stack ==
  /\ conds \in Seq(Frame)
  /\ nest \in Seq(Abs!Conditional)
  /\ Len(nest) = Len(conds)
  /\ \A i \in 1 .. Len(conds) : FrameOK(i)

LEMMA StackDef ==
  Stack <=> /\ conds \in Seq(Frame)
            /\ nest \in Seq(Abs!Conditional)
            /\ FramesNested
            /\ FlagsMatchSource
BY DEF Stack, FrameOK, FramesNested, FlagsMatchSource, Count

(* The top frame answers for the whole stack: qcc_cond_emitting, which     *)
(* reads one flag, is the conjunction over all the open conditionals.      *)
LEMMA EmittingIsLive ==
  ASSUME Stack
  PROVE  /\ Emitting \in BOOLEAN
         /\ Emitting <=> \A j \in 1 .. Count : Abs!Selected(nest[j])
         /\ Count \in Nat
         /\ Count > 0 => Top \in Frame
<1>1. Count \in Nat /\ conds \in Seq(Frame)
  BY DEF Stack, Count
<1>2. CASE Count = 0
  BY <1>1, <1>2 DEF Emitting
<1>3. CASE Count > 0
  <2>1. Top \in Frame
    BY <1>1, <1>3 DEF Top, Count
  <2>2. FrameOK(Count)
    BY <1>1, <1>3 DEF Stack, Count
  <2> QED BY <1>1, <1>3, <2>1, <2>2 DEF Emitting, FrameOK, Top, Frame
<1> QED BY <1>1, <1>2, <1>3

-----------------------------------------------------------------------------
(* Opening a conditional whose stored condition agrees with the source     *)
(* wherever the region is emitting keeps the invariant.                    *)
LEMMA OpenKeepsStack ==
  ASSUME Stack, NEW n \in Nat, Len(conds) = n,
         NEW v \in BOOLEAN, NEW w \in BOOLEAN,
         Emitting => (w <=> v),
         conds' = Append(conds, NewFrame(Emitting, w)),
         nest' = Abs!Opened(v)
  PROVE  Stack'
<1> DEFINE f == NewFrame(Emitting, w)
           c == Abs!FirstGroup(v)
<1>1. /\ Count = n
      /\ conds \in Seq(Frame)
      /\ nest \in Seq(Abs!Conditional)
      /\ Len(nest) = n
  BY DEF Stack, Count
<1>2. Emitting \in BOOLEAN
  BY EmittingIsLive
<1>3. f \in Frame
  BY <1>2 DEF NewFrame, Frame
<1>4. /\ conds' \in Seq(Frame)
      /\ Len(conds') = n + 1
      /\ conds'[n + 1] = f
      /\ \A i \in 1 .. n : conds'[i] = conds[i]
  BY <1>1, <1>3
<1>5. /\ nest' \in Seq(Abs!Conditional)
      /\ Len(nest') = n + 1
      /\ nest'[n + 1] = c
      /\ \A i \in 1 .. n : nest'[i] = nest[i]
  <2> c \in Abs!Conditional
    BY SelectedFirst
  <2> HIDE DEF c
  <2> nest' = Append(nest, c)
    BY DEF Abs!Opened, c
  <2> QED BY <1>1
<1>6. ASSUME NEW i \in 1 .. n
      PROVE  FrameOK(i)'
  <2>1. FrameOK(i)
    BY DEF Stack
  <2>2. conds'[i] = conds[i] /\ nest'[i] = nest[i]
    BY <1>1, <1>4, <1>5
  <2>3. i = 1 \/ conds'[i - 1] = conds[i - 1]
    BY <1>1, <1>4
  <2>4. (\A j \in 1 .. i : Abs!Selected(nest'[j]))
          <=> \A j \in 1 .. i : Abs!Selected(nest[j])
    BY <1>1, <1>5
  <2> QED BY <2>1, <2>2, <2>3, <2>4 DEF FrameOK
<1>7. FrameOK(n + 1)'
  <2>1. f.outer_active <=> (n + 1 = 1 \/ conds'[n].active)
    <3>1. f.outer_active = Emitting
      BY DEF NewFrame
    <3>2. Emitting <=> (n = 0 \/ conds[n].active)
      BY <1>1 DEF Emitting, Top
    <3>3. n = 0 \/ conds'[n] = conds[n]
      BY <1>1, <1>4
    <3> QED BY <1>1, <3>1, <3>2, <3>3
  <2>2. c.holds \subseteq 1 .. c.groups /\ f.seen_else = c.closed
    BY SelectedFirst DEF NewFrame
  <2>3. f.active <=> \A j \in 1 .. n + 1 : Abs!Selected(nest'[j])
    <3>1. f.active <=> Emitting /\ v
      BY <1>2 DEF NewFrame
    <3>2. Abs!Selected(nest'[n + 1]) <=> v
      BY <1>5, SelectedFirst
    <3>3. (\A j \in 1 .. n : Abs!Selected(nest'[j])) <=> Emitting
      BY <1>1, <1>5, EmittingIsLive
    <3> QED BY <1>1, <3>1, <3>2, <3>3
  <2>4. f.taken <=> f.outer_active /\ ~Abs!Unselected(c)
    BY <1>2, SelectedFirst DEF NewFrame
  <2> HIDE DEF f, c
  <2>5. conds'[n + 1] = f /\ nest'[n + 1] = c /\ (n + 1) - 1 = n
    BY <1>1, <1>4, <1>5
  <2> QED BY <2>1, <2>2, <2>3, <2>4, <2>5 DEF FrameOK
<1>8. \A i \in 1 .. n + 1 : FrameOK(i)'
  BY <1>1, <1>6, <1>7
<1> QED BY <1>4, <1>5, <1>8 DEF Stack

(* Moving the top frame to another group keeps the invariant when the new  *)
(* flags agree with the group that was added; the frames below are not     *)
(* touched, so neither is anything they say.                               *)
LEMMA RegroupKeepsStack ==
  ASSUME Stack, NEW n \in Nat, Len(conds) = n, n > 0,
         NEW v \in BOOLEAN, NEW e \in BOOLEAN, NEW f \in Frame,
         f.outer_active = Top.outer_active,
         f.active <=> Top.outer_active /\ v /\ Abs!Unselected(nest[n]),
         f.taken <=> Top.taken \/ f.active,
         f.seen_else <=> Top.seen_else \/ e,
         conds' = [conds EXCEPT ![n] = f],
         nest' = Abs!NextGroup(v, e)
  PROVE  Stack'
<1> DEFINE c == Abs!LaterGroup(nest[n], v, e)
<1>1. /\ Count = n /\ Top = conds[n]
      /\ conds \in Seq(Frame)
      /\ nest \in Seq(Abs!Conditional)
      /\ Len(nest) = n
      /\ FrameOK(n)
      /\ nest[n] \in Abs!Conditional
      /\ conds[n] \in Frame
  BY DEF Stack, Count, Top
<1>2. /\ conds' \in Seq(Frame)
      /\ Len(conds') = n
      /\ conds'[n] = f
      /\ \A i \in 1 .. n - 1 : conds'[i] = conds[i]
  BY <1>1
<1>3. /\ c \in Abs!Conditional
      /\ Abs!Selected(c) <=> (v /\ Abs!Unselected(nest[n]))
      /\ Abs!Unselected(c) <=> (~v /\ Abs!Unselected(nest[n]))
      /\ c.holds \subseteq 1 .. c.groups
      /\ c.closed <=> (nest[n].closed \/ e)
  BY <1>1, SelectedLater DEF FrameOK
<1> HIDE DEF c
<1>4. /\ nest' \in Seq(Abs!Conditional)
      /\ Len(nest') = n
      /\ nest'[n] = c
      /\ \A i \in 1 .. n - 1 : nest'[i] = nest[i]
  <2> nest' = [nest EXCEPT ![n] = c]
    BY <1>1 DEF Abs!NextGroup, Abs!Depth, c
  <2> QED BY <1>1, <1>3
<1>5. ASSUME NEW i \in 1 .. n - 1
      PROVE  FrameOK(i)'
  <2>1. FrameOK(i)
    BY DEF Stack
  <2>2. conds'[i] = conds[i] /\ nest'[i] = nest[i]
    BY <1>2, <1>4
  <2>3. i = 1 \/ conds'[i - 1] = conds[i - 1]
    BY <1>2
  <2>4. (\A j \in 1 .. i : Abs!Selected(nest'[j]))
          <=> \A j \in 1 .. i : Abs!Selected(nest[j])
    BY <1>4
  <2> QED BY <2>1, <2>2, <2>3, <2>4 DEF FrameOK
<1>6. FrameOK(n)'
  <2>1. f.outer_active <=> (n = 1 \/ conds'[n - 1].active)
    BY <1>1, <1>2 DEF FrameOK
  <2>2. f.outer_active <=> \A j \in 1 .. n - 1 : Abs!Selected(nest[j])
    <3>1. CASE n = 1
      BY <1>1, <3>1 DEF FrameOK
    <3>2. CASE n > 1
      <4>1. FrameOK(n - 1)
        BY <3>2 DEF Stack
      <4> QED BY <1>1, <3>2, <4>1 DEF FrameOK
    <3> QED BY <3>1, <3>2
  <2>3. (\A j \in 1 .. n : Abs!Selected(nest'[j]))
          <=> /\ \A j \in 1 .. n - 1 : Abs!Selected(nest[j])
              /\ Abs!Selected(c)
    BY <1>4
  <2>4. f.active <=> \A j \in 1 .. n : Abs!Selected(nest'[j])
    BY <1>1, <1>3, <2>2, <2>3
  <2>5. f.taken <=> f.outer_active /\ ~Abs!Unselected(c)
    BY <1>1, <1>3 DEF FrameOK, Frame
  <2>6. f.seen_else <=> c.closed
    BY <1>1, <1>3 DEF FrameOK
  <2> QED BY <1>2, <1>3, <1>4, <2>1, <2>4, <2>5, <2>6 DEF FrameOK
<1>7. \A i \in 1 .. n : FrameOK(i)'
  BY <1>5, <1>6
<1> QED BY <1>2, <1>4, <1>7 DEF Stack

(* Dropping the top frame keeps the invariant.                             *)
LEMMA CloseKeepsStack ==
  ASSUME Stack, NEW n \in Nat, Len(conds) = n, n > 0,
         conds' = SubSeq(conds, 1, n - 1),
         nest' = SubSeq(nest, 1, n - 1)
  PROVE  Stack'
<1>1. /\ conds \in Seq(Frame)
      /\ nest \in Seq(Abs!Conditional)
      /\ Len(nest) = n
  BY DEF Stack
<1>2. /\ conds' \in Seq(Frame)
      /\ Len(conds') = n - 1
      /\ \A i \in 1 .. n - 1 : conds'[i] = conds[i]
  BY <1>1
<1>3. /\ nest' \in Seq(Abs!Conditional)
      /\ Len(nest') = n - 1
      /\ \A i \in 1 .. n - 1 : nest'[i] = nest[i]
  BY <1>1
<1>4. ASSUME NEW i \in 1 .. n - 1
      PROVE  FrameOK(i)'
  <2>1. FrameOK(i)
    BY DEF Stack
  <2>2. conds'[i] = conds[i] /\ nest'[i] = nest[i]
    BY <1>2, <1>3
  <2>3. i = 1 \/ conds'[i - 1] = conds[i - 1]
    BY <1>2
  <2>4. (\A j \in 1 .. i : Abs!Selected(nest'[j]))
          <=> \A j \in 1 .. i : Abs!Selected(nest[j])
    BY <1>3
  <2> QED BY <2>1, <2>2, <2>3, <2>4 DEF FrameOK
<1>5. \A i \in 1 .. n - 1 : FrameOK(i)'
  BY <1>4
<1> QED BY <1>2, <1>3, <1>5 DEF Stack

-----------------------------------------------------------------------------
LEMMA InitIInv == Init => IInv
BY DEF Init, IInv, TypeOK, FramesNested, FlagsMatchSource, Count, ErrorKinds,
       Abs!Statuses, Abs!Effects

(* The flags DoElif and DoElse store, as the premises of the lemma ask.    *)
LEMMA ElifStep ==
  ASSUME Stack, NEW v \in BOOLEAN, DoElif(v)
  PROVE  Stack'
<1> DEFINE f == IF Top.outer_active /\ ~Top.taken
                THEN [Top EXCEPT !.active = v, !.taken = v]
                ELSE [Top EXCEPT !.active = FALSE]
<1>0. Count > 0
  BY DEF DoElif
<1>1. PICK k \in Nat : k = Len(conds) /\ k = Count /\ k > 0
  <2>1. Count \in Nat
    BY EmittingIsLive
  <2>2. Count = Len(conds)
    BY DEF Count
  <2> QED BY ONLY <1>0, <2>1, <2>2
<1>2. FrameOK(k) /\ Top = conds[k] /\ Top \in Frame
  BY <1>1, EmittingIsLive DEF Stack, Top
<1>3. /\ f \in Frame
      /\ f.outer_active = Top.outer_active
      /\ f.seen_else = Top.seen_else
  BY <1>2 DEF Frame
<1>4. f.active <=> Top.outer_active /\ v /\ Abs!Unselected(nest[k])
  BY <1>2 DEF Frame, FrameOK
<1>5. f.taken <=> Top.taken \/ f.active
  BY <1>2 DEF Frame
<1>6. conds' = [conds EXCEPT ![k] = f]
  BY <1>1, <1>2 DEF DoElif, Stack, Top
<1>7. nest' = Abs!NextGroup(v, FALSE)
  BY DEF DoElif
<1>8. f.seen_else <=> Top.seen_else \/ FALSE
  BY <1>2, <1>3 DEF Frame
<1> HIDE DEF f
<1> QED BY <1>1, <1>3, <1>4, <1>5, <1>6, <1>7, <1>8, RegroupKeepsStack

LEMMA ElifAfterElseStep ==
  ASSUME Stack, DoElifAfterElse
  PROVE  Stack'
<1> DEFINE f == [Top EXCEPT !.active = FALSE]
<1>0. Count > 0
  BY DEF DoElifAfterElse
<1>1. PICK k \in Nat : k = Len(conds) /\ k = Count /\ k > 0
  <2>1. Count \in Nat
    BY EmittingIsLive
  <2>2. Count = Len(conds)
    BY DEF Count
  <2> QED BY ONLY <1>0, <2>1, <2>2
<1>2. Top = conds[k] /\ Top \in Frame
  BY <1>1, EmittingIsLive DEF Top
<1>3. /\ f \in Frame
      /\ f.outer_active = Top.outer_active
      /\ f.active <=> Top.outer_active /\ FALSE /\ Abs!Unselected(nest[k])
      /\ f.taken <=> Top.taken \/ f.active
      /\ f.seen_else <=> Top.seen_else \/ FALSE
  BY <1>2 DEF Frame
<1>4. conds' = [conds EXCEPT ![k] = f]
  BY <1>1, <1>2 DEF DoElifAfterElse, Stack, Top
<1>5. nest' = Abs!NextGroup(FALSE, FALSE)
  BY DEF DoElifAfterElse
<1> HIDE DEF f
<1> QED BY <1>1, <1>3, <1>4, <1>5, RegroupKeepsStack

LEMMA ElseStep ==
  ASSUME Stack, DoElse
  PROVE  Stack'
<1> DEFINE s == Top.outer_active /\ ~Top.taken
           f == [Top EXCEPT !.seen_else = TRUE, !.active = s, !.taken = @ \/ s]
<1>0. Count > 0
  BY DEF DoElse
<1>1. PICK k \in Nat : k = Len(conds) /\ k = Count /\ k > 0
  <2>1. Count \in Nat
    BY EmittingIsLive
  <2>2. Count = Len(conds)
    BY DEF Count
  <2> QED BY ONLY <1>0, <2>1, <2>2
<1>2. FrameOK(k) /\ Top = conds[k] /\ Top \in Frame
  BY <1>1, EmittingIsLive DEF Stack, Top
<1>3. /\ f \in Frame
      /\ f.outer_active = Top.outer_active
      /\ f.active <=> Top.outer_active /\ TRUE /\ Abs!Unselected(nest[k])
      /\ f.taken <=> Top.taken \/ f.active
      /\ f.seen_else <=> Top.seen_else \/ TRUE
  BY <1>2 DEF Frame, FrameOK
<1>4. conds' = [conds EXCEPT ![k] = f]
  BY <1>1, <1>2 DEF DoElse, Stack, Top
<1>5. nest' = Abs!NextGroup(TRUE, TRUE)
  BY DEF DoElse
<1> HIDE DEF f
<1> QED BY <1>1, <1>3, <1>4, <1>5, RegroupKeepsStack

(* Every step keeps the stack and its history in agreement.                *)
LEMMA StackStep ==
  ASSUME Stack, [Next]_vars
  PROVE  Stack'
<1>0. Emitting \in BOOLEAN
  BY EmittingIsLive
<1>1. PICK k \in Nat : k = Len(conds) /\ k = Count
  BY DEF Stack, Count
<1>2. CASE StartRun
  BY <1>2 DEF StartRun, Stack
<1>3. ASSUME NEW v \in BOOLEAN, DoIf(v)
      PROVE  Stack'
  <2>1. conds' = Append(conds, NewFrame(Emitting, Emitting /\ v))
    BY <1>3 DEF DoIf, Push
  <2>2. nest' = Abs!Opened(v)
    BY <1>3 DEF DoIf
  <2> QED BY <1>0, <1>1, <2>1, <2>2, OpenKeepsStack
<1>4. ASSUME NEW m \in Names, NEW negate \in BOOLEAN, DoIfdef(m, negate)
      PROVE  Stack'
  <2> DEFINE cond == (m \in macros) # negate
  <2>1. conds' = Append(conds, NewFrame(Emitting, cond))
    BY <1>4 DEF DoIfdef, Push
  <2>2. nest' = Abs!Opened(cond)
    BY <1>4 DEF DoIfdef
  <2>3. cond \in BOOLEAN
    OBVIOUS
  <2> HIDE DEF cond
  <2> QED BY <1>0, <1>1, <2>1, <2>2, <2>3, OpenKeepsStack
<1>5. CASE DoIfdefMalformed
  <2>1. conds' = Append(conds, NewFrame(Emitting, FALSE))
    BY <1>5 DEF DoIfdefMalformed, Push
  <2>2. nest' = Abs!Opened(FALSE)
    BY <1>5 DEF DoIfdefMalformed
  <2> QED BY <1>0, <1>1, <2>1, <2>2, OpenKeepsStack
<1>6. ASSUME NEW v \in BOOLEAN, DoElif(v)
      PROVE  Stack'
  BY <1>6, ElifStep
<1>7. CASE DoElifAfterElse
  BY <1>7, ElifAfterElseStep
<1>8. CASE DoElse
  BY <1>8, ElseStep
<1>9. CASE DoEndif
  <2>1. Len(nest) = k
    BY <1>1 DEF Stack
  <2> QED BY <1>1, <1>9, <2>1, CloseKeepsStack DEF DoEndif
<1>10. CASE UNCHANGED <<conds, nest>>
  BY <1>10 DEF Stack, FrameOK
<1> QED
  BY <1>2, <1>3, <1>4, <1>5, <1>6, <1>7, <1>8, <1>9, <1>10
  DEF Next, vars, DoElifWithoutIf, DoElseWithoutIf, DoElseAfterElse,
      DoEndifWithoutIf, Misplaced, TextToken, DoInert, DoDefine, DoUndef,
      OtherDirective, DoInclude, EndOfInclude, EndOfUnit, OutOfMemory

-----------------------------------------------------------------------------
(* The array is never written past its end: a push into a full array first *)
(* makes it at least one frame longer.                                     *)
LEMMA PushFits ==
  ASSUME TypeOK, NEW outer \in BOOLEAN, NEW cond \in BOOLEAN,
         Push(outer, cond)
  PROVE  /\ capacity' \in Nat
         /\ Len(conds') <= capacity'
<1>1. Count \in Nat /\ capacity \in Nat /\ Count <= capacity
  BY DEF TypeOK, Count
<1>2. Len(conds') = Count + 1
  BY DEF TypeOK, Count, Push, NewFrame, Frame
<1>3. capacity' = IF Count = capacity THEN Grown ELSE capacity
  BY DEF Push
<1>4. Grown \in Nat /\ Grown > capacity
  BY <1>1, BoundsAssumption DEF Grown
<1> QED BY <1>1, <1>2, <1>3, <1>4

LEMMA CapacityStep ==
  ASSUME TypeOK, Emitting \in BOOLEAN, [Next]_vars, conds' \in Seq(Frame)
  PROVE  capacity' \in Nat /\ Count' <= capacity'
<1>1. PICK k \in Nat : k = Len(conds) /\ k = Count /\ k <= capacity
  BY DEF TypeOK, Count
<1>2. capacity \in Nat /\ conds \in Seq(Frame)
  BY DEF TypeOK
<1>3. ASSUME NEW outer \in BOOLEAN, NEW cond \in BOOLEAN, Push(outer, cond)
      PROVE  capacity' \in Nat /\ Count' <= capacity'
  BY <1>3, PushFits DEF Count
<1>4. ASSUME capacity' = capacity, Count' <= k, Count' \in Nat
      PROVE  capacity' \in Nat /\ Count' <= capacity'
  BY <1>1, <1>2, <1>4
<1>5. ASSUME NEW v \in BOOLEAN, DoIf(v)
      PROVE  capacity' \in Nat /\ Count' <= capacity'
  <2>1. Push(Emitting, Emitting /\ v)
    BY <1>5 DEF DoIf
  <2> QED BY <1>3, <2>1
<1>6. ASSUME NEW m \in Names, NEW negate \in BOOLEAN, DoIfdef(m, negate)
      PROVE  capacity' \in Nat /\ Count' <= capacity'
  <2>1. Push(Emitting, (m \in macros) # negate)
    BY <1>6 DEF DoIfdef
  <2> QED BY <1>3, <2>1
<1>7. CASE DoIfdefMalformed
  <2>1. Push(Emitting, FALSE)
    BY <1>7 DEF DoIfdefMalformed
  <2> QED BY <1>3, <2>1
<1>8. CASE StartRun
  BY <1>2, <1>8 DEF StartRun, Count
<1>9. ASSUME NEW f, conds' = [conds EXCEPT ![k] = f], capacity' = capacity
      PROVE  capacity' \in Nat /\ Count' <= capacity'
  <2>1. Len(conds') = k
    <3>1. DOMAIN conds' = DOMAIN conds
      BY <1>9
    <3>2. Len(conds') \in Nat /\ DOMAIN conds' = 1 .. Len(conds')
      OBVIOUS
    <3>3. Len(conds) \in Nat /\ DOMAIN conds = 1 .. Len(conds)
      BY <1>2
    <3>4. 1 .. Len(conds') = 1 .. Len(conds)
      BY ONLY <3>1, <3>2, <3>3
    <3>5. \A a, b \in Nat : 1 .. a = 1 .. b => a = b
      OBVIOUS
    <3> QED BY ONLY <1>1, <3>2, <3>3, <3>4, <3>5
  <2> QED BY <1>1, <1>4, <1>9, <2>1 DEF Count
<1>10. ASSUME NEW v \in BOOLEAN, DoElif(v)
       PROVE  capacity' \in Nat /\ Count' <= capacity'
  <2>1. capacity' = capacity
    BY <1>10 DEF DoElif
  <2>2. \E f : conds' = [conds EXCEPT ![k] = f]
    BY <1>1, <1>10 DEF DoElif
  <2> QED BY <1>9, <2>1, <2>2
<1>11. CASE DoElifAfterElse
  <2>1. \E f : conds' = [conds EXCEPT ![k] = f]
    BY <1>1, <1>11 DEF DoElifAfterElse
  <2> QED BY <1>9, <1>11, <2>1 DEF DoElifAfterElse
<1>12. CASE DoElse
  <2>1. \E f : conds' = [conds EXCEPT ![k] = f]
    BY <1>1, <1>12 DEF DoElse
  <2> QED BY <1>9, <1>12, <2>1 DEF DoElse
<1>13. CASE DoEndif
  <2>1. /\ conds' = SubSeq(conds, 1, k - 1)
        /\ k > 0
        /\ capacity' = capacity
    BY <1>1, <1>13 DEF DoEndif
  <2>2. Len(conds') = k - 1
    BY <1>1, <1>2, <2>1
  <2> QED BY <1>4, <2>1, <2>2 DEF Count
<1>14. CASE UNCHANGED <<conds, capacity>>
  BY <1>1, <1>4, <1>14 DEF Count
<1> QED
  BY <1>5, <1>6, <1>7, <1>8, <1>10, <1>11, <1>12, <1>13, <1>14
  DEF Next, vars, DoElifWithoutIf, DoElseWithoutIf, DoElseAfterElse,
      DoEndifWithoutIf, Misplaced, TextToken, DoInert, DoDefine, DoUndef,
      OtherDirective, DoInclude, EndOfInclude, EndOfUnit, OutOfMemory

LEMMA DepthsType ==
  ASSUME NEW s \in Seq(Nat)
  PROVE  /\ <<>> \in Seq(Nat) /\ <<0>> \in Seq(Nat)
         /\ \A n \in Nat : Append(s, n) \in Seq(Nat)
         /\ Len(s) > 1 => SubSeq(s, 1, Len(s) - 1) \in Seq(Nat)
OBVIOUS

(* The variables that are neither the array nor the history.               *)
Fields ==
  /\ status \in Abs!Statuses
  /\ macros \in SUBSET Names
  /\ files \in Seq(Nat)
  /\ report \in ErrorKinds
  /\ effect \in Abs!Effects

LEMMA FieldsStep ==
  ASSUME Fields, Emitting \in BOOLEAN, Count \in Nat, [Next]_vars
  PROVE  Fields'
<1>0. /\ <<>> \in Seq(Nat) /\ <<0>> \in Seq(Nat)
      /\ Append(files, Count) \in Seq(Nat)
      /\ Len(files) > 1 => SubSeq(files, 1, Len(files) - 1) \in Seq(Nat)
  BY DepthsType DEF Fields
<1> USE DEF Fields, Abs!Statuses, Abs!Effects, ErrorKinds
<1>1. CASE StartRun
  <2>1. files' = <<0>> /\ UNCHANGED macros /\ report' = "none"
        /\ status' = "running" /\ effect' = "none"
    BY <1>1 DEF StartRun
  <2> QED BY <1>0, <2>1
<1>2. ASSUME NEW v \in BOOLEAN, DoIf(v) \/ DoElif(v)
      PROVE  Fields'
  BY <1>2 DEF DoIf, DoElif
<1>3. ASSUME NEW m \in Names, NEW negate \in BOOLEAN, DoIfdef(m, negate)
      PROVE  Fields'
  BY <1>3 DEF DoIfdef
<1>4. ASSUME NEW defined \in SUBSET Names, OtherDirective(defined)
      PROVE  Fields'
  BY <1>4 DEF OtherDirective
<1>5. ASSUME NEW m \in Names, DoDefine(m) \/ DoUndef(m)
      PROVE  Fields'
  <2>1. macros \cup {m} \in SUBSET Names /\ macros \ {m} \in SUBSET Names
    OBVIOUS
  <2> QED BY <1>4, <1>5, <2>1 DEF DoDefine, DoUndef
<1>6. CASE DoInert
  BY <1>4, <1>6 DEF DoInert
<1>7. CASE DoIfdefMalformed
  BY <1>7 DEF DoIfdefMalformed
<1>8. CASE DoElifAfterElse \/ DoElse \/ DoEndif
  BY <1>8 DEF DoElifAfterElse, DoElse, DoEndif
<1>9. CASE DoElifWithoutIf \/ DoElseWithoutIf \/ DoElseAfterElse
             \/ DoEndifWithoutIf
  BY <1>9 DEF DoElifWithoutIf, DoElseWithoutIf, DoElseAfterElse,
              DoEndifWithoutIf, Misplaced
<1>10. CASE TextToken
  BY <1>10 DEF TextToken
<1>11. CASE DoInclude
  BY <1>0, <1>11 DEF DoInclude
<1>12. CASE EndOfInclude
  BY <1>0, <1>12 DEF EndOfInclude
<1>13. CASE EndOfUnit
  BY <1>0, <1>13 DEF EndOfUnit
<1>14. CASE OutOfMemory
  BY <1>14 DEF OutOfMemory
<1>15. CASE UNCHANGED vars
  BY <1>15 DEF vars
<1> QED
  BY <1>1, <1>2, <1>3, <1>5, <1>6, <1>7, <1>8, <1>9, <1>10, <1>11, <1>12,
     <1>13, <1>14, <1>15 DEF Next

LEMMA StepIInv == IInv /\ [Next]_vars => IInv'
<1> SUFFICES ASSUME IInv, [Next]_vars
             PROVE  IInv'
  OBVIOUS
<1>1. Stack /\ TypeOK
  BY StackDef DEF IInv, TypeOK
<1>2. Emitting \in BOOLEAN /\ Count \in Nat
  BY <1>1, EmittingIsLive
<1>3. Stack'
  BY <1>1, StackStep
<1>4. FramesNested' /\ FlagsMatchSource'
  BY <1>3 DEF Stack, FrameOK, FramesNested, FlagsMatchSource, Count
<1>5. capacity' \in Nat /\ Count' <= capacity'
  BY <1>1, <1>2, <1>3, CapacityStep DEF Stack
<1>6. Fields'
  BY <1>1, <1>2, FieldsStep DEF TypeOK, Fields
<1>7. TypeOK'
  BY <1>3, <1>5, <1>6 DEF TypeOK, Fields, Stack
<1> QED BY <1>4, <1>7 DEF IInv

(* The inductive invariant holds in every reachable state.                 *)
THEOREM Invariance == Spec => []IInv
BY InitIInv, StepIInv, PTL DEF Spec

(* Type correctness, with the array never indexed past its allocation.     *)
THEOREM TypeCorrect == Spec => []TypeOK
<1>1. IInv => TypeOK
  BY DEF IInv
<1> QED BY <1>1, Invariance, PTL

(* What a frame remembers of the region around it stays true while other   *)
(* groups open and close inside it (cond.c:51-89).                         *)
THEOREM FramesStayNested == Spec => []FramesNested
<1>1. IInv => FramesNested
  BY DEF IInv
<1> QED BY <1>1, Invariance, PTL

(* The flags of a frame say of the source what 6.10.1 asks: the one flag   *)
(* the driver reads stands for the whole stack (cond.c:38-44).             *)
THEOREM FlagsCorrect == Spec => []FlagsMatchSource
<1>1. IInv => FlagsMatchSource
  BY DEF IInv
<1> QED BY <1>1, Invariance, PTL

-----------------------------------------------------------------------------
(* What the flags stand for in the promise.                                *)
LEMMA FlagsStandFor ==
  ASSUME Stack
  PROVE  /\ Abs!Depth = Count
         /\ Count \in Nat
         /\ Emitting \in BOOLEAN
         /\ Emitting <=> Abs!Emits
         /\ Count > 0 =>
              /\ Top.seen_else <=> nest[Count].closed
              /\ (Top.outer_active /\ ~Top.taken)
                   <=> Abs!Live(Count - 1) /\ Abs!Unselected(nest[Count])
<1>1. /\ Abs!Depth = Count /\ Count \in Nat /\ Emitting \in BOOLEAN
      /\ Emitting <=> Abs!Emits
  BY EmittingIsLive DEF Stack, Count, Abs!Depth, Abs!Emits, Abs!Live
<1>2. ASSUME Count > 0
      PROVE  /\ Top.seen_else <=> nest[Count].closed
             /\ (Top.outer_active /\ ~Top.taken)
                  <=> Abs!Live(Count - 1) /\ Abs!Unselected(nest[Count])
  <2>1. FrameOK(Count) /\ Top = conds[Count]
    BY <1>1, <1>2 DEF Stack, Count, Top
  <2>2. Top.outer_active <=> Abs!Live(Count - 1)
    <3>1. CASE Count = 1
      BY <2>1, <3>1 DEF FrameOK, Abs!Live
    <3>2. CASE Count > 1
      <4>1. FrameOK(Count - 1)
        BY <1>1, <3>2 DEF Stack, Count
      <4> QED BY <1>1, <2>1, <3>2, <4>1 DEF FrameOK, Abs!Live
    <3> QED BY <1>1, <1>2, <3>1, <3>2
  <2> QED BY <2>1, <2>2 DEF FrameOK
<1> QED BY <1>1, <1>2

LEMMA InitRefines == Init => Abs!Init
BY DEF Init, Abs!Init

(* Each line the program handles is the line the promise handles, with the *)
(* same effect; the end of an included file is nothing to the promise.     *)
LEMMA StepRefines == IInv /\ [Next]_vars => [Abs!Next]_Abs!absVars
<1> SUFFICES ASSUME IInv, [Next]_vars
             PROVE  Abs!Next \/ UNCHANGED Abs!absVars
  BY DEF Abs!absVars
<1>1. Stack /\ macros \in SUBSET Names
  BY StackDef DEF IInv, TypeOK
<1>2. /\ Abs!Depth = Count
      /\ Count \in Nat
      /\ Emitting \in BOOLEAN
      /\ Emitting <=> Abs!Emits
      /\ Count > 0 =>
           /\ Top.seen_else <=> nest[Count].closed
           /\ (Top.outer_active /\ ~Top.taken)
                <=> Abs!Live(Count - 1) /\ Abs!Unselected(nest[Count])
  BY <1>1, FlagsStandFor
<1>3. CASE StartRun
  <2>1. Abs!Start
    BY <1>3 DEF StartRun, Abs!Start
  <2> QED BY <2>1 DEF Abs!Next
<1>4. ASSUME NEW v \in BOOLEAN, DoIf(v)
      PROVE  Abs!Next
  <2>1. Abs!If(v)
    BY <1>2, <1>4 DEF DoIf, Abs!If
  <2> QED BY <2>1 DEF Abs!Next
<1>5. ASSUME NEW v \in BOOLEAN, DoElif(v)
      PROVE  Abs!Next
  <2>1. Abs!Elif(v)
    BY <1>2, <1>5 DEF DoElif, Abs!Elif
  <2> QED BY <2>1 DEF Abs!Next
<1>6. ASSUME NEW m \in Names, NEW negate \in BOOLEAN, DoIfdef(m, negate)
      PROVE  Abs!Next
  <2> DEFINE cond == (m \in macros) # negate
  <2>1. cond \in BOOLEAN
    OBVIOUS
  <2>2. Abs!Ifdef(cond)
    BY <1>6 DEF DoIfdef, Abs!Ifdef
  <2> HIDE DEF cond
  <2> QED BY <2>1, <2>2 DEF Abs!Next
<1>7. CASE DoIfdefMalformed
  <2>1. Abs!Ifdef(FALSE)
    BY <1>7 DEF DoIfdefMalformed, Abs!Ifdef
  <2> QED BY <2>1 DEF Abs!Next
<1>8. ASSUME NEW defined \in SUBSET Names, OtherDirective(defined)
      PROVE  Abs!Next
  <2>1. Abs!Directive
    BY <1>1, <1>2, <1>8 DEF OtherDirective, Abs!Directive
  <2> QED BY <2>1 DEF Abs!Next
<1>9. ASSUME NEW m \in Names, DoDefine(m) \/ DoUndef(m)
      PROVE  Abs!Next
  <2>1. macros \cup {m} \in SUBSET Names /\ macros \ {m} \in SUBSET Names
    BY <1>1
  <2> QED BY <1>8, <1>9, <2>1 DEF DoDefine, DoUndef
<1>10. CASE DoInert
  BY <1>1, <1>8, <1>10 DEF DoInert
<1>11. CASE DoElifAfterElse
  <2>1. Abs!ElifAfterElse
    BY <1>2, <1>11 DEF DoElifAfterElse, Abs!ElifAfterElse
  <2> QED BY <2>1 DEF Abs!Next
<1>12. CASE DoElse
  <2>1. Abs!Else
    BY <1>2, <1>12 DEF DoElse, Abs!Else
  <2> QED BY <2>1 DEF Abs!Next
<1>13. CASE DoEndif
  <2>1. Abs!Endif
    BY <1>2, <1>13 DEF DoEndif, Abs!Endif, Abs!Depth
  <2> QED BY <2>1 DEF Abs!Next
<1>14. CASE DoElifWithoutIf \/ DoElseWithoutIf \/ DoElseAfterElse
               \/ DoEndifWithoutIf
  <2>1. Abs!Misplaced
    BY <1>2, <1>14 DEF DoElifWithoutIf, DoElseWithoutIf, DoElseAfterElse,
                       DoEndifWithoutIf, Misplaced, Abs!Misplaced
  <2> QED BY <2>1 DEF Abs!Next
<1>15. CASE TextToken
  <2>1. Abs!Text
    BY <1>2, <1>15 DEF TextToken, Abs!Text
  <2> QED BY <2>1 DEF Abs!Next
<1>16. CASE DoInclude
  <2>1. Abs!Directive
    BY <1>1, <1>2, <1>16 DEF DoInclude, Abs!Directive
  <2> QED BY <2>1 DEF Abs!Next
<1>17. CASE EndOfInclude
  BY <1>17 DEF EndOfInclude, Abs!absVars
<1>18. CASE EndOfUnit
  <2>1. Abs!Finish
    BY <1>2, <1>18 DEF EndOfUnit, Abs!Finish
  <2> QED BY <2>1 DEF Abs!Next
<1>19. CASE OutOfMemory
  <2>1. Abs!Fail
    BY <1>19 DEF OutOfMemory, Abs!Fail
  <2> QED BY <2>1 DEF Abs!Next
<1>20. CASE UNCHANGED vars
  BY <1>20 DEF vars, Abs!absVars
<1> QED
  BY <1>3, <1>4, <1>5, <1>6, <1>7, <1>9, <1>10, <1>11, <1>12, <1>13, <1>14,
     <1>15, <1>16, <1>17, <1>18, <1>19, <1>20 DEF Next

(* The frames implement the promise: whatever the source nests, text and   *)
(* directives count exactly where every open conditional is in its first   *)
(* true group, and only the conditions that decide it are evaluated.       *)
THEOREM Refinement == Spec => ImplementsGroups
BY InitRefines, Invariance, StepRefines, PTL
   DEF Spec, ImplementsGroups, Abs!Spec

-----------------------------------------------------------------------------
(* A skipped group anywhere below the top keeps the top from emitting, and *)
(* from ever selecting a group of its own.                                 *)
LEMMA SkippedReachesTop ==
  ASSUME Stack, NEW i \in 1 .. Count - 1, ~conds[i].active
  PROVE  ~Emitting /\ ~Top.outer_active
<1>1. Count \in Nat /\ Count = Len(conds) /\ i \in Nat /\ i < Count
  BY EmittingIsLive DEF Count
<1>2. FrameOK(i) /\ FrameOK(Count) /\ FrameOK(Count - 1)
  BY <1>1 DEF Stack
<1>3. PICK j \in 1 .. i : ~Abs!Selected(nest[j])
  BY <1>2 DEF FrameOK
<1>4. j \in 1 .. Count /\ j \in 1 .. Count - 1
  BY <1>1, <1>3
<1>5. ~conds[Count].active /\ ~conds[Count - 1].active
  BY <1>2, <1>3, <1>4 DEF FrameOK
<1>6. conds[Count].outer_active <=> Count = 1 \/ conds[Count - 1].active
  BY <1>2 DEF FrameOK
<1>7. Count > 1
  BY ONLY <1>1, i \in 1 .. Count - 1
<1>8. ~conds[Count].outer_active
  BY ONLY <1>5, <1>6, <1>7
<1> QED BY ONLY <1>1, <1>5, <1>7, <1>8 DEF Emitting, Top

Quiet ==
  /\ macros' = macros
  /\ \/ files' = SubSeq(files, 1, Len(files) - 1)
     \/ /\ files' = files
        /\ effect' \in {"none", "dropped", "unevaluated", "skipped"}

LEMMA SkippedStep ==
  ASSUME IInv, Next, status = "running",
         \E i \in 1 .. Count - 1 : ~conds[i].active
  PROVE  Quiet
<1>1. ~Emitting /\ ~Top.outer_active
  BY StackDef, SkippedReachesTop DEF IInv, TypeOK
<1>2. CASE StartRun
  BY <1>2 DEF StartRun
<1>3. ASSUME NEW v \in BOOLEAN, DoIf(v) \/ DoElif(v)
      PROVE  Quiet
  BY <1>1, <1>3 DEF DoIf, DoElif, Quiet
<1>4. ASSUME NEW m \in Names, NEW negate \in BOOLEAN, DoIfdef(m, negate)
      PROVE  Quiet
  BY <1>4 DEF DoIfdef, Quiet
<1>5. ASSUME NEW m \in Names, DoDefine(m) \/ DoUndef(m)
      PROVE  Quiet
  BY <1>1, <1>5 DEF DoDefine, DoUndef, OtherDirective, Quiet
<1>6. CASE DoIfdefMalformed \/ DoElifAfterElse \/ DoElse \/ DoEndif
  BY <1>6 DEF DoIfdefMalformed, DoElifAfterElse, DoElse, DoEndif, Quiet
<1>7. CASE DoElifWithoutIf \/ DoElseWithoutIf \/ DoElseAfterElse
              \/ DoEndifWithoutIf
  BY <1>7 DEF DoElifWithoutIf, DoElseWithoutIf, DoElseAfterElse,
              DoEndifWithoutIf, Misplaced, Quiet
<1>8. CASE TextToken \/ DoInert \/ DoInclude
  BY <1>1, <1>8 DEF TextToken, DoInert, OtherDirective, DoInclude, Quiet
<1>9. CASE EndOfInclude
  BY <1>9 DEF EndOfInclude, Quiet
<1>10. CASE EndOfUnit
  <2>1. files \in Seq(Nat) /\ Len(files) = 1 /\ files' = <<>>
    BY <1>10 DEF EndOfUnit, IInv, TypeOK
  <2>2. SubSeq(files, 1, Len(files) - 1) = <<>>
    BY <2>1
  <2> QED BY <1>10, <2>1, <2>2 DEF EndOfUnit, Quiet
<1>11. CASE OutOfMemory
  BY <1>11 DEF OutOfMemory, Quiet
<1> QED
  BY <1>2, <1>3, <1>4, <1>5, <1>6, <1>7, <1>8, <1>9, <1>10, <1>11 DEF Next

(* A skipped group silences everything nested in it, at any depth.         *)
THEOREM SkippedGroupsAreInert == Spec => SkippedIsInert
<1>1. IInv /\ [Next]_vars
        => [(status = "running" /\ \E i \in 1 .. Count - 1 : ~conds[i].active)
              => Quiet]_vars
  BY SkippedStep
<1> QED BY <1>1, Invariance, PTL DEF Spec, SkippedIsInert, Quiet

-----------------------------------------------------------------------------
(* What one step does to the frame a skipped group of a taken conditional  *)
(* left behind: it may go away, but it does not become active.             *)
LEMMA TakenStaysTaken ==
  ASSUME conds \in Seq(Frame), Next, status = "running", status' = "running",
         NEW i \in 1 .. Count, i <= Len(conds'), conds[i].taken,
         ~conds[i].active
  PROVE  ~conds'[i].active
<1>1. ASSUME NEW outer, NEW cond, Push(outer, cond)
      PROVE  ~conds'[i].active
  <2>1. conds'[i] = conds[i]
    BY <1>1 DEF Push, Count
  <2> QED BY <2>1
<1>2. ASSUME conds' = conds
      PROVE  ~conds'[i].active
  BY <1>2
<1>3. ASSUME Count > 0,
             NEW f \in Frame, conds' = [conds EXCEPT ![Count] = f],
             Top.taken => ~f.active
      PROVE  ~conds'[i].active
  <2>1. PICK k \in Nat : k = Len(conds) /\ k = Count
    BY DEF Count
  <2>2. i \in 1 .. k /\ conds' = [conds EXCEPT ![k] = f] /\ Top = conds[k]
    BY <1>3, <2>1 DEF Top
  <2>3. CASE i = k
    BY <1>3, <2>1, <2>2, <2>3
  <2>4. CASE i # k
    BY <2>1, <2>2, <2>4
  <2> QED BY <2>3, <2>4
<1>4. Count > 0 => Top \in Frame /\ Top = conds[Count]
  BY DEF Top, Count
<1>5. ASSUME NEW v \in BOOLEAN, DoElif(v)
      PROVE  ~conds'[i].active
  <2> DEFINE f == IF Top.outer_active /\ ~Top.taken
                  THEN [Top EXCEPT !.active = v, !.taken = v]
                  ELSE [Top EXCEPT !.active = FALSE]
  <2>1. Count > 0 /\ Top \in Frame /\ Top = conds[Count]
    BY <1>4, <1>5 DEF DoElif
  <2>2. f \in Frame /\ (Top.taken => ~f.active)
    BY <2>1 DEF Frame
  <2>3. conds' = [conds EXCEPT ![Count] = f]
    BY <1>5, <2>1 DEF DoElif
  <2> HIDE DEF f
  <2> QED BY <1>3, <2>1, <2>2, <2>3
<1>6. CASE DoElifAfterElse
  <2> DEFINE f == [Top EXCEPT !.active = FALSE]
  <2>1. Count > 0 /\ Top \in Frame /\ Top = conds[Count]
    BY <1>4, <1>6 DEF DoElifAfterElse
  <2>2. f \in Frame /\ ~f.active
    BY <2>1 DEF Frame
  <2>3. conds' = [conds EXCEPT ![Count] = f]
    BY <1>6, <2>1 DEF DoElifAfterElse
  <2> HIDE DEF f
  <2> QED BY <1>3, <2>1, <2>2, <2>3
<1>7. CASE DoElse
  <2> DEFINE s == Top.outer_active /\ ~Top.taken
             f == [Top EXCEPT !.seen_else = TRUE, !.active = s,
                              !.taken = @ \/ s]
  <2>1. Count > 0 /\ Top \in Frame /\ Top = conds[Count]
    BY <1>4, <1>7 DEF DoElse
  <2>2. f \in Frame /\ (Top.taken => ~f.active)
    BY <2>1 DEF Frame
  <2>3. conds' = [conds EXCEPT ![Count] = f]
    BY <1>7, <2>1 DEF DoElse
  <2> HIDE DEF f
  <2> QED BY <1>3, <2>1, <2>2, <2>3
<1>8. CASE DoEndif
  BY <1>8 DEF DoEndif, Count
<1>9. ASSUME \/ DoIfdefMalformed
             \/ \E v \in BOOLEAN : DoIf(v)
             \/ \E m \in Names, negate \in BOOLEAN : DoIfdef(m, negate)
      PROVE  ~conds'[i].active
  BY <1>1, <1>9 DEF DoIf, DoIfdef, DoIfdefMalformed
<1>10. CASE \/ DoElifWithoutIf \/ DoElseWithoutIf \/ DoElseAfterElse
           \/ DoEndifWithoutIf
  BY <1>2, <1>10 DEF DoElifWithoutIf, DoElseWithoutIf, DoElseAfterElse,
                    DoEndifWithoutIf, Misplaced
<1>11. CASE \/ TextToken \/ DoInert \/ DoInclude \/ EndOfInclude
           \/ \E m \in Names : DoDefine(m) \/ DoUndef(m)
  BY <1>2, <1>11 DEF TextToken, DoInert, DoInclude, EndOfInclude, DoDefine,
                    DoUndef, OtherDirective
<1>12. CASE StartRun \/ EndOfUnit \/ OutOfMemory
  BY <1>12 DEF StartRun, EndOfUnit, OutOfMemory
<1> QED
  BY <1>5, <1>6, <1>7, <1>8, <1>9, <1>10, <1>11, <1>12 DEF Next

(* 6.10.1p6: at most one group of a conditional is processed.  No #elif    *)
(* and no #else, legal or misplaced, reactivates a frame of cond.c that    *)
(* has had its group, nor does closing a conditional nested in it.         *)
THEOREM OneGroupAtMost == Spec => AtMostOneGroup
<1> DEFINE Stays == \A i \in 1 .. Count :
      (i <= Len(conds') /\ status' = "running" /\ status = "running"
         /\ conds[i].taken /\ ~conds[i].active) => ~conds'[i].active
<1>1. IInv /\ [Next]_vars => [Stays]_vars
  BY TakenStaysTaken DEF IInv, TypeOK
<1> QED BY <1>1, Invariance, PTL DEF Spec, AtMostOneGroup
=============================================================================
