---------------------------- MODULE DriverProofs ----------------------------
(***************************************************************************)
(* Proofs about the program and its converter.  Along every path of        *)
(* failures each stage finds what it reads, everything is given back, and  *)
(* the exit code tells the truth.  The converter's loop needs no bound but *)
(* the end of input, its keyword search finds what is in the table, its    *)
(* integer constants have their value, and its UTF-8 is read back.  And    *)
(* whatever the program does, its lexer is that of Lexer and its stages    *)
(* are those of Stages.                                                    *)
(***************************************************************************)
EXTENDS Driver, LexerProofs

Places == {"load", "pp_init", "configure", "preprocess", "render",
           "convert_init", "convert", "open", "write", "close", "release",
           "report", "dispose", "gone"}

Faults == {"load", "pp_init", "configure", "preprocess", "render",
           "convert_init", "convert", "open", "write", "parse", "close",
           "flush", "report"}

Base  == {"source", "diags", "pp"}
Whole == Base \cup {"pt", "cv", "toks"}

Runs ==
  [mode : Modes \cup OtherUsers, to_file : BOOLEAN, pc : Places,
   live : SUBSET Whole, exit : {0, 1}, said : BOOLEAN,
   faults : SUBSET Faults, written : Nat, whole : BOOLEAN]

(* Which users of the libraries get how far.                               *)
ModesApart ==
  /\ driver.pc = "render" => driver.mode = "E"
  /\ driver.pc = "convert_init" => driver.mode # "E"
  /\ driver.pc = "convert" => driver.mode # "E"

(* What is held at each stage.  On the way out it depends on the stage     *)
(* that failed how much there is to give back, but the tokens of phase 4   *)
(* always are.                                                             *)
HeldAt(pc, mode, live) ==
  /\ pc \in {"load", "gone"} => live = {}
  /\ pc = "pp_init" => live = {"source"}
  /\ pc \in {"configure", "preprocess", "report", "dispose"} => live = Base
  /\ pc \in {"render", "convert_init"} => live = Base \cup {"pt"}
  /\ pc = "convert" => live = Whole
  /\ pc \in {"open", "write", "close", "release"} => Base \cup {"pt"} \subseteq live
  /\ pc \in {"open", "write", "close"} /\ mode # "E" => live = Whole

Holding == driver.mode \in Modes => HeldAt(driver.pc, driver.mode, driver.live)

Failed == ~(driver.faults \subseteq Untraced)

(* The exit code while the stages run: 0 unless a stage failed or the      *)
(* parser refused a declaration, which it has reported.                    *)
ExitSoFar ==
  /\ driver.exit = 0 => ~Failed
  /\ driver.pc \in {"dispose", "gone"} /\ driver.exit = 0 => errors = 0
  /\ driver.exit = 1 => Failed \/ errors > 0

(* Without a failure the output is whole once it has been written, unless  *)
(* the last of it was lost in fflush.                                      *)
WrittenOut ==
  driver.pc \in {"close", "release", "report", "dispose", "gone"} /\ driver.exit = 0 =>
    driver.whole \/ "flush" \in driver.faults

(* Of the failures only that of fclose prints nothing.                     *)
NotSilent == driver.said \/ driver.faults \subseteq Untraced \cup {"close"}

IInv ==
  /\ driver \in Runs /\ errors \in Nat
  /\ ModesApart /\ Holding /\ ExitSoFar /\ WrittenOut /\ NotSilent

-----------------------------------------------------------------------------
LEMMA InitHolds == StagesInit => IInv
<1> SUFFICES ASSUME StagesInit PROVE IInv
  OBVIOUS
<1>1. PICK mode \in Modes \cup OtherUsers, to_file \in BOOLEAN :
      driver = Outset(mode, to_file)
  BY DEF StagesInit
<1>2. driver \in Runs /\ errors = 0
  BY <1>1 DEF StagesInit, Outset, Runs, Places
<1>3. /\ driver.mode = mode /\ driver.live = {} /\ driver.exit = 0 /\ driver.faults = {}
      /\ driver.pc = IF mode \in Modes THEN "load" ELSE "preprocess"
  BY <1>1 DEF Outset
<1>4. ModesApart /\ Holding
  BY <1>3 DEF ModesApart, Holding, HeldAt
<1>5. ExitSoFar /\ WrittenOut /\ NotSilent
  BY <1>2, <1>3 DEF ExitSoFar, WrittenOut, NotSilent, Failed
<1> QED
  BY <1>2, <1>4, <1>5 DEF IInv

(* A step that goes on to another stage, and may change what is held.      *)
Moves(pc, held) == driver' = [driver EXCEPT !.pc = pc, !.live = held]

LEMMA Moving ==
  ASSUME IInv, NEW pc \in Places, NEW held \in SUBSET Whole, Moves(pc, held)
  PROVE  /\ driver' \in Runs
         /\ driver'.pc = pc /\ driver'.live = held
         /\ driver'.mode = driver.mode /\ driver'.exit = driver.exit
         /\ driver'.said = driver.said /\ driver'.faults = driver.faults
         /\ driver'.whole = driver.whole
BY DEF IInv, Runs, Moves

LEMMA Stepping ==
  ASSUME IInv, NEW pc, Step(pc)
  PROVE  Moves(pc, driver.live)
BY DEF IInv, Runs, Step, Moves

LEMMA Acquiring ==
  ASSUME IInv, NEW pc, NEW resources, Acquire(resources, pc)
  PROVE  Moves(pc, driver.live \cup resources)
BY DEF IInv, Runs, Acquire, Moves

LEMMA Apart ==
  IInv => /\ driver.mode \in Modes \cup OtherUsers /\ driver.pc \in Places
          /\ driver.live \subseteq Whole /\ driver.exit \in {0, 1}
          /\ driver.faults \subseteq Faults /\ errors \in Nat /\ errors >= 0
BY DEF IInv, Runs

Early == {"pp_init", "configure", "preprocess", "render", "convert_init",
          "convert", "open", "write"}

(* On the way to the output, a step changes nothing that the exit code     *)
(* depends on.                                                             *)
LEMMA Onward ==
  ASSUME IInv, NEW pc \in Early, NEW held \in SUBSET Whole, Moves(pc, held),
         errors' = errors,
         pc = "render" => driver.mode = "E",
         pc \in {"convert_init", "convert"} => driver.mode # "E",
         driver.mode \in Modes => HeldAt(pc, driver.mode, held)
  PROVE  IInv'
<1>1. pc \in Places
  BY DEF Early, Places
<1>2. /\ driver' \in Runs
      /\ driver'.pc = pc /\ driver'.live = held
      /\ driver'.mode = driver.mode /\ driver'.exit = driver.exit
      /\ driver'.said = driver.said /\ driver'.faults = driver.faults
  BY <1>1, Moving
<1>3. ModesApart' /\ Holding'
  BY <1>2 DEF ModesApart, Holding
<1>4. ExitSoFar' /\ WrittenOut' /\ NotSilent'
  BY <1>2 DEF IInv, ExitSoFar, WrittenOut, NotSilent, Failed, Early
<1> QED
  BY <1>2, <1>3, <1>4 DEF IInv

LEMMA AcquiringKeeps ==
  ASSUME IInv, NEW pc \in Early, NEW resources \in SUBSET Whole,
         Acquire(resources, pc),
         errors' = errors,
         pc = "render" => driver.mode = "E",
         pc \in {"convert_init", "convert"} => driver.mode # "E",
         driver.mode \in Modes => HeldAt(pc, driver.mode, driver.live \cup resources)
  PROVE  IInv'
<1>1. PICK held \in SUBSET Whole : held = driver.live \cup resources
  BY Apart
<1>2. Moves(pc, held)
  BY <1>1, Acquiring
<1> QED
  BY <1>1, <1>2, Onward

LEMMA SteppingKeeps ==
  ASSUME IInv, NEW pc \in Early \ {"render", "convert_init", "convert"}, Step(pc),
         errors' = errors,
         driver.mode \in Modes => HeldAt(pc, driver.mode, driver.live)
  PROVE  IInv'
<1>1. PICK held \in SUBSET Whole : held = driver.live
  BY Apart
<1>2. Moves(pc, held)
  BY <1>1, Stepping
<1> QED
  BY <1>1, <1>2, Onward

Outs == {"release", "report", "close", "gone"}

(* A failing stage sets the exit code and prints a message.                *)
LEMMA Failing ==
  ASSUME IInv, NEW pc \in Outs, NEW what \in Faults, what \notin Untraced,
         Fail(what, pc),
         errors' \in Nat,
         driver.mode \in Modes => HeldAt(pc, driver.mode, driver.live)
  PROVE  IInv'
<1>1. driver' = [driver EXCEPT !.pc = pc, !.exit = 1, !.said = TRUE,
                               !.faults = @ \cup {what}]
  BY DEF Fail
<1>2. pc \in Places
  BY DEF Places, Outs
<1>3. /\ driver' \in Runs
      /\ driver'.pc = pc /\ driver'.live = driver.live /\ driver'.mode = driver.mode
      /\ driver'.exit = 1 /\ driver'.said = TRUE /\ what \in driver'.faults
  BY <1>1, <1>2 DEF IInv, Runs
<1>4. ModesApart' /\ Holding'
  BY <1>3 DEF ModesApart, Holding, Outs
<1>5. ExitSoFar' /\ WrittenOut' /\ NotSilent'
  BY <1>3 DEF ExitSoFar, WrittenOut, NotSilent, Failed
<1> QED
  BY <1>3, <1>4, <1>5 DEF IInv

(* What is held where a stage runs.                                        *)
LEMMA HeldHere ==
  ASSUME IInv, driver.mode \in Modes
  PROVE  HeldAt(driver.pc, driver.mode, driver.live)
BY DEF IInv, Holding

-----------------------------------------------------------------------------
LEMMA LoadKeeps == ASSUME IInv, Load PROVE IInv'
<1>1. errors' = errors /\ driver.pc = "load"
  BY DEF Load, At0
<1>2. CASE Acquire({"source"}, "pp_init")
  <2>1. driver.mode \in Modes =>
          HeldAt("pp_init", driver.mode, driver.live \cup {"source"})
    BY <1>1, <1>2, HeldHere DEF HeldAt, Base, Whole
  <2>2. {"source"} \in SUBSET Whole /\ "pp_init" \in Early
    BY DEF Base, Whole, Early
  <2> QED
    BY <1>1, <1>2, <2>1, <2>2, AcquiringKeeps
<1>3. CASE Fail("load", "gone")
  <2>1. driver.mode \in Modes => HeldAt("gone", driver.mode, driver.live)
    BY <1>1, <1>3, HeldHere DEF HeldAt, Base, Whole
  <2>2. "gone" \in Outs /\ "load" \in Faults /\ "load" \notin Untraced
    BY DEF Outs, Faults, Untraced
  <2>3. errors' \in Nat
    BY <1>1, <1>3, Apart DEF Reporting
  <2> QED
    BY <1>3, <2>1, <2>2, <2>3, Failing
<1> QED
  BY <1>2, <1>3 DEF Load

LEMMA PpInitKeeps == ASSUME IInv, PpInit PROVE IInv'
<1>1. errors' = errors /\ driver.pc = "pp_init"
  BY DEF PpInit, At0
<1>2. CASE Acquire({"diags", "pp"}, "configure")
  <2>1. driver.mode \in Modes =>
          HeldAt("configure", driver.mode, driver.live \cup {"diags", "pp"})
    BY <1>1, <1>2, HeldHere DEF HeldAt, Base, Whole
  <2>2. {"diags", "pp"} \in SUBSET Whole /\ "configure" \in Early
    BY DEF Base, Whole, Early
  <2> QED
    BY <1>1, <1>2, <2>1, <2>2, AcquiringKeeps
<1>3. CASE /\ MayFail
           /\ driver' = [driver EXCEPT !.pc = "gone", !.exit = 1, !.said = TRUE,
                                       !.live = {}, !.faults = @ \cup {"pp_init"}]
  <2>1. /\ driver' \in Runs
        /\ driver'.pc = "gone" /\ driver'.live = {} /\ driver'.mode = driver.mode
        /\ driver'.exit = 1 /\ driver'.said = TRUE /\ "pp_init" \in driver'.faults
    BY <1>3 DEF IInv, Runs, Places, Faults
  <2>2. ModesApart' /\ Holding'
    BY <2>1 DEF ModesApart, Holding, HeldAt
  <2>3. ExitSoFar' /\ WrittenOut' /\ NotSilent'
    BY <2>1 DEF ExitSoFar, WrittenOut, NotSilent, Failed, Untraced
  <2> QED
    BY <1>1, <2>1, <2>2, <2>3 DEF IInv
<1> QED
  BY <1>2, <1>3 DEF PpInit

LEMMA ConfigureKeeps == ASSUME IInv, Configure PROVE IInv'
<1>1. errors' = errors /\ driver.pc = "configure"
  BY DEF Configure, At0
<1>2. CASE Step("preprocess")
  <2>1. driver.mode \in Modes => HeldAt("preprocess", driver.mode, driver.live)
    BY <1>1, <1>2, HeldHere DEF HeldAt, Base, Whole
  <2>2. "preprocess" \in Early \ {"render", "convert_init", "convert"}
    BY DEF Early
  <2> QED
    BY <1>1, <1>2, <2>1, <2>2, SteppingKeeps
<1>3. CASE Fail("configure", "report")
  <2>1. driver.mode \in Modes => HeldAt("report", driver.mode, driver.live)
    BY <1>1, <1>3, HeldHere DEF HeldAt, Base, Whole
  <2>2. "report" \in Outs /\ "configure" \in Faults /\ "configure" \notin Untraced
    BY DEF Outs, Faults, Untraced
  <2>3. errors' \in Nat
    BY <1>1, <1>3, Apart DEF Reporting
  <2> QED
    BY <1>3, <2>1, <2>2, <2>3, Failing
<1> QED
  BY <1>2, <1>3 DEF Configure

(* A library at work changes the count of errors, and nothing else; the    *)
(* exit code is not yet decided.                                           *)
LEMMA ReportingKeeps ==
  ASSUME IInv, Reporting, UNCHANGED driver, driver.pc \in {"preprocess", "convert"}
  PROVE  IInv'
<1>1. errors \in Nat /\ errors' \in Nat /\ errors' >= errors
  BY DEF IInv, Reporting
<1>2. driver' \in Runs /\ ModesApart' /\ Holding' /\ WrittenOut' /\ NotSilent'
  BY DEF IInv, ModesApart, Holding, WrittenOut, NotSilent
<1>3. ExitSoFar'
  BY <1>1 DEF IInv, ExitSoFar, Failed
<1> QED
  BY <1>1, <1>2, <1>3 DEF IInv

LEMMA PreprocessKeeps == ASSUME IInv, Preprocess \/ PreprocessDone PROVE IInv'
<1>1. driver.pc = "preprocess"
  BY DEF Preprocess, PreprocessDone, At0
<1>2. CASE Preprocess
  BY <1>1, <1>2, ReportingKeeps DEF Preprocess
<1>3. CASE PreprocessDone
  <2>1. errors' = errors
    BY <1>3 DEF PreprocessDone
  <2>2. CASE driver.mode = "E" /\ Acquire({"pt"}, "render")
    <3>1. driver.mode \in Modes =>
            HeldAt("render", driver.mode, driver.live \cup {"pt"})
      BY <1>1, <2>1, <2>2, HeldHere DEF HeldAt, Base, Whole
    <3>2. {"pt"} \in SUBSET Whole /\ "render" \in Early
      BY DEF Base, Whole, Early
    <3> QED
      BY <2>1, <2>2, <3>1, <3>2, AcquiringKeeps
  <2>3. CASE driver.mode # "E" /\ Acquire({"pt"}, "convert_init")
    <3>1. driver.mode \in Modes =>
            HeldAt("convert_init", driver.mode, driver.live \cup {"pt"})
      BY <1>1, <2>1, <2>3, HeldHere DEF HeldAt, Base, Whole
    <3>2. {"pt"} \in SUBSET Whole /\ "convert_init" \in Early
      BY DEF Base, Whole, Early
    <3> QED
      BY <2>1, <2>3, <3>1, <3>2, AcquiringKeeps
  <2>4. CASE Fail("preprocess", "report")
    <3>1. driver.mode \in Modes => HeldAt("report", driver.mode, driver.live)
      BY <1>1, <2>1, <2>4, HeldHere DEF HeldAt, Base, Whole
    <3>2. "report" \in Outs /\ "preprocess" \in Faults /\ "preprocess" \notin Untraced
      BY DEF Outs, Faults, Untraced
    <3>3. errors' \in Nat
      BY <2>1, <2>4, Apart DEF Reporting
    <3> QED
      BY <2>4, <3>1, <3>2, <3>3, Failing
  <2> QED
    BY <1>3, <2>2, <2>3, <2>4 DEF PreprocessDone
<1> QED
  BY <1>2, <1>3

LEMMA RenderKeeps == ASSUME IInv, Render PROVE IInv'
<1>1. errors' = errors /\ driver.pc = "render" /\ driver.mode = "E"
  BY DEF Render, At0, IInv, ModesApart
<1>2. CASE Step("open")
  <2>1. driver.mode \in Modes => HeldAt("open", driver.mode, driver.live)
    BY <1>1, <1>2, HeldHere DEF HeldAt, Base, Whole
  <2>2. "open" \in Early \ {"render", "convert_init", "convert"}
    BY DEF Early
  <2> QED
    BY <1>1, <1>2, <2>1, <2>2, SteppingKeeps
<1>3. CASE Fail("render", "release")
  <2>1. driver.mode \in Modes => HeldAt("release", driver.mode, driver.live)
    BY <1>1, <1>3, HeldHere DEF HeldAt, Base, Whole
  <2>2. "release" \in Outs /\ "render" \in Faults /\ "render" \notin Untraced
    BY DEF Outs, Faults, Untraced
  <2>3. errors' \in Nat
    BY <1>1, <1>3, Apart DEF Reporting
  <2> QED
    BY <1>3, <2>1, <2>2, <2>3, Failing
<1> QED
  BY <1>2, <1>3 DEF Render

LEMMA ConvertKeeps ==
  ASSUME IInv, NEW refused \in BOOLEAN,
         ConvertInit(refused) \/ Convert(refused) \/ ConvertPastStray(refused)
  PROVE  IInv'
<1>1. CASE ConvertInit(refused)
  <2>1. errors' = errors /\ driver.pc = "convert_init" /\ driver.mode # "E"
    BY <1>1 DEF ConvertInit, At0, IInv, ModesApart
  <2>2. CASE Acquire({"cv", "toks"}, "convert")
    <3>1. driver.mode \in Modes =>
            HeldAt("convert", driver.mode, driver.live \cup {"cv", "toks"})
      BY <1>1, <2>1, <2>2, HeldHere DEF HeldAt, Base, Whole
    <3>2. {"cv", "toks"} \in SUBSET Whole /\ "convert" \in Early
      BY DEF Base, Whole, Early
    <3> QED
      BY <2>1, <2>2, <3>1, <3>2, AcquiringKeeps
  <2>3. CASE Fail("convert_init", "release")
    <3>1. driver.mode \in Modes => HeldAt("release", driver.mode, driver.live)
      BY <1>1, <2>1, <2>3, HeldHere DEF HeldAt, Base, Whole
    <3>2. "release" \in Outs /\ "convert_init" \in Faults /\ "convert_init" \notin Untraced
      BY DEF Outs, Faults, Untraced
    <3>3. errors' \in Nat
      BY <2>1, <2>3, Apart DEF Reporting
    <3> QED
      BY <2>3, <3>1, <3>2, <3>3, Failing
  <2> QED
    BY <1>1, <2>2, <2>3 DEF ConvertInit
<1>2. CASE Convert(refused)
  <2>1. driver.pc = "convert" /\ Reporting
    BY <1>2 DEF Convert, At0
  <2>2. CASE UNCHANGED driver
    BY <2>1, <2>2, ReportingKeeps
  <2>3. CASE Fail("convert", "release")
    <3>1. driver.mode \in Modes => HeldAt("release", driver.mode, driver.live)
      BY <1>1, <2>1, <2>3, HeldHere DEF HeldAt, Base, Whole
    <3>2. "release" \in Outs /\ "convert" \in Faults /\ "convert" \notin Untraced
      BY DEF Outs, Faults, Untraced
    <3>3. errors' \in Nat
      BY <2>1, <2>3, Apart DEF Reporting
    <3> QED
      BY <2>3, <3>1, <3>2, <3>3, Failing
  <2> QED
    BY <1>2, <2>2, <2>3 DEF Convert
<1>3. CASE ConvertPastStray(refused)
  <2>1. driver.pc = "convert" /\ Reporting
    BY <1>3 DEF ConvertPastStray, At0
  <2>2. PICK lost \in SUBSET {"report"} :
        driver' = [driver EXCEPT !.faults = @ \cup lost]
    BY <1>3 DEF ConvertPastStray
  <2>3. /\ driver' \in Runs
        /\ driver'.pc = driver.pc /\ driver'.live = driver.live
        /\ driver'.mode = driver.mode /\ driver'.exit = driver.exit
        /\ driver'.said = driver.said /\ driver'.faults = driver.faults \cup lost
    BY <2>2 DEF IInv, Runs, Faults
  <2>4. ModesApart' /\ Holding'
    BY <2>3 DEF IInv, ModesApart, Holding
  <2>5. errors \in Nat /\ errors' \in Nat /\ errors' >= errors
    BY <2>1 DEF IInv, Reporting
  <2>6. ExitSoFar' /\ WrittenOut' /\ NotSilent'
    <3>1. driver'.faults \subseteq Untraced <=> driver.faults \subseteq Untraced
      BY <2>3 DEF Untraced
    <3>2. driver'.faults \subseteq Untraced \cup {"close"}
            <=> driver.faults \subseteq Untraced \cup {"close"}
      BY <2>3 DEF Untraced
    <3>3. ExitSoFar /\ NotSilent
      BY DEF IInv
    <3> QED
      BY <2>1, <2>3, <2>5, <3>1, <3>2, <3>3
         DEF ExitSoFar, WrittenOut, NotSilent, Failed
  <2> QED
    BY <2>3, <2>4, <2>5, <2>6 DEF IInv
<1> QED
  BY <1>1, <1>2, <1>3

LEMMA ConvertDoneKeeps == ASSUME IInv, ConvertDone PROVE IInv'
<1>1. errors' = errors /\ driver.pc = "convert" /\ driver.mode \in Modes /\ Step("open")
  BY DEF ConvertDone, At0
<1>2. driver.mode \in Modes => HeldAt("open", driver.mode, driver.live)
  BY <1>1, HeldHere DEF HeldAt, Base, Whole
<1>3. "open" \in Early \ {"render", "convert_init", "convert"}
  BY DEF Early
<1> QED
  BY <1>1, <1>2, <1>3, SteppingKeeps

LEMMA OpenKeeps == ASSUME IInv, Open PROVE IInv'
<1>1. errors' = errors /\ driver.pc = "open"
  BY DEF Open, At0
<1>2. CASE Step("write")
  <2>1. driver.mode \in Modes => HeldAt("write", driver.mode, driver.live)
    BY <1>1, <1>2, HeldHere DEF HeldAt, Base, Whole
  <2>2. "write" \in Early \ {"render", "convert_init", "convert"}
    BY DEF Early
  <2> QED
    BY <1>1, <1>2, <2>1, <2>2, SteppingKeeps
<1>3. CASE Fail("open", "release")
  <2>1. driver.mode \in Modes => HeldAt("release", driver.mode, driver.live)
    BY <1>1, <1>3, HeldHere DEF HeldAt, Base, Whole
  <2>2. "release" \in Outs /\ "open" \in Faults /\ "open" \notin Untraced
    BY DEF Outs, Faults, Untraced
  <2>3. errors' \in Nat
    BY <1>1, <1>3, Apart DEF Reporting
  <2> QED
    BY <1>3, <2>1, <2>2, <2>3, Failing
<1> QED
  BY <1>2, <1>3 DEF Open

(* All has been written.                                                   *)
LEMMA WrittenKeeps ==
  ASSUME IInv, driver.pc = "write", errors' = errors,
         driver' = [driver EXCEPT !.pc = "close", !.whole = TRUE]
  PROVE  IInv'
<1>1. /\ driver' \in Runs
      /\ driver'.pc = "close" /\ driver'.live = driver.live
      /\ driver'.mode = driver.mode /\ driver'.exit = driver.exit
      /\ driver'.said = driver.said /\ driver'.faults = driver.faults
      /\ driver'.whole = TRUE
  BY DEF IInv, Runs, Places
<1>2. ModesApart' /\ Holding'
  BY <1>1, HeldHere DEF ModesApart, Holding, HeldAt
<1>3. ExitSoFar' /\ WrittenOut' /\ NotSilent'
  BY <1>1 DEF IInv, ExitSoFar, WrittenOut, NotSilent, Failed
<1> QED
  BY <1>1, <1>2, <1>3 DEF IInv

LEMMA WriteKeeps == ASSUME IInv, Write \/ WriteDone PROVE IInv'
<1>1. errors' = errors /\ driver.pc = "write"
  BY DEF Write, WriteDone, At0
<1>2. CASE driver' = [driver EXCEPT !.pc = "close", !.whole = TRUE]
  BY <1>1, <1>2, WrittenKeeps
<1>3. CASE Fail("write", "close")
  <2>1. driver.mode \in Modes => HeldAt("close", driver.mode, driver.live)
    BY <1>1, <1>3, HeldHere DEF HeldAt, Base, Whole
  <2>2. "close" \in Outs /\ "write" \in Faults /\ "write" \notin Untraced
    BY DEF Outs, Faults, Untraced
  <2>3. errors' \in Nat
    BY <1>1, <1>3, Apart DEF Reporting
  <2> QED
    BY <1>3, <2>1, <2>2, <2>3, Failing
<1> QED
  BY <1>2, <1>3 DEF Write, WriteDone

LEMMA WriteDeclarationKeeps == ASSUME IInv, WriteDeclaration PROVE IInv'
<1>1. driver.pc = "write"
  BY DEF WriteDeclaration, At0
<1>2. CASE driver' = [driver EXCEPT !.written = @ + 1] /\ UNCHANGED errors
  <2>1. /\ driver' \in Runs
        /\ driver'.pc = driver.pc /\ driver'.live = driver.live
        /\ driver'.mode = driver.mode /\ driver'.exit = driver.exit
        /\ driver'.said = driver.said /\ driver'.faults = driver.faults
    BY <1>2 DEF IInv, Runs
  <2>2. ModesApart' /\ Holding' /\ ExitSoFar' /\ WrittenOut' /\ NotSilent'
    BY <1>1, <1>2, <2>1
       DEF IInv, ModesApart, Holding, ExitSoFar, WrittenOut, NotSilent, Failed
  <2> QED
    BY <1>2, <2>1, <2>2 DEF IInv
<1>3. CASE driver' = [driver EXCEPT !.pc = "close", !.exit = 1] /\ errors' = errors + 1
  <2>1. /\ driver' \in Runs
        /\ driver'.pc = "close" /\ driver'.live = driver.live
        /\ driver'.mode = driver.mode /\ driver'.exit = 1
        /\ driver'.said = driver.said /\ driver'.faults = driver.faults
    BY <1>3 DEF IInv, Runs, Places
  <2>2. ModesApart' /\ Holding'
    BY <1>1, <2>1, HeldHere DEF ModesApart, Holding, HeldAt
  <2>3. errors' \in Nat /\ errors' > 0
    BY <1>3 DEF IInv
  <2>4. ExitSoFar' /\ WrittenOut' /\ NotSilent'
    BY <2>1, <2>3 DEF IInv, ExitSoFar, WrittenOut, NotSilent, Failed
  <2> QED
    BY <2>1, <2>2, <2>3, <2>4 DEF IInv
<1>4. CASE Fail("parse", "close") /\ UNCHANGED errors
  <2>1. driver.mode \in Modes => HeldAt("close", driver.mode, driver.live)
    BY <1>1, <1>4, HeldHere DEF HeldAt, Base, Whole
  <2>2. "close" \in Outs /\ "parse" \in Faults /\ "parse" \notin Untraced
    BY DEF Outs, Faults, Untraced
  <2>3. errors' \in Nat
    BY <1>1, <1>4, Apart DEF Reporting
  <2> QED
    BY <1>4, <2>1, <2>2, <2>3, Failing
<1> QED
  BY <1>2, <1>3, <1>4 DEF WriteDeclaration

LEMMA CloseKeeps == ASSUME IInv, Close PROVE IInv'
<1>1. errors' = errors /\ driver.pc = "close"
  BY DEF Close, At0
<1>2. CASE Step("release")
  <2>1. Moves("release", driver.live) /\ driver.live \subseteq Whole /\ "release" \in Places
    BY <1>2, Stepping, Apart DEF Places
  <2>2. /\ driver' \in Runs
        /\ driver'.pc = "release" /\ driver'.live = driver.live
        /\ driver'.mode = driver.mode /\ driver'.exit = driver.exit
        /\ driver'.said = driver.said /\ driver'.faults = driver.faults
        /\ driver'.whole = driver.whole
    BY <2>1, Moving
  <2>3. ModesApart' /\ Holding'
    BY <1>1, <2>2, HeldHere DEF ModesApart, Holding, HeldAt
  <2>4. ExitSoFar' /\ WrittenOut' /\ NotSilent'
    BY <1>1, <2>2 DEF IInv, ExitSoFar, WrittenOut, NotSilent, Failed
  <2> QED
    BY <1>1, <2>2, <2>3, <2>4 DEF IInv
<1>3. CASE /\ MayFail
           /\ driver' = [driver EXCEPT !.pc = "release", !.whole = FALSE,
                           !.exit = IF driver.to_file THEN 1 ELSE @,
                           !.faults = @ \cup {IF driver.to_file THEN "close" ELSE "flush"}]
  <2>1. PICK lost \in {"close", "flush"}, exit \in {0, 1} :
          /\ lost = (IF driver.to_file THEN "close" ELSE "flush")
          /\ exit = (IF driver.to_file THEN 1 ELSE driver.exit)
    BY Apart
  <2>2. /\ driver' \in Runs
        /\ driver'.pc = "release" /\ driver'.live = driver.live
        /\ driver'.mode = driver.mode /\ driver'.exit = exit
        /\ driver'.said = driver.said /\ driver'.faults = driver.faults \cup {lost}
    BY <1>3, <2>1 DEF IInv, Runs, Places, Faults
  <2>3. ModesApart' /\ Holding'
    BY <1>1, <2>2, HeldHere DEF ModesApart, Holding, HeldAt
  <2>4. ExitSoFar' /\ WrittenOut' /\ NotSilent'
    BY <1>1, <2>1, <2>2
       DEF IInv, ExitSoFar, WrittenOut, NotSilent, Failed, Untraced
  <2> QED
    BY <1>1, <2>2, <2>3, <2>4 DEF IInv
<1> QED
  BY <1>2, <1>3 DEF Close

LEMMA ReleaseKeeps == ASSUME IInv, Release PROVE IInv'
<1> DEFINE held == driver.live \ {"toks", "cv", "pt"}
<1>1. errors' = errors /\ driver.pc = "release"
      /\ driver' = [driver EXCEPT !.pc = "report", !.live = held]
  BY DEF Release, At0
<1>2. held \subseteq Whole /\ (driver.mode \in Modes => held = Base)
  BY <1>1, Apart, HeldHere DEF HeldAt, Whole, Base
<1> HIDE DEF held
<1>3. /\ driver' \in Runs
      /\ driver'.pc = "report" /\ driver'.live = held
      /\ driver'.mode = driver.mode /\ driver'.exit = driver.exit
      /\ driver'.said = driver.said /\ driver'.faults = driver.faults
      /\ driver'.whole = driver.whole
  BY <1>1, <1>2 DEF IInv, Runs, Places
<1>4. ModesApart' /\ Holding'
  BY <1>2, <1>3 DEF ModesApart, Holding, HeldAt
<1>5. ExitSoFar' /\ WrittenOut' /\ NotSilent'
  BY <1>1, <1>3 DEF IInv, ExitSoFar, WrittenOut, NotSilent, Failed
<1> QED
  BY <1>1, <1>3, <1>4, <1>5 DEF IInv

LEMMA ReportKeeps == ASSUME IInv, Report0 PROVE IInv'
<1>1. errors' = errors /\ driver.pc = "report"
      /\ driver' = [driver EXCEPT !.pc = "dispose", !.exit = ExitCode]
  BY DEF Report0, At0
<1>2. PICK exit \in {0, 1} :
        /\ exit = ExitCode
        /\ exit = 0 => driver.exit = 0 /\ errors = 0
        /\ exit = 1 => driver.exit = 1 \/ errors > 0
  BY Apart DEF ExitCode
<1>3. /\ driver' \in Runs
      /\ driver'.pc = "dispose" /\ driver'.live = driver.live
      /\ driver'.mode = driver.mode /\ driver'.exit = exit
      /\ driver'.said = driver.said /\ driver'.faults = driver.faults
      /\ driver'.whole = driver.whole
  BY <1>1, <1>2 DEF IInv, Runs, Places
<1>4. ModesApart' /\ Holding'
  BY <1>1, <1>3, HeldHere DEF ModesApart, Holding, HeldAt
<1>5. ExitSoFar' /\ WrittenOut' /\ NotSilent'
  BY <1>1, <1>2, <1>3 DEF IInv, ExitSoFar, WrittenOut, NotSilent, Failed
<1> QED
  BY <1>1, <1>3, <1>4, <1>5 DEF IInv

LEMMA DisposeKeeps == ASSUME IInv, Dispose PROVE IInv'
<1> DEFINE held == driver.live \ {"pp", "diags", "source"}
<1>1. errors' = errors /\ driver.pc = "dispose"
      /\ driver' = [driver EXCEPT !.pc = "gone", !.live = held]
  BY DEF Dispose, At0
<1>2. held \subseteq Whole /\ (driver.mode \in Modes => held = {})
  BY <1>1, Apart, HeldHere DEF HeldAt, Whole, Base
<1> HIDE DEF held
<1>3. /\ driver' \in Runs
      /\ driver'.pc = "gone" /\ driver'.live = held
      /\ driver'.mode = driver.mode /\ driver'.exit = driver.exit
      /\ driver'.said = driver.said /\ driver'.faults = driver.faults
      /\ driver'.whole = driver.whole
  BY <1>1, <1>2 DEF IInv, Runs, Places
<1>4. ModesApart' /\ Holding'
  BY <1>2, <1>3 DEF ModesApart, Holding, HeldAt
<1>5. ExitSoFar' /\ WrittenOut' /\ NotSilent'
  BY <1>1, <1>3 DEF IInv, ExitSoFar, WrittenOut, NotSilent, Failed
<1> QED
  BY <1>1, <1>3, <1>4, <1>5 DEF IInv

LEMMA NextKeeps == IInv /\ [StagesNext]_stageVars => IInv'
<1> SUFFICES ASSUME IInv, [StagesNext]_stageVars PROVE IInv'
  OBVIOUS
<1>1. CASE StagesNext
  BY <1>1, LoadKeeps, PpInitKeeps, ConfigureKeeps, PreprocessKeeps, RenderKeeps,
     ConvertKeeps, ConvertDoneKeeps, OpenKeeps, WriteKeeps, WriteDeclarationKeeps,
     CloseKeeps, ReleaseKeeps, ReportKeeps, DisposeKeeps DEF StagesNext
<1>2. CASE UNCHANGED stageVars
  BY <1>2 DEF stageVars, IInv, ModesApart, Holding, ExitSoFar, WrittenOut, NotSilent, Failed
<1> QED
  BY <1>1, <1>2

(* In every run of the stages the strengthened invariant holds.            *)
THEOREM Invariance == StagesSpec => []IInv
BY InitHolds, NextKeeps, PTL DEF StagesSpec

(* No stage of the program reads what has been given back, and a run that  *)
(* has ended holds nothing (main.c:151-210, 331-408, 495-572).             *)
THEOREM EverythingHeld == StagesSpec => []HeldWhileNeeded
<1>1. IInv => HeldWhileNeeded
  <2> SUFFICES ASSUME IInv, driver.mode \in Modes
               PROVE  /\ Needs(driver.pc) \subseteq driver.live
                      /\ driver.pc = "gone" => driver.live = {}
    BY DEF HeldWhileNeeded
  <2>1. driver.pc \in Places /\ HeldAt(driver.pc, driver.mode, driver.live)
    BY Apart, HeldHere
  <2>2. CASE driver.pc \in {"load", "pp_init", "gone"}
    BY <2>1, <2>2 DEF Needs, HeldAt
  <2>3. CASE driver.pc \in {"configure", "preprocess", "report"}
    <3>1. Needs(driver.pc) = Base
      BY <2>3 DEF Needs, Base
    <3> QED
      BY <2>1, <2>3, <3>1 DEF HeldAt
  <2>4. CASE driver.pc \in {"render", "convert_init", "convert"}
    <3>1. Needs(driver.pc)
            \subseteq (IF driver.pc = "convert" THEN Whole ELSE Base \cup {"pt"})
      BY <2>4 DEF Needs, Base, Whole
    <3> QED
      BY <2>1, <2>4, <3>1 DEF HeldAt
  <2>5. CASE driver.pc \in {"open", "write", "close"}
    <3>1. Needs(driver.pc)
            \subseteq (IF driver.mode = "E" THEN Base \cup {"pt"} ELSE Whole)
      BY <2>5 DEF Needs, Base, Whole
    <3> QED
      BY <2>1, <2>5, <3>1 DEF HeldAt
  <2>6. CASE driver.pc \in {"release", "dispose"}
    BY <2>6 DEF Needs
  <2> QED
    BY <2>1, <2>2, <2>3, <2>4, <2>5, <2>6 DEF Places
<1> QED
  BY <1>1, Invariance, PTL

(* The exit code is 0 exactly for a good input of which all was written,   *)
(* and 1 is never silent but for fclose (main.c:20-23).                    *)
THEOREM ExitIsTrue == StagesSpec => []ExitTellsTruth
<1>1. IInv => ExitTellsTruth
  BY DEF IInv, Runs, ExitTellsTruth, ExitSoFar, WrittenOut, NotSilent, Failed, Untraced
<1> QED
  BY <1>1, Invariance, PTL

-----------------------------------------------------------------------------
(* Keywords                                                                *)

Words == Seq(DOMAIN Code)

(* v comes before w, for what they have after their first k characters.    *)
ApartAfter(k, v, w) ==
  /\ k \in Nat /\ k <= Len(v) /\ k < Len(w)
  /\ \A i \in 1 .. k : v[i] = w[i]
  /\ k = Len(v) \/ Code[v[k + 1]] < Code[w[k + 1]]

Before(v, w) == \E k \in Nat : ApartAfter(k, v, w)

LEMMA CodeIs ==
  /\ \A c \in DOMAIN Code : Code[c] \in Nat
  /\ \A c, d \in DOMAIN Code : Code[c] = Code[d] => c = d
BY CodeAssumption

LEMMA WordIs ==
  ASSUME NEW w \in Words
  PROVE  Len(w) \in Nat /\ \A i \in 1 .. Len(w) : w[i] \in DOMAIN Code
<1>1. PICK S : S = DOMAIN Code
  OBVIOUS
<1>2. w \in Seq(S)
  BY <1>1 DEF Words
<1>3. Len(w) \in Nat /\ \A i \in 1 .. Len(w) : w[i] \in S
  BY <1>2
<1> QED
  BY <1>1, <1>3

LEMMA WordsEqual ==
  ASSUME NEW v \in Words, NEW w \in Words, Len(v) = Len(w),
         \A i \in 1 .. Len(v) : v[i] = w[i]
  PROVE  v = w
<1>1. PICK S : S = DOMAIN Code
  OBVIOUS
<1>2. v \in Seq(S) /\ w \in Seq(S)
  BY <1>1 DEF Words
<1> QED
  BY ONLY <1>2, Len(v) = Len(w), \A i \in 1 .. Len(v) : v[i] = w[i]

(* No word comes before itself, and the order is transitive.               *)
LEMMA BeforeApart ==
  ASSUME NEW v \in Words
  PROVE  ~Before(v, v)
<1> SUFFICES ASSUME NEW k \in Nat, ApartAfter(k, v, v) PROVE FALSE
  BY DEF Before
<1>1. k < Len(v) /\ Code[v[k + 1]] < Code[v[k + 1]]
  BY WordIs DEF ApartAfter
<1>2. k + 1 \in 1 .. Len(v)
  BY <1>1, WordIs
<1>3. Code[v[k + 1]] \in Nat
  BY <1>2, CodeIs, WordIs
<1> QED
  BY <1>1, <1>3

LEMMA BeforeTransitive ==
  ASSUME NEW u \in Words, NEW v \in Words, NEW w \in Words, Before(u, v), Before(v, w)
  PROVE  Before(u, w)
<1>1. PICK j \in Nat : ApartAfter(j, u, v)
  BY DEF Before
<1>2. PICK k \in Nat : ApartAfter(k, v, w)
  BY DEF Before
<1>3. /\ Len(u) \in Nat /\ Len(v) \in Nat /\ Len(w) \in Nat
      /\ j <= Len(u) /\ j < Len(v) /\ k <= Len(v) /\ k < Len(w)
  BY <1>1, <1>2, WordIs DEF ApartAfter
<1>4. /\ \A i \in 1 .. j : u[i] = v[i]
      /\ \A i \in 1 .. k : v[i] = w[i]
  BY <1>1, <1>2 DEF ApartAfter
<1>5. j = Len(u) \/ Code[u[j + 1]] < Code[v[j + 1]]
  BY <1>1 DEF ApartAfter
<1>6. k = Len(v) \/ Code[v[k + 1]] < Code[w[k + 1]]
  BY <1>2 DEF ApartAfter
<1>7. CASE j < k
  <2>1. j + 1 \in 1 .. k
    BY <1>7
  <2>2. v[j + 1] = w[j + 1]
    BY <1>4, <2>1
  <2>3. \A i \in 1 .. j : u[i] = w[i]
    <3> SUFFICES ASSUME NEW i \in 1 .. j PROVE u[i] = w[i]
      OBVIOUS
    <3>1. i \in 1 .. k
      BY <1>7
    <3> QED
      BY <1>4, <3>1
  <2>4. j < Len(w)
    BY <1>3, <1>7
  <2>5. ApartAfter(j, u, w)
    BY <1>3, <1>5, <2>2, <2>3, <2>4 DEF ApartAfter
  <2> QED
    BY <2>5 DEF Before
<1>8. CASE k < j
  <2>1. k + 1 \in 1 .. j
    BY <1>8
  <2>2. u[k + 1] = v[k + 1]
    BY <1>4, <2>1
  <2>3. \A i \in 1 .. k : u[i] = w[i]
    <3> SUFFICES ASSUME NEW i \in 1 .. k PROVE u[i] = w[i]
      OBVIOUS
    <3>1. i \in 1 .. j
      BY <1>8
    <3> QED
      BY <1>4, <3>1
  <2>4. k <= Len(u) /\ k # Len(v)
    BY <1>3, <1>8
  <2>5. Code[u[k + 1]] < Code[w[k + 1]]
    BY <1>6, <2>2, <2>4
  <2>6. ApartAfter(k, u, w)
    BY <1>3, <2>3, <2>4, <2>5 DEF ApartAfter
  <2> QED
    BY <2>6 DEF Before
<1>9. CASE j = k
  <2>1. \A i \in 1 .. k : u[i] = w[i]
    BY <1>4, <1>9
  <2>2. k # Len(v) /\ k <= Len(u)
    BY <1>3, <1>9
  <2>3. Code[v[k + 1]] < Code[w[k + 1]]
    BY <1>6, <2>2
  <2>4. k = Len(u) \/ Code[u[k + 1]] < Code[v[k + 1]]
    BY <1>5, <1>9
  <2>5. k = Len(u) \/ Code[u[k + 1]] < Code[w[k + 1]]
    <3> SUFFICES ASSUME k # Len(u) PROVE Code[u[k + 1]] < Code[w[k + 1]]
      OBVIOUS
    <3>1. k + 1 \in 1 .. Len(u) /\ k + 1 \in 1 .. Len(v) /\ k + 1 \in 1 .. Len(w)
      BY <1>3, <2>2
    <3>2. Code[u[k + 1]] \in Nat /\ Code[v[k + 1]] \in Nat /\ Code[w[k + 1]] \in Nat
      BY <3>1, CodeIs, WordIs
    <3> QED
      BY <2>3, <2>4, <3>2
  <2>6. ApartAfter(k, u, w)
    BY <1>3, <2>1, <2>2, <2>5 DEF ApartAfter
  <2> QED
    BY <2>6 DEF Before
<1> QED
  BY <1>7, <1>8, <1>9

(* What the comparison of two words says.                                  *)
LEMMA SpanCompareIs ==
  ASSUME NEW v \in Words, NEW w \in Words
  PROVE  LET diff == SpanCompare(v, w)
         IN  /\ diff \in Int
             /\ diff = 0 => v = w
             /\ diff < 0 => Before(v, w)
             /\ diff > 0 => Before(w, v)
<1> DEFINE differing == {i \in 1 .. Smaller(Len(v), Len(w)) : v[i] # w[i]}
           first == CHOOSE i \in differing : \A j \in differing : i <= j
<1>1. Len(v) \in Nat /\ Len(w) \in Nat
  BY WordIs
<1>2. PICK n : n = Smaller(Len(v), Len(w))
  OBVIOUS
<1>3. n \in Nat /\ n <= Len(v) /\ n <= Len(w) /\ (n = Len(v) \/ n = Len(w))
  BY <1>1, <1>2 DEF Smaller
<1>4. \A i : i \in differing <=> i \in 1 .. n /\ v[i] # w[i]
  BY <1>2
<1>5. CASE differing = {}
  <2>1. SpanCompare(v, w) = Len(v) - Len(w)
    BY <1>5 DEF SpanCompare
  <2>2. \A i \in 1 .. n : v[i] = w[i]
    BY <1>4, <1>5
  <2>3. ASSUME Len(v) < Len(w) PROVE Before(v, w)
    <3>1. n = Len(v)
      BY <1>1, <1>3, <2>3
    <3>2. ApartAfter(n, v, w)
      BY <1>1, <1>3, <2>2, <2>3, <3>1 DEF ApartAfter
    <3> QED
      BY <1>3, <3>2 DEF Before
  <2>4. ASSUME Len(w) < Len(v) PROVE Before(w, v)
    <3>1. n = Len(w)
      BY <1>1, <1>3, <2>4
    <3>2. ApartAfter(n, w, v)
      BY <1>1, <1>3, <2>2, <2>4, <3>1 DEF ApartAfter
    <3> QED
      BY <1>3, <3>2 DEF Before
  <2>5. Len(v) = Len(w) => v = w
    <3> SUFFICES ASSUME Len(v) = Len(w) PROVE v = w
      OBVIOUS
    <3>1. n = Len(v)
      BY <1>3
    <3> QED
      BY <2>2, <3>1, WordsEqual
  <2> QED
    BY <1>1, <2>1, <2>3, <2>4, <2>5
<1>6. CASE differing # {}
  <2>1. differing \subseteq Nat
    BY <1>3, <1>4
  <2>2. PICK f \in differing : \A j \in differing : <<j, f>> \notin LessThan
    BY <1>6, <2>1, LessThanWellFounded, WFMin
  <2>3. \A j \in differing : f <= j
    <3> SUFFICES ASSUME NEW j \in differing PROVE f <= j
      OBVIOUS
    <3>1. f \in Nat /\ j \in Nat /\ <<j, f>> \notin LessThan
      BY <2>1, <2>2
    <3> QED
      BY ONLY <3>1 DEF LessThan
  <2>4. first \in differing /\ \A j \in differing : first <= j
    <3> HIDE DEF differing
    <3> QED
      BY <2>3
  <2>5. SpanCompare(v, w) = Code[v[first]] - Code[w[first]]
    BY <1>6 DEF SpanCompare
  <2>6. PICK k : k = first - 1
    OBVIOUS
  <2>7. /\ first \in 1 .. n /\ v[first] # w[first]
        /\ \A i \in 1 .. n : i < first => v[i] = w[i]
    <3>1. ASSUME NEW i \in 1 .. n, i < first PROVE v[i] = w[i]
      <4>1. first \in Nat
        BY <2>1, <2>4
      <4>2. i \notin differing
        <5> HIDE DEF first, differing
        <5> QED
          BY <2>4, <3>1, <4>1
      <4> QED
        BY <1>4, <4>2
    <3> HIDE DEF first, differing
    <3> QED
      BY <1>4, <2>4, <3>1
  <2> HIDE DEF first, differing
  <2>8. /\ k \in Nat /\ k < n /\ first = k + 1
        /\ k < Len(v) /\ k < Len(w)
    BY <1>1, <1>3, <2>6, <2>7
  <2>9. \A i \in 1 .. k : v[i] = w[i]
    <3> SUFFICES ASSUME NEW i \in 1 .. k PROVE v[i] = w[i]
      OBVIOUS
    <3>1. i \in 1 .. n /\ i < first
      BY <1>3, <2>8
    <3> QED
      BY <2>7, <3>1
  <2>10. /\ v[k + 1] \in DOMAIN Code /\ w[k + 1] \in DOMAIN Code
    <3>1. k + 1 \in 1 .. Len(v) /\ k + 1 \in 1 .. Len(w)
      BY <1>1, <2>8
    <3> QED
      BY <3>1, WordIs
  <2>11. /\ Code[v[k + 1]] \in Nat /\ Code[w[k + 1]] \in Nat
         /\ Code[v[k + 1]] # Code[w[k + 1]]
    BY <2>7, <2>8, <2>10, CodeIs
  <2>12. SpanCompare(v, w) = Code[v[k + 1]] - Code[w[k + 1]]
    BY <2>5, <2>8
  <2>13. ASSUME Code[v[k + 1]] < Code[w[k + 1]] PROVE Before(v, w)
    <3>1. ApartAfter(k, v, w)
      BY <1>1, <2>8, <2>9, <2>13 DEF ApartAfter
    <3> QED
      BY <2>8, <3>1 DEF Before
  <2>14. ASSUME Code[w[k + 1]] < Code[v[k + 1]] PROVE Before(w, v)
    <3>1. ApartAfter(k, w, v)
      BY <1>1, <2>8, <2>9, <2>14 DEF ApartAfter
    <3> QED
      BY <2>8, <3>1 DEF Before
  <2> QED
    BY <2>11, <2>12, <2>13, <2>14
<1> QED
  BY <1>5, <1>6

LEMMA TableIs ==
  /\ Len(KeywordTable) \in Nat
  /\ \A i \in 1 .. Len(KeywordTable) : KeywordTable[i] \in Words
  /\ \A i, j \in 1 .. Len(KeywordTable) :
       i < j => Before(KeywordTable[i], KeywordTable[j])
<1>1. PICK S : S = Words
  OBVIOUS
<1>2. KeywordTable \in Seq(S)
  BY <1>1, KeywordAssumption DEF Words
<1>3. Len(KeywordTable) \in Nat /\ DOMAIN KeywordTable = 1 .. Len(KeywordTable)
      /\ \A i \in 1 .. Len(KeywordTable) : KeywordTable[i] \in S
  BY <1>2
<1>4. ASSUME NEW i \in 1 .. Len(KeywordTable), NEW j \in 1 .. Len(KeywordTable), i < j
      PROVE  Before(KeywordTable[i], KeywordTable[j])
  <2>1. SpanCompare(KeywordTable[i], KeywordTable[j]) < 0
    BY <1>3, <1>4, KeywordAssumption
  <2>2. KeywordTable[i] \in Words /\ KeywordTable[j] \in Words
    BY <1>1, <1>3
  <2> QED
    BY <2>1, <2>2, SpanCompareIs
<1> QED
  BY <1>1, <1>3, <1>4

(* The part of the table still to be searched: w is nowhere else.          *)
Confined(w, lo, hi) ==
  \A i \in 1 .. Len(KeywordTable) : KeywordTable[i] = w => lo < i /\ i <= hi

Sought(w, lo, hi) == lo <= hi /\ Confined(w, lo, hi)

(* A turn of the search, from <<lo, hi>> to <<lo2, hi2>>.                  *)
SearchTurn(w, lo, hi, lo2, hi2) ==
  /\ KeywordTurn(w)[<<lo, hi>>] = <<lo2, hi2>>
  /\ lo2 # lo \/ hi2 # hi => lo < hi /\ hi2 - lo2 < hi - lo /\ lo2 <= hi2
  /\ Sought(w, lo, hi) => Sought(w, lo2, hi2)
  /\ lo2 = lo /\ hi2 = hi /\ lo < hi =>
       KeywordAt(<<lo, hi>>) = w /\ \E i \in 1 .. Len(KeywordTable) : KeywordTable[i] = w

LEMMA SearchTurnIs ==
  ASSUME NEW w \in Words, NEW lo \in 0 .. Len(KeywordTable), NEW hi \in 0 .. Len(KeywordTable)
  PROVE  \E lo2, hi2 \in 0 .. Len(KeywordTable) : SearchTurn(w, lo, hi, lo2, hi2)
<1>1. PICK n : n = Len(KeywordTable)
  OBVIOUS
<1>2. /\ n \in Nat /\ \A i \in 1 .. n : KeywordTable[i] \in Words
      /\ \A i, j \in 1 .. n : i < j => Before(KeywordTable[i], KeywordTable[j])
  BY <1>1, TableIs
<1>3. PICK mid : mid = Middle(<<lo, hi>>)
  OBVIOUS
<1>4. mid = lo + (hi - lo) \div 2
  BY <1>3 DEF Middle
<1>5. PICK diff : diff = SpanCompare(w, KeywordTable[mid + 1])
  OBVIOUS
<1>6. KeywordTurn(w)[<<lo, hi>>]
        = IF lo >= hi THEN <<lo, hi>>
          ELSE IF diff = 0 THEN <<lo, hi>>
          ELSE IF diff < 0 THEN <<lo, mid>> ELSE <<mid + 1, hi>>
  <2>1. <<lo, hi>> \in (0 .. Len(KeywordTable)) \X (0 .. Len(KeywordTable))
        /\ <<lo, hi>>[1] = lo /\ <<lo, hi>>[2] = hi
    OBVIOUS
  <2> QED
    BY <1>3, <1>5, <2>1 DEF KeywordTurn
<1>7. CASE lo >= hi
  <2>1. KeywordTurn(w)[<<lo, hi>>] = <<lo, hi>> /\ ~(lo < hi)
    BY <1>1, <1>2, <1>6, <1>7
  <2>2. SearchTurn(w, lo, hi, lo, hi)
    BY <2>1 DEF SearchTurn
  <2> QED
    BY <2>2
<1>8. CASE lo < hi
  <2>1. mid \in Nat /\ lo <= mid /\ mid < hi
    BY <1>1, <1>2, <1>4, <1>8, HalvesIs
  <2>2. mid + 1 \in 1 .. n /\ mid \in 0 .. n /\ mid + 1 \in 0 .. n
        /\ lo \in Nat /\ hi \in Nat
    BY <1>1, <1>2, <2>1
  <2>3. PICK e : e = KeywordTable[mid + 1]
    OBVIOUS
  <2>4. /\ e \in Words /\ diff \in Int
        /\ diff = 0 => w = e
        /\ diff < 0 => Before(w, e)
        /\ diff > 0 => Before(e, w)
    BY <1>2, <1>5, <2>2, <2>3, SpanCompareIs
  <2>5. CASE diff = 0
    <3>1. KeywordTurn(w)[<<lo, hi>>] = <<lo, hi>>
      BY <1>6, <2>5
    <3>2. KeywordAt(<<lo, hi>>) = w
      BY <1>3, <1>8, <2>2, <2>3, <2>4, <2>5 DEF KeywordAt
    <3>3. SearchTurn(w, lo, hi, lo, hi)
      BY <1>1, <2>2, <2>3, <2>4, <2>5, <3>1, <3>2 DEF SearchTurn
    <3> QED
      BY <3>3
  <2>6. CASE diff < 0
    <3>1. KeywordTurn(w)[<<lo, hi>>] = <<lo, mid>>
      BY <1>6, <1>8, <2>2, <2>4, <2>6
    <3>2. ASSUME NEW i \in 1 .. n, KeywordTable[i] = w PROVE i <= mid
      <4> SUFFICES ASSUME mid + 1 <= i PROVE FALSE
        BY <1>2, <2>2, <3>2
      <4>1. Before(w, e)
        BY <2>4, <2>6
      <4>2. i = mid + 1 \/ Before(e, w)
        BY <1>2, <2>2, <2>3, <3>2
      <4>3. i # mid + 1
        BY <2>3, <3>2, <4>1, BeforeApart
      <4> QED
        BY <2>4, <4>1, <4>2, <4>3, BeforeApart, BeforeTransitive
    <3>3. Sought(w, lo, hi) => Sought(w, lo, mid)
      BY <1>1, <2>1, <3>2 DEF Sought, Confined
    <3>4. SearchTurn(w, lo, hi, lo, mid)
      <4>1. mid # hi /\ mid - lo < hi - lo /\ lo <= mid
        BY <2>1, <2>2
      <4> QED
        BY <1>8, <3>1, <3>3, <4>1 DEF SearchTurn
    <3> QED
      BY <1>1, <2>2, <3>4
  <2>7. CASE diff > 0
    <3>1. KeywordTurn(w)[<<lo, hi>>] = <<mid + 1, hi>>
      BY <1>6, <1>8, <2>2, <2>4, <2>7
    <3>2. ASSUME NEW i \in 1 .. n, KeywordTable[i] = w PROVE mid + 1 < i
      <4> SUFFICES ASSUME i <= mid + 1 PROVE FALSE
        BY <1>2, <2>2, <3>2
      <4>1. Before(e, w)
        BY <2>4, <2>7
      <4>2. i = mid + 1 \/ Before(w, e)
        BY <1>2, <2>2, <2>3, <3>2
      <4>3. i # mid + 1
        BY <2>3, <3>2, <4>1, BeforeApart
      <4> QED
        BY <2>4, <4>1, <4>2, <4>3, BeforeApart, BeforeTransitive
    <3>3. Sought(w, lo, hi) => Sought(w, mid + 1, hi)
      <4>1. mid + 1 <= hi
        BY <2>1, <2>2
      <4> QED
        BY <1>1, <3>2, <4>1 DEF Sought, Confined
    <3>4. SearchTurn(w, lo, hi, mid + 1, hi)
      <4>1. mid + 1 # lo /\ hi - (mid + 1) < hi - lo /\ mid + 1 <= hi
        BY <2>1, <2>2
      <4> QED
        BY <1>8, <3>1, <3>3, <4>1 DEF SearchTurn
    <3> QED
      BY <1>1, <2>2, <3>4
  <2> QED
    BY <2>4, <2>5, <2>6, <2>7
<1> QED
  BY <1>1, <1>2, <1>7, <1>8

(* The binary search of the keywords finds every word of the table, and    *)
(* nothing else, whatever the table (token.c:187-208).                     *)
THEOREM KeywordsFound ==
  ASSUME NEW w \in Words
  PROVE  KeywordLookup(w) =
           IF \E i \in DOMAIN KeywordTable : KeywordTable[i] = w THEN w ELSE <<>>
<1>1. PICK n : n = Len(KeywordTable)
  OBVIOUS
<1>2. n \in Nat /\ DOMAIN KeywordTable = 1 .. n
  BY <1>1, TableIs, KeywordAssumption
<1> DEFINE D == (0 .. n) \X (0 .. n)
           m == [r \in D |-> IF r[1] >= r[2] THEN 0 ELSE r[2] - r[1]]
           P == {r \in D : Sought(w, r[1], r[2])}
<1>3. PICK step : step = KeywordTurn(w)
  OBVIOUS
<1>4. ASSUME NEW r \in D
      PROVE  /\ step[r] \in D /\ m[r] \in 0 .. n
             /\ step[r] # r => m[step[r]] < m[r]
             /\ r \in P => step[r] \in P
             /\ step[r] = r /\ r[1] < r[2] =>
                  KeywordAt(r) = w /\ \E i \in 1 .. n : KeywordTable[i] = w
  <2>1. PICK lo \in 0 .. n, hi \in 0 .. n : r = <<lo, hi>>
    OBVIOUS
  <2>2. PICK lo2 \in 0 .. n, hi2 \in 0 .. n : SearchTurn(w, lo, hi, lo2, hi2)
    BY <1>1, SearchTurnIs
  <2>3. r[1] = lo /\ r[2] = hi
    BY <2>1
  <2>4. <<lo2, hi2>> \in D /\ <<lo2, hi2>>[1] = lo2 /\ <<lo2, hi2>>[2] = hi2
    BY <2>2
  <2>5. step[r] = <<lo2, hi2>>
    BY <1>3, <2>1, <2>2 DEF SearchTurn
  <2>6. /\ m[r] = IF lo >= hi THEN 0 ELSE hi - lo
        /\ m[<<lo2, hi2>>] = IF lo2 >= hi2 THEN 0 ELSE hi2 - lo2
    BY <2>3, <2>4
  <2>7. r \in P => <<lo2, hi2>> \in P
    BY <2>2, <2>3, <2>4 DEF SearchTurn
  <2>8. /\ lo2 # lo \/ hi2 # hi => lo < hi /\ hi2 - lo2 < hi - lo /\ lo2 <= hi2
        /\ lo2 = lo /\ hi2 = hi /\ lo < hi =>
             KeywordAt(r) = w /\ \E i \in 1 .. n : KeywordTable[i] = w
    BY <1>1, <2>1, <2>2 DEF SearchTurn
  <2> HIDE DEF D, m, P
  <2>9. m[r] \in 0 .. n
    BY <1>2, <2>6
  <2>10. step[r] # r => m[step[r]] < m[r]
    BY <1>2, <2>1, <2>5, <2>6, <2>8
  <2>11. step[r] = r => lo2 = lo /\ hi2 = hi
    BY <2>3, <2>4, <2>5
  <2> QED
    BY <2>3, <2>4, <2>5, <2>7, <2>8, <2>9, <2>10, <2>11
<1>5. step \in [D -> D] /\ m \in [D -> 0 .. n]
  <2>1. step = [r \in D |-> step[r]]
    BY <1>1, <1>3 DEF KeywordTurn
  <2>2. m = [r \in D |-> m[r]]
    OBVIOUS
  <2> HIDE DEF D, m, P
  <2> QED
    BY <1>4, <2>1, <2>2
<1>6. P \subseteq D /\ <<0, n>> \in P
  <2>1. Sought(w, 0, n)
    BY <1>1, <1>2 DEF Sought, Confined
  <2> QED
    BY <1>2, <2>1
<1>7. ASSUME NEW r \in P PROVE r \in D /\ Sought(w, r[1], r[2])
  OBVIOUS
<1>8. ASSUME NEW r \in D PROVE r[1] \in 0 .. n /\ r[2] \in 0 .. n
  OBVIOUS
<1> HIDE DEF D, m, P
<1>9. Descends(D, step, m, n)
  BY <1>2, <1>4, <1>5 DEF Descends
<1>10. PICK e : e = LoopEnd(step, <<0, n>>)
  OBVIOUS
<1>11. e \in P /\ step[e] = e
  BY <1>4, <1>6, <1>9, <1>10, LoopKeeps
<1>12. KeywordLookup(w) = KeywordAt(e)
  BY <1>1, <1>3, <1>10 DEF KeywordLookup
<1>13. CASE e[1] < e[2]
  BY <1>2, <1>4, <1>6, <1>11, <1>12, <1>13
<1>14. CASE ~(e[1] < e[2])
  <2>1. e[1] \in Nat /\ e[2] \in Nat
    BY <1>2, <1>6, <1>8, <1>11
  <2>2. KeywordAt(e) = <<>>
    BY <1>14, <2>1 DEF KeywordAt
  <2>3. Confined(w, e[1], e[2])
    BY <1>7, <1>11 DEF Sought
  <2>4. ASSUME NEW i \in 1 .. n, KeywordTable[i] = w PROVE FALSE
    <3>1. e[1] < i /\ i <= e[2]
      BY <1>1, <2>3, <2>4 DEF Confined
    <3> QED
      BY <1>2, <1>14, <2>1, <3>1
  <2> QED
    BY <1>2, <1>12, <2>2, <2>4
<1> QED
  BY <1>13, <1>14

-----------------------------------------------------------------------------
(* Integer constants                                                       *)

LEMMA DivModIs ==
  ASSUME NEW v \in Nat, NEW m \in Nat, m > 0
  PROVE  v \div m \in Nat /\ v % m \in Nat /\ v % m < m /\ v = (v \div m) * m + (v % m)
OBVIOUS

LEMMA ModShift ==
  ASSUME NEW x \in Nat, NEW k \in Nat, NEW m \in Nat, m > 0
  PROVE  (k * m + x) % m = x % m
<1>1. k * m \in Nat
  OBVIOUS
<1>2. PICK q \in Nat, r \in Nat : x = q * m + r /\ r < m /\ r = x % m
  BY DivModIs
<1>3. PICK q2 \in Nat, r2 \in Nat : k * m + x = q2 * m + r2 /\ r2 < m /\ r2 = (k * m + x) % m
  <2>1. PICK y \in Nat : y = k * m + x
    BY <1>1
  <2> QED
    BY <2>1, DivModIs
<1>4. (q2 - q - k) * m = r - r2
  BY <1>2, <1>3
<1>5. PICK t \in Int : t = q2 - q - k
  OBVIOUS
<1>6. t * m = r - r2
  BY <1>4, <1>5
<1>7. t < 1
  <2> SUFFICES ASSUME t >= 1 PROVE FALSE
    BY <1>5
  <2>1. t * m >= m
    BY ONLY t \in Int, m \in Nat, m > 0, t >= 1
  <2> QED
    BY ONLY <2>1, <1>6, r \in Nat, r2 \in Nat, m \in Nat, <1>2, <1>3
<1>8. t > -1
  <2> SUFFICES ASSUME t <= -1 PROVE FALSE
    BY <1>5
  <2>1. t * m <= -m
    BY ONLY t \in Int, m \in Nat, m > 0, t <= -1
  <2> QED
    BY ONLY <2>1, <1>6, r \in Nat, r2 \in Nat, m \in Nat, <1>2, <1>3
<1>9. t = 0
  BY <1>7, <1>8
<1> QED
  BY <1>2, <1>3, <1>6, <1>9

(* A digit more, in a word of the values below m.                          *)
LEMMA DigitMore ==
  ASSUME NEW v \in Nat, NEW m \in Nat, m > 0, NEW base \in Nat, base > 0, NEW d \in Nat
  PROVE  ((v % m) * base + d) % m = (v * base + d) % m
<1>1. PICK q \in Nat, r \in Nat : v = q * m + r /\ r = v % m
  BY DivModIs
<1>2. v * base + d = (q * base) * m + (r * base + d)
  BY <1>1
<1>3. q * base \in Nat /\ r * base + d \in Nat
  OBVIOUS
<1> QED
  BY <1>1, <1>2, <1>3, ModShift

LEMMA DigitOverflows ==
  ASSUME NEW v \in Nat, NEW m \in Nat, m > 0, NEW base \in Nat, base > 0, NEW d \in Nat,
         d < base
  PROVE  v * base + d >= m <=> v >= m \/ v % m > (m - 1 - d) \div base
<1>1. CASE v >= m
  <2>1. v * base >= v
    OBVIOUS
  <2> QED
    BY <1>1, <2>1
<1>2. CASE v < m
  <2>1. v % m = v
    BY <1>2
  <2>2. v > (m - 1 - d) \div base <=> v * base + d >= m
    OBVIOUS
  <2> QED
    BY <1>2, <2>1, <2>2
<1> QED
  BY <1>1, <1>2

LEMMA DigitValueIs ==
  ASSUME NEW c
  PROVE  DigitValue(c) \in Nat
<1>1. CASE ValuesOf(c) = {}
  BY <1>1 DEF DigitValue
<1>2. CASE ValuesOf(c) # {}
  <2>1. The(ValuesOf(c)) \in ValuesOf(c)
    <3>1. PICK S : S = ValuesOf(c)
      OBVIOUS
    <3>2. (CHOOSE e \in S : TRUE) \in S
      BY <1>2, <3>1
    <3> QED
      BY <3>1, <3>2 DEF The
  <2>2. ValuesOf(c) \subseteq Nat
    BY DEF ValuesOf
  <2> QED
    BY <1>2, <2>1, <2>2 DEF DigitValue
<1> QED
  BY <1>1, <1>2

LEMMA EndIsNoDigit == DigitValue(End) = 99
<1>1. \A v \in 0 .. 15 : End \notin DigitNames[v + 1]
  <2>1. ASSUME NEW k \in 1 .. 16 PROVE End \notin DigitNames[k]
    <3>1. DigitNames[1] = {"0"} /\ End \notin DigitNames[1]
      BY DEF DigitNames, End
    <3>2. DigitNames[2] = {"1"} /\ End \notin DigitNames[2]
      BY DEF DigitNames, End
    <3>3. DigitNames[3] = {"2"} /\ End \notin DigitNames[3]
      BY DEF DigitNames, End
    <3>4. DigitNames[4] = {"3"} /\ End \notin DigitNames[4]
      BY DEF DigitNames, End
    <3>5. DigitNames[5] = {"4"} /\ End \notin DigitNames[5]
      BY DEF DigitNames, End
    <3>6. DigitNames[6] = {"5"} /\ End \notin DigitNames[6]
      BY DEF DigitNames, End
    <3>7. DigitNames[7] = {"6"} /\ End \notin DigitNames[7]
      BY DEF DigitNames, End
    <3>8. DigitNames[8] = {"7"} /\ End \notin DigitNames[8]
      BY DEF DigitNames, End
    <3>9. DigitNames[9] = {"8"} /\ End \notin DigitNames[9]
      BY DEF DigitNames, End
    <3>10. DigitNames[10] = {"9"} /\ End \notin DigitNames[10]
      BY DEF DigitNames, End
    <3>11. DigitNames[11] = {"a", "A"} /\ End \notin DigitNames[11]
      BY DEF DigitNames, End
    <3>12. DigitNames[12] = {"b", "B"} /\ End \notin DigitNames[12]
      BY DEF DigitNames, End
    <3>13. DigitNames[13] = {"c", "C"} /\ End \notin DigitNames[13]
      BY DEF DigitNames, End
    <3>14. DigitNames[14] = {"d", "D"} /\ End \notin DigitNames[14]
      BY DEF DigitNames, End
    <3>15. DigitNames[15] = {"e", "E"} /\ End \notin DigitNames[15]
      BY DEF DigitNames, End
    <3>16. DigitNames[16] = {"f", "F"} /\ End \notin DigitNames[16]
      BY DEF DigitNames, End
    <3> QED
      BY <3>1, <3>2, <3>3, <3>4, <3>5, <3>6, <3>7, <3>8, <3>9, <3>10, <3>11, <3>12, <3>13, <3>14, <3>15, <3>16
  <2> QED
    BY <2>1
<1>2. ValuesOf(End) = {}
  BY <1>1 DEF ValuesOf
<1> QED
  BY <1>2 DEF DigitValue

(* The value of the digits from first to before at.                        *)
DigitsRead(w, base, first) ==
  LET v[k \in 0 .. Len(w) + 1] ==
        IF k <= first THEN 0 ELSE v[k - 1] * base + DigitValue(CharAt(w, k - 1))
  IN  v

LEMMA DigitsReadIs ==
  ASSUME NEW w, Len(w) \in Nat, NEW base \in Nat, NEW first \in Nat,
         NEW k \in 0 .. Len(w) + 1
  PROVE  LET v == DigitsRead(w, base, first)
         IN  /\ v[k] \in Nat
             /\ v[k] = IF k <= first THEN 0
                       ELSE v[k - 1] * base + DigitValue(CharAt(w, k - 1))
<1> DEFINE D == 0 .. Len(w) + 1
           Reads(f) == f = [q \in D |->
                              IF q <= first THEN 0
                              ELSE f[q - 1] * base + DigitValue(CharAt(w, q - 1))]
           step == [q \in D |-> IF q <= first THEN q ELSE q - 1]
           m == [q \in D |-> q]
           zero == [q \in D |-> 0]
           next == [q \in D |-> [u \in Nat |-> u * base + DigitValue(CharAt(w, q - 1))]]
<1>1. PICK n : n = Len(w) + 1 /\ n \in Nat
  OBVIOUS
<1>2. \A q \in D : DigitValue(CharAt(w, q - 1)) \in Nat
  BY DigitValueIs
<1>3. /\ zero \in [D -> Nat]
      /\ \A q \in D : zero[q] = 0
      /\ \A q \in D : \A u \in Nat : next[q][u] = u * base + DigitValue(CharAt(w, q - 1))
      /\ next = [q \in D |-> next[q]]
  OBVIOUS
<1>4. next \in [D -> [Nat -> Nat]]
  <2>1. ASSUME NEW q \in D PROVE next[q] \in [Nat -> Nat]
    <3>1. PICK d \in Nat : d = DigitValue(CharAt(w, q - 1))
      BY <1>2
    <3>2. next[q] = [u \in Nat |-> u * base + d]
      BY <3>1
    <3>3. [u \in Nat |-> u * base + d] \in [Nat -> Nat]
      OBVIOUS
    <3> QED
      BY <3>2, <3>3
  <2> HIDE DEF D, next
  <2> QED
    BY <1>3, <2>1
<1>5. /\ step \in [D -> D] /\ m \in [D -> 0 .. n]
      /\ \A q \in D : step[q] = IF q <= first THEN q ELSE q - 1
      /\ \A q \in D : m[q] = q /\ q \in Nat
  BY <1>1
<1> HIDE DEF step, m, zero, next
<1>6. \A q \in D : step[q] # q => m[step[q]] < m[q]
  <2> SUFFICES ASSUME NEW q \in D, step[q] # q PROVE m[step[q]] < m[q]
    OBVIOUS
  <2>1. step[q] = q - 1 /\ q - 1 \in D /\ q \in Nat
    BY <1>5
  <2> QED
    BY <1>5, <2>1
<1>7. Descends(D, step, m, n)
  BY <1>1, <1>5, <1>6 DEF Descends
<1> HIDE DEF D
<1>8. PICK f : Recursion(D, step, zero, next, f)
  BY <1>7, RecursionExists
<1>9. f \in [D -> Nat]
  BY <1>3, <1>4, <1>7, <1>8, RecursionType
<1>10. ASSUME NEW q \in D
       PROVE  f[q] = IF q <= first THEN 0
                     ELSE f[q - 1] * base + DigitValue(CharAt(w, q - 1))
  <2>1. f[q] = IF step[q] = q THEN zero[q] ELSE next[q][f[step[q]]]
    BY <1>8, RecursionIs
  <2>2. f[step[q]] \in Nat
    BY <1>5, <1>9
  <2>3. CASE q <= first
    BY <1>3, <1>5, <2>1, <2>3
  <2>4. CASE ~(q <= first)
    <3>1. step[q] = q - 1 /\ step[q] # q
      <4>1. q \in Nat
        BY <1>5
      <4> QED
        BY <1>5, <2>4, <4>1
    <3>2. f[q] = next[q][f[q - 1]] /\ f[q - 1] \in Nat
      BY <2>1, <2>2, <3>1
    <3>3. next[q][f[q - 1]] = f[q - 1] * base + DigitValue(CharAt(w, q - 1))
      BY <1>3, <3>2
    <3> QED
      BY <2>4, <3>2, <3>3
  <2> QED
    BY <2>3, <2>4
<1>11. Reads(f)
  <2>1. f = [q \in D |-> f[q]]
    BY <1>9
  <2> QED
    BY <1>10, <2>1
<1>12. Reads(DigitsRead(w, base, first))
  <2> DEFINE v == CHOOSE g : Reads(g)
  <2>1. Reads(v)
    BY <1>11
  <2>2. DigitsRead(w, base, first) = v
    BY DEF DigitsRead, D
  <2> HIDE DEF v, Reads
  <2> QED
    BY <2>1, <2>2
<1>13. PICK v : v = DigitsRead(w, base, first)
  OBVIOUS
<1>14. \A q \in D : v[q] = IF q <= first THEN 0
                           ELSE v[q - 1] * base + DigitValue(CharAt(w, q - 1))
  <2> DEFINE g == [q \in D |->
                     IF q <= first THEN 0
                     ELSE v[q - 1] * base + DigitValue(CharAt(w, q - 1))]
  <2>1. v = g
    BY <1>12, <1>13
  <2>2. \A q \in D : g[q] = IF q <= first THEN 0
                            ELSE v[q - 1] * base + DigitValue(CharAt(w, q - 1))
    OBVIOUS
  <2> HIDE DEF g
  <2> QED
    BY <2>1, <2>2
<1> DEFINE S == {j \in Nat : j \in D => v[j] \in Nat}
<1>15. 0 \in S
  BY <1>14
<1>16. ASSUME NEW j \in Nat, j \in S PROVE j + 1 \in S
  <2> SUFFICES ASSUME j + 1 \in D PROVE v[j + 1] \in Nat
    OBVIOUS
  <2>1. j \in D /\ j + 1 - 1 = j
    BY <1>1 DEF D
  <2>2. v[j] \in Nat
    BY <1>16, <2>1
  <2>3. v[j + 1] = IF j + 1 <= first THEN 0 ELSE v[j] * base + DigitValue(CharAt(w, j))
    BY <1>14, <2>1
  <2>4. DigitValue(CharAt(w, j)) \in Nat
    BY DigitValueIs
  <2> QED
    BY <2>2, <2>3, <2>4
<1> HIDE DEF S
<1>17. k \in S
  BY <1>15, <1>16, Induction
<1>18. k \in D /\ k \in Nat
  BY DEF D
<1>19. v[k] \in Nat
  BY <1>17, <1>18 DEF S
<1> QED
  BY <1>13, <1>14, <1>18, <1>19

(* The loop is at a place that exact, the value of the digits before it,   *)
(* accounts for: the word holds what is left of it, and overflow what is   *)
(* not.                                                                    *)
Accounts(w, base, first, exact, so) ==
  /\ so.at \in first .. Len(w) + 1
  /\ \A i \in first .. so.at - 1 : DigitValue(CharAt(w, i)) < base
  /\ so.value = exact % (2 ^ LongWidth)
  /\ so.overflow <=> exact >= 2 ^ LongWidth

(* What so becomes, r, by taking the digit d: one place on, the value      *)
(* shifted and d added in the word, overflow noted (intconst.c:73-82).     *)
TakesDigit(so, base, d, r) ==
  /\ r \in Digits0 /\ r # so /\ r.at = so.at + 1
  /\ r.value = (so.value * base + d) % (2 ^ LongWidth)
  /\ r.overflow <=> so.overflow \/ so.value > (2 ^ LongWidth - 1 - d) \div base

(* WithDigit is such a step, for every digit and every base.               *)
LEMMA WithDigitIs ==
  ASSUME NEW so \in Digits0, NEW base \in Nat \ {0}, NEW d \in Nat,
         NEW r, r = WithDigit(so, base, d)
  PROVE  TakesDigit(so, base, d, r)
<1>1. PICK m \in Nat \ {0} : m = 2 ^ LongWidth
  BY LiteralsAssumption
<1>2. PICK a \in Nat, x \in Nat, o \in BOOLEAN : so = [at |-> a, value |-> x, overflow |-> o]
  BY DEF Digits0
<1>3. so.at = a /\ so.value = x /\ so.overflow = o
  BY <1>2
<1>4. PICK y : y = x * base + d
  OBVIOUS
<1>5. y \in Nat
  BY <1>4
<1>6. PICK z \in Nat : z = y % m
  BY <1>5, DivModIs
<1>7. PICK t \in BOOLEAN : t <=> (o \/ x > (m - 1 - d) \div base)
  OBVIOUS
<1>8. WithDigit(so, base, d) = [at |-> a + 1, value |-> z, overflow |-> t]
  BY <1>1, <1>3, <1>4, <1>6, <1>7 DEF WithDigit, Digits
<1>9. [at |-> a + 1, value |-> z, overflow |-> t] \in Digits0
  BY DEF Digits0
<1> QED
  BY <1>1, <1>3, <1>4, <1>6, <1>7, <1>8, <1>9 DEF TakesDigit

(* A constant is read to its first character that is no digit of its base, *)
(* and what is read is its value: overflow is set just when the value has  *)
(* no place in the word, and the word keeps it otherwise                   *)
(* (intconst.c:68-82).                                                     *)
THEOREM IntegerRead ==
  ASSUME NEW w \in Words, NEW base \in {8, 10, 16},
         NEW first \in 1 .. Len(w) + 1
  PROVE  LET r == Accumulate(w, base, Digits(first, 0, FALSE))
         IN  /\ r \in Digits0
             /\ Accounts(w, base, first, DigitsRead(w, base, first)[r.at], r)
             /\ DigitValue(CharAt(w, r.at)) >= base
<1>1. PICK n : n = Len(w) /\ n \in Nat /\ DOMAIN w = 1 .. n
  BY DEF Words
<1>2. PICK m \in Nat \ {0} : m = 2 ^ LongWidth
  BY LiteralsAssumption
<1>3. PICK v : v = DigitsRead(w, base, first)
  OBVIOUS
<1>4. \A k \in 0 .. n + 1 :
        v[k] \in Nat /\ v[k] = IF k <= first THEN 0
                               ELSE v[k - 1] * base + DigitValue(CharAt(w, k - 1))
  BY <1>1, <1>3, DigitsReadIs
<1> DEFINE D == Digits0
           left == [so \in D |-> IF so.at > n THEN 0 ELSE n + 1 - so.at]
           P == {so \in D : Accounts(w, base, first, v[so.at], so)}
           start == Digits(first, 0, FALSE)
<1>5. PICK step : step = DigitTurn(w, base)
  OBVIOUS
<1>6. \A so \in D : so.at \in Nat /\ so.value \in Nat
  BY DEF Digits0
<1>7. ASSUME NEW so \in D, ~(so.at \in 1 .. n)
      PROVE  DigitValue(CharAt(w, so.at)) = 99
  BY <1>1, <1>7, EndIsNoDigit DEF CharAt
<1>8. ASSUME NEW so \in D
      PROVE  LET d == DigitValue(CharAt(w, so.at))
             IN  step[so] = IF d >= base THEN so ELSE WithDigit(so, base, d)
  BY <1>5 DEF DigitTurn
<1>9. start \in P
  <2>1. start = [at |-> first, value |-> 0, overflow |-> FALSE] /\ first \in Nat
    BY <1>1 DEF Digits
  <2>2. start \in D /\ start.at = first /\ start.value = 0 /\ start.overflow = FALSE
    <3>1. PICK o \in BOOLEAN : o = FALSE
      OBVIOUS
    <3>2. [at |-> first, value |-> 0, overflow |-> o] \in Digits0
      BY <2>1 DEF Digits0
    <3>3. start = [at |-> first, value |-> 0, overflow |-> o]
      BY <2>1, <3>1
    <3> HIDE DEF start
    <3> QED
      BY <3>1, <3>2, <3>3
  <2>3. v[first] = 0
    BY <1>1, <1>4
  <2>4. 0 % m = 0 /\ ~(0 >= m)
    BY <1>2
  <2>5. first \in first .. Len(w) + 1 /\ first .. first - 1 = {}
    BY <1>1
  <2> HIDE DEF start
  <2>6. Accounts(w, base, first, v[start.at], start)
    BY <1>2, <2>2, <2>3, <2>4, <2>5 DEF Accounts
  <2> QED
    BY <2>2, <2>6
<1>10. \A so \in D : left[so] = IF so.at > n THEN 0 ELSE n + 1 - so.at
  OBVIOUS
<1>11. P \subseteq D /\ \A so \in P : Accounts(w, base, first, v[so.at], so)
  OBVIOUS
<1>12. \A so \in D : Accounts(w, base, first, v[so.at], so) => so \in P
  OBVIOUS
<1>13. left = [so \in D |-> left[so]]
  OBVIOUS
<1>14. Accumulate(w, base, Digits(first, 0, FALSE)) = LoopEnd(step, start)
  BY <1>5 DEF Accumulate
<1> HIDE DEF D, left, P, start
<1>15. ASSUME NEW so \in D
       PROVE  /\ step[so] \in D
              /\ step[so] # so => left[step[so]] < left[so]
              /\ step[so] = so => DigitValue(CharAt(w, so.at)) >= base
              /\ so \in P => step[so] \in P
  <2>1. PICK d \in Nat : d = DigitValue(CharAt(w, so.at))
    BY DigitValueIs
  <2>2. step[so] = IF d >= base THEN so ELSE WithDigit(so, base, d)
    BY <1>8, <2>1
  <2>3. CASE d >= base
    BY <2>1, <2>2, <2>3
  <2>4. CASE d < base
    <3>1. step[so] = WithDigit(so, base, d)
      BY <2>2, <2>4
    <3>2. so.at \in 1 .. n
      BY <1>7, <2>1, <2>4
    <3>3. PICK r : r = step[so]
      OBVIOUS
    <3>4. /\ r \in D /\ r # so /\ r.at = so.at + 1
          /\ r.value = (so.value * base + d) % m
          /\ r.overflow <=> so.overflow \/ so.value > (m - 1 - d) \div base
      <4>1. so \in Digits0 /\ base \in Nat \ {0}
        BY DEF D
      <4>2. r = WithDigit(so, base, d)
        BY <3>1, <3>3
      <4>3. TakesDigit(so, base, d, r)
        BY ONLY <4>1, <4>2, <2>1, WithDigitIs, Zenon
      <4>4. r \in D
        BY <4>3 DEF D, TakesDigit
      <4> QED
        BY ONLY <1>2, <4>3, <4>4, Zenon DEF TakesDigit
    <3>5. left[r] < left[so]
      <4>1. /\ left[r] = IF r.at > n THEN 0 ELSE n + 1 - r.at
            /\ left[so] = IF so.at > n THEN 0 ELSE n + 1 - so.at
        BY <1>10, <3>4
      <4> QED
        BY <1>1, <3>2, <3>4, <4>1
    <3>6. ASSUME so \in P PROVE r \in P
      <4>1. PICK x \in Nat : x = v[so.at]
        BY <1>1, <1>4, <3>2
      <4>2. /\ so.at >= first
            /\ \A i \in first .. so.at - 1 : DigitValue(CharAt(w, i)) < base
            /\ so.value = x % m
            /\ so.overflow <=> x >= m
        BY <1>1, <1>2, <1>11, <3>2, <3>6, <4>1 DEF Accounts
      <4>3. v[r.at] = x * base + d
        <5>1. /\ r.at \in 0 .. n + 1 /\ r.at - 1 = so.at /\ ~(r.at <= first)
          BY <1>1, <3>2, <3>4, <4>2
        <5>2. v[r.at] = v[r.at - 1] * base + DigitValue(CharAt(w, r.at - 1))
          BY <1>4, <5>1
        <5> QED
          BY <2>1, <4>1, <5>1, <5>2
      <4>4. r.value = v[r.at] % m
        <5>1. ((x % m) * base + d) % m = (x * base + d) % m
          <6>1. base \in Nat /\ base > 0 /\ m \in Nat /\ m > 0
            OBVIOUS
          <6> QED
            BY <6>1, DigitMore
        <5> QED
          BY ONLY <3>4, <4>2, <4>3, <5>1
      <4>5. r.overflow <=> v[r.at] >= m
        <5>1. x * base + d >= m <=> x >= m \/ x % m > (m - 1 - d) \div base
          BY <2>4, DigitOverflows
        <5> QED
          BY <3>4, <4>2, <4>3, <5>1
      <4>6. r.at \in first .. n + 1
        BY <1>1, <3>2, <3>4, <4>2
      <4>7. ASSUME NEW i \in first .. r.at - 1 PROVE DigitValue(CharAt(w, i)) < base
        <5>1. i \in first .. so.at - 1 \/ i = so.at
          BY <1>1, <3>2, <3>4
        <5> QED
          BY <2>1, <2>4, <4>2, <5>1
      <4>8. Accounts(w, base, first, v[r.at], r)
        BY <1>1, <1>2, <4>4, <4>5, <4>6, <4>7 DEF Accounts
      <4> QED
        BY <1>12, <3>4, <4>8
    <3> QED
      BY <3>3, <3>4, <3>5, <3>6
  <2> QED
    BY <2>1, <2>3, <2>4
<1>16. \A so \in D : left[so] \in 0 .. n + 1
  <2> SUFFICES ASSUME NEW so \in D PROVE left[so] \in 0 .. n + 1
    OBVIOUS
  <2>1. so.at \in Nat
    BY <1>6
  <2> QED
    BY <1>1, <1>10, <2>1
<1>17. Descends(D, step, left, n + 1)
  <2>1. step = [so \in D |-> step[so]]
    BY <1>5 DEF DigitTurn, D
  <2>2. step \in [D -> D]
    BY <1>15, <2>1
  <2>3. left \in [D -> 0 .. n + 1]
    BY <1>13, <1>16
  <2> QED
    BY <1>1, <1>15, <2>2, <2>3 DEF Descends
<1>18. PICK r : r = LoopEnd(step, start)
  OBVIOUS
<1>19. r \in P /\ step[r] = r
  BY <1>9, <1>11, <1>15, <1>17, <1>18, LoopKeeps
<1>20. r \in D /\ Accounts(w, base, first, v[r.at], r) /\ DigitValue(CharAt(w, r.at)) >= base
  BY <1>11, <1>15, <1>19
<1> QED
  BY <1>3, <1>14, <1>18, <1>20 DEF D

-----------------------------------------------------------------------------
(* UTF-8                                                                   *)

LEMMA LeadLengthIs ==
  ASSUME NEW b \in Nat
  PROVE  /\ b < 128 => LeadLength(b) = 1
         /\ b \in 194 .. 223 => LeadLength(b) = 2
         /\ b \in 224 .. 239 => LeadLength(b) = 3
         /\ b \in 240 .. 244 => LeadLength(b) = 4
BY DEF LeadLength

(* The bytes that claim so many.                                           *)
LEMMA LeadIs ==
  ASSUME NEW b \in Nat
  PROVE  /\ LeadLength(b) = 1 => b < 128
         /\ LeadLength(b) = 2 => b \in 194 .. 223
         /\ LeadLength(b) = 3 => b \in 224 .. 239
         /\ LeadLength(b) = 4 => b \in 240 .. 244
<1>1. \/ b < 128 \/ b \in 194 .. 223 \/ b \in 224 .. 239 \/ b \in 240 .. 244
      \/ ~(b < 128) /\ b \notin 194 .. 223 /\ b \notin 224 .. 239 /\ b \notin 240 .. 244
  OBVIOUS
<1>2. ~(b < 128) /\ b \notin 194 .. 223 /\ b \notin 224 .. 239 /\ b \notin 240 .. 244
      => LeadLength(b) = 0
  BY DEF LeadLength
<1> QED
  BY <1>1, <1>2, LeadLengthIs

(* The bits of the lead byte of n bytes.                                   *)
LeadBits(b, n) == b % <<64, 32, 16, 8>>[n]

LEMMA LeadBitsIs ==
  ASSUME NEW b \in Nat
  PROVE  /\ LeadBits(b, 1) = b % 64 /\ LeadBits(b, 2) = b % 32
         /\ LeadBits(b, 3) = b % 16 /\ LeadBits(b, 4) = b % 8
BY DEF LeadBits

LEMMA Spelled8Is ==
  ASSUME NEW bytes, NEW n \in 1 .. 4, \A k \in 1 .. n : bytes[k] \in Nat
  PROVE  Spelled8(bytes, n) =
           IF n = 1 THEN bytes[1] % 64
           ELSE IF n = 2 THEN (bytes[1] % 32) * 64 + (bytes[2] % 64)
           ELSE IF n = 3 THEN (bytes[1] % 16) * 4096 + (bytes[2] % 64) * 64 + (bytes[3] % 64)
           ELSE (bytes[1] % 8) * 262144 + (bytes[2] % 64) * 4096
                  + (bytes[3] % 64) * 64 + (bytes[4] % 64)
<1> DEFINE D == 1 .. n
           Spells(f) == f = [k \in D |-> IF k = 1 THEN LeadBits(bytes[1], n)
                                         ELSE f[k - 1] * 64 + (bytes[k] % 64)]
           of == CHOOSE f : Spells(f)
           a == LeadBits(bytes[1], n)
           g == [k \in D |->
                   IF k = 1 THEN a
                   ELSE IF k = 2 THEN a * 64 + (bytes[2] % 64)
                   ELSE IF k = 3 THEN (a * 64 + (bytes[2] % 64)) * 64 + (bytes[3] % 64)
                   ELSE ((a * 64 + (bytes[2] % 64)) * 64 + (bytes[3] % 64)) * 64
                          + (bytes[4] % 64)]
<1>1. Spells(g)
  <2>1. ASSUME NEW k \in D
        PROVE  g[k] = IF k = 1 THEN a ELSE g[k - 1] * 64 + (bytes[k] % 64)
    <3>1. k = 1 \/ k = 2 \/ k = 3 \/ k = 4
      OBVIOUS
    <3>2. k # 1 => k - 1 \in D
      OBVIOUS
    <3> HIDE DEF a
    <3> QED
      BY <3>1, <3>2
  <2>2. g = [k \in D |-> g[k]]
    OBVIOUS
  <2> HIDE DEF g
  <2> QED
    BY <2>1, <2>2
<1>2. Spells(of)
  <2> HIDE DEF Spells, g
  <2> QED
    BY <1>1
<1>3. Spelled8(bytes, n) = of[n]
  BY DEF Spelled8, LeadBits
<1> HIDE DEF of
<1>4. ASSUME NEW k \in D
      PROVE  of[k] = IF k = 1 THEN a ELSE of[k - 1] * 64 + (bytes[k] % 64)
  <2> DEFINE h == [j \in D |-> IF j = 1 THEN a ELSE of[j - 1] * 64 + (bytes[j] % 64)]
  <2>1. of = h
    BY <1>2
  <2>2. h[k] = IF k = 1 THEN a ELSE of[k - 1] * 64 + (bytes[k] % 64)
    OBVIOUS
  <2> HIDE DEF h
  <2> QED
    BY <2>1, <2>2
<1>5. n = 1 \/ n = 2 \/ n = 3 \/ n = 4
  OBVIOUS
<1>6. a = IF n = 1 THEN bytes[1] % 64 ELSE IF n = 2 THEN bytes[1] % 32
          ELSE IF n = 3 THEN bytes[1] % 16 ELSE bytes[1] % 8
  <2>1. bytes[1] \in Nat
    OBVIOUS
  <2>2. /\ LeadBits(bytes[1], 1) = bytes[1] % 64 /\ LeadBits(bytes[1], 2) = bytes[1] % 32
        /\ LeadBits(bytes[1], 3) = bytes[1] % 16 /\ LeadBits(bytes[1], 4) = bytes[1] % 8
    BY <2>1, LeadBitsIs
  <2> QED
    BY ONLY <1>5, <2>2
<1> HIDE DEF a, Spells
<1>7. CASE n = 1
  <2>1. of[1] = a
    BY <1>4, <1>7
  <2> QED
    BY <1>3, <1>6, <1>7, <2>1
<1>8. CASE n = 2
  <2>1. of[1] = a /\ of[2] = of[1] * 64 + (bytes[2] % 64)
    BY <1>4, <1>8
  <2> QED
    BY <1>3, <1>6, <1>8, <2>1
<1>9. CASE n = 3
  <2>1. /\ of[1] = a /\ of[2] = of[1] * 64 + (bytes[2] % 64)
        /\ of[3] = of[2] * 64 + (bytes[3] % 64)
    BY <1>4, <1>9
  <2> QED
    BY <1>3, <1>6, <1>9, <2>1
<1>10. CASE n = 4
  <2>1. /\ of[1] = a /\ of[2] = of[1] * 64 + (bytes[2] % 64)
        /\ of[3] = of[2] * 64 + (bytes[3] % 64)
        /\ of[4] = of[3] * 64 + (bytes[4] % 64)
    BY <1>4, <1>10
  <2> QED
    BY <1>3, <1>6, <1>10, <2>1
<1> QED
  BY <1>5, <1>7, <1>8, <1>9, <1>10

(* The code points that have a spelling.                                   *)
CodePoints == {cp \in Nat : cp <= 1114111 /\ ~IsSurrogate(cp)}

(* What makes n bytes a code point.                                        *)
Spells(bytes, n, cp) ==
  /\ cp = Spelled8(bytes, n)
  /\ \A k \in 2 .. n : bytes[k] \in 128 .. 191
  /\ LeastOf(n) <= cp /\ cp \in CodePoints

LEMMA LeastOfIs ==
  LeastOf(1) = 0 /\ LeastOf(2) = 128 /\ LeastOf(3) = 2048 /\ LeastOf(4) = 65536
BY SMT DEF LeastOf

LEMMA DecodeFromOne ==
  ASSUME NEW bytes, NEW i \in Nat
  PROVE  DecodeFrom(bytes, i, 1) = [cp |-> bytes[1], next |-> i + 1]
<1>1. 2 .. 1 = {} /\ ~(1 > 1)
  OBVIOUS
<1> QED
  BY SMT, <1>1 DEF DecodeFrom

LEMMA DecodeFromMore ==
  ASSUME NEW bytes, NEW i \in Nat, NEW n \in 2 .. 4, NEW cp \in Nat,
         cp = Spelled8(bytes, n)
  PROVE  /\ Spells(bytes, n, cp) => DecodeFrom(bytes, i, n) = [cp |-> cp, next |-> i + n]
         /\ ~Spells(bytes, n, cp) => DecodeFrom(bytes, i, n) = [cp |-> bytes[1], next |-> i + 1]
<1>1. LeastOf(n) \in Nat
  BY LeastOfIs
<1>2. n > 1 /\ n # 1
  OBVIOUS
<1> DEFINE bad == \/ \E k \in 2 .. n : bytes[k] \notin 128 .. 191
                  \/ n > 1 /\ (cp < LeastOf(n) \/ IsSurrogate(cp) \/ cp > 1114111)
<1>3. bad <=> ~Spells(bytes, n, cp)
  BY SMT, <1>1, <1>2 DEF Spells, CodePoints
<1>4. DecodeFrom(bytes, i, n) = IF bad THEN [cp |-> bytes[1], next |-> i + 1]
                                ELSE [cp |-> cp, next |-> i + n]
  BY SMT, <1>2 DEF DecodeFrom
<1> HIDE DEF bad
<1> QED
  BY <1>3, <1>4

(* Every code point but the surrogates is read back from its bytes, and    *)
(* the first tells how many they are (encoding.c:45-112).                  *)
THEOREM Utf8ReadBack ==
  ASSUME NEW cp \in CodePoints, NEW i \in Nat
  PROVE  LET bytes == Utf8Encode(cp)
         IN  /\ LeadLength(bytes[1]) = Len(bytes)
             /\ \A k \in 1 .. Len(bytes) : bytes[k] \in 0 .. 255
             /\ DecodeFrom(bytes, i, Len(bytes)) = [cp |-> cp, next |-> i + Len(bytes)]
<1>1. cp \in Nat /\ cp < 1114112
  BY SMT DEF CodePoints
<1>2. CASE cp < 128
  <2>1. PICK bytes : bytes = Utf8Encode(cp)
    OBVIOUS
  <2>2. bytes = <<cp>>
    BY SMT, <1>1, <1>2, <2>1 DEF Utf8Encode
  <2>3. Len(bytes) = 1 /\ bytes[1] = cp
    BY SMT, <2>2
  <2>4. LeadLength(cp) = 1
    BY SMT, <1>1, <1>2, LeadLengthIs
  <2>5. DecodeFrom(bytes, i, 1) = [cp |-> cp, next |-> i + 1]
    BY SMT, <2>3, DecodeFromOne
  <2> QED
    BY <1>1, <1>2, <2>1, <2>3, <2>4, <2>5
<1>3. CASE 128 <= cp /\ cp < 2048
  <2>1. PICK bytes : bytes = Utf8Encode(cp)
    OBVIOUS
  <2>2. bytes = <<192 + (cp \div 64), 128 + (cp % 64)>>
    BY SMT, <1>1, <1>3, <2>1 DEF Utf8Encode
  <2>3. /\ Len(bytes) = 2
        /\ bytes[1] = 192 + (cp \div 64) /\ bytes[2] = 128 + (cp % 64)
    BY SMT, <2>2
  <2>4. PICK q \in Nat, r \in Nat : q = cp \div 64 /\ r = cp % 64
    BY SMT, <1>1
  <2>5. cp = q * 64 + r /\ r < 64 /\ q \in 2 .. 31
    BY SMT, <1>1, <1>3, <2>4
  <2>6. bytes[1] = 192 + q /\ bytes[2] = 128 + r
    BY SMT, <2>3, <2>4
  <2>7. bytes[1] \in 194 .. 223 /\ bytes[2] \in 128 .. 191
    BY SMT, <2>5, <2>6
  <2>8. LeadLength(bytes[1]) = 2
    BY SMT, <2>7, LeadLengthIs
  <2>9. Spelled8(bytes, 2) = cp
    <3>1. \A k \in 1 .. 2 : bytes[k] \in Nat
      BY SMT, <2>7
    <3>2. Spelled8(bytes, 2) = (bytes[1] % 32) * 64 + (bytes[2] % 64)
      BY SMT, <3>1, Spelled8Is
    <3>3. bytes[1] % 32 = q /\ bytes[2] % 64 = r
      BY SMT, <2>5, <2>6
    <3> QED
      BY SMT, <2>5, <3>2, <3>3
  <2>10. Spells(bytes, 2, cp)
    BY SMT, <1>1, <1>3, <2>7, <2>9, LeastOfIs DEF Spells
  <2>11. DecodeFrom(bytes, i, 2) = [cp |-> cp, next |-> i + 2]
    BY SMT, <1>1, <2>9, <2>10, DecodeFromMore
  <2> QED
    BY SMT, <2>1, <2>3, <2>7, <2>8, <2>11
<1>4. CASE 2048 <= cp /\ cp < 65536
  <2>1. PICK bytes : bytes = Utf8Encode(cp)
    OBVIOUS
  <2>2. bytes = <<224 + (cp \div 4096), 128 + ((cp \div 64) % 64), 128 + (cp % 64)>>
    BY SMT, <1>1, <1>4, <2>1 DEF Utf8Encode
  <2>3. PICK p \in Nat, q \in Nat, r \in Nat :
          p = cp \div 4096 /\ q = (cp \div 64) % 64 /\ r = cp % 64
    BY SMT, <1>1
  <2>4. cp = p * 4096 + q * 64 + r /\ q < 64 /\ r < 64 /\ p \in 0 .. 15
    BY SMT, <1>1, <1>4, <2>3
  <2>5. /\ Len(bytes) = 3
        /\ bytes[1] = 224 + p /\ bytes[2] = 128 + q /\ bytes[3] = 128 + r
    BY SMT, <2>2, <2>3
  <2>7. bytes[1] \in 224 .. 239 /\ bytes[2] \in 128 .. 191 /\ bytes[3] \in 128 .. 191
    BY SMT, <2>4, <2>5
  <2>8. LeadLength(bytes[1]) = 3
    BY SMT, <2>7, LeadLengthIs
  <2>9. Spelled8(bytes, 3) = cp
    <3>1. \A k \in 1 .. 3 : bytes[k] \in Nat
      BY SMT, <2>7
    <3>2. Spelled8(bytes, 3)
            = (bytes[1] % 16) * 4096 + (bytes[2] % 64) * 64 + (bytes[3] % 64)
      BY SMT, <3>1, Spelled8Is
    <3>3. bytes[1] % 16 = p /\ bytes[2] % 64 = q /\ bytes[3] % 64 = r
      BY SMT, <2>4, <2>5
    <3> QED
      BY SMT, <2>4, <3>2, <3>3
  <2>10. Spells(bytes, 3, cp)
    BY SMT, <1>1, <1>4, <2>7, <2>9, LeastOfIs DEF Spells
  <2>11. DecodeFrom(bytes, i, 3) = [cp |-> cp, next |-> i + 3]
    BY SMT, <1>1, <2>9, <2>10, DecodeFromMore
  <2> QED
    BY SMT, <2>1, <2>5, <2>7, <2>8, <2>11
<1>5. CASE cp >= 65536
  <2>1. PICK bytes : bytes = Utf8Encode(cp)
    OBVIOUS
  <2>2. bytes = <<240 + ((cp \div 262144) % 16), 128 + ((cp \div 4096) % 64),
                  128 + ((cp \div 64) % 64), 128 + (cp % 64)>>
    BY SMT, <1>1, <1>5, <2>1 DEF Utf8Encode
  <2>3. PICK o \in Nat, p \in Nat, q \in Nat, r \in Nat :
          /\ o = (cp \div 262144) % 16 /\ p = (cp \div 4096) % 64
          /\ q = (cp \div 64) % 64 /\ r = cp % 64
    BY SMT, <1>1
  <2>4. /\ cp = o * 262144 + p * 4096 + q * 64 + r
        /\ p < 64 /\ q < 64 /\ r < 64 /\ o \in 0 .. 4
    BY SMT, <1>1, <1>5, <2>3
  <2>5. /\ Len(bytes) = 4
        /\ bytes[1] = 240 + o /\ bytes[2] = 128 + p
        /\ bytes[3] = 128 + q /\ bytes[4] = 128 + r
    BY SMT, <2>2, <2>3
  <2>7. /\ bytes[1] \in 240 .. 244 /\ bytes[2] \in 128 .. 191
        /\ bytes[3] \in 128 .. 191 /\ bytes[4] \in 128 .. 191
    BY SMT, <2>4, <2>5
  <2>8. LeadLength(bytes[1]) = 4
    BY SMT, <2>7, LeadLengthIs
  <2>9. Spelled8(bytes, 4) = cp
    <3>1. \A k \in 1 .. 4 : bytes[k] \in Nat
      BY SMT, <2>7
    <3>2. Spelled8(bytes, 4)
            = (bytes[1] % 8) * 262144 + (bytes[2] % 64) * 4096
                + (bytes[3] % 64) * 64 + (bytes[4] % 64)
      BY SMT, <3>1, Spelled8Is
    <3>3. /\ bytes[1] % 8 = o /\ bytes[2] % 64 = p
          /\ bytes[3] % 64 = q /\ bytes[4] % 64 = r
      BY SMT, <2>4, <2>5
    <3> QED
      BY SMT, <2>4, <3>2, <3>3
  <2>10. Spells(bytes, 4, cp)
    BY SMT, <1>1, <1>5, <2>7, <2>9, LeastOfIs DEF Spells
  <2>11. DecodeFrom(bytes, i, 4) = [cp |-> cp, next |-> i + 4]
    BY SMT, <1>1, <2>9, <2>10, DecodeFromMore
  <2> QED
    BY SMT, <2>1, <2>5, <2>7, <2>8, <2>11
<1> QED
  BY SMT, <1>1, <1>2, <1>3, <1>4, <1>5

(* Bytes that are read as one code point are its only spelling: nothing    *)
(* over-long, no surrogate and nothing beyond the last code point is       *)
(* accepted (encoding.c:34-88).                                            *)
THEOREM Utf8OneSpelling ==
  ASSUME NEW bytes, NEW n \in 1 .. 4, \A k \in 1 .. n : bytes[k] \in 0 .. 255,
         LeadLength(bytes[1]) = n, NEW i \in Nat, DecodeFrom(bytes, i, n).next = i + n
  PROVE  LET cp == DecodeFrom(bytes, i, n).cp
         IN  /\ cp \in CodePoints
             /\ Len(Utf8Encode(cp)) = n /\ \A k \in 1 .. n : Utf8Encode(cp)[k] = bytes[k]
<1>1. \A k \in 1 .. n : bytes[k] \in Nat /\ bytes[k] < 256
  OBVIOUS
<1>2. bytes[1] \in Nat /\ (n = 1 \/ n = 2 \/ n = 3 \/ n = 4)
  BY <1>1
<1>3. CASE n = 1
  <2>1. bytes[1] < 128
    BY <1>2, <1>3, LeadIs
  <2>2. PICK cp : cp = bytes[1]
    OBVIOUS
  <2>3. DecodeFrom(bytes, i, n).cp = cp
    BY <1>3, <2>2, DecodeFromOne
  <2>4. cp \in Nat /\ cp < 128
    BY <1>2, <2>1, <2>2
  <2>5. cp \in CodePoints
    BY SMT, <2>4 DEF CodePoints, IsSurrogate
  <2>6. Utf8Encode(cp) = <<cp>>
    BY SMT, <2>4 DEF Utf8Encode
  <2>7. Len(Utf8Encode(cp)) = 1 /\ Utf8Encode(cp)[1] = cp
    BY <2>6
  <2> QED
    BY <1>3, <2>2, <2>3, <2>5, <2>7
<1>4. ASSUME n # 1, NEW cp \in Nat, cp = Spelled8(bytes, n)
      PROVE  Spells(bytes, n, cp) /\ DecodeFrom(bytes, i, n).cp = cp
  <2>1. n \in 2 .. 4
    BY <1>2, <1>4
  <2>2. i + n # i + 1
    BY <2>1
  <2>3. Spells(bytes, n, cp)
    BY <1>4, <2>1, <2>2, DecodeFromMore
  <2> QED
    BY <1>4, <2>1, <2>3, DecodeFromMore
<1>5. CASE n = 2
  <2>1. bytes[1] \in 194 .. 223
    BY <1>2, <1>5, LeadIs
  <2>2. PICK q \in Nat, r \in Nat : q = bytes[1] % 32 /\ r = bytes[2] % 64
    BY <1>1, <1>5
  <2>3. PICK cp \in Nat : cp = q * 64 + r
    OBVIOUS
  <2>4. Spelled8(bytes, 2) = cp
    <3>1. Spelled8(bytes, 2) = (bytes[1] % 32) * 64 + (bytes[2] % 64)
      BY <1>1, <1>5, Spelled8Is
    <3> QED
      BY <2>2, <2>3, <3>1
  <2>5. Spells(bytes, 2, cp) /\ DecodeFrom(bytes, i, n).cp = cp
    BY <1>4, <1>5, <2>4
  <2>6. bytes[2] \in 128 .. 191 /\ 128 <= cp /\ cp \in CodePoints
    BY <2>5, LeastOfIs DEF Spells
  <2>7. bytes[1] = 192 + q /\ bytes[2] = 128 + r /\ q < 32 /\ r < 64
    BY <2>1, <2>2, <2>6
  <2>8. Utf8Encode(cp) = <<192 + (cp \div 64), 128 + (cp % 64)>>
    BY SMT, <2>3, <2>6, <2>7 DEF Utf8Encode
  <2>9. cp \div 64 = q /\ cp % 64 = r
    BY SMT, <2>3, <2>7
  <2>10. /\ Len(Utf8Encode(cp)) = 2
         /\ Utf8Encode(cp)[1] = 192 + q /\ Utf8Encode(cp)[2] = 128 + r
    BY <2>8, <2>9
  <2>11. \A k \in 1 .. n : k = 1 \/ k = 2
    BY <1>5
  <2> QED
    BY <1>5, <2>5, <2>6, <2>7, <2>10, <2>11
<1>6. CASE n = 3
  <2>1. bytes[1] \in 224 .. 239
    BY <1>2, <1>6, LeadIs
  <2>2. PICK p \in Nat, q \in Nat, r \in Nat :
          p = bytes[1] % 16 /\ q = bytes[2] % 64 /\ r = bytes[3] % 64
    BY <1>1, <1>6
  <2>3. PICK cp \in Nat : cp = p * 4096 + q * 64 + r
    OBVIOUS
  <2>4. Spelled8(bytes, 3) = cp
    <3>1. Spelled8(bytes, 3)
            = (bytes[1] % 16) * 4096 + (bytes[2] % 64) * 64 + (bytes[3] % 64)
      BY <1>1, <1>6, Spelled8Is
    <3> QED
      BY <2>2, <2>3, <3>1
  <2>5. Spells(bytes, 3, cp) /\ DecodeFrom(bytes, i, n).cp = cp
    BY <1>4, <1>6, <2>4
  <2>6. /\ bytes[2] \in 128 .. 191 /\ bytes[3] \in 128 .. 191
        /\ 2048 <= cp /\ cp \in CodePoints
    BY <2>5, LeastOfIs DEF Spells
  <2>7. /\ bytes[1] = 224 + p /\ bytes[2] = 128 + q /\ bytes[3] = 128 + r
        /\ p < 16 /\ q < 64 /\ r < 64
    BY <2>1, <2>2, <2>6
  <2>8. Utf8Encode(cp) = <<224 + (cp \div 4096), 128 + ((cp \div 64) % 64), 128 + (cp % 64)>>
    BY SMT, <2>3, <2>6, <2>7 DEF Utf8Encode
  <2>9. cp \div 4096 = p /\ (cp \div 64) % 64 = q /\ cp % 64 = r
    <3>1. cp \div 4096 = p
      BY SMT, <2>3, <2>7
    <3>2. PICK x \in Nat : x = p * 64 + q
      OBVIOUS
    <3>3. cp \div 64 = x /\ cp % 64 = r
      BY SMT, <2>3, <2>7, <3>2
    <3>4. x % 64 = q
      BY SMT, <2>7, <3>2
    <3> QED
      BY <3>1, <3>3, <3>4
  <2>10. /\ Len(Utf8Encode(cp)) = 3
         /\ Utf8Encode(cp)[1] = 224 + p /\ Utf8Encode(cp)[2] = 128 + q
         /\ Utf8Encode(cp)[3] = 128 + r
    BY <2>8, <2>9
  <2>11. \A k \in 1 .. n : k = 1 \/ k = 2 \/ k = 3
    BY <1>6
  <2> QED
    BY <1>6, <2>5, <2>6, <2>7, <2>10, <2>11
<1>7. CASE n = 4
  <2>1. bytes[1] \in 240 .. 244
    BY <1>2, <1>7, LeadIs
  <2>2. PICK o \in Nat, p \in Nat, q \in Nat, r \in Nat :
          /\ o = bytes[1] % 8 /\ p = bytes[2] % 64
          /\ q = bytes[3] % 64 /\ r = bytes[4] % 64
    <3>1. bytes[1] \in Nat /\ bytes[2] \in Nat /\ bytes[3] \in Nat /\ bytes[4] \in Nat
      BY <1>1, <1>7
    <3>2. bytes[1] % 8 \in Nat /\ bytes[2] % 64 \in Nat
      BY <3>1
    <3>3. bytes[3] % 64 \in Nat /\ bytes[4] % 64 \in Nat
      BY <3>1
    <3> QED
      BY <3>2, <3>3
  <2>3. PICK cp \in Nat : cp = o * 262144 + p * 4096 + q * 64 + r
    BY SMT
  <2>4. Spelled8(bytes, 4) = cp
    <3>1. Spelled8(bytes, 4)
            = (bytes[1] % 8) * 262144 + (bytes[2] % 64) * 4096
                + (bytes[3] % 64) * 64 + (bytes[4] % 64)
      BY SMT, <1>1, <1>7, Spelled8Is
    <3> QED
      BY SMT, <2>2, <2>3, <3>1
  <2>5. Spells(bytes, 4, cp) /\ DecodeFrom(bytes, i, n).cp = cp
    BY <1>4, <1>7, <2>4
  <2>6. /\ bytes[2] \in 128 .. 191 /\ bytes[3] \in 128 .. 191
        /\ bytes[4] \in 128 .. 191 /\ 65536 <= cp /\ cp \in CodePoints
    BY SMT, <2>5, LeastOfIs DEF Spells
  <2>7. /\ bytes[1] = 240 + o /\ bytes[2] = 128 + p
        /\ bytes[3] = 128 + q /\ bytes[4] = 128 + r
        /\ o < 8 /\ p < 64 /\ q < 64 /\ r < 64
    <3>1. bytes[1] = 240 + o /\ o < 8
      BY <2>1, <2>2
    <3>2. bytes[2] \in 128 .. 191 /\ bytes[3] \in 128 .. 191 /\ bytes[4] \in 128 .. 191
      BY SMT, <2>6
    <3>3. bytes[2] = 128 + p /\ p < 64
      BY <2>2, <3>2
    <3>4. bytes[3] = 128 + q /\ q < 64
      BY <2>2, <3>2
    <3>5. bytes[4] = 128 + r /\ r < 64
      BY <2>2, <3>2
    <3> QED
      BY <3>1, <3>3, <3>4, <3>5
  <2>8. Utf8Encode(cp) = <<240 + ((cp \div 262144) % 16), 128 + ((cp \div 4096) % 64),
                           128 + ((cp \div 64) % 64), 128 + (cp % 64)>>
    BY SMT, <2>3, <2>6, <2>7 DEF Utf8Encode
  <2>9. /\ (cp \div 262144) % 16 = o /\ (cp \div 4096) % 64 = p
        /\ (cp \div 64) % 64 = q /\ cp % 64 = r
    <3>1. PICK x \in Nat, y \in Nat : x = o * 64 + p /\ y = x * 64 + q
      OBVIOUS
    <3>2. cp \div 64 = y /\ cp % 64 = r
      BY SMT, <2>3, <2>7, <3>1
    <3>3. y % 64 = q /\ x % 64 = p
      BY SMT, <2>7, <3>1
    <3>4. cp \div 4096 = x
      BY SMT, <2>3, <2>7, <3>1
    <3>5. cp \div 262144 = o /\ o % 16 = o
      BY SMT, <2>3, <2>7
    <3> QED
      BY SMT, <3>2, <3>3, <3>4, <3>5
  <2>10. /\ Len(Utf8Encode(cp)) = 4
         /\ Utf8Encode(cp)[1] = 240 + o /\ Utf8Encode(cp)[2] = 128 + p
         /\ Utf8Encode(cp)[3] = 128 + q /\ Utf8Encode(cp)[4] = 128 + r
    BY SMT, <2>8, <2>9
  <2>11. \A k \in 1 .. n : k = 1 \/ k = 2 \/ k = 3 \/ k = 4
    BY <1>7
  <2> QED
    BY SMT, <1>7, <2>5, <2>6, <2>7, <2>10, <2>11
<1> QED
  BY <1>2, <1>3, <1>5, <1>6, <1>7

-----------------------------------------------------------------------------
(* What phase 4 hands on                                                   *)

(* The members of a set, counted up to one of them.                        *)
Rank(S, i) == Cardinality({j \in S : j <= i})

LEMMA RankIs ==
  ASSUME NEW n \in Nat, NEW S \in SUBSET (1 .. n)
  PROVE  /\ IsFiniteSet(S) /\ Cardinality(S) \in Nat
         /\ \A i \in Nat : Rank(S, i) \in Nat /\ Rank(S, i) <= Cardinality(S)
         /\ Rank(S, 0) = 0 /\ Rank(S, n) = Cardinality(S)
         /\ \A i \in Nat : Rank(S, i + 1) = Rank(S, i) + (IF i + 1 \in S THEN 1 ELSE 0)
<1>0. \A j : j \in S => j \in Nat /\ 1 <= j /\ j <= n
  OBVIOUS
<1>1. IsFiniteSet(S) /\ Cardinality(S) \in Nat
  <2>1. IsFiniteSet(1 .. n)
    BY FS_Interval
  <2> QED
    BY <2>1, FS_Subset, FS_CardinalityType
<1>2. ASSUME NEW i \in Nat
      PROVE  /\ Rank(S, i) \in Nat /\ Rank(S, i) <= Cardinality(S)
             /\ IsFiniteSet({j \in S : j <= i})
  <2>1. PICK T : T = {j \in S : j <= i} /\ T \subseteq S
    <3>1. {j \in S : j <= i} \subseteq S
      BY Zenon
    <3> QED
      BY <3>1, Zenon
  <2>2. IsFiniteSet(T) /\ Cardinality(T) <= Cardinality(S)
    BY <1>1, <2>1, FS_Subset
  <2>3. Cardinality(T) \in Nat
    BY <2>2, FS_CardinalityType
  <2> QED
    BY <2>1, <2>2, <2>3 DEF Rank
<1>3. Rank(S, 0) = 0
  <2>1. \A j : j \in S => ~(j <= 0)
    BY <1>0
  <2>2. {j \in S : j <= 0} = {}
    BY <2>1, Zenon
  <2> QED
    BY <2>2, FS_EmptySet DEF Rank
<1>4. Rank(S, n) = Cardinality(S)
  <2>1. {j \in S : j <= n} = S
    BY <1>0, Zenon
  <2> QED
    BY <2>1 DEF Rank
<1>5. ASSUME NEW i \in Nat
      PROVE  Rank(S, i + 1) = Rank(S, i) + (IF i + 1 \in S THEN 1 ELSE 0)
  <2>1. PICK T : T = {j \in S : j <= i}
    OBVIOUS
  <2>2. IsFiniteSet(T) /\ Cardinality(T) = Rank(S, i) /\ i + 1 \notin T
    BY <1>2, <2>1 DEF Rank
  <2>0. \A j : j \in S => (j <= i + 1 <=> j <= i \/ j = i + 1)
    BY <1>0
  <2>3. CASE i + 1 \in S
    <3>1. {j \in S : j <= i + 1} = T \cup {i + 1}
      BY <2>0, <2>1, <2>3, Zenon
    <3>2. Cardinality(T \cup {i + 1}) = Cardinality(T) + 1
      BY <2>2, FS_AddElement
    <3> QED
      BY <2>2, <2>3, <3>1, <3>2 DEF Rank
  <2>4. CASE i + 1 \notin S
    <3>1. {j \in S : j <= i + 1} = T
      BY <2>0, <2>1, <2>4, Zenon
    <3>2. Rank(S, i + 1) = Rank(S, i)
      BY <2>1, <3>1, Zenon DEF Rank
    <3>3. Rank(S, i) \in Nat
      BY <1>2
    <3> QED
      BY <2>4, <3>2, <3>3
  <2> QED
    BY <2>3, <2>4
<1> QED
  BY <1>1, <1>2, <1>3, <1>4, <1>5

(* Every rank up to the size of the set is one member's.                   *)
LEMMA RankExists ==
  ASSUME NEW n \in Nat, NEW S \in SUBSET (1 .. n), NEW k \in 1 .. Cardinality(S)
  PROVE  \E i \in S : Rank(S, i) = k
<1>1. /\ Cardinality(S) \in Nat
      /\ \A i \in Nat : Rank(S, i) \in Nat
      /\ Rank(S, 0) = 0 /\ Rank(S, n) = Cardinality(S)
      /\ \A i \in Nat : Rank(S, i + 1) = Rank(S, i) + (IF i + 1 \in S THEN 1 ELSE 0)
  BY RankIs
<1> DEFINE U == {i \in Nat : Rank(S, i) >= k}
<1>2. n \in U /\ U \subseteq Nat /\ k \in Nat /\ k >= 1
  BY <1>1
<1>3. PICK i \in U : \A j \in U : <<j, i>> \notin LessThan
  BY <1>2, LessThanWellFounded, WFMin
<1>4. i \in Nat /\ Rank(S, i) >= k
  OBVIOUS
<1>5. i # 0
  BY <1>1, <1>2, <1>4
<1>6. PICK h \in Nat : i = h + 1
  <2>1. i - 1 \in Nat /\ i = (i - 1) + 1
    BY <1>4, <1>5
  <2> QED
    BY <2>1
<1>7. ~(Rank(S, h) >= k)
  <2>1. <<h, i>> \in LessThan
    BY <1>4, <1>6 DEF LessThan
  <2> QED
    BY <1>3, <2>1
<1> HIDE DEF U
<1>8. Rank(S, i) = Rank(S, h) + (IF i \in S THEN 1 ELSE 0)
  BY <1>1, <1>6
<1>9. i \in S /\ Rank(S, i) = k
  <2>1. Rank(S, h) \in Nat /\ Rank(S, i) \in Nat
    BY <1>1, <1>4
  <2> QED
    BY <1>2, <1>4, <1>7, <1>8, <2>1
<1> QED
  BY <1>9

(* The tokens end with the first end of input.                             *)
LEMMA FinishedIs ==
  ASSUME IsSequence(tokens), Finished
  PROVE  /\ Len(tokens) \in Nat \ {0} /\ DOMAIN tokens = 1 .. Len(tokens)
         /\ Stream = tokens
         /\ \A i \in DOMAIN tokens : tokens[i].kind = "eof" <=> i = Len(tokens)
<1>1. PICK n \in Nat : n = Len(tokens)
  BY DEF IsSequence
<1>2. PICK S : S = {tokens[i] : i \in DOMAIN tokens}
  OBVIOUS
<1>3. tokens \in Seq(S)
  BY <1>2 DEF IsSequence
<1>4. DOMAIN tokens = 1 .. n
  BY <1>1, <1>3
<1>5. EndsSoFar \subseteq 1 .. n /\ EndsSoFar # {} /\ n = Len(Stream)
  BY <1>1, <1>4 DEF EndsSoFar, Finished
<1>6. PICK f \in EndsSoFar : \A j \in EndsSoFar : <<j, f>> \notin LessThan
  <2>1. EndsSoFar \subseteq Nat
    BY <1>5
  <2> QED
    BY <1>5, <2>1, LessThanWellFounded, WFMin
<1>7. \A j \in EndsSoFar : f <= j
  <2> SUFFICES ASSUME NEW j \in EndsSoFar PROVE f <= j
    OBVIOUS
  <2>1. f \in Nat /\ j \in Nat /\ <<j, f>> \notin LessThan
    BY <1>5, <1>6
  <2> QED
    BY ONLY <2>1 DEF LessThan
<1>8. PICK e : e = CHOOSE i \in EndsSoFar : \A j \in EndsSoFar : i <= j
  OBVIOUS
<1>9. e \in EndsSoFar /\ \A j \in EndsSoFar : e <= j
  BY <1>7, <1>8
<1>10. Stream = SubSeq(tokens, 1, e)
  BY <1>5, <1>8 DEF Stream
<1>11. e \in 1 .. n
  BY <1>5, <1>9
<1>12. Len(SubSeq(tokens, 1, e)) = e
  BY <1>1, <1>3, <1>11
<1>13. e = n
  BY <1>5, <1>10, <1>12
<1>14. SubSeq(tokens, 1, n) = tokens
  BY <1>1, <1>3
<1>15. \A i \in 1 .. n : tokens[i].kind = "eof" <=> i = n
  <2>1. \A i \in 1 .. n : tokens[i].kind = "eof" <=> i \in EndsSoFar
    BY <1>4 DEF EndsSoFar
  <2>2. \A i \in 1 .. n : i \in EndsSoFar => i = n
    BY <1>9, <1>13
  <2> QED
    BY <1>9, <1>13, <2>1, <2>2
<1>16. n # 0
  BY <1>11
<1> QED
  BY <1>1, <1>4, <1>10, <1>13, <1>14, <1>15, <1>16

(* The tokens of phase 4 end with the end of input, and with no other, and *)
(* no newline is among them.                                               *)
Ended(pp_tokens) ==
  /\ Len(pp_tokens) \in Nat \ {0} /\ DOMAIN pp_tokens = 1 .. Len(pp_tokens)
  /\ \A i \in DOMAIN pp_tokens :
       /\ pp_tokens[i].kind # "newline"
       /\ pp_tokens[i].kind = "eof" <=> i = Len(pp_tokens)

LEMMA PpTokensEnded ==
  ASSUME IsSequence(tokens), Finished
  PROVE  Ended(PpTokens)
<1>1. PICK n \in Nat \ {0} : n = Len(tokens)
  BY FinishedIs
<1>2. /\ DOMAIN tokens = 1 .. n /\ Stream = tokens
      /\ \A i \in 1 .. n : tokens[i].kind = "eof" <=> i = n
  BY <1>1, FinishedIs
<1>3. PICK S : S = Kept
  OBVIOUS
<1>4. \A i : i \in S <=> i \in 1 .. n /\ tokens[i].kind # "newline"
  BY <1>2, <1>3 DEF Kept
<1>5. S \in SUBSET (1 .. n) /\ n \in S
  BY <1>1, <1>2, <1>4
<1>6. PICK m : m = Cardinality(S)
  OBVIOUS
<1>7. /\ m \in Nat
      /\ \A i \in Nat : Rank(S, i) \in Nat /\ Rank(S, i) <= m
      /\ Rank(S, n) = m
      /\ \A i \in Nat : Rank(S, i + 1) = Rank(S, i) + (IF i + 1 \in S THEN 1 ELSE 0)
  <2>1. n \in Nat /\ S \in SUBSET (1 .. n)
    BY <1>1, <1>5
  <2>2. /\ Cardinality(S) \in Nat
        /\ \A i \in Nat : Rank(S, i) \in Nat /\ Rank(S, i) <= Cardinality(S)
        /\ Rank(S, n) = Cardinality(S)
        /\ \A i \in Nat : Rank(S, i + 1) = Rank(S, i) + (IF i + 1 \in S THEN 1 ELSE 0)
    BY ONLY <2>1, RankIs, Zenon
  <2> QED
    BY ONLY <1>6, <2>2, Zenon
<1>8. PICK h \in Nat : n = h + 1
  <2>1. n - 1 \in Nat /\ n = (n - 1) + 1
    BY <1>1
  <2> QED
    BY <2>1
<1>9. m = Rank(S, h) + 1 /\ m # 0
  BY <1>5, <1>7, <1>8
<1>10. ASSUME NEW i \in S, Rank(S, i) = m PROVE i = n
  <2> SUFFICES ASSUME i # n PROVE FALSE
    OBVIOUS
  <2>1. i \in Nat /\ i <= h
    BY <1>5, <1>8
  <2>2. PICK T : T = {j \in S : j <= i} /\ T \subseteq {j \in S : j <= h}
    <3>1. \A j : j \in S => j \in Nat
      BY <1>5
    <3>2. \A j : j \in S => (j <= i => j <= h)
      BY <2>1, <3>1
    <3>3. {j \in S : j <= i} \subseteq {j \in S : j <= h}
      BY <3>2, Zenon
    <3> QED
      BY <3>3, Zenon
  <2>3. PICK U : U = {j \in S : j <= h} /\ U \subseteq S
    OBVIOUS
  <2>4. IsFiniteSet(U)
    BY <1>5, <2>3, RankIs, FS_Subset
  <2>5. Cardinality(T) <= Cardinality(U)
    BY <2>2, <2>3, <2>4, FS_Subset
  <2>6. m <= Rank(S, h)
    BY <1>10, <2>2, <2>3, <2>5 DEF Rank
  <2> QED
    BY <1>7, <1>9, <2>6
<1>11. PICK nth : nth = [k \in 1 .. m |->
                           CHOOSE i \in S : Cardinality({j \in S : j <= i}) = k]
  OBVIOUS
<1>12. ASSUME NEW k \in 1 .. m PROVE nth[k] \in S /\ Rank(S, nth[k]) = k
  <2>1. \E i \in S : Rank(S, i) = k
    BY <1>5, <1>6, RankExists
  <2>2. nth[k] = CHOOSE i \in S : Cardinality({j \in S : j <= i}) = k
    BY <1>11
  <2> QED
    BY <2>1, <2>2 DEF Rank
<1>13. ASSUME NEW k \in 1 .. m PROVE NthKept(k) = tokens[nth[k]]
  BY <1>2, <1>3, <1>11 DEF NthKept
<1>14. PICK p : p = PpTokens
  OBVIOUS
<1>15. p = [k \in 1 .. m |-> PpToken(NthKept(k))]
  BY <1>3, <1>6, <1>14 DEF PpTokens
<1>16. ASSUME NEW k \in 1 .. m PROVE p[k].kind = tokens[nth[k]].kind
  <2>1. p[k] = PpToken(tokens[nth[k]])
    BY <1>13, <1>15
  <2> QED
    BY <2>1 DEF PpToken
<1>17. Len(p) = m /\ DOMAIN p = 1 .. m
  BY <1>7, <1>15
<1>18. ASSUME NEW k \in 1 .. m
       PROVE  p[k].kind # "newline" /\ (p[k].kind = "eof" <=> k = m)
  <2>1. nth[k] \in S /\ Rank(S, nth[k]) = k
    BY <1>12
  <2>2. nth[k] \in 1 .. n /\ tokens[nth[k]].kind # "newline"
    BY <1>4, <2>1
  <2>3. tokens[nth[k]].kind = "eof" <=> nth[k] = n
    BY <1>2, <2>2
  <2>4. nth[k] = n <=> k = m
    BY <1>7, <1>10, <2>1
  <2> QED
    BY <1>16, <2>2, <2>3, <2>4
<1> QED
  BY <1>7, <1>9, <1>14, <1>17, <1>18 DEF Ended

-----------------------------------------------------------------------------
(* The converter's loop.                                                   *)
Joined(pp_tokens, i) ==
  i > 1 /\ pp_tokens[i].kind = "string" /\ pp_tokens[i - 1].kind = "string"

(* No token is lost but the stray ones, and those that join a string.      *)
Taken(pp_tokens, out, i) ==
  \/ \E j \in DOMAIN out : out[j].at = i
  \/ Stray(pp_tokens[i]) \/ Joined(pp_tokens, i)

Ascending(out) ==
  \A j, k \in DOMAIN out : j < k => out[j].at < out[k].at

(* What has been put out before the end of input is reached, and then.     *)
Midway(out, at) ==
  \A j \in DOMAIN out : out[j].at < at /\ out[j].kind # "eof"

Complete(out, at) ==
  /\ Len(out) \in DOMAIN out
  /\ \A j \in DOMAIN out : /\ out[j].kind = "eof" <=> j = Len(out)
                           /\ IF j = Len(out) THEN out[j].at = at ELSE out[j].at < at

Progress(pp_tokens, status, at, out) ==
  /\ Ended(pp_tokens)
  /\ at \in DOMAIN pp_tokens
  /\ \A i \in DOMAIN pp_tokens : i < at => Taken(pp_tokens, out, i)
  /\ \A j \in DOMAIN out : out[j].at \in Nat
  /\ Ascending(out)
  /\ IF status = "ok" THEN at = Len(pp_tokens) /\ Complete(out, at) ELSE Midway(out, at)

Shaped ==
  \E status, at, out, reported, unreported :
    conversion = [status |-> status, at |-> at, out |-> out, reported |-> reported,
                  unreported |-> unreported]

ConvInv ==
  /\ Shaped /\ IsSequence(conversion.out)
  /\ conversion.status \in {"idle", "running", "oom", "ok"}
  /\ IF conversion.status = "idle" THEN conversion.at = 1 /\ conversion.out = <<>>
     ELSE Progress(input, conversion.status, conversion.at, conversion.out)

LEMMA PlaceIs ==
  ASSUME Ended(input), conversion.at \in DOMAIN input
  PROVE  /\ Len(input) \in Nat \ {0} /\ conversion.at \in Nat
         /\ 1 <= conversion.at /\ conversion.at <= Len(input)
<1>1. conversion.at \in 1 .. Len(input) /\ Len(input) \in Nat \ {0}
  BY DEF Ended
<1> QED
  BY <1>1

(* A run of strings ends before the end of input does.                     *)
LEMMA RunEndIs ==
  ASSUME Ended(input), conversion.at \in DOMAIN input, Next0.kind = "string"
  PROVE  /\ RunEnd \in Nat /\ conversion.at <= RunEnd /\ RunEnd < Len(input)
         /\ \A i \in conversion.at .. RunEnd : input[i].kind = "string"
<1>1. PICK n \in Nat \ {0}, a \in Nat :
        n = Len(input) /\ a = conversion.at /\ 1 <= a /\ a <= n
  BY PlaceIs
<1>2. DOMAIN input = 1 .. n /\ (\A i \in 1 .. n : input[i].kind = "eof" <=> i = n)
      /\ input[a].kind = "string"
  BY <1>1 DEF Ended, Next0
<1> DEFINE U == {i \in Nat : a <= i /\ i <= n /\ input[i].kind # "string"}
<1>3. n \in 1 .. n
  BY <1>1
<1>4. input[n].kind = "eof"
  BY <1>2, <1>3
<1>5. n \in U /\ U \subseteq Nat
  BY <1>1, <1>4
<1>6. PICK m \in U : \A j \in U : <<j, m>> \notin LessThan
  BY <1>5, LessThanWellFounded, WFMin
<1>7. m \in Nat /\ a <= m /\ m <= n /\ input[m].kind # "string"
  OBVIOUS
<1>8. m # a
  BY <1>2, <1>7
<1>9. \A i \in Nat : a <= i /\ i < m => input[i].kind = "string"
  <2> SUFFICES ASSUME NEW i \in Nat, a <= i, i < m, input[i].kind # "string" PROVE FALSE
    OBVIOUS
  <2>1. i \in U
    BY <1>1, <1>7
  <2>2. <<i, m>> \in LessThan
    BY <1>7 DEF LessThan
  <2> QED
    BY <1>6, <2>1, <2>2
<1> HIDE DEF U
<1>10. PICK j \in Nat : j + 1 = m
  <2>1. m - 1 \in Nat /\ (m - 1) + 1 = m
    BY <1>1, <1>7, <1>8
  <2> QED
    BY <2>1
<1>11. j \in a .. n /\ j < n
  BY <1>1, <1>7, <1>8, <1>10
<1>12. \A i \in a .. j : input[i].kind = "string"
  <2>1. \A i \in a .. j : i \in Nat /\ a <= i /\ i < m
    BY <1>1, <1>7, <1>10
  <2> QED
    BY <1>9, <2>1
<1>13. input[j].kind = "string"
  <2>1. j \in a .. j
    BY <1>1, <1>11
  <2> QED
    BY <1>12, <2>1
<1>14. \E k \in a .. n :
         /\ input[k].kind = "string"
         /\ k = n \/ input[k + 1].kind # "string"
         /\ \A i \in a .. k : input[i].kind = "string"
  BY <1>7, <1>10, <1>11, <1>12, <1>13
<1>15. RunEnd = CHOOSE k \in a .. n :
         /\ input[k].kind = "string"
         /\ k = n \/ input[k + 1].kind # "string"
         /\ \A i \in a .. k : input[i].kind = "string"
  BY <1>1 DEF RunEnd
<1>16. PICK e : e = RunEnd
  OBVIOUS
<1>17. /\ e \in a .. n /\ input[e].kind = "string"
       /\ \A i \in a .. e : input[i].kind = "string"
  BY <1>14, <1>15, <1>16
<1>18. e # n
  BY <1>4, <1>17
<1>19. e \in Nat /\ a <= e /\ e < n
  BY <1>1, <1>17, <1>18
<1> QED
  BY <1>1, <1>16, <1>17, <1>19

(* What a token is made into carries its place, and the loop goes on behind *)
(* it or behind the run of strings that it begins.                         *)
GoesOn(made, a) ==
  /\ made.token.at = a /\ made.token.kind # "eof"
  /\ made.next \in Nat /\ a < made.next /\ made.next <= Len(input)
  /\ \A i \in a + 1 .. made.next - 1 : Joined(input, i)

LEMMA FromValueIs ==
  ASSUME NEW kind, kind # "eof", NEW evaluated, NEW n \in Nat, n = Len(input),
         NEW a \in Nat, a = conversion.at, a < n
  PROVE  GoesOn(FromValue(kind, evaluated), a)
<1>1. PICK made : made = FromValue(kind, evaluated)
  OBVIOUS
<1>2. made.token.at = a /\ made.token.kind = kind /\ made.next = a + 1
  BY <1>1 DEF FromValue, Made, Token
<1>3. made.next \in Nat /\ a < made.next /\ made.next <= n
  BY <1>2
<1>4. \A i \in a + 1 .. made.next - 1 : FALSE
  BY <1>2
<1> QED
  BY <1>1, <1>2, <1>3, <1>4 DEF GoesOn

LEMMA FromTokenIs ==
  ASSUME Ended(input), conversion.at \in DOMAIN input, Next0.kind # "eof"
  PROVE  GoesOn(FromToken(Next0), conversion.at)
<1>1. PICK n \in Nat \ {0}, a \in Nat :
        n = Len(input) /\ a = conversion.at /\ 1 <= a /\ a <= n
  BY PlaceIs
<1>2. a < n
  <2>1. a # n
    BY <1>1 DEF Ended, Next0
  <2> QED
    BY <1>1, <2>1
<1>3. ASSUME NEW kind, kind # "eof", NEW evaluated
      PROVE  GoesOn(FromValue(kind, evaluated), a)
  BY <1>1, <1>2, <1>3, FromValueIs
<1>4. CASE Next0.kind = "string"
  <2>1. PICK e \in Nat : e = RunEnd /\ a <= e /\ e < n
    BY <1>1, <1>4, RunEndIs
  <2>2. \A i \in a .. e : input[i].kind = "string"
    BY <1>1, <1>4, <2>1, RunEndIs
  <2>3. PICK made : made = FromToken(Next0)
    OBVIOUS
  <2>4. made = FromRun(e)
    BY <1>4, <2>1, <2>3 DEF FromToken
  <2>5. PICK words : words = [i \in 1 .. e - conversion.at + 1 |->
                                 input[conversion.at + i - 1].word]
    OBVIOUS
  <2>6. made = [FromValue("string", EvalString(words)) EXCEPT !.next = e + 1]
    BY <2>4, <2>5 DEF FromRun
  <2>7. made.token.at = a /\ made.token.kind = "string" /\ made.next = e + 1
    BY <1>1, <2>6 DEF FromValue, Made, Token
  <2>8. made.next \in Nat /\ a < made.next /\ made.next <= n
    BY <2>1, <2>7
  <2>9. \A i \in a + 1 .. made.next - 1 : Joined(input, i)
    <3> SUFFICES ASSUME NEW i \in a + 1 .. made.next - 1 PROVE Joined(input, i)
      OBVIOUS
    <3>1. i \in a .. e /\ i - 1 \in a .. e /\ i > 1
      BY <1>1, <2>1, <2>7
    <3> QED
      BY <2>2, <3>1 DEF Joined
  <2> QED
    BY <1>1, <2>3, <2>7, <2>8, <2>9 DEF GoesOn
<1>5. CASE Next0.kind # "string"
  <2>1. PICK t : t = Next0
    OBVIOUS
  <2>2. \/ FromToken(t) = FromValue("char", EvalChar(t.word))
        \/ FromToken(t) = FromValue("integer", EvalInteger(t.word))
        \/ FromToken(t) = FromValue("floating", EvalFloating(t.word))
        \/ FromToken(t) = FromValue("punct", Evaluated(t.punct, "", <<>>))
        \/ FromToken(t) = FromName(t.word, KeywordLookup(t.word))
    BY <1>5, <2>1, Zenon DEF FromToken, FromNumber
  <2>3. \/ FromName(t.word, KeywordLookup(t.word))
             = FromValue("identifier", Evaluated(t.word, "", <<>>))
        \/ FromName(t.word, KeywordLookup(t.word))
             = FromValue("keyword", Evaluated(KeywordLookup(t.word), "", <<>>))
    BY Zenon DEF FromName
  <2>4. \E kind, evaluated : kind # "eof" /\ FromToken(t) = FromValue(kind, evaluated)
    <3>1. /\ "char" # "eof" /\ "integer" # "eof" /\ "floating" # "eof"
          /\ "punct" # "eof" /\ "identifier" # "eof" /\ "keyword" # "eof"
      OBVIOUS
    <3> QED
      BY <2>2, <2>3, <3>1, Zenon
  <2> QED
    BY <1>1, <1>3, <2>1, <2>4, Zenon
<1> QED
  BY <1>4, <1>5

LEMMA ConvInitHolds == ConversionInit => ConvInv
<1> SUFFICES ASSUME ConversionInit PROVE ConvInv
  OBVIOUS
<1>1. /\ conversion.status = "idle" /\ conversion.at = 1 /\ conversion.out = <<>>
      /\ Shaped
  BY DEF ConversionInit, Shaped
<1>2. IsSequence(conversion.out)
  BY <1>1 DEF IsSequence
<1> QED
  BY <1>1, <1>2 DEF ConvInv

(* The loop begins.                                                        *)
LEMMA StartKeeps ==
  ASSUME ConvInv, NEW pp_tokens, Ended(pp_tokens), ConvertStart(pp_tokens)
  PROVE  ConvInv'
<1>1. PICK s, a, o, r, u :
        conversion = [status |-> s, at |-> a, out |-> o, reported |-> r, unreported |-> u]
  BY DEF ConvInv, Shaped
<1>2. s = "idle" /\ a = 1 /\ o = <<>>
  BY <1>1 DEF ConvInv, ConvertStart
<1>3. /\ conversion' = [status |-> "running", at |-> a, out |-> o, reported |-> r,
                        unreported |-> u]
      /\ input' = pp_tokens
  BY <1>1 DEF ConvertStart
<1>4. /\ Shaped' /\ conversion'.status = "running" /\ conversion'.at = 1
      /\ conversion'.out = <<>>
  BY <1>2, <1>3 DEF Shaped
<1>5. IsSequence(conversion.out)'
  BY <1>4 DEF IsSequence
<1>6. Progress(pp_tokens, "running", 1, <<>>)
  <2>1. 1 \in DOMAIN pp_tokens
    BY DEF Ended
  <2>2. \A i \in DOMAIN pp_tokens : ~(i < 1)
    BY DEF Ended
  <2> QED
    BY <2>1, <2>2 DEF Progress, Ascending, Midway
<1> QED
  BY <1>3, <1>4, <1>5, <1>6 DEF ConvInv

(* What a turn of the loop finds.                                          *)
LEMMA RunningIs ==
  ASSUME ConvInv, Running
  PROVE  /\ \E a, o, r, u :
              conversion = [status |-> "running", at |-> a, out |-> o, reported |-> r,
                            unreported |-> u]
         /\ IsSequence(conversion.out)
         /\ Progress(input, "running", conversion.at, conversion.out)
<1>1. PICK s, a, o, r, u :
        conversion = [status |-> s, at |-> a, out |-> o, reported |-> r, unreported |-> u]
  BY DEF ConvInv, Shaped
<1>2. s = "running"
  BY <1>1 DEF Running
<1>3. IsSequence(conversion.out) /\ Progress(input, "running", conversion.at, conversion.out)
  BY DEF ConvInv, Running
<1> QED
  BY <1>1, <1>2, <1>3

LEMMA ShapedNext ==
  ASSUME NEW s, NEW a, NEW o, NEW r, NEW u,
         conversion' = [status |-> s, at |-> a, out |-> o, reported |-> r, unreported |-> u]
  PROVE  /\ Shaped' /\ conversion'.status = s /\ conversion'.at = a
         /\ conversion'.out = o
<1>1. Shaped'
  BY Zenon DEF Shaped
<1> QED
  BY <1>1

(* Memory has run out.                                                     *)
LEMMA OomKeeps ==
  ASSUME ConvInv, Running, UNCHANGED input, NEW q,
         conversion' = [status |-> "oom", at |-> conversion.at, out |-> conversion.out,
                        reported |-> q, unreported |-> conversion.unreported]
  PROVE  ConvInv'
<1>1. PICK a, o, r, u :
        conversion = [status |-> "running", at |-> a, out |-> o, reported |-> r,
                      unreported |-> u]
  BY RunningIs
<1>2. conversion' = [status |-> "oom", at |-> a, out |-> o, reported |-> q, unreported |-> u]
  BY <1>1
<1>3. IsSequence(o) /\ Progress(input, "running", a, o)
  BY <1>1, RunningIs
<1>4. Progress(input, "oom", a, o)
  BY <1>3 DEF Progress
<1>5. Shaped' /\ conversion'.status = "oom" /\ conversion'.at = a /\ conversion'.out = o
  BY <1>2, ShapedNext
<1>6. IsSequence(conversion.out)'
  BY <1>3, <1>5 DEF IsSequence
<1> QED
  BY <1>4, <1>5, <1>6 DEF ConvInv

(* A token is put out, and the loop goes on.                               *)
LEMMA MadeKeeps ==
  ASSUME ConvInv, Running, UNCHANGED input,
         NEW made, GoesOn(made, conversion.at), ConvertMade(made)
  PROVE  ConvInv'
<1>1. PICK a, o, r, u :
        conversion = [status |-> "running", at |-> a, out |-> o, reported |-> r,
                      unreported |-> u]
  BY RunningIs
<1>2. PICK p : p = Append(o, made.token)
  OBVIOUS
<1>3. PICK q : q = r \o Reports(made.reported)
  OBVIOUS
<1>4. conversion' = [status |-> "running", at |-> made.next, out |-> p, reported |-> q,
                     unreported |-> u]
  BY <1>1, <1>2, <1>3 DEF ConvertMade
<1>5. IsSequence(o) /\ Progress(input, "running", a, o)
  BY <1>1, RunningIs
<1>6. PICK m \in Nat : m = Len(o)
  BY <1>5 DEF IsSequence
<1>7. /\ IsSequence(p) /\ Len(p) = m + 1 /\ p[m + 1] = made.token
      /\ DOMAIN o = 1 .. m /\ DOMAIN p = 1 .. m + 1
      /\ \A i \in 1 .. m : p[i] = o[i]
  BY <1>2, <1>5, <1>6, AppendIs
<1>8. PICK n \in Nat \ {0}, t \in Nat :
        /\ n = Len(input) /\ DOMAIN input = 1 .. n /\ t = made.next
        /\ a \in Nat /\ 1 <= a /\ a < t /\ t <= n
  BY <1>1, <1>5, PlaceIs DEF Progress, GoesOn, Ended
<1>9. made.token.at = a /\ made.token.kind # "eof"
      /\ \A i \in a + 1 .. t - 1 : Joined(input, i)
  BY <1>1, <1>8 DEF GoesOn
<1>10. \A j \in 1 .. m : o[j].at \in Nat /\ o[j].at < a /\ o[j].kind # "eof"
  BY <1>5, <1>7 DEF Progress, Midway
<1>11. \A j \in 1 .. m + 1 : p[j].at \in Nat /\ p[j].at < t /\ p[j].kind # "eof"
  <2> SUFFICES ASSUME NEW j \in 1 .. m + 1
               PROVE  p[j].at \in Nat /\ p[j].at < t /\ p[j].kind # "eof"
    OBVIOUS
  <2>1. CASE j = m + 1
    BY <1>7, <1>8, <1>9, <2>1
  <2>2. CASE j # m + 1
    <3>1. j \in 1 .. m
      BY <2>2
    <3>2. o[j].at \in Nat /\ o[j].at < a /\ o[j].kind # "eof" /\ p[j] = o[j]
      BY <1>7, <1>10, <3>1
    <3> QED
      BY <1>8, <3>2
  <2> QED
    BY <2>1, <2>2
<1>12. Ascending(p)
  <2> SUFFICES ASSUME NEW j \in 1 .. m + 1, NEW k \in 1 .. m + 1, j < k
               PROVE  p[j].at < p[k].at
    BY <1>7 DEF Ascending
  <2>1. j \in 1 .. m /\ p[j] = o[j]
    BY <1>7
  <2>2. CASE k = m + 1
    BY <1>7, <1>9, <1>10, <2>1, <2>2
  <2>3. CASE k # m + 1
    <3>1. k \in 1 .. m /\ p[k] = o[k]
      BY <1>7, <2>3
    <3> QED
      BY <1>5, <1>7, <2>1, <3>1 DEF Progress, Ascending
  <2> QED
    BY <2>2, <2>3
<1>13. \A i \in 1 .. n : i < t => Taken(input, p, i)
  <2> SUFFICES ASSUME NEW i \in 1 .. n, i < t PROVE Taken(input, p, i)
    OBVIOUS
  <2>1. CASE i < a
    <3>1. Taken(input, o, i)
      BY <1>5, <1>8, <2>1 DEF Progress
    <3>2. ASSUME NEW j \in 1 .. m, o[j].at = i PROVE \E k \in DOMAIN p : p[k].at = i
      <4>1. j \in 1 .. m + 1 /\ p[j] = o[j]
        BY <1>7
      <4> QED
        BY <1>7, <3>2, <4>1
    <3> QED
      BY <1>7, <3>1, <3>2 DEF Taken
  <2>2. CASE i = a
    <3>1. m + 1 \in DOMAIN p /\ p[m + 1].at = i
      BY <1>7, <1>9, <2>2
    <3> QED
      BY <3>1 DEF Taken
  <2>3. CASE i > a
    <3>1. i \in a + 1 .. t - 1
      BY <1>8, <2>3
    <3> QED
      BY <1>9, <3>1 DEF Taken
  <2> QED
    BY <1>8, <2>1, <2>2, <2>3
<1>14. Progress(input, "running", t, p)
  <2>1. t \in DOMAIN input
    BY <1>8
  <2> QED
    BY <1>5, <1>7, <1>8, <1>11, <1>12, <1>13, <2>1 DEF Progress, Midway
<1>15. Shaped' /\ conversion'.status = "running" /\ conversion'.at = t /\ conversion'.out = p
  BY <1>4, <1>8, ShapedNext
<1>16. IsSequence(conversion.out)'
  BY <1>7, <1>15 DEF IsSequence
<1> QED
  BY <1>14, <1>15, <1>16 DEF ConvInv

(* A stray token is passed.                                                *)
LEMMA StrayKeeps ==
  ASSUME ConvInv, NEW refused, ConvertStray(refused)
  PROVE  ConvInv'
<1>1. Running /\ input' = input /\ Stray(Next0)
  BY DEF ConvertStray
<1>2. PICK a, o, r, u :
        conversion = [status |-> "running", at |-> a, out |-> o, reported |-> r,
                      unreported |-> u]
  BY <1>1, RunningIs
<1>3. PICK q, v : conversion' = [status |-> "running", at |-> a + 1, out |-> o,
                                 reported |-> q, unreported |-> v]
  BY <1>2 DEF ConvertStray
<1>4. IsSequence(o) /\ Progress(input, "running", a, o)
  BY <1>1, <1>2, RunningIs
<1>5. PICK n \in Nat \ {0} :
        /\ n = Len(input) /\ DOMAIN input = 1 .. n
        /\ a \in Nat /\ 1 <= a /\ a <= n
        /\ \A i \in 1 .. n : input[i].kind = "eof" <=> i = n
  <2>1. Ended(input) /\ conversion.at = a /\ a \in DOMAIN input
    BY <1>2, <1>4 DEF Progress
  <2>2. /\ Len(input) \in Nat \ {0} /\ a \in Nat /\ 1 <= a /\ a <= Len(input)
    BY <2>1, PlaceIs
  <2>3. /\ DOMAIN input = 1 .. Len(input)
        /\ \A i \in DOMAIN input : input[i].kind = "eof" <=> i = Len(input)
    BY <2>1 DEF Ended
  <2>4. PICK k : k = Len(input)
    OBVIOUS
  <2>5. k \in Nat \ {0} /\ a \in Nat /\ 1 <= a /\ a <= k
    BY <2>2, <2>4
  <2>6. DOMAIN input = 1 .. k /\ \A i \in 1 .. k : input[i].kind = "eof" <=> i = k
    BY <2>3, <2>4
  <2> QED
    BY <2>4, <2>5, <2>6
<1>6. Stray(input[a])
  BY <1>1, <1>2 DEF Next0
<1>7. a # n
  <2>1. input[a].kind # "eof"
    BY <1>6 DEF Stray
  <2> QED
    BY <1>5, <2>1
<1>8. Progress(input, "running", a + 1, o)
  <2>1. a + 1 \in DOMAIN input
    BY <1>5, <1>7
  <2>2. \A i \in 1 .. n : i < a + 1 => Taken(input, o, i)
    <3> SUFFICES ASSUME NEW i \in 1 .. n, i < a + 1 PROVE Taken(input, o, i)
      OBVIOUS
    <3>1. CASE i = a
      BY <1>6, <3>1 DEF Taken
    <3>2. CASE i # a
      <4>1. i < a
        BY <1>5, <3>2
      <4> QED
        BY <1>4, <1>5, <4>1 DEF Progress
    <3> QED
      BY <3>1, <3>2
  <2>3. Midway(o, a + 1)
    <3> SUFFICES ASSUME NEW j \in DOMAIN o PROVE o[j].at < a + 1 /\ o[j].kind # "eof"
      BY DEF Midway
    <3>1. o[j].at \in Nat /\ o[j].at < a /\ o[j].kind # "eof"
      BY <1>4 DEF Progress, Midway
    <3> QED
      BY <1>5, <3>1
  <2> QED
    BY <1>4, <1>5, <2>1, <2>2, <2>3 DEF Progress
<1>9. /\ Shaped' /\ conversion'.status = "running" /\ conversion'.at = a + 1
      /\ conversion'.out = o
  BY <1>3, ShapedNext
<1>10. IsSequence(conversion.out)'
  BY <1>4, <1>9 DEF IsSequence
<1> QED
  BY <1>1, <1>8, <1>9, <1>10 DEF ConvInv

(* The end of input is put out, and is the last.                           *)
LEMMA EofKeeps ==
  ASSUME ConvInv, Running, UNCHANGED input, Next0.kind = "eof",
         conversion' = [conversion EXCEPT !.status = "ok",
                                          !.out = Append(@, Token("eof", <<>>, ""))]
  PROVE  ConvInv'
<1>1. PICK a, o, r, u :
        conversion = [status |-> "running", at |-> a, out |-> o, reported |-> r,
                      unreported |-> u]
  BY RunningIs
<1>2. PICK t : t = Token("eof", <<>>, "")
  OBVIOUS
<1>3. t.at = a /\ t.kind = "eof"
  BY <1>1, <1>2 DEF Token
<1>4. PICK p : p = Append(o, t)
  OBVIOUS
<1>5. conversion' = [status |-> "ok", at |-> a, out |-> p, reported |-> r, unreported |-> u]
  BY <1>1, <1>2, <1>4
<1>6. IsSequence(o) /\ Progress(input, "running", a, o)
  BY <1>1, RunningIs
<1>7. PICK m \in Nat : m = Len(o)
  BY <1>6 DEF IsSequence
<1>8. /\ IsSequence(p) /\ Len(p) = m + 1 /\ p[m + 1] = t
      /\ DOMAIN o = 1 .. m /\ DOMAIN p = 1 .. m + 1
      /\ \A i \in 1 .. m : p[i] = o[i]
  BY <1>4, <1>6, <1>7, AppendIs
<1>9. PICK n \in Nat \ {0} :
        /\ n = Len(input) /\ DOMAIN input = 1 .. n
        /\ a \in Nat /\ 1 <= a /\ a <= n
        /\ \A i \in 1 .. n : input[i].kind = "eof" <=> i = n
  <2>1. Ended(input) /\ conversion.at = a /\ a \in DOMAIN input
    BY <1>1, <1>6 DEF Progress
  <2>2. /\ Len(input) \in Nat \ {0} /\ a \in Nat /\ 1 <= a /\ a <= Len(input)
    BY <2>1, PlaceIs
  <2>3. /\ DOMAIN input = 1 .. Len(input)
        /\ \A i \in DOMAIN input : input[i].kind = "eof" <=> i = Len(input)
    BY <2>1 DEF Ended
  <2>4. PICK k : k = Len(input)
    OBVIOUS
  <2>5. k \in Nat \ {0} /\ a \in Nat /\ 1 <= a /\ a <= k
    BY <2>2, <2>4
  <2>6. DOMAIN input = 1 .. k /\ \A i \in 1 .. k : input[i].kind = "eof" <=> i = k
    BY <2>3, <2>4
  <2> QED
    BY <2>4, <2>5, <2>6
<1>10. a = n
  <2>1. a \in 1 .. n /\ input[a].kind = "eof"
    BY <1>1, <1>9 DEF Next0
  <2> QED
    BY <1>9, <2>1
<1>11. \A j \in 1 .. m : o[j].at \in Nat /\ o[j].at < a /\ o[j].kind # "eof"
  BY <1>6, <1>8 DEF Progress, Midway
<1>12. ASSUME NEW j \in 1 .. m + 1
       PROVE  /\ p[j].at \in Nat
              /\ p[j].kind = "eof" <=> j = m + 1
              /\ IF j = m + 1 THEN p[j].at = a ELSE p[j].at < a
  <2>1. CASE j = m + 1
    BY <1>3, <1>8, <1>9, <2>1
  <2>2. CASE j # m + 1
    <3>1. j \in 1 .. m
      BY <2>2
    <3> QED
      BY <1>8, <1>11, <2>2, <3>1
  <2> QED
    BY <2>1, <2>2
<1>13. Complete(p, a)
  <2>1. m + 1 \in 1 .. m + 1
    OBVIOUS
  <2> QED
    BY <1>8, <1>12, <2>1 DEF Complete
<1>14. Ascending(p)
  <2> SUFFICES ASSUME NEW j \in 1 .. m + 1, NEW k \in 1 .. m + 1, j < k
               PROVE  p[j].at < p[k].at
    BY <1>8 DEF Ascending
  <2>1. j \in 1 .. m /\ p[j] = o[j]
    BY <1>8
  <2>2. CASE k = m + 1
    BY <1>3, <1>8, <1>11, <2>1, <2>2
  <2>3. CASE k # m + 1
    <3>1. k \in 1 .. m /\ p[k] = o[k]
      BY <1>8, <2>3
    <3> QED
      BY <1>6, <1>8, <2>1, <3>1 DEF Progress, Ascending
  <2> QED
    BY <2>2, <2>3
<1>15. ASSUME NEW i \in 1 .. n, i < a PROVE Taken(input, p, i)
  <2>1. Taken(input, o, i)
    BY <1>6, <1>9, <1>15 DEF Progress
  <2>2. ASSUME NEW j \in 1 .. m, o[j].at = i PROVE \E k \in DOMAIN p : p[k].at = i
    <3>1. j \in 1 .. m + 1 /\ p[j] = o[j]
      BY <1>8
    <3> QED
      BY <1>8, <2>2, <3>1
  <2> QED
    BY <1>8, <2>1, <2>2 DEF Taken
<1>16. Progress(input, "ok", a, p)
  BY <1>6, <1>8, <1>9, <1>10, <1>12, <1>13, <1>14, <1>15 DEF Progress
<1>17. Shaped' /\ conversion'.status = "ok" /\ conversion'.at = a /\ conversion'.out = p
  BY ONLY <1>5, ShapedNext
<1>18. IsSequence(conversion.out)'
  BY <1>8, <1>17 DEF IsSequence
<1> QED
  BY <1>16, <1>17, <1>18 DEF ConvInv

LEMMA TurnKeeps ==
  ASSUME ConvInv, NEW refused \in BOOLEAN, ConvertToken(refused) \/ ConvertEnd(refused)
  PROVE  ConvInv'
<1>1. Running /\ UNCHANGED input
  BY DEF ConvertToken, ConvertEnd
<1>0. PICK a, o, r, u :
        conversion = [status |-> "running", at |-> a, out |-> o, reported |-> r,
                      unreported |-> u]
  BY <1>1, RunningIs
<1>2. ASSUME NEW q,
             conversion' = [status |-> "oom", at |-> conversion.at, out |-> conversion.out,
                            reported |-> q, unreported |-> conversion.unreported]
      PROVE  ConvInv'
  BY <1>1, <1>2, OomKeeps
<1>3. CASE ConvertToken(refused)
  <2>1. PICK made : made = FromToken(Next0)
    OBVIOUS
  <2>2. GoesOn(made, conversion.at)
    <3>1. Ended(input) /\ conversion.at \in DOMAIN input
      BY <1>1, RunningIs DEF Progress
    <3> QED
      BY <1>3, <2>1, <3>1, FromTokenIs DEF ConvertToken
  <2>3. CASE refused
    <3>1. PICK n : StopAfter(n, Reports(made.reported))
      BY <1>3, <2>1, <2>3 DEF ConvertToken, ConvertOrRefuse
    <3>2. PICK q : q = conversion.reported \o SubSeq(Reports(made.reported), 1, n)
      OBVIOUS
    <3>3. conversion' = [status |-> "oom", at |-> a, out |-> o, reported |-> q,
                         unreported |-> u]
      BY <1>0, <3>1, <3>2 DEF StopAfter
    <3> QED
      BY <1>0, <1>2, <3>3
  <2>4. CASE ~refused
    <3>1. ConvertMade(made)
      BY <1>3, <2>1, <2>4 DEF ConvertToken, ConvertOrRefuse
    <3> QED
      BY <1>1, <2>2, <3>1, MadeKeeps
  <2> QED
    BY <2>3, <2>4
<1>4. CASE ConvertEnd(refused)
  <2>1. CASE refused
    <3>1. conversion' = [status |-> "oom", at |-> a, out |-> o, reported |-> r,
                         unreported |-> u]
      BY <1>0, <1>4, <2>1 DEF ConvertEnd
    <3> QED
      BY <1>0, <1>2, <3>1
  <2>2. CASE ~refused
    BY <1>1, <1>4, <2>2, EofKeeps DEF ConvertEnd
  <2> QED
    BY <2>1, <2>2
<1> QED
  BY <1>3, <1>4

-----------------------------------------------------------------------------
(* The program.  Its steps are those of the lexer's callers, and of the    *)
(* stages.                                                                 *)
LEMMA ReadIsACall == ASSUME Read PROVE Caller
<1>1. PICK header_mode \in BOOLEAN : header_mode = (EndsSoFar = {} /\ AfterInclude)
  OBVIOUS
<1>2. NextToken(header_mode)
  BY <1>1 DEF Read, ReadToken
<1> QED
  BY <1>2 DEF Caller

LEMMA DriverCalls == ASSUME [Next]_vars PROVE [Caller]_lexVars
<1>1. ASSUME UNCHANGED vars PROVE UNCHANGED lexVars
  BY <1>1 DEF vars, lexVars
<1>2. ASSUME LibrariesUnchanged PROVE UNCHANGED lexVars
  BY <1>2 DEF LibrariesUnchanged
<1>3. ASSUME Next, ~Read PROVE UNCHANGED lexVars
  BY <1>2, <1>3 DEF Next, Alone, PreprocessEnd, ConvertBegin, ConvertNext,
                    ConvertNextStray, ConvertFinish
<1> QED
  BY <1>1, <1>3, ReadIsACall

LEMMA DriverStages == ASSUME [Next]_vars PROVE [StagesNext]_stageVars
<1>1. ASSUME UNCHANGED vars PROVE UNCHANGED stageVars
  BY <1>1 DEF vars, stageVars
<1>2. ASSUME Read \/ PreprocessEnd PROVE StagesNext
  BY <1>2 DEF Read, PreprocessEnd, StagesNext
<1>3. ASSUME ConvertBegin PROVE StagesNext
  <2>1. PICK refused \in BOOLEAN : ConvertInit(refused)
    BY <1>3 DEF ConvertBegin
  <2> QED
    BY <2>1 DEF StagesNext
<1>4. ASSUME ConvertNext PROVE StagesNext
  <2>1. PICK refused \in BOOLEAN : Convert(refused)
    BY <1>4 DEF ConvertNext
  <2> QED
    BY <2>1 DEF StagesNext
<1>5. ASSUME ConvertNextStray PROVE StagesNext
  <2>1. PICK refused \in BOOLEAN : ConvertPastStray(refused)
    BY <1>5 DEF ConvertNextStray
  <2> QED
    BY <2>1 DEF StagesNext
<1>6. ASSUME ConvertFinish PROVE StagesNext
  BY <1>6 DEF ConvertFinish, StagesNext
<1>7. ASSUME Next PROVE StagesNext
  BY <1>2, <1>3, <1>4, <1>5, <1>6, <1>7 DEF Next, Alone, StagesNext
<1> QED
  BY <1>1, <1>7

LEMMA DriverInit ==
  ASSUME Init
  PROVE  StagesInit /\ \E source \in Texts : LexInit(source)
<1>1. \E family \in DOMAIN Scenarios : \E s \in Scenarios[family] :
        /\ LexInit(Source(s))
        /\ driver = Outset(s.mode, s.to_file)
        /\ errors = 0
  BY DEF Init
<1>2. PICK source \in Seq(STRING \ {End}), mode \in Modes \cup OtherUsers, to_file \in BOOLEAN :
        LexInit(source) /\ driver = Outset(mode, to_file) /\ errors = 0
  BY <1>1, DriverAssumption
<1>3. StagesInit
  BY <1>2 DEF StagesInit
<1>4. source \in Texts
  BY <1>2 DEF Texts
<1> QED
  BY <1>2, <1>3, <1>4

LEMMA ConverterSteps ==
  ASSUME [Next]_vars
  PROVE  \/ UNCHANGED conversionVars
         \/ driver.pc = "convert_init" /\ ConvertStart(PpTokens)
         \/ \E refused \in BOOLEAN :
              ConvertToken(refused) \/ ConvertEnd(refused) \/ ConvertStray(refused)
<1>1. ASSUME UNCHANGED vars PROVE UNCHANGED conversionVars
  BY <1>1 DEF vars, conversionVars
<1>2. ASSUME LibrariesUnchanged PROVE UNCHANGED conversionVars
  BY <1>2 DEF LibrariesUnchanged
<1>3. ASSUME ConvertBegin
      PROVE  \/ UNCHANGED conversionVars
             \/ driver.pc = "convert_init" /\ ConvertStart(PpTokens)
  BY <1>3 DEF ConvertBegin, At0
<1>4. ASSUME ConvertNext
      PROVE  \E refused \in BOOLEAN : ConvertToken(refused) \/ ConvertEnd(refused)
  BY <1>4 DEF ConvertNext
<1>5. ASSUME ConvertNextStray PROVE \E refused \in BOOLEAN : ConvertStray(refused)
  BY <1>5 DEF ConvertNextStray
<1>6. ASSUME Next, ~ConvertBegin, ~ConvertNext, ~ConvertNextStray
      PROVE  UNCHANGED conversionVars
  BY <1>2, <1>6 DEF Next, Alone, Read, PreprocessEnd, ConvertFinish
<1> QED
  BY <1>1, <1>3, <1>4, <1>5, <1>6

(* The converter is begun when the text has been read to its end.          *)
ReadFirst == driver.pc = "convert_init" => Finished

(* No stage but the preprocessor leads to the converter.                   *)
LEMMA OnlyFromPreprocess ==
  ASSUME IInv, [Next]_vars, driver'.pc = "convert_init"
  PROVE  \/ Finished /\ UNCHANGED lexVars
         \/ driver.pc = "convert_init" /\ UNCHANGED lexVars
<1>1. driver \in Runs
  BY DEF IInv
<1>2. CASE UNCHANGED vars
  BY <1>2 DEF vars, lexVars
<1>3. CASE PreprocessEnd
  BY <1>3 DEF PreprocessEnd, LibrariesUnchanged
<1>4. ASSUME NEW pc, NEW what, Fail(what, pc) PROVE driver'.pc = pc
  BY <1>1, <1>4 DEF Fail, Runs
<1>5. ASSUME NEW pc, Step(pc) PROVE driver'.pc = pc
  BY <1>1, <1>5 DEF Step, Runs
<1>6. ASSUME NEW pc, NEW held, Acquire(held, pc) PROVE driver'.pc = pc
  BY <1>1, <1>6 DEF Acquire, Runs
<1>7. CASE Read
  <2>1. driver.pc = "preprocess" /\ driver' = driver
    BY <1>7 DEF Read, At0, Preprocess
  <2> QED
    BY <2>1
<1>8. CASE ConvertBegin
  <2>1. PICK refused \in BOOLEAN : ConvertInit(refused)
    BY <1>8 DEF ConvertBegin
  <2>2. driver'.pc \in {"release", "convert"}
    BY <1>4, <1>6, <2>1 DEF ConvertInit
  <2> QED
    BY <2>2
<1>9. CASE ConvertNext
  <2>1. PICK refused \in BOOLEAN : Convert(refused)
    BY <1>9 DEF ConvertNext
  <2>2. driver'.pc \in {"release", "convert"}
    BY <1>4, <2>1 DEF Convert, At0
  <2> QED
    BY <2>2
<1>10. CASE ConvertNextStray
  <2>1. PICK refused \in BOOLEAN : ConvertPastStray(refused)
    BY <1>10 DEF ConvertNextStray
  <2>2. driver'.pc = "convert"
    BY <1>1, <2>1 DEF ConvertPastStray, At0, Runs
  <2> QED
    BY <2>2
<1>11. CASE ConvertFinish
  <2>1. driver'.pc = "open"
    BY <1>5, <1>11 DEF ConvertFinish, ConvertDone
  <2> QED
    BY <2>1
<1>12. ASSUME Load \/ PpInit \/ Configure \/ Render PROVE FALSE
  <2>1. CASE Load
    BY <1>4, <1>6, <2>1 DEF Load
  <2>2. CASE PpInit
    BY <1>1, <1>6, <2>2 DEF PpInit, Runs
  <2>3. CASE Configure
    BY <1>4, <1>5, <2>3 DEF Configure
  <2>4. CASE Render
    BY <1>4, <1>5, <2>4 DEF Render
  <2> QED
    BY <1>12, <2>1, <2>2, <2>3, <2>4
<1>13. ASSUME Open \/ Write \/ WriteDeclaration \/ WriteDone \/ Close PROVE FALSE
  <2>1. CASE Open
    BY <1>4, <1>5, <2>1 DEF Open
  <2>2. CASE Write
    BY <1>1, <1>4, <2>2 DEF Write, Runs
  <2>3. CASE WriteDeclaration
    BY <1>1, <1>4, <2>3 DEF WriteDeclaration, At0, Runs
  <2>4. CASE WriteDone
    BY <1>1, <1>4, <2>4 DEF WriteDone, Runs
  <2>5. CASE Close
    BY <1>1, <1>5, <2>5 DEF Close, Runs
  <2> QED
    BY <1>13, <2>1, <2>2, <2>3, <2>4, <2>5
<1>14. ASSUME Release \/ Report0 \/ Dispose PROVE FALSE
  BY <1>1, <1>14 DEF Release, Report0, Dispose, Runs
<1> QED
  BY <1>2, <1>3, <1>7, <1>8, <1>9, <1>10, <1>11, <1>12, <1>13, <1>14 DEF Next, Alone

LEMMA ReadFirstKeeps ==
  ASSUME IInv, ReadFirst, [Next]_vars
  PROVE  ReadFirst'
<1> SUFFICES ASSUME driver'.pc = "convert_init" PROVE Finished'
  BY DEF ReadFirst
<1>1. Finished /\ UNCHANGED lexVars
  BY OnlyFromPreprocess DEF ReadFirst
<1> QED
  BY <1>1 DEF lexVars, Finished, EndsSoFar, Stream

LEMMA ConvKeeps ==
  ASSUME LexInv, ReadFirst, ConvInv, [Next]_vars
  PROVE  ConvInv'
<1>1. CASE UNCHANGED conversionVars
  BY <1>1 DEF conversionVars, ConvInv, Shaped, IsSequence, Progress
<1>2. CASE driver.pc = "convert_init" /\ ConvertStart(PpTokens)
  <2>1. Finished /\ IsSequence(tokens)
    BY <1>2 DEF ReadFirst, LexInv, LexTyped
  <2>2. PICK pp_tokens : pp_tokens = PpTokens /\ Ended(pp_tokens)
    BY <2>1, PpTokensEnded
  <2> QED
    BY <1>2, <2>2, StartKeeps
<1>3. CASE \E refused \in BOOLEAN :
             ConvertToken(refused) \/ ConvertEnd(refused) \/ ConvertStray(refused)
  BY <1>3, TurnKeeps, StrayKeeps
<1> QED
  BY <1>1, <1>2, <1>3, ConverterSteps

(* The program's lexer is called as Lexer says, whatever stage fails.      *)
THEOREM RunsTheLexer == Spec => LexSpec
<1>1. Init => \E source \in Texts : LexInit(source)
  BY DriverInit
<1>2. [Next]_vars => [Caller]_lexVars
  BY DriverCalls
<1> QED
  BY <1>1, <1>2, PTL DEF Spec, LexSpec

(* The program goes through the stages as Stages says.                     *)
THEOREM RunsTheStages == Spec => StagesSpec
<1>1. Init => StagesInit
  BY DriverInit
<1>2. [Next]_vars => [StagesNext]_stageVars
  BY DriverStages
<1> QED
  BY <1>1, <1>2, PTL DEF Spec, StagesSpec

(* In no run is a second newline supplied at the end of the text           *)
(* (lexer.c:92-107).                                                       *)
THEOREM ProgramNewlineOnce == Spec => []NewlineOnce
BY RunsTheLexer, LexedNewlineOnce, PTL

(* No run reads what has been given back, or ends holding anything         *)
(* (main.c:151-210, 331-408, 495-572).                                     *)
THEOREM ProgramHolds == Spec => []HeldWhileNeeded
BY RunsTheStages, EverythingHeld, PTL

(* The tokens the program reads are apart and in order, they end, their    *)
(* lines are right, and no report is outside the text.                     *)
THEOREM ProgramTokens ==
  Spec => [](TokensApart /\ EndComes /\ Numbered /\ FirstOfLine /\ ReportsInside)
BY RunsTheLexer, LexedApart, LexedToTheEnd, LexedLines, LexedReports, PTL

(* The exit code of the program is true of what the lexer, the converter   *)
(* and the parser have reported (main.c:20-23).                            *)
THEOREM ProgramExit == Spec => []ExitTellsTruth
BY RunsTheStages, ExitIsTrue, PTL

(* The converter is given the tokens of phase 4 with the end of input as   *)
(* the last, as its comment says it always is (convert.c:305-307): its     *)
(* loop never reads past it, skips none but stray tokens and the strings   *)
(* that join the one before, puts them out in their order, and ends with   *)
(* the end of input, whatever request for memory is refused.               *)
THEOREM ProgramConverts == Spec => []ConvInv
<1>1. Init => IInv /\ LexInv /\ ReadFirst /\ ConvInv
  <2> SUFFICES ASSUME Init PROVE IInv /\ LexInv /\ ReadFirst /\ ConvInv
    OBVIOUS
  <2>1. ConversionInit
    BY DEF Init
  <2>2. driver.pc # "convert_init"
    <3>1. PICK mode, to_file : driver = Outset(mode, to_file)
      BY DEF Init
    <3> QED
      BY <3>1 DEF Outset
  <2> QED
    BY <2>1, <2>2, DriverInit, InitHolds, LexInitHolds, ConvInitHolds DEF ReadFirst
<1>2. IInv /\ LexInv /\ ReadFirst /\ ConvInv /\ [Next]_vars
        => (IInv /\ LexInv /\ ReadFirst /\ ConvInv)'
  <2> SUFFICES ASSUME IInv, LexInv, ReadFirst, ConvInv, [Next]_vars
               PROVE  IInv' /\ LexInv' /\ ReadFirst' /\ ConvInv'
    OBVIOUS
  <2>1. IInv'
    BY DriverStages, NextKeeps
  <2>2. LexInv'
    BY DriverCalls, CallKeeps
  <2> QED
    BY <2>1, <2>2, ReadFirstKeeps, ConvKeeps
<1> QED
  BY <1>1, <1>2, PTL DEF Spec
=============================================================================
